---------------------------- MODULE IngestProofs ----------------------------
(***************************************************************************)
(* Theorems about the producers of the export router: what an answer means *)
(* (Route, Ingest), the journal reader's implementation of Delivery        *)
(* (Journald), and the offsets and tokens of the Azure readers (AzureHub). *)
(***************************************************************************)
EXTENDS Ingest, Journald, AzureHub, TLAPS

-----------------------------------------------------------------------------
(* The router *)

\* The destination of a resource does not depend on what the memo holds.
FixedDest(r) ==
  IF Marker[r] # NoMark THEN IF Marker[r] \in Dests THEN Marker[r] ELSE Default
  ELSE IF Namespace[r] = NoNs THEN Default ELSE GlobNamespace(Namespace[r])

RouteDests == {FixedDest(r) : r \in Resources}
Outcomes == {"ok", "permanent", "transient"}

CallType == [pc : {"idle", "send", "answered"}, groups : SUBSET Resources, todo : SUBSET RouteDests,
             errs : SUBSET Outcomes, ans : Outcomes \cup {"none"}, offers : Nat]

MemoOK == \A n \in DOMAIN memo : memo[n] = GlobNamespace(n)

\* What became of resource r of x's call c: still to send, failed for now,
\* delivered, or refused with an answer that says so.
Told(x, c, r) ==
  \/ FixedDest(r) \in c.todo \/ "transient" \in c.errs
  \/ Delivered(x, r)
  \/ "permanent" \in c.errs /\ <<x, r>> \in refused

CallOK(x, c) ==
  /\ c.pc # "idle" => \A r \in c.groups : Told(x, c, r)
  /\ c.pc = "answered" => c.todo = {} /\ c.ans = Joined(c.errs)

RouteInv ==
  /\ call \in [Producers -> CallType]
  /\ accepted \in [Producers -> [Resources -> Nat]]
  /\ MemoOK
  /\ \A x \in Producers : CallOK(x, call[x])

LEMMA DecideFixed ==
  ASSUME MemoOK, NEW r
  PROVE  Decide(r) = FixedDest(r)
BY DEF MemoOK, Decide, FixedDest, NamespaceDest

LEMMA IdleTyped == Idle \in CallType
BY DEF Idle, CallType

LEMMA RouteStarts == RouteInit => RouteInv
<1> SUFFICES ASSUME RouteInit PROVE RouteInv
  OBVIOUS
<1>1. call \in [Producers -> CallType] /\ accepted \in [Producers -> [Resources -> Nat]] /\ MemoOK
  BY IdleTyped DEF RouteInit, MemoOK
<1>2. \A x \in Producers : CallOK(x, call[x])
  BY DEF RouteInit, CallOK, Idle
<1> QED BY <1>1, <1>2 DEF RouteInv

\* A call that is given up or answered starts afresh.
LEMMA IdleKeeps ==
  ASSUME RouteInv, NEW x \in Producers, call' = [call EXCEPT ![x] = Idle],
         UNCHANGED <<memo, accepted, refused>>
  PROVE  RouteInv'
<1>1. call' \in [Producers -> CallType] /\ (accepted \in [Producers -> [Resources -> Nat]])' /\ MemoOK'
  BY IdleTyped DEF RouteInv, MemoOK
<1>2. ASSUME NEW y \in Producers PROVE CallOK(y, call[y])'
  <2>1. CASE y = x
    BY <2>1 DEF RouteInv, CallOK, Idle
  <2>2. CASE y # x
    <3>1. call'[y] = call[y] /\ CallOK(y, call[y])
      BY <2>2 DEF RouteInv
    <3> QED BY <3>1 DEF CallOK, Told, Delivered, Joined
  <2> QED BY <2>1, <2>2
<1> QED BY <1>1, <1>2 DEF RouteInv

LEMMA StartKeeps ==
  ASSUME RouteInv, NEW x \in Producers, NEW P \in SUBSET Resources, StartExport(x, P)
  PROVE  /\ RouteInv'
         /\ call'[x].pc = "send" /\ call'[x].groups = P /\ call'[x].todo = {FixedDest(r) : r \in P}
         /\ call'[x].errs = {}
         /\ \A y \in Producers \ {x} : call'[y] = call[y]
         /\ UNCHANGED <<accepted, lostAns, refused>>
<1>1. PICK kept : memo' = [n \in DOMAIN memo \cup kept |-> IF n \in kept THEN GlobNamespace(n) ELSE memo[n]]
  BY DEF StartExport
<1>2. MemoOK'
  <2>1. \A n \in DOMAIN memo' : memo'[n] = GlobNamespace(n)
    BY <1>1 DEF RouteInv, MemoOK
  <2> QED BY <2>1 DEF MemoOK, GlobNamespace
<1>3. PICK c : c = [pc |-> "send", groups |-> P, todo |-> Split(P),
                    errs |-> {}, ans |-> "none", offers |-> call[x].offers + 1]
  OBVIOUS
<1>4. call' = [call EXCEPT ![x] = c] /\ UNCHANGED <<accepted, lostAns, refused>>
  BY <1>3 DEF StartExport
<1>5. Split(P) = {FixedDest(r) : r \in P}
  BY DecideFixed DEF Split, RouteInv
<1>6. c.todo = {FixedDest(r) : r \in P}
  BY <1>3, <1>5
<1>7. call[x] \in CallType
  BY DEF RouteInv
<1>8. c \in CallType /\ c.pc = "send" /\ c.groups = P /\ c.errs = {}
  BY <1>3, <1>6, <1>7 DEF CallType, RouteDests
<1>9. call' \in [Producers -> CallType] /\ call'[x] = c /\ \A y \in Producers \ {x} : call'[y] = call[y]
  BY <1>4, <1>8 DEF RouteInv
<1>10. ASSUME NEW y \in Producers PROVE CallOK(y, call[y])'
  <2>1. CASE y = x
    BY <2>1, <1>6, <1>8, <1>9 DEF CallOK, Told
  <2>2. CASE y # x
    <3>1. call'[y] = call[y] /\ CallOK(y, call[y])
      BY <2>2, <1>4 DEF RouteInv
    <3> QED BY <3>1, <1>4 DEF CallOK, Told, Delivered, Joined
  <2> QED BY <2>1, <2>2
<1> QED BY <1>2, <1>4, <1>6, <1>8, <1>9, <1>10 DEF RouteInv

\* A share is taken, refused or fails; nothing that was taken is forgotten.
LEMMA SendKeeps ==
  ASSUME RouteInv, NEW x \in Producers, SendShare(x)
  PROVE  /\ RouteInv' /\ UNCHANGED memo
         /\ \A y \in Producers, r \in Resources : Delivered(y, r) => Delivered(y, r)'
         /\ refused \subseteq refused'
         /\ call'[x].pc = "send" /\ call'[x].groups = call[x].groups
         /\ \A y \in Producers \ {x} : call'[y] = call[y]
<1>1. PICK d \in call[x].todo, a \in Outcomes :
        LET share == Share(call[x].groups, d) IN
        /\ call' = [call EXCEPT ![x] = [call[x] EXCEPT !.todo = @ \ {d}, !.errs = @ \cup {a}]]
        /\ \/ a \in {"ok", "transient"} /\ Accept(x, share) /\ UNCHANGED refused
           \/ a = "permanent" /\ refused' = refused \cup {<<x, r>> : r \in share} /\ UNCHANGED accepted
           \/ a = "transient" /\ UNCHANGED <<accepted, refused>>
  BY DEF SendShare, Outcomes
<1>t. call[x] \in CallType /\ CallOK(x, call[x]) /\ call[x].pc = "send"
  BY DEF RouteInv, SendShare
<1>m. UNCHANGED memo
  BY DEF SendShare
<1>2. PICK c : c = [call[x] EXCEPT !.todo = @ \ {d}, !.errs = @ \cup {a}]
  OBVIOUS
<1>3. /\ c \in CallType /\ c.pc = "send" /\ c.groups = call[x].groups
      /\ c.todo = call[x].todo \ {d} /\ c.errs = call[x].errs \cup {a}
  BY <1>2, <1>t DEF CallType
<1>4. call' = [call EXCEPT ![x] = c]
  BY <1>1, <1>2
<1>5. call' \in [Producers -> CallType] /\ call'[x] = c /\ \A y \in Producers \ {x} : call'[y] = call[y]
  BY <1>3, <1>4 DEF RouteInv
<1>6. MemoOK'
  BY <1>m DEF MemoOK, RouteInv
<1>7. /\ (accepted \in [Producers -> [Resources -> Nat]])'
      /\ \A y \in Producers, r \in Resources : Delivered(y, r) => Delivered(y, r)'
      /\ refused \subseteq refused'
  <2>1. CASE Accept(x, Share(call[x].groups, d)) /\ UNCHANGED refused
    <3>1. PICK share : share = Share(call[x].groups, d)
      OBVIOUS
    <3>2. accepted' = [accepted EXCEPT ![x] = [r \in Resources |->
             IF r \in share /\ accepted[x][r] < 2 THEN accepted[x][r] + 1 ELSE accepted[x][r]]]
      BY <2>1, <3>1 DEF Accept
    <3>3. accepted \in [Producers -> [Resources -> Nat]]
      BY DEF RouteInv
    <3>4. (accepted \in [Producers -> [Resources -> Nat]])'
      BY <3>2, <3>3
    <3>5. \A y \in Producers, r \in Resources : accepted[y][r] > 0 => accepted'[y][r] > 0
      BY <3>2, <3>3
    <3> QED BY <2>1, <3>4, <3>5 DEF Delivered
  <2>2. CASE UNCHANGED accepted /\ refused \subseteq refused'
    BY <2>2 DEF RouteInv, Delivered
  <2> QED BY <1>1, <2>1, <2>2
<1>8. ASSUME NEW r \in c.groups PROVE Told(x, c, r)'
  <2>0. r \in Resources /\ Told(x, call[x], r) /\ r \in call[x].groups
    BY <1>3, <1>t DEF CallOK, CallType
  <2>1. CASE FixedDest(r) # d
    BY <2>0, <2>1, <1>3, <1>7 DEF Told
  <2>2. CASE FixedDest(r) = d
    <3>0. Decide(r) = d
      BY <2>2, DecideFixed DEF RouteInv
    <3>1. r \in Share(call[x].groups, d)
      BY <3>0, <2>0 DEF Share
    <3>2. CASE a \in {"ok", "transient"} /\ Accept(x, Share(call[x].groups, d))
      <4>1. accepted'[x][r] > 0
        BY <3>1, <3>2, <2>0 DEF Accept, RouteInv
      <4> QED BY <4>1 DEF Told, Delivered
    <3>3. CASE a = "permanent" /\ refused' = refused \cup {<<x, q>> : q \in Share(call[x].groups, d)}
      BY <3>1, <3>3, <1>3 DEF Told
    <3>4. CASE a = "transient"
      BY <3>4, <1>3 DEF Told
    <3> QED BY <3>2, <3>3, <3>4, <1>1
  <2> QED BY <2>1, <2>2
<1>9. ASSUME NEW y \in Producers PROVE CallOK(y, call[y])'
  <2>1. CASE y = x
    BY <2>1, <1>3, <1>5, <1>8 DEF CallOK, Told
  <2>2. CASE y # x
    <3>1. call'[y] = call[y] /\ CallOK(y, call[y]) /\ call[y].groups \subseteq Resources
      BY <2>2, <1>5 DEF RouteInv, CallType
    <3>2. \A r \in Resources : Told(y, call[y], r) => Told(y, call[y], r)'
      BY <3>1, <1>7 DEF Told
    <3> QED BY <3>1, <3>2 DEF CallOK
  <2> QED BY <2>1, <2>2
<1> QED BY <1>m, <1>3, <1>5, <1>6, <1>7, <1>9 DEF RouteInv

LEMMA FinishKeeps ==
  ASSUME RouteInv, NEW x \in Producers, FinishExport(x)
  PROVE  /\ RouteInv' /\ UNCHANGED <<memo, accepted, lostAns, refused>>
         /\ call'[x].pc = "answered" /\ call'[x].groups = call[x].groups /\ call'[x].errs = call[x].errs
         /\ call'[x].todo = {}
         /\ \A y \in Producers \ {x} : call'[y] = call[y]
<1>1. PICK c : c = [call[x] EXCEPT !.pc = "answered", !.todo = {}, !.ans = Joined(call[x].errs)]
  OBVIOUS
<1>t. call[x] \in CallType /\ CallOK(x, call[x]) /\ call[x].pc = "send"
  BY DEF RouteInv, FinishExport
<1>2. Joined(call[x].errs) \in Outcomes
  BY DEF Joined, Outcomes
<1>3. /\ c \in CallType /\ c.pc = "answered" /\ c.groups = call[x].groups /\ c.errs = call[x].errs
      /\ c.todo = {} /\ c.ans = Joined(c.errs)
  BY <1>1, <1>2, <1>t DEF CallType
<1>4. call' = [call EXCEPT ![x] = c] /\ UNCHANGED <<memo, accepted, lostAns, refused>>
  BY <1>1 DEF FinishExport
<1>5. call' \in [Producers -> CallType] /\ call'[x] = c /\ \A y \in Producers \ {x} : call'[y] = call[y]
  BY <1>3, <1>4 DEF RouteInv
<1>6. ASSUME NEW y \in Producers PROVE CallOK(y, call[y])'
  <2>1. CASE y = x
    <3>1. call[x].todo = {} \/ "transient" \in call[x].errs
      BY DEF FinishExport, Withhold
    <3>2. \A r \in c.groups : Told(x, c, r)
      BY <3>1, <1>3, <1>t DEF CallOK, Told
    <3> QED BY <2>1, <3>2, <1>3, <1>4, <1>5 DEF CallOK, Told, Delivered, Joined
  <2>2. CASE y # x
    <3>1. call'[y] = call[y] /\ CallOK(y, call[y])
      BY <2>2, <1>5 DEF RouteInv
    <3> QED BY <3>1, <1>4 DEF CallOK, Told, Delivered, Joined
  <2> QED BY <2>1, <2>2
<1>7. MemoOK' /\ (accepted \in [Producers -> [Resources -> Nat]])'
  BY <1>4 DEF RouteInv, MemoOK
<1> QED BY <1>3, <1>4, <1>5, <1>6, <1>7 DEF RouteInv

\* What an answer means (joinExportErrs).
LEMMA AnswerMeans ==
  ASSUME RouteInv, NEW x \in Producers, Answered(x)
  PROVE  /\ call[x].ans = "ok" => \A r \in call[x].groups : Delivered(x, r)
         /\ call[x].ans \in {"ok", "permanent"} =>
              \A r \in call[x].groups : Delivered(x, r) \/ <<x, r>> \in refused
BY DEF RouteInv, Answered, CallOK, Told, Joined

-----------------------------------------------------------------------------
(* The receiver *)

\* push[p] is a record of these fields; none of their types matters here.
PushShaped(q) ==
  q = [pc |-> q.pc, held |-> q.held, claim |-> q.claim, key |-> q.key, dec |-> q.dec,
       slot |-> q.slot, alive |-> q.alive, ans |-> q.ans, tries |-> q.tries]

\* Where a push stands with its export, and what its sender was told.
PushOK(p, q) ==
  /\ q.pc \notin {"forward", "return", "ending", "ended"} => call[p].pc = "idle"
  /\ q.pc = "forward" => call[p].pc # "idle" /\ call[p].groups = Admitted(p)
  /\ call[p].pc = "send" => q.pc = "forward"
  /\ q.pc \notin {"return", "ending", "ended"} => q.ans = "none"
  /\ q.ans = "ok" => \A r \in Admitted(p) : Delivered(p, r)
  /\ q.ans = "permanent" /\ Answered(p) =>
       \A r \in Admitted(p) : Delivered(p, r) \/ <<p, r>> \in refused

PushInv ==
  /\ RouteInv
  /\ push = [p \in Pushes |-> push[p]]
  /\ \A p \in Pushes : PushShaped(push[p]) /\ PushOK(p, push[p])

LEMMA PushesProduce ==
  ASSUME NEW p \in Pushes
  PROVE  p \in Producers /\ Admitted(p) \in SUBSET Resources
BY RouteAssumption DEF Pushes, Admitted

LEMMA PushStarts == RouteInit /\ IngestInit => PushInv
<1> SUFFICES ASSUME RouteInit, IngestInit PROVE PushInv
  OBVIOUS
<1>1. PushShaped(Fresh)
  BY DEF Fresh, PushShaped
<1>2. push = [p \in Pushes |-> push[p]]
  BY DEF IngestInit
<1>3. \A p \in Pushes : push[p] = Fresh /\ call[p] = Idle
  BY PushesProduce DEF IngestInit, RouteInit
<1>4. \A p \in Pushes : PushShaped(push[p]) /\ PushOK(p, push[p])
  BY <1>1, <1>3 DEF PushOK, Fresh, Idle
<1> QED BY <1>2, <1>4, RouteStarts DEF PushInv

\* A step of one push that leaves the router alone.
LEMMA QuietKeeps ==
  ASSUME PushInv, NEW p \in Pushes, NEW q, push' = [push EXCEPT ![p] = q], UNCHANGED routeVars,
         PushShaped(q), PushOK(p, q)
  PROVE  PushInv'
<1>1. RouteInv'
  BY DEF PushInv, RouteInv, routeVars, MemoOK, CallOK, Told, Delivered, Joined
<1>2. push' = [y \in Pushes |-> push'[y]] /\ \A y \in Pushes : push'[y] = IF y = p THEN q ELSE push[y]
  BY DEF PushInv
<1>3. ASSUME NEW y \in Pushes PROVE (PushShaped(push[y]) /\ PushOK(y, push[y]))'
  <2>2. PushShaped(push'[y]) /\ PushOK(y, push'[y])
    BY <1>2 DEF PushInv
  <2> QED BY <2>2 DEF PushShaped, PushOK, routeVars, Answered, Delivered
<1> QED BY <1>1, <1>2, <1>3 DEF PushInv

\* The steps of a gRPC push before its handler, and its end.
LEMMA GrpcKeeps ==
  ASSUME PushInv, NEW p \in Pushes,
         Tap(p) \/ TapUndo(p) \/ ClaimDecode(p) \/ ClaimUndo(p) \/ AbandonDecode(p) \/
         StreamFails(p) \/ LimitUnary(p) \/ StreamEnd(p) \/ ReleaseOnDone(p) \/ Expire(p) \/ TooDeep(p)
  PROVE  PushInv'
<1>t. PushShaped(push[p]) /\ PushOK(p, push[p])
  BY DEF PushInv
<1>1. CASE Tap(p)
  <2>p. push[p].pc = "idle"
    BY <1>1 DEF Tap
  <2>1. CASE push' = [push EXCEPT ![p] = [push[p] EXCEPT !.pc = "stream", !.held = MaxRecv, !.alive = TRUE]]
    <3>1. PICK q : q = [push[p] EXCEPT !.pc = "stream", !.held = MaxRecv, !.alive = TRUE]
      OBVIOUS
    <3>2. PushShaped(q) /\ q.pc = "stream" /\ q.ans = push[p].ans
      BY <3>1, <1>t DEF PushShaped
    <3>3. PushOK(p, q)
      BY <2>p, <3>2, <1>t DEF PushOK, Answered
    <3> QED BY <2>1, <3>1, <3>2, <3>3, <1>1, QuietKeeps DEF Tap
  <2>2. CASE push' = [push EXCEPT ![p] = [push[p] EXCEPT !.pc = "tapUndo"]]
    <3>1. PICK q : q = [push[p] EXCEPT !.pc = "tapUndo"]
      OBVIOUS
    <3>2. PushShaped(q) /\ q.pc = "tapUndo" /\ q.ans = push[p].ans
      BY <3>1, <1>t DEF PushShaped
    <3>3. PushOK(p, q)
      BY <2>p, <3>2, <1>t DEF PushOK, Answered
    <3> QED BY <2>2, <3>1, <3>2, <3>3, <1>1, QuietKeeps DEF Tap
  <2> QED BY <1>1, <2>1, <2>2 DEF Tap, Set
<1>2. CASE TapUndo(p)
  <2>p. push[p].pc = "tapUndo"
    BY <1>2 DEF TapUndo
  <2>1. PICK q : q = [push[p] EXCEPT !.pc = "ended", !.ans = "retry"]
    OBVIOUS
  <2>2. PushShaped(q) /\ q.pc = "ended" /\ q.ans = "retry"
    BY <2>1, <1>t DEF PushShaped
  <2>3. push' = [push EXCEPT ![p] = q] /\ UNCHANGED routeVars
    BY <2>1, <1>2 DEF TapUndo, Set
  <2>4. PushOK(p, q)
    BY <2>p, <2>2, <1>t DEF PushOK, Answered
  <2> QED BY <2>2, <2>3, <2>4, QuietKeeps
<1>3. CASE ClaimDecode(p)
  <2>p. push[p].pc \in {"stream", "probe"}
    BY <1>3 DEF ClaimDecode
  <2>1. CASE push' = [push EXCEPT ![p] = [push[p] EXCEPT !.claim = Put(@, DecodedSize[p]), !.key = TRUE,
                                    !.pc = IF @ = "stream" THEN "probe" ELSE "ending",
                                    !.ans = IF push[p].pc = "probe" THEN "permanent" ELSE @]]
    <3>1. PICK q : q = [push[p] EXCEPT !.claim = Put(@, DecodedSize[p]), !.key = TRUE,
                                    !.pc = IF @ = "stream" THEN "probe" ELSE "ending",
                                    !.ans = IF push[p].pc = "probe" THEN "permanent" ELSE @]
      OBVIOUS
    <3>2. PushShaped(q) /\ q.pc = (IF push[p].pc = "stream" THEN "probe" ELSE "ending") /\ q.ans = (IF push[p].pc = "probe" THEN "permanent" ELSE push[p].ans)
      BY <3>1, <1>t DEF PushShaped
    <3>3. PushOK(p, q)
      BY <2>p, <3>2, <1>t DEF PushOK, Answered
    <3> QED BY <2>1, <3>1, <3>2, <3>3, <1>3, QuietKeeps DEF ClaimDecode
  <2>2. CASE push' = [push EXCEPT ![p] = [push[p] EXCEPT !.claim = Put(@, DecodedSize[p]), !.pc = "malformed"]]
    <3>1. PICK q : q = [push[p] EXCEPT !.claim = Put(@, DecodedSize[p]), !.pc = "malformed"]
      OBVIOUS
    <3>2. PushShaped(q) /\ q.pc = "malformed" /\ q.ans = push[p].ans
      BY <3>1, <1>t DEF PushShaped
    <3>3. PushOK(p, q)
      BY <2>p, <3>2, <1>t DEF PushOK, Answered
    <3> QED BY <2>2, <3>1, <3>2, <3>3, <1>3, QuietKeeps DEF ClaimDecode
  <2>3. CASE push' = [push EXCEPT ![p] = [push[p] EXCEPT !.pc = IF @ = "stream" THEN "claimUndo" ELSE "claimUndo2"]]
    <3>1. PICK q : q = [push[p] EXCEPT !.pc = IF @ = "stream" THEN "claimUndo" ELSE "claimUndo2"]
      OBVIOUS
    <3>2. PushShaped(q) /\ q.pc = (IF push[p].pc = "stream" THEN "claimUndo" ELSE "claimUndo2") /\ q.ans = push[p].ans
      BY <3>1, <1>t DEF PushShaped
    <3>3. PushOK(p, q)
      BY <2>p, <3>2, <1>t DEF PushOK, Answered
    <3> QED BY <2>3, <3>1, <3>2, <3>3, <1>3, QuietKeeps DEF ClaimDecode
  <2> QED BY <1>3, <2>1, <2>2, <2>3 DEF ClaimDecode, Set
<1>4. CASE ClaimUndo(p)
  <2>p. push[p].pc \in {"claimUndo", "claimUndo2"}
    BY <1>4 DEF ClaimUndo
  <2>1. PICK q : q = [push[p] EXCEPT !.claim = Put(@, -1), !.key = TRUE,
                            !.pc = IF @ = "claimUndo" THEN "probe" ELSE "ending",
                            !.ans = IF push[p].pc = "claimUndo2" THEN "permanent" ELSE @]
    OBVIOUS
  <2>2. PushShaped(q) /\ q.pc = (IF push[p].pc = "claimUndo" THEN "probe" ELSE "ending") /\ q.ans = (IF push[p].pc = "claimUndo2" THEN "permanent" ELSE push[p].ans)
    BY <2>1, <1>t DEF PushShaped
  <2>3. push' = [push EXCEPT ![p] = q] /\ UNCHANGED routeVars
    BY <2>1, <1>4 DEF ClaimUndo, Set
  <2>4. PushOK(p, q)
    BY <2>p, <2>2, <1>t DEF PushOK, Answered
  <2> QED BY <2>2, <2>3, <2>4, QuietKeeps
<1>5. CASE AbandonDecode(p)
  <2>p. push[p].pc = "malformed"
    BY <1>5 DEF AbandonDecode
  <2>1. PICK q : q = [push[p] EXCEPT !.claim = 0, !.pc = "ending", !.ans = "permanent"]
    OBVIOUS
  <2>2. PushShaped(q) /\ q.pc = "ending" /\ q.ans = "permanent"
    BY <2>1, <1>t DEF PushShaped
  <2>3. push' = [push EXCEPT ![p] = q] /\ UNCHANGED routeVars
    BY <2>1, <1>5 DEF AbandonDecode, Set
  <2>4. PushOK(p, q)
    BY <2>p, <2>2, <1>t DEF PushOK, Answered
  <2> QED BY <2>2, <2>3, <2>4, QuietKeeps
<1>6. CASE StreamFails(p)
  <2>p. push[p].pc \in {"stream", "probe"}
    BY <1>6 DEF StreamFails
  <2>1. PICK q : q = [push[p] EXCEPT !.pc = "ending", !.ans = "retry"]
    OBVIOUS
  <2>2. PushShaped(q) /\ q.pc = "ending" /\ q.ans = "retry"
    BY <2>1, <1>t DEF PushShaped
  <2>3. push' = [push EXCEPT ![p] = q] /\ UNCHANGED routeVars
    BY <2>1, <1>6 DEF StreamFails, Set
  <2>4. PushOK(p, q)
    BY <2>p, <2>2, <1>t DEF PushOK, Answered
  <2> QED BY <2>2, <2>3, <2>4, QuietKeeps
<1>7. CASE LimitUnary(p)
  <2>p. push[p].pc = "probe"
    BY <1>7 DEF LimitUnary
  <2>1. CASE push' = [push EXCEPT ![p] = [push[p] EXCEPT !.claim = 0, !.held = 0, !.pc = "ending", !.ans = "retry"]]
    <3>1. PICK q : q = [push[p] EXCEPT !.claim = 0, !.held = 0, !.pc = "ending", !.ans = "retry"]
      OBVIOUS
    <3>2. PushShaped(q) /\ q.pc = "ending" /\ q.ans = "retry"
      BY <3>1, <1>t DEF PushShaped
    <3>3. PushOK(p, q)
      BY <2>p, <3>2, <1>t DEF PushOK, Answered
    <3> QED BY <2>1, <3>1, <3>2, <3>3, <1>7, QuietKeeps DEF LimitUnary
  <2>2. CASE push' = [push EXCEPT ![p] = [push[p] EXCEPT !.claim = 0, !.pc = "ending", !.ans = "retry"]]
    <3>1. PICK q : q = [push[p] EXCEPT !.claim = 0, !.pc = "ending", !.ans = "retry"]
      OBVIOUS
    <3>2. PushShaped(q) /\ q.pc = "ending" /\ q.ans = "retry"
      BY <3>1, <1>t DEF PushShaped
    <3>3. PushOK(p, q)
      BY <2>p, <3>2, <1>t DEF PushOK, Answered
    <3> QED BY <2>2, <3>1, <3>2, <3>3, <1>7, QuietKeeps DEF LimitUnary
  <2>3. CASE push' = [push EXCEPT ![p] = [push[p] EXCEPT !.claim = 0, !.dec = push[p].claim, !.slot = TRUE, !.held = 0, !.pc = "handle"]]
    <3>1. PICK q : q = [push[p] EXCEPT !.claim = 0, !.dec = push[p].claim, !.slot = TRUE, !.held = 0, !.pc = "handle"]
      OBVIOUS
    <3>2. PushShaped(q) /\ q.pc = "handle" /\ q.ans = push[p].ans
      BY <3>1, <1>t DEF PushShaped
    <3>3. PushOK(p, q)
      BY <2>p, <3>2, <1>t DEF PushOK, Answered
    <3> QED BY <2>3, <3>1, <3>2, <3>3, <1>7, QuietKeeps DEF LimitUnary
  <2> QED BY <1>7, <2>1, <2>2, <2>3 DEF LimitUnary, Set
<1>8. CASE StreamEnd(p)
  <2>p. push[p].pc = "ending"
    BY <1>8 DEF StreamEnd
  <2>1. PICK q : q = [push[p] EXCEPT !.pc = "ended", !.claim = IF push[p].key THEN 0 ELSE @, !.key = FALSE,
                            !.alive = FALSE]
    OBVIOUS
  <2>2. PushShaped(q) /\ q.pc = "ended" /\ q.ans = push[p].ans
    BY <2>1, <1>t DEF PushShaped
  <2>3. push' = [push EXCEPT ![p] = q] /\ UNCHANGED routeVars
    BY <2>1, <1>8 DEF StreamEnd, Set
  <2>4. PushOK(p, q)
    BY <2>p, <2>2, <1>t DEF PushOK, Answered
  <2> QED BY <2>2, <2>3, <2>4, QuietKeeps
<1>9. CASE ReleaseOnDone(p)
  <2>1. PICK q : q = [push[p] EXCEPT !.held = 0]
    OBVIOUS
  <2>2. PushShaped(q) /\ q.pc = push[p].pc /\ q.ans = push[p].ans
    BY <2>1, <1>t DEF PushShaped
  <2>3. push' = [push EXCEPT ![p] = q] /\ UNCHANGED routeVars
    BY <2>1, <1>9 DEF ReleaseOnDone, Set
  <2>4. PushOK(p, q)
    BY <2>2, <1>t DEF PushOK, Answered
  <2> QED BY <2>2, <2>3, <2>4, QuietKeeps
<1>10. CASE Expire(p)
  <2>1. PICK q : q = [push[p] EXCEPT !.held = 0, !.alive = FALSE]
    OBVIOUS
  <2>2. PushShaped(q) /\ q.pc = push[p].pc /\ q.ans = push[p].ans
    BY <2>1, <1>t DEF PushShaped
  <2>3. push' = [push EXCEPT ![p] = q] /\ UNCHANGED routeVars
    BY <2>1, <1>10 DEF Expire, Set
  <2>4. PushOK(p, q)
    BY <2>2, <1>t DEF PushOK, Answered
  <2> QED BY <2>2, <2>3, <2>4, QuietKeeps
<1>11. CASE TooDeep(p)
  <2>p. push[p].pc \in {"stream", "probe"}
    BY <1>11 DEF TooDeep
  <2>1. PICK q : q = [push[p] EXCEPT !.pc = "ending", !.ans = "permanent"]
    OBVIOUS
  <2>2. PushShaped(q) /\ q.pc = "ending" /\ q.ans = "permanent"
    BY <2>1, <1>t DEF PushShaped
  <2>3. push' = [push EXCEPT ![p] = q] /\ UNCHANGED routeVars
    BY <2>1, <1>11 DEF TooDeep, Set
  <2>4. PushOK(p, q)
    BY <2>p, <2>2, <1>t DEF PushOK, Answered
  <2> QED BY <2>2, <2>3, <2>4, QuietKeeps
<1> QED BY <1>1, <1>2, <1>3, <1>4, <1>5, <1>6, <1>7, <1>8, <1>9, <1>10, <1>11

\* The steps of an HTTP push before its handler.
LEMMA HTTPKeeps ==
  ASSUME PushInv, NEW p \in Pushes,
         HTTPBegin(p) \/ ReadChunk(p) \/ ChunkUndo(p) \/ BodyFails(p) \/ HTTPAcquire(p) \/
         HTTPCharge(p) \/ ChargeUndo(p)
  PROVE  PushInv'
<1>t. PushShaped(push[p]) /\ PushOK(p, push[p])
  BY DEF PushInv
<1>1. CASE HTTPBegin(p)
  <2>p. push[p].pc = "idle"
    BY <1>1 DEF HTTPBegin
  <2>1. PICK q : q = [push[p] EXCEPT !.pc = "body", !.alive = TRUE]
    OBVIOUS
  <2>2. PushShaped(q) /\ q.pc = "body" /\ q.ans = push[p].ans
    BY <2>1, <1>t DEF PushShaped
  <2>3. push' = [push EXCEPT ![p] = q] /\ UNCHANGED routeVars
    BY <2>1, <1>1 DEF HTTPBegin, Set
  <2>4. PushOK(p, q)
    BY <2>p, <2>2, <1>t DEF PushOK, Answered
  <2> QED BY <2>2, <2>3, <2>4, QuietKeeps
<1>2. CASE ReadChunk(p)
  <2>p. push[p].pc = "body"
    BY <1>2 DEF ReadChunk
  <2>1. CASE push' = [push EXCEPT ![p] = [push[p] EXCEPT !.held = @ + 1]]
    <3>1. PICK q : q = [push[p] EXCEPT !.held = @ + 1]
      OBVIOUS
    <3>2. PushShaped(q) /\ q.pc = push[p].pc /\ q.ans = push[p].ans
      BY <3>1, <1>t DEF PushShaped
    <3>3. PushOK(p, q)
      BY <2>p, <3>2, <1>t DEF PushOK, Answered
    <3> QED BY <2>1, <3>1, <3>2, <3>3, <1>2, QuietKeeps DEF ReadChunk
  <2>2. CASE push' = [push EXCEPT ![p] = [push[p] EXCEPT !.pc = "chunkUndo"]]
    <3>1. PICK q : q = [push[p] EXCEPT !.pc = "chunkUndo"]
      OBVIOUS
    <3>2. PushShaped(q) /\ q.pc = "chunkUndo" /\ q.ans = push[p].ans
      BY <3>1, <1>t DEF PushShaped
    <3>3. PushOK(p, q)
      BY <2>p, <3>2, <1>t DEF PushOK, Answered
    <3> QED BY <2>2, <3>1, <3>2, <3>3, <1>2, QuietKeeps DEF ReadChunk
  <2> QED BY <1>2, <2>1, <2>2 DEF ReadChunk, Set
<1>3. CASE ChunkUndo(p)
  <2>p. push[p].pc = "chunkUndo"
    BY <1>3 DEF ChunkUndo
  <2>1. PICK q : q = [push[p] EXCEPT !.held = 0, !.pc = "ended", !.ans = "retry", !.alive = FALSE]
    OBVIOUS
  <2>2. PushShaped(q) /\ q.pc = "ended" /\ q.ans = "retry"
    BY <2>1, <1>t DEF PushShaped
  <2>3. push' = [push EXCEPT ![p] = q] /\ UNCHANGED routeVars
    BY <2>1, <1>3 DEF ChunkUndo, Set
  <2>4. PushOK(p, q)
    BY <2>p, <2>2, <1>t DEF PushOK, Answered
  <2> QED BY <2>2, <2>3, <2>4, QuietKeeps
<1>4. CASE BodyFails(p)
  <2>p. push[p].pc = "body"
    BY <1>4 DEF BodyFails
  <2>1. CASE push' = [push EXCEPT ![p] = [push[p] EXCEPT !.held = 0, !.pc = "ended", !.ans = "retry", !.alive = FALSE]]
    <3>1. PICK q : q = [push[p] EXCEPT !.held = 0, !.pc = "ended", !.ans = "retry", !.alive = FALSE]
      OBVIOUS
    <3>2. PushShaped(q) /\ q.pc = "ended" /\ q.ans = "retry"
      BY <3>1, <1>t DEF PushShaped
    <3>3. PushOK(p, q)
      BY <2>p, <3>2, <1>t DEF PushOK, Answered
    <3> QED BY <2>1, <3>1, <3>2, <3>3, <1>4, QuietKeeps DEF BodyFails
  <2>2. CASE push' = [push EXCEPT ![p] = [push[p] EXCEPT !.held = 0, !.pc = "ended", !.ans = "permanent", !.alive = FALSE]]
    <3>1. PICK q : q = [push[p] EXCEPT !.held = 0, !.pc = "ended", !.ans = "permanent", !.alive = FALSE]
      OBVIOUS
    <3>2. PushShaped(q) /\ q.pc = "ended" /\ q.ans = "permanent"
      BY <3>1, <1>t DEF PushShaped
    <3>3. PushOK(p, q)
      BY <2>p, <3>2, <1>t DEF PushOK, Answered
    <3> QED BY <2>2, <3>1, <3>2, <3>3, <1>4, QuietKeeps DEF BodyFails
  <2> QED BY <1>4, <2>1, <2>2 DEF BodyFails, Set
<1>5. CASE HTTPAcquire(p)
  <2>p. push[p].pc = "body"
    BY <1>5 DEF HTTPAcquire
  <2>1. CASE push' = [push EXCEPT ![p] = [push[p] EXCEPT !.slot = TRUE, !.pc = "charge"]]
    <3>1. PICK q : q = [push[p] EXCEPT !.slot = TRUE, !.pc = "charge"]
      OBVIOUS
    <3>2. PushShaped(q) /\ q.pc = "charge" /\ q.ans = push[p].ans
      BY <3>1, <1>t DEF PushShaped
    <3>3. PushOK(p, q)
      BY <2>p, <3>2, <1>t DEF PushOK, Answered
    <3> QED BY <2>1, <3>1, <3>2, <3>3, <1>5, QuietKeeps DEF HTTPAcquire
  <2>2. CASE push' = [push EXCEPT ![p] = [push[p] EXCEPT !.held = 0, !.pc = "ended", !.ans = "retry", !.alive = FALSE]]
    <3>1. PICK q : q = [push[p] EXCEPT !.held = 0, !.pc = "ended", !.ans = "retry", !.alive = FALSE]
      OBVIOUS
    <3>2. PushShaped(q) /\ q.pc = "ended" /\ q.ans = "retry"
      BY <3>1, <1>t DEF PushShaped
    <3>3. PushOK(p, q)
      BY <2>p, <3>2, <1>t DEF PushOK, Answered
    <3> QED BY <2>2, <3>1, <3>2, <3>3, <1>5, QuietKeeps DEF HTTPAcquire
  <2> QED BY <1>5, <2>1, <2>2 DEF HTTPAcquire, Set
<1>6. CASE HTTPCharge(p)
  <2>p. push[p].pc = "charge"
    BY <1>6 DEF HTTPCharge
  <2>1. CASE push' = [push EXCEPT ![p] = [push[p] EXCEPT !.dec = DecodedSize[p], !.pc = "handle", !.ans = @]]
    <3>1. PICK q : q = [push[p] EXCEPT !.dec = DecodedSize[p], !.pc = "handle", !.ans = @]
      OBVIOUS
    <3>2. PushShaped(q) /\ q.pc = "handle" /\ q.ans = push[p].ans
      BY <3>1, <1>t DEF PushShaped
    <3>3. PushOK(p, q)
      BY <2>p, <3>2, <1>t DEF PushOK, Answered
    <3> QED BY <2>1, <3>1, <3>2, <3>3, <1>6, QuietKeeps DEF HTTPCharge
  <2>2. CASE push' = [push EXCEPT ![p] = [push[p] EXCEPT !.dec = DecodedSize[p], !.pc = "return", !.ans = "permanent"]]
    <3>1. PICK q : q = [push[p] EXCEPT !.dec = DecodedSize[p], !.pc = "return", !.ans = "permanent"]
      OBVIOUS
    <3>2. PushShaped(q) /\ q.pc = "return" /\ q.ans = "permanent"
      BY <3>1, <1>t DEF PushShaped
    <3>3. PushOK(p, q)
      BY <2>p, <3>2, <1>t DEF PushOK, Answered
    <3> QED BY <2>2, <3>1, <3>2, <3>3, <1>6, QuietKeeps DEF HTTPCharge
  <2>3. CASE push' = [push EXCEPT ![p] = [push[p] EXCEPT !.pc = "chargeUndo"]]
    <3>1. PICK q : q = [push[p] EXCEPT !.pc = "chargeUndo"]
      OBVIOUS
    <3>2. PushShaped(q) /\ q.pc = "chargeUndo" /\ q.ans = push[p].ans
      BY <3>1, <1>t DEF PushShaped
    <3>3. PushOK(p, q)
      BY <2>p, <3>2, <1>t DEF PushOK, Answered
    <3> QED BY <2>3, <3>1, <3>2, <3>3, <1>6, QuietKeeps DEF HTTPCharge
  <2> QED BY <1>6, <2>1, <2>2, <2>3 DEF HTTPCharge, Set
<1>7. CASE ChargeUndo(p)
  <2>p. push[p].pc = "chargeUndo"
    BY <1>7 DEF ChargeUndo
  <2>1. PICK q : q = [push[p] EXCEPT !.pc = "return", !.ans = "retry"]
    OBVIOUS
  <2>2. PushShaped(q) /\ q.pc = "return" /\ q.ans = "retry"
    BY <2>1, <1>t DEF PushShaped
  <2>3. push' = [push EXCEPT ![p] = q] /\ UNCHANGED routeVars
    BY <2>1, <1>7 DEF ChargeUndo, Set
  <2>4. PushOK(p, q)
    BY <2>p, <2>2, <1>t DEF PushOK, Answered
  <2> QED BY <2>2, <2>3, <2>4, QuietKeeps
<1> QED BY <1>1, <1>2, <1>3, <1>4, <1>5, <1>6, <1>7

\* The handler returns, or the peer is gone.
LEMMA HandlerKeeps ==
  ASSUME PushInv, NEW p \in Pushes,
         HandlerReturns(p) \/ PeerCancel(p)
  PROVE  PushInv'
<1>t. PushShaped(push[p]) /\ PushOK(p, push[p])
  BY DEF PushInv
<1>1. CASE HandlerReturns(p)
  <2>p. push[p].pc = "return"
    BY <1>1 DEF HandlerReturns
  <2>1. CASE push' = [push EXCEPT ![p] = [push[p] EXCEPT !.dec = 0, !.slot = FALSE, !.pc = "ending"]]
    <3>1. PICK q : q = [push[p] EXCEPT !.dec = 0, !.slot = FALSE, !.pc = "ending"]
      OBVIOUS
    <3>2. PushShaped(q) /\ q.pc = "ending" /\ q.ans = push[p].ans
      BY <3>1, <1>t DEF PushShaped
    <3>3. PushOK(p, q)
      BY <2>p, <3>2, <1>t DEF PushOK, Answered
    <3> QED BY <2>1, <3>1, <3>2, <3>3, <1>1, QuietKeeps DEF HandlerReturns
  <2>2. CASE push' = [push EXCEPT ![p] = [push[p] EXCEPT !.dec = 0, !.slot = FALSE, !.held = 0, !.alive = FALSE, !.pc = "ended"]]
    <3>1. PICK q : q = [push[p] EXCEPT !.dec = 0, !.slot = FALSE, !.held = 0, !.alive = FALSE, !.pc = "ended"]
      OBVIOUS
    <3>2. PushShaped(q) /\ q.pc = "ended" /\ q.ans = push[p].ans
      BY <3>1, <1>t DEF PushShaped
    <3>3. PushOK(p, q)
      BY <2>p, <3>2, <1>t DEF PushOK, Answered
    <3> QED BY <2>2, <3>1, <3>2, <3>3, <1>1, QuietKeeps DEF HandlerReturns
  <2> QED BY <1>1, <2>1, <2>2 DEF HandlerReturns, Set
<1>2. CASE PeerCancel(p)
  <2>1. PICK q : q = [push[p] EXCEPT !.alive = FALSE]
    OBVIOUS
  <2>2. PushShaped(q) /\ q.pc = push[p].pc /\ q.ans = push[p].ans
    BY <2>1, <1>t DEF PushShaped
  <2>3. push' = [push EXCEPT ![p] = q] /\ UNCHANGED routeVars
    BY <2>1, <1>2 DEF PeerCancel, Set
  <2>4. PushOK(p, q)
    BY <2>2, <1>t DEF PushOK, Answered
  <2> QED BY <2>2, <2>3, <2>4, QuietKeeps
<1> QED BY <1>1, <1>2

\* The export of one push moves on; nothing that was delivered is taken back.
LEMMA ExportKeeps ==
  ASSUME PushInv, NEW x \in Pushes, ExportStep(x), UNCHANGED ingestVars
  PROVE  PushInv'
<1>0. x \in Producers /\ RouteInv
  BY PushesProduce DEF PushInv
<1>1. /\ RouteInv' /\ call[x].pc = "send" /\ call'[x].pc # "idle" /\ call'[x].groups = call[x].groups
      /\ \A y \in Producers, r \in Resources : Delivered(y, r) => Delivered(y, r)'
      /\ refused \subseteq refused'
      /\ \A y \in Producers \ {x} : call'[y] = call[y]
  <2>1. CASE SendStep(x)
    BY <2>1, <1>0, SendKeeps DEF SendStep, SendShare
  <2>2. CASE FinishExport(x)
    BY <2>2, <1>0, FinishKeeps DEF FinishExport, Delivered
  <2> QED BY <2>1, <2>2 DEF ExportStep
<1>2. push' = push
  BY DEF ingestVars
<1>3. ASSUME NEW y \in Pushes PROVE PushOK(y, push[y])'
  <2>0. y \in Producers /\ Admitted(y) \subseteq Resources /\ PushOK(y, push[y])
    BY PushesProduce DEF PushInv
  <2>1. CASE y = x
    BY <2>0, <2>1, <1>1, <1>2 DEF PushOK
  <2>2. CASE y # x
    <3>1. call'[y] = call[y]
      BY <2>0, <2>2, <1>1
    <3> QED BY <2>0, <3>1, <1>1, <1>2 DEF PushOK, Answered
  <2> QED BY <2>1, <2>2
<1>4. ASSUME NEW y \in Pushes PROVE PushShaped(push[y])'
  BY <1>2 DEF PushInv, PushShaped
<1> QED BY <1>1, <1>2, <1>3, <1>4 DEF PushInv

\* The forward begins, and its answer becomes the sender's.
LEMMA ForwardKeeps ==
  ASSUME PushInv, NEW p \in Pushes, Forward(p)
  PROVE  PushInv'
<1>t. PushShaped(push[p]) /\ PushOK(p, push[p]) /\ push[p].pc = "handle" /\ RouteInv
  BY DEF PushInv, Forward
<1>0. p \in Producers /\ Admitted(p) \in SUBSET Resources
  BY PushesProduce
<1>1. CASE Admitted(p) = {} /\ push' = [push EXCEPT ![p] = [push[p] EXCEPT !.pc = "return", !.ans = "ok"]] /\ UNCHANGED routeVars
  <2>1. PICK q : q = [push[p] EXCEPT !.pc = "return", !.ans = "ok"]
    OBVIOUS
  <2>2. PushShaped(q) /\ q.pc = "return" /\ q.ans = "ok"
    BY <2>1, <1>t DEF PushShaped
  <2>3. push' = [push EXCEPT ![p] = q] /\ UNCHANGED routeVars
    BY <2>1, <1>1
  <2>4. PushOK(p, q)
    BY <2>2, <1>1, <1>t DEF PushOK
  <2> QED BY <2>2, <2>3, <2>4, QuietKeeps
<1>2. CASE StartExport(p, Admitted(p)) /\ push' = [push EXCEPT ![p] = [push[p] EXCEPT !.pc = "forward"]]
  <2>1. PICK q : q = [push[p] EXCEPT !.pc = "forward"]
    OBVIOUS
  <2>2. PushShaped(q) /\ q.pc = "forward" /\ q.ans = push[p].ans
    BY <2>1, <1>t DEF PushShaped
  <2>3. push' = [push EXCEPT ![p] = q] /\ StartExport(p, Admitted(p))
    BY <2>1, <1>2
  <2>4. /\ RouteInv' /\ call'[p].pc = "send" /\ call'[p].groups = Admitted(p)
        /\ \A y \in Producers \ {p} : call'[y] = call[y]
        /\ UNCHANGED <<accepted, lostAns, refused>>
    BY <2>3, <1>0, <1>t, StartKeeps
  <2>5. push' = [y \in Pushes |-> push'[y]] /\ \A y \in Pushes : push'[y] = IF y = p THEN q ELSE push[y]
    BY <2>3 DEF PushInv
  <2>6. ASSUME NEW y \in Pushes PROVE (PushShaped(push[y]) /\ PushOK(y, push[y]))'
    <3>1. CASE y = p
      <4>1. push'[y] = q /\ q.ans = "none"
        BY <3>1, <2>5, <2>2, <1>t DEF PushOK
      <4>2. PushShaped(push[y])'
        BY <4>1, <2>2 DEF PushShaped
      <4> QED BY <3>1, <4>1, <4>2, <2>2, <2>4 DEF PushOK
    <3>2. CASE y # p
      <4>1. push'[y] = push[y] /\ call'[y] = call[y] /\ PushShaped(push[y]) /\ PushOK(y, push[y])
        BY <3>2, <2>4, <2>5, PushesProduce DEF PushInv
      <4> QED BY <4>1, <2>4 DEF PushShaped, PushOK, Answered, Delivered
    <3> QED BY <3>1, <3>2
  <2> QED BY <2>4, <2>5, <2>6 DEF PushInv
<1>3. CASE push' = [push EXCEPT ![p] = [push[p] EXCEPT !.pc = "return", !.ans = "permanent"]] /\ UNCHANGED routeVars
  <2>1. PICK q : q = [push[p] EXCEPT !.pc = "return", !.ans = "permanent"]
    OBVIOUS
  <2>2. PushShaped(q) /\ q.pc = "return" /\ q.ans = "permanent"
    BY <2>1, <1>t DEF PushShaped
  <2>3. push' = [push EXCEPT ![p] = q] /\ UNCHANGED routeVars
    BY <2>1, <1>3
  <2>4. PushOK(p, q)
    BY <2>2, <1>t DEF PushOK, Answered
  <2> QED BY <2>2, <2>3, <2>4, QuietKeeps
<1> QED BY <1>1, <1>2, <1>3 DEF Forward, Set

LEMMA ForwardReturnsKeeps ==
  ASSUME PushInv, NEW p \in Pushes, ForwardReturns(p)
  PROVE  PushInv'
<1>t. PushShaped(push[p]) /\ PushOK(p, push[p]) /\ push[p].pc = "forward" /\ Answered(p) /\ RouteInv
  BY DEF PushInv, ForwardReturns
<1>1. PICK q : q = [push[p] EXCEPT !.pc = "return", !.ans = ForwardStatus(call[p].ans)]
  OBVIOUS
<1>2. PushShaped(q) /\ q.pc = "return" /\ q.ans = ForwardStatus(call[p].ans)
  BY <1>1, <1>t DEF PushShaped
<1>3. push' = [push EXCEPT ![p] = q] /\ UNCHANGED routeVars
  BY <1>1 DEF ForwardReturns, Set
<1>4. /\ call[p].ans = "ok" => \A r \in Admitted(p) : Delivered(p, r)
      /\ call[p].ans \in {"ok", "permanent"} => \A r \in Admitted(p) : Delivered(p, r) \/ <<p, r>> \in refused
  <2>1. p \in Producers /\ call[p].groups = Admitted(p)
    BY <1>t, PushesProduce DEF PushOK
  <2> QED BY <2>1, <1>t, AnswerMeans
<1>5. PushOK(p, q)
  BY <1>2, <1>4, <1>t DEF PushOK, ForwardStatus, Answered
<1> QED BY <1>2, <1>3, <1>5, QuietKeeps

LEMMA SenderRetriesKeeps ==
  ASSUME PushInv, NEW p \in Pushes, SenderRetries(p)
  PROVE  PushInv'
<1>1. PICK q : q = [Fresh EXCEPT !.tries = push[p].tries + 1]
  OBVIOUS
<1>2. PushShaped(q) /\ q.pc = "idle" /\ q.ans = "none"
  BY <1>1 DEF PushShaped, Fresh
<1>3. /\ push' = [push EXCEPT ![p] = q] /\ call' = [call EXCEPT ![p] = Idle]
      /\ UNCHANGED <<memo, accepted, lostAns, refused>>
  BY <1>1 DEF SenderRetries, Set
<1>4. RouteInv' /\ call'[p] = Idle /\ \A y \in Producers \ {p} : call'[y] = call[y]
  BY <1>3, IdleKeeps, PushesProduce DEF PushInv, RouteInv
<1>5. push' = [y \in Pushes |-> push'[y]] /\ \A y \in Pushes : push'[y] = IF y = p THEN q ELSE push[y]
  BY <1>3 DEF PushInv
<1>6. ASSUME NEW y \in Pushes PROVE (PushShaped(push[y]) /\ PushOK(y, push[y]))'
  <2>1. CASE y = p
    <3>1. push'[y] = q /\ call'[y].pc = "idle"
      BY <2>1, <1>4, <1>5 DEF Idle
    <3>2. PushShaped(push[y])'
      BY <3>1, <1>2 DEF PushShaped
    <3> QED BY <3>1, <3>2, <1>2 DEF PushOK
  <2>2. CASE y # p
    <3>1. push'[y] = push[y] /\ call'[y] = call[y] /\ PushShaped(push[y]) /\ PushOK(y, push[y])
      BY <2>2, <1>4, <1>5, PushesProduce DEF PushInv
    <3> QED BY <3>1, <1>3 DEF PushShaped, PushOK, Answered, Delivered
  <2> QED BY <2>1, <2>2
<1> QED BY <1>4, <1>5, <1>6 DEF PushInv

\* The grace runs out: every connection is closed at once.
LEMMA GraceKeeps ==
  ASSUME PushInv, GraceExpires
  PROVE  PushInv'
<1>1. RouteInv' /\ UNCHANGED routeVars
  BY DEF GraceExpires, PushInv, RouteInv, routeVars, MemoOK, CallOK, Told, Delivered, Joined
<1>2. push' = [p \in Pushes |-> [push[p] EXCEPT !.alive = FALSE]]
  BY DEF GraceExpires
<1>3. ASSUME NEW y \in Pushes PROVE (PushShaped(push[y]) /\ PushOK(y, push[y]))'
  <2>1. PICK q : q = [push[y] EXCEPT !.alive = FALSE]
    OBVIOUS
  <2>0. PushShaped(push[y])
    BY DEF PushInv
  <2>2. PushShaped(q) /\ q.pc = push[y].pc /\ q.ans = push[y].ans
    BY <2>0, <2>1 DEF PushShaped
  <2>3. push'[y] = q
    BY <1>2, <2>1
  <2>4. PushShaped(push[y])'
    BY <2>2, <2>3 DEF PushShaped
  <2>5. PushOK(y, push[y])
    BY DEF PushInv
  <2> QED BY <2>2, <2>3, <2>4, <2>5, <1>1 DEF PushOK, routeVars, Answered, Delivered
<1> QED BY <1>1, <1>2, <1>3 DEF PushInv

LEMMA PushAlways == PushSpec => []PushInv
<1>1. RouteInit /\ IngestInit => PushInv
  BY PushStarts
<1>2. PushInv /\ [PushNext]_pushVars => PushInv'
  <2> SUFFICES ASSUME PushInv, [PushNext]_pushVars PROVE PushInv'
    OBVIOUS
  <2>1. CASE \E p \in Pushes : ServerStep(p) \/ PeerStep(p) \/ Timeout(p)
    <3> PICK p \in Pushes : ServerStep(p) \/ PeerStep(p) \/ Timeout(p)
      BY <2>1
    <3> QED BY GrpcKeeps, HTTPKeeps, HandlerKeeps, ForwardKeeps, ForwardReturnsKeeps, SenderRetriesKeeps
        DEF ServerStep, PeerStep, Timeout
  <2>2. CASE \E x \in Pushes : ExportStep(x) /\ UNCHANGED ingestVars
    BY <2>2, ExportKeeps
  <2>3. CASE GraceExpires
    BY <2>3, GraceKeeps
  <2>4. CASE Drain \/ UNCHANGED pushVars
    <3>1. UNCHANGED routeVars /\ push' = push
      BY <2>4 DEF Drain, pushVars, ingestVars
    <3>2. RouteInv'
      BY <3>1 DEF PushInv, RouteInv, routeVars, MemoOK, CallOK, Told, Delivered, Joined
    <3>3. \A y \in Pushes : (PushShaped(push[y]) /\ PushOK(y, push[y]))'
      BY <3>1 DEF PushInv, PushShaped, PushOK, routeVars, Answered, Delivered
    <3> QED BY <3>1, <3>2, <3>3 DEF PushInv
  <2> QED BY <2>1, <2>2, <2>3, <2>4 DEF PushNext
<1> QED BY <1>1, <1>2, PTL DEF PushSpec

\* For any pushes, payloads, destinations and bounds, whatever is cancelled, expires or is
\* shed on the way: OK means that everything admitted is with its destination, and a
\* rejection after a forward that nothing is left a retry could deliver (grpcForwardStatus,
\* HTTPForwardStatus, joinExportErrs).
THEOREM SendersToldTheTruth == PushSpec => []SenderToldTruth
<1>1. PushInv => SenderToldTruth
  BY DEF PushInv, PushOK, SenderToldTruth
<1> QED BY <1>1, PushAlways, PTL

-----------------------------------------------------------------------------
(* The journal reader: its invariant *)

Cursors == 0 .. LastEntry

ReaderTyped(r) ==
  /\ r = [pc |-> r.pc, ctx |-> r.ctx, batch |-> r.batch, rendered |-> r.rendered, cursor |-> r.cursor,
          saved |-> r.saved, pos |-> r.pos, skip |-> r.skip, held |-> r.held, reopen |-> r.reopen]
  /\ r.batch \in Seq(Journal) /\ r.cursor \in Cursors /\ r.saved \in Cursors
  /\ r.pos \in Cursors /\ r.skip \in Cursors /\ r.held \in Cursors

\* An entry above the cursor that the reader has to deliver.
Owed(r, b, v, e) == b < e /\ v < e /\ r.cursor < e

\* The batch: entries above the cursor in their order, none left out.
BatchOK(r, b, v, w) ==
  /\ \A i \in 1 .. Len(r.batch) : r.cursor < r.batch[i] /\ r.batch[i] <= w
  /\ \A i, k \in 1 .. Len(r.batch) : i < k => r.batch[i] < r.batch[k]
  /\ \A i \in 1 .. Len(r.batch) : \A e \in Journal :
        Owed(r, b, v, e) /\ e <= r.batch[i] => e \in BatchEntries(r)

\* While it reads: everything up to its place is in the batch or held back.
PlaceOK(r, b, v) ==
  /\ \A i \in 1 .. Len(r.batch) : r.batch[i] <= r.pos
  /\ \A e \in Journal : Owed(r, b, v, e) /\ e <= r.pos => e \in BatchEntries(r) \/ e = r.held
  /\ r.held # 0 => r.held = r.pos /\ r.cursor < r.held /\ \A i \in 1 .. Len(r.batch) : r.batch[i] < r.held
  /\ r.skip # 0 => r.skip = r.cursor /\ r.pos = r.cursor - 1 /\ r.batch = <<>>
  /\ r.skip = 0 => r.cursor <= r.pos
  /\ r.pc = "stream" => r.held = 0

ReaderOK(r, b, v, w) ==
  /\ r.cursor <= w /\ r.pos <= w
  /\ BatchOK(r, b, v, w)
  /\ r.pc \in {"stream", "flush", "export"} => PlaceOK(r, b, v)
  /\ r.pc = "open" => r.batch = <<>>
  /\ r.pc = "stream" \/ r.batch = <<>> => ~r.rendered

DocShaped(d) == d = [cursor |-> d.cursor, logs |-> d.logs, sum |-> d.sum, valid |-> d.valid]
FileShaped(d) == d = [cursor |-> d.cursor, logs |-> d.logs]

\* The document is never behind the file, and what it counts as written is.
DocsOK ==
  /\ DocShaped(doc) /\ FileShaped(file)
  /\ doc.cursor \in Cursors /\ file.cursor \in Cursors /\ file.cursor <= doc.cursor
  /\ doc.valid => doc.sum = file

\* Everything up to c that the reader owes is settled.
Covered(c) == \A e \in Journal : began < e /\ vacuumed < e /\ e <= c => e \in SettledEntries

CursorInv ==
  /\ DocsOK
  /\ began <= written /\ file.cursor <= written /\ jr.saved <= file.cursor
  /\ Covered(file.cursor)
  /\ jr.pc # "off" => doc.cursor <= jr.cursor /\ Covered(jr.cursor)

Offering(r) == r.pc \in {"export", "finalExport"}

\* The call in progress is for the batch at hand.
OfferInv ==
  /\ Offering(jr) => call[J].pc # "idle" /\ call[J].groups = Records(jr) /\ jr.rendered
  /\ call[J].pc = "send" => Offering(jr)

\* e went out with the default share and only good answers: the batch will settle.
SentFor(e, r) == Offering(r) /\ e \in call[J].groups /\ call[J].todo = {} /\ "transient" \notin call[J].errs

OnceInv ==
  /\ \A e \in Journal : observed[e] <= 1
  /\ jr.pc # "off" => \A e \in Journal : observed[e] > 0 => e <= jr.cursor \/ (jr.rendered /\ e \in BatchEntries(jr))
  /\ lives = 1 /\ J \notin lostAns =>
       \A e \in Journal : FixedDest(e) = Default =>
          /\ accepted[J][e] <= 1
          /\ jr.pc # "off" /\ accepted[J][e] > 0 => e <= jr.cursor \/ SentFor(e, jr)

JournalTyped ==
  /\ written \in Cursors /\ vacuumed \in Cursors /\ began \in Cursors /\ ReaderTyped(jr)
  /\ observed \in [Journal -> Nat] /\ lives \in Nat \ {0}

JournalInv ==
  /\ RouteInv /\ JournalTyped /\ ReaderOK(jr, began, vacuumed, written)
  /\ CursorInv /\ OfferInv /\ OnceInv

LEMMA JournalFacts ==
  /\ LastEntry \in Nat /\ LastEntry > 0 /\ Journal = 1 .. LastEntry /\ Journal \subseteq Resources
  /\ J \in Producers /\ Reoffered(J) /\ \A e \in Journal : e \in Cursors /\ e > 0
BY JournalAssumption DEF Journal, Reoffered, Cursors

\* What is in the batch lies above the cursor and up to its last entry.
LEMMA BatchBounds ==
  ASSUME NEW r, ReaderTyped(r), NEW b, NEW v, NEW w, BatchOK(r, b, v, w), NEW e \in BatchEntries(r)
  PROVE  /\ e \in Journal /\ r.cursor < e /\ e <= w
         /\ Len(r.batch) \in Nat \ {0} /\ r.batch[Len(r.batch)] \in Journal /\ e <= r.batch[Len(r.batch)]
<1>1. PICK i \in 1 .. Len(r.batch) : e = r.batch[i]
  BY DEF BatchEntries
<1>2. Len(r.batch) \in Nat \ {0} /\ r.batch[i] \in Journal /\ r.batch[Len(r.batch)] \in Journal
  BY <1>1 DEF ReaderTyped
<1>3. e <= r.batch[Len(r.batch)]
  <2>1. CASE i = Len(r.batch)
    BY <1>1, <1>2, <2>1, JournalFacts
  <2>2. CASE i < Len(r.batch)
    BY <1>1, <1>2, <2>2, JournalFacts DEF BatchOK
  <2> QED BY <2>1, <2>2, <1>2
<1> QED BY <1>1, <1>2, <1>3 DEF BatchOK

LEMMA EmptyBatch ==
  ASSUME NEW r, r.batch = <<>>
  PROVE  BatchEntries(r) = {} /\ \A b, v, w : BatchOK(r, b, v, w)
BY DEF BatchEntries, BatchOK

\* ReaderOK does not depend on what is counted as stored.
Alike(q, r) ==
  /\ q.pc = r.pc /\ q.ctx = r.ctx /\ q.batch = r.batch /\ q.rendered = r.rendered /\ q.cursor = r.cursor
  /\ q.pos = r.pos /\ q.skip = r.skip /\ q.held = r.held /\ q.reopen = r.reopen

LEMMA AlikeOK ==
  ASSUME NEW q, NEW r, Alike(q, r), NEW b, NEW v, NEW w, ReaderOK(r, b, v, w)
  PROVE  ReaderOK(q, b, v, w) /\ BatchEntries(q) = BatchEntries(r)
BY DEF Alike, ReaderOK, BatchOK, PlaceOK, Owed, BatchEntries

\* The journal grows or forgets; the reader's place stays right.
LEMMA OlderOK ==
  ASSUME NEW r, ReaderTyped(r), NEW b \in Cursors, NEW v \in Cursors, NEW w \in Cursors, ReaderOK(r, b, v, w),
         NEW x \in Cursors, NEW y \in Cursors, v <= x, w <= y
  PROVE  ReaderOK(r, b, x, y)
<1>1. \A e \in Journal : Owed(r, b, x, e) => Owed(r, b, v, e)
  BY JournalFacts DEF Owed, Cursors
<1>2. \A i \in 1 .. Len(r.batch) : r.batch[i] \in Journal
  BY DEF ReaderTyped
<1>3. BatchOK(r, b, x, y)
  <2>1. \A i \in 1 .. Len(r.batch) : r.cursor < r.batch[i] /\ r.batch[i] <= y
    BY <1>2, JournalFacts DEF ReaderOK, BatchOK, Cursors
  <2>2. \A i \in 1 .. Len(r.batch) : \A e \in Journal :
          Owed(r, b, x, e) /\ e <= r.batch[i] => e \in BatchEntries(r)
    BY <1>1 DEF ReaderOK, BatchOK
  <2> QED BY <2>1, <2>2 DEF ReaderOK, BatchOK
<1>4. r.pc \in {"stream", "flush", "export"} => PlaceOK(r, b, x)
  BY <1>1 DEF ReaderOK, PlaceOK
<1>5. r.cursor <= y /\ r.pos <= y
  BY JournalFacts DEF ReaderOK, ReaderTyped, Cursors
<1> QED BY <1>3, <1>4, <1>5 DEF ReaderOK

\* An entry joins the batch behind all that is in it.
LEMMA IngestedOK ==
  ASSUME NEW r, ReaderTyped(r), NEW b \in Cursors, NEW v \in Cursors, NEW w \in Cursors, NEW e \in Journal,
         r.cursor <= w, e <= w, r.cursor < e, r.pos = e, r.skip = 0, ~r.rendered,
         BatchOK(r, b, v, w), \A i \in 1 .. Len(r.batch) : r.batch[i] < e,
         \A f \in Journal : Owed(r, b, v, f) /\ f <= e => f \in BatchEntries(r) \/ f = e,
         NEW q, q = Ingested(r, e)
  PROVE  /\ ReaderTyped(q) /\ ReaderOK(q, b, v, w) /\ ~q.rendered /\ q.pc \in {"flush", "stream"}
         /\ q.cursor = r.cursor /\ q.saved = r.saved
<1>1. /\ q = [pc |-> IF Len(r.batch) + 1 >= JournalBatch THEN "flush" ELSE "stream", ctx |-> r.ctx,
              batch |-> Append(r.batch, e), rendered |-> r.rendered, cursor |-> r.cursor,
              saved |-> r.saved, pos |-> r.pos, skip |-> r.skip, held |-> 0, reopen |-> r.reopen]
  BY DEF Ingested, ReaderTyped
<1>2. PICK n : n = Len(r.batch) /\ n \in Nat
  BY DEF ReaderTyped
<1>3. /\ q.batch \in Seq(Journal) /\ Len(q.batch) = n + 1 /\ q.batch[n + 1] = e
      /\ \A i \in 1 .. n : q.batch[i] = r.batch[i] /\ r.batch[i] \in Journal
  BY <1>1, <1>2 DEF ReaderTyped
<1>4. /\ q.pc \in {"flush", "stream"} /\ q.ctx = r.ctx /\ ~q.rendered /\ q.cursor = r.cursor /\ q.saved = r.saved
      /\ q.pos = e /\ q.skip = 0 /\ q.held = 0 /\ q.reopen = r.reopen
  BY <1>1
<1>5. 0 \in Cursors
  BY JournalFacts DEF Cursors
<1>6. ReaderTyped(q)
  <2>1. q.batch \in Seq(Journal) /\ q.cursor \in Cursors /\ q.saved \in Cursors
    BY <1>3, <1>4 DEF ReaderTyped
  <2>2. q.pos \in Cursors /\ q.skip \in Cursors /\ q.held \in Cursors
    BY <1>4, <1>5, JournalFacts
  <2>3. q = [pc |-> q.pc, ctx |-> q.ctx, batch |-> q.batch, rendered |-> q.rendered, cursor |-> q.cursor,
             saved |-> q.saved, pos |-> q.pos, skip |-> q.skip, held |-> q.held, reopen |-> q.reopen]
    BY <1>1
  <2> QED BY <2>1, <2>2, <2>3 DEF ReaderTyped
<1>7. BatchEntries(q) = BatchEntries(r) \cup {e}
  <2>1. 1 .. Len(q.batch) = (1 .. n) \cup {n + 1}
    BY <1>2, <1>3
  <2> QED BY <2>1, <1>2, <1>3 DEF BatchEntries
<1>8. \A i \in 1 .. Len(q.batch) : q.batch[i] \in Journal /\ q.batch[i] <= e /\ q.cursor < q.batch[i] /\ q.batch[i] <= w
  <2> SUFFICES ASSUME NEW i \in 1 .. Len(q.batch)
               PROVE  q.batch[i] \in Journal /\ q.batch[i] <= e /\ q.cursor < q.batch[i] /\ q.batch[i] <= w
    OBVIOUS
  <2>1. CASE i = n + 1
    BY <2>1, <1>3, <1>4, JournalFacts DEF Cursors
  <2>2. CASE i \in 1 .. n
    <3>1. q.batch[i] = r.batch[i] /\ r.batch[i] \in Journal /\ r.batch[i] < e
      BY <2>2, <1>2, <1>3
    <3>2. r.cursor < r.batch[i] /\ r.batch[i] <= w
      BY <2>2, <1>2 DEF BatchOK
    <3> QED BY <3>1, <3>2, <1>4, JournalFacts DEF Cursors
  <2> QED BY <2>1, <2>2, <1>2, <1>3
<1>9. \A i, k \in 1 .. Len(q.batch) : i < k => q.batch[i] < q.batch[k]
  <2> SUFFICES ASSUME NEW i \in 1 .. Len(q.batch), NEW k \in 1 .. Len(q.batch), i < k PROVE q.batch[i] < q.batch[k]
    OBVIOUS
  <2>1. i \in 1 .. n
    BY <1>2, <1>3
  <2>2. CASE k = n + 1
    BY <2>1, <2>2, <1>2, <1>3
  <2>3. CASE k \in 1 .. n
    BY <2>1, <2>3, <1>2, <1>3 DEF BatchOK
  <2> QED BY <2>2, <2>3, <1>2, <1>3
<1>10. \A f \in Journal : Owed(q, b, v, f) /\ f <= e => f \in BatchEntries(q)
  BY <1>4, <1>7 DEF Owed
<1>11. BatchOK(q, b, v, w)
  <2>1. \A i \in 1 .. Len(q.batch) : \A f \in Journal : Owed(q, b, v, f) /\ f <= q.batch[i] => f \in BatchEntries(q)
    <3> SUFFICES ASSUME NEW i \in 1 .. Len(q.batch), NEW f \in Journal, Owed(q, b, v, f), f <= q.batch[i]
                 PROVE  f \in BatchEntries(q)
      OBVIOUS
    <3>1. f <= e
      BY <1>8, JournalFacts DEF Cursors
    <3> QED BY <3>1, <1>10
  <2> QED BY <2>1, <1>8, <1>9 DEF BatchOK
<1>12. PlaceOK(q, b, v)
  <2>1. q.cursor <= q.pos
    BY <1>4, JournalFacts DEF Cursors, ReaderTyped
  <2> QED BY <2>1, <1>4, <1>8, <1>10 DEF PlaceOK
<1>13. ReaderOK(q, b, v, w)
  BY <1>4, <1>11, <1>12 DEF ReaderOK
<1> QED BY <1>4, <1>6, <1>13

\* With nothing left in the batch the reader goes on where it was.
LEMMA ResumedOK ==
  ASSUME NEW r, ReaderTyped(r), NEW b \in Cursors, NEW v \in Cursors, NEW w \in Cursors,
         r.cursor <= w, r.pos <= w, r.batch = <<>>, ~r.rendered, r.pc \in {"flush", "final"},
         r.pc = "flush" => PlaceOK(r, b, v), NEW q, q = Resumed(r)
  PROVE  /\ ReaderTyped(q) /\ ReaderOK(q, b, v, w) /\ ~q.rendered /\ q.pc \in {"save", "flush", "stream", "open"}
         /\ q.cursor = r.cursor /\ q.saved = r.saved
<1>0. BatchEntries(r) = {} /\ BatchOK(r, b, v, w)
  BY EmptyBatch
<1>1. CASE r.pc = "flush" /\ r.held # 0
  <2>1. q = Ingested(r, r.held)
    BY <1>1 DEF Resumed
  <2>2. r.held \in Journal /\ r.pos = r.held /\ r.cursor < r.held
    BY <1>1, JournalFacts DEF PlaceOK, ReaderTyped, Cursors
  <2>3. r.skip = 0
    BY <1>1, <2>2, JournalFacts DEF PlaceOK, ReaderTyped, Cursors
  <2>4. \A f \in Journal : Owed(r, b, v, f) /\ f <= r.held => f \in BatchEntries(r) \/ f = r.held
    BY <1>1, <2>2 DEF PlaceOK
  <2>5. \A i \in 1 .. Len(r.batch) : r.batch[i] < r.held
    BY <1>1 DEF PlaceOK
  <2> QED BY <1>0, <2>1, <2>2, <2>3, <2>4, <2>5, IngestedOK
<1>2. CASE ~(r.pc = "flush" /\ r.held # 0)
  <2>1. PICK c \in {"save", "stream", "open"} : q = [r EXCEPT !.pc = c] /\ (c # "save" => r.pc = "flush" /\ r.held = 0)
    BY <1>2 DEF Resumed
  <2>2. q = [pc |-> c, ctx |-> r.ctx, batch |-> r.batch, rendered |-> r.rendered, cursor |-> r.cursor,
             saved |-> r.saved, pos |-> r.pos, skip |-> r.skip, held |-> r.held, reopen |-> r.reopen]
    BY <2>1 DEF ReaderTyped
  <2>3. /\ q.pc = c /\ q.batch = <<>> /\ ~q.rendered /\ q.cursor = r.cursor /\ q.saved = r.saved
        /\ q.pos = r.pos /\ q.skip = r.skip /\ q.held = r.held
    BY <2>2
  <2>4. ReaderTyped(q)
    BY <2>2 DEF ReaderTyped
  <2>5. BatchEntries(q) = {} /\ BatchOK(q, b, v, w)
    BY <2>3, EmptyBatch
  <2>6. c = "stream" => PlaceOK(q, b, v)
    BY <2>1, <2>3, <2>5, <1>0 DEF PlaceOK, Owed
  <2>7. ReaderOK(q, b, v, w)
    BY <2>1, <2>3, <2>5, <2>6 DEF ReaderOK
  <2> QED BY <2>1, <2>3, <2>4, <2>7
<1> QED BY <1>1, <1>2

\* positions.Store: what a save leaves, whether it fails or not.
LEMMA SaveMeans ==
  ASSUME NEW d, DocShaped(d), FileShaped(file), d.valid => d.sum = file, NEW s \in Save(d)
  PROVE  /\ DocShaped(s.doc) /\ FileShaped(s.file) /\ s.doc.cursor = d.cursor
         /\ s.doc.valid => s.doc.sum = s.file
         /\ s.file.cursor \in {file.cursor, d.cursor} /\ (s.ok => s.file.cursor = d.cursor)
<1>0. Contents(d) = [cursor |-> d.cursor, logs |-> d.logs]
  BY DEF Contents
<1>1. CASE d.valid /\ d.sum = Contents(d)
  <2>1. s = [doc |-> d, file |-> file, ok |-> TRUE, failed |-> 0]
    BY <1>1 DEF Save
  <2>2. file.cursor = d.cursor
    BY <1>0, <1>1
  <2> QED BY <2>1, <2>2
<1>2. CASE ~(d.valid /\ d.sum = Contents(d))
  <2>1. CASE s = [doc |-> [d EXCEPT !.sum = Contents(d), !.valid = TRUE], file |-> Contents(d), ok |-> TRUE, failed |-> 0]
    <3>1. s.doc = [cursor |-> d.cursor, logs |-> d.logs, sum |-> Contents(d), valid |-> TRUE]
      BY <2>1 DEF DocShaped
    <3>2. s.file = [cursor |-> d.cursor, logs |-> d.logs] /\ s.file = Contents(d)
      BY <2>1, <1>0
    <3>3. DocShaped(s.doc) /\ s.doc.cursor = d.cursor /\ s.doc.sum = s.file
      BY <3>1, <3>2 DEF DocShaped
    <3>4. FileShaped(s.file) /\ s.file.cursor = d.cursor
      BY <3>2 DEF FileShaped
    <3> QED BY <3>3, <3>4
  <2>2. CASE s = [doc |-> [d EXCEPT !.valid = FALSE], file |-> file, ok |-> FALSE, failed |-> 1]
    <3>1. s.doc = [cursor |-> d.cursor, logs |-> d.logs, sum |-> d.sum, valid |-> FALSE]
      BY <2>2 DEF DocShaped
    <3>2. DocShaped(s.doc) /\ s.doc.cursor = d.cursor /\ ~s.doc.valid
      BY <3>1 DEF DocShaped
    <3>3. s.file = file /\ ~s.ok
      BY <2>2
    <3> QED BY <3>2, <3>3
  <2> QED BY <1>2, <2>1, <2>2 DEF Save
<1> QED BY <1>1, <1>2

\* saveCursor: the file moves forward, never past the cursor, and what is
\* counted as stored is there.
LEMMA SaveEffect ==
  ASSUME DocsOK, NEW r, ReaderTyped(r), NEW force, SaveCursor(r, force),
         doc.cursor <= r.cursor, r.saved <= file.cursor
  PROVE  /\ DocsOK' /\ Alike(jr', r) /\ ReaderTyped(jr')
         /\ jr'.saved <= file'.cursor /\ file.cursor <= file'.cursor
         /\ file'.cursor <= r.cursor /\ doc'.cursor <= r.cursor
<1>t. /\ LastEntry \in Nat /\ doc.cursor \in Cursors /\ file.cursor \in Cursors /\ r.cursor \in Cursors
      /\ r.saved \in Cursors /\ file.cursor <= doc.cursor
  BY JournalFacts DEF DocsOK, ReaderTyped
<1>1. CASE jr' = r /\ UNCHANGED unsaved
  <2>1. DocsOK' /\ file' = file /\ doc' = doc
    BY <1>1 DEF unsaved, DocsOK, DocShaped, FileShaped
  <2>2. file.cursor <= r.cursor
    BY <1>t DEF Cursors
  <2>3. Alike(jr', r) /\ ReaderTyped(jr')
    BY <1>1 DEF Alike
  <2> QED BY <1>1, <1>t, <2>1, <2>2, <2>3 DEF Cursors
<1>2. CASE ~(jr' = r /\ UNCHANGED unsaved)
  <2>1. PICK s \in Save([doc EXCEPT !.cursor = r.cursor]) :
           Saved(s) /\ jr' = [r EXCEPT !.saved = IF s.ok THEN r.cursor ELSE @]
    BY <1>2 DEF SaveCursor
  <2>2. PICK d : d = [doc EXCEPT !.cursor = r.cursor]
    OBVIOUS
  <2>3. d = [cursor |-> r.cursor, logs |-> doc.logs, sum |-> doc.sum, valid |-> doc.valid]
    BY <2>2 DEF DocsOK, DocShaped
  <2>4. DocShaped(d) /\ d.cursor = r.cursor /\ (d.valid => d.sum = file) /\ FileShaped(file)
    BY <2>3 DEF DocShaped, DocsOK
  <2>5. s \in Save(d)
    BY <2>1, <2>2
  <2>6. /\ DocShaped(s.doc) /\ FileShaped(s.file) /\ s.doc.cursor = r.cursor
        /\ s.doc.valid => s.doc.sum = s.file
        /\ s.file.cursor \in {file.cursor, r.cursor} /\ (s.ok => s.file.cursor = r.cursor)
    BY <2>4, <2>5, SaveMeans
  <2>7. doc' = s.doc /\ file' = s.file
    BY <2>1 DEF Saved
  <2>8. file.cursor <= s.file.cursor /\ s.file.cursor <= r.cursor /\ s.file.cursor \in Cursors
    BY <1>t, <2>6 DEF Cursors
  <2>9. DocsOK'
    BY <1>t, <2>6, <2>7, <2>8 DEF DocsOK, DocShaped, FileShaped
  <2>10. PICK n : n = IF s.ok THEN r.cursor ELSE r.saved
    OBVIOUS
  <2>11. jr' = [pc |-> r.pc, ctx |-> r.ctx, batch |-> r.batch, rendered |-> r.rendered, cursor |-> r.cursor,
                saved |-> n, pos |-> r.pos, skip |-> r.skip, held |-> r.held, reopen |-> r.reopen]
    BY <2>1, <2>10 DEF ReaderTyped
  <2>12. Alike(jr', r) /\ jr'.saved = n
    BY <2>11 DEF Alike
  <2>13. n \in Cursors /\ n <= s.file.cursor
    BY <1>t, <2>6, <2>8, <2>10 DEF Cursors
  <2>14. ReaderTyped(jr')
    BY <2>11, <2>13 DEF ReaderTyped
  <2>15. doc'.cursor <= r.cursor
    BY <1>t, <2>6, <2>7 DEF Cursors
  <2> QED BY <2>7, <2>8, <2>9, <2>12, <2>13, <2>14, <2>15
<1> QED BY <1>1, <1>2

-----------------------------------------------------------------------------
(* The journal reader: its steps *)

\* A step of the reader is one of Delivery's, or none.
Mapped == D!Begin \/ D!Settle \/ D!Expire \/ D!Commit \/ UNCHANGED D!deliveryVars

LEMMA ReaderPrimed ==
  ASSUME ReaderTyped(jr'), ReaderOK(jr', began', vacuumed', written')
  PROVE  ReaderTyped(jr)' /\ ReaderOK(jr, began, vacuumed, written)'
BY DEF ReaderTyped, ReaderOK, BatchOK, PlaceOK, Owed, BatchEntries

LEMMA SettledSame ==
  ASSUME UNCHANGED <<accepted, refused>>
  PROVE  SettledEntries' = SettledEntries
BY DEF SettledEntries, Delivered

LEMMA RouteSame ==
  ASSUME RouteInv, UNCHANGED routeVars
  PROVE  RouteInv'
BY DEF RouteInv, routeVars, MemoOK, CallOK, Told, Delivered, Joined

\* The cursors and what they cover.
LEMMA CursorKeeps ==
  ASSUME JournalInv, DocsOK', ReaderTyped(jr'), began' \in Cursors, vacuumed' \in Cursors, written' \in Cursors,
         began <= began', vacuumed <= vacuumed', began' <= written', file'.cursor <= written',
         SettledEntries \subseteq SettledEntries', jr'.saved <= file'.cursor,
         NEW c \in Cursors, Covered(c), file'.cursor <= c,
         jr'.pc # "off" => doc'.cursor <= jr'.cursor /\ jr'.cursor <= c
  PROVE  CursorInv'
<1>1. \A n \in Cursors : n <= c => Covered(n)'
  <2> SUFFICES ASSUME NEW n \in Cursors, n <= c, NEW e \in Journal, began' < e, vacuumed' < e, e <= n
               PROVE  e \in SettledEntries'
    BY DEF Covered
  <2>1. began < e /\ vacuumed < e /\ e <= c
    BY JournalFacts DEF Cursors, JournalInv, JournalTyped
  <2> QED BY <2>1 DEF Covered
<1>2. PICK f : f = file'.cursor /\ f \in Cursors
  BY DEF DocsOK
<1>3. PICK k : k = jr'.cursor /\ k \in Cursors
  BY DEF ReaderTyped
<1>4. Covered(f)' /\ (jr'.pc # "off" => Covered(k)')
  BY <1>1, <1>2, <1>3
<1>5. Covered(file.cursor)' /\ (jr'.pc # "off" => Covered(jr.cursor)')
  BY <1>2, <1>3, <1>4 DEF Covered
<1> QED BY <1>5 DEF CursorInv

\* A step that moves the reader alone: neither cursor moves, and what was
\* rendered stays in the batch.
LEMMA QuietStep ==
  ASSUME JournalInv, UNCHANGED <<routeVars, written, vacuumed, doc, file, observed, lives>>,
         began' \in began .. written, ReaderTyped(jr'), ReaderOK(jr', began', vacuumed, written),
         jr'.cursor = jr.cursor, jr'.saved = jr.saved, jr.pc # "off", jr'.pc # "off",
         jr.rendered => jr'.rendered /\ BatchEntries(jr) \subseteq BatchEntries(jr'),
         Offering(jr') => Offering(jr) /\ BatchEntries(jr') = BatchEntries(jr),
         call[J].pc = "send" => Offering(jr'),
         Offering(jr) => Offering(jr') \/ "transient" \in call[J].errs
  PROVE  JournalInv'
<1>t. /\ written \in Cursors /\ vacuumed \in Cursors /\ began \in Cursors /\ LastEntry \in Nat
      /\ observed \in [Journal -> Nat]
  BY JournalFacts DEF JournalInv, JournalTyped
<1>1. RouteInv'
  BY RouteSame DEF JournalInv
<1>2. began' \in Cursors /\ began <= began' /\ began' <= written
  BY <1>t DEF Cursors
<1>3. ReaderTyped(jr)' /\ ReaderOK(jr, began, vacuumed, written)'
  BY ReaderPrimed
<1>4. JournalTyped'
  BY <1>2, <1>3 DEF JournalInv, JournalTyped
<1>5. CursorInv'
  <2>1. DocsOK'
    BY DEF JournalInv, CursorInv, DocsOK, DocShaped, FileShaped
  <2>2. SettledEntries' = SettledEntries
    BY SettledSame DEF routeVars
  <2>3. PICK c : c = jr.cursor /\ c \in Cursors
    BY DEF JournalInv, JournalTyped, ReaderTyped
  <2>4. Covered(c) /\ file.cursor <= c /\ doc.cursor <= c
    BY <2>3, <1>t DEF JournalInv, CursorInv, DocsOK, Cursors
  <2>5. jr'.cursor <= c /\ jr'.saved <= file'.cursor /\ file'.cursor <= written' /\ vacuumed <= vacuumed'
    BY <2>3, <1>t DEF JournalInv, CursorInv, Cursors
  <2> QED BY <1>t, <1>2, <2>1, <2>2, <2>3, <2>4, <2>5, CursorKeeps
<1>6. OfferInv'
  <2>1. Offering(jr') => call[J].pc # "idle" /\ call[J].groups = BatchEntries(jr') \ Filtered /\ jr'.rendered
    BY DEF JournalInv, OfferInv, Records
  <2> QED BY <2>1 DEF routeVars, OfferInv, Records, Offering, BatchEntries
<1>7. OnceInv'
  <2>1. \A e \in Journal : observed[e] > 0 => e <= jr'.cursor \/ (jr'.rendered /\ e \in BatchEntries(jr'))
    BY DEF JournalInv, OnceInv
  <2>2. ASSUME NEW e \in Journal, SentFor(e, jr) PROVE SentFor(e, jr')
    BY <2>2 DEF SentFor
  <2>3. lives = 1 /\ J \notin lostAns =>
          \A e \in Journal : FixedDest(e) = Default =>
             accepted[J][e] <= 1 /\ (accepted[J][e] > 0 => e <= jr'.cursor \/ SentFor(e, jr'))
    BY <2>2 DEF JournalInv, OnceInv
  <2>4. \A e \in Journal : SentFor(e, jr') => SentFor(e, jr)'
    BY DEF SentFor, Offering, routeVars
  <2> QED BY <2>1, <2>3, <2>4 DEF OnceInv, routeVars, BatchEntries, JournalInv
<1> QED BY <1>1, <1>3, <1>4, <1>5, <1>6, <1>7 DEF JournalInv

LEMMA QuietMapped ==
  ASSUME UNCHANGED <<routeVars, vacuumed, file, began>>
  PROVE  Mapped
BY SettledSame DEF Mapped, routeVars, D!deliveryVars

\* openJournal: the place is the cursor, or where the journal ends.
LEMMA OpenKeeps ==
  ASSUME JournalInv, Open
  PROVE  JournalInv' /\ Mapped
<1>1. PICK p : p = IF jr.cursor # 0 THEN jr.cursor - 1 ELSE written
  OBVIOUS
<1>t. /\ ReaderTyped(jr) /\ jr.cursor \in Cursors /\ written \in Cursors /\ began \in Cursors /\ vacuumed \in Cursors
      /\ jr.cursor <= written /\ began <= written /\ LastEntry \in Nat
  BY JournalFacts DEF JournalInv, JournalTyped, ReaderTyped, ReaderOK, CursorInv
<1>2. jr' = [pc |-> "stream", ctx |-> jr.ctx, batch |-> <<>>, rendered |-> FALSE, cursor |-> jr.cursor,
             saved |-> jr.saved, pos |-> p, skip |-> jr.cursor, held |-> 0, reopen |-> FALSE]
  BY <1>1, <1>t DEF Open, ResetBatch, ReaderTyped
<1>3. /\ jr'.pc = "stream" /\ jr'.batch = <<>> /\ ~jr'.rendered /\ jr'.cursor = jr.cursor /\ jr'.saved = jr.saved
      /\ jr'.pos = p /\ jr'.skip = jr.cursor /\ jr'.held = 0
  BY <1>2
<1>4. p \in Cursors /\ p <= written /\ (jr.cursor # 0 => p = jr.cursor - 1) /\ (jr.cursor = 0 => p = written)
  BY <1>1, <1>t DEF Cursors
<1>5. ReaderTyped(jr')
  <2>1. <<>> \in Seq(Journal) /\ 0 \in Cursors
    BY <1>t DEF Cursors
  <2> QED BY <2>1, <1>2, <1>4, <1>t DEF ReaderTyped
<1>6. began' \in began .. written /\ began' \in Cursors /\ (jr.cursor = 0 => began' = written)
  BY <1>t DEF Open, Cursors
<1>7. BatchEntries(jr') = {} /\ BatchOK(jr', began', vacuumed, written)
  BY <1>3, EmptyBatch
<1>8. PlaceOK(jr', began', vacuumed)
  <2>1. \A i \in 1 .. Len(jr'.batch) : jr'.batch[i] <= jr'.pos
    BY <1>3
  <2>2. ASSUME NEW e \in Journal, Owed(jr', began', vacuumed, e), e <= jr'.pos PROVE FALSE
    BY <2>2, <1>3, <1>4, <1>6, <1>t, JournalFacts DEF Owed, Cursors
  <2>3. jr'.skip = 0 => jr'.cursor <= jr'.pos
    BY <1>3, <1>4, <1>t
  <2> QED BY <1>3, <1>4, <2>1, <2>2, <2>3 DEF PlaceOK
<1>9. ReaderOK(jr', began', vacuumed, written)
  BY <1>3, <1>4, <1>7, <1>8, <1>t DEF ReaderOK
<1>10. jr.pc = "open" /\ ~jr.rendered /\ call[J].pc # "send" /\ ~Offering(jr) /\ ~Offering(jr')
  <2>1. jr.pc = "open" /\ ~Offering(jr) /\ ~Offering(jr')
    BY <1>3 DEF Open, Offering
  <2>2. ~jr.rendered
    BY <2>1 DEF JournalInv, ReaderOK
  <2> QED BY <2>1, <2>2 DEF JournalInv, OfferInv
<1>11. UNCHANGED <<routeVars, written, vacuumed, doc, file, observed, lives>>
  BY DEF Open, unsaved
<1>12. JournalInv'
  BY <1>3, <1>5, <1>6, <1>9, <1>10, <1>11, QuietStep
<1>13. Mapped
  <2>1. CASE jr.cursor # 0
    <3>1. UNCHANGED began
      BY <2>1 DEF Open
    <3> QED BY <3>1, <1>11, QuietMapped
  <2>2. CASE jr.cursor = 0
    <3>1. file.cursor = 0
      BY <2>2, <1>10, <1>t DEF JournalInv, CursorInv, DocsOK, Cursors
    <3>2. SettledEntries' = SettledEntries
      BY <1>11, SettledSame DEF routeVars
    <3>3. began' \in began .. LastEntry
      BY <1>6, <1>t DEF Cursors
    <3>4. D!Begin
      BY <3>1, <3>2, <3>3, <1>11 DEF D!Begin
    <3> QED BY <3>4 DEF Mapped
  <2> QED BY <2>1, <2>2
<1> QED BY <1>12, <1>13

\* next: an entry is skipped, held back or joins the batch.
LEMMA ReadKeeps ==
  ASSUME JournalInv, ReadEntry
  PROVE  JournalInv' /\ Mapped
<1>1. PICK e : e = (IF jr.pos < vacuumed THEN vacuumed ELSE jr.pos) + 1
  OBVIOUS
<1>2. PICK r : r = [jr EXCEPT !.pos = e, !.skip = 0]
  OBVIOUS
<1>3. /\ jr.pc = "stream" /\ e <= written
      /\ \/ jr.skip = e /\ jr' = r
         \/ jr.skip # e /\ jr' = [r EXCEPT !.held = e, !.pc = "flush"]
         \/ jr.skip # e /\ jr' = Ingested(r, e)
  BY <1>1, <1>2 DEF ReadEntry, Skips
<1>4. UNCHANGED <<routeVars, written, vacuumed, doc, file, observed, lives>> /\ UNCHANGED began
  BY DEF ReadEntry, unsaved
<1>t. /\ ReaderTyped(jr) /\ jr.cursor \in Cursors /\ jr.pos \in Cursors /\ written \in Cursors
      /\ began \in Cursors /\ vacuumed \in Cursors /\ began <= written /\ LastEntry \in Nat
      /\ jr.cursor <= written /\ jr.pos <= written
      /\ BatchOK(jr, began, vacuumed, written) /\ PlaceOK(jr, began, vacuumed) /\ ~jr.rendered /\ jr.held = 0
  BY <1>3, JournalFacts DEF JournalInv, JournalTyped, ReaderTyped, ReaderOK, CursorInv, PlaceOK
<1>5. e \in Journal /\ jr.pos < e /\ vacuumed < e /\ \A f \in Journal : vacuumed < f /\ f <= e => f <= jr.pos \/ f = e
  BY <1>1, <1>3, <1>t, JournalFacts DEF Cursors
<1>6. /\ r = [pc |-> jr.pc, ctx |-> jr.ctx, batch |-> jr.batch, rendered |-> jr.rendered, cursor |-> jr.cursor,
              saved |-> jr.saved, pos |-> e, skip |-> 0, held |-> jr.held, reopen |-> jr.reopen]
  BY <1>2, <1>t DEF ReaderTyped
<1>7. /\ r.pc = "stream" /\ r.batch = jr.batch /\ ~r.rendered /\ r.cursor = jr.cursor /\ r.saved = jr.saved
      /\ r.pos = e /\ r.skip = 0 /\ r.held = 0
  BY <1>6, <1>3, <1>t
<1>8. ReaderTyped(r)
  <2>1. 0 \in Cursors /\ e \in Cursors
    BY <1>5, JournalFacts DEF Cursors
  <2> QED BY <2>1, <1>6, <1>t DEF ReaderTyped
<1>9. BatchEntries(r) = BatchEntries(jr) /\ BatchOK(r, began, vacuumed, written)
  BY <1>7, <1>t DEF BatchEntries, BatchOK, Owed
<1>10. \A i \in 1 .. Len(r.batch) : r.batch[i] \in Journal /\ r.batch[i] < e
  <2>1. \A i \in 1 .. Len(jr.batch) : jr.batch[i] \in Journal /\ jr.batch[i] <= jr.pos
    BY <1>t DEF ReaderTyped, PlaceOK
  <2> QED BY <2>1, <1>5, <1>7, <1>t, JournalFacts DEF Cursors
<1>11. \A f \in Journal : Owed(r, began, vacuumed, f) /\ f <= e => f \in BatchEntries(r) \/ f = e
  <2> SUFFICES ASSUME NEW f \in Journal, Owed(r, began, vacuumed, f), f <= e PROVE f \in BatchEntries(r) \/ f = e
    OBVIOUS
  <2>1. vacuumed < f /\ Owed(jr, began, vacuumed, f) /\ 0 < f
    BY <1>7, JournalFacts DEF Owed
  <2>2. f = e \/ f <= jr.pos
    BY <1>5, <2>1
  <2>3. f <= jr.pos => f \in BatchEntries(jr)
    BY <1>t, <2>1 DEF PlaceOK
  <2> QED BY <2>2, <2>3, <1>9
<1>12. jr.skip # e => jr.cursor < e
  BY <1>5, <1>t, JournalFacts DEF PlaceOK, Cursors
<1>13. /\ ReaderTyped(jr') /\ ReaderOK(jr', began, vacuumed, written)
       /\ jr'.pc \in {"stream", "flush"} /\ jr'.cursor = jr.cursor /\ jr'.saved = jr.saved
  <2>1. CASE jr.skip = e /\ jr' = r
    <3>1. e = jr.cursor /\ jr.batch = <<>>
      BY <2>1, <1>5, <1>t, JournalFacts DEF PlaceOK
    <3>2. BatchEntries(r) = {}
      BY <3>1, <1>7, EmptyBatch
    <3>3. PlaceOK(r, began, vacuumed)
      <4>1. ASSUME NEW f \in Journal, Owed(r, began, vacuumed, f), f <= r.pos PROVE FALSE
        BY <4>1, <3>1, <1>7, <1>t, JournalFacts DEF Owed, Cursors
      <4>2. r.cursor <= r.pos
        BY <3>1, <1>7, <1>t DEF Cursors
      <4>3. \A i \in 1 .. Len(r.batch) : r.batch[i] <= r.pos
        BY <3>1, <1>7
      <4> QED BY <4>1, <4>2, <4>3, <1>7 DEF PlaceOK
    <3>4. ReaderOK(r, began, vacuumed, written)
      BY <3>3, <1>3, <1>7, <1>9, <1>t DEF ReaderOK
    <3> QED BY <2>1, <3>4, <1>7, <1>8
  <2>2. CASE jr.skip # e /\ jr' = [r EXCEPT !.held = e, !.pc = "flush"]
    <3>1. PICK q : q = [r EXCEPT !.held = e, !.pc = "flush"]
      OBVIOUS
    <3>2. q = [pc |-> "flush", ctx |-> r.ctx, batch |-> r.batch, rendered |-> r.rendered, cursor |-> r.cursor,
               saved |-> r.saved, pos |-> r.pos, skip |-> r.skip, held |-> e, reopen |-> r.reopen]
      BY <3>1, <1>8 DEF ReaderTyped
    <3>3. /\ q.pc = "flush" /\ q.batch = r.batch /\ ~q.rendered /\ q.cursor = jr.cursor /\ q.saved = jr.saved
          /\ q.pos = e /\ q.skip = 0 /\ q.held = e
      BY <3>2, <1>7
    <3>4. ReaderTyped(q)
      BY <3>2, <1>5, <1>8, JournalFacts DEF ReaderTyped
    <3>5. BatchEntries(q) = BatchEntries(r) /\ BatchOK(q, began, vacuumed, written)
      BY <3>3, <1>7, <1>9 DEF BatchEntries, BatchOK, Owed
    <3>6. PlaceOK(q, began, vacuumed)
      <4>1. \A f \in Journal : Owed(q, began, vacuumed, f) /\ f <= e => f \in BatchEntries(q) \/ f = e
        BY <3>3, <3>5, <1>7, <1>11 DEF Owed
      <4>2. \A i \in 1 .. Len(q.batch) : q.batch[i] < e /\ q.batch[i] <= e
        BY <3>3, <1>5, <1>10, JournalFacts DEF Cursors
      <4>3. q.cursor < e /\ q.cursor <= e
        BY <2>2, <3>3, <1>5, <1>12, <1>t, JournalFacts DEF Cursors
      <4> QED BY <3>3, <4>1, <4>2, <4>3 DEF PlaceOK
    <3>7. ReaderOK(q, began, vacuumed, written)
      BY <3>3, <3>5, <3>6, <1>3, <1>t DEF ReaderOK
    <3> QED BY <2>2, <3>1, <3>3, <3>4, <3>7
  <2>3. CASE jr.skip # e /\ jr' = Ingested(r, e)
    BY <2>3, <1>3, <1>5, <1>7, <1>8, <1>9, <1>10, <1>11, <1>12, <1>t, IngestedOK
  <2> QED BY <1>3, <2>1, <2>2, <2>3
<1>14. ~Offering(jr) /\ ~Offering(jr') /\ call[J].pc # "send"
  <2>1. ~Offering(jr) /\ ~Offering(jr')
    BY <1>3, <1>13 DEF Offering
  <2> QED BY <2>1 DEF JournalInv, OfferInv
<1>15. began' \in began .. written /\ ReaderOK(jr', began', vacuumed, written)
  BY <1>4, <1>13, <1>t DEF Cursors
<1>16. JournalInv'
  BY <1>3, <1>4, <1>13, <1>14, <1>15, <1>t, QuietStep
<1> QED BY <1>4, <1>16, QuietMapped

\* A step that only changes where the reader stands in its loop.
LEMMA MovedKeeps ==
  ASSUME JournalInv, UNCHANGED <<routeVars, written, vacuumed, doc, file, observed, lives>>, UNCHANGED began,
         NEW c, NEW x, NEW h \in {0, jr.held}, NEW o,
         jr' = [pc |-> c, ctx |-> x, batch |-> jr.batch, rendered |-> jr.rendered, cursor |-> jr.cursor,
                saved |-> jr.saved, pos |-> jr.pos, skip |-> jr.skip, held |-> h, reopen |-> o],
         jr.pc # "off", c # "off",
         c \in {"stream", "flush", "export"} => jr.pc \in {"stream", "flush", "export"} /\ h = jr.held,
         c \in {"stream", "open"} => jr.pc = c,
         c \in {"export", "finalExport"} => Offering(jr),
         call[J].pc = "send" => c \in {"export", "finalExport"},
         Offering(jr) => c \in {"export", "finalExport"} \/ "transient" \in call[J].errs
  PROVE  JournalInv' /\ Mapped
<1>t. /\ ReaderTyped(jr) /\ ReaderOK(jr, began, vacuumed, written) /\ began \in Cursors /\ written \in Cursors
      /\ began <= written /\ LastEntry \in Nat
  BY JournalFacts DEF JournalInv, JournalTyped, CursorInv
<1>1. /\ jr'.pc = c /\ jr'.batch = jr.batch /\ jr'.rendered = jr.rendered /\ jr'.cursor = jr.cursor
      /\ jr'.saved = jr.saved /\ jr'.pos = jr.pos /\ jr'.skip = jr.skip /\ jr'.held = h
  OBVIOUS
<1>2. ReaderTyped(jr')
  <2>1. h \in Cursors
    BY <1>t DEF ReaderTyped, Cursors
  <2> QED BY <2>1, <1>t DEF ReaderTyped
<1>3. BatchEntries(jr') = BatchEntries(jr)
  BY <1>1 DEF BatchEntries
<1>4. ReaderOK(jr', began, vacuumed, written)
  <2>1. BatchOK(jr', began, vacuumed, written)
    BY <1>1, <1>3, <1>t DEF ReaderOK, BatchOK, Owed
  <2>2. c \in {"stream", "flush", "export"} => PlaceOK(jr', began, vacuumed)
    BY <1>1, <1>3, <1>t DEF ReaderOK, PlaceOK, Owed
  <2> QED BY <2>1, <2>2, <1>1, <1>t DEF ReaderOK
<1>5. Offering(jr') <=> c \in {"export", "finalExport"}
  BY <1>1 DEF Offering
<1>6. began' \in began .. written /\ ReaderOK(jr', began', vacuumed, written)
  BY <1>4, <1>t DEF Cursors
<1>7. JournalInv'
  BY <1>1, <1>2, <1>3, <1>5, <1>6, QuietStep
<1> QED BY <1>7, QuietMapped

LEMMA TickKeeps ==
  ASSUME JournalInv, TickFlush \/ SourceEnds
  PROVE  JournalInv' /\ Mapped
<1>1. PICK o : jr' = [pc |-> "flush", ctx |-> jr.ctx, batch |-> jr.batch, rendered |-> jr.rendered, cursor |-> jr.cursor,
                      saved |-> jr.saved, pos |-> jr.pos, skip |-> jr.skip, held |-> jr.held, reopen |-> o]
  <2>0. ReaderTyped(jr)
    BY DEF JournalInv, JournalTyped
  <2>1. CASE TickFlush
    BY <2>0, <2>1 DEF TickFlush, ReaderTyped
  <2>2. CASE SourceEnds
    BY <2>0, <2>2 DEF SourceEnds, ReaderTyped
  <2> QED BY <2>1, <2>2
<1>2. jr.pc = "stream" /\ ~Offering(jr)
  BY DEF TickFlush, SourceEnds, Offering
<1>3. UNCHANGED <<routeVars, written, vacuumed, doc, file, observed, lives>> /\ UNCHANGED began
  BY DEF TickFlush, SourceEnds, unsaved
<1>4. call[J].pc # "send"
  BY <1>2 DEF JournalInv, OfferInv
<1> QED BY <1>1, <1>2, <1>3, <1>4, MovedKeeps

LEMMA CancelKeeps ==
  ASSUME JournalInv, Cancel
  PROVE  JournalInv' /\ Mapped
<1>1. jr' = [pc |-> jr.pc, ctx |-> FALSE, batch |-> jr.batch, rendered |-> jr.rendered, cursor |-> jr.cursor,
             saved |-> jr.saved, pos |-> jr.pos, skip |-> jr.skip, held |-> jr.held, reopen |-> jr.reopen]
  BY DEF JournalInv, JournalTyped, ReaderTyped, Cancel
<1>2. UNCHANGED <<routeVars, written, vacuumed, doc, file, observed, lives>> /\ UNCHANGED began /\ jr.pc # "off"
  BY DEF Cancel, unsaved
<1>3. call[J].pc = "send" => jr.pc \in {"export", "finalExport"}
  BY DEF JournalInv, OfferInv, Offering
<1>4. Offering(jr) <=> jr.pc \in {"export", "finalExport"}
  BY DEF Offering
<1> QED BY <1>1, <1>2, <1>3, <1>4, MovedKeeps

LEMMA LeaveKeeps ==
  ASSUME JournalInv, LeaveLoop
  PROVE  JournalInv' /\ Mapped
<1>1. jr' = [pc |-> "final", ctx |-> jr.ctx, batch |-> jr.batch, rendered |-> jr.rendered, cursor |-> jr.cursor,
             saved |-> jr.saved, pos |-> jr.pos, skip |-> jr.skip, held |-> 0, reopen |-> jr.reopen]
  BY DEF JournalInv, JournalTyped, ReaderTyped, LeaveLoop
<1>2. UNCHANGED <<routeVars, written, vacuumed, doc, file, observed, lives>> /\ UNCHANGED began
  BY DEF LeaveLoop, unsaved
<1>3. jr.pc \in {"open", "stream", "flush"} /\ ~Offering(jr)
  BY DEF LeaveLoop, Offering
<1>4. call[J].pc # "send"
  BY <1>3 DEF JournalInv, OfferInv
<1> QED BY <1>1, <1>2, <1>3, <1>4, MovedKeeps

LEMMA NothingKeeps ==
  ASSUME JournalInv, NothingToFlush
  PROVE  JournalInv' /\ Mapped
<1>1. /\ jr.batch = <<>> /\ jr.pc \in {"flush", "final"} /\ jr' = Resumed(jr)
      /\ UNCHANGED <<routeVars, written, vacuumed, doc, file, observed, lives>> /\ UNCHANGED began
  BY DEF NothingToFlush, unsaved
<1>t. /\ ReaderTyped(jr) /\ ReaderOK(jr, began, vacuumed, written)
      /\ began \in Cursors /\ written \in Cursors /\ vacuumed \in Cursors /\ began <= written /\ LastEntry \in Nat
  BY JournalFacts DEF JournalInv, JournalTyped, CursorInv
<1>2. ~jr.rendered /\ jr.cursor <= written /\ jr.pos <= written /\ (jr.pc = "flush" => PlaceOK(jr, began, vacuumed))
  BY <1>1, <1>t DEF ReaderOK
<1>3. /\ ReaderTyped(jr') /\ ReaderOK(jr', began, vacuumed, written) /\ jr'.pc \in {"save", "flush", "stream", "open"}
      /\ jr'.cursor = jr.cursor /\ jr'.saved = jr.saved
  BY <1>1, <1>2, <1>t, ResumedOK
<1>4. ~Offering(jr) /\ ~Offering(jr') /\ jr.pc # "off" /\ jr'.pc # "off"
  BY <1>1, <1>3 DEF Offering
<1>5. call[J].pc # "send"
  BY <1>4 DEF JournalInv, OfferInv
<1>6. began' \in began .. written /\ ReaderOK(jr', began', vacuumed, written)
  BY <1>1, <1>3, <1>t DEF Cursors
<1>7. JournalInv'
  BY <1>1, <1>2, <1>3, <1>4, <1>5, <1>6, QuietStep
<1> QED BY <1>1, <1>7, QuietMapped

-----------------------------------------------------------------------------
(* The journal reader: what moves a cursor *)

\* A step that writes the positions document leaves the rest of the promise to
\* be shown: the cursor on disk stays within what is covered.
LEMMA CommitMapped ==
  ASSUME JournalInv, UNCHANGED <<accepted, refused, vacuumed, began>>, DocsOK',
         NEW c \in Cursors, Covered(c), file.cursor <= file'.cursor, file'.cursor <= c
  PROVE  Mapped
<1>1. SettledEntries' = SettledEntries
  BY SettledSame
<1>2. file.cursor \in Cursors /\ file'.cursor \in Cursors /\ LastEntry \in Nat
  BY JournalFacts DEF JournalInv, CursorInv, DocsOK
<1>3. file'.cursor \in file.cursor .. LastEntry
  BY <1>2 DEF Cursors
<1>4. \A e \in 1 .. LastEntry : began < e /\ vacuumed < e /\ e <= file'.cursor => e \in SettledEntries
  <2> SUFFICES ASSUME NEW e \in 1 .. LastEntry, began < e, vacuumed < e, e <= file'.cursor PROVE e \in SettledEntries
    OBVIOUS
  <2>1. e <= c
    BY <1>2 DEF Cursors
  <2> QED BY <2>1 DEF Covered, Journal
<1>5. D!Commit
  BY <1>1, <1>3, <1>4 DEF D!Commit, D!Entries
<1> QED BY <1>5 DEF Mapped

\* settleBatch: every entry of the batch is settled, so the cursor may pass it.
LEMMA SettleKeeps ==
  ASSUME JournalInv, NEW final \in BOOLEAN, Settled(final), jr.batch # <<>>, jr.pc # "off",
         ~final => PlaceOK(jr, began, vacuumed), BatchEntries(jr) \subseteq SettledEntries,
         UNCHANGED <<accepted, lostAns, refused, written, vacuumed, began, lives>>,
         RouteInv', call'[J].pc # "send", observed' \in [Journal -> Nat],
         \A e \in Journal : observed'[e] <= 1 /\ (observed'[e] > 0 => e <= jr.cursor \/ e \in BatchEntries(jr))
  PROVE  JournalInv' /\ Mapped
<1>t. /\ ReaderTyped(jr) /\ ReaderOK(jr, began, vacuumed, written) /\ LastEntry \in Nat
      /\ written \in Cursors /\ began \in Cursors /\ vacuumed \in Cursors /\ jr.cursor \in Cursors
      /\ began <= written /\ jr.saved \in Cursors
  BY JournalFacts DEF JournalInv, JournalTyped, ReaderTyped, CursorInv
<1>1. PICK n : n = Len(jr.batch) /\ n \in Nat \ {0}
  BY <1>t DEF ReaderTyped
<1>2. PICK z : z = jr.batch[n] /\ z \in Journal
  BY <1>1, <1>t DEF ReaderTyped
<1>3. z \in BatchEntries(jr) /\ jr.cursor < z /\ z <= written /\ z \in Cursors
  <2>1. z \in BatchEntries(jr)
    BY <1>1, <1>2 DEF BatchEntries
  <2>2. BatchOK(jr, began, vacuumed, written)
    BY <1>t DEF ReaderOK
  <2> QED BY <2>1, <2>2, <1>t, BatchBounds, JournalFacts
<1>4. \A e \in BatchEntries(jr) : e \in Journal /\ e <= z
  <2>2. BatchOK(jr, began, vacuumed, written)
    BY <1>t DEF ReaderOK
  <2> QED BY <2>2, <1>1, <1>2, <1>t, BatchBounds
<1>5. PICK r : r = [ResetBatch(jr) EXCEPT !.cursor = z, !.pc = IF final THEN "final" ELSE "flush"]
  OBVIOUS
<1>6. r = [pc |-> IF final THEN "final" ELSE "flush", ctx |-> jr.ctx, batch |-> <<>>, rendered |-> FALSE,
           cursor |-> z, saved |-> jr.saved, pos |-> jr.pos, skip |-> jr.skip, held |-> jr.held, reopen |-> jr.reopen]
  BY <1>5, <1>t DEF ResetBatch, ReaderTyped
<1>7. /\ r.pc = (IF final THEN "final" ELSE "flush") /\ r.batch = <<>> /\ ~r.rendered /\ r.cursor = z
      /\ r.saved = jr.saved /\ r.pos = jr.pos /\ r.skip = jr.skip /\ r.held = jr.held
  BY <1>6
<1>8. ReaderTyped(r)
  <2>1. <<>> \in Seq(Journal)
    OBVIOUS
  <2> QED BY <2>1, <1>3, <1>6, <1>t DEF ReaderTyped
<1>9. r.cursor <= written /\ r.pos <= written /\ BatchEntries(r) = {}
  BY <1>3, <1>7, <1>t, EmptyBatch DEF ReaderOK
<1>10. ~final => PlaceOK(r, began, vacuumed)
  <2> SUFFICES ASSUME ~final PROVE PlaceOK(r, began, vacuumed)
    OBVIOUS
  <2>0. PlaceOK(jr, began, vacuumed)
    OBVIOUS
  <2>1. \A i \in 1 .. Len(r.batch) : r.batch[i] <= r.pos /\ r.batch[i] < r.held
    BY <1>7
  <2>2. \A e \in Journal : Owed(r, began, vacuumed, e) /\ e <= r.pos => e \in BatchEntries(r) \/ e = r.held
    <3> SUFFICES ASSUME NEW e \in Journal, Owed(r, began, vacuumed, e), e <= r.pos PROVE e = r.held
      OBVIOUS
    <3>1. began < e /\ vacuumed < e /\ z < e /\ e <= jr.pos
      BY <1>7 DEF Owed
    <3>2. Owed(jr, began, vacuumed, e)
      BY <3>1, <1>3, <1>t, JournalFacts DEF Owed, Cursors
    <3>3. e \in BatchEntries(jr) \/ e = jr.held
      BY <2>0, <3>1, <3>2 DEF PlaceOK
    <3>4. e \notin BatchEntries(jr)
      BY <3>1, <1>2, <1>4, JournalFacts DEF Cursors
    <3> QED BY <3>3, <3>4, <1>7
  <2>3. r.held # 0 => r.held = r.pos /\ r.cursor < r.held
    BY <2>0, <1>1, <1>2, <1>7 DEF PlaceOK
  <2>4. r.skip = 0
    BY <2>0, <1>7 DEF PlaceOK
  <2>5. r.cursor <= r.pos
    BY <2>0, <1>1, <1>2, <1>7 DEF PlaceOK
  <2>6. r.pc = "flush"
    BY <1>7
  <2> QED BY <2>1, <2>2, <2>3, <2>4, <2>5, <2>6 DEF PlaceOK
<1>11. PICK q : q = Resumed(r)
  OBVIOUS
<1>12. /\ ReaderTyped(q) /\ ReaderOK(q, began, vacuumed, written) /\ ~q.rendered
       /\ q.pc \in {"save", "flush", "stream", "open"} /\ q.cursor = z /\ q.saved = jr.saved
  <2>1. r.pc \in {"flush", "final"} /\ (r.pc = "flush" => ~final)
    BY <1>7
  <2> QED BY <2>1, <1>7, <1>8, <1>9, <1>10, <1>11, <1>t, ResumedOK
<1>13. SaveCursor(q, FALSE)
  BY <1>1, <1>2, <1>5, <1>11 DEF Settled
<1>14. DocsOK /\ doc.cursor <= q.cursor /\ q.saved <= file.cursor /\ Covered(jr.cursor)
  BY <1>3, <1>12, <1>t DEF JournalInv, CursorInv, DocsOK, Cursors
<1>15. /\ DocsOK' /\ Alike(jr', q) /\ ReaderTyped(jr')
       /\ jr'.saved <= file'.cursor /\ file.cursor <= file'.cursor
       /\ file'.cursor <= z /\ doc'.cursor <= z
  BY <1>12, <1>13, <1>14, SaveEffect
<1>16. jr'.cursor = z /\ ~jr'.rendered /\ jr'.pc \in {"save", "flush", "stream", "open"}
  BY <1>12, <1>15 DEF Alike
<1>17. Covered(z)
  <2> SUFFICES ASSUME NEW e \in Journal, began < e, vacuumed < e, e <= z PROVE e \in SettledEntries
    BY DEF Covered
  <2>1. CASE e <= jr.cursor
    BY <2>1, <1>14 DEF Covered
  <2>2. CASE jr.cursor < e
    <3>1. e \in BatchEntries(jr)
      BY <2>2, <1>1, <1>2, <1>t DEF ReaderOK, BatchOK, Owed
    <3> QED BY <3>1
  <2> QED BY <2>1, <2>2, <1>t, JournalFacts DEF Cursors
<1>18. ReaderTyped(jr)' /\ ReaderOK(jr, began, vacuumed, written)'
  <2>1. ReaderOK(jr', began, vacuumed, written)
    BY <1>12, <1>15, AlikeOK
  <2> QED BY <2>1, <1>15, ReaderPrimed
<1>19. JournalTyped'
  BY <1>18 DEF JournalInv, JournalTyped
<1>20. CursorInv'
  <2>1. file'.cursor <= written' /\ jr'.cursor <= z /\ vacuumed <= vacuumed' /\ began <= began' /\ began' <= written'
    BY <1>3, <1>15, <1>16, <1>t DEF DocsOK, Cursors
  <2>2. SettledEntries' = SettledEntries
    BY SettledSame
  <2>3. doc'.cursor <= jr'.cursor
    BY <1>15, <1>16
  <2>4. began' \in Cursors /\ vacuumed' \in Cursors /\ written' \in Cursors
    BY <1>t
  <2> QED BY <2>1, <2>2, <2>3, <2>4, <1>3, <1>15, <1>17, CursorKeeps
<1>21. OfferInv'
  BY <1>16 DEF OfferInv, Offering
<1>22. OnceInv'
  <2>1. \A e \in Journal : e <= jr.cursor \/ e \in BatchEntries(jr) => e <= jr'.cursor
    BY <1>3, <1>4, <1>16, <1>t, JournalFacts DEF Cursors
  <2>2. \A e \in Journal : observed'[e] > 0 => e <= jr'.cursor
    BY <2>1
  <2>3. \A e \in Journal : SentFor(e, jr) => e \in BatchEntries(jr)
    BY DEF SentFor, JournalInv, OfferInv, Records
  <2>4. lives = 1 /\ J \notin lostAns =>
          \A e \in Journal : FixedDest(e) = Default =>
             accepted[J][e] <= 1 /\ (accepted[J][e] > 0 => e <= jr'.cursor)
    BY <2>1, <2>3 DEF JournalInv, OnceInv
  <2> QED BY <2>2, <2>4 DEF OnceInv
<1>23. Mapped
  BY <1>3, <1>15, <1>17, CommitMapped
<1> QED BY <1>18, <1>19, <1>20, <1>21, <1>22, <1>23 DEF JournalInv

\* Render: an entry is observed when its batch is first converted.
LEMMA RenderMeans ==
  ASSUME JournalInv, jr.pc # "off", Render(jr)
  PROVE  /\ observed' \in [Journal -> Nat]
         /\ \A e \in Journal : observed'[e] <= 1 /\ (observed'[e] > 0 => e <= jr.cursor \/ e \in BatchEntries(jr))
<1>1. observed \in [Journal -> Nat]
  BY DEF JournalInv, JournalTyped
<1>2. observed' = [e \in Journal |-> IF e \in BatchEntries(jr) /\ ~jr.rendered THEN observed[e] + 1 ELSE observed[e]]
  BY DEF Render
<1>3. \A e \in Journal : observed[e] <= 1 /\ (observed[e] > 0 => e <= jr.cursor \/ (jr.rendered /\ e \in BatchEntries(jr)))
  BY DEF JournalInv, OnceInv
<1>4. \A e \in BatchEntries(jr) : e \in Journal /\ jr.cursor < e
  <2>1. ReaderTyped(jr) /\ BatchOK(jr, began, vacuumed, written)
    BY DEF JournalInv, JournalTyped, ReaderOK
  <2> QED BY <2>1, BatchBounds
<1>5. jr.cursor \in Int /\ \A e \in Journal : e \in Int
  BY JournalFacts DEF JournalInv, JournalTyped, ReaderTyped, Cursors
<1>6. ASSUME NEW e \in Journal PROVE observed'[e] <= 1 /\ (observed'[e] > 0 => e <= jr.cursor \/ e \in BatchEntries(jr))
  <2>1. CASE e \in BatchEntries(jr) /\ ~jr.rendered
    <3>1. observed[e] = 0
      BY <2>1, <1>1, <1>3, <1>4, <1>5
    <3>2. observed'[e] = 1
      BY <2>1, <3>1, <1>2
    <3> QED BY <2>1, <3>2
  <2>2. CASE ~(e \in BatchEntries(jr) /\ ~jr.rendered)
    BY <2>2, <1>2, <1>3
  <2> QED BY <2>1, <2>2
<1> QED BY <1>1, <1>2, <1>6

\* An attempt: the batch is rendered, and settled at once or offered.
LEMMA AttemptKeeps ==
  ASSUME JournalInv, Attempt
  PROVE  JournalInv' /\ Mapped
<1>t. /\ ReaderTyped(jr) /\ ReaderOK(jr, began, vacuumed, written) /\ BatchOK(jr, began, vacuumed, written)
      /\ LastEntry \in Nat /\ written \in Cursors /\ began \in Cursors /\ vacuumed \in Cursors
  BY JournalFacts DEF JournalInv, JournalTyped, ReaderOK
<1>1. /\ jr.pc \in {"flush", "final"} /\ jr.batch # <<>> /\ Render(jr) /\ ~Offering(jr)
      /\ UNCHANGED <<written, vacuumed, began, lives>>
  BY DEF Attempt, Offering
<1>2. /\ observed' \in [Journal -> Nat]
      /\ \A e \in Journal : observed'[e] <= 1 /\ (observed'[e] > 0 => e <= jr.cursor \/ e \in BatchEntries(jr))
  BY <1>1, RenderMeans
<1>3. call[J].pc # "send"
  BY <1>1 DEF JournalInv, OfferInv
<1>4. BatchEntries(jr) \subseteq Journal
  BY <1>t, BatchBounds
<1>5. CASE Records(jr) = {}
  <2>1. Settled(jr.pc = "final") /\ UNCHANGED routeVars
    BY <1>5 DEF Attempt
  <2>2. PICK final \in BOOLEAN : final = (jr.pc = "final")
    OBVIOUS
  <2>3. Settled(final) /\ (~final => PlaceOK(jr, began, vacuumed))
    BY <2>1, <2>2, <1>1, <1>t DEF ReaderOK
  <2>4. BatchEntries(jr) \subseteq SettledEntries
    BY <1>4, <1>5 DEF Records, SettledEntries
  <2>5. RouteInv' /\ call'[J].pc # "send" /\ UNCHANGED <<accepted, lostAns, refused>>
    BY <2>1, <1>3, RouteSame DEF routeVars, JournalInv
  <2> QED BY <2>3, <2>4, <2>5, <1>1, <1>2, SettleKeeps
<1>6. CASE Records(jr) # {}
  <2>1. /\ StartExport(J, Records(jr)) /\ UNCHANGED unsaved
        /\ jr' = [jr EXCEPT !.rendered = TRUE, !.pc = IF @ = "final" THEN "finalExport" ELSE "export"]
    BY <1>6 DEF Attempt
  <2>2. Records(jr) \in SUBSET Resources
    BY <1>4, JournalFacts DEF Records
  <2>3. /\ RouteInv' /\ call'[J].pc = "send" /\ call'[J].groups = Records(jr)
        /\ UNCHANGED <<accepted, lostAns, refused>>
    BY <2>1, <2>2, JournalFacts, StartKeeps DEF JournalInv
  <2>4. PICK c : c = IF jr.pc = "final" THEN "finalExport" ELSE "export"
    OBVIOUS
  <2>5. jr' = [pc |-> c, ctx |-> jr.ctx, batch |-> jr.batch, rendered |-> TRUE, cursor |-> jr.cursor,
               saved |-> jr.saved, pos |-> jr.pos, skip |-> jr.skip, held |-> jr.held, reopen |-> jr.reopen]
    BY <2>1, <2>4, <1>t DEF ReaderTyped
  <2>6. /\ jr'.pc = c /\ jr'.batch = jr.batch /\ jr'.rendered /\ jr'.cursor = jr.cursor
        /\ jr'.saved = jr.saved /\ jr'.pos = jr.pos /\ jr'.skip = jr.skip /\ jr'.held = jr.held
    BY <2>5
  <2>7. c \in {"export", "finalExport"} /\ (c = "export" => jr.pc = "flush") /\ jr.pc # "off"
    BY <2>4, <1>1
  <2>8. ReaderTyped(jr')
    BY <2>5, <1>t DEF ReaderTyped
  <2>9. BatchEntries(jr') = BatchEntries(jr)
    BY <2>6 DEF BatchEntries
  <2>10. ReaderOK(jr', began', vacuumed', written')
    <3>1. BatchOK(jr', began, vacuumed, written)
      BY <2>6, <2>9, <1>t DEF BatchOK, Owed
    <3>2. c = "export" => PlaceOK(jr', began, vacuumed)
      BY <2>6, <2>7, <2>9, <1>t DEF ReaderOK, PlaceOK, Owed
    <3>3. ReaderOK(jr', began, vacuumed, written)
      BY <3>1, <3>2, <2>6, <2>7, <1>1, <1>t DEF ReaderOK
    <3> QED BY <3>3, <1>1
  <2>11. ReaderTyped(jr)' /\ ReaderOK(jr, began, vacuumed, written)' /\ JournalTyped'
    <3>1. ReaderTyped(jr)' /\ ReaderOK(jr, began, vacuumed, written)'
      BY <2>8, <2>10, ReaderPrimed
    <3> QED BY <3>1, <1>1, <1>2 DEF JournalInv, JournalTyped
  <2>12. CursorInv'
    <3>1. SettledEntries' = SettledEntries
      BY <2>3, SettledSame
    <3> QED BY <3>1, <2>1, <2>6, <2>7, <1>1
            DEF JournalInv, CursorInv, Covered, unsaved, DocsOK, DocShaped, FileShaped
  <2>13. OfferInv'
    <3>1. call'[J].groups = BatchEntries(jr') \ Filtered
      BY <2>3, <2>9 DEF Records
    <3> QED BY <3>1, <2>3, <2>6, <2>7 DEF OfferInv, Offering, Records, BatchEntries
  <2>14. OnceInv'
    <3>1. \A e \in Journal : observed'[e] > 0 => e <= jr'.cursor \/ (jr'.rendered /\ e \in BatchEntries(jr'))
      BY <2>6, <2>9, <1>2
    <3>2. \A e \in Journal : ~SentFor(e, jr)
      BY <1>1 DEF SentFor
    <3>3. lives = 1 /\ J \notin lostAns =>
            \A e \in Journal : FixedDest(e) = Default =>
               accepted[J][e] <= 1 /\ (accepted[J][e] > 0 => e <= jr'.cursor)
      BY <3>2, <2>6, <2>7 DEF JournalInv, OnceInv
    <3> QED BY <3>1, <3>3, <2>3, <1>1, <1>2 DEF OnceInv, BatchEntries
  <2>15. Mapped
    <3>1. SettledEntries' = SettledEntries
      BY <2>3, SettledSame
    <3> QED BY <3>1, <2>1, <1>1 DEF Mapped, unsaved, D!deliveryVars
  <2> QED BY <2>3, <2>11, <2>12, <2>13, <2>14, <2>15 DEF JournalInv
<1> QED BY <1>5, <1>6

\* The answer settles the batch, or the batch is kept for another attempt.
LEMMA ReturnKeeps ==
  ASSUME JournalInv, AttemptReturns
  PROVE  JournalInv' /\ Mapped
<1>t. /\ ReaderTyped(jr) /\ ReaderOK(jr, began, vacuumed, written) /\ BatchOK(jr, began, vacuumed, written)
      /\ LastEntry \in Nat /\ RouteInv /\ J \in Producers
  BY JournalFacts DEF JournalInv, JournalTyped, ReaderOK
<1>1. /\ jr.pc \in {"export", "finalExport"} /\ Offering(jr) /\ Answered(J)
      /\ call[J].groups = Records(jr) /\ jr.rendered /\ jr.batch # <<>>
  <2>1. jr.pc \in {"export", "finalExport"} /\ Offering(jr) /\ Answered(J)
    BY DEF AttemptReturns, Offering
  <2> QED BY <2>1, <1>t DEF JournalInv, OfferInv, ReaderOK
<1>2. UNCHANGED <<memo, accepted, lostAns, refused, written, vacuumed, began, observed, lives>>
  BY DEF AttemptReturns
<1>3. CASE Settles(call[J].ans)
  <2>1. Settled(jr.pc = "finalExport") /\ call' = [call EXCEPT ![J] = Idle]
    BY <1>3 DEF AttemptReturns
  <2>2. PICK final \in BOOLEAN : final = (jr.pc = "finalExport")
    OBVIOUS
  <2>3. Settled(final) /\ (~final => PlaceOK(jr, began, vacuumed))
    BY <2>1, <2>2, <1>1, <1>t DEF ReaderOK
  <2>4. BatchEntries(jr) \subseteq SettledEntries
    <3>1. \A r \in Records(jr) : Delivered(J, r) \/ <<J, r>> \in refused
      BY <1>1, <1>3, <1>t, AnswerMeans DEF Settles
    <3>2. BatchEntries(jr) \subseteq Journal
      BY <1>t, BatchBounds
    <3> QED BY <3>1, <3>2 DEF Records, SettledEntries
  <2>5. RouteInv'
    BY <2>1, <1>2, <1>t, IdleKeeps
  <2>6. call'[J].pc # "send"
    BY <2>1, <1>t DEF RouteInv, Idle
  <2>7. /\ observed' \in [Journal -> Nat]
        /\ \A e \in Journal : observed'[e] <= 1 /\ (observed'[e] > 0 => e <= jr.cursor \/ e \in BatchEntries(jr))
    BY <1>1, <1>2 DEF JournalInv, JournalTyped, OnceInv
  <2> QED BY <2>3, <2>4, <2>5, <2>6, <2>7, <1>1, <1>2, SettleKeeps
<1>4. CASE ~Settles(call[J].ans)
  <2>1. /\ jr' = [jr EXCEPT !.pc = IF @ = "finalExport" THEN "save" ELSE IF jr.ctx THEN "flush" ELSE "final"]
        /\ UNCHANGED <<call, doc, file, left>>
    BY <1>4 DEF AttemptReturns, unsaved
  <2>2. PICK c : c = IF jr.pc = "finalExport" THEN "save" ELSE IF jr.ctx THEN "flush" ELSE "final"
    OBVIOUS
  <2>3. c \in {"save", "flush", "final"} /\ (c = "flush" => jr.pc = "export")
    BY <2>2, <1>1
  <2>4. jr' = [pc |-> c, ctx |-> jr.ctx, batch |-> jr.batch, rendered |-> jr.rendered, cursor |-> jr.cursor,
               saved |-> jr.saved, pos |-> jr.pos, skip |-> jr.skip, held |-> jr.held, reopen |-> jr.reopen]
    BY <2>1, <2>2, <1>t DEF ReaderTyped
  <2>5. "transient" \in call[J].errs /\ call[J].pc = "answered"
    <3>1. call[J].pc = "answered" /\ call[J].ans = Joined(call[J].errs)
      BY <1>1, <1>t DEF Answered, RouteInv, CallOK
    <3> QED BY <3>1, <1>4 DEF Settles, Joined
  <2>6. UNCHANGED <<routeVars, written, vacuumed, doc, file, observed, lives>> /\ UNCHANGED began
    BY <2>1, <1>2 DEF routeVars
  <2> QED BY <2>3, <2>4, <2>5, <2>6, <1>1, MovedKeeps
<1> QED BY <1>3, <1>4

LEMMA SetLogsKeeps ==
  ASSUME JournalInv, NEW n \in 0 .. 1, SetLogs(n)
  PROVE  JournalInv' /\ Mapped
<1>0. UNCHANGED <<routeVars, written, vacuumed, jr, began, observed, lives>> /\ jr.pc # "off"
  BY DEF SetLogs
<1>1. PICK s \in Save([doc EXCEPT !.logs = n]) : Saved(s)
  BY DEF SetLogs
<1>2. PICK d : d = [doc EXCEPT !.logs = n]
  OBVIOUS
<1>t. /\ DocsOK /\ LastEntry \in Nat /\ doc.cursor \in Cursors /\ file.cursor \in Cursors /\ file.cursor <= doc.cursor
      /\ jr.cursor \in Cursors /\ jr.saved \in Cursors /\ jr.saved <= file.cursor
      /\ doc.cursor <= jr.cursor /\ Covered(jr.cursor) /\ jr.cursor <= written /\ written \in Cursors
      /\ began \in Cursors /\ vacuumed \in Cursors /\ began <= written
  BY <1>0, JournalFacts DEF JournalInv, JournalTyped, CursorInv, DocsOK, ReaderTyped, ReaderOK
<1>3. d = [cursor |-> doc.cursor, logs |-> n, sum |-> doc.sum, valid |-> doc.valid]
  BY <1>2, <1>t DEF DocsOK, DocShaped
<1>4. DocShaped(d) /\ d.cursor = doc.cursor /\ (d.valid => d.sum = file) /\ FileShaped(file)
  BY <1>3, <1>t DEF DocShaped, DocsOK
<1>5. s \in Save(d)
  BY <1>1, <1>2
<1>6. /\ DocShaped(s.doc) /\ FileShaped(s.file) /\ s.doc.cursor = doc.cursor
      /\ s.doc.valid => s.doc.sum = s.file
      /\ s.file.cursor \in {file.cursor, doc.cursor}
  BY <1>4, <1>5, SaveMeans
<1>7. doc' = s.doc /\ file' = s.file
  BY <1>1 DEF Saved
<1>8. /\ file.cursor <= file'.cursor /\ file'.cursor <= jr.cursor /\ doc'.cursor <= jr.cursor
      /\ jr.saved <= file'.cursor /\ file'.cursor <= written /\ file'.cursor \in Cursors /\ file'.cursor <= doc'.cursor
  BY <1>t, <1>6, <1>7 DEF Cursors
<1>9. DocsOK'
  BY <1>t, <1>6, <1>7, <1>8 DEF DocsOK, DocShaped, FileShaped
<1>10. RouteInv' /\ SettledEntries' = SettledEntries
  BY <1>0, RouteSame, SettledSame DEF JournalInv, routeVars
<1>11. JournalTyped' /\ ReaderOK(jr, began, vacuumed, written)'
  BY <1>0 DEF JournalInv, JournalTyped, ReaderTyped, ReaderOK, BatchOK, PlaceOK, Owed, BatchEntries
<1>12. CursorInv'
  <2>1. Covered(file'.cursor)
    <3> SUFFICES ASSUME NEW e \in Journal, began < e, vacuumed < e, e <= file'.cursor PROVE e \in SettledEntries
      BY DEF Covered
    <3>1. e <= jr.cursor
      BY <1>8, <1>t, JournalFacts DEF Cursors
    <3> QED BY <3>1, <1>t DEF Covered
  <2> QED BY <2>1, <1>0, <1>8, <1>9, <1>10, <1>t DEF CursorInv, Covered
<1>13. OfferInv' /\ OnceInv'
  BY <1>0 DEF JournalInv, OfferInv, OnceInv, Offering, Records, BatchEntries, SentFor, routeVars
<1>14. Mapped
  BY <1>0, <1>8, <1>9, <1>t, CommitMapped DEF routeVars
<1> QED BY <1>10, <1>11, <1>12, <1>13, <1>14 DEF JournalInv

\* Run's last act.
LEMMA FinalSaveKeeps ==
  ASSUME JournalInv, FinalSave
  PROVE  JournalInv' /\ Mapped
<1>0. /\ jr.pc = "save" /\ SaveCursor([jr EXCEPT !.pc = "off"], TRUE)
      /\ UNCHANGED <<routeVars, written, vacuumed, began, observed, lives>>
  BY DEF FinalSave
<1>t. /\ ReaderTyped(jr) /\ ReaderOK(jr, began, vacuumed, written) /\ DocsOK /\ LastEntry \in Nat
      /\ jr.cursor \in Cursors /\ Covered(jr.cursor) /\ doc.cursor <= jr.cursor /\ jr.saved <= file.cursor
      /\ began \in Cursors /\ vacuumed \in Cursors /\ written \in Cursors /\ began <= written /\ jr.cursor <= written
  BY <1>0, JournalFacts DEF JournalInv, JournalTyped, CursorInv, ReaderTyped, ReaderOK
<1>1. PICK r : r = [jr EXCEPT !.pc = "off"]
  OBVIOUS
<1>2. r = [pc |-> "off", ctx |-> jr.ctx, batch |-> jr.batch, rendered |-> jr.rendered, cursor |-> jr.cursor,
           saved |-> jr.saved, pos |-> jr.pos, skip |-> jr.skip, held |-> jr.held, reopen |-> jr.reopen]
  BY <1>1, <1>t DEF ReaderTyped
<1>3. /\ r.pc = "off" /\ r.batch = jr.batch /\ r.rendered = jr.rendered /\ r.cursor = jr.cursor
      /\ r.saved = jr.saved /\ r.pos = jr.pos /\ ReaderTyped(r)
  BY <1>2, <1>t DEF ReaderTyped
<1>4. BatchEntries(r) = BatchEntries(jr)
  BY <1>3 DEF BatchEntries
<1>5. ReaderOK(r, began, vacuumed, written)
  <2>1. BatchOK(r, began, vacuumed, written)
    BY <1>3, <1>4, <1>t DEF ReaderOK, BatchOK, Owed
  <2> QED BY <2>1, <1>3, <1>t DEF ReaderOK
<1>6. SaveCursor(r, TRUE)
  BY <1>0, <1>1
<1>7. /\ DocsOK' /\ Alike(jr', r) /\ ReaderTyped(jr')
      /\ jr'.saved <= file'.cursor /\ file.cursor <= file'.cursor
      /\ file'.cursor <= jr.cursor /\ doc'.cursor <= jr.cursor
  BY <1>3, <1>6, <1>t, SaveEffect
<1>8. ReaderTyped(jr)' /\ ReaderOK(jr, began, vacuumed, written)'
  <2>1. ReaderOK(jr', began, vacuumed, written)
    BY <1>5, <1>7, AlikeOK
  <2>2. ReaderOK(jr', began', vacuumed', written')
    BY <2>1, <1>0
  <2> QED BY <2>2, <1>7, ReaderPrimed
<1>9. JournalTyped' /\ RouteInv'
  BY <1>0, <1>8, RouteSame DEF JournalInv, JournalTyped
<1>10. jr'.pc = "off"
  BY <1>3, <1>7 DEF Alike
<1>11. CursorInv'
  <2>1. SettledEntries' = SettledEntries
    BY <1>0, SettledSame DEF routeVars
  <2>2. file'.cursor <= written'
    BY <1>0, <1>7, <1>t DEF DocsOK, Cursors
  <2>3. PICK c : c = jr.cursor
    OBVIOUS
  <2>4. began' \in Cursors /\ vacuumed' \in Cursors /\ written' \in Cursors /\ began <= began' /\ vacuumed <= vacuumed' /\ began' <= written'
    BY <1>0, <1>t DEF Cursors
  <2> QED BY <2>1, <2>2, <2>3, <2>4, <1>7, <1>10, <1>t, CursorKeeps
<1>12. OfferInv'
  <2>1. ~Offering(jr)
    BY <1>0 DEF Offering
  <2> QED BY <2>1, <1>0, <1>10 DEF JournalInv, OfferInv, Offering, routeVars
<1>13. OnceInv'
  BY <1>0, <1>10 DEF JournalInv, OnceInv, routeVars
<1>14. Mapped
  BY <1>0, <1>7, <1>t, CommitMapped DEF routeVars
<1> QED BY <1>8, <1>9, <1>11, <1>12, <1>13, <1>14 DEF JournalInv

\* A reader that has just been made.
JustMade(q, p, c) ==
  q = [pc |-> p, ctx |-> TRUE, batch |-> <<>>, rendered |-> FALSE, cursor |-> c, saved |-> c,
       pos |-> 0, skip |-> 0, held |-> 0, reopen |-> FALSE]

LEMMA NewReaderOK ==
  ASSUME NEW c \in Cursors, NEW p \in {"open", "off"}, NEW b, NEW v, NEW w \in Cursors, c <= w,
         NEW q, JustMade(q, p, c)
  PROVE  ReaderTyped(q) /\ ReaderOK(q, b, v, w) /\ q.pc = p /\ q.cursor = c /\ q.saved = c /\ BatchEntries(q) = {}
<1>2. 0 \in Cursors /\ 0 <= w /\ <<>> \in Seq(Journal)
  BY JournalFacts DEF Cursors
<1>3. /\ q.batch = <<>> /\ ~q.rendered /\ q.pc = p /\ q.cursor = c /\ q.saved = c /\ q.pos = 0
      /\ q.skip = 0 /\ q.held = 0 /\ q.ctx = TRUE /\ q.reopen = FALSE /\ q.rendered = FALSE
  BY DEF JustMade
<1>4. ReaderTyped(q)
  BY <1>2, <1>3 DEF ReaderTyped, JustMade
<1>5. BatchEntries(q) = {} /\ BatchOK(q, b, v, w)
  BY <1>3, EmptyBatch
<1> QED BY <1>2, <1>3, <1>4, <1>5 DEF ReaderOK

\* The process dies: what is in memory is gone, the file is not.
LEMMA CrashKeeps ==
  ASSUME JournalInv, Crash
  PROVE  JournalInv' /\ Mapped
<1>0. /\ jr' = [NewReader(0) EXCEPT !.pc = "off"] /\ call' = [call EXCEPT ![J] = Idle]
      /\ UNCHANGED <<memo, accepted, lostAns, refused, written, vacuumed, doc, file, began, observed, lives>>
  BY DEF Crash, unsaved
<1>t. /\ LastEntry \in Nat /\ written \in Cursors /\ began \in Cursors /\ vacuumed \in Cursors /\ began <= written
      /\ file.cursor \in Cursors /\ J \in Producers /\ RouteInv
  BY JournalFacts DEF JournalInv, JournalTyped, CursorInv, DocsOK
<1>1. 0 \in Cursors /\ 0 <= written /\ 0 <= file.cursor
  BY <1>t DEF Cursors
<1>n. JustMade(jr', "off", 0)
  BY <1>0 DEF NewReader, JustMade
<1>2. ReaderTyped(jr') /\ ReaderOK(jr', began, vacuumed, written) /\ jr'.pc = "off" /\ jr'.saved = 0
  BY <1>n, <1>1, <1>t, NewReaderOK
<1>3. ReaderTyped(jr)' /\ ReaderOK(jr, began, vacuumed, written)'
  <2>1. ReaderOK(jr', began', vacuumed', written')
    BY <1>0, <1>2
  <2> QED BY <2>1, <1>2, ReaderPrimed
<1>4. JournalTyped'
  BY <1>0, <1>3 DEF JournalInv, JournalTyped
<1>5. RouteInv' /\ call'[J].pc = "idle" /\ SettledEntries' = SettledEntries
  BY <1>0, <1>t, IdleKeeps, SettledSame DEF RouteInv, Idle
<1>6. CursorInv'
  BY <1>0, <1>1, <1>2, <1>5 DEF JournalInv, CursorInv, Covered, DocsOK, DocShaped, FileShaped
<1>7. OfferInv'
  BY <1>2, <1>5 DEF OfferInv, Offering
<1>8. OnceInv'
  BY <1>0, <1>2 DEF JournalInv, OnceInv
<1>9. Mapped
  BY <1>0, <1>5 DEF Mapped, D!deliveryVars
<1> QED BY <1>3, <1>4, <1>5, <1>6, <1>7, <1>8, <1>9 DEF JournalInv

\* A new process goes on from the file.
LEMMA StartKeepsAll ==
  ASSUME JournalInv, Start
  PROVE  JournalInv' /\ Mapped
<1>0. /\ jr' = NewReader(file.cursor) /\ call' = [call EXCEPT ![J] = Idle] /\ lives' = lives + 1
      /\ doc' = [cursor |-> file.cursor, logs |-> file.logs, sum |-> file, valid |-> FALSE]
      /\ observed' = [e \in Journal |-> 0]
      /\ UNCHANGED <<memo, accepted, lostAns, refused, written, vacuumed, file, began>>
  BY DEF Start
<1>t. /\ LastEntry \in Nat /\ written \in Cursors /\ began \in Cursors /\ vacuumed \in Cursors /\ began <= written
      /\ file.cursor \in Cursors /\ file.cursor <= written /\ J \in Producers /\ RouteInv /\ FileShaped(file)
      /\ Covered(file.cursor) /\ lives \in Nat \ {0}
  BY JournalFacts DEF JournalInv, JournalTyped, CursorInv, DocsOK
<1>1. JustMade(jr', "open", file.cursor)
  BY <1>0 DEF NewReader, JustMade
<1>2. /\ ReaderTyped(jr') /\ ReaderOK(jr', began, vacuumed, written) /\ jr'.pc = "open"
      /\ jr'.saved = file.cursor /\ jr'.cursor = file.cursor
  BY <1>1, <1>t, NewReaderOK
<1>3. ReaderTyped(jr)' /\ ReaderOK(jr, began, vacuumed, written)'
  <2>1. ReaderOK(jr', began', vacuumed', written')
    BY <1>0, <1>2
  <2> QED BY <2>1, <1>2, ReaderPrimed
<1>4. JournalTyped'
  BY <1>0, <1>3, <1>t DEF JournalTyped
<1>5. RouteInv' /\ call'[J].pc = "idle" /\ SettledEntries' = SettledEntries
  BY <1>0, <1>t, IdleKeeps, SettledSame DEF RouteInv, Idle
<1>6. DocsOK' /\ doc'.cursor = file.cursor /\ file.cursor <= file.cursor
  BY <1>0, <1>t DEF DocsOK, DocShaped, FileShaped, Cursors
<1>7. CursorInv'
  BY <1>0, <1>2, <1>5, <1>6, <1>t DEF CursorInv, Covered
<1>8. OfferInv'
  BY <1>2, <1>5 DEF OfferInv, Offering
<1>9. OnceInv'
  BY <1>0, <1>t DEF OnceInv
<1>10. Mapped
  BY <1>0, <1>5 DEF Mapped, D!deliveryVars
<1> QED BY <1>3, <1>4, <1>5, <1>7, <1>8, <1>9, <1>10 DEF JournalInv

\* The journal receives an entry, or forgets its oldest.
LEMMA SourceKeeps ==
  ASSUME JournalInv, Write \/ Vacuum
  PROVE  JournalInv' /\ Mapped
<1>t. /\ LastEntry \in Nat /\ written \in Cursors /\ began \in Cursors /\ vacuumed \in Cursors /\ began <= written
      /\ file.cursor \in Cursors /\ file.cursor <= written /\ ReaderTyped(jr) /\ ReaderOK(jr, began, vacuumed, written)
  BY JournalFacts DEF JournalInv, JournalTyped, CursorInv, DocsOK
<1>0. /\ written' \in Cursors /\ vacuumed' \in Cursors /\ written <= written' /\ vacuumed <= vacuumed'
      /\ UNCHANGED <<routeVars, jr, doc, file, began, observed, lives>>
      /\ began <= written' /\ file.cursor <= written'
  <2>1. CASE Write
    BY <2>1, <1>t DEF Write, Cursors, unsaved
  <2>2. CASE Vacuum
    BY <2>2, <1>t DEF Vacuum, Cursors
  <2> QED BY <2>1, <2>2
<1>1. ReaderOK(jr, began, vacuumed', written')
  BY <1>0, <1>t, OlderOK
<1>2. ReaderTyped(jr)' /\ ReaderOK(jr, began, vacuumed, written)'
  <2>1. ReaderTyped(jr') /\ ReaderOK(jr', began', vacuumed', written')
    BY <1>0, <1>1, <1>t
  <2> QED BY <2>1, ReaderPrimed
<1>3. RouteInv' /\ SettledEntries' = SettledEntries
  BY <1>0, RouteSame, SettledSame DEF JournalInv, routeVars
<1>4. JournalTyped'
  BY <1>0, <1>2 DEF JournalInv, JournalTyped
<1>5. CursorInv'
  <2>1. \A e \in Journal : vacuumed' < e => vacuumed < e
    BY <1>0, <1>t, JournalFacts DEF Cursors
  <2>2. DocsOK'
    BY <1>0 DEF JournalInv, CursorInv, DocsOK, DocShaped, FileShaped
  <2>3. ASSUME NEW c, Covered(c) PROVE Covered(c)'
    BY <2>1, <2>3, <1>0, <1>3 DEF Covered
  <2>4. Covered(file.cursor)' /\ (jr.pc # "off" => Covered(jr.cursor)')
    <3>1. PICK f, k : f = file.cursor /\ k = jr.cursor
      OBVIOUS
    <3>2. Covered(f)' /\ (jr.pc # "off" => Covered(k)')
      BY <3>1, <2>3 DEF JournalInv, CursorInv
    <3> QED BY <3>1, <3>2, <1>0 DEF Covered
  <2> QED BY <2>2, <2>4, <1>0, <1>t DEF JournalInv, CursorInv
<1>6. OfferInv' /\ OnceInv'
  BY <1>0 DEF JournalInv, OfferInv, OnceInv, Offering, Records, BatchEntries, SentFor, routeVars
<1>7. Mapped
  <2>1. CASE Write
    <3>1. UNCHANGED vacuumed
      BY <2>1 DEF Write
    <3> QED BY <3>1, <1>0, QuietMapped
  <2>2. CASE Vacuum
    <3>1. vacuumed' \in vacuumed .. LastEntry
      BY <1>0, <1>t DEF Cursors
    <3>2. D!Expire
      BY <3>1, <1>0, <1>3 DEF D!Expire
    <3> QED BY <3>2 DEF Mapped
  <2> QED BY <2>1, <2>2
<1> QED BY <1>2, <1>3, <1>4, <1>5, <1>6, <1>7 DEF JournalInv

\* The router's step for the reader. The default's share goes out last, and only
\* when no route's share failed for now, so it is never sent a second time.
LEMMA ExportStepKeeps ==
  ASSUME JournalInv, ExportStep(J), UNCHANGED journalVars
  PROVE  JournalInv' /\ Mapped
<1>0. UNCHANGED <<written, vacuumed, jr, doc, file, began, observed, lives>>
  BY DEF journalVars
<1>t. /\ RouteInv /\ J \in Producers /\ Reoffered(J) /\ Journal \subseteq Resources /\ LastEntry \in Nat
      /\ ReaderTyped(jr) /\ BatchOK(jr, began, vacuumed, written) /\ call[J] \in CallType
      /\ accepted \in [Producers -> [Resources -> Nat]]
  BY JournalFacts DEF JournalInv, JournalTyped, ReaderOK, RouteInv
<1>1. call[J].pc = "send" /\ Offering(jr) /\ call[J].groups = Records(jr) /\ jr.rendered /\ jr.pc # "off"
  <2>1. call[J].pc = "send"
    BY DEF ExportStep, SendStep, SendShare, FinishExport
  <2> QED BY <2>1 DEF JournalInv, OfferInv, Offering
<1>2. /\ RouteInv' /\ call'[J].pc # "idle" /\ call'[J].groups = call[J].groups
      /\ \A r \in Resources : Delivered(J, r) => Delivered(J, r)'
      /\ refused \subseteq refused' /\ lostAns \subseteq lostAns'
  <2>1. CASE SendStep(J)
    <3>1. SendShare(J)
      BY <2>1 DEF SendStep
    <3>2. lostAns \subseteq lostAns'
      BY <3>1 DEF SendShare
    <3> QED BY <3>1, <3>2, <1>t, SendKeeps
  <2>2. CASE FinishExport(J)
    <3>1. /\ RouteInv' /\ UNCHANGED <<accepted, lostAns, refused>> /\ call'[J].pc = "answered"
          /\ call'[J].groups = call[J].groups
      BY <2>2, <1>t, FinishKeeps
    <3> QED BY <3>1 DEF Delivered
  <2> QED BY <2>1, <2>2 DEF ExportStep
<1>3. SettledEntries \subseteq SettledEntries' /\ SettledEntries' \subseteq Journal
  BY <1>2, <1>t DEF SettledEntries
<1>4. JournalTyped' /\ ReaderOK(jr, began, vacuumed, written)'
  BY <1>0 DEF JournalInv, JournalTyped, ReaderTyped, ReaderOK, BatchOK, PlaceOK, Owed, BatchEntries
<1>5. CursorInv'
  <2>1. DocsOK'
    BY <1>0 DEF JournalInv, CursorInv, DocsOK, DocShaped, FileShaped
  <2>2. ASSUME NEW c, Covered(c) PROVE Covered(c)'
    BY <2>2, <1>0, <1>3 DEF Covered
  <2>3. Covered(file.cursor)' /\ (jr.pc # "off" => Covered(jr.cursor)')
    <3>1. PICK f, k : f = file.cursor /\ k = jr.cursor
      OBVIOUS
    <3>2. Covered(f)' /\ (jr.pc # "off" => Covered(k)')
      BY <3>1, <2>2 DEF JournalInv, CursorInv
    <3> QED BY <3>1, <3>2, <1>0 DEF Covered
  <2> QED BY <2>1, <2>3, <1>0 DEF JournalInv, CursorInv
<1>6. OfferInv'
  <2>1. call'[J].groups = Records(jr)
    BY <1>1, <1>2
  <2> QED BY <2>1, <1>0, <1>1, <1>2 DEF OfferInv, Offering, Records, BatchEntries
<1>7. OnceInv'
  <2> SUFFICES ASSUME lives = 1, J \notin lostAns', NEW e \in Journal, FixedDest(e) = Default
               PROVE  accepted'[J][e] <= 1 /\ (accepted'[J][e] > 0 => e <= jr.cursor \/ SentFor(e, jr)')
    BY <1>0 DEF JournalInv, OnceInv, BatchEntries, SentFor, Offering
  <2>1. /\ e \in Resources /\ accepted[J][e] \in Nat /\ accepted[J][e] <= 1
        /\ accepted[J][e] > 0 => e <= jr.cursor \/ SentFor(e, jr)
    BY <1>1, <1>2, <1>t DEF JournalInv, OnceInv
  <2>2. CASE FinishExport(J)
    <3>1. /\ UNCHANGED accepted /\ call'[J].todo = {} /\ call'[J].errs = call[J].errs
          /\ call'[J].groups = call[J].groups
      BY <2>2, <1>t, FinishKeeps
    <3>2. SentFor(e, jr) => SentFor(e, jr)'
      BY <3>1, <1>0 DEF SentFor, Offering
    <3> QED BY <2>1, <3>1, <3>2
  <2>3. CASE SendStep(J)
    <3>1. PICK d \in call[J].todo, a \in Outcomes :
            LET share == Share(call[J].groups, d) IN
            /\ IsNext(J, d) /\ call' = [call EXCEPT ![J] = [call[J] EXCEPT !.todo = @ \ {d}, !.errs = @ \cup {a}]]
            /\ \/ a = "ok" /\ Accept(J, share)
               \/ a = "transient" /\ Accept(J, share) /\ lostAns' = lostAns \cup {J}
               \/ UNCHANGED accepted
      BY <2>3 DEF SendStep, SendShare, Outcomes
    <3>2. ~SentFor(e, jr)
      BY <3>1 DEF SentFor
    <3>3. CASE UNCHANGED accepted
      BY <3>2, <3>3, <2>1
    <3>4. CASE a = "ok" /\ Accept(J, Share(call[J].groups, d))
      <4>1. Decide(e) = Default
        BY <1>t, DecideFixed DEF RouteInv
      <4>2. CASE e \notin Share(call[J].groups, d)
        <5>1. accepted'[J][e] = accepted[J][e]
          BY <4>2, <3>4, <2>1, <1>t DEF Accept
        <5> QED BY <5>1, <3>2, <2>1
      <4>3. CASE e \in Share(call[J].groups, d)
        <5>1. d = Default /\ e \in call[J].groups
          BY <4>1, <4>3 DEF Share
        <5>2. call[J].todo = {Default} /\ "transient" \notin call[J].errs
          BY <5>1, <3>1, <2>3, <1>t DEF IsNext, SendStep, Withhold
        <5>3. jr.cursor < e
          <6>1. e \in BatchEntries(jr)
            BY <5>1, <1>1 DEF Records
          <6> QED BY <6>1, <1>t, BatchBounds
        <5>4. accepted[J][e] = 0
          BY <5>3, <3>2, <2>1, JournalFacts DEF Cursors, JournalInv, JournalTyped, ReaderTyped
        <5>5. accepted'[J][e] = 1
          BY <5>4, <4>3, <3>4, <2>1, <1>t DEF Accept
        <5>6. PICK c : c = [call[J] EXCEPT !.todo = @ \ {d}, !.errs = @ \cup {a}]
          OBVIOUS
        <5>7. c.todo = {} /\ c.errs = call[J].errs \cup {"ok"} /\ c.groups = call[J].groups
          BY <5>1, <5>2, <5>6, <3>4, <1>t DEF CallType
        <5>8. call'[J] = c
          BY <5>6, <3>1, <1>t DEF RouteInv
        <5>9. SentFor(e, jr)'
          BY <5>1, <5>2, <5>7, <5>8, <1>0, <1>1 DEF SentFor, Offering
        <5> QED BY <5>5, <5>9
      <4> QED BY <4>2, <4>3
    <3> QED BY <3>1, <3>3, <3>4
  <2> QED BY <2>2, <2>3 DEF ExportStep
<1>8. Mapped
  <2>1. D!Settle
    BY <1>0, <1>3 DEF D!Settle, D!Entries, Journal
  <2> QED BY <2>1 DEF Mapped
<1> QED BY <1>2, <1>4, <1>5, <1>6, <1>7, <1>8 DEF JournalInv

LEMMA JournalStarts == RouteInit /\ JournalInit => JournalInv
<1> SUFFICES ASSUME RouteInit, JournalInit PROVE JournalInv
  OBVIOUS
<1>1. RouteInv
  BY RouteStarts
<1>2. 0 \in Cursors /\ LastEntry \in Nat
  BY JournalFacts DEF Cursors
<1>3. /\ written \in 0 .. 1 /\ vacuumed = 0 /\ began = 0 /\ lives = 1 /\ observed = [e \in Journal |-> 0]
      /\ file = [cursor |-> 0, logs |-> 0] /\ doc = [cursor |-> 0, logs |-> 0, sum |-> file, valid |-> FALSE]
      /\ jr = NewReader(0)
  BY DEF JournalInit
<1>4. written \in Cursors /\ 0 <= written
  BY <1>3, JournalFacts DEF Cursors
<1>5. JustMade(jr, "open", 0)
  BY <1>3 DEF NewReader, JustMade
<1>6. ReaderTyped(jr) /\ ReaderOK(jr, began, vacuumed, written) /\ jr.pc = "open" /\ jr.cursor = 0 /\ jr.saved = 0
  BY <1>2, <1>4, <1>5, NewReaderOK
<1>7. JournalTyped
  BY <1>2, <1>3, <1>4, <1>6 DEF JournalTyped
<1>8. CursorInv
  <2>1. DocsOK /\ file.cursor = 0 /\ doc.cursor = 0
    BY <1>2, <1>3 DEF DocsOK, DocShaped, FileShaped
  <2>2. Covered(0)
    BY JournalFacts DEF Covered, Cursors
  <2> QED BY <2>1, <2>2, <1>3, <1>4, <1>6 DEF CursorInv
<1>9. OfferInv
  BY <1>6, JournalFacts DEF OfferInv, Offering, RouteInit, Idle
<1>10. OnceInv
  BY <1>3, JournalFacts DEF OnceInv, RouteInit
<1> QED BY <1>1, <1>6, <1>7, <1>8, <1>9, <1>10 DEF JournalInv

LEMMA JournalStep == JournalInv /\ [JournalNext]_<<routeVars, journalVars>> => JournalInv' /\ Mapped
<1> SUFFICES ASSUME JournalInv, [JournalNext]_<<routeVars, journalVars>> PROVE JournalInv' /\ Mapped
  OBVIOUS
<1>1. CASE Write \/ Vacuum
  BY <1>1, SourceKeeps
<1>2. CASE Open
  BY <1>2, OpenKeeps
<1>3. CASE ReadEntry
  BY <1>3, ReadKeeps
<1>4. CASE TickFlush \/ SourceEnds
  BY <1>4, TickKeeps
<1>5. CASE Attempt
  BY <1>5, AttemptKeeps
<1>6. CASE NothingToFlush
  BY <1>6, NothingKeeps
<1>7. CASE AttemptReturns
  BY <1>7, ReturnKeeps
<1>8. CASE Cancel
  BY <1>8, CancelKeeps
<1>9. CASE LeaveLoop
  BY <1>9, LeaveKeeps
<1>10. CASE FinalSave
  BY <1>10, FinalSaveKeeps
<1>11. CASE Crash
  BY <1>11, CrashKeeps
<1>12. CASE Start
  BY <1>12, StartKeepsAll
<1>13. CASE \E n \in 0 .. 1 : SetLogs(n)
  BY <1>13, SetLogsKeeps
<1>14. CASE ExportStep(J) /\ UNCHANGED journalVars
  BY <1>14, ExportStepKeeps
<1>15. CASE UNCHANGED <<routeVars, journalVars>>
  <2>1. UNCHANGED <<routeVars, written, vacuumed, jr, doc, file, began, observed, lives>>
    BY <1>15 DEF journalVars
  <2>2. RouteInv' /\ SettledEntries' = SettledEntries
    BY <2>1, RouteSame, SettledSame DEF JournalInv, routeVars
  <2>3. JournalTyped' /\ ReaderOK(jr, began, vacuumed, written)'
    BY <2>1 DEF JournalInv, JournalTyped, ReaderTyped, ReaderOK, BatchOK, PlaceOK, Owed, BatchEntries
  <2>4. CursorInv'
    BY <2>1, <2>2 DEF JournalInv, CursorInv, Covered, DocsOK, DocShaped, FileShaped
  <2>5. OfferInv' /\ OnceInv'
    BY <2>1 DEF JournalInv, OfferInv, OnceInv, Offering, Records, BatchEntries, SentFor, routeVars
  <2> QED BY <2>1, <2>2, <2>3, <2>4, <2>5, QuietMapped DEF JournalInv
<1> QED BY <1>1, <1>2, <1>3, <1>4, <1>5, <1>6, <1>7, <1>8, <1>9, <1>10, <1>11, <1>12, <1>13, <1>14, <1>15 DEF JournalNext

LEMMA JournalAlways == JournalSpec => []JournalInv
BY JournalStarts, JournalStep, PTL DEF JournalSpec

(* For every journal, rule set, batch bound and number of failures: one        *)
(* process observes an entry once however often its batch is offered, the      *)
(* default share is not delivered twice by retries, and a cursor counted as    *)
(* stored is on disk (journald.go's flushRetry and saveCursor, route.go's      *)
(* withholding, positions.go's save).                                          *)
THEOREM JournalAlwaysSound == JournalSpec => []JournalSound
<1>1. JournalInv => JournalSound
  <2> SUFFICES ASSUME JournalInv PROVE JournalSound
    OBVIOUS
  <2>1. \A e \in Journal : Decide(e) = FixedDest(e)
    BY DecideFixed DEF JournalInv, RouteInv
  <2>2. OncePerLife
    BY <2>1 DEF OncePerLife, JournalInv, OnceInv
  <2>3. StoredIsOnDisk
    BY DEF StoredIsOnDisk, JournalInv, CursorInv
  <2> QED BY <2>2, <2>3 DEF JournalSound
<1> QED BY <1>1, JournalAlways, PTL

(* The reader implements Delivery: its first state is one of Delivery's, and   *)
(* each of its steps (a reopened journal, an answer, a save that fails, a      *)
(* crash) is one of Delivery's or none, so the cursor on disk never passes an  *)
(* entry that was not settled (journald.go:649).                               *)
THEOREM JournalImplementsDelivery == JournalSpec => ImplementsDelivery
<1>1. RouteInit /\ JournalInit => D!DeliveryInit
  <2> SUFFICES ASSUME RouteInit, JournalInit PROVE D!DeliveryInit
    OBVIOUS
  <2>1. file.cursor = 0 /\ vacuumed = 0 /\ began \in 0 .. LastEntry
    BY JournalFacts DEF JournalInit
  <2>2. SettledEntries \subseteq 1 .. LastEntry
    BY DEF SettledEntries, Journal
  <2> QED BY <2>1, <2>2 DEF D!DeliveryInit, D!Entries
<1>2. JournalInv /\ [JournalNext]_<<routeVars, journalVars>> => [D!DeliveryNext]_(D!deliveryVars)
  BY JournalStep DEF Mapped, D!DeliveryNext
<1> QED BY <1>1, <1>2, JournalAlways, PTL DEF JournalSpec, ImplementsDelivery, D!DeliverySpec

-----------------------------------------------------------------------------
(* The Azure diagnostics readers                                            *)

ReaderPcs == {"down", "backoff", "auth", "fetch", "poll", "deliver"}
MemberType == [pc : ReaderPcs, batch : SUBSET (Partitions \X Nat), todo : SUBSET {"logs", "metrics"}, asked : Nat]
TokenType == [id : Nat, expiry : Int, err : BOOLEAN, retryAt : Int]

HubTypes ==
  /\ hubLen \in [Partitions -> Nat] /\ begun \in [Partitions -> Nat] /\ position \in [Partitions -> Nat]
  /\ offset \in [Partitions -> Nat \cup {NoOffset}]
  /\ owner \in [Partitions -> Members \cup {Nobody}]
  /\ member \in [Members -> MemberType]

\* Signal s of message i of p is with the owner of p, still to be settled.
WithOwner(p, i, s) ==
  /\ member[owner[p]].pc = "deliver"
  /\ <<p, i>> \in member[owner[p]].batch /\ s \in member[owner[p]].todo

\* What was polled of a partition since it was begun is settled or with its owner,
\* and a client that is closed owns nothing.
PolledInv ==
  \A p \in Partitions : owner[p] \in Members =>
    /\ member[owner[p]].pc \notin {"down", "backoff"}
    /\ \A i \in Nat : begun[p] < i /\ i <= position[p] =>
         \A s \in Owes(<<p, i>>) : <<<<p, i>>, s>> \in settledAt \/ WithOwner(p, i, s)

OffsetsInv ==
  \A p \in Partitions : \A i \in Nat :
    begun[p] < i /\ i <= offset[p] => \A s \in Owes(<<p, i>>) : <<<<p, i>>, s>> \in settledAt

GroupInv == HubTypes /\ PolledInv /\ OffsetsInv

\* A reader's token is its own, runs out no later than the issuer's does, and was
\* not refused; what it showed is the token it has.
TokenInv ==
  /\ hubNow \in Nat /\ tokens \in Seq(Int)
  /\ entra \in [Members -> TokenType]
  /\ shown \in [Members -> [id : Nat, at : Nat]]
  /\ forsaken \subseteq DOMAIN tokens /\ revoked \subseteq DOMAIN tokens
  /\ \A r \in Members :
       /\ entra[r].id # 0 => /\ entra[r].id \in DOMAIN tokens /\ entra[r].id \notin forsaken
                             /\ entra[r].expiry <= tokens[entra[r].id]
       /\ shown[r].id # 0 => shown[r].id = entra[r].id /\ shown[r].at < tokens[shown[r].id]
       /\ member[r].pc = "fetch" => member[r].asked <= hubNow /\ hubNow - member[r].asked <= FetchTimeout
  /\ \A r, q \in Members : entra[r].id # 0 /\ entra[r].id = entra[q].id => r = q

HubInv == GroupInv /\ TokenInv

LEMMA OwesFacts ==
  ASSUME NEW m
  PROVE  /\ ContentOf(m) = "empty" => Owes(m) = {}
         /\ ContentOf(m) = "bad" => Owes(m) = {"decode"}
         /\ ContentOf(m) # "bad" => Owes(m) \subseteq {"logs", "metrics"}
BY DEF Owes

LEMMA HubStarts == HubInit => HubInv
<1> SUFFICES ASSUME HubInit PROVE HubInv
  OBVIOUS
<1>1. HubTypes
  BY DEF HubInit, HubTypes, MemberType, ReaderDown, ReaderPcs, NoOffset
<1>2. PolledInv
  BY HubAssumption DEF HubInit, PolledInv
<1>3. OffsetsInv
  BY DEF HubInit, OffsetsInv, NoOffset
<1>4. TokenInv
  BY DEF HubInit, TokenInv, TokenType, NoToken, ReaderDown
<1> QED BY <1>1, <1>2, <1>3, <1>4 DEF HubInv, GroupInv

-----------------------------------------------------------------------------
(* What the group knows *)

\* A member may change freely what it does while it delivers nothing and stays
\* open, or if it owns nothing.
LEMMA MemberSteps ==
  ASSUME GroupInv, NEW r \in Members, NEW v \in MemberType,
         member' = [member EXCEPT ![r] = v], UNCHANGED <<hubLen, groupVars, settledAt>>,
         \/ v.pc \notin {"down", "backoff"} /\ member[r].pc # "deliver"
         \/ \A p \in Partitions : owner[p] # r
  PROVE  GroupInv'
<1> USE DEF groupVars
<1>1. HubTypes'
  BY DEF GroupInv, HubTypes
<1>2. OffsetsInv'
  BY DEF GroupInv, OffsetsInv
<1>3. PolledInv'
  <2> SUFFICES ASSUME NEW p \in Partitions, owner[p] \in Members
               PROVE  /\ member'[owner[p]].pc \notin {"down", "backoff"}
                      /\ \A i \in Nat : begun[p] < i /\ i <= position[p] =>
                           \A s \in Owes(<<p, i>>) : <<<<p, i>>, s>> \in settledAt \/ WithOwner(p, i, s)'
    BY DEF PolledInv
  <2>1. CASE owner[p] = r
    BY <2>1 DEF GroupInv, HubTypes, PolledInv, WithOwner
  <2>2. CASE owner[p] # r
    BY <2>2 DEF GroupInv, HubTypes, PolledInv, WithOwner
  <2> QED BY <2>1, <2>2
<1> QED BY <1>1, <1>2, <1>3 DEF GroupInv

\* A client that ends gives its partitions up.
LEMMA GivenUp ==
  ASSUME GroupInv, NEW r \in Members, NEW v \in MemberType,
         member' = [member EXCEPT ![r] = v], owner' = Released(r),
         UNCHANGED <<hubLen, offset, begun, position, settledAt>>
  PROVE  GroupInv'
<1>1. HubTypes'
  BY DEF GroupInv, HubTypes, Released
<1>2. OffsetsInv'
  BY DEF GroupInv, OffsetsInv
<1>3. PolledInv'
  <2> SUFFICES ASSUME NEW p \in Partitions, owner'[p] \in Members
               PROVE  /\ member'[owner'[p]].pc \notin {"down", "backoff"}
                      /\ \A i \in Nat : begun[p] < i /\ i <= position[p] =>
                           \A s \in Owes(<<p, i>>) : <<<<p, i>>, s>> \in settledAt \/ WithOwner(p, i, s)'
    BY DEF PolledInv
  <2>1. owner[p] # r /\ owner'[p] = owner[p]
    BY HubAssumption DEF Released
  <2> QED BY <2>1 DEF GroupInv, HubTypes, PolledInv, WithOwner
<1> QED BY <1>1, <1>2, <1>3 DEF GroupInv

LEMMA RebalanceKeeps ==
  ASSUME GroupInv, NEW p \in Partitions, NEW r \in Members, Rebalance(p, r) PROVE GroupInv'
<1>1. TakenUpAt(p) \in Nat /\ (offset[p] # NoOffset => TakenUpAt(p) = offset[p])
  BY DEF TakenUpAt, GroupInv, HubTypes
<1>2. HubTypes'
  BY <1>1 DEF Rebalance, GroupInv, HubTypes
<1>3. OffsetsInv'
  BY DEF Rebalance, GroupInv, HubTypes, OffsetsInv, NoOffset
<1>4. ASSUME NEW q \in Partitions, owner'[q] \in Members
      PROVE  /\ member[owner'[q]].pc \notin {"down", "backoff"}
             /\ \A i \in Nat : begun'[q] < i /\ i <= position'[q] =>
                  \A s \in Owes(<<q, i>>) : <<<<q, i>>, s>> \in settledAt \/ WithOwner(q, i, s)'
  <2>1. CASE q # p
    BY <2>1, <1>4 DEF Rebalance, GroupInv, HubTypes, PolledInv, WithOwner
  <2>2. CASE q = p
    <3>1. owner'[p] = r /\ position'[p] = TakenUpAt(p) /\ member[r].pc \notin {"down", "backoff"}
      BY DEF Rebalance, GroupInv, HubTypes
    <3>2. CASE offset[p] # NoOffset
      BY <1>1, <2>2, <3>1, <3>2 DEF Rebalance, GroupInv, OffsetsInv
    <3>3. CASE offset[p] = NoOffset
      <4>1. begun'[p] = TakenUpAt(p)
        BY <3>3 DEF Rebalance, GroupInv, HubTypes
      <4> QED BY <1>1, <2>2, <3>1, <4>1
    <3> QED BY <3>2, <3>3
  <2> QED BY <2>1, <2>2
<1>5. PolledInv'
  BY <1>4 DEF PolledInv, Rebalance
<1> QED BY <1>2, <1>3, <1>5 DEF GroupInv

LEMMA PollKeeps ==
  ASSUME GroupInv, NEW r \in Members, NEW to \in [Partitions -> 0 .. Longest], Poll(r, to) PROVE GroupInv'
<1> DEFINE msgs == {m \in PolledMessages(to) : ContentOf(m) # "empty"}
<1> DEFINE owed(dropped) == {s \in {"logs", "metrics"} : \E m \in msgs : s \in Owes(m) /\ ~(s = "logs" /\ m \in dropped)}
<1>1. PICK dropped \in SUBSET Droppable(msgs) :
        /\ settledAt' = settledAt \cup {<<m, "decode">> : m \in {x \in msgs : ContentOf(x) = "bad"}}
                                  \cup {<<m, "logs">> : m \in dropped}
        /\ member' = [member EXCEPT ![r].pc = IF msgs = {} THEN "poll" ELSE "deliver",
                                    ![r].batch = msgs, ![r].todo = owed(dropped)]
  BY DEF Poll
<1>2. ASSUME NEW p \in Partitions PROVE to[p] \in Nat /\ (owner[p] # r => to[p] = position[p])
  <2>1. IF owner[p] = r THEN to[p] \in position[p] .. hubLen[p] ELSE to[p] = position[p]
    BY DEF Poll, Fetched
  <2>2. position[p] \in Nat /\ hubLen[p] \in Nat
    BY DEF GroupInv, HubTypes
  <2> QED BY <2>1, <2>2
<1>3. msgs \subseteq Partitions \X Nat
  BY DEF PolledMessages, GroupInv, HubTypes
<1>4. member[r].pc = "poll" /\ position' = to /\ UNCHANGED <<hubLen, offset, begun, owner>>
  BY DEF Poll
<1>5. PICK v \in MemberType :
        /\ member' = [member EXCEPT ![r] = v]
        /\ v.pc = (IF msgs = {} THEN "poll" ELSE "deliver") /\ v.batch = msgs /\ v.todo = owed(dropped)
  <2> DEFINE w == [member[r] EXCEPT !.pc = IF msgs = {} THEN "poll" ELSE "deliver",
                                    !.batch = msgs, !.todo = owed(dropped)]
  <2>1. member[r] \in MemberType
    BY DEF GroupInv, HubTypes
  <2> HIDE DEF msgs
  <2>2. w \in MemberType
    BY <2>1, <1>3 DEF MemberType, ReaderPcs
  <2>3. w.pc = (IF msgs = {} THEN "poll" ELSE "deliver") /\ w.batch = msgs /\ w.todo = owed(dropped)
    BY <2>1 DEF MemberType
  <2>4. member' = [member EXCEPT ![r] = w]
    BY <1>1, <2>1 DEF GroupInv, HubTypes
  <2> QED BY <2>2, <2>3, <2>4
<1>6. HubTypes'
  BY <1>2, <1>4, <1>5 DEF GroupInv, HubTypes
<1>7. settledAt \subseteq settledAt'
  BY <1>1
<1>8. OffsetsInv'
  BY <1>4, <1>7 DEF GroupInv, OffsetsInv
<1>9. ASSUME NEW p \in Partitions, owner[p] \in Members
      PROVE  /\ member'[owner[p]].pc \notin {"down", "backoff"}
             /\ \A i \in Nat : begun[p] < i /\ i <= to[p] =>
                  \A s \in Owes(<<p, i>>) : <<<<p, i>>, s>> \in settledAt' \/ WithOwner(p, i, s)'
  <2>1. CASE owner[p] # r
    BY <1>2, <1>4, <1>5, <1>7, <1>9, <2>1 DEF GroupInv, HubTypes, PolledInv, WithOwner
  <2>2. CASE owner[p] = r
    <3>1. member'[r] = v /\ v.pc \notin {"down", "backoff"}
      BY <1>5 DEF GroupInv, HubTypes
    <3>2. ASSUME NEW i \in Nat, begun[p] < i, i <= to[p], NEW s \in Owes(<<p, i>>)
          PROVE  <<<<p, i>>, s>> \in settledAt' \/ WithOwner(p, i, s)'
      <4>1. CASE i <= position[p]
        BY <1>4, <1>7, <1>9, <2>2, <3>2, <4>1 DEF GroupInv, PolledInv, WithOwner
      <4>2. CASE ~(i <= position[p])
        <5>1. <<p, i>> \in PolledMessages(to)
          BY <1>2, <2>2, <3>2, <4>2 DEF PolledMessages, GroupInv, HubTypes
        <5>2. <<p, i>> \in msgs
          BY <5>1, <3>2, OwesFacts
        <5>3. CASE ContentOf(<<p, i>>) = "bad"
          BY <5>2, <5>3, <3>2, <1>1, OwesFacts
        <5>4. CASE s = "logs" /\ <<p, i>> \in dropped
          BY <5>4, <1>1
        <5>5. CASE ContentOf(<<p, i>>) # "bad" /\ ~(s = "logs" /\ <<p, i>> \in dropped)
          <6>1. s \in {"logs", "metrics"}
            BY <5>5, <3>2, OwesFacts
          <6>2. s \in owed(dropped)
            BY <6>1, <5>2, <5>5, <3>2
          <6>3. v.pc = "deliver" /\ <<p, i>> \in v.batch /\ s \in v.todo
            BY <1>5, <5>2, <6>2
          <6> QED BY <6>3, <3>1, <2>2, <1>4 DEF WithOwner
        <5> QED BY <5>3, <5>4, <5>5
      <4> QED BY <4>1, <4>2
    <3> QED BY <2>2, <3>1, <3>2
  <2> QED BY <2>1, <2>2
<1>10. PolledInv'
  BY <1>4, <1>9 DEF PolledInv
<1> QED BY <1>6, <1>8, <1>10 DEF GroupInv

LEMMA SignalKeeps ==
  ASSUME GroupInv, NEW r \in Members, NEW s \in {"logs", "metrics"}, SignalSettles(r, s) PROVE GroupInv'
<1> USE DEF groupVars
<1>1. PICK v \in MemberType : /\ member' = [member EXCEPT ![r] = v]
                              /\ v.pc = "deliver" /\ v.batch = member[r].batch /\ v.todo = member[r].todo \ {s}
  <2> DEFINE w == [member[r] EXCEPT !.todo = @ \ {s}]
  <2>1. member[r] \in MemberType /\ member[r].pc = "deliver" /\ member' = [member EXCEPT ![r].todo = @ \ {s}]
    BY DEF SignalSettles, GroupInv, HubTypes
  <2>2. w \in MemberType /\ w.pc = "deliver" /\ w.batch = member[r].batch /\ w.todo = member[r].todo \ {s}
    BY <2>1 DEF MemberType
  <2>3. member' = [member EXCEPT ![r] = w]
    BY <2>1 DEF GroupInv, HubTypes
  <2> QED BY <2>2, <2>3
<1>2. HubTypes'
  BY <1>1 DEF SignalSettles, GroupInv, HubTypes
<1>3. settledAt \subseteq settledAt'
  BY DEF SignalSettles
<1>4. OffsetsInv'
  BY <1>3 DEF SignalSettles, GroupInv, OffsetsInv
<1>5. ASSUME NEW p \in Partitions, owner[p] \in Members
      PROVE  /\ member'[owner[p]].pc \notin {"down", "backoff"}
             /\ \A i \in Nat : begun[p] < i /\ i <= position[p] =>
                  \A t \in Owes(<<p, i>>) : <<<<p, i>>, t>> \in settledAt' \/ WithOwner(p, i, t)'
  <2>1. CASE owner[p] # r
    BY <1>1, <1>3, <1>5, <2>1 DEF SignalSettles, GroupInv, HubTypes, PolledInv, WithOwner
  <2>2. CASE owner[p] = r
    <3>1. member'[r] = v /\ owner' = owner
      BY <1>1 DEF SignalSettles, GroupInv, HubTypes
    <3>2. ASSUME NEW i \in Nat, begun[p] < i, i <= position[p], NEW t \in Owes(<<p, i>>)
          PROVE  <<<<p, i>>, t>> \in settledAt' \/ WithOwner(p, i, t)'
      <4>1. <<<<p, i>>, t>> \in settledAt \/ WithOwner(p, i, t)
        BY <1>5, <3>2 DEF GroupInv, PolledInv
      <4>2. CASE WithOwner(p, i, t) /\ t = s
        BY <2>2, <3>2, <4>2 DEF WithOwner, SignalSettles
      <4>3. CASE WithOwner(p, i, t) /\ t # s
        BY <1>1, <2>2, <3>1, <4>3 DEF WithOwner
      <4> QED BY <1>3, <4>1, <4>2, <4>3
    <3> QED BY <2>2, <3>1, <3>2, <1>1
  <2> QED BY <2>1, <2>2
<1>6. PolledInv'
  BY <1>5 DEF PolledInv, SignalSettles
<1> QED BY <1>2, <1>4, <1>6 DEF GroupInv

LEMMA CommitKeeps ==
  ASSUME GroupInv, NEW r \in Members, HubCommit(r) PROVE GroupInv'
<1>0. [ReaderDown EXCEPT !.pc = "poll"] \in MemberType
  BY DEF ReaderDown, MemberType, ReaderPcs
<1>1. PICK v \in MemberType : member' = [member EXCEPT ![r] = v] /\ v.pc = "poll"
  BY <1>0 DEF HubCommit, ReaderDown
<1>2. member[r].pc = "deliver" /\ member[r].todo = {} /\ UNCHANGED <<hubLen, begun, owner, position, settledAt>>
  BY DEF HubCommit, BatchDelivered
<1>3. \A p \in Partitions : owner[p] = r => \A i \in Nat : begun[p] < i /\ i <= position[p] =>
        \A s \in Owes(<<p, i>>) : <<<<p, i>>, s>> \in settledAt
  BY <1>2 DEF GroupInv, PolledInv, WithOwner
<1>4. /\ offset' \in [Partitions -> Nat \cup {NoOffset}]
      /\ \A p \in Partitions : offset'[p] = offset[p] \/ (owner[p] = r /\ offset'[p] = position[p])
  BY DEF HubCommit, GroupInv, HubTypes
<1>5. HubTypes'
  BY <1>1, <1>2, <1>4 DEF GroupInv, HubTypes
<1>6. OffsetsInv'
  BY <1>2, <1>3, <1>4 DEF GroupInv, OffsetsInv
<1>7. ASSUME NEW p \in Partitions, owner[p] \in Members
      PROVE  /\ member'[owner[p]].pc \notin {"down", "backoff"}
             /\ \A i \in Nat : begun[p] < i /\ i <= position[p] =>
                  \A s \in Owes(<<p, i>>) : <<<<p, i>>, s>> \in settledAt \/ WithOwner(p, i, s)'
  <2>1. CASE owner[p] = r
    BY <1>1, <1>3, <2>1 DEF GroupInv, HubTypes
  <2>2. CASE owner[p] # r
    BY <1>1, <1>2, <1>7, <2>2 DEF GroupInv, HubTypes, PolledInv, WithOwner
  <2> QED BY <2>1, <2>2
<1>8. PolledInv'
  BY <1>2, <1>7 DEF PolledInv
<1> QED BY <1>5, <1>6, <1>8 DEF GroupInv

LEMMA GroupKeeps == ASSUME HubInv, HubNext PROVE GroupInv'
<1> USE DEF HubInv
<1>1. ASSUME NEW p \in Partitions, HubAppends(p) PROVE GroupInv'
  <2>1. hubLen' \in [Partitions -> Nat] /\ UNCHANGED <<groupVars, member, settledAt>>
    BY <1>1 DEF HubAppends, GroupInv, HubTypes
  <2>2. HubTypes' /\ OffsetsInv'
    BY <2>1 DEF GroupInv, HubTypes, OffsetsInv, groupVars
  <2>3. PolledInv'
    BY <2>1 DEF GroupInv, PolledInv, WithOwner, groupVars
  <2> QED BY <2>2, <2>3 DEF GroupInv
<1>2. ASSUME NEW r \in Members, HubOpen(r) PROVE GroupInv'
  <2>1. /\ [ReaderDown EXCEPT !.pc = IF hubLeft.identity THEN "auth" ELSE "poll"] \in MemberType
        /\ [ReaderDown EXCEPT !.pc = IF hubLeft.identity THEN "auth" ELSE "poll"].pc \notin {"down", "backoff"}
    BY DEF ReaderDown, MemberType, ReaderPcs
  <2> QED BY <1>2, <2>1, MemberSteps DEF HubOpen
<1>3. ReaderDown \in MemberType /\ [ReaderDown EXCEPT !.pc = "backoff"] \in MemberType
  BY DEF ReaderDown, MemberType, ReaderPcs
<1>4. ASSUME NEW r \in Members, ReaderStops(r) \/ PollFails(r) PROVE GroupInv'
  BY <1>3, <1>4, GivenUp DEF ReaderStops, PollFails, Reopens
<1>5. ASSUME NEW r \in Members, NEW v \in MemberType, member' = [member EXCEPT ![r] = v],
             v.pc \notin {"down", "backoff"}, member[r].pc # "deliver", UNCHANGED <<hubLen, groupVars, settledAt>>
      PROVE  GroupInv'
  BY <1>5, MemberSteps
<1>6. ASSUME NEW r \in Members, NEW c \in ReaderPcs \ {"down", "backoff"}, member' = [member EXCEPT ![r].pc = c],
             member[r].pc # "deliver", UNCHANGED <<hubLen, groupVars, settledAt>>
      PROVE  GroupInv'
  <2>1. /\ [member[r] EXCEPT !.pc = c] \in MemberType /\ [member[r] EXCEPT !.pc = c].pc = c
        /\ member' = [member EXCEPT ![r] = [member[r] EXCEPT !.pc = c]]
    BY <1>6 DEF GroupInv, HubTypes, MemberType
  <2> QED BY <1>5, <1>6, <2>1
<1>7. ASSUME NEW r \in Members, GetServes(r) \/ FetchAnswers(r) \/ FetchFails(r) \/ Reconnect(r) PROVE GroupInv'
  <2>1. /\ UNCHANGED <<hubLen, groupVars, settledAt>> /\ member[r].pc # "deliver"
        /\ member' = [member EXCEPT ![r].pc = "poll"] \/ member' = [member EXCEPT ![r].pc = "auth"]
    BY <1>7 DEF GetServes, FetchAnswers, FetchFails, Reconnect, ShowToken, NotTheToken
  <2> QED BY <2>1, <1>6 DEF ReaderPcs
<1>8. ASSUME NEW r \in Members, GetAsks(r) PROVE GroupInv'
  <2> DEFINE v == [member[r] EXCEPT !.pc = "fetch", !.asked = hubNow]
  <2>1. /\ v \in MemberType /\ v.pc = "fetch"
        /\ member' = [member EXCEPT ![r] = v]
    BY <1>8 DEF GetAsks, GroupInv, HubTypes, MemberType, TokenInv, ReaderPcs
  <2>2. member[r].pc # "deliver" /\ UNCHANGED <<hubLen, groupVars, settledAt>>
    BY <1>8 DEF GetAsks, NotTheToken
  <2> QED BY <2>1, <2>2, <1>5
<1>9. ASSUME Revoke \/ HubTick PROVE GroupInv'
  <2>1. UNCHANGED <<hubLen, groupVars, member, settledAt>>
    BY <1>9 DEF Revoke, HubTick
  <2> QED BY <2>1 DEF GroupInv, HubTypes, OffsetsInv, PolledInv, WithOwner, groupVars
<1> QED BY <1>1, <1>2, <1>4, <1>7, <1>8, <1>9, RebalanceKeeps, PollKeeps, SignalKeeps, CommitKeeps DEF HubNext

-----------------------------------------------------------------------------
(* What a reader shows *)

\* Whatever leaves the tokens alone and asks for none keeps what is known of them.
LEMMA TokensLeft ==
  ASSUME TokenInv, UNCHANGED <<entra, shown, tokens, forsaken, revoked, hubNow>>,
         \A r \in Members : member'[r].pc = "fetch" => member[r].pc = "fetch" /\ member'[r].asked = member[r].asked
  PROVE  TokenInv'
BY DEF TokenInv

\* A reader that ends or reopens has no token left; the one it was refused with
\* was nobody else's.
LEMMA TokenDropped ==
  ASSUME TokenInv, HubTypes, NEW r \in Members, NEW v, v.pc # "fetch",
         member' = [member EXCEPT ![r] = v],
         entra' = [entra EXCEPT ![r] = NoToken], shown' = [shown EXCEPT ![r] = [id |-> 0, at |-> 0]],
         forsaken' = forsaken \/ forsaken' = forsaken \cup ({shown[r].id} \cap revoked),
         UNCHANGED <<tokens, revoked, hubNow>>
  PROVE  TokenInv'
<1>1. NoToken \in TokenType /\ NoToken.id = 0
  BY DEF NoToken, TokenType
<1>2. /\ entra' \in [Members -> TokenType] /\ shown' \in [Members -> [id : Nat, at : Nat]]
      /\ entra'[r].id = 0 /\ shown'[r].id = 0
      /\ \A q \in Members : q # r => entra'[q] = entra[q] /\ shown'[q] = shown[q]
  BY <1>1 DEF TokenInv
<1>3. \A q \in Members : q # r /\ entra[q].id # 0 => entra[q].id \notin forsaken'
  BY DEF TokenInv
<1>4. \A q \in Members : member'[q].pc = "fetch" => q # r /\ member'[q] = member[q]
  BY DEF HubTypes
<1>5. ASSUME NEW q \in Members
      PROVE  /\ entra'[q].id # 0 => /\ entra'[q].id \in DOMAIN tokens /\ entra'[q].id \notin forsaken'
                                    /\ entra'[q].expiry <= tokens[entra'[q].id]
             /\ shown'[q].id # 0 => shown'[q].id = entra'[q].id /\ shown'[q].at < tokens[shown'[q].id]
             /\ member'[q].pc = "fetch" => member'[q].asked <= hubNow /\ hubNow - member'[q].asked <= FetchTimeout
  BY <1>2, <1>3, <1>4 DEF TokenInv
<1>6. forsaken' \subseteq DOMAIN tokens
  BY DEF TokenInv
<1>7. \A p, q \in Members : entra'[p].id # 0 /\ entra'[p].id = entra'[q].id => p = q
  BY <1>2 DEF TokenInv
<1> QED BY <1>2, <1>5, <1>6, <1>7 DEF TokenInv

\* A reader shows the token it has, which has not run out.
LEMMA TokenShown ==
  ASSUME TokenInv, HubTypes, NEW r \in Members, TokenValid(entra[r]),
         member' = [member EXCEPT ![r].pc = "poll"],
         shown' = [shown EXCEPT ![r] = [id |-> entra[r].id, at |-> hubNow]],
         entra' \in [Members -> TokenType],
         \A q \in Members : entra'[q].id = entra[q].id /\ entra'[q].expiry = entra[q].expiry,
         UNCHANGED <<tokens, revoked, forsaken, hubNow>>
  PROVE  TokenInv'
<1>1. entra[r].id # 0 /\ hubNow < tokens[entra[r].id]
  <2>1. entra[r].id # 0 /\ hubNow < entra[r].expiry /\ entra[r].expiry <= tokens[entra[r].id]
    BY DEF TokenValid, TokenInv
  <2>2. hubNow \in Int /\ entra[r].expiry \in Int /\ tokens[entra[r].id] \in Int
    BY <2>1 DEF TokenInv, TokenType
  <2> QED BY <2>1, <2>2
<1>2. /\ shown' \in [Members -> [id : Nat, at : Nat]] /\ shown'[r] = [id |-> entra[r].id, at |-> hubNow]
      /\ \A q \in Members : q # r => shown'[q] = shown[q]
  BY DEF TokenInv, TokenType
<1>3. \A q \in Members : member'[q].pc = "fetch" => q # r /\ member'[q] = member[q]
  BY DEF HubTypes, MemberType
<1>4. ASSUME NEW q \in Members
      PROVE  /\ entra'[q].id # 0 => /\ entra'[q].id \in DOMAIN tokens /\ entra'[q].id \notin forsaken
                                    /\ entra'[q].expiry <= tokens[entra'[q].id]
             /\ shown'[q].id # 0 => shown'[q].id = entra'[q].id /\ shown'[q].at < tokens[shown'[q].id]
             /\ member'[q].pc = "fetch" => member'[q].asked <= hubNow /\ hubNow - member'[q].asked <= FetchTimeout
  BY <1>1, <1>2, <1>3 DEF TokenInv
<1>5. \A p, q \in Members : entra'[p].id # 0 /\ entra'[p].id = entra'[q].id => p = q
  BY DEF TokenInv
<1> QED BY <1>2, <1>4, <1>5 DEF TokenInv

LEMMA ServesKeeps == ASSUME HubInv, NEW r \in Members, GetServes(r) PROVE TokenInv'
<1>1. hubNow \in Int /\ entra[r].expiry \in Int /\ RefreshMargin \in Nat
  BY TokenTimes DEF HubInv, TokenInv, TokenType
<1>2. TokenValid(entra[r])
  BY <1>1 DEF GetServes, TokenCached, TokenValid
<1> QED BY <1>2, TokenShown DEF GetServes, ShowToken, NotTheToken, HubInv, GroupInv, TokenInv

LEMMA AnswersKeeps == ASSUME HubInv, NEW r \in Members, FetchAnswers(r) PROVE TokenInv'
<1> DEFINE id == Len(tokens) + 1
<1>1. PICK made \in member[r].asked .. hubNow : tokens' = Append(tokens, made + TokenTTL)
  BY DEF FetchAnswers
<1>2. /\ hubNow \in Nat /\ member[r].asked \in Nat /\ TokenTTL \in Nat /\ FetchTimeout \in Nat /\ FetchTimeout < TokenTTL
      /\ hubNow - member[r].asked <= FetchTimeout /\ tokens \in Seq(Int)
  BY TokenTimes DEF FetchAnswers, HubInv, GroupInv, HubTypes, MemberType, TokenInv
<1>3. made \in Int /\ member[r].asked <= made /\ hubNow < made + TokenTTL
  BY <1>1, <1>2
<1>4. /\ tokens' \in Seq(Int) /\ DOMAIN tokens \subseteq DOMAIN tokens' /\ id \in DOMAIN tokens' /\ id \notin DOMAIN tokens
      /\ tokens'[id] = made + TokenTTL /\ \A i \in DOMAIN tokens : tokens'[i] = tokens[i]
  BY <1>1, <1>2, <1>3
<1>5. id \in Nat /\ id # 0
  BY <1>2
<1> HIDE DEF id
<1>6. PICK t \in TokenType : entra' = [entra EXCEPT ![r] = t] /\ t.id = id /\ t.expiry = member[r].asked + TokenTTL
  <2>1. [id |-> id, expiry |-> member[r].asked + TokenTTL, err |-> FALSE, retryAt |-> 0] \in TokenType
    BY <1>2, <1>5 DEF TokenType
  <2> QED BY <2>1 DEF FetchAnswers, id
<1>7. /\ shown' = [shown EXCEPT ![r] = [id |-> id, at |-> hubNow]] /\ member' = [member EXCEPT ![r].pc = "poll"]
      /\ UNCHANGED <<revoked, forsaken, hubNow>>
  BY DEF FetchAnswers, ShowToken, NotTheToken, id
<1>8. /\ entra' \in [Members -> TokenType] /\ entra'[r] = t
      /\ shown' \in [Members -> [id : Nat, at : Nat]] /\ shown'[r] = [id |-> id, at |-> hubNow]
      /\ \A q \in Members : q # r => entra'[q] = entra[q] /\ shown'[q] = shown[q]
  BY <1>2, <1>5, <1>6, <1>7 DEF HubInv, TokenInv
<1>9. \A q \in Members : member'[q].pc = "fetch" => q # r /\ member'[q] = member[q]
  BY <1>7 DEF HubInv, GroupInv, HubTypes, MemberType
<1>10. id \notin forsaken /\ \A q \in Members : entra[q].id # id
  BY <1>4, <1>5 DEF HubInv, TokenInv
<1>11. t.expiry <= tokens'[id] /\ hubNow < tokens'[id]
  BY <1>2, <1>3, <1>4, <1>6
<1>12. ASSUME NEW q \in Members
       PROVE  /\ entra'[q].id # 0 => /\ entra'[q].id \in DOMAIN tokens' /\ entra'[q].id \notin forsaken
                                     /\ entra'[q].expiry <= tokens'[entra'[q].id]
              /\ shown'[q].id # 0 => shown'[q].id = entra'[q].id /\ shown'[q].at < tokens'[shown'[q].id]
              /\ member'[q].pc = "fetch" => member'[q].asked <= hubNow /\ hubNow - member'[q].asked <= FetchTimeout
  <2>1. CASE q = r
    BY <2>1, <1>4, <1>6, <1>8, <1>9, <1>10, <1>11
  <2>2. CASE q # r
    <3>1. entra'[q] = entra[q] /\ shown'[q] = shown[q]
      BY <2>2, <1>8
    <3>2. /\ entra[q].id # 0 => /\ entra[q].id \in DOMAIN tokens /\ entra[q].id \notin forsaken
                                /\ entra[q].expiry <= tokens[entra[q].id]
          /\ shown[q].id # 0 => shown[q].id = entra[q].id /\ shown[q].at < tokens[shown[q].id]
          /\ member[q].pc = "fetch" => member[q].asked <= hubNow /\ hubNow - member[q].asked <= FetchTimeout
      BY DEF HubInv, TokenInv
    <3>3. member'[q].pc = "fetch" => member'[q].asked <= hubNow /\ hubNow - member'[q].asked <= FetchTimeout
      BY <3>2, <1>9
    <3>4. shown[q].id # 0 => shown[q].id \in DOMAIN tokens
      BY <3>2
    <3> QED BY <3>1, <3>2, <3>3, <3>4, <1>4
  <2> QED BY <2>1, <2>2
<1>13. \A p, q \in Members : entra'[p].id # 0 /\ entra'[p].id = entra'[q].id => p = q
  BY <1>6, <1>8, <1>10 DEF HubInv, TokenInv
<1> QED BY <1>4, <1>7, <1>8, <1>12, <1>13 DEF HubInv, TokenInv

LEMMA FailsKeeps == ASSUME HubInv, NEW r \in Members, FetchFails(r) PROVE TokenInv'
<1>1. entra[r] \in TokenType /\ RetryAt(entra[r]) \in Int
  BY TokenTimes DEF HubInv, TokenInv, TokenType, RetryAt
<1>2. /\ entra' \in [Members -> TokenType]
      /\ \A q \in Members : entra'[q].id = entra[q].id /\ entra'[q].expiry = entra[q].expiry
  <2>1. entra' = [entra EXCEPT ![r] = [entra[r] EXCEPT !.err = TRUE, !.retryAt = RetryAt(entra[r])]]
    BY DEF FetchFails, HubInv, TokenInv
  <2>2. PICK t \in TokenType : entra' = [entra EXCEPT ![r] = t] /\ t.id = entra[r].id /\ t.expiry = entra[r].expiry
    <3> DEFINE w == [entra[r] EXCEPT !.err = TRUE, !.retryAt = RetryAt(entra[r])]
    <3>1. w \in TokenType /\ w.id = entra[r].id /\ w.expiry = entra[r].expiry
      BY <1>1 DEF TokenType
    <3> QED BY <2>1, <3>1
  <2> QED BY <2>2 DEF HubInv, TokenInv
<1>3. CASE TokenValid(entra[r])
  BY <1>2, <1>3, TokenShown DEF FetchFails, ShowToken, NotTheToken, HubInv, GroupInv
<1>4. CASE ~TokenValid(entra[r])
  <2>1. member' = [member EXCEPT ![r].pc = "auth"] /\ UNCHANGED <<shown, tokens, revoked, forsaken, hubNow>>
    BY <1>4 DEF FetchFails, NotTheToken
  <2>2. \A q \in Members : member'[q].pc = "fetch" => member'[q] = member[q]
    BY <2>1 DEF HubInv, GroupInv, HubTypes, MemberType
  <2>3. ASSUME NEW q \in Members
        PROVE  /\ entra'[q].id # 0 => /\ entra'[q].id \in DOMAIN tokens /\ entra'[q].id \notin forsaken
                                      /\ entra'[q].expiry <= tokens[entra'[q].id]
               /\ shown[q].id # 0 => shown[q].id = entra'[q].id /\ shown[q].at < tokens[shown[q].id]
               /\ member'[q].pc = "fetch" => member'[q].asked <= hubNow /\ hubNow - member'[q].asked <= FetchTimeout
    BY <1>2, <2>2 DEF HubInv, TokenInv
  <2>4. \A p, q \in Members : entra'[p].id # 0 /\ entra'[p].id = entra'[q].id => p = q
    BY <1>2 DEF HubInv, TokenInv
  <2> QED BY <1>2, <2>1, <2>3, <2>4 DEF HubInv, TokenInv
<1> QED BY <1>3, <1>4

LEMMA TokenKeeps == ASSUME HubInv, HubNext PROVE TokenInv'
<1>0. HubTypes /\ TokenInv
  BY DEF HubInv, GroupInv
<1>1. ASSUME NEW r \in Members, NEW v, v.pc # "fetch", member' = [member EXCEPT ![r] = v], UNCHANGED tokenVars
      PROVE  TokenInv'
  <2>1. \A q \in Members : member'[q].pc = "fetch" => member'[q] = member[q]
    BY <1>0, <1>1 DEF HubTypes
  <2> QED BY <1>0, <1>1, <2>1, TokensLeft DEF tokenVars
<1>2. ASSUME UNCHANGED <<member, tokenVars>> PROVE TokenInv'
  BY <1>0, <1>2, TokensLeft DEF tokenVars
<1>3. ASSUME NEW p \in Partitions, HubAppends(p) \/ \E r \in Members : Rebalance(p, r) PROVE TokenInv'
  BY <1>2, <1>3 DEF HubAppends, Rebalance
<1>4. ASSUME NEW r \in Members, HubOpen(r) \/ HubCommit(r) PROVE TokenInv'
  <2>1. PICK v : member' = [member EXCEPT ![r] = v] /\ v.pc # "fetch" /\ UNCHANGED tokenVars
    BY <1>4 DEF HubOpen, HubCommit, ReaderDown
  <2> QED BY <1>1, <2>1
<1>5. ASSUME NEW r \in Members, ReaderStops(r) \/ PollFails(r) PROVE TokenInv'
  <2>1. ReaderDown.pc # "fetch" /\ [ReaderDown EXCEPT !.pc = "backoff"].pc # "fetch"
    BY DEF ReaderDown
  <2> QED BY <1>0, <1>5, <2>1, TokenDropped DEF ReaderStops, PollFails, Reopens, Invalidated
<1>6. ASSUME NEW r \in Members, NEW to \in [Partitions -> 0 .. Longest], Poll(r, to) PROVE TokenInv'
  <2>1. \A q \in Members : member'[q].pc = "fetch" => member'[q] = member[q]
    <3>0. PICK b, d, msgs : member' = [member EXCEPT ![r].pc = IF msgs = {} THEN "poll" ELSE "deliver",
                                                      ![r].batch = b, ![r].todo = d]
      BY <1>6 DEF Poll
    <3>1. PICK c \in {"poll", "deliver"} : member' = [member EXCEPT ![r].pc = c, ![r].batch = b, ![r].todo = d]
      BY <3>0
    <3>2. member[r] \in MemberType /\ member'[r] = [member[r] EXCEPT !.pc = c, !.batch = b, !.todo = d]
      BY <1>0, <3>1 DEF HubTypes
    <3>3. member'[r].pc = c /\ \A q \in Members : q # r => member'[q] = member[q]
      BY <1>0, <3>1, <3>2 DEF HubTypes, MemberType
    <3> QED BY <3>3
  <2> QED BY <1>0, <1>6, <2>1, TokensLeft DEF Poll, tokenVars
<1>7. ASSUME NEW r \in Members, NEW s \in {"logs", "metrics"}, SignalSettles(r, s) PROVE TokenInv'
  <2>1. \A q \in Members : member'[q].pc = "fetch" => member'[q] = member[q]
    BY <1>0, <1>7 DEF SignalSettles, HubTypes, MemberType
  <2> QED BY <1>0, <1>7, <2>1, TokensLeft DEF SignalSettles, tokenVars
<1>8. ASSUME NEW r \in Members, GetAsks(r) PROVE TokenInv'
  <2>1. \A q \in Members : member'[q].pc = "fetch" => member'[q] = member[q] \/ member'[q].asked = hubNow
    BY <1>0, <1>8 DEF GetAsks, HubTypes, MemberType
  <2>2. UNCHANGED <<entra, shown, tokens, forsaken, revoked, hubNow>>
    BY <1>8 DEF GetAsks, NotTheToken
  <2>3. \A q \in Members : member'[q].pc = "fetch" => member'[q].asked <= hubNow /\ hubNow - member'[q].asked <= FetchTimeout
    <3>1. hubNow \in Nat /\ FetchTimeout \in Nat
      BY <1>0, TokenTimes DEF TokenInv
    <3>2. hubNow <= hubNow /\ hubNow - hubNow <= FetchTimeout
      BY <3>1
    <3>3. \A q \in Members : member[q].pc = "fetch" => member[q].asked <= hubNow /\ hubNow - member[q].asked <= FetchTimeout
      BY <1>0 DEF TokenInv
    <3> QED BY <2>1, <3>2, <3>3
  <2> QED BY <1>0, <2>2, <2>3 DEF TokenInv
<1>9. ASSUME NEW r \in Members, Reconnect(r) PROVE TokenInv'
  <2>1. \A q \in Members : member'[q].pc = "fetch" => member'[q] = member[q]
    BY <1>0, <1>9 DEF Reconnect, HubTypes, MemberType
  <2> QED BY <1>0, <1>9, <2>1, TokensLeft DEF Reconnect, tokenVars
<1>10. ASSUME Revoke PROVE TokenInv'
  BY <1>0, <1>10 DEF Revoke, TokenInv
<1>11. ASSUME HubTick PROVE TokenInv'
  <2>1. \A r \in Members : member[r].pc = "fetch" => member[r].asked <= hubNow' /\ hubNow' - member[r].asked <= FetchTimeout
    BY <1>0, <1>11, TokenTimes DEF HubTick, TokenInv, HubTypes, MemberType
  <2> QED BY <1>0, <1>11, <2>1 DEF HubTick, TokenInv
<1> QED BY <1>3, <1>4, <1>5, <1>6, <1>7, <1>8, <1>9, <1>10, <1>11, ServesKeeps, AnswersKeeps, FailsKeeps DEF HubNext

\* For any number of members, partitions, messages, rebalances, failed commits, stops
\* and tokens: the group's offsets pass nothing that is not settled, and no reader
\* shows a token that has run out or that it was refused with (Reader.deliver,
\* kafkaSource.commit, tokenSource.get).
THEOREM HubAlwaysSound == HubSpec => []HubSound
<1>1. HubInv => HubSound
  <2> SUFFICES ASSUME HubInv PROVE HubSound
    OBVIOUS
  <2>1. \A p \in Partitions : 1 .. Len(HubContent[p]) \subseteq Nat
    BY HubAssumption
  <2>2. OffsetsAreSettled
    BY <2>1 DEF HubInv, GroupInv, OffsetsInv, OffsetsAreSettled
  <2>3. TokensSound
    BY DEF HubInv, TokenInv, TokensSound
  <2> QED BY <2>2, <2>3 DEF HubSound
<1>2. HubInv /\ UNCHANGED hubVars => HubInv'
  BY DEF HubInv, GroupInv, HubTypes, PolledInv, WithOwner, OffsetsInv, TokenInv, hubVars
<1>3. HubInv /\ [HubNext]_hubVars => HubInv'
  BY <1>2, GroupKeeps, TokenKeeps DEF HubInv
<1> QED BY <1>1, <1>3, HubStarts, PTL DEF HubSpec
=============================================================================
