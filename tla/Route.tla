-------------------------------- MODULE Route --------------------------------
(***************************************************************************)
(* Export routing (internal/agent/route): one payload is split by the      *)
(* destination each resource belongs to, the shares are sent one by one,   *)
(* and the failures are joined into the one answer its producer acts on.   *)
(* A producer is a caller of Export*: it is of kind "reoffer" (it marks    *)
(* the context and offers a failed batch again until it settles, like the  *)
(* journal reader) or "push" (an OTLP sender, see Ingest).                 *)
(***************************************************************************)
EXTENDS Integers, Sequences, FiniteSets

CONSTANTS Producers,    \* callers of Export*
          Kind,         \* [Producers -> {"reoffer", "push"}]
          Payload,      \* [Producers -> SUBSET Resources]: what a sender pushes
          Resources,
          DestSeq,      \* the configured destinations, in order
          Namespace,    \* [Resources -> namespaces, or NoNs]
          Globs,        \* [destination -> namespaces its patterns match]
          Marker,       \* [Resources -> name a script routed to, or NoMark]
          Poison,       \* resources every destination rejects for good
          Default, NoNs, NoMark,
          MaxMemo,      \* maxNamespaceMemo
          MaxOffers     \* bound: offers of one payload

ASSUME RouteAssumption ==
  /\ Payload \in [Producers -> SUBSET Resources]
  /\ Poison \subseteq Resources
  /\ MaxMemo \in Nat /\ MaxOffers \in Nat \ {0}

VARIABLES
  call,      \* per producer: the export call in progress
  memo,      \* nsMemo: namespaces already matched against the globs
  accepted,  \* history: per producer and resource, the copies its destination accepted, up to 2
  lostAns,   \* history: producers one of whose shares was accepted, the answer lost
  refused    \* history: <<producer, resource>> refused for good

routeVars == <<call, memo, accepted, lostAns, refused>>

Dests == {DestSeq[i] : i \in DOMAIN DestSeq}

\* groups: the payload; todo: destinations whose share is still to send; errs:
\* what the destinations answered.
Idle  == [pc |-> "idle", groups |-> {}, todo |-> {}, errs |-> {}, ans |-> "none", offers |-> 0]

-----------------------------------------------------------------------------
(* decide: a script's marker wins, an unknown one means the default; then   *)
(* the first destination one of whose patterns matches the namespace.       *)

GlobNamespace(ns) ==
  LET hit == {i \in DOMAIN DestSeq : ns \in Globs[DestSeq[i]]}
  IN  IF hit = {} THEN Default ELSE DestSeq[CHOOSE i \in hit : \A j \in hit : i <= j]

NamespaceDest(ns) == IF ns \in DOMAIN memo THEN memo[ns] ELSE GlobNamespace(ns)

Decide(r) ==
  IF Marker[r] # NoMark THEN IF Marker[r] \in Dests THEN Marker[r] ELSE Default
  ELSE IF Namespace[r] = NoNs THEN Default ELSE NamespaceDest(Namespace[r])

Share(P, d) == {r \in P : Decide(r) = d}

\* split: the destinations that get a share. A payload with one destination and
\* no marker goes out as it is.
Split(P) == {Decide(r) : r \in P}

\* Reoffer marks the context of a payload that comes back if it fails.
Reoffered(x) == Kind[x] = "reoffer"

Position(d) == CHOOSE i \in DOMAIN DestSeq : DestSeq[i] = d

\* The order sendSplit offers the shares in: the default's first, or last in a
\* marked context; the routes' as they are configured.
IsNext(x, d) ==
  IF d = Default
  THEN Reoffered(x) => call[x].todo = {Default}
  ELSE /\ Reoffered(x) \/ Default \notin call[x].todo
       /\ \A e \in call[x].todo \ {Default} : Position(d) <= Position(e)

\* Mutant: one permanent failure makes the joined one permanent.
JoinedPermanentWins(errs) ==
  IF errs \subseteq {"ok"} THEN "ok" ELSE IF "permanent" \in errs THEN "permanent" ELSE "transient"

\* joinExportErrs: nil, the only failure, or a failure that reads as transient
\* unless every destination's was permanent.
Joined(errs) ==
  IF errs \subseteq {"ok"} THEN "ok" ELSE IF "transient" \in errs THEN "transient" ELSE "permanent"

-----------------------------------------------------------------------------
RouteInit ==
  /\ call = [x \in Producers |-> Idle]
  /\ memo = [n \in {} |-> Default]
  /\ accepted = [x \in Producers |-> [r \in Resources |-> 0]]
  /\ lostAns = {} /\ refused = {}

\* Export* begins: split consults and fills the memo namespace by namespace
\* (put checks the bound before and again under the lock).
StartExport(x, P) ==
  /\ P # {}
  /\ LET new == {Namespace[r] : r \in {s \in P : Marker[s] = NoMark /\ Namespace[s] # NoNs}} \ DOMAIN memo
         room == MaxMemo - Cardinality(DOMAIN memo)
     IN  \E kept \in SUBSET new :
           /\ Cardinality(kept) = IF Cardinality(new) <= room THEN Cardinality(new)
                                  ELSE IF room > 0 THEN room ELSE 0
           /\ memo' = [n \in DOMAIN memo \cup kept |-> IF n \in kept THEN GlobNamespace(n) ELSE memo[n]]
  /\ call' = [call EXCEPT ![x] = [pc |-> "send", groups |-> P, todo |-> Split(P),
                                  errs |-> {}, ans |-> "none", offers |-> call[x].offers + 1]]
  /\ UNCHANGED <<accepted, lostAns, refused>>

Accept(x, share) ==
  accepted' = [accepted EXCEPT ![x] = [r \in Resources |->
                 IF r \in share /\ accepted[x][r] < 2 THEN accepted[x][r] + 1 ELSE accepted[x][r]]]

\* One share is sent. A destination that is up judges the share by its content;
\* it may be down, or accept and lose the answer.
SendShare(x) ==
  /\ call[x].pc = "send"
  /\ \E d \in call[x].todo :
     LET share == Share(call[x].groups, d)
         note(a) == call' = [call EXCEPT ![x] = [call[x] EXCEPT !.todo = @ \ {d}, !.errs = @ \cup {a}]]
     IN  /\ IsNext(x, d)
         /\ \/ /\ share \cap Poison = {} /\ Accept(x, share) /\ note("ok")
               /\ UNCHANGED <<lostAns, refused>>
            \/ /\ share \cap Poison # {} /\ note("permanent")
               /\ refused' = refused \cup {<<x, r>> : r \in share}
               /\ UNCHANGED <<accepted, lostAns>>
            \/ note("transient") /\ UNCHANGED <<accepted, lostAns, refused>>
            \/ /\ share \cap Poison = {} /\ Accept(x, share) /\ note("transient")
               /\ lostAns' = lostAns \cup {x} /\ UNCHANGED refused
  /\ UNCHANGED memo

\* sendSplit withholds the default share of a marked payload while a route's
\* share fails transiently.
Withhold(x) ==
  /\ Reoffered(x) /\ call[x].todo = {Default} /\ "transient" \in call[x].errs

FinishExport(x) ==
  /\ call[x].pc = "send"
  /\ call[x].todo = {} \/ Withhold(x)
  /\ call' = [call EXCEPT ![x] = [call[x] EXCEPT !.pc = "answered", !.todo = {}, !.ans = Joined(call[x].errs)]]
  /\ UNCHANGED <<memo, accepted, lostAns, refused>>

SendStep(x) == ~Withhold(x) /\ SendShare(x)

ExportStep(x) == SendStep(x) \/ FinishExport(x)

-----------------------------------------------------------------------------
Answered(x) == call[x].pc = "answered"
Delivered(x, r) == accepted[x][r] > 0
=============================================================================
