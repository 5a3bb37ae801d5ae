---------------------------- MODULE EventsProofs ----------------------------
(***************************************************************************)
(* For any replicas, events and faults: the position of the events reader  *)
(* is one to resume from, as long as the filter of a replay drops only     *)
(* what is accounted for.  Without that it is not: a watermark that was    *)
(* held back in one term can be committed in a later one.                  *)
(***************************************************************************)
EXTENDS Events, FiniteSetTheorems, SequenceTheorems, WellFoundedInduction, TLAPS

-----------------------------------------------------------------------------
(* The invariant.  A position or a stage of a stream vouches for a prefix of *)
(* the revisions: each is accounted for, in the batch, or still in the walk. *)

\* Every revision up to n is in S.
Covered(n, S) == 1..n \subseteq S

\* The filter of a replay drops only what is accounted for.
FilterDropsOnlyDone ==
  \A p \in Replicas : \A e \in reader[p].walk : reader[p].pc = "walk" /\ ~Wanted(reader[p], e) => e \in Accounted

\* Where a stream can be; "off" outside a term.
Stages == {"off", "start", "list", "walk", "tail", "open", "watch"}

\* A position among the first h revisions.
Positions(h) == [rv : 0..h, mark : 0..Created[h]]

\* A reader of a server at revision h.
ReaderType(h) ==
  [batch : Seq(1..h), rendered : Nat, committed : Positions(h), pendingRV : 0..h, seenRV : 0..h,
   relist : BOOLEAN, replaying : BOOLEAN, secured : BOOLEAN, replayRV : 0..h, owed : Nat,
   held : 0..Created[h], from : Int, failed : BOOLEAN, pc : Stages, cursor : 0..h, walk : SUBSET (1..h)]

\* A batch is within its bound and holds no event twice.
BatchOK(r) ==
  /\ r.rendered <= Len(r.batch) /\ Len(r.batch) <= RetainCap
  /\ \A i, j \in 1..Len(r.batch) : r.batch[i] = r.batch[j] => i = j

\* No replay is owed anything: the batch came by the watch, in order, so that what is below an
\* entry is accounted for or stands before it.
FreeOK(r, A) ==
  r.secured => /\ r.owed = 0 /\ ~r.replaying /\ r.replayRV = 0
               /\ \A k \in 1..Len(r.batch) : \A x \in 1..r.batch[k] : x \in A \/ \E j \in 1..k : r.batch[j] = x

\* The position is held: all of the batch is owed to the replay, and once the walk is over
\* there is nothing else below its snapshot.
HeldOK(r, A) ==
  ~r.secured => /\ r.owed = Len(r.batch) /\ r.pendingRV = 0
                /\ r.committed.rv = 0 => r.relist \/ StartMode = "start"
                /\ ~r.replaying => /\ Covered(r.replayRV, A \cup EX!Range(r.batch)) /\ r.replayRV # 0
                                   /\ EX!Range(r.batch) \subseteq 1..r.replayRV

\* What the committed position, a pending bookmark and the last revision seen vouch for.
PositionOK(r, A) ==
  /\ Covered(r.committed.rv, A)
  /\ Covered(r.pendingRV, A \cup EX!Range(r.batch)) /\ (r.batch = <<>> => r.pendingRV = 0)
  /\ Cold(r) /\ r.seenRV # 0 => Covered(r.seenRV, A \cup EX!Range(r.batch)) /\ EX!Range(r.batch) \subseteq 1..r.seenRV

\* What each stage of a stream has passed.
StreamOK(r, A) ==
  /\ r.pc \in {"list", "walk"} => /\ r.replaying /\ ~r.secured
                                  /\ r.from = IF r.committed.mark = 0 THEN 0 ELSE r.committed.mark - Slack
  /\ r.pc = "list" => r.batch = <<>>
  /\ r.pc = "walk" => /\ Covered(r.replayRV, A \cup EX!Range(r.batch) \cup r.walk) /\ r.replayRV # 0
                      /\ EX!Range(r.batch) \cup r.walk \subseteq 1..r.replayRV /\ EX!Range(r.batch) \cap r.walk = {}
  /\ r.pc \in {"list", "walk", "tail"} /\ ~r.secured => r.committed.rv = 0
  /\ r.pc \in {"tail", "open", "watch"} => /\ ~r.replaying /\ Covered(r.cursor, A \cup EX!Range(r.batch)) /\ r.cursor # 0
                                           /\ EX!Range(r.batch) \subseteq 1..r.cursor
  /\ r.pc \in {"open", "watch"} => r.secured

\* A reader, when A is accounted for and the server is at h.
ReaderOK(r, A, h) ==
  r \in ReaderType(h) /\ BatchOK(r) /\ FreeOK(r, A) /\ HeldOK(r, A) /\ PositionOK(r, A) /\ StreamOK(r, A)

\* The server, the lease, the ConfigMap and the histories.
ServerOK ==
  /\ head \in 1..MaxRV /\ compacted \in 0..head
  /\ leader \subseteq Replicas /\ (leader = {} \/ \E p \in Replicas : leader = {p})
  /\ stored \in Positions(head) /\ Covered(stored.rv, Accounted)
  /\ exported \subseteq 1..head /\ counted \subseteq 1..head /\ skipped \subseteq 1..head

\* The inductive invariant.
EventsInv ==
  /\ ServerOK
  /\ reader = [p \in Replicas |-> reader[p]]
  /\ \A p \in Replicas : ReaderOK(reader[p], Accounted, head) /\ (p \in leader <=> reader[p].pc # "off")

\* The largest of a set of numbers up to n.
LEMMA LargestUpTo ==
  ASSUME NEW n \in Nat, NEW S \in SUBSET (0..n), S # {}
  PROVE  EX!Max(S) \in S /\ \A y \in S : EX!Max(S) >= y
<1> DEFINE D == {n - s : s \in S}
<1>1. D \subseteq Nat
  <2>1. \A s \in S : n - s \in Nat
    OBVIOUS
  <2> QED BY <2>1
<1>0. D # {}
  OBVIOUS
<1>2. \A y \in S : n - y \in D
  OBVIOUS
<1> HIDE DEF D
<1>3. PICK d \in D : \A e \in D : ~ (<<e, d>> \in OpToRel(<, Nat))
  BY ONLY <1>0, <1>1, NatLessThanWellFounded, WFMin
<1>4. \A e \in D : ~(e < d)
  BY <1>1, <1>3 DEF OpToRel
<1>5. PICK x \in S : d = n - x
  BY DEF D
<1>6. \A y \in S : x >= y
  <2> SUFFICES ASSUME NEW y \in S PROVE x >= y
    OBVIOUS
  <2>1. ~(n - y < n - x) /\ x \in 0..n /\ y \in 0..n
    BY <1>2, <1>4, <1>5
  <2> QED BY <2>1
<1> QED BY <1>6 DEF EX!Max

\* The larger and the smaller of two numbers.
LEMMA MaxOfTwo == ASSUME NEW a \in Nat, NEW b \in Nat PROVE EX!Max({a, b}) = IF a >= b THEN a ELSE b
<1>1. ASSUME NEW c \in Nat, NEW d \in Nat, c >= d PROVE EX!Max({c, d}) = c
  <2>1. \E x \in {c, d} : \A y \in {c, d} : x >= y
    BY <1>1
  <2>2. EX!Max({c, d}) \in {c, d} /\ \A y \in {c, d} : EX!Max({c, d}) >= y
    BY <2>1 DEF EX!Max
  <2> QED BY <1>1, <2>2
<1>2. {a, b} = {b, a}
  OBVIOUS
<1> QED BY <1>1, <1>2

\* The smaller of two numbers.
LEMMA MinOfTwo == ASSUME NEW a \in Nat, NEW b \in Nat PROVE EX!Min({a, b}) = IF a <= b THEN a ELSE b
<1>1. ASSUME NEW c \in Nat, NEW d \in Nat, c <= d PROVE EX!Min({c, d}) = c
  <2>1. \E x \in {c, d} : \A y \in {c, d} : x <= y
    BY <1>1
  <2>2. EX!Min({c, d}) \in {c, d} /\ \A y \in {c, d} : EX!Min({c, d}) <= y
    BY <2>1 DEF EX!Min
  <2> QED BY <1>1, <2>2
<1>2. {a, b} = {b, a}
  OBVIOUS
<1> QED BY <1>1, <1>2

\* The reporters' timestamps have an upper bound.
LEMMA StampsBounded == \E n \in Nat : \A e \in 1..MaxRV : Ts[e] <= n
<1>0. MaxRV \in Nat /\ \A e \in 1..MaxRV : Ts[e] \in Nat
  BY EventsAssumption
<1> DEFINE D == {k \in 0..MaxRV : ~ \E n \in Nat : \A e \in 1..k : Ts[e] <= n}
<1>1. ASSUME D # {} PROVE FALSE
  <2>1. D \subseteq Nat
    BY <1>0
  <2> HIDE DEF D
  <2>2. PICK d \in D : \A e \in D : ~ (<<e, d>> \in OpToRel(<, Nat))
    BY ONLY D # {}, <2>1, NatLessThanWellFounded, WFMin
  <2>3. \A e \in D : ~(e < d)
    BY <2>1, <2>2 DEF OpToRel
  <2>4. d \in 0..MaxRV /\ ~ \E n \in Nat : \A e \in 1..d : Ts[e] <= n
    BY DEF D
  <2>5. d # 0
    <3>1. \A e \in 1..0 : Ts[e] <= 0
      OBVIOUS
    <3> QED BY <2>4, <3>1
  <2>6. d - 1 \notin D /\ d - 1 \in 0..MaxRV
    BY <1>0, <2>3, <2>4, <2>5
  <2>7. PICK n \in Nat : \A e \in 1..(d - 1) : Ts[e] <= n
    BY <2>6 DEF D
  <2>8. Ts[d] \in Nat
    BY <1>0, <2>4, <2>5
  <2> PICK m \in Nat : n <= m /\ Ts[d] <= m
    BY <2>8
  <2>9. \A e \in 1..d : Ts[e] <= m
    <3> SUFFICES ASSUME NEW e \in 1..d PROVE Ts[e] <= m
      OBVIOUS
    <3>1. e = d \/ e \in 1..(d - 1)
      BY <2>4
    <3>2. Ts[e] \in Nat
      BY <1>0, <2>4
    <3> QED BY <2>7, <3>1, <3>2
  <2> QED BY <2>4, <2>9
<1>2. MaxRV \in 0..MaxRV
  BY <1>0
<1> QED BY <1>1, <1>2

\* The entries of a sequence.
LEMMA EntriesOf ==
  ASSUME NEW S, NEW s \in Seq(S)
  PROVE  /\ Len(s) \in Nat /\ DOMAIN s = 1..Len(s) /\ \A i \in 1..Len(s) : s[i] \in S
         /\ \A x : x \in EX!Range(s) <=> \E i \in 1..Len(s) : s[i] = x
         /\ EX!Range(s) \subseteq S
         /\ s = <<>> <=> Len(s) = 0
<1>1. Len(s) \in Nat /\ DOMAIN s = 1..Len(s) /\ \A i \in 1..Len(s) : s[i] \in S
  OBVIOUS
<1>2. \A x : x \in EX!Range(s) <=> \E i \in 1..Len(s) : s[i] = x
  BY <1>1 DEF EX!Range
<1>3. s = <<>> <=> Len(s) = 0
  BY EmptySeq
<1> QED BY <1>1, <1>2, <1>3

\* An empty batch holds nothing.
LEMMA NoEntries == EX!Range(<<>>) = {} /\ Len(<<>>) = 0
<1>1. DOMAIN <<>> = {} /\ Len(<<>>) = 0
  OBVIOUS
<1> QED BY <1>1 DEF EX!Range

\* A batch without its first c entries.
LEMMA Remainder ==
  ASSUME NEW S, NEW s \in Seq(S), NEW c \in 0..Len(s)
  PROVE  LET t == SubSeq(s, c + 1, Len(s))
         IN  /\ t \in Seq(S) /\ Len(t) = Len(s) - c
             /\ \A k \in 1..Len(t) : t[k] = s[c + k] /\ c + k \in 1..Len(s)
<1> DEFINE t == SubSeq(s, c + 1, Len(s))
<1>1. Len(s) \in Nat /\ \A i \in 1..Len(s) : s[i] \in S
  OBVIOUS
<1>2. c + 1 \in Int /\ Len(s) \in Int /\ \A i \in (c + 1)..Len(s) : s[i] \in S
  BY <1>1
<1>3. /\ t \in Seq(S) /\ Len(t) = IF c + 1 <= Len(s) THEN Len(s) - (c + 1) + 1 ELSE 0
      /\ \A i \in 1..(Len(s) - (c + 1) + 1) : t[i] = s[(c + 1) + i - 1]
  BY <1>2, SubSeqProperties
<1> HIDE DEF t
<1>4. Len(t) = Len(s) - c
  BY <1>1, <1>3
<1>5. \A k \in 1..Len(t) : k \in 1..(Len(s) - (c + 1) + 1) /\ (c + 1) + k - 1 = c + k /\ c + k \in 1..Len(s)
  BY <1>1, <1>4
<1> QED BY <1>3, <1>4, <1>5 DEF t

\* Its first c entries.
LEMMA Leaders ==
  ASSUME NEW S, NEW s \in Seq(S), NEW c \in 0..Len(s)
  PROVE  LET t == SubSeq(s, 1, c)
         IN  /\ t \in Seq(S) /\ Len(t) = c /\ \A k \in 1..c : t[k] = s[k]
             /\ \A x : x \in EX!Range(t) <=> \E i \in 1..c : s[i] = x
<1> DEFINE t == SubSeq(s, 1, c)
<1>1. Len(s) \in Nat /\ \A i \in 1..Len(s) : s[i] \in S
  OBVIOUS
<1>2. \A i \in 1..c : s[i] \in S
  BY <1>1
<1>3. t \in Seq(S) /\ Len(t) = (IF 1 <= c THEN c - 1 + 1 ELSE 0) /\ \A i \in 1..(c - 1 + 1) : t[i] = s[1 + i - 1]
  BY <1>2, SubSeqProperties
<1> HIDE DEF t
<1>4. Len(t) = c
  BY <1>1, <1>3
<1>5. \A k \in 1..c : k \in 1..(c - 1 + 1) /\ 1 + k - 1 = k
  BY <1>1
<1>6. \A k \in 1..c : t[k] = s[k]
  BY <1>3, <1>5
<1>7. \A x : x \in EX!Range(t) <=> \E i \in 1..c : s[i] = x
  BY <1>3, <1>4, <1>6, EntriesOf
<1> QED BY <1>3, <1>4, <1>6, <1>7 DEF t

\* The types of the fields.
LEMMA TypesOf ==
  ASSUME NEW h \in Nat, NEW r \in ReaderType(h)
  PROVE  /\ r.batch \in Seq(1..h) /\ r.rendered \in Nat /\ r.committed \in Positions(h)
         /\ r.committed.rv \in 0..h /\ r.committed.mark \in 0..Created[h]
         /\ r.pendingRV \in 0..h /\ r.seenRV \in 0..h /\ r.replayRV \in 0..h /\ r.cursor \in 0..h
         /\ r.relist \in BOOLEAN /\ r.replaying \in BOOLEAN /\ r.secured \in BOOLEAN /\ r.failed \in BOOLEAN
         /\ r.owed \in Nat /\ r.held \in 0..Created[h] /\ r.from \in Int /\ r.pc \in Stages /\ r.walk \in SUBSET (1..h)
BY DEF ReaderType, Positions

\* More is accounted for.
LEMMA MoreDone ==
  ASSUME NEW h, NEW r, NEW A, NEW B, ReaderOK(r, A, h), A \subseteq B
  PROVE  ReaderOK(r, B, h)
<1>1. FreeOK(r, B)
  BY DEF ReaderOK, FreeOK
<1>2. HeldOK(r, B)
  BY DEF ReaderOK, HeldOK, Covered
<1>3. PositionOK(r, B)
  BY DEF ReaderOK, PositionOK, Covered
<1>4. StreamOK(r, B)
  <2>1. ASSUME NEW n, NEW S, NEW T, Covered(n, A \cup S \cup T) PROVE Covered(n, B \cup S \cup T)
    BY <2>1 DEF Covered
  <2>2. ASSUME NEW n, NEW S, Covered(n, A \cup S) PROVE Covered(n, B \cup S)
    BY <2>2 DEF Covered
  <2> QED BY <2>1, <2>2 DEF ReaderOK, StreamOK
<1> QED BY <1>1, <1>2, <1>3, <1>4 DEF ReaderOK

\* A revision more: the types grow.
LEMMA TypesGrow ==
  ASSUME NEW h \in 1..MaxRV, h + 1 \in 1..MaxRV
  PROVE  Positions(h) \subseteq Positions(h + 1) /\ ReaderType(h) \subseteq ReaderType(h + 1)
<1>1. Created[h] \in Nat /\ Created[h + 1] \in Nat /\ Created[h] <= Created[h + 1]
  <2>1. MaxRV \in Nat /\ Created \in [1..MaxRV -> Nat \ {0}] /\ \A n \in 1..MaxRV - 1 : Created[n] =< Created[n + 1]
    BY EventsAssumption
  <2>2. h \in 1..MaxRV - 1
    BY <2>1
  <2> QED BY <2>1, <2>2
<1>2. 0..h \subseteq 0..(h + 1) /\ 1..h \subseteq 1..(h + 1) /\ 0..Created[h] \subseteq 0..Created[h + 1] /\ h \in Nat
  BY <1>1, EventsAssumption
<1>3. Positions(h) \subseteq Positions(h + 1)
  BY <1>2 DEF Positions
<1>4. Seq(1..h) \subseteq Seq(1..(h + 1))
  <2>1. \A S, T : S \subseteq T => Seq(S) \subseteq Seq(T)
    OBVIOUS
  <2> QED BY <1>2, <2>1
<1>5. SUBSET (1..h) \subseteq SUBSET (1..(h + 1))
  BY <1>2
<1> QED BY <1>2, <1>3, <1>4, <1>5 DEF ReaderType

\* The server's newest revision and its time.
LEMMA HeadFacts ==
  ASSUME ServerOK
  PROVE  head \in Nat /\ head >= 1 /\ Created[head] \in Nat /\ Created[head] >= 1 /\ Now = Created[head] /\ MaxRV \in Nat
         /\ RetainCap \in Nat /\ RetainCap >= 1 /\ BatchSize \in Nat /\ BatchSize >= 1 /\ ShedChunk \in Nat /\ ShedChunk >= 1
         /\ \A e \in 1..head : Ts[e] \in Nat /\ e \in 1..MaxRV
<1>1. head \in 1..MaxRV
  BY DEF ServerOK
<1>2. /\ MaxRV \in Nat /\ RetainCap \in Nat /\ RetainCap >= 1 /\ BatchSize \in Nat /\ BatchSize >= 1
      /\ ShedChunk \in Nat /\ ShedChunk >= 1
  BY EventsAssumption
<1>3. Ts \in [1..MaxRV -> Nat] /\ Created \in [1..MaxRV -> Nat \ {0}]
  BY EventsAssumption
<1>4. Created[head] \in Nat /\ Created[head] >= 1
  BY <1>1, <1>3
<1>5. \A e \in 1..head : Ts[e] \in Nat /\ e \in 1..MaxRV
  BY <1>1, <1>2, <1>3
<1> QED BY <1>1, <1>2, <1>4, <1>5 DEF Now

\* Two readers that differ in what the invariant does not look at.
LEMMA SameReader ==
  ASSUME NEW h, NEW r, NEW s, NEW A, ReaderOK(r, A, h), s \in ReaderType(h),
         s.rendered <= Len(r.batch), s.batch = r.batch, s.committed = r.committed, s.pendingRV = r.pendingRV,
         s.seenRV = r.seenRV, s.relist = r.relist, s.replaying = r.replaying, s.secured = r.secured,
         s.replayRV = r.replayRV, s.owed = r.owed, s.from = r.from, s.pc = r.pc, s.cursor = r.cursor, s.walk = r.walk
  PROVE  ReaderOK(s, A, h)
<1>1. BatchOK(s)
  BY DEF ReaderOK, BatchOK
<1>2. FreeOK(s, A)
  BY DEF ReaderOK, FreeOK
<1>3. HeldOK(s, A)
  BY DEF ReaderOK, HeldOK
<1>4. PositionOK(s, A)
  BY DEF ReaderOK, PositionOK, Cold
<1>5. StreamOK(s, A)
  BY DEF ReaderOK, StreamOK
<1> QED BY <1>1, <1>2, <1>3, <1>4, <1>5 DEF ReaderOK

\* How the last attempt ended is no part of the invariant.
LEMMA FailedKeeps ==
  ASSUME NEW h \in Nat, NEW r, NEW A, ReaderOK(r, A, h), NEW b \in BOOLEAN
  PROVE  ReaderOK([r EXCEPT !.failed = b], A, h)
<1> DEFINE s == [r EXCEPT !.failed = b]
<1>1. r \in ReaderType(h) /\ r.rendered <= Len(r.batch)
  BY DEF ReaderOK, BatchOK
<1>2. /\ s \in ReaderType(h) /\ s.rendered = r.rendered /\ s.batch = r.batch /\ s.committed = r.committed
      /\ s.pendingRV = r.pendingRV /\ s.seenRV = r.seenRV /\ s.relist = r.relist /\ s.replaying = r.replaying
      /\ s.secured = r.secured /\ s.replayRV = r.replayRV /\ s.owed = r.owed /\ s.from = r.from /\ s.pc = r.pc
      /\ s.cursor = r.cursor /\ s.walk = r.walk
  BY ONLY <1>1, b \in BOOLEAN DEF ReaderType
<1> HIDE DEF s
<1>3. ReaderOK(s, A, h)
  BY <1>1, <1>2, SameReader
<1> QED BY <1>3 DEF s

\* Rendering fixes a payload, the batch's first entries.
LEMMA RenderIs ==
  ASSUME NEW h \in Nat, NEW r, NEW A, ReaderOK(r, A, h), r.batch # <<>>
  PROVE  /\ ReaderOK(Render(r), A, h) /\ Render(r).rendered \in 1..Len(r.batch) /\ Render(r).batch = r.batch
         /\ Payload(r) = EX!Range(SubSeq(r.batch, 1, Render(r).rendered)) /\ Payload(Render(r)) = Payload(r)
         /\ Render(r).pc = r.pc /\ Render(r).cursor = r.cursor /\ Render(r).secured = r.secured
         /\ Render(r).committed = r.committed
<1>1. r \in ReaderType(h) /\ r.rendered \in Nat /\ r.rendered <= Len(r.batch) /\ Len(r.batch) \in Nat /\ Len(r.batch) # 0
  <2>1. r \in ReaderType(h) /\ r.rendered <= Len(r.batch)
    BY DEF ReaderOK, BatchOK
  <2>2. r.batch \in Seq(1..h) /\ r.rendered \in Nat
    BY <2>1, TypesOf
  <2> QED BY <2>1, <2>2, EntriesOf
<1> PICK n \in Nat : n = Len(r.batch)
  BY <1>1
<1>2. CASE r.rendered = 0
  <2> DEFINE s == [r EXCEPT !.rendered = n]
  <2>1. /\ s \in ReaderType(h) /\ s.rendered = n /\ s.batch = r.batch /\ s.committed = r.committed
        /\ s.pendingRV = r.pendingRV /\ s.seenRV = r.seenRV /\ s.relist = r.relist /\ s.replaying = r.replaying
        /\ s.secured = r.secured /\ s.replayRV = r.replayRV /\ s.owed = r.owed /\ s.from = r.from /\ s.pc = r.pc
        /\ s.cursor = r.cursor /\ s.walk = r.walk
    BY ONLY <1>1, n \in Nat DEF ReaderType
  <2>2. Render(r) = s
    BY <1>2 DEF Render
  <2> HIDE DEF s
  <2>3. ReaderOK(s, A, h)
    BY <1>1, <2>1, SameReader
  <2>4. Render(s) = s
    BY <1>1, <2>1 DEF Render
  <2>5. Payload(r) = EX!Range(SubSeq(r.batch, 1, s.rendered)) /\ Payload(s) = EX!Range(SubSeq(s.batch, 1, s.rendered))
    BY <2>2, <2>4 DEF Payload
  <2>6. Payload(s) = Payload(r)
    BY ONLY <2>1, <2>5
  <2>7. n \in 1..Len(r.batch)
    BY <1>1
  <2> QED BY <2>1, <2>2, <2>3, <2>5, <2>6, <2>7
<1>3. CASE r.rendered # 0
  <2>1. Render(r) = r
    BY <1>3 DEF Render
  <2>2. Payload(r) = EX!Range(SubSeq(r.batch, 1, Render(r).rendered))
    BY DEF Payload
  <2>3. r.rendered \in 1..Len(r.batch)
    BY <1>1, <1>3
  <2> QED BY <2>1, <2>2, <2>3
<1> QED BY <1>2, <1>3

-----------------------------------------------------------------------------
(* What the methods of a reader do to its state.                             *)

\* What the methods that move the position leave alone.
SameStream(r, s) ==
  /\ s.batch = r.batch /\ s.rendered = r.rendered /\ s.seenRV = r.seenRV /\ s.replaying = r.replaying
  /\ s.from = r.from /\ s.pc = r.pc /\ s.cursor = r.cursor /\ s.walk = r.walk

\* A replay that is secured: its snapshot is committed, if it is newer.
LEMMA SecureIs ==
  ASSUME NEW h \in Nat, Created[h] \in Nat, NEW r \in ReaderType(h), r.secured => r.owed = 0 /\ r.replayRV = 0
  PROVE  LET s == SecureReplay(r)
         IN  /\ s \in ReaderType(h) /\ SameStream(r, s) /\ s.pendingRV = r.pendingRV
             /\ s.secured /\ s.owed = 0 /\ s.replayRV = 0
             /\ s.committed.rv = IF r.replayRV # 0 /\ NewerRV(r.replayRV, r.committed.rv) THEN r.replayRV ELSE r.committed.rv
<1> DEFINE rv == IF r.replayRV # 0 /\ NewerRV(r.replayRV, r.committed.rv) THEN r.replayRV ELSE r.committed.rv
           mk == EX!Max({r.committed.mark, r.held})
           pos == [rv |-> rv, mark |-> mk]
           b == r.relist /\ rv = 0
           t == [r EXCEPT !.secured = TRUE, !.replayRV = 0, !.owed = 0, !.held = 0, !.committed = pos, !.relist = b]
<1>1. r.committed \in Positions(h) /\ r.committed.rv \in 0..h /\ r.replayRV \in 0..h /\ r.relist \in BOOLEAN /\ r.secured \in BOOLEAN
  BY TypesOf
<1>2. rv \in 0..h /\ b \in BOOLEAN
  BY <1>1
<1>3. mk \in 0..Created[h]
  <2>1. r.committed.mark \in 0..Created[h] /\ r.held \in 0..Created[h]
    BY TypesOf
  <2> PICK x \in 0..Created[h], y \in 0..Created[h] : x = r.committed.mark /\ y = r.held
    BY <2>1
  <2>2. x \in Nat /\ y \in Nat
    OBVIOUS
  <2>3. EX!Max({x, y}) = IF x >= y THEN x ELSE y
    BY <2>2, MaxOfTwo
  <2> QED BY <2>3
<1>4. CASE r.secured /\ r.held = 0
  <2>1. SecureReplay(r) = r
    BY <1>4 DEF SecureReplay
  <2> QED BY <1>4, <2>1 DEF SameStream
<1>5. CASE ~(r.secured /\ r.held = 0)
  <2>1. SecureReplay(r) = t
    BY <1>5 DEF SecureReplay
  <2> HIDE DEF mk, rv, b
  <2>2. pos \in Positions(h) /\ pos.rv = rv
    BY ONLY <1>2, <1>3 DEF pos, Positions
  <2>3. 0 \in 0..h /\ 0 \in 0..Created[h] /\ TRUE \in BOOLEAN /\ 0 \in Nat
    OBVIOUS
  <2> HIDE DEF pos
  <2>4. /\ t \in ReaderType(h) /\ t.secured = TRUE /\ t.owed = 0 /\ t.replayRV = 0 /\ t.committed = pos /\ t.pendingRV = r.pendingRV
        /\ t.batch = r.batch /\ t.rendered = r.rendered /\ t.seenRV = r.seenRV /\ t.replaying = r.replaying
        /\ t.from = r.from /\ t.pc = r.pc /\ t.cursor = r.cursor /\ t.walk = r.walk
    BY ONLY r \in ReaderType(h), <1>2, <2>2, <2>3 DEF ReaderType
  <2>5. t.committed.rv = rv
    BY <2>2, <2>4
  <2> HIDE DEF t
  <2> QED BY <2>1, <2>4, <2>5 DEF SameStream, rv
<1> QED BY <1>4, <1>5

\* What Advance returns.
LEMMA AdvanceIs ==
  ASSUME NEW h \in Nat, NEW r \in ReaderType(h), NEW n \in 1..h
  PROVE  LET s == Advance(r, n)
         IN  /\ s \in ReaderType(h) /\ SameStream(r, s) /\ s.pendingRV = r.pendingRV /\ s.relist = r.relist
             /\ s.secured = r.secured /\ s.owed = r.owed /\ s.replayRV = r.replayRV /\ s.held = r.held
             /\ ~r.secured => s.committed = r.committed
             /\ s.committed.mark = r.committed.mark
             /\ r.secured => s.committed.rv = IF NewerRV(n, r.committed.rv) THEN n ELSE r.committed.rv
<1>1. CASE r.secured /\ NewerRV(n, r.committed.rv)
  <2> DEFINE pos == [r.committed EXCEPT !.rv = n]
             t == [r EXCEPT !.committed = pos]
  <2>0. n \in 0..h
    OBVIOUS
  <2>1. pos \in Positions(h) /\ pos.rv = n /\ pos.mark = r.committed.mark
    <3>1. r.committed \in Positions(h) /\ r.committed.mark \in 0..Created[h]
      BY TypesOf
    <3> QED BY ONLY <2>0, <3>1 DEF pos, Positions
  <2>2. Advance(r, n) = t
    BY <1>1 DEF Advance, ReaderType
  <2> HIDE DEF pos
  <2>3. /\ t \in ReaderType(h) /\ t.secured = r.secured /\ t.owed = r.owed /\ t.replayRV = r.replayRV /\ t.committed = pos
        /\ t.pendingRV = r.pendingRV /\ t.relist = r.relist /\ t.held = r.held
        /\ t.batch = r.batch /\ t.rendered = r.rendered /\ t.seenRV = r.seenRV /\ t.replaying = r.replaying
        /\ t.from = r.from /\ t.pc = r.pc /\ t.cursor = r.cursor /\ t.walk = r.walk
    BY ONLY r \in ReaderType(h), <2>1 DEF ReaderType
  <2> HIDE DEF t
  <2> QED BY <1>1, <2>1, <2>2, <2>3 DEF SameStream
<1>2. CASE ~(r.secured /\ NewerRV(n, r.committed.rv))
  <2>1. Advance(r, n) = r
    BY <1>2 DEF Advance
  <2> QED BY <1>2, <2>1 DEF SameStream
<1> QED BY <1>1, <1>2

\* What RaiseMark returns.
LEMMA RaiseIs ==
  ASSUME head \in Nat, Created[head] \in Nat, NEW r \in ReaderType(head), NEW m \in Nat
  PROVE  LET s == RaiseMark(r, m)
         IN  /\ s \in ReaderType(head) /\ SameStream(r, s) /\ s.pendingRV = r.pendingRV /\ s.relist = r.relist
             /\ s.secured = r.secured /\ s.owed = r.owed /\ s.replayRV = r.replayRV
             /\ ~r.secured => s.committed = r.committed
             /\ s.committed.rv = r.committed.rv
<1> DEFINE mm == EX!Min({m, Now})
<1>1. mm \in 0..Created[head]
  <2>1. Now = Created[head]
    BY DEF Now
  <2>2. EX!Min({m, Created[head]}) = IF m <= Created[head] THEN m ELSE Created[head]
    BY MinOfTwo
  <2> QED BY <2>1, <2>2
<1>2. ASSUME NEW x \in 0..Created[head] PROVE EX!Max({x, mm}) \in 0..Created[head]
  <2> HIDE DEF mm
  <2>1. x \in Nat /\ mm \in Nat
    BY <1>1
  <2>2. EX!Max({x, mm}) = IF x >= mm THEN x ELSE mm
    BY <2>1, MaxOfTwo
  <2> QED BY <1>1, <2>2
<1>3. r.committed \in Positions(head) /\ r.committed.mark \in 0..Created[head] /\ r.committed.rv \in 0..head /\ r.held \in 0..Created[head]
  BY TypesOf
<1>4. CASE r.secured
  <2> DEFINE v == EX!Max({r.committed.mark, mm})
             pos == [r.committed EXCEPT !.mark = v]
             t == [r EXCEPT !.committed = pos]
  <2>1. RaiseMark(r, m) = t
    BY <1>4 DEF RaiseMark, ReaderType, Positions
  <2>2. v \in 0..Created[head]
    BY <1>2, <1>3
  <2> HIDE DEF v, mm
  <2>3. pos \in Positions(head) /\ pos.rv = r.committed.rv
    BY ONLY <1>3, <2>2 DEF pos, Positions
  <2> HIDE DEF pos
  <2>4. /\ t \in ReaderType(head) /\ t.secured = r.secured /\ t.owed = r.owed /\ t.replayRV = r.replayRV /\ t.committed = pos
        /\ t.pendingRV = r.pendingRV /\ t.relist = r.relist
        /\ t.batch = r.batch /\ t.rendered = r.rendered /\ t.seenRV = r.seenRV /\ t.replaying = r.replaying
        /\ t.from = r.from /\ t.pc = r.pc /\ t.cursor = r.cursor /\ t.walk = r.walk
    BY ONLY r \in ReaderType(head), <2>3 DEF ReaderType
  <2> HIDE DEF t
  <2> QED BY <1>4, <2>1, <2>3, <2>4 DEF SameStream
<1>5. CASE ~r.secured
  <2> DEFINE v == EX!Max({r.held, mm})
             t == [r EXCEPT !.held = v]
  <2>1. RaiseMark(r, m) = t
    BY <1>5 DEF RaiseMark, ReaderType
  <2>2. v \in 0..Created[head]
    BY <1>2, <1>3
  <2> HIDE DEF v, mm
  <2>3. /\ t \in ReaderType(head) /\ t.secured = r.secured /\ t.owed = r.owed /\ t.replayRV = r.replayRV /\ t.committed = r.committed
        /\ t.pendingRV = r.pendingRV /\ t.relist = r.relist
        /\ t.batch = r.batch /\ t.rendered = r.rendered /\ t.seenRV = r.seenRV /\ t.replaying = r.replaying
        /\ t.from = r.from /\ t.pc = r.pc /\ t.cursor = r.cursor /\ t.walk = r.walk
    BY ONLY r \in ReaderType(head), <2>2 DEF ReaderType
  <2> HIDE DEF t
  <2> QED BY <2>1, <2>3 DEF SameStream
<1> QED BY <1>4, <1>5, TypesOf

\* What ApplyPendingBookmark returns for a free position.
LEMMA ApplyIs ==
  ASSUME NEW h \in Nat, Created[h] \in Nat, NEW r \in ReaderType(h), r.secured, r.owed = 0, r.replayRV = 0
  PROVE  LET s == ApplyPendingBookmark(r)
         IN  /\ s \in ReaderType(h) /\ SameStream(r, s) /\ s.pendingRV = 0
             /\ s.secured /\ s.owed = 0 /\ s.replayRV = 0
             /\ s.committed.rv = IF NewerRV(r.pendingRV, r.committed.rv) THEN r.pendingRV ELSE r.committed.rv
<1> DEFINE rv == IF NewerRV(r.pendingRV, r.committed.rv) THEN r.pendingRV ELSE r.committed.rv
           pos == [r.committed EXCEPT !.rv = rv]
           t == [r EXCEPT !.committed = pos, !.pendingRV = 0, !.relist = FALSE]
<1>1. r.committed \in Positions(h) /\ r.committed.rv \in 0..h /\ r.pendingRV \in 0..h /\ r.committed.mark \in 0..Created[h]
  BY TypesOf
<1>2. ApplyPendingBookmark(r) = SecureReplay(t)
  BY DEF ApplyPendingBookmark, ReaderType, Positions
<1>3. rv \in 0..h
  BY <1>1
<1> HIDE DEF rv
<1>4. pos \in Positions(h) /\ pos.rv = rv
  BY ONLY <1>1, <1>3 DEF pos, Positions
<1> HIDE DEF pos
<1>5. 0 \in 0..h /\ FALSE \in BOOLEAN
  OBVIOUS
<1>6. /\ t \in ReaderType(h) /\ t.secured = r.secured /\ t.owed = r.owed /\ t.replayRV = r.replayRV /\ t.committed = pos
      /\ t.pendingRV = 0
      /\ t.batch = r.batch /\ t.rendered = r.rendered /\ t.seenRV = r.seenRV /\ t.replaying = r.replaying
      /\ t.from = r.from /\ t.pc = r.pc /\ t.cursor = r.cursor /\ t.walk = r.walk
  BY ONLY r \in ReaderType(h), <1>4, <1>5 DEF ReaderType
<1> HIDE DEF t
<1>7. t.owed = 0 /\ t.replayRV = 0 /\ t.secured /\ t.committed.rv = rv
  BY <1>4, <1>6
<1> PICK s : s = SecureReplay(t)
  OBVIOUS
<1>8. /\ s \in ReaderType(h) /\ SameStream(t, s) /\ s.pendingRV = t.pendingRV
      /\ s.secured /\ s.owed = 0 /\ s.replayRV = 0 /\ s.committed.rv = rv
  BY <1>6, <1>7, SecureIs
<1>9. SameStream(r, s)
  BY <1>6, <1>8 DEF SameStream
<1> QED BY <1>2, <1>6, <1>8, <1>9 DEF rv

\* The first c entries of a batch are done with: the position stays held, or moves.
LEMMA SettledKeeps ==
  ASSUME NEW h \in Nat, NEW r, NEW A, ReaderOK(r, A, h), NEW c \in 1..Len(r.batch), NEW B, A \subseteq B,
         \A i \in 1..c : r.batch[i] \in B, NEW s \in ReaderType(h),
         s.batch = SubSeq(r.batch, c + 1, Len(r.batch)), s.rendered = 0,
         s.seenRV = r.seenRV, s.replaying = r.replaying, s.from = r.from, s.pc = r.pc, s.cursor = r.cursor, s.walk = r.walk,
         \/ /\ ~r.secured /\ ~s.secured /\ s.committed = r.committed /\ s.pendingRV = r.pendingRV /\ (r.committed.rv = 0 => s.relist = r.relist)
            /\ s.replayRV = r.replayRV /\ s.owed = r.owed - c
         \/ /\ s.secured /\ (r.secured \/ (~r.replaying /\ s.batch = <<>>)) /\ s.owed = 0 /\ s.replayRV = 0
            /\ s.committed.rv # 0 /\ Covered(s.committed.rv, B) /\ s.pendingRV \in {0, r.pendingRV}
            /\ s.batch = <<>> => s.pendingRV = 0
  PROVE  ReaderOK(s, B, h)
<1>1. /\ r \in ReaderType(h) /\ BatchOK(r) /\ FreeOK(r, A) /\ HeldOK(r, A) /\ PositionOK(r, A) /\ StreamOK(r, A)
      /\ r.batch \in Seq(1..h) /\ Len(r.batch) \in Nat
  <2>1. /\ r \in ReaderType(h) /\ BatchOK(r) /\ FreeOK(r, A) /\ HeldOK(r, A) /\ PositionOK(r, A) /\ StreamOK(r, A)
    BY DEF ReaderOK
  <2>2. r.batch \in Seq(1..h)
    BY <2>1, TypesOf
  <2> QED BY <2>1, <2>2, EntriesOf
<1>2. /\ s.batch \in Seq(1..h) /\ Len(s.batch) = Len(r.batch) - c /\ Len(s.batch) \in Nat
      /\ \A k \in 1..Len(s.batch) : s.batch[k] = r.batch[c + k] /\ c + k \in 1..Len(r.batch)
  <2>1. c \in 0..Len(r.batch)
    BY <1>1
  <2> PICK b \in Seq(1..h) : b = r.batch
    BY <1>1
  <2> PICK t : t = SubSeq(b, c + 1, Len(b))
    OBVIOUS
  <2>2. /\ t \in Seq(1..h) /\ Len(t) = Len(b) - c
        /\ \A k \in 1..Len(t) : t[k] = b[c + k] /\ c + k \in 1..Len(b)
    <3>1. b \in Seq(1..h) /\ c \in 0..Len(b) /\ t = SubSeq(b, c + 1, Len(b))
      BY <2>1
    <3> QED BY ONLY <3>1, Remainder
  <2>3. Len(t) \in Nat
    BY <2>2
  <2>4. s.batch = t /\ r.batch = b
    OBVIOUS
  <2> QED BY ONLY <2>2, <2>3, <2>4
<1>0. /\ \A x : x \in EX!Range(r.batch) <=> \E i \in 1..Len(r.batch) : r.batch[i] = x
      /\ \A x : x \in EX!Range(s.batch) <=> \E i \in 1..Len(s.batch) : s.batch[i] = x
  <2>1. r.batch \in Seq(1..h) /\ s.batch \in Seq(1..h)
    BY <1>1, <1>2
  <2> QED BY ONLY <2>1, EntriesOf
<1>3. \A x : x \in EX!Range(s.batch) => x \in EX!Range(r.batch)
  <2> SUFFICES ASSUME NEW x, x \in EX!Range(s.batch) PROVE x \in EX!Range(r.batch)
    OBVIOUS
  <2>1. PICK k \in 1..Len(s.batch) : s.batch[k] = x
    BY <1>0
  <2>2. c + k \in 1..Len(r.batch) /\ r.batch[c + k] = x
    BY <1>2, <2>1
  <2> QED BY ONLY <1>0, <2>2
<1>4. \A x : x \in EX!Range(r.batch) => x \in B \cup EX!Range(s.batch)
  <2> SUFFICES ASSUME NEW x \in EX!Range(r.batch), x \notin B PROVE x \in EX!Range(s.batch)
    OBVIOUS
  <2>1. PICK i \in 1..Len(r.batch) : r.batch[i] = x
    BY <1>1, EntriesOf
  <2>2. i - c \in 1..Len(s.batch) /\ c + (i - c) = i
    BY <1>1, <1>2, <2>1
  <2>3. s.batch[i - c] = x
    <3>1. s.batch[i - c] = r.batch[c + (i - c)]
      BY ONLY <1>2, <2>2
    <3> QED BY ONLY <2>1, <2>2, <3>1
  <2> QED BY ONLY <1>0, <2>2, <2>3
<1>5. ASSUME NEW n, Covered(n, A \cup EX!Range(r.batch)) PROVE Covered(n, B \cup EX!Range(s.batch))
  BY <1>4, <1>5 DEF Covered
<1>6. BatchOK(s)
  <2>1. Len(r.batch) <= RetainCap /\ RetainCap \in Nat /\ \A i, j \in 1..Len(r.batch) : r.batch[i] = r.batch[j] => i = j
    BY <1>1, EventsAssumption DEF BatchOK
  <2>2. s.rendered <= Len(s.batch) /\ Len(s.batch) <= RetainCap
    BY <1>1, <1>2, <2>1
  <2>3. ASSUME NEW i \in 1..Len(s.batch), NEW j \in 1..Len(s.batch), s.batch[i] = s.batch[j] PROVE i = j
    <3>1. c + i = c + j
      BY <1>2, <2>1, <2>3
    <3> QED BY <3>1, <1>2
  <2> QED BY <2>2, <2>3 DEF BatchOK
<1>7. FreeOK(s, B)
  <2> SUFFICES ASSUME s.secured PROVE FreeOK(s, B)
    BY DEF FreeOK
  <2>1. s.owed = 0 /\ ~s.replaying /\ s.replayRV = 0
    BY <1>1 DEF FreeOK
  <2>2. ASSUME NEW k \in 1..Len(s.batch), NEW x \in 1..s.batch[k]
        PROVE  x \in B \/ \E j \in 1..k : s.batch[j] = x
    <3>1. s.batch # <<>>
      BY <1>2, <2>2, EntriesOf
    <3>2. r.secured
      BY <3>1
    <3>3. c + k \in 1..Len(r.batch) /\ s.batch[k] = r.batch[c + k]
      BY <1>2
    <3>4. x \in A \/ \E j \in 1..(c + k) : r.batch[j] = x
      BY <1>1, <3>2, <3>3 DEF FreeOK
    <3>5. CASE x \in A
      BY <3>5
    <3>6. ASSUME NEW j \in 1..(c + k), r.batch[j] = x PROVE x \in B \/ \E i \in 1..k : s.batch[i] = x
      <4>1. CASE j \in 1..c
        BY <3>6, <4>1
      <4>2. CASE j \notin 1..c
        <5>1. j - c \in 1..k /\ j - c \in 1..Len(s.batch) /\ c + (j - c) = j
          BY <1>1, <1>2, <3>3, <4>2
        <5>2. s.batch[j - c] = r.batch[j]
          BY <1>2, <5>1
        <5> QED BY <3>6, <5>1, <5>2
      <4> QED BY <4>1, <4>2
    <3> QED BY <3>4, <3>5, <3>6
  <2> QED BY <2>1, <2>2 DEF FreeOK
<1>8. HeldOK(s, B)
  <2> SUFFICES ASSUME ~s.secured PROVE HeldOK(s, B)
    BY DEF HeldOK
  <2>1. /\ ~r.secured /\ s.committed = r.committed /\ s.pendingRV = r.pendingRV /\ (r.committed.rv = 0 => s.relist = r.relist)
        /\ s.replayRV = r.replayRV /\ s.owed = r.owed - c
    OBVIOUS
  <2>2. /\ r.owed = Len(r.batch) /\ r.pendingRV = 0 /\ (r.committed.rv = 0 => r.relist \/ StartMode = "start")
        /\ ~r.replaying => /\ Covered(r.replayRV, A \cup EX!Range(r.batch)) /\ r.replayRV # 0
                           /\ EX!Range(r.batch) \subseteq 1..r.replayRV
    BY <1>1, <2>1 DEF HeldOK
  <2>3. s.owed = Len(s.batch)
    BY <1>2, <2>1, <2>2
  <2> QED BY <1>3, <1>5, <2>1, <2>2, <2>3 DEF HeldOK
<1>9. PositionOK(s, B)
  <2>1. Covered(s.committed.rv, B)
    BY <1>1 DEF PositionOK, Covered
  <2>2. Covered(s.pendingRV, B \cup EX!Range(s.batch)) /\ (s.batch = <<>> => s.pendingRV = 0)
    <3>1. CASE s.pendingRV = r.pendingRV
      <4>1. Covered(r.pendingRV, A \cup EX!Range(r.batch))
        BY <1>1 DEF PositionOK
      <4>2. s.batch = <<>> => s.pendingRV = 0
        BY <1>1 DEF HeldOK
      <4> QED BY <1>5, <3>1, <4>1, <4>2
    <3>2. CASE s.pendingRV = 0
      BY <3>2 DEF Covered
    <3> QED BY <3>1, <3>2
  <2>3. Cold(s) /\ s.seenRV # 0 => Covered(s.seenRV, B \cup EX!Range(s.batch)) /\ EX!Range(s.batch) \subseteq 1..s.seenRV
    <3>1. Cold(s) => s.committed.rv = 0
      BY DEF Cold
    <3>2. Cold(s) => Cold(r)
      BY <3>1 DEF Cold
    <3>3. Cold(r) /\ r.seenRV # 0 => Covered(r.seenRV, A \cup EX!Range(r.batch)) /\ EX!Range(r.batch) \subseteq 1..r.seenRV
      BY <1>1 DEF PositionOK
    <3> QED BY <1>3, <1>5, <3>2, <3>3
  <2> QED BY <2>1, <2>2, <2>3 DEF PositionOK
<1>10. StreamOK(s, B)
  <2>1. s.pc \in {"list", "walk"} => /\ s.replaying /\ ~s.secured
                                     /\ s.from = IF s.committed.mark = 0 THEN 0 ELSE s.committed.mark - Slack
    BY <1>1 DEF StreamOK
  <2>2. s.pc = "list" => s.batch = <<>>
    <3>1. r.pc = "list" => r.batch = <<>>
      BY <1>1 DEF StreamOK
    <3>2. r.batch # <<>>
      BY <1>1, EntriesOf
    <3> QED BY <3>1, <3>2
  <2>3. s.pc = "walk" => /\ Covered(s.replayRV, B \cup EX!Range(s.batch) \cup s.walk) /\ s.replayRV # 0
                         /\ EX!Range(s.batch) \cup s.walk \subseteq 1..s.replayRV /\ EX!Range(s.batch) \cap s.walk = {}
    <3> SUFFICES ASSUME s.pc = "walk" PROVE /\ Covered(s.replayRV, B \cup EX!Range(s.batch) \cup s.walk) /\ s.replayRV # 0
                         /\ EX!Range(s.batch) \cup s.walk \subseteq 1..s.replayRV /\ EX!Range(s.batch) \cap s.walk = {}
      OBVIOUS
    <3>1. /\ Covered(r.replayRV, A \cup EX!Range(r.batch) \cup r.walk) /\ r.replayRV # 0
          /\ EX!Range(r.batch) \cup r.walk \subseteq 1..r.replayRV /\ EX!Range(r.batch) \cap r.walk = {}
      BY <1>1 DEF StreamOK
    <3>2. s.replayRV = r.replayRV /\ s.walk = r.walk
      BY <2>1
    <3> QED BY <1>3, <1>4, <3>1, <3>2 DEF Covered
  <2>4. s.pc \in {"list", "walk", "tail"} /\ ~s.secured => s.committed.rv = 0
    BY <1>1 DEF StreamOK
  <2>5. s.pc \in {"tail", "open", "watch"} => /\ ~s.replaying /\ Covered(s.cursor, B \cup EX!Range(s.batch)) /\ s.cursor # 0
                                              /\ EX!Range(s.batch) \subseteq 1..s.cursor
    <3>1. r.pc \in {"tail", "open", "watch"} => /\ ~r.replaying /\ Covered(r.cursor, A \cup EX!Range(r.batch)) /\ r.cursor # 0
                                                /\ EX!Range(r.batch) \subseteq 1..r.cursor
      BY <1>1 DEF StreamOK
    <3> QED BY <1>3, <1>5, <3>1
  <2>6. s.pc \in {"open", "watch"} => s.secured
    BY <1>1 DEF StreamOK
  <2> QED BY <2>1, <2>2, <2>3, <2>4, <2>5, <2>6 DEF StreamOK
<1> QED BY <1>6, <1>7, <1>8, <1>9, <1>10 DEF ReaderOK

\* The first c events of the batch, with a newest one and a latest timestamp.
PayloadOf(P, b, c, h) ==
  /\ \A x : x \in P <=> \E i \in 1..c : b[i] = x
  /\ P \subseteq 1..h /\ EX!Max(P) \in P /\ EX!Max(P) \in 1..h /\ \A i \in 1..c : b[i] <= EX!Max(P)
  /\ EX!Max({Ts[e] : e \in P}) \in Nat

\* A payload is of that kind.
LEMMA PayloadIs ==
  ASSUME ServerOK, NEW b \in Seq(1..head), NEW c \in 1..Len(b), NEW P, P = EX!Range(SubSeq(b, 1, c))
  PROVE  PayloadOf(P, b, c, head)
<1>1. Len(b) \in Nat /\ \A i \in 1..Len(b) : b[i] \in 1..head
  BY ONLY b \in Seq(1..head), EntriesOf
<1>2. \A x : x \in P <=> \E i \in 1..c : b[i] = x
  <2>1. c \in 0..Len(b)
    BY <1>1
  <2> PICK t : t = SubSeq(b, 1, c)
    OBVIOUS
  <2>2. \A x : x \in EX!Range(t) <=> \E i \in 1..c : b[i] = x
    BY <2>1, Leaders
  <2> QED BY <2>2
<1>3. P \subseteq 1..head /\ P # {}
  <2>1. \A i \in 1..c : i \in 1..Len(b)
    BY <1>1
  <2>2. 1 \in 1..c
    BY <1>1
  <2> QED BY <1>1, <1>2, <2>1, <2>2
<1>4. head \in Nat /\ P \in SUBSET (0..head)
  BY <1>3, HeadFacts
<1>5. EX!Max(P) \in P /\ \A y \in P : EX!Max(P) >= y
  BY <1>3, <1>4, LargestUpTo
<1>6. \A i \in 1..c : b[i] <= EX!Max(P)
  <2> SUFFICES ASSUME NEW i \in 1..c PROVE b[i] <= EX!Max(P)
    OBVIOUS
  <2>1. b[i] \in P
    BY <1>2
  <2>2. b[i] \in Int /\ EX!Max(P) \in Int /\ EX!Max(P) >= b[i]
    BY <1>3, <1>5, <2>1
  <2> QED BY <2>2
<1>7. EX!Max({Ts[e] : e \in P}) \in Nat
  <2> DEFINE T == {Ts[e] : e \in P}
  <2>1. PICK n \in Nat : \A e \in 1..MaxRV : Ts[e] <= n
    BY StampsBounded
  <2>2. \A e \in P : Ts[e] \in 0..n
    BY <1>3, <2>1, HeadFacts
  <2>3. T \in SUBSET (0..n) /\ T # {}
    BY <1>3, <2>2
  <2> HIDE DEF T
  <2>4. EX!Max(T) \in T
    BY <2>3, LargestUpTo
  <2>5. EX!Max(T) \in 0..n
    BY ONLY <2>3, <2>4
  <2>6. \A x \in 0..n : x \in Nat
    OBVIOUS
  <2> QED BY <2>5, <2>6 DEF T
<1>8. EX!Max(P) \in 1..head
  BY <1>3, <1>5
<1> QED BY ONLY <1>2, <1>3, <1>5, <1>6, <1>7, <1>8 DEF PayloadOf

\* A payload that is done with: what Settle leaves satisfies the invariant.
LEMMA SettleIs ==
  ASSUME ServerOK, NEW r, NEW A, ReaderOK(r, A, head), r.rendered \in 1..Len(r.batch), NEW B, A \subseteq B, Payload(r) \subseteq B
  PROVE  LET s == Settle(r)
         IN  /\ ReaderOK(s, B, head) /\ s.batch = SubSeq(r.batch, r.rendered + 1, Len(r.batch))
             /\ s.pc = r.pc /\ s.cursor = r.cursor
             /\ r.secured => \A i \in 1..r.rendered : r.batch[i] <= s.committed.rv
<1>h. PICK h \in Nat : h = head
  BY HeadFacts
<1>1. /\ r \in ReaderType(h) /\ BatchOK(r) /\ FreeOK(r, A) /\ HeldOK(r, A) /\ PositionOK(r, A) /\ StreamOK(r, A)
      /\ r.batch \in Seq(1..h) /\ Created[h] \in Nat /\ Now = Created[h]
  <2>1. r \in ReaderType(h) /\ BatchOK(r) /\ FreeOK(r, A) /\ HeldOK(r, A) /\ PositionOK(r, A) /\ StreamOK(r, A)
    BY <1>h DEF ReaderOK
  <2>2. r.batch \in Seq(1..h)
    BY <1>h, <2>1, TypesOf
  <2> QED BY <1>h, <2>1, <2>2, HeadFacts
<1>t. /\ r.committed.rv \in 0..h /\ r.pendingRV \in 0..h /\ r.replayRV \in 0..h /\ r.owed \in Nat /\ r.secured \in BOOLEAN
      /\ r.relist \in BOOLEAN /\ r.rendered \in Nat
  BY <1>h, <1>1, TypesOf
<1>b. PICK b \in Seq(1..h) : b = r.batch
  BY <1>1
<1>n. PICK n \in Nat : n = Len(b)
  BY <1>b
<1>c. PICK c \in Nat : c = r.rendered /\ c \in 1..n /\ c \in 0..n /\ c \in 0..Len(b) /\ c \in 1..Len(b)
  BY <1>b, <1>n, <1>t
<1>3. Payload(r) = EX!Range(SubSeq(b, 1, c))
  <2>1. Render(r) = r
    BY <1>c, <1>t DEF Render
  <2> QED BY <2>1, <1>b, <1>c DEF Payload
<1>P. PICK P : P = Payload(r)
  OBVIOUS
<1>4. /\ \A x : x \in P <=> \E i \in 1..c : b[i] = x
      /\ P \subseteq 1..h /\ EX!Max(P) \in P /\ EX!Max(P) \in 1..h /\ \A i \in 1..c : b[i] <= EX!Max(P)
      /\ EX!Max({Ts[e] : e \in P}) \in Nat
  <2>1. b \in Seq(1..head)
    BY ONLY <1>b, <1>h
  <2>3. c \in 1..Len(b)
    BY ONLY <1>c
  <2>4. P = EX!Range(SubSeq(b, 1, c))
    BY ONLY <1>3, <1>P
  <2>2. PayloadOf(P, b, c, head)
    BY ONLY ServerOK, <2>1, <2>3, <2>4, PayloadIs
  <2> QED BY ONLY <1>h, <2>2 DEF PayloadOf
<1>mx. PICK mx \in 1..h : mx = EX!Max(P)
  BY <1>4
<1>tm. PICK tm \in Nat : tm = EX!Max({Ts[e] : e \in P})
  BY <1>4
<1>ret. PICK ret \in Seq(1..h) : ret = SubSeq(b, c + 1, Len(b)) /\ Len(ret) = n - c
  <2>1. SubSeq(b, c + 1, Len(b)) \in Seq(1..h) /\ Len(SubSeq(b, c + 1, Len(b))) = Len(b) - c
    BY ONLY <1>b, <1>c, Remainder
  <2> QED BY ONLY <1>n, <2>1
<1>re. ret = <<>> <=> c = n
  <2>1. ret = <<>> <=> Len(ret) = 0
    BY ONLY <1>ret, EntriesOf
  <2>2. Len(ret) = n - c /\ n \in Nat /\ c \in Nat
    BY ONLY <1>ret, <1>c, <1>n
  <2> QED BY ONLY <2>1, <2>2
<1>5. PICK w \in Nat : /\ w = r.owed - EX!Min({c, r.owed})
                       /\ r.secured => w = 0
                       /\ ~r.secured => w = r.owed - c /\ w = n - c
  <2>1. r.owed \in Nat /\ (r.secured => r.owed = 0) /\ (~r.secured => r.owed = n)
    BY <1>1, <1>t, <1>b, <1>n DEF FreeOK, HeldOK
  <2>o. PICK o \in Nat : o = r.owed
    BY <2>1
  <2>2. EX!Min({c, o}) = IF c <= o THEN c ELSE o
    BY ONLY <1>c, <2>o, MinOfTwo
  <2>3. o - EX!Min({c, o}) \in Nat /\ (o = 0 => o - EX!Min({c, o}) = 0) /\ (o = n => o - EX!Min({c, o}) = o - c /\ o - c = n - c)
    BY ONLY <1>c, <1>n, <2>o, <2>2
  <2> QED BY ONLY <2>1, <2>3, <2>o
<1>l. PICK left : left = [r EXCEPT !.batch = ret, !.rendered = 0, !.owed = w]
  OBVIOUS
<1>6. /\ left \in ReaderType(h) /\ left.batch = ret /\ left.rendered = 0 /\ left.owed = w /\ left.secured = r.secured
      /\ left.committed = r.committed /\ left.pendingRV = r.pendingRV /\ left.seenRV = r.seenRV /\ left.relist = r.relist
      /\ left.replaying = r.replaying /\ left.replayRV = r.replayRV /\ left.from = r.from /\ left.pc = r.pc
      /\ left.cursor = r.cursor /\ left.walk = r.walk
  <2>1. r \in ReaderType(h) /\ 0 \in Nat /\ w \in Nat /\ ret \in Seq(1..h)
    BY <1>1, <1>5, <1>ret
  <2> QED BY ONLY <2>1, <1>l DEF ReaderType
<1>f. PICK freed : freed = MaybeSecureReplay(left)
  OBVIOUS
<1>m. PICK moved : moved = Advance(freed, mx)
  OBVIOUS
<1>k. PICK marked : marked = IF moved.pendingRV # 0 /\ ret = <<>> THEN ApplyPendingBookmark(moved) ELSE moved
  OBVIOUS
<1>d. PICK done : done = RaiseMark(marked, tm)
  OBVIOUS
<1>s. PICK s : s = [done EXCEPT !.relist = done.relist /\ done.committed.rv = 0]
  OBVIOUS
<1>7. Settle(r) = s
  <2>1. ret = SubSeq(r.batch, r.rendered + 1, Len(r.batch))
    BY ONLY <1>ret, <1>b, <1>c
  <2>2. left = [r EXCEPT !.batch = ret, !.rendered = 0, !.owed = @ - EX!Min({r.rendered, @})]
    <3>1. left = [r EXCEPT !.batch = ret, !.rendered = 0, !.owed = r.owed - EX!Min({r.rendered, r.owed})]
      BY ONLY <1>l, <1>5, <1>c
    <3> QED BY ONLY <3>1, <1>1 DEF ReaderType
  <2>3. marked.pendingRV = marked.pendingRV
    OBVIOUS
  <2>4. s = [done EXCEPT !.relist = @ /\ done.committed.rv = 0]
    BY ONLY <1>s
  <2> QED BY ONLY <2>1, <2>2, <2>4, <1>f, <1>m, <1>k, <1>d, <1>mx, <1>tm, <1>P, <1>c DEF Settle
<1>8. \A i \in 1..c : b[i] \in B
  BY <1>4, <1>P
<1>9. CASE ~r.secured /\ (r.replaying \/ ret # <<>>)
  <2>1. freed = left
    <3>1. ret # <<>> => w > 0
      BY ONLY <1>5, <1>9, <1>re, <1>c, <1>n
    <3> QED BY ONLY <1>f, <1>6, <1>9, <3>1 DEF MaybeSecureReplay
  <2>2. r.pendingRV = 0
    BY ONLY <1>1, <1>9 DEF HeldOK
  <2>3. /\ moved \in ReaderType(h) /\ SameStream(left, moved) /\ moved.pendingRV = 0 /\ moved.relist = r.relist /\ ~moved.secured
        /\ moved.owed = w /\ moved.replayRV = r.replayRV /\ moved.committed = r.committed
    <3>1. left \in ReaderType(h) /\ h \in Nat /\ mx \in 1..h /\ moved = Advance(left, mx)
      BY ONLY <1>6, <1>m, <1>h, <1>mx, <2>1
    <3>2. /\ moved \in ReaderType(h) /\ SameStream(left, moved) /\ moved.pendingRV = left.pendingRV /\ moved.relist = left.relist
          /\ moved.secured = left.secured /\ moved.owed = left.owed /\ moved.replayRV = left.replayRV
          /\ (~left.secured => moved.committed = left.committed)
      BY ONLY <3>1, AdvanceIs
    <3> QED BY ONLY <1>6, <1>9, <2>2, <3>2
  <2>4. marked = moved
    BY ONLY <2>3, <1>k
  <2>5. /\ done \in ReaderType(h) /\ SameStream(moved, done) /\ done.pendingRV = 0 /\ done.relist = r.relist /\ ~done.secured
        /\ done.owed = w /\ done.replayRV = r.replayRV /\ done.committed = r.committed
    <3>1. head \in Nat /\ Created[head] \in Nat /\ moved \in ReaderType(head) /\ tm \in Nat /\ done = RaiseMark(moved, tm)
      BY ONLY <1>1, <1>h, <1>tm, <1>d, <2>3, <2>4
    <3>2. /\ done \in ReaderType(head) /\ SameStream(moved, done) /\ done.pendingRV = moved.pendingRV /\ done.relist = moved.relist
          /\ done.secured = moved.secured /\ done.owed = moved.owed /\ done.replayRV = moved.replayRV
          /\ (~moved.secured => done.committed = moved.committed)
      BY ONLY <3>1, RaiseIs
    <3> QED BY ONLY <1>h, <2>3, <3>2
  <2>v. PICK v \in BOOLEAN : v = (done.relist /\ done.committed.rv = 0)
    OBVIOUS
  <2>6. r.committed.rv = 0 => v = r.relist
    BY ONLY <1>t, <2>5, <2>v
  <2>7. s = [done EXCEPT !.relist = v]
    BY ONLY <1>s, <2>v
  <2>8. /\ s \in ReaderType(h) /\ SameStream(done, s) /\ s.pendingRV = done.pendingRV /\ s.relist = v /\ s.secured = done.secured
        /\ s.owed = done.owed /\ s.replayRV = done.replayRV /\ s.committed = done.committed
    <3>1. done \in ReaderType(h) /\ v \in BOOLEAN
      BY ONLY <2>5, <2>v
    <3> QED BY ONLY <3>1, <2>7 DEF ReaderType, SameStream
  <2>9. /\ s.batch = ret /\ s.rendered = 0 /\ s.seenRV = r.seenRV /\ s.replaying = r.replaying
        /\ s.from = r.from /\ s.pc = r.pc /\ s.cursor = r.cursor /\ s.walk = r.walk
    BY ONLY <1>6, <2>3, <2>5, <2>8 DEF SameStream
  <2>10. /\ ~s.secured /\ s.committed = r.committed /\ s.pendingRV = r.pendingRV /\ (r.committed.rv = 0 => s.relist = r.relist)
         /\ s.replayRV = r.replayRV /\ s.owed = r.owed - c
    BY ONLY <1>5, <1>9, <2>2, <2>5, <2>6, <2>8
  <2>11. ReaderOK(s, B, h)
    <3>1. ReaderOK(r, A, h) /\ c \in 1..Len(r.batch) /\ A \subseteq B /\ \A i \in 1..c : r.batch[i] \in B
      BY <1>h, <1>b, <1>c, <1>8
    <3>2. s \in ReaderType(h) /\ s.batch = SubSeq(r.batch, c + 1, Len(r.batch)) /\ ~r.secured /\ h \in Nat
      BY ONLY <1>9, <1>b, <1>ret, <1>h, <2>8, <2>9
    <3> QED BY ONLY <2>9, <2>10, <3>1, <3>2, SettledKeeps
  <2>12. s.batch = SubSeq(r.batch, r.rendered + 1, Len(r.batch)) /\ ReaderOK(s, B, head)
    BY ONLY <1>b, <1>c, <1>ret, <1>h, <2>9, <2>11
  <2> QED BY ONLY <1>7, <1>9, <2>9, <2>12
<1>10. CASE r.secured \/ (~r.replaying /\ ret = <<>>)
  <2>a. ret = <<>> => EX!Range(b) \subseteq B
    <3> SUFFICES ASSUME ret = <<>>, NEW x \in EX!Range(b) PROVE x \in B
      OBVIOUS
    <3>1. PICK i \in 1..Len(b) : b[i] = x
      BY <1>b, EntriesOf
    <3>2. i \in 1..c
      BY <1>re, <1>n, <3>1
    <3> QED BY <1>8, <3>1, <3>2
  <2>1. /\ freed \in ReaderType(h) /\ SameStream(left, freed) /\ freed.pendingRV = r.pendingRV
        /\ freed.secured /\ freed.owed = 0 /\ freed.replayRV = 0 /\ Covered(freed.committed.rv, B)
    <3>0. Covered(r.committed.rv, B)
      BY <1>1 DEF PositionOK, Covered
    <3>1. CASE r.secured
      <4>1. freed = left
        BY ONLY <1>f, <1>6, <3>1 DEF MaybeSecureReplay
      <4>2. r.replayRV = 0 /\ w = 0
        BY ONLY <1>1, <1>5, <3>1 DEF FreeOK
      <4> QED BY ONLY <1>6, <3>1, <4>1, <4>2, <3>0 DEF SameStream
    <3>2. CASE ~r.secured /\ ~r.replaying /\ ret = <<>>
      <4>1. w = 0
        BY ONLY <1>5, <3>2, <1>re, <1>c, <1>n
      <4>2. freed = SecureReplay(left)
        BY ONLY <1>f, <1>6, <3>2, <4>1 DEF MaybeSecureReplay
      <4>3. /\ freed \in ReaderType(h) /\ SameStream(left, freed) /\ freed.pendingRV = left.pendingRV
            /\ freed.secured /\ freed.owed = 0 /\ freed.replayRV = 0
            /\ freed.committed.rv = IF left.replayRV # 0 /\ NewerRV(left.replayRV, left.committed.rv)
                                    THEN left.replayRV ELSE left.committed.rv
        <5>1. left.secured => left.owed = 0 /\ left.replayRV = 0
          BY ONLY <1>6, <3>2
        <5>2. h \in Nat /\ Created[h] \in Nat /\ left \in ReaderType(h)
          BY ONLY <1>1, <1>6, <1>h
        <5> QED BY ONLY <4>2, <5>1, <5>2, SecureIs
      <4>5. Covered(r.replayRV, B)
        <5>1. Covered(r.replayRV, A \cup EX!Range(b))
          BY <1>1, <1>b, <3>2 DEF HeldOK
        <5> QED BY <5>1, <2>a, <3>2 DEF Covered
      <4> QED BY ONLY <1>6, <4>3, <3>0, <4>5
    <3> QED BY ONLY <1>10, <3>1, <3>2
  <2>2. Covered(mx, B)
    <3>1. PICK i \in 1..c : b[i] = mx
      BY ONLY <1>4, <1>mx
    <3>2. i \in 1..n
      BY ONLY <1>c, <1>n, <3>1
    <3>3. CASE r.secured
      <4>1. \A x \in 1..b[i] : x \in A \/ \E j \in 1..i : b[j] = x
        BY ONLY <1>1, <1>b, <1>n, <3>2, <3>3 DEF FreeOK
      <4>2. \A j \in 1..i : j \in 1..c
        BY ONLY <1>c, <3>1
      <4> QED BY <1>8, <3>1, <4>1, <4>2 DEF Covered
    <3>4. CASE ~r.secured
      <4>1. ~r.replaying /\ ret = <<>>
        BY ONLY <1>10, <3>4
      <4>2. Covered(r.replayRV, A \cup EX!Range(b)) /\ EX!Range(b) \subseteq 1..r.replayRV /\ r.replayRV \in Nat
        BY ONLY <1>1, <1>b, <1>t, <3>4, <4>1, <1>h DEF HeldOK
      <4>4. mx \in EX!Range(b)
        BY ONLY <3>1, <3>2, <1>n, <1>b, EntriesOf
      <4>5. 1..mx \subseteq 1..r.replayRV
        BY ONLY <4>2, <4>4, <1>mx
      <4> QED BY <2>a, <4>1, <4>2, <4>5 DEF Covered
    <3> QED BY ONLY <3>3, <3>4
  <2>3. /\ moved \in ReaderType(h) /\ SameStream(freed, moved) /\ moved.pendingRV = r.pendingRV /\ moved.secured
        /\ moved.owed = 0 /\ moved.replayRV = 0
        /\ moved.committed.rv = IF NewerRV(mx, freed.committed.rv) THEN mx ELSE freed.committed.rv
    <3>1. h \in Nat /\ freed \in ReaderType(h) /\ mx \in 1..h /\ moved = Advance(freed, mx)
      BY ONLY <1>h, <1>mx, <1>m, <2>1
    <3>2. /\ moved \in ReaderType(h) /\ SameStream(freed, moved) /\ moved.pendingRV = freed.pendingRV
          /\ moved.secured = freed.secured /\ moved.owed = freed.owed /\ moved.replayRV = freed.replayRV
          /\ (freed.secured => moved.committed.rv = IF NewerRV(mx, freed.committed.rv) THEN mx ELSE freed.committed.rv)
      BY ONLY <3>1, AdvanceIs
    <3> QED BY ONLY <2>1, <3>2
  <2>ty. freed.committed.rv \in 0..h /\ moved.committed.rv \in 0..h /\ moved.pendingRV \in 0..h
    <3>1. h \in Nat /\ freed \in ReaderType(h) /\ moved \in ReaderType(h)
      BY ONLY <1>h, <2>1, <2>3
    <3> QED BY ONLY <3>1, TypesOf
  <2>4. Covered(moved.committed.rv, B) /\ mx <= moved.committed.rv
    <3>1. CASE NewerRV(mx, freed.committed.rv)
      BY ONLY <2>2, <2>3, <3>1, <1>mx, <1>h
    <3>2. CASE ~NewerRV(mx, freed.committed.rv)
      BY ONLY <2>1, <2>3, <2>ty, <3>2, <1>mx, <1>h DEF NewerRV
    <3> QED BY ONLY <3>1, <3>2
  <2>5. /\ marked \in ReaderType(h) /\ SameStream(moved, marked) /\ marked.pendingRV \in {0, r.pendingRV} /\ marked.secured
        /\ marked.owed = 0 /\ marked.replayRV = 0 /\ Covered(marked.committed.rv, B) /\ mx <= marked.committed.rv
        /\ ret = <<>> => marked.pendingRV = 0
    <3>1. CASE moved.pendingRV # 0 /\ ret = <<>>
      <4>1. marked = ApplyPendingBookmark(moved)
        BY ONLY <1>k, <3>1
      <4>2. /\ marked \in ReaderType(h) /\ SameStream(moved, marked) /\ marked.pendingRV = 0
            /\ marked.secured /\ marked.owed = 0 /\ marked.replayRV = 0
            /\ marked.committed.rv = IF NewerRV(moved.pendingRV, moved.committed.rv) THEN moved.pendingRV ELSE moved.committed.rv
        BY ONLY <1>1, <1>h, <2>3, <4>1, ApplyIs
      <4>3. Covered(moved.pendingRV, B)
        <5>1. Covered(r.pendingRV, A \cup EX!Range(b))
          BY <1>1, <1>b DEF PositionOK
        <5> QED BY <2>3, <5>1, <2>a, <3>1 DEF Covered
      <4>5. Covered(marked.committed.rv, B) /\ mx <= marked.committed.rv
        <5>1. CASE NewerRV(moved.pendingRV, moved.committed.rv)
          <6>1. mx <= moved.pendingRV
            BY ONLY <2>4, <2>ty, <1>mx, <1>h, <5>1 DEF NewerRV
          <6> QED BY ONLY <4>2, <4>3, <5>1, <6>1
        <5>2. CASE ~NewerRV(moved.pendingRV, moved.committed.rv)
          BY ONLY <4>2, <2>4, <5>2
        <5> QED BY ONLY <5>1, <5>2
      <4> QED BY ONLY <4>2, <4>5
    <3>2. CASE ~(moved.pendingRV # 0 /\ ret = <<>>)
      <4>1. marked = moved
        BY ONLY <1>k, <3>2
      <4> QED BY ONLY <2>3, <2>4, <3>2, <4>1 DEF SameStream
    <3> QED BY ONLY <3>1, <3>2
  <2>6. /\ done \in ReaderType(h) /\ SameStream(marked, done) /\ done.pendingRV = marked.pendingRV /\ done.secured
        /\ done.owed = 0 /\ done.replayRV = 0 /\ done.committed.rv = marked.committed.rv
    <3>1. head \in Nat /\ Created[head] \in Nat /\ marked \in ReaderType(head) /\ tm \in Nat /\ done = RaiseMark(marked, tm)
      BY ONLY <1>1, <1>h, <1>tm, <1>d, <2>5
    <3>2. /\ done \in ReaderType(head) /\ SameStream(marked, done) /\ done.pendingRV = marked.pendingRV
          /\ done.secured = marked.secured /\ done.owed = marked.owed /\ done.replayRV = marked.replayRV
          /\ done.committed.rv = marked.committed.rv
      BY ONLY <3>1, RaiseIs
    <3> QED BY ONLY <1>h, <2>5, <3>2
  <2>v. PICK v \in BOOLEAN : v = (done.relist /\ done.committed.rv = 0)
    OBVIOUS
  <2>7. s = [done EXCEPT !.relist = v]
    BY ONLY <1>s, <2>v
  <2>8. /\ s \in ReaderType(h) /\ SameStream(done, s) /\ s.pendingRV = done.pendingRV /\ s.secured = done.secured
        /\ s.owed = done.owed /\ s.replayRV = done.replayRV /\ s.committed = done.committed
    <3>1. done \in ReaderType(h) /\ v \in BOOLEAN
      BY ONLY <2>6, <2>v
    <3> QED BY ONLY <3>1, <2>7 DEF ReaderType, SameStream
  <2>9. /\ s.batch = ret /\ s.rendered = 0 /\ s.seenRV = r.seenRV /\ s.replaying = r.replaying
        /\ s.from = r.from /\ s.pc = r.pc /\ s.cursor = r.cursor /\ s.walk = r.walk
    BY ONLY <1>6, <2>1, <2>3, <2>5, <2>6, <2>8 DEF SameStream
  <2>10. /\ s.secured /\ s.owed = 0 /\ s.replayRV = 0 /\ Covered(s.committed.rv, B) /\ mx <= s.committed.rv
         /\ s.pendingRV \in {0, r.pendingRV} /\ (ret = <<>> => s.pendingRV = 0)
    BY ONLY <2>5, <2>6, <2>8
  <2>11. s.committed.rv # 0 /\ s.committed.rv \in 0..h
    <3>1. s.committed.rv \in 0..h
      BY ONLY <1>h, <2>8, TypesOf
    <3> QED BY ONLY <1>mx, <1>h, <2>10, <3>1
  <2>12. ReaderOK(s, B, h)
    <3>1. ReaderOK(r, A, h) /\ c \in 1..Len(r.batch) /\ A \subseteq B /\ \A i \in 1..c : r.batch[i] \in B
      BY <1>h, <1>b, <1>c, <1>8
    <3>2. s \in ReaderType(h) /\ s.batch = SubSeq(r.batch, c + 1, Len(r.batch)) /\ (s.batch = <<>> => s.pendingRV = 0) /\ h \in Nat
      BY ONLY <1>b, <1>ret, <1>h, <2>8, <2>9, <2>10
    <3>3. r.secured \/ (~r.replaying /\ s.batch = <<>>)
      BY ONLY <1>10, <2>9
    <3> QED BY ONLY <2>9, <2>10, <2>11, <3>1, <3>2, <3>3, SettledKeeps
  <2>13. \A i \in 1..r.rendered : r.batch[i] <= s.committed.rv
    <3>1. ASSUME NEW i \in 1..c PROVE b[i] <= s.committed.rv
      <4>1. i \in 1..n
        BY <1>c, <1>n
      <4>2. b[i] \in 1..h
        BY <1>b, <1>n, <4>1
      <4>3. b[i] <= mx
        BY <1>4, <1>mx
      <4> QED BY ONLY <2>10, <2>11, <4>2, <4>3, <1>mx, <1>h
    <3> QED BY ONLY <3>1, <1>b, <1>c
  <2>14. s.batch = SubSeq(r.batch, r.rendered + 1, Len(r.batch)) /\ ReaderOK(s, B, head)
    BY ONLY <1>b, <1>c, <1>ret, <1>h, <2>9, <2>12
  <2> QED BY ONLY <1>7, <2>9, <2>13, <2>14
<1> QED BY ONLY <1>t, <1>9, <1>10

-----------------------------------------------------------------------------
(* An export attempt.                                                        *)

\* An export attempt: the batch stays, or its payload is settled.
LEMMA FlushIs ==
  ASSUME ServerOK, NEW r, NEW A, ReaderOK(r, A, head), r.batch # <<>>, NEW o \in Outcomes, NEW B, A \subseteq B,
         o # "down" => Payload(r) \subseteq B
  PROVE  /\ ReaderOK(Flush(r, o), B, head) /\ Flush(r, o).pc = r.pc /\ Flush(r, o).cursor = r.cursor
         /\ r.secured /\ Flush(r, o).batch = <<>> => \A e \in EX!Range(r.batch) : e <= Flush(r, o).committed.rv
<1>h. PICK h \in Nat : h = head
  BY HeadFacts
<1>q. PICK q : q = Render(r)
  OBVIOUS
<1>1. /\ ReaderOK(q, A, h) /\ q.rendered \in 1..Len(r.batch) /\ q.batch = r.batch /\ Payload(q) = Payload(r)
      /\ q.pc = r.pc /\ q.cursor = r.cursor /\ q.secured = r.secured
  <2>1. h \in Nat /\ ReaderOK(r, A, h) /\ r.batch # <<>>
    BY <1>h
  <2> QED BY ONLY <1>q, <2>1, RenderIs
<1>2. CASE o = "down"
  <2>1. Flush(r, o) = q
    BY ONLY <1>q, <1>2 DEF Flush
  <2>2. ReaderOK(q, B, h)
    BY ONLY <1>1, A \subseteq B, MoreDone
  <2> QED BY <1>1, <1>h, <2>1, <2>2
<1>3. CASE o # "down"
  <2>s. PICK s : s = Settle(q)
    OBVIOUS
  <2>1. Flush(r, o) = s
    BY ONLY <1>q, <1>3, <2>s DEF Flush
  <2>2. ReaderOK(q, A, head) /\ q.rendered \in 1..Len(q.batch) /\ A \subseteq B /\ Payload(q) \subseteq B
    BY <1>1, <1>3, <1>h
  <2>3. /\ ReaderOK(s, B, head) /\ s.batch = SubSeq(q.batch, q.rendered + 1, Len(q.batch))
        /\ s.pc = q.pc /\ s.cursor = q.cursor
        /\ q.secured => \A i \in 1..q.rendered : q.batch[i] <= s.committed.rv
    BY ONLY ServerOK, <2>s, <2>2, SettleIs
  <2>4. ASSUME r.secured, s.batch = <<>>, NEW e \in EX!Range(r.batch) PROVE e <= s.committed.rv
    <3>b. PICK b \in Seq(1..h) : b = r.batch
      <4>1. r \in ReaderType(h)
        BY <1>h DEF ReaderOK
      <4> QED BY <1>h, <4>1, TypesOf
    <3>c. PICK c \in 1..Len(b) : c = q.rendered
      BY ONLY <1>1, <3>b
    <3>1. Len(b) \in Nat /\ \E i \in 1..Len(b) : b[i] = e
      BY <3>b, EntriesOf
    <3>2. PICK i \in 1..Len(b) : b[i] = e
      BY <3>1
    <3>3. c = Len(b)
      <4>1. c \in 0..Len(b)
        BY ONLY <3>1, <3>c
      <4>2. Len(SubSeq(b, c + 1, Len(b))) = Len(b) - c
        BY ONLY <3>b, <4>1, Remainder
      <4>3. SubSeq(b, c + 1, Len(b)) = <<>>
        BY ONLY <1>1, <2>3, <2>4, <3>b, <3>c
      <4>4. Len(b) - c = 0
        BY ONLY <4>2, <4>3, NoEntries
      <4> QED BY ONLY <3>1, <4>1, <4>4
    <3> QED BY ONLY <1>1, <2>3, <2>4, <3>b, <3>c, <3>2, <3>3
  <2> QED BY ONLY <1>1, <2>1, <2>3, <2>4
<1> QED BY <1>2, <1>3

\* The other readers see more accounted for.
LEMMA OneReaderMoves ==
  ASSUME EventsInv, ServerOK', head' = head, NEW p \in Replicas, NEW s, reader' = [reader EXCEPT ![p] = s],
         ReaderOK(s, Accounted', head), (p \in leader') <=> s.pc # "off", Accounted \subseteq Accounted',
         \A q \in Replicas : q # p => (q \in leader' <=> q \in leader)
  PROVE  EventsInv' /\ reader'[p] = s
<1>1. reader'[p] = s /\ \A q \in Replicas : q # p => reader'[q] = reader[q]
  BY DEF EventsInv
<1>2. reader' = [q \in Replicas |-> reader'[q]]
  BY DEF EventsInv
<1>3. ASSUME NEW q \in Replicas PROVE ReaderOK(reader'[q], Accounted', head') /\ (q \in leader' <=> reader'[q].pc # "off")
  <2>1. CASE q = p
    BY <1>1, <2>1
  <2>2. CASE q # p
    <3>1. ReaderOK(reader[q], Accounted, head) /\ (q \in leader <=> reader[q].pc # "off")
      BY DEF EventsInv
    <3>2. ReaderOK(reader[q], Accounted', head)
      BY ONLY <3>1, Accounted \subseteq Accounted', MoreDone
    <3> QED BY <1>1, <2>2, <3>1, <3>2
  <2> QED BY <2>1, <2>2
<1> QED BY <1>1, <1>2, <1>3 DEF EventsInv

\* Only the reader moves.
LEMMA ReaderMoves ==
  ASSUME EventsInv, NEW p \in Replicas, p \in leader, NEW s, reader' = [reader EXCEPT ![p] = s],
         UNCHANGED <<Server, leader, stored, exported, counted, skipped>>, ReaderOK(s, Accounted, head), s.pc # "off"
  PROVE  EventsInv' /\ reader'[p] = s
<1>1. /\ head' = head /\ compacted' = compacted /\ leader' = leader /\ stored' = stored /\ exported' = exported
      /\ counted' = counted /\ skipped' = skipped
  BY DEF Server
<1>2. Accounted' = Accounted
  BY <1>1 DEF Accounted
<1>3. ServerOK'
  BY <1>1, <1>2 DEF EventsInv, ServerOK
<1>4. /\ ReaderOK(s, Accounted', head) /\ ((p \in leader') <=> s.pc # "off") /\ Accounted \subseteq Accounted'
      /\ \A q \in Replicas : q # p => (q \in leader' <=> q \in leader)
  BY <1>1, <1>2
<1> QED BY ONLY EventsInv, p \in Replicas, reader' = [reader EXCEPT ![p] = s], <1>1, <1>3, <1>4, OneReaderMoves

\* The server's part, when more is accounted for and a position is written.
LEMMA ServerKeeps ==
  ASSUME ServerOK, head' = head, compacted' = compacted, leader' = leader \/ leader' = {}, skipped' = skipped,
         exported \subseteq exported', exported' \subseteq 1..head, counted \subseteq counted', counted' \subseteq 1..head,
         stored' = stored \/ (stored' \in Positions(head) /\ Covered(stored'.rv, Accounted'))
  PROVE  ServerOK' /\ Accounted \subseteq Accounted'
<1>1. Accounted \subseteq Accounted'
  BY DEF Accounted
<1>2. Covered(stored.rv, Accounted')
  BY <1>1 DEF ServerOK, Covered
<1> QED BY <1>1, <1>2 DEF ServerOK

\* The payload is of what the server has.
LEMMA PayloadListed ==
  ASSUME ServerOK, NEW r, NEW A, ReaderOK(r, A, head), r.batch # <<>>
  PROVE  Payload(r) \subseteq 1..head
<1>h. PICK h \in Nat : h = head
  BY HeadFacts
<1>1. ReaderOK(r, A, h) /\ r.batch # <<>> /\ h \in Nat
  BY <1>h
<1>2. Render(r).rendered \in 1..Len(r.batch) /\ Payload(r) = EX!Range(SubSeq(r.batch, 1, Render(r).rendered))
  BY ONLY <1>1, RenderIs
<1>3. r.batch \in Seq(1..h)
  <2>1. r \in ReaderType(h)
    BY ONLY <1>1 DEF ReaderOK
  <2> QED BY ONLY <1>1, <2>1, TypesOf
<1>b. PICK b \in Seq(1..h) : b = r.batch
  BY <1>3
<1>c. PICK c \in 1..Len(b) : c = Render(r).rendered
  BY ONLY <1>2, <1>b
<1>4. b \in Seq(1..head) /\ c \in 1..Len(b)
  BY ONLY <1>b, <1>c, <1>h
<1>P. PICK P : P = EX!Range(SubSeq(b, 1, c))
  OBVIOUS
<1>5. PayloadOf(P, b, c, head)
  BY ONLY ServerOK, <1>4, <1>P, PayloadIs
<1>6. EX!Range(SubSeq(b, 1, c)) \subseteq 1..head
  BY ONLY <1>5, <1>P DEF PayloadOf
<1> QED BY ONLY <1>2, <1>b, <1>c, <1>6

\* What an attempt adds to the accounts.
LEMMA AccountIs ==
  ASSUME ServerOK, NEW r, NEW gone \in SUBSET (1..head), NEW o \in Outcomes, Payload(r) \subseteq 1..head,
         skipped' = skipped, Account(r, gone, o)
  PROVE  /\ exported \subseteq exported' /\ exported' \subseteq 1..head /\ counted \subseteq counted' /\ counted' \subseteq 1..head
         /\ Accounted \cup gone \subseteq Accounted' /\ (o # "down" => Payload(r) \subseteq Accounted')
<1>1. exported \subseteq 1..head /\ counted \subseteq 1..head
  BY DEF ServerOK
<1>2. /\ exported' = (IF o = "ok" THEN exported \cup Payload(r) ELSE exported)
      /\ counted' = counted \cup gone \cup (IF o = "rejected" THEN Payload(r) ELSE {})
  BY DEF Account
<1>3. o = "ok" \/ o = "rejected" \/ o = "down"
  BY DEF Outcomes
<1> QED BY <1>1, <1>2, <1>3 DEF Accounted

\* An export attempt of the leading reader, after it moved to r.
LEMMA TryFlushKeeps ==
  ASSUME EventsInv, NEW p \in Replicas, p \in leader, UNCHANGED <<Server, leader, skipped>>,
         NEW r, NEW gone \in SUBSET (1..head), ReaderOK(r, Accounted \cup gone, head), r.batch # <<>>, r.pc # "off",
         TryFlush(p, r, gone)
  PROVE  /\ EventsInv' /\ reader'[p].cursor = r.cursor
         /\ r.secured /\ reader'[p].batch = <<>> => \A e \in EX!Range(r.batch) : e <= reader'[p].committed.rv
<1>0. ServerOK /\ head' = head /\ compacted' = compacted /\ leader' = leader /\ skipped' = skipped
  BY DEF EventsInv, Server
<1>1. PICK o \in Outcomes :
        LET after == [Flush(r, o) EXCEPT !.failed = (o = "down")] IN
        /\ reader' = [reader EXCEPT ![p] = after]
        /\ Account(r, gone, o)
        /\ IF o = "down" THEN UNCHANGED stored ELSE Persist(after)
  BY DEF TryFlush
<1>f. PICK f : f = Flush(r, o)
  OBVIOUS
<1>a. PICK a : a = [f EXCEPT !.failed = (o = "down")]
  OBVIOUS
<1>2. reader' = [reader EXCEPT ![p] = a] /\ Account(r, gone, o) /\ (IF o = "down" THEN UNCHANGED stored ELSE Persist(a))
  BY ONLY <1>1, <1>f, <1>a
<1>3. Payload(r) \subseteq 1..head
  <2>1. PICK A : A = Accounted \cup gone
    OBVIOUS
  <2>2. ServerOK /\ ReaderOK(r, A, head) /\ r.batch # <<>>
    BY <1>0, <2>1
  <2> QED BY ONLY <2>2, PayloadListed
<1>4. /\ exported \subseteq exported' /\ exported' \subseteq 1..head /\ counted \subseteq counted' /\ counted' \subseteq 1..head
      /\ Accounted \cup gone \subseteq Accounted' /\ (o # "down" => Payload(r) \subseteq Accounted')
  BY ONLY <1>0, <1>1, <1>2, <1>3, gone \in SUBSET (1..head), AccountIs
<1>5. /\ ReaderOK(f, Accounted', head) /\ f.pc = r.pc /\ f.cursor = r.cursor
      /\ r.secured /\ f.batch = <<>> => \A e \in EX!Range(r.batch) : e <= f.committed.rv
  <2>1. PICK A : A = Accounted \cup gone
    OBVIOUS
  <2>2. PICK B : B = Accounted'
    OBVIOUS
  <2>3. /\ ServerOK /\ ReaderOK(r, A, head) /\ r.batch # <<>> /\ o \in Outcomes /\ A \subseteq B
        /\ (o # "down" => Payload(r) \subseteq B)
    BY <1>0, <1>1, <1>4, <2>1, <2>2
  <2>4. /\ ReaderOK(f, B, head) /\ f.pc = r.pc /\ f.cursor = r.cursor
        /\ r.secured /\ f.batch = <<>> => \A e \in EX!Range(r.batch) : e <= f.committed.rv
    BY ONLY <1>f, <2>3, FlushIs
  <2> QED BY ONLY <2>2, <2>4
<1>6. /\ ReaderOK(a, Accounted', head) /\ a.pc = f.pc /\ a.cursor = f.cursor /\ a.batch = f.batch /\ a.committed = f.committed
  <2>1. head \in Nat /\ f \in ReaderType(head) /\ (o = "down") \in BOOLEAN
    BY <1>0, <1>5, HeadFacts DEF ReaderOK
  <2>2. ReaderOK(a, Accounted', head)
    BY ONLY <1>a, <1>5, <2>1, FailedKeeps
  <2> QED BY ONLY <1>a, <2>1, <2>2 DEF ReaderType
<1>7. a.committed \in Positions(head) /\ Covered(a.committed.rv, Accounted')
  <2>1. head \in Nat /\ a \in ReaderType(head) /\ PositionOK(a, Accounted')
    BY <1>0, <1>6, HeadFacts DEF ReaderOK
  <2> QED BY ONLY <2>1, TypesOf DEF PositionOK
<1>8. stored' = stored \/ (stored' \in Positions(head) /\ Covered(stored'.rv, Accounted'))
  BY ONLY <1>2, <1>7 DEF Persist
<1>9. ServerOK' /\ Accounted \subseteq Accounted'
  BY ONLY <1>0, <1>4, <1>8, ServerKeeps
<1>10. /\ ((p \in leader') <=> a.pc # "off") /\ \A q \in Replicas : q # p => (q \in leader' <=> q \in leader)
  BY <1>0, <1>5, <1>6
<1>11. EventsInv' /\ reader'[p] = a
  BY ONLY EventsInv, p \in Replicas, <1>0, <1>2, <1>6, <1>9, <1>10, OneReaderMoves
<1> QED BY ONLY <1>5, <1>6, <1>11

\* No export this time.
LEMMA KeepKeeps ==
  ASSUME EventsInv, NEW p \in Replicas, p \in leader, UNCHANGED <<Server, leader, skipped>>,
         NEW r, NEW gone \in SUBSET (1..head), ReaderOK(r, Accounted \cup gone, head), r.pc # "off",
         Keep(p, r, gone)
  PROVE  EventsInv' /\ reader'[p] = r
<1>0. ServerOK /\ head' = head /\ compacted' = compacted /\ leader' = leader /\ skipped' = skipped
  BY DEF EventsInv, Server
<1>1. reader' = [reader EXCEPT ![p] = r] /\ counted' = counted \cup gone /\ stored' = stored /\ exported' = exported
  BY DEF Keep
<1>2. Accounted' = Accounted \cup gone
  BY <1>0, <1>1 DEF Accounted
<1>3. exported \subseteq exported' /\ exported' \subseteq 1..head /\ counted \subseteq counted' /\ counted' \subseteq 1..head
  BY <1>0, <1>1 DEF ServerOK
<1>4. ServerOK' /\ Accounted \subseteq Accounted'
  BY ONLY <1>0, <1>1, <1>3, ServerKeeps
<1>5. /\ ReaderOK(r, Accounted', head) /\ ((p \in leader') <=> r.pc # "off")
      /\ \A q \in Replicas : q # p => (q \in leader' <=> q \in leader)
  BY <1>0, <1>2
<1> QED BY ONLY EventsInv, p \in Replicas, <1>0, <1>1, <1>4, <1>5, OneReaderMoves

\* An attempt when the batch is full, or none.
LEMMA FlushIfFullKeeps ==
  ASSUME EventsInv, NEW p \in Replicas, p \in leader, UNCHANGED <<Server, leader, skipped>>,
         NEW r, NEW gone \in SUBSET (1..head), ReaderOK(r, Accounted \cup gone, head), r.batch # <<>>, r.pc # "off",
         FlushIfFull(p, r, gone)
  PROVE  /\ EventsInv' /\ reader'[p].cursor = r.cursor
         /\ r.secured /\ reader'[p].batch = <<>> => \A e \in EX!Range(r.batch) : e <= reader'[p].committed.rv
<1>1. CASE Keep(p, r, gone)
  <2>1. EventsInv' /\ reader'[p] = r
    BY <1>1, KeepKeeps
  <2> QED BY <2>1
<1>2. CASE TryFlush(p, r, gone)
  BY <1>2, TryFlushKeeps
<1> QED BY <1>1, <1>2 DEF FlushIfFull

-----------------------------------------------------------------------------
(* A delivery, which may shed the oldest entries.                            *)

\* Where the k-th entry stood before n entries after the first i were taken out.
Was(k, i, n) == IF k <= i THEN k ELSE k + n

\* A batch without n entries after its first i, and with e at its end.
LEMMA ThinnedIs ==
  ASSUME NEW S, NEW b \in Seq(S), NEW i \in Nat, NEW n \in Nat, i + n <= Len(b), NEW e \in S
  PROVE  LET u == Append(SubSeq(b, 1, i) \o SubSeq(b, i + n + 1, Len(b)), e)
         IN  /\ u \in Seq(S) /\ Len(u) = Len(b) - n + 1 /\ u[Len(b) - n + 1] = e
             /\ \A k \in 1..(Len(b) - n) : u[k] = b[Was(k, i, n)] /\ Was(k, i, n) \in 1..Len(b)
<1>l. PICK l \in Nat : l = Len(b)
  OBVIOUS
<1>x. PICK x : x = SubSeq(b, 1, i)
  OBVIOUS
<1>y. PICK y : y = SubSeq(b, i + n + 1, Len(b))
  OBVIOUS
<1>1. x \in Seq(S) /\ Len(x) = i /\ \A k \in 1..i : x[k] = b[k]
  <2>1. i \in 0..Len(b)
    BY <1>l
  <2> QED BY ONLY b \in Seq(S), <2>1, <1>x, Leaders
<1>2. y \in Seq(S) /\ Len(y) = l - (i + n) /\ \A k \in 1..(l - (i + n)) : y[k] = b[(i + n) + k] /\ (i + n) + k \in 1..l
  <2>c. PICK c \in Nat : c = i + n
    OBVIOUS
  <2>1. c \in 0..Len(b) /\ y = SubSeq(b, c + 1, Len(b))
    BY <1>l, <1>y, <2>c
  <2>2. y \in Seq(S) /\ Len(y) = Len(b) - c /\ \A k \in 1..Len(y) : y[k] = b[c + k] /\ c + k \in 1..Len(b)
    BY ONLY b \in Seq(S), <2>1, Remainder
  <2> QED BY ONLY <1>l, <2>c, <2>2
<1>z. PICK z : z = x \o y
  OBVIOUS
<1>3. /\ z \in Seq(S) /\ Len(z) = l - n
      /\ \A k \in 1..(l - n) : z[k] = IF k <= i THEN x[k] ELSE y[k - i]
  <2>1. z \in Seq(S) /\ Len(z) = Len(x) + Len(y) /\ \A k \in 1..(Len(x) + Len(y)) : z[k] = IF k <= Len(x) THEN x[k] ELSE y[k - Len(x)]
    BY ONLY <1>1, <1>2, <1>z, ConcatProperties
  <2>2. Len(x) + Len(y) = l - n
    BY <1>1, <1>2, <1>l
  <2> QED BY ONLY <1>1, <2>1, <2>2
<1>4. ASSUME NEW k \in 1..(l - n) PROVE z[k] = b[Was(k, i, n)] /\ Was(k, i, n) \in 1..l
  <2>0. i + n <= l
    BY <1>l
  <2>1. CASE k <= i
    <3>1. k \in 1..i /\ k \in 1..l /\ Was(k, i, n) = k
      BY <1>l, <2>0, <2>1 DEF Was
    <3> QED BY ONLY <1>1, <1>3, <1>4, <2>1, <3>1
  <2>2. CASE ~(k <= i)
    <3>1. k - i \in 1..(l - (i + n)) /\ (i + n) + (k - i) = k + n /\ Was(k, i, n) = k + n
      BY <1>l, <2>0, <2>2 DEF Was
    <3>2. z[k] = y[k - i]
      BY ONLY <1>3, <1>4, <2>2
    <3>3. y[k - i] = b[(i + n) + (k - i)] /\ (i + n) + (k - i) \in 1..l
      BY ONLY <1>2, <3>1
    <3> QED BY ONLY <3>1, <3>2, <3>3
  <2> QED BY <2>1, <2>2
<1>u. PICK u : u = Append(z, e)
  OBVIOUS
<1>5. u \in Seq(S) /\ Len(u) = Len(z) + 1 /\ (\A k \in 1..Len(z) : u[k] = z[k]) /\ u[Len(z) + 1] = e
  BY ONLY <1>3, <1>u, e \in S, AppendProperties
<1>6. /\ u \in Seq(S) /\ Len(u) = l - n + 1 /\ u[l - n + 1] = e
      /\ \A k \in 1..(l - n) : u[k] = b[Was(k, i, n)] /\ Was(k, i, n) \in 1..l
  BY ONLY <1>3, <1>4, <1>5
<1>7. u = Append(SubSeq(b, 1, i) \o SubSeq(b, i + n + 1, Len(b)), e)
  BY ONLY <1>x, <1>y, <1>z, <1>u
<1> QED BY ONLY <1>l, <1>6, <1>7

\* u is b without n entries after its first i, and with e at its end.
Thin(b, u, i, n, e) ==
  /\ n <= Len(b) /\ Len(u) = Len(b) - n + 1 /\ u[Len(b) - n + 1] = e
  /\ \A k \in 1..(Len(b) - n) : u[k] = b[Was(k, i, n)] /\ Was(k, i, n) \in 1..Len(b)

\* What ingesting e leaves of a reader.
Ingested(r, s, e, h) ==
  /\ s \in ReaderType(h) /\ s.committed = r.committed /\ s.pendingRV = r.pendingRV /\ s.seenRV = r.seenRV
  /\ s.relist = r.relist /\ s.replaying = r.replaying /\ s.secured = r.secured /\ s.replayRV = r.replayRV
  /\ s.from = r.from /\ s.pc = r.pc /\ s.cursor = r.cursor /\ s.walk = r.walk
  /\ (r.owed = 0 => s.owed = 0) /\ (Len(r.batch) < RetainCap => s.owed = r.owed)
  /\ s.rendered <= Len(s.batch) /\ Len(s.batch) <= RetainCap
  /\ \E i, n \in Nat : Thin(r.batch, s.batch, i, n, e) /\ (Len(r.batch) < RetainCap => n = 0)

\* An entry at the end of a batch, for which the oldest that are not being offered may go.
LEMMA IngestIs ==
  ASSUME NEW h \in Nat, NEW r \in ReaderType(h), BatchOK(r), NEW e \in 1..h
  PROVE  Ingested(r, Ingest(r, e), e, h)
<1>b. PICK b \in Seq(1..h) : b = r.batch
  BY TypesOf
<1>t. r.rendered \in Nat /\ r.owed \in Nat /\ RetainCap \in Nat /\ RetainCap >= 1 /\ ShedChunk \in Nat /\ ShedChunk >= 1
  BY TypesOf, EventsAssumption
<1>l. PICK l \in Nat : l = Len(b) /\ r.rendered <= l /\ l <= RetainCap
  BY <1>b DEF BatchOK
<1>1. CASE l < RetainCap
  <2>u. PICK u : u = Append(b, e)
    OBVIOUS
  <2>1. u \in Seq(1..h) /\ Len(u) = Len(b) + 1 /\ (\A k \in 1..Len(b) : u[k] = b[k]) /\ u[Len(b) + 1] = e
    BY ONLY <1>b, <2>u, e \in 1..h, AppendProperties
  <2>s. PICK s : s = [r EXCEPT !.batch = u]
    OBVIOUS
  <2>2. Ingest(r, e) = s
    <3>1. ~(Len(r.batch) >= RetainCap)
      BY ONLY <1>1, <1>b, <1>l, <1>t
    <3>2. Ingest(r, e) = [r EXCEPT !.batch = Append(@, e)]
      BY ONLY <3>1 DEF Ingest
    <3> QED BY ONLY r \in ReaderType(h), <3>2, <2>s, <2>u, <1>b DEF ReaderType
  <2>3. /\ s \in ReaderType(h) /\ s.committed = r.committed /\ s.pendingRV = r.pendingRV /\ s.seenRV = r.seenRV
        /\ s.relist = r.relist /\ s.replaying = r.replaying /\ s.secured = r.secured /\ s.replayRV = r.replayRV
        /\ s.from = r.from /\ s.pc = r.pc /\ s.cursor = r.cursor /\ s.walk = r.walk /\ s.owed = r.owed /\ s.rendered = r.rendered
        /\ s.batch = u
    BY ONLY r \in ReaderType(h), <2>1, <2>s DEF ReaderType
  <2>4. Len(u) = l + 1 /\ s.rendered <= Len(u) /\ Len(u) <= RetainCap
    BY ONLY <1>1, <1>t, <1>l, <2>1, <2>3
  <2>5. \A k \in 1..(l - 0) : u[k] = b[Was(k, 0, 0)] /\ Was(k, 0, 0) \in 1..l
    <3>1. \A k \in 1..(l - 0) : Was(k, 0, 0) = k /\ k \in 1..l
      BY <1>l DEF Was
    <3> QED BY ONLY <1>l, <2>1, <3>1
  <2>6. Len(u) = l - 0 + 1 /\ u[l - 0 + 1] = e /\ 0 <= l
    BY ONLY <1>l, <2>1
  <2>7. Thin(b, u, 0, 0, e)
    BY ONLY <1>l, <2>5, <2>6 DEF Thin
  <2>8. \E i, n \in Nat : Thin(b, u, i, n, e) /\ (Len(r.batch) < RetainCap => n = 0)
    BY ONLY <2>7, 0 \in Nat
  <2> QED BY ONLY <1>b, <2>2, <2>3, <2>4, <2>8 DEF Ingested
<1>2. CASE ~(l < RetainCap)
  <2>i. PICK i \in Nat : i = (IF r.rendered >= Len(r.batch) THEN 0 ELSE r.rendered)
    BY ONLY <1>t
  <2>1. i < l
    BY ONLY <1>2, <1>t, <1>l, <1>b, <2>i
  <2>n. PICK n \in Nat : n = EX!Min({ShedChunk, Len(r.batch) - i}) /\ 1 <= n /\ i + n <= l
    <3>d. PICK d \in Nat : d = Len(r.batch) - i /\ d >= 1 /\ i + d = l
      BY ONLY <1>b, <1>l, <2>i, <2>1
    <3>1. EX!Min({ShedChunk, d}) = IF ShedChunk <= d THEN ShedChunk ELSE d
      BY ONLY <1>t, <3>d, MinOfTwo
    <3> QED BY ONLY <1>t, <1>l, <2>i, <3>d, <3>1
  <2>0. i \in Nat /\ n \in Nat /\ 1 <= n /\ i + n <= l /\ l \in Nat /\ l <= RetainCap /\ RetainCap \in Nat
    BY ONLY <1>t, <1>l, <2>i, <2>n
  <2>w. PICK w \in Nat : w = (IF r.owed > i THEN r.owed - (EX!Min({i + n, r.owed}) - i) ELSE r.owed) /\ (r.owed = 0 => w = 0)
    <3>o. PICK o \in Nat : o = r.owed
      BY ONLY <1>t
    <3>c. PICK c \in Nat : c = i + n
      BY ONLY <2>i, <2>n
    <3>1. EX!Min({c, o}) = IF c <= o THEN c ELSE o
      BY ONLY <3>o, <3>c, MinOfTwo
    <3>2. CASE o > i
      <4>1. o - (EX!Min({c, o}) - i) \in Nat /\ o # 0
        <5>1. o \in Nat /\ c \in Nat /\ c = i + n
          BY ONLY <3>o, <3>c
        <5>2. CASE c <= o
          <6>1. o - (c - i) = o - n /\ o - n \in Nat
            BY ONLY <2>0, <5>1, <5>2
          <6> QED BY ONLY <2>0, <3>1, <3>2, <5>1, <5>2, <6>1
        <5>3. CASE ~(c <= o)
          <6>1. o - (o - i) = i
            BY ONLY <2>0, <5>1
          <6> QED BY ONLY <2>0, <3>1, <3>2, <5>1, <5>3, <6>1
        <5> QED BY ONLY <5>2, <5>3
      <4> QED BY ONLY <3>2, <3>o, <3>c, <4>1
    <3>3. CASE ~(o > i)
      BY ONLY <3>3, <3>o
    <3> QED BY ONLY <3>2, <3>3
  <2>z. PICK z : z = SubSeq(b, 1, i) \o SubSeq(b, i + n + 1, Len(b))
    OBVIOUS
  <2>u. PICK u : u = Append(z, e)
    OBVIOUS
  <2>2. /\ u \in Seq(1..h) /\ Len(u) = l - n + 1 /\ u[l - n + 1] = e
        /\ \A k \in 1..(l - n) : u[k] = b[Was(k, i, n)] /\ Was(k, i, n) \in 1..l
    <3>1. i + n <= Len(b) /\ u = Append(SubSeq(b, 1, i) \o SubSeq(b, i + n + 1, Len(b)), e)
      BY ONLY <1>l, <2>n, <2>z, <2>u
    <3>S. PICK S : S = 1..h
      OBVIOUS
    <3>3. b \in Seq(S) /\ i \in Nat /\ n \in Nat /\ e \in S
      BY <1>b, <2>0, <3>S
    <3>4. LET t == Append(SubSeq(b, 1, i) \o SubSeq(b, i + n + 1, Len(b)), e)
          IN  /\ t \in Seq(S) /\ Len(t) = Len(b) - n + 1 /\ t[Len(b) - n + 1] = e
              /\ \A k \in 1..(Len(b) - n) : t[k] = b[Was(k, i, n)] /\ Was(k, i, n) \in 1..Len(b)
      BY ONLY <3>1, <3>3, ThinnedIs, Zenon
    <3>2. /\ u \in Seq(S) /\ Len(u) = Len(b) - n + 1 /\ u[Len(b) - n + 1] = e
          /\ \A k \in 1..(Len(b) - n) : u[k] = b[Was(k, i, n)] /\ Was(k, i, n) \in 1..Len(b)
      BY ONLY <3>1, <3>4, Zenon
    <3> QED BY ONLY <1>l, <3>S, <3>2
  <2>s. PICK s : s = [r EXCEPT !.batch = u, !.rendered = i, !.owed = w]
    OBVIOUS
  <2>3. Ingest(r, e) = s
    <3>1. Len(r.batch) >= RetainCap
      BY ONLY <1>2, <1>b, <1>l, <1>t
    <3>2. Ingest(r, e) = [ShedOldest(r) EXCEPT !.batch = Append(@, e)]
      BY ONLY <3>1 DEF Ingest
    <3>q. PICK q : q = [r EXCEPT !.batch = z, !.rendered = i, !.owed = w]
      OBVIOUS
    <3>3. ShedOldest(r) = [r EXCEPT !.batch = SubSeq(@, 1, i) \o SubSeq(@, i + n + 1, Len(@)), !.rendered = i,
                                    !.owed = IF @ > i THEN @ - (EX!Min({i + n, @}) - i) ELSE @]
      BY ONLY <2>i, <2>n DEF ShedOldest
    <3>4. ShedOldest(r) = q
      BY ONLY r \in ReaderType(h), <3>3, <3>q, <1>b, <2>z, <2>w DEF ReaderType
    <3>5. [q EXCEPT !.batch = Append(@, e)] = s
      BY ONLY r \in ReaderType(h), <3>q, <2>s, <2>u DEF ReaderType
    <3> QED BY ONLY <3>2, <3>4, <3>5
  <2>4. /\ s \in ReaderType(h) /\ s.committed = r.committed /\ s.pendingRV = r.pendingRV /\ s.seenRV = r.seenRV
        /\ s.relist = r.relist /\ s.replaying = r.replaying /\ s.secured = r.secured /\ s.replayRV = r.replayRV
        /\ s.from = r.from /\ s.pc = r.pc /\ s.cursor = r.cursor /\ s.walk = r.walk /\ s.owed = w /\ s.rendered = i
        /\ s.batch = u
    <3>1. u \in Seq(1..h) /\ i \in Nat /\ w \in Nat
      BY ONLY <2>2, <2>i, <2>w
    <3> QED BY ONLY r \in ReaderType(h), <3>1, <2>s DEF ReaderType
  <2>5. i <= Len(u) /\ Len(u) <= RetainCap /\ n <= l
    <3>1. Len(u) = l - n + 1
      BY ONLY <2>2
    <3> QED BY ONLY <2>0, <3>1
  <2>6. Len(r.batch) = l /\ b = r.batch /\ ~(l < RetainCap) /\ (r.owed = 0 => w = 0)
    BY ONLY <1>2, <1>b, <1>l, <2>w
  <2>7. Thin(b, u, i, n, e)
    BY ONLY <1>l, <2>2, <2>5 DEF Thin
  <2>8. \E j, m \in Nat : Thin(b, u, j, m, e) /\ (Len(r.batch) < RetainCap => m = 0)
    BY ONLY <2>0, <2>6, <2>7
  <2> QED BY ONLY <2>3, <2>4, <2>5, <2>6, <2>8 DEF Ingested
<1> QED BY <1>1, <1>2

\* What such a batch holds, and in which order.
GrownOK(b, u, i, n, e) ==
  /\ \A j, k \in 1..Len(u) : u[j] = u[k] => j = k
  /\ EX!Range(u) \subseteq EX!Range(b) \cup {e} /\ e \in EX!Range(u) /\ u # <<>>
  /\ n = 0 => EX!Range(b) \subseteq EX!Range(u)
  /\ \A k \in 1..(Len(b) - n) : \A j \in 1..Was(k, i, n) : b[j] \in EX!Range(u) => \E m \in 1..k : u[m] = b[j]

\* A batch without its oldest entries and with a new one is in order.
LEMMA Grown ==
  ASSUME NEW h \in Nat, NEW b \in Seq(1..h), NEW u \in Seq(1..h), NEW i \in Nat, NEW n \in Nat, NEW e \in 1..h,
         e \notin EX!Range(b), \A j, k \in 1..Len(b) : b[j] = b[k] => j = k, Thin(b, u, i, n, e)
  PROVE  GrownOK(b, u, i, n, e)
<1>l. PICK l \in Nat : l = Len(b)
  OBVIOUS
<1>1. \A x : x \in EX!Range(b) <=> \E k \in 1..l : b[k] = x
  BY ONLY b \in Seq(1..h), <1>l, EntriesOf
<1>2. \A x : x \in EX!Range(u) <=> \E k \in 1..(l - n + 1) : u[k] = x
  <2>1. \A x : x \in EX!Range(u) <=> \E k \in 1..Len(u) : u[k] = x
    BY ONLY u \in Seq(1..h), EntriesOf
  <2>2. Len(u) = l - n + 1
    BY <1>l DEF Thin
  <2> QED BY ONLY <2>1, <2>2
<1>3. /\ l \in Nat /\ n \in Nat /\ n <= l /\ i \in Nat /\ Len(u) = l - n + 1 /\ u[l - n + 1] = e
      /\ \A k \in 1..(l - n) : u[k] = b[Was(k, i, n)] /\ Was(k, i, n) \in 1..l
      /\ \A j, k \in 1..l : b[j] = b[k] => j = k
  BY <1>l DEF Thin
<1>4. \A k \in 1..(l - n) : u[k] \in EX!Range(b) /\ u[k] # e
  BY <1>1, <1>3
<1>5. \A k \in 1..(l - n + 1) : k \in 1..(l - n) \/ k = l - n + 1
  BY ONLY <1>3
<1>6. ASSUME NEW j \in 1..(l - n), NEW k \in 1..(l - n), Was(j, i, n) <= Was(k, i, n) PROVE j <= k
  BY ONLY <1>3, <1>6 DEF Was
<1>7. ASSUME NEW j \in 1..(l - n + 1), NEW k \in 1..(l - n + 1), u[j] = u[k] PROVE j = k
  <2>1. CASE j \in 1..(l - n) /\ k \in 1..(l - n)
    <3>1. Was(j, i, n) = Was(k, i, n) /\ Was(j, i, n) \in 1..l /\ Was(k, i, n) \in 1..l
      BY ONLY <1>3, <1>7, <2>1
    <3>a. PICK x, y : x = Was(j, i, n) /\ y = Was(k, i, n)
      OBVIOUS
    <3>b. x <= y /\ y <= x
      BY ONLY <1>3, <3>1, <3>a
    <3>c. Was(j, i, n) <= Was(k, i, n) /\ Was(k, i, n) <= Was(j, i, n)
      BY ONLY <3>a, <3>b
    <3>2. j <= k
      BY ONLY <1>6, <2>1, <3>c
    <3>3. k <= j
      BY ONLY <1>6, <2>1, <3>c
    <3>4. j \in Int /\ k \in Int
      BY ONLY <1>3, <2>1
    <3> QED BY ONLY <3>2, <3>3, <3>4
  <2>2. CASE j = l - n + 1 \/ k = l - n + 1
    BY ONLY <1>3, <1>4, <1>5, <1>7, <2>2
  <2> QED BY ONLY <1>5, <1>7, <2>1, <2>2
<1>8. EX!Range(u) \subseteq EX!Range(b) \cup {e} /\ e \in EX!Range(u)
  <2>1. l - n + 1 \in 1..(l - n + 1)
    BY ONLY <1>3
  <2> QED BY ONLY <1>2, <1>3, <1>4, <1>5, <2>1
<1>9. u # <<>>
  <2>1. Len(u) # 0
    BY ONLY <1>3
  <2> QED BY ONLY <2>1, NoEntries
<1>10. n = 0 => EX!Range(b) \subseteq EX!Range(u)
  <2> SUFFICES ASSUME n = 0, NEW x \in EX!Range(b) PROVE x \in EX!Range(u)
    OBVIOUS
  <2>1. PICK k \in 1..l : b[k] = x
    BY <1>1
  <2>2. k \in 1..(l - n) /\ k \in 1..(l - n + 1) /\ Was(k, i, n) = k
    BY <1>3, <2>1 DEF Was
  <2>3. u[k] = b[k]
    BY ONLY <1>3, <2>2
  <2> QED BY ONLY <1>2, <2>1, <2>2, <2>3
<1>11. ASSUME NEW k \in 1..(l - n), NEW j \in 1..Was(k, i, n), b[j] \in EX!Range(u) PROVE \E m \in 1..k : u[m] = b[j]
  <2>0. Was(k, i, n) \in 1..l /\ j \in 1..l
    BY ONLY <1>3, <1>11
  <2>1. PICK m \in 1..(l - n + 1) : u[m] = b[j]
    BY ONLY <1>2, <1>11
  <2>2. b[j] # e
    BY <1>1, <2>0
  <2>3. m \in 1..(l - n)
    BY ONLY <1>3, <1>5, <2>1, <2>2
  <2>4. Was(m, i, n) = j
    BY ONLY <1>3, <2>0, <2>1, <2>3
  <2>5. Was(m, i, n) <= Was(k, i, n)
    BY ONLY <1>11, <2>0, <2>4
  <2>6. m <= k
    BY ONLY <1>6, <1>11, <2>3, <2>5
  <2>7. m \in 1..k
    BY ONLY <1>3, <1>11, <2>3, <2>6
  <2> QED BY ONLY <2>1, <2>7
<1> QED BY ONLY <1>l, <1>3, <1>7, <1>8, <1>9, <1>10, <1>11 DEF GrownOK

\* A reader whose batch got the next event of its watch.
\* The next event is ingested, and what was shed for it.
Delivers(r, e, s, gone) ==
  /\ e = r.cursor + 1 /\ s = Ingest([NoteSeen(r, e) EXCEPT !.cursor = e], e)
  /\ gone = (EX!Range(r.batch) \cup {e}) \ EX!Range(s.batch)

\* The next event of the watch.
LEMMA DeliverIs ==
  ASSUME ServerOK, NEW r, NEW A, ReaderOK(r, A, head), r.pc = "watch", r.cursor < head, NEW e, NEW s, NEW gone, Delivers(r, e, s, gone)
  PROVE  /\ ReaderOK(s, A \cup gone, head) /\ s.batch # <<>> /\ gone \subseteq 1..head /\ s.pc = "watch" /\ s.cursor = e /\ s.secured
         /\ EX!Range(r.batch) \subseteq 1..r.cursor /\ e \in EX!Range(s.batch) /\ e \in Nat /\ r.cursor \in Nat
<1> /\ e = r.cursor + 1 /\ s = Ingest([NoteSeen(r, e) EXCEPT !.cursor = e], e)
    /\ gone = (EX!Range(r.batch) \cup {e}) \ EX!Range(s.batch)
  BY DEF Delivers
<1>h. PICK h \in Nat : h = head
  BY HeadFacts
<1>1. /\ r \in ReaderType(h) /\ BatchOK(r) /\ FreeOK(r, A) /\ HeldOK(r, A) /\ PositionOK(r, A) /\ StreamOK(r, A)
  BY <1>h DEF ReaderOK
<1>t. /\ r.batch \in Seq(1..h) /\ r.cursor \in 0..h /\ r.seenRV \in 0..h /\ r.pendingRV \in 0..h /\ r.committed.rv \in 0..h /\ e \in 1..h
      /\ r.relist \in BOOLEAN
  BY <1>h, <1>1, TypesOf
<1>2. /\ r.secured /\ ~r.replaying /\ Covered(r.cursor, A \cup EX!Range(r.batch)) /\ EX!Range(r.batch) \subseteq 1..r.cursor
      /\ r.owed = 0 /\ r.replayRV = 0
      /\ \A k \in 1..Len(r.batch) : \A x \in 1..r.batch[k] : x \in A \/ \E j \in 1..k : r.batch[j] = x
  BY <1>1 DEF StreamOK, FreeOK
<1>v. PICK v \in 0..h : v = (IF NewerRV(e, r.seenRV) THEN e ELSE r.seenRV)
  BY <1>t
<1>w. v >= e /\ (v = e \/ (v = r.seenRV /\ v # 0))
  BY <1>t, <1>v DEF NewerRV
<1>q. PICK q : q = [r EXCEPT !.seenRV = v, !.cursor = e]
  OBVIOUS
<1>3. /\ q \in ReaderType(h) /\ q.batch = r.batch /\ q.rendered = r.rendered /\ q.committed = r.committed /\ q.pendingRV = r.pendingRV
      /\ q.seenRV = v /\ q.relist = r.relist /\ q.replaying = r.replaying /\ q.secured = r.secured /\ q.replayRV = r.replayRV
      /\ q.owed = r.owed /\ q.from = r.from /\ q.pc = r.pc /\ q.cursor = e /\ q.walk = r.walk
  <2>1. r \in ReaderType(h) /\ v \in 0..h /\ e \in 0..h
    BY <1>1, <1>t, <1>v
  <2> QED BY ONLY <2>1, <1>q DEF ReaderType
<1>4. s = Ingest(q, e)
  <2>1. NoteSeen(r, e) = [r EXCEPT !.seenRV = v]
    BY ONLY <1>1, <1>v DEF NoteSeen, ReaderType
  <2>2. [NoteSeen(r, e) EXCEPT !.cursor = e] = q
    BY ONLY <1>1, <2>1, <1>q DEF ReaderType
  <2> QED BY <2>2
<1>5. BatchOK(q)
  BY ONLY <1>1, <1>3 DEF BatchOK
<1>6. Ingested(q, s, e, h)
  <2>1. e \in 1..h /\ h \in Nat /\ q \in ReaderType(h)
    BY ONLY <1>h, <1>t, <1>3
  <2> QED BY ONLY <2>1, <1>4, <1>5, IngestIs
<1>7. /\ s \in ReaderType(h) /\ s.committed = r.committed /\ s.pendingRV = r.pendingRV /\ s.seenRV = v
      /\ s.relist = r.relist /\ ~s.replaying /\ s.secured /\ s.replayRV = 0
      /\ s.pc = "watch" /\ s.cursor = e /\ s.owed = 0
  BY <1>2, <1>3, <1>6 DEF Ingested
<1>b. PICK b \in Seq(1..h) : b = r.batch
  BY ONLY <1>t
<1>u. PICK u \in Seq(1..h) : u = s.batch
  BY ONLY <1>7, <1>h, TypesOf
<1>8. PICK i \in Nat, n \in Nat : Thin(b, u, i, n, e)
  BY ONLY <1>3, <1>6, <1>b, <1>u DEF Ingested
<1>8a. /\ n <= Len(b) /\ Len(u) = Len(b) - n + 1 /\ u[Len(b) - n + 1] = e /\ i \in Nat /\ n \in Nat
       /\ \A k \in 1..(Len(b) - n) : u[k] = b[Was(k, i, n)] /\ Was(k, i, n) \in 1..Len(b)
  BY ONLY <1>8 DEF Thin
<1>9. e \notin EX!Range(b) /\ \A j, k \in 1..Len(b) : b[j] = b[k] => j = k
  <2>1. EX!Range(b) \subseteq 1..r.cursor
    BY ONLY <1>2, <1>b
  <2>2. r.cursor \in Nat /\ e = r.cursor + 1
    BY <1>t, <1>h
  <2>3. e \notin 1..r.cursor
    BY ONLY <2>2
  <2>4. BatchOK(r)
    BY ONLY <1>1
  <2>5. \A j, k \in 1..Len(r.batch) : r.batch[j] = r.batch[k] => j = k
    BY ONLY <2>4 DEF BatchOK
  <2>6. \A j, k \in 1..Len(b) : b[j] = b[k] => j = k
    BY ONLY <2>5, <1>b
  <2> QED BY ONLY <2>1, <2>3, <2>6
<1>10. /\ \A j, k \in 1..Len(u) : u[j] = u[k] => j = k
       /\ EX!Range(u) \subseteq EX!Range(b) \cup {e} /\ e \in EX!Range(u) /\ u # <<>>
       /\ \A k \in 1..(Len(b) - n) : \A j \in 1..Was(k, i, n) : b[j] \in EX!Range(u) => \E m \in 1..k : u[m] = b[j]
  <2>1. h \in Nat /\ b \in Seq(1..h) /\ u \in Seq(1..h) /\ i \in Nat /\ n \in Nat /\ e \in 1..h
    BY ONLY <1>h, <1>b, <1>u, <1>t, <1>8
  <2>2. GrownOK(b, u, i, n, e)
    BY ONLY <2>1, <1>8, <1>9, Grown
  <2> QED BY ONLY <2>2 DEF GrownOK
<1>G. gone = (EX!Range(b) \cup {e}) \ EX!Range(u)
  BY <1>b, <1>u
<1>A. PICK B : B = A \cup gone
  OBVIOUS
<1>11. ASSUME NEW x, x \in A \cup EX!Range(b) PROVE x \in B \cup EX!Range(u)
  BY ONLY <1>11, <1>G, <1>A
<1>12. ASSUME NEW m, Covered(m, A \cup EX!Range(b)) PROVE Covered(m, B \cup EX!Range(u))
  BY ONLY <1>11, <1>12 DEF Covered
<1>13. Covered(e, B \cup EX!Range(u)) /\ EX!Range(u) \subseteq 1..e
  <2>1. Covered(r.cursor, B \cup EX!Range(u)) /\ EX!Range(b) \subseteq 1..r.cursor
    BY ONLY <1>2, <1>12, <1>b
  <2>2. \A x \in 1..e : x \in 1..r.cursor \/ x = e
    BY <1>t
  <2>3. 1..r.cursor \subseteq 1..e /\ e \in 1..e
    BY <1>t
  <2> QED BY ONLY <1>10, <2>1, <2>2, <2>3 DEF Covered
<1>14. BatchOK(s)
  BY ONLY <1>6, <1>10, <1>u DEF BatchOK, Ingested
<1>15. FreeOK(s, B)
  <2>1. ASSUME NEW k \in 1..Len(u), NEW x \in 1..u[k] PROVE x \in B \/ \E j \in 1..k : u[j] = x
    <3>0. k \in 1..(Len(b) - n) \/ k = Len(b) - n + 1
      BY <1>b, <1>8a, EntriesOf
    <3>1. CASE k \in 1..(Len(b) - n)
      <4>1. u[k] = b[Was(k, i, n)] /\ Was(k, i, n) \in 1..Len(b)
        BY ONLY <1>8a, <3>1
      <4>2. x \in A \/ \E j \in 1..Was(k, i, n) : b[j] = x
        BY ONLY <1>2, <1>b, <2>1, <4>1
      <4>3. ASSUME NEW j \in 1..Was(k, i, n), b[j] = x PROVE x \in B \/ \E m \in 1..k : u[m] = x
        <5>1. b[j] \in EX!Range(b)
          <6>1. j \in 1..Len(b)
            BY ONLY <4>1, <4>3
          <6> QED BY ONLY <6>1, <1>b, EntriesOf
        <5>2. x \in B \/ x \in EX!Range(u)
          BY ONLY <1>11, <4>3, <5>1
        <5> QED BY ONLY <1>10, <3>1, <4>3, <5>2
      <4> QED BY ONLY <1>A, <4>2, <4>3
    <3>2. CASE k = Len(b) - n + 1
      <4>1. u[k] = e
        BY ONLY <1>8a, <3>2
      <4>2. x \in B \/ x \in EX!Range(u)
        BY ONLY <1>13, <2>1, <4>1 DEF Covered
      <4>3. Len(u) = k /\ (x \in EX!Range(u) => \E m \in 1..Len(u) : u[m] = x)
        BY ONLY <1>8a, <1>u, <3>2, EntriesOf
      <4> QED BY ONLY <4>2, <4>3
    <3> QED BY <3>0, <3>1, <3>2
  <2>2. \A k \in 1..Len(u) : \A x \in 1..u[k] : x \in B \/ \E j \in 1..k : u[j] = x
    BY ONLY <2>1
  <2>3. \A k \in 1..Len(s.batch) : \A x \in 1..s.batch[k] : x \in B \/ \E j \in 1..k : s.batch[j] = x
    BY ONLY <1>u, <2>2
  <2>4. s.owed = 0 /\ ~s.replaying /\ s.replayRV = 0
    BY ONLY <1>7
  <2> QED BY ONLY <2>3, <2>4 DEF FreeOK
<1>16. HeldOK(s, B)
  BY ONLY <1>7 DEF HeldOK
<1>17. PositionOK(s, B)
  <2>1. Covered(s.committed.rv, B)
    BY ONLY <1>1, <1>7, <1>A DEF PositionOK, Covered
  <2>2. Covered(s.pendingRV, B \cup EX!Range(u))
    <3>1. Covered(r.pendingRV, A \cup EX!Range(b))
      BY ONLY <1>1, <1>b DEF PositionOK
    <3> QED BY ONLY <1>7, <1>12, <3>1
  <2>3. ASSUME Cold(s), s.seenRV # 0 PROVE Covered(s.seenRV, B \cup EX!Range(u)) /\ EX!Range(u) \subseteq 1..s.seenRV
    <3>1. CASE v = e
      BY ONLY <1>7, <1>13, <3>1
    <3>2. CASE v # e
      <4>1. v = r.seenRV /\ v # 0 /\ Cold(r)
        BY ONLY <1>7, <1>w, <2>3, <3>2 DEF Cold
      <4>2. Covered(v, A \cup EX!Range(b))
        BY ONLY <1>1, <1>b, <4>1 DEF PositionOK
      <4>3. 1..e \subseteq 1..v
        BY ONLY <1>w, <1>v, <1>t, <1>h
      <4> QED BY ONLY <1>7, <1>12, <1>13, <4>2, <4>3
    <3> QED BY ONLY <3>1, <3>2
  <2> QED BY ONLY <1>10, <1>u, <2>1, <2>2, <2>3 DEF PositionOK
<1>18. StreamOK(s, B)
  <2>1. s.pc = "watch" /\ ~s.replaying /\ Covered(s.cursor, B \cup EX!Range(s.batch)) /\ s.cursor # 0 /\ EX!Range(s.batch) \subseteq 1..s.cursor /\ s.secured
    BY ONLY <1>7, <1>13, <1>u, <1>t, <1>h
  <2> QED BY ONLY <2>1 DEF StreamOK
<1>19. ReaderOK(s, A \cup gone, head)
  <2>1. ReaderOK(s, B, h)
    BY ONLY <1>7, <1>14, <1>15, <1>16, <1>17, <1>18 DEF ReaderOK
  <2> QED BY ONLY <1>A, <1>h, <2>1
<1>20. gone \subseteq 1..head /\ e \in Nat /\ r.cursor \in Nat
  <2>1. EX!Range(b) \subseteq 1..h /\ e \in 1..h
    BY ONLY <1>b, <1>t, EntriesOf
  <2>2. gone \subseteq 1..h
    BY ONLY <1>G, <2>1
  <2> QED BY ONLY <1>h, <1>t, <2>2
<1> QED BY ONLY <1>2, <1>7, <1>10, <1>19, <1>20, <1>u, <1>b

-----------------------------------------------------------------------------
(* The stages of a stream.                                                   *)

\* The parts of the invariant of a reader.
LEMMA PartsOf ==
  ASSUME NEW h \in Nat, NEW r, NEW A, ReaderOK(r, A, h)
  PROVE  /\ r \in ReaderType(h) /\ BatchOK(r) /\ FreeOK(r, A) /\ HeldOK(r, A) /\ PositionOK(r, A) /\ StreamOK(r, A)
BY DEF ReaderOK

\* Two readers that differ in the stage of their streams.
LEMMA SameButStage ==
  ASSUME NEW h, NEW r, NEW s, NEW A, ReaderOK(r, A, h), s \in ReaderType(h),
         s.rendered = r.rendered, s.batch = r.batch, s.committed = r.committed, s.pendingRV = r.pendingRV,
         s.seenRV = r.seenRV, s.relist = r.relist, s.replaying = r.replaying, s.secured = r.secured,
         s.replayRV = r.replayRV, s.owed = r.owed, StreamOK(s, A)
  PROVE  ReaderOK(s, A, h)
<1>1. BatchOK(s)
  BY DEF ReaderOK, BatchOK
<1>2. FreeOK(s, A)
  BY DEF ReaderOK, FreeOK
<1>3. HeldOK(s, A)
  BY DEF ReaderOK, HeldOK
<1>4. PositionOK(s, A)
  BY DEF ReaderOK, PositionOK, Cold
<1> QED BY <1>1, <1>2, <1>3, <1>4 DEF ReaderOK

\* The stream ends, and perhaps the term with it.
LEMMA StreamEnds ==
  ASSUME NEW h \in Nat, NEW r, NEW A, ReaderOK(r, A, h), NEW s \in ReaderType(h), s.pc \in {"start", "off"},
         s = [r EXCEPT !.pc = s.pc, !.walk = s.walk, !.cursor = s.cursor]
  PROVE  ReaderOK(s, A, h) /\ s.batch = r.batch
<1>1. /\ s.rendered = r.rendered /\ s.batch = r.batch /\ s.committed = r.committed /\ s.pendingRV = r.pendingRV
      /\ s.seenRV = r.seenRV /\ s.relist = r.relist /\ s.replaying = r.replaying /\ s.secured = r.secured
      /\ s.replayRV = r.replayRV /\ s.owed = r.owed
  <2>1. r \in ReaderType(h)
    BY PartsOf
  <2>2. PICK pc, w, c : s = [r EXCEPT !.pc = pc, !.walk = w, !.cursor = c]
    OBVIOUS
  <2> QED BY ONLY <2>1, <2>2 DEF ReaderType
<1>2. StreamOK(s, A)
  BY <1>1 DEF StreamOK
<1>3. ReaderOK(s, A, h)
  BY ONLY ReaderOK(r, A, h), s \in ReaderType(h), <1>1, <1>2, SameButStage
<1> QED BY <1>1, <1>3

\* A watch that opens.
LEMMA OpenIs ==
  ASSUME NEW h \in Nat, NEW r, NEW A, ReaderOK(r, A, h), r.pc = "open", NEW s, s = [r EXCEPT !.pc = "watch"]
  PROVE  ReaderOK(s, A, h) /\ s.pc = "watch"
<1>1. /\ s \in ReaderType(h) /\ s.rendered = r.rendered /\ s.batch = r.batch /\ s.committed = r.committed /\ s.pendingRV = r.pendingRV
      /\ s.seenRV = r.seenRV /\ s.relist = r.relist /\ s.replaying = r.replaying /\ s.secured = r.secured
      /\ s.replayRV = r.replayRV /\ s.owed = r.owed /\ s.pc = "watch" /\ s.cursor = r.cursor
  <2>1. r \in ReaderType(h) /\ "watch" \in Stages
    BY PartsOf DEF Stages
  <2> QED BY ONLY <2>1, s = [r EXCEPT !.pc = "watch"] DEF ReaderType
<1>2. StreamOK(r, A)
  BY PartsOf
<1>3. StreamOK(s, A)
  BY ONLY <1>1, <1>2, r.pc = "open" DEF StreamOK
<1>4. ReaderOK(s, A, h)
  BY ONLY ReaderOK(r, A, h), <1>1, <1>3, SameButStage
<1> QED BY <1>1, <1>4

\* An item that the filter drops is accounted for.
LEMMA FilteredIs ==
  ASSUME NEW h \in Nat, NEW r, NEW A, ReaderOK(r, A, h), r.pc = "walk", NEW e \in A, NEW s, s = [r EXCEPT !.walk = @ \ {e}]
  PROVE  ReaderOK(s, A, h) /\ s.pc = "walk"
<1>0. r \in ReaderType(h) /\ StreamOK(r, A)
  BY PartsOf
<1>w. PICK w \in SUBSET (1..h) : w = r.walk \ {e}
  BY <1>0, TypesOf
<1>1. /\ s \in ReaderType(h) /\ s.rendered = r.rendered /\ s.batch = r.batch /\ s.committed = r.committed /\ s.pendingRV = r.pendingRV
      /\ s.seenRV = r.seenRV /\ s.relist = r.relist /\ s.replaying = r.replaying /\ s.secured = r.secured
      /\ s.replayRV = r.replayRV /\ s.owed = r.owed /\ s.pc = r.pc /\ s.cursor = r.cursor /\ s.from = r.from /\ s.walk = w
  <2>1. s = [r EXCEPT !.walk = w]
    BY ONLY <1>0, <1>w, s = [r EXCEPT !.walk = @ \ {e}] DEF ReaderType
  <2> QED BY ONLY <1>0, <1>w, <2>1 DEF ReaderType
<1>2. StreamOK(s, A)
  <2>1. /\ r.replaying /\ ~r.secured /\ r.from = (IF r.committed.mark = 0 THEN 0 ELSE r.committed.mark - Slack)
        /\ Covered(r.replayRV, A \cup EX!Range(r.batch) \cup r.walk) /\ r.replayRV # 0
        /\ EX!Range(r.batch) \cup r.walk \subseteq 1..r.replayRV /\ EX!Range(r.batch) \cap r.walk = {} /\ r.committed.rv = 0
    BY <1>0 DEF StreamOK
  <2>2. Covered(r.replayRV, A \cup EX!Range(r.batch) \cup w) /\ EX!Range(r.batch) \cup w \subseteq 1..r.replayRV /\ EX!Range(r.batch) \cap w = {}
    BY <1>w, <2>1 DEF Covered
  <2> QED BY ONLY <1>1, <2>1, <2>2, r.pc = "walk" DEF StreamOK
<1>3. ReaderOK(s, A, h)
  BY ONLY ReaderOK(r, A, h), <1>1, <1>2, SameButStage
<1> QED BY <1>1, <1>3

\* An item of the backlog, owed before it is exported.
LEMMA WantedIs ==
  ASSUME NEW h \in Nat, NEW r, NEW A, ReaderOK(r, A, h), r.pc = "walk", NEW e \in r.walk, Len(r.batch) < RetainCap,
         NEW s, s = [Ingest([r EXCEPT !.walk = @ \ {e}], e) EXCEPT !.owed = @ + 1]
  PROVE  ReaderOK(s, A, h) /\ s.batch # <<>> /\ s.pc = "walk"
<1>0. r \in ReaderType(h) /\ StreamOK(r, A) /\ HeldOK(r, A) /\ BatchOK(r) /\ PositionOK(r, A)
  BY PartsOf
<1>t. r.batch \in Seq(1..h) /\ r.walk \in SUBSET (1..h) /\ e \in 1..h /\ r.owed \in Nat
  BY <1>0, TypesOf
<1>w. PICK w \in SUBSET (1..h) : w = r.walk \ {e}
  BY <1>t
<1>q. PICK q : q = [r EXCEPT !.walk = w]
  OBVIOUS
<1>1. /\ q \in ReaderType(h) /\ q.rendered = r.rendered /\ q.batch = r.batch /\ q.committed = r.committed /\ q.pendingRV = r.pendingRV
      /\ q.seenRV = r.seenRV /\ q.relist = r.relist /\ q.replaying = r.replaying /\ q.secured = r.secured
      /\ q.replayRV = r.replayRV /\ q.owed = r.owed /\ q.pc = r.pc /\ q.cursor = r.cursor /\ q.from = r.from /\ q.walk = w
  BY ONLY <1>0, <1>w, <1>q DEF ReaderType
<1>2. BatchOK(q)
  BY ONLY <1>0, <1>1 DEF BatchOK
<1>g. PICK g : g = Ingest(q, e)
  OBVIOUS
<1>3. Ingested(q, g, e, h)
  BY ONLY h \in Nat, <1>1, <1>2, <1>t, <1>g, IngestIs
<1>4. /\ g \in ReaderType(h) /\ g.committed = r.committed /\ g.pendingRV = r.pendingRV /\ g.seenRV = r.seenRV
      /\ g.relist = r.relist /\ g.replaying = r.replaying /\ g.secured = r.secured /\ g.replayRV = r.replayRV
      /\ g.from = r.from /\ g.pc = r.pc /\ g.cursor = r.cursor /\ g.walk = w /\ g.owed = r.owed
      /\ g.rendered <= Len(g.batch) /\ Len(g.batch) <= RetainCap
  BY <1>1, <1>3 DEF Ingested
<1>o. PICK o \in Nat : o = r.owed + 1
  BY <1>t
<1>5. /\ s \in ReaderType(h) /\ s.committed = r.committed /\ s.pendingRV = r.pendingRV /\ s.seenRV = r.seenRV
      /\ s.relist = r.relist /\ s.replaying = r.replaying /\ s.secured = r.secured /\ s.replayRV = r.replayRV
      /\ s.from = r.from /\ s.pc = r.pc /\ s.cursor = r.cursor /\ s.walk = w /\ s.owed = o
      /\ s.rendered = g.rendered /\ s.batch = g.batch
  <2>1. [r EXCEPT !.walk = @ \ {e}] = q
    BY ONLY <1>0, <1>w, <1>q DEF ReaderType
  <2>2. s = [g EXCEPT !.owed = @ + 1]
    BY <2>1, <1>g
  <2>3. s = [g EXCEPT !.owed = o]
    BY ONLY <1>4, <2>2, <1>o DEF ReaderType
  <2>4. s \in ReaderType(h) /\ s.committed = g.committed /\ s.pendingRV = g.pendingRV /\ s.seenRV = g.seenRV
        /\ s.relist = g.relist /\ s.replaying = g.replaying /\ s.secured = g.secured /\ s.replayRV = g.replayRV
        /\ s.from = g.from /\ s.pc = g.pc /\ s.cursor = g.cursor /\ s.walk = g.walk /\ s.owed = o
        /\ s.rendered = g.rendered /\ s.batch = g.batch
    <3>1. g \in ReaderType(h) /\ o \in Nat
      BY ONLY <1>4, <1>o
    <3> QED BY ONLY <3>1, <2>3 DEF ReaderType
  <2> QED BY ONLY <1>4, <2>4
<1>b. PICK b \in Seq(1..h) : b = r.batch
  BY ONLY <1>t
<1>u. PICK u \in Seq(1..h) : u = s.batch
  BY ONLY <1>5, h \in Nat, TypesOf
<1>6. PICK i \in Nat, n \in Nat : Thin(b, u, i, n, e) /\ n = 0
  BY <1>1, <1>3, <1>5, <1>b, <1>u DEF Ingested
<1>7. /\ r.replaying /\ ~r.secured /\ r.from = (IF r.committed.mark = 0 THEN 0 ELSE r.committed.mark - Slack)
      /\ Covered(r.replayRV, A \cup EX!Range(b) \cup r.walk) /\ r.replayRV # 0
      /\ EX!Range(b) \cup r.walk \subseteq 1..r.replayRV /\ EX!Range(b) \cap r.walk = {} /\ r.committed.rv = 0
      /\ r.owed = Len(b) /\ r.pendingRV = 0 /\ (r.relist \/ StartMode = "start")
  BY <1>0, <1>b DEF StreamOK, HeldOK
<1>8. e \notin EX!Range(b) /\ \A j, k \in 1..Len(b) : b[j] = b[k] => j = k
  BY <1>0, <1>7, <1>b DEF BatchOK
<1>9. GrownOK(b, u, i, n, e)
  <2>1. h \in Nat /\ b \in Seq(1..h) /\ u \in Seq(1..h) /\ i \in Nat /\ n \in Nat /\ e \in 1..h /\ Thin(b, u, i, n, e)
    BY ONLY h \in Nat, <1>b, <1>u, <1>t, <1>6
  <2> QED BY ONLY <2>1, <1>8, Grown
<1>10. EX!Range(u) = EX!Range(b) \cup {e} /\ u # <<>> /\ (\A j, k \in 1..Len(u) : u[j] = u[k] => j = k) /\ Len(u) = Len(b) + 1
  <2>1. Len(u) = Len(b) - n + 1 /\ n = 0 /\ Len(b) \in Nat
    BY <1>6, <1>b, EntriesOf DEF Thin
  <2>2. Len(u) = Len(b) + 1
    BY ONLY <2>1
  <2> QED BY ONLY <1>6, <1>9, <2>2 DEF GrownOK
<1>11. BatchOK(s)
  BY ONLY <1>4, <1>5, <1>10, <1>u DEF BatchOK
<1>12. FreeOK(s, A)
  BY ONLY <1>5, <1>7 DEF FreeOK
<1>13. HeldOK(s, A)
  BY ONLY <1>5, <1>7, <1>10, <1>o, <1>u DEF HeldOK
<1>14. PositionOK(s, A)
  <2>1. Covered(s.committed.rv, A) /\ Covered(s.pendingRV, A \cup EX!Range(s.batch)) /\ ~Cold(s)
    BY ONLY <1>5, <1>7 DEF Covered, Cold
  <2> QED BY ONLY <1>10, <1>u, <2>1 DEF PositionOK
<1>15. StreamOK(s, A)
  <2>1. Covered(r.replayRV, A \cup EX!Range(u) \cup w) /\ EX!Range(u) \cup w \subseteq 1..r.replayRV /\ EX!Range(u) \cap w = {}
    BY <1>w, <1>7, <1>10 DEF Covered
  <2> QED BY ONLY <1>5, <1>7, <1>u, <2>1, r.pc = "walk" DEF StreamOK
<1> QED BY <1>5, <1>10, <1>u, <1>11, <1>12, <1>13, <1>14, <1>15 DEF ReaderOK

\* A stream begins; a batch that will be delivered again is dropped.
LEMMA BeginIs ==
  ASSUME NEW h \in Nat, Created[h] \in Nat, NEW r \in ReaderType(h), NEW replay \in BOOLEAN
  PROVE  LET s == Begin(r, replay)
         IN  /\ s \in ReaderType(h) /\ s.batch = r.batch /\ s.rendered = r.rendered /\ s.committed = r.committed
             /\ s.pendingRV = r.pendingRV /\ s.seenRV = r.seenRV /\ s.relist = r.relist /\ s.replaying = replay
             /\ s.secured = ~replay /\ s.replayRV = 0 /\ s.owed = 0
             /\ s.from = IF r.committed.mark = 0 THEN 0 ELSE r.committed.mark - Slack
<1>t. r.committed.mark \in 0..Created[h] /\ Slack \in Nat
  BY TypesOf, EventsAssumption
<1>f. PICK f \in Int : f = IF r.committed.mark = 0 THEN 0 ELSE r.committed.mark - Slack
  BY <1>t
<1>b. PICK b \in BOOLEAN : b = ~replay
  OBVIOUS
<1>s. PICK s : s = [r EXCEPT !.replaying = replay, !.secured = b, !.replayRV = 0, !.owed = 0, !.from = f]
  OBVIOUS
<1>1. Begin(r, replay) = s
  BY ONLY <1>f, <1>b, <1>s DEF Begin
<1>2. /\ s \in ReaderType(h) /\ s.batch = r.batch /\ s.rendered = r.rendered /\ s.committed = r.committed
      /\ s.pendingRV = r.pendingRV /\ s.seenRV = r.seenRV /\ s.relist = r.relist /\ s.replaying = replay
      /\ s.secured = b /\ s.replayRV = 0 /\ s.owed = 0 /\ s.from = f
  <2>1. 0 \in 0..h /\ 0 \in Nat /\ b \in BOOLEAN /\ f \in Int
    BY <1>b, <1>f
  <2> QED BY ONLY r \in ReaderType(h), replay \in BOOLEAN, <2>1, <1>s DEF ReaderType
<1> QED BY ONLY <1>1, <1>2, <1>b, <1>f

\* What Redelivering returns: an empty batch.
LEMMA RedeliveringIs ==
  ASSUME NEW h \in Nat, NEW r \in ReaderType(h), r.rendered <= Len(r.batch), r.batch = <<>> => r.pendingRV = 0
  PROVE  LET s == Redelivering(r)
         IN  /\ s \in ReaderType(h) /\ s.batch = <<>> /\ s.rendered = 0 /\ s.committed = r.committed
             /\ s.pendingRV = 0 /\ s.seenRV = r.seenRV /\ s.relist = r.relist /\ s.replaying = r.replaying
             /\ s.secured = r.secured /\ s.replayRV = r.replayRV /\ s.owed = r.owed /\ s.from = r.from
<1>1. CASE r.batch = <<>>
  <2>1. Redelivering(r) = r
    BY <1>1 DEF Redelivering
  <2>2. r.rendered = 0
    BY <1>1, TypesOf, NoEntries
  <2> QED BY <1>1, <2>1, <2>2
<1>2. CASE r.batch # <<>>
  <2>s. PICK s : s = [r EXCEPT !.batch = <<>>, !.rendered = 0, !.pendingRV = 0]
    OBVIOUS
  <2>1. Redelivering(r) = s
    BY <1>2, <2>s DEF Redelivering
  <2>2. <<>> \in Seq(1..h) /\ 0 \in Nat /\ 0 \in 0..h
    OBVIOUS
  <2>3. /\ s \in ReaderType(h) /\ s.batch = <<>> /\ s.rendered = 0 /\ s.committed = r.committed
        /\ s.pendingRV = 0 /\ s.seenRV = r.seenRV /\ s.relist = r.relist /\ s.replaying = r.replaying
        /\ s.secured = r.secured /\ s.replayRV = r.replayRV /\ s.owed = r.owed /\ s.from = r.from
    BY ONLY r \in ReaderType(h), <2>2, <2>s DEF ReaderType
  <2> QED BY ONLY <2>1, <2>3
<1> QED BY <1>1, <1>2

\* An empty batch keeps within its bound.
LEMMA EmptyBatch ==
  ASSUME NEW s, s.batch = <<>>, s.rendered = 0
  PROVE  BatchOK(s)
<1>1. Len(s.batch) = 0 /\ RetainCap \in Nat
  BY NoEntries, EventsAssumption
<1> QED BY <1>1 DEF BatchOK

\* A stream starts from the position.
LEMMA StartPositionedIs ==
  ASSUME NEW h \in Nat, Created[h] \in Nat, NEW r, NEW A, ReaderOK(r, A, h), r.committed.rv # 0, NEW q, q = Redelivering(Begin(r, FALSE)),
         NEW s, s = [q EXCEPT !.pc = "open", !.cursor = q.committed.rv]
  PROVE  ReaderOK(s, A, h) /\ s.pc = "open"
<1>0. r \in ReaderType(h) /\ BatchOK(r) /\ PositionOK(r, A)
  BY PartsOf
<1>g. PICK g : g = Begin(r, FALSE)
  OBVIOUS
<1>1. /\ g \in ReaderType(h) /\ g.batch = r.batch /\ g.rendered = r.rendered /\ g.committed = r.committed
      /\ g.pendingRV = r.pendingRV /\ g.replaying = FALSE /\ g.secured = ~FALSE /\ g.replayRV = 0 /\ g.owed = 0
  <2>1. FALSE \in BOOLEAN
    OBVIOUS
  <2> QED BY ONLY h \in Nat, Created[h] \in Nat, <1>0, <1>g, <2>1, BeginIs
<1>2. /\ q \in ReaderType(h) /\ q.batch = <<>> /\ q.rendered = 0 /\ q.committed = r.committed
      /\ q.pendingRV = 0 /\ q.replaying = FALSE /\ q.secured /\ q.replayRV = 0 /\ q.owed = 0
  <2>1. g.rendered <= Len(g.batch) /\ (g.batch = <<>> => g.pendingRV = 0) /\ q = Redelivering(g)
    BY <1>0, <1>1, <1>g DEF BatchOK, PositionOK
  <2>2. /\ q \in ReaderType(h) /\ q.batch = <<>> /\ q.rendered = 0 /\ q.committed = g.committed
        /\ q.pendingRV = 0 /\ q.replaying = g.replaying /\ q.secured = g.secured /\ q.replayRV = g.replayRV /\ q.owed = g.owed
    BY ONLY h \in Nat, <1>1, <2>1, RedeliveringIs
  <2> QED BY ONLY <1>1, <2>2
<1>c. PICK c \in 0..h : c = r.committed.rv
  BY <1>0, TypesOf
<1>3. /\ s \in ReaderType(h) /\ s.batch = <<>> /\ s.rendered = 0 /\ s.committed = r.committed
      /\ s.pendingRV = 0 /\ s.replaying = FALSE /\ s.secured /\ s.replayRV = 0 /\ s.owed = 0 /\ s.pc = "open" /\ s.cursor = c
  <2>1. "open" \in Stages /\ c \in 0..h
    BY <1>c DEF Stages
  <2>2. s = [q EXCEPT !.pc = "open", !.cursor = c]
    BY <1>2, <1>c
  <2> QED BY ONLY <1>2, <2>1, <2>2 DEF ReaderType
<1>4. c # 0 /\ Covered(c, A) /\ EX!Range(s.batch) = {} /\ s.committed.rv = c /\ Len(s.batch) = 0
  BY <1>0, <1>3, <1>c, NoEntries DEF PositionOK
<1>5. BatchOK(s)
  BY ONLY <1>3, EmptyBatch
<1>6. FreeOK(s, A)
  BY ONLY <1>3, <1>4 DEF FreeOK
<1>7. HeldOK(s, A)
  BY ONLY <1>3 DEF HeldOK
<1>8. PositionOK(s, A)
  BY ONLY <1>3, <1>4 DEF PositionOK, Covered, Cold
<1>9. StreamOK(s, A)
  BY ONLY <1>3, <1>4 DEF StreamOK, Covered
<1> QED BY <1>3, <1>5, <1>6, <1>7, <1>8, <1>9 DEF ReaderOK

\* The backlog is to be replayed: the position is held.
LEMMA StartReplayIs ==
  ASSUME NEW h \in Nat, Created[h] \in Nat, NEW r, NEW A, ReaderOK(r, A, h), r.committed.rv = 0, r.relist \/ StartMode = "start",
         NEW s, s = [Redelivering(Begin(r, TRUE)) EXCEPT !.pc = "list"]
  PROVE  ReaderOK(s, A, h) /\ s.pc = "list"
<1>0. r \in ReaderType(h) /\ BatchOK(r) /\ PositionOK(r, A)
  BY PartsOf
<1>g. PICK g : g = Begin(r, TRUE)
  OBVIOUS
<1>q. PICK q : q = Redelivering(g)
  OBVIOUS
<1>1. /\ g \in ReaderType(h) /\ g.batch = r.batch /\ g.rendered = r.rendered /\ g.committed = r.committed /\ g.relist = r.relist
      /\ g.pendingRV = r.pendingRV /\ g.replaying = TRUE /\ g.secured = ~TRUE /\ g.replayRV = 0 /\ g.owed = 0
      /\ g.from = IF r.committed.mark = 0 THEN 0 ELSE r.committed.mark - Slack
  <2>1. TRUE \in BOOLEAN
    OBVIOUS
  <2> QED BY ONLY h \in Nat, Created[h] \in Nat, <1>0, <1>g, <2>1, BeginIs
<1>2. /\ q \in ReaderType(h) /\ q.batch = <<>> /\ q.rendered = 0 /\ q.committed = r.committed /\ q.relist = r.relist
      /\ q.pendingRV = 0 /\ q.replaying /\ ~q.secured /\ q.replayRV = 0 /\ q.owed = 0
      /\ q.from = IF r.committed.mark = 0 THEN 0 ELSE r.committed.mark - Slack
  <2>1. g.rendered <= Len(g.batch) /\ (g.batch = <<>> => g.pendingRV = 0)
    BY <1>0, <1>1 DEF BatchOK, PositionOK
  <2>2. /\ q \in ReaderType(h) /\ q.batch = <<>> /\ q.rendered = 0 /\ q.committed = g.committed /\ q.relist = g.relist
        /\ q.pendingRV = 0 /\ q.replaying = g.replaying /\ q.secured = g.secured /\ q.replayRV = g.replayRV /\ q.owed = g.owed
        /\ q.from = g.from
    BY ONLY h \in Nat, <1>1, <1>q, <2>1, RedeliveringIs
  <2> QED BY ONLY <1>1, <2>2
<1>3. /\ s \in ReaderType(h) /\ s.batch = <<>> /\ s.rendered = 0 /\ s.committed = r.committed /\ s.relist = r.relist
      /\ s.pendingRV = 0 /\ s.replaying /\ ~s.secured /\ s.replayRV = 0 /\ s.owed = 0 /\ s.pc = "list"
      /\ s.from = IF r.committed.mark = 0 THEN 0 ELSE r.committed.mark - Slack
  <2>1. "list" \in Stages
    BY DEF Stages
  <2>2. s = [q EXCEPT !.pc = "list"]
    BY <1>g, <1>q
  <2> QED BY ONLY <1>2, <2>1, <2>2 DEF ReaderType
<1>4. Covered(0, A) /\ Covered(0, A \cup EX!Range(s.batch)) /\ EX!Range(s.batch) = {} /\ Len(s.batch) = 0 /\ ~Cold(s)
  <2>1. ~Cold(s)
    BY <1>3 DEF Cold
  <2>2. EX!Range(s.batch) = {} /\ Len(s.batch) = 0
    BY ONLY <1>3, NoEntries
  <2>3. \A S : Covered(0, S)
    BY ONLY TRUE DEF Covered
  <2> QED BY ONLY <2>1, <2>2, <2>3
<1>5. BatchOK(s)
  BY ONLY <1>3, EmptyBatch
<1>6. FreeOK(s, A)
  BY ONLY <1>3, <1>4 DEF FreeOK
<1>7. HeldOK(s, A)
  BY <1>3, <1>4 DEF HeldOK
<1>8. PositionOK(s, A)
  BY <1>3, <1>4 DEF PositionOK
<1>9. StreamOK(s, A)
  BY <1>3, <1>4 DEF StreamOK
<1> QED BY <1>3, <1>5, <1>6, <1>7, <1>8, <1>9 DEF ReaderOK

\* A stream without a position that begins where this process stopped reading, or at the present.
LEMMA StartColdIs ==
  ASSUME NEW h \in Nat, Created[h] \in Nat, NEW r, NEW A, ReaderOK(r, A, h), Cold(r), NEW c \in 0..h, c # 0, NEW B, A \subseteq B,
         Covered(c, B \cup EX!Range(r.batch)), EX!Range(r.batch) \subseteq 1..c,
         NEW s, s = [Begin(r, FALSE) EXCEPT !.pc = "open", !.cursor = c, !.seenRV = c]
  PROVE  ReaderOK(s, B, h) /\ s.pc = "open"
<1>0. r \in ReaderType(h) /\ BatchOK(r) /\ PositionOK(r, A) /\ FreeOK(r, A) /\ HeldOK(r, A)
  BY PartsOf
<1>g. PICK g : g = Begin(r, FALSE)
  OBVIOUS
<1>1. /\ g \in ReaderType(h) /\ g.batch = r.batch /\ g.rendered = r.rendered /\ g.committed = r.committed /\ g.relist = r.relist
      /\ g.pendingRV = r.pendingRV /\ g.replaying = FALSE /\ g.secured = ~FALSE /\ g.replayRV = 0 /\ g.owed = 0
  <2>1. FALSE \in BOOLEAN
    OBVIOUS
  <2> QED BY ONLY h \in Nat, Created[h] \in Nat, <1>0, <1>g, <2>1, BeginIs
<1>2. /\ s \in ReaderType(h) /\ s.batch = r.batch /\ s.rendered = r.rendered /\ s.committed = r.committed /\ s.relist = r.relist
      /\ s.pendingRV = r.pendingRV /\ s.replaying = FALSE /\ s.secured /\ s.replayRV = 0 /\ s.owed = 0
      /\ s.pc = "open" /\ s.cursor = c /\ s.seenRV = c
  <2>1. "open" \in Stages /\ c \in 0..h
    BY DEF Stages
  <2>2. s = [g EXCEPT !.pc = "open", !.cursor = c, !.seenRV = c]
    BY <1>g
  <2>3. /\ s \in ReaderType(h) /\ s.batch = g.batch /\ s.rendered = g.rendered /\ s.committed = g.committed /\ s.relist = g.relist
        /\ s.pendingRV = g.pendingRV /\ s.replaying = g.replaying /\ s.secured = g.secured /\ s.replayRV = g.replayRV /\ s.owed = g.owed
        /\ s.pc = "open" /\ s.cursor = c /\ s.seenRV = c
    BY ONLY <1>1, <2>1, <2>2 DEF ReaderType
  <2> QED BY ONLY <1>1, <2>3
<1>3. r.secured
  BY <1>0 DEF HeldOK, Cold
<1>5. BatchOK(s)
  BY ONLY <1>0, <1>2 DEF BatchOK
<1>6. FreeOK(s, B)
  <2>1. \A k \in 1..Len(r.batch) : \A x \in 1..r.batch[k] : x \in A \/ \E j \in 1..k : r.batch[j] = x
    BY ONLY <1>0, <1>3 DEF FreeOK
  <2>2. \A k \in 1..Len(s.batch) : \A x \in 1..s.batch[k] : x \in B \/ \E j \in 1..k : s.batch[j] = x
    BY ONLY <1>2, <2>1, A \subseteq B
  <2> QED BY ONLY <1>2, <2>2 DEF FreeOK
<1>7. HeldOK(s, B)
  BY ONLY <1>2 DEF HeldOK
<1>8. PositionOK(s, B)
  BY <1>0, <1>2 DEF PositionOK, Covered
<1>9. StreamOK(s, B)
  BY <1>2 DEF StreamOK
<1> QED BY <1>2, <1>5, <1>6, <1>7, <1>8, <1>9 DEF ReaderOK

\* There is nothing up to revision 0.
LEMMA ZeroCovered == \A S : Covered(0, S)
BY DEF Covered

\* The list: everything the server has is to be walked.
LEMMA ListIs ==
  ASSUME NEW h \in Nat, h # 0, NEW r, NEW A, ReaderOK(r, A, h), r.pc = "list",
         NEW s, s = [r EXCEPT !.pc = "walk", !.walk = 1..h, !.replayRV = h]
  PROVE  ReaderOK(s, A, h) /\ s.pc = "walk"
<1>0. r \in ReaderType(h) /\ BatchOK(r) /\ PositionOK(r, A) /\ FreeOK(r, A) /\ HeldOK(r, A) /\ StreamOK(r, A)
  BY PartsOf
<1>1. /\ s \in ReaderType(h) /\ s.batch = r.batch /\ s.rendered = r.rendered /\ s.committed = r.committed /\ s.relist = r.relist
      /\ s.pendingRV = r.pendingRV /\ s.seenRV = r.seenRV /\ s.replaying = r.replaying /\ s.secured = r.secured /\ s.replayRV = h
      /\ s.owed = r.owed /\ s.from = r.from /\ s.pc = "walk" /\ s.walk = 1..h
  <2>1. "walk" \in Stages /\ h \in 0..h /\ 1..h \in SUBSET (1..h)
    BY DEF Stages
  <2> QED BY ONLY <1>0, <2>1, s = [r EXCEPT !.pc = "walk", !.walk = 1..h, !.replayRV = h] DEF ReaderType
<1>2. /\ r.replaying /\ ~r.secured /\ r.batch = <<>> /\ r.committed.rv = 0
      /\ r.from = IF r.committed.mark = 0 THEN 0 ELSE r.committed.mark - Slack
  BY <1>0 DEF StreamOK
<1>3. EX!Range(s.batch) = {}
  BY ONLY <1>1, <1>2, NoEntries
<1>5. BatchOK(s)
  BY ONLY <1>0, <1>1 DEF BatchOK
<1>6. FreeOK(s, A)
  BY ONLY <1>1, <1>2 DEF FreeOK
<1>7. HeldOK(s, A)
  BY ONLY <1>0, <1>1, <1>2 DEF HeldOK
<1>8. PositionOK(s, A)
  BY ONLY <1>0, <1>1 DEF PositionOK, Cold
<1>9. StreamOK(s, A)
  BY <1>1, <1>2, <1>3 DEF StreamOK, Covered
<1> QED BY <1>1, <1>5, <1>6, <1>7, <1>8, <1>9 DEF ReaderOK

\* The walk is over.
LEMMA EndWalkIs ==
  ASSUME NEW h \in Nat, NEW r, NEW A, ReaderOK(r, A, h), r.pc = "walk", r.walk = {},
         NEW s, s = [NoteSeen(r, r.replayRV) EXCEPT !.replaying = FALSE, !.pc = "tail", !.cursor = r.replayRV]
  PROVE  ReaderOK(s, A, h) /\ s.pc = "tail"
<1>0. r \in ReaderType(h) /\ BatchOK(r) /\ PositionOK(r, A) /\ FreeOK(r, A) /\ HeldOK(r, A) /\ StreamOK(r, A)
  BY PartsOf
<1>t. r.replayRV \in 0..h /\ r.seenRV \in 0..h
  BY <1>0, TypesOf
<1>v. PICK v \in 0..h : v = (IF NewerRV(r.replayRV, r.seenRV) THEN r.replayRV ELSE r.seenRV)
  BY <1>t
<1>c. PICK c \in 0..h : c = r.replayRV
  BY <1>t
<1>1. /\ s \in ReaderType(h) /\ s.batch = r.batch /\ s.rendered = r.rendered /\ s.committed = r.committed /\ s.relist = r.relist
      /\ s.pendingRV = r.pendingRV /\ s.replaying = FALSE /\ s.secured = r.secured /\ s.replayRV = r.replayRV
      /\ s.owed = r.owed /\ s.pc = "tail" /\ s.cursor = c
  <2>q. PICK q : q = [r EXCEPT !.seenRV = v, !.replaying = FALSE, !.pc = "tail", !.cursor = c]
    OBVIOUS
  <2>1. NoteSeen(r, r.replayRV) = [r EXCEPT !.seenRV = v]
    BY ONLY <1>0, <1>v DEF NoteSeen, ReaderType
  <2>2. s = q
    BY <1>0, <2>1, <2>q, <1>c DEF ReaderType
  <2>3. "tail" \in Stages /\ FALSE \in BOOLEAN /\ v \in 0..h /\ c \in 0..h
    BY <1>v, <1>c DEF Stages
  <2>4. /\ q \in ReaderType(h) /\ q.batch = r.batch /\ q.rendered = r.rendered /\ q.committed = r.committed /\ q.relist = r.relist
        /\ q.pendingRV = r.pendingRV /\ q.replaying = FALSE /\ q.secured = r.secured /\ q.replayRV = r.replayRV
        /\ q.owed = r.owed /\ q.pc = "tail" /\ q.cursor = c
    BY ONLY <1>0, <2>3, <2>q DEF ReaderType
  <2> QED BY ONLY <2>2, <2>4
<1>2. /\ ~r.secured /\ Covered(c, A \cup EX!Range(r.batch)) /\ c # 0 /\ EX!Range(r.batch) \subseteq 1..c /\ r.committed.rv = 0
  BY <1>0, <1>c DEF StreamOK, Covered
<1>3. r.owed = Len(r.batch) /\ r.pendingRV = 0 /\ (r.relist \/ StartMode = "start")
  BY ONLY <1>0, <1>2 DEF HeldOK
<1>5. BatchOK(s)
  BY ONLY <1>0, <1>1 DEF BatchOK
<1>6. FreeOK(s, A)
  BY ONLY <1>1, <1>2 DEF FreeOK
<1>7. HeldOK(s, A)
  BY ONLY <1>1, <1>2, <1>3, <1>c DEF HeldOK
<1>8. PositionOK(s, A)
  <2>1. ~Cold(s)
    BY ONLY <1>1, <1>3 DEF Cold
  <2> QED BY ONLY <1>0, <1>1, <2>1 DEF PositionOK
<1>9. StreamOK(s, A)
  BY ONLY <1>1, <1>2 DEF StreamOK
<1> QED BY <1>1, <1>5, <1>6, <1>7, <1>8, <1>9 DEF ReaderOK

\* The backlog is exported: the watch opens with the position free.
LEMMA EndReplayIs ==
  ASSUME NEW h \in Nat, Created[h] \in Nat, NEW r, NEW A, ReaderOK(r, A, h), r.pc = "tail", r.batch = <<>>,
         NEW s, s = [MaybeSecureReplay(r) EXCEPT !.pc = "open"]
  PROVE  ReaderOK(s, A, h) /\ s.pc = "open"
<1>0. r \in ReaderType(h) /\ BatchOK(r) /\ PositionOK(r, A) /\ FreeOK(r, A) /\ HeldOK(r, A) /\ StreamOK(r, A)
  BY PartsOf
<1>r. ~r.replaying /\ Covered(r.cursor, A \cup EX!Range(r.batch)) /\ r.cursor # 0 /\ r.pendingRV = 0 /\ EX!Range(r.batch) = {} /\ Len(r.batch) = 0
  BY <1>0, NoEntries DEF StreamOK, PositionOK
<1>q. PICK q : q = MaybeSecureReplay(r)
  OBVIOUS
<1>1. /\ q \in ReaderType(h) /\ SameStream(r, q) /\ q.pendingRV = 0 /\ q.secured /\ q.owed = 0 /\ q.replayRV = 0
      /\ Covered(q.committed.rv, A) /\ (Cold(q) => Cold(r))
  <2>1. CASE r.secured
    <3>1. q = r
      BY ONLY <1>q, <2>1 DEF MaybeSecureReplay
    <3>2. r.owed = 0 /\ r.replayRV = 0 /\ Covered(r.committed.rv, A)
      BY ONLY <1>0, <2>1 DEF FreeOK, PositionOK
    <3> QED BY ONLY <1>0, <1>r, <2>1, <3>1, <3>2 DEF SameStream
  <2>2. CASE ~r.secured
    <3>1. r.owed = 0 /\ Covered(r.replayRV, A \cup EX!Range(r.batch)) /\ r.replayRV # 0
      BY ONLY <1>0, <1>r, <2>2 DEF HeldOK
    <3>2. q = SecureReplay(r)
      BY ONLY <1>q, <1>r, <2>2, <3>1 DEF MaybeSecureReplay
    <3>3. /\ q \in ReaderType(h) /\ SameStream(r, q) /\ q.pendingRV = r.pendingRV
          /\ q.secured /\ q.owed = 0 /\ q.replayRV = 0
          /\ q.committed.rv = IF r.replayRV # 0 /\ NewerRV(r.replayRV, r.committed.rv) THEN r.replayRV ELSE r.committed.rv
      <4>1. r \in ReaderType(h) /\ (r.secured => r.owed = 0 /\ r.replayRV = 0)
        BY ONLY <1>0, <2>2
      <4> QED BY ONLY h \in Nat, Created[h] \in Nat, <3>2, <4>1, SecureIs
    <3>4. r.committed.rv = 0
      BY ONLY <1>0, <2>2, r.pc = "tail" DEF StreamOK
    <3>5. q.committed.rv = r.replayRV
      BY ONLY <3>1, <3>3, <3>4 DEF NewerRV
    <3>6. Covered(r.replayRV, A)
      BY ONLY <1>r, <3>1 DEF Covered
    <3> QED BY ONLY <1>r, <3>1, <3>3, <3>5, <3>6 DEF Cold
  <2> QED BY ONLY <2>1, <2>2
<1>2. /\ s \in ReaderType(h) /\ s.batch = r.batch /\ s.rendered = r.rendered /\ s.seenRV = r.seenRV /\ ~s.replaying /\ s.pendingRV = 0
      /\ s.secured /\ s.owed = 0 /\ s.replayRV = 0 /\ s.committed = q.committed /\ s.relist = q.relist /\ s.pc = "open" /\ s.cursor = r.cursor
  <2>1. s = [q EXCEPT !.pc = "open"]
    BY <1>q
  <2>2. "open" \in Stages
    BY DEF Stages
  <2>3. /\ s \in ReaderType(h) /\ s.batch = q.batch /\ s.rendered = q.rendered /\ s.seenRV = q.seenRV /\ s.replaying = q.replaying
        /\ s.pendingRV = q.pendingRV
        /\ s.secured = q.secured /\ s.owed = q.owed /\ s.replayRV = q.replayRV /\ s.committed = q.committed /\ s.relist = q.relist
        /\ s.pc = "open" /\ s.cursor = q.cursor
    BY ONLY <1>1, <2>1, <2>2 DEF ReaderType
  <2> QED BY ONLY <1>1, <1>r, <2>3 DEF SameStream
<1>5. BatchOK(s)
  BY ONLY <1>0, <1>2 DEF BatchOK
<1>6. FreeOK(s, A)
  BY ONLY <1>r, <1>2 DEF FreeOK
<1>7. HeldOK(s, A)
  BY ONLY <1>2 DEF HeldOK
<1>8. PositionOK(s, A)
  <2>1. Cold(s) => Cold(r)
    BY ONLY <1>1, <1>2 DEF Cold
  <2>2. Cold(r) /\ r.seenRV # 0 => Covered(r.seenRV, A \cup EX!Range(r.batch)) /\ EX!Range(r.batch) \subseteq 1..r.seenRV
    BY ONLY <1>0 DEF PositionOK
  <2> QED BY ONLY <1>1, <1>2, <2>1, <2>2, ZeroCovered DEF PositionOK
<1>9. StreamOK(s, A)
  BY ONLY <1>r, <1>2 DEF StreamOK
<1> QED BY <1>2, <1>5, <1>6, <1>7, <1>8, <1>9 DEF ReaderOK

\* The position is gone from the server.
LEMMA ExpireIs ==
  ASSUME NEW h \in Nat, NEW r, NEW A, ReaderOK(r, A, h), r.pc \in {"walk", "open", "watch"},
         NEW w \in SUBSET (1..h), NEW s, s = [Expire(r) EXCEPT !.walk = w]
  PROVE  ReaderOK(s, A, h) /\ s.pc = "start"
<1>0. r \in ReaderType(h) /\ BatchOK(r) /\ PositionOK(r, A) /\ FreeOK(r, A) /\ HeldOK(r, A) /\ StreamOK(r, A)
  BY PartsOf
<1>p. PICK pos : pos = [r.committed EXCEPT !.rv = 0]
  OBVIOUS
<1>1. pos \in Positions(h) /\ pos.rv = 0
  <2>1. r.committed \in Positions(h) /\ 0 \in 0..h
    BY <1>0, TypesOf
  <2> QED BY ONLY <1>p, <2>1 DEF Positions
<1>b. PICK b \in BOOLEAN : b = (r.relist \/ r.committed.mark # 0 \/ r.held # 0)
  OBVIOUS
<1>2. s = [r EXCEPT !.committed = pos, !.pendingRV = 0, !.seenRV = 0, !.pc = "start", !.relist = b, !.walk = w]
  <2>q. PICK q : q = [r EXCEPT !.committed = pos, !.pendingRV = 0, !.seenRV = 0, !.pc = "start", !.relist = b]
    OBVIOUS
  <2>1. Expire(r) = q
    BY ONLY <1>0, <1>p, <1>b, <2>q DEF Expire, ReaderType
  <2>2. s = [q EXCEPT !.walk = w]
    BY <2>1
  <2> QED BY ONLY <1>0, <2>q, <2>2 DEF ReaderType
<1>3. /\ s \in ReaderType(h) /\ s.batch = r.batch /\ s.rendered = r.rendered /\ s.committed = pos /\ s.relist = b
      /\ s.pendingRV = 0 /\ s.seenRV = 0 /\ s.replaying = r.replaying /\ s.secured = r.secured /\ s.replayRV = r.replayRV
      /\ s.owed = r.owed /\ s.pc = "start"
  <2>1. "start" \in Stages /\ 0 \in 0..h /\ b \in BOOLEAN /\ w \in SUBSET (1..h)
    BY <1>b DEF Stages
  <2> QED BY ONLY <1>0, <1>1, <1>2, <2>1 DEF ReaderType
<1>4. ~r.secured => (b \/ StartMode = "start")
  <2>1. ~r.secured => r.committed.rv = 0 /\ r.replaying
    BY <1>0 DEF StreamOK
  <2> QED BY <1>0, <1>b, <2>1 DEF HeldOK
<1>4a. ~r.secured => r.replaying
  BY <1>0 DEF StreamOK
<1>5. BatchOK(s)
  BY ONLY <1>0, <1>3 DEF BatchOK
<1>6. FreeOK(s, A)
  BY ONLY <1>0, <1>3 DEF FreeOK
<1>7. HeldOK(s, A)
  BY ONLY <1>0, <1>3, <1>4, <1>4a DEF HeldOK
<1>8. PositionOK(s, A)
  BY ONLY <1>1, <1>3, ZeroCovered DEF PositionOK
<1>9. StreamOK(s, A)
  BY ONLY <1>3 DEF StreamOK
<1> QED BY <1>3, <1>5, <1>6, <1>7, <1>8, <1>9 DEF ReaderOK

\* A bookmark: applied at once when nothing is buffered.
\* What a bookmark at the cursor makes of a reader.
Bookmarks(r, q, s) ==
  /\ q = [NoteSeen(r, r.cursor) EXCEPT !.pendingRV = r.cursor]
  /\ s = IF q.batch = <<>> THEN ApplyPendingBookmark(q) ELSE q

\* A bookmark vouches for what was delivered.
LEMMA BookmarkIs ==
  ASSUME NEW h \in Nat, Created[h] \in Nat, NEW r, NEW A, ReaderOK(r, A, h), r.pc = "watch", NEW q, NEW s, Bookmarks(r, q, s)
  PROVE  ReaderOK(s, A, h) /\ s.pc = "watch" /\ s.cursor = r.cursor /\ s.batch = r.batch
<1> /\ q = [NoteSeen(r, r.cursor) EXCEPT !.pendingRV = r.cursor]
    /\ s = IF q.batch = <<>> THEN ApplyPendingBookmark(q) ELSE q
  BY DEF Bookmarks
<1>0. r \in ReaderType(h) /\ BatchOK(r) /\ PositionOK(r, A) /\ FreeOK(r, A) /\ HeldOK(r, A) /\ StreamOK(r, A)
  BY PartsOf
<1>t. r.cursor \in 0..h /\ r.seenRV \in 0..h /\ r.committed.rv \in 0..h
  BY <1>0, TypesOf
<1>c. PICK c \in 0..h : c = r.cursor
  BY <1>t
<1>v. PICK v \in 0..h : v = (IF NewerRV(c, r.seenRV) THEN c ELSE r.seenRV)
  BY <1>t, <1>c
<1>1. /\ q \in ReaderType(h) /\ q.batch = r.batch /\ q.rendered = r.rendered /\ q.committed = r.committed /\ q.relist = r.relist
      /\ q.pendingRV = c /\ q.seenRV = v /\ q.replaying = r.replaying /\ q.secured = r.secured /\ q.replayRV = r.replayRV
      /\ q.owed = r.owed /\ q.pc = "watch" /\ q.cursor = c
  <2>1. NoteSeen(r, r.cursor) = [r EXCEPT !.seenRV = v]
    BY ONLY <1>0, <1>v, <1>c DEF NoteSeen, ReaderType
  <2>2. q = [r EXCEPT !.seenRV = v, !.pendingRV = c]
    BY <1>0, <2>1, <1>c DEF ReaderType
  <2>3. v \in 0..h /\ c \in 0..h
    BY ONLY <1>v, <1>c
  <2>4. /\ q \in ReaderType(h) /\ q.batch = r.batch /\ q.rendered = r.rendered /\ q.committed = r.committed /\ q.relist = r.relist
        /\ q.pendingRV = c /\ q.seenRV = v /\ q.replaying = r.replaying /\ q.secured = r.secured /\ q.replayRV = r.replayRV
        /\ q.owed = r.owed /\ q.pc = r.pc /\ q.cursor = r.cursor
    BY ONLY <1>0, <2>2, <2>3 DEF ReaderType
  <2> QED BY ONLY <1>c, <2>4, r.pc = "watch"
<1>2. /\ r.secured /\ ~r.replaying /\ Covered(c, A \cup EX!Range(r.batch)) /\ EX!Range(r.batch) \subseteq 1..c /\ c # 0
      /\ r.owed = 0 /\ r.replayRV = 0 /\ Covered(r.committed.rv, A)
  BY <1>0, <1>c DEF StreamOK, FreeOK, PositionOK
<1>3. CASE r.batch # <<>>
  <2>1. s = q
    BY <1>1, <1>3
  <2>5. BatchOK(q)
    BY ONLY <1>0, <1>1 DEF BatchOK
  <2>6. FreeOK(q, A)
    BY ONLY <1>0, <1>1 DEF FreeOK
  <2>7. HeldOK(q, A)
    BY ONLY <1>1, <1>2 DEF HeldOK
  <2>8. PositionOK(q, A)
    <3>1. Cold(q) => Cold(r)
      BY ONLY <1>1 DEF Cold
    <3>2. v = c \/ (v = r.seenRV /\ v # 0)
      BY ONLY <1>v, <1>2, <1>t, <1>c DEF NewerRV
    <3>3. Cold(r) /\ r.seenRV # 0 => Covered(r.seenRV, A \cup EX!Range(r.batch)) /\ EX!Range(r.batch) \subseteq 1..r.seenRV
      BY ONLY <1>0 DEF PositionOK
    <3> QED BY ONLY <1>1, <1>2, <1>3, <3>1, <3>2, <3>3 DEF PositionOK
  <2>9. StreamOK(q, A)
    BY ONLY <1>1, <1>2 DEF StreamOK
  <2> QED BY ONLY <1>1, <1>c, <2>1, <2>5, <2>6, <2>7, <2>8, <2>9 DEF ReaderOK
<1>4. CASE r.batch = <<>>
  <2>1. s = ApplyPendingBookmark(q)
    BY <1>1, <1>4
  <2>2. /\ s \in ReaderType(h) /\ SameStream(q, s) /\ s.pendingRV = 0
        /\ s.secured /\ s.owed = 0 /\ s.replayRV = 0
        /\ s.committed.rv = IF NewerRV(q.pendingRV, q.committed.rv) THEN q.pendingRV ELSE q.committed.rv
    <3>1. q \in ReaderType(h) /\ q.secured /\ q.owed = 0 /\ q.replayRV = 0
      BY ONLY <1>1, <1>2
    <3> QED BY ONLY h \in Nat, Created[h] \in Nat, <2>1, <3>1, ApplyIs
  <2>3. EX!Range(r.batch) = {} /\ Len(r.batch) = 0
    BY ONLY <1>4, NoEntries
  <2>4. Covered(s.committed.rv, A) /\ s.committed.rv # 0
    <3>1. Covered(c, A)
      BY ONLY <1>2, <2>3 DEF Covered
    <3> QED BY ONLY <1>1, <1>2, <2>2, <3>1 DEF NewerRV
  <2>5. /\ s.batch = r.batch /\ s.rendered = r.rendered /\ s.replaying = r.replaying /\ s.pc = "watch" /\ s.cursor = c
    BY ONLY <1>1, <2>2 DEF SameStream
  <2>6. BatchOK(s)
    BY ONLY <1>0, <2>5 DEF BatchOK
  <2>7. FreeOK(s, A)
    BY ONLY <1>2, <2>2, <2>3, <2>5 DEF FreeOK
  <2>8. HeldOK(s, A)
    BY ONLY <2>2 DEF HeldOK
  <2>9. PositionOK(s, A)
    BY ONLY <2>2, <2>4, ZeroCovered DEF PositionOK, Cold
  <2>10. StreamOK(s, A)
    BY ONLY <1>2, <2>2, <2>5 DEF StreamOK
  <2> QED BY ONLY <1>c, <2>2, <2>5, <2>6, <2>7, <2>8, <2>9, <2>10 DEF ReaderOK
<1> QED BY ONLY <1>3, <1>4

\* A new term loads the stored position, or goes on from the reader's own.
LEMMA LoadIs ==
  ASSUME NEW h \in Nat, NEW r, NEW A, ReaderOK(r, A, h), stored \in Positions(h), Covered(stored.rv, A),
         NEW q \in LoadPosition(r), NEW s, s = [q EXCEPT !.pc = "start"]
  PROVE  ReaderOK(s, A, h) /\ s.pc = "start"
<1>0. r \in ReaderType(h) /\ BatchOK(r) /\ PositionOK(r, A) /\ FreeOK(r, A) /\ HeldOK(r, A) /\ StreamOK(r, A)
  BY PartsOf
<1>t. r.committed \in Positions(h) /\ r.relist \in BOOLEAN /\ "start" \in Stages
  BY <1>0, TypesOf DEF Stages
<1>c. PICK c \in Positions(h) : c = (IF stored.rv # 0 THEN stored ELSE r.committed)
  BY <1>t
<1>b. PICK b \in BOOLEAN : b = (r.relist \/ StartMode = "auto")
  OBVIOUS
<1>1. CASE q = [r EXCEPT !.committed = IF stored.rv # 0 THEN stored ELSE @]
  <2>1. s = [r EXCEPT !.committed = c, !.pc = "start"]
    BY <1>0, <1>c, <1>1 DEF ReaderType
  <2>2. /\ s \in ReaderType(h) /\ s.batch = r.batch /\ s.rendered = r.rendered /\ s.committed = c /\ s.relist = r.relist
        /\ s.pendingRV = r.pendingRV /\ s.seenRV = r.seenRV /\ s.replaying = r.replaying /\ s.secured = r.secured
        /\ s.replayRV = r.replayRV /\ s.owed = r.owed /\ s.pc = "start"
    BY ONLY <1>0, <1>t, <1>c, <2>1 DEF ReaderType
  <2>3. Covered(c.rv, A) /\ (c.rv = 0 => r.committed.rv = 0)
    <3>1. Covered(r.committed.rv, A)
      BY ONLY <1>0 DEF PositionOK
    <3> QED BY <1>c, <3>1
  <2>5. BatchOK(s)
    BY ONLY <1>0, <2>2 DEF BatchOK
  <2>6. FreeOK(s, A)
    BY ONLY <1>0, <2>2 DEF FreeOK
  <2>7. HeldOK(s, A)
    BY ONLY <1>0, <2>2, <2>3 DEF HeldOK
  <2>8. PositionOK(s, A)
    BY ONLY <1>0, <2>2, <2>3 DEF PositionOK, Cold
  <2>9. StreamOK(s, A)
    BY ONLY <2>2 DEF StreamOK
  <2> QED BY ONLY <2>2, <2>5, <2>6, <2>7, <2>8, <2>9 DEF ReaderOK
<1>2. CASE q = [r EXCEPT !.relist = @ \/ StartMode = "auto"]
  <2>1. s = [r EXCEPT !.relist = b, !.pc = "start"]
    BY <1>0, <1>b, <1>2 DEF ReaderType
  <2>2. /\ s \in ReaderType(h) /\ s.batch = r.batch /\ s.rendered = r.rendered /\ s.committed = r.committed /\ s.relist = b
        /\ s.pendingRV = r.pendingRV /\ s.seenRV = r.seenRV /\ s.replaying = r.replaying /\ s.secured = r.secured
        /\ s.replayRV = r.replayRV /\ s.owed = r.owed /\ s.pc = "start"
    BY ONLY <1>0, <1>t, <1>b, <2>1 DEF ReaderType
  <2>3. r.relist => b
    BY ONLY <1>b
  <2>5. BatchOK(s)
    BY ONLY <1>0, <2>2 DEF BatchOK
  <2>6. FreeOK(s, A)
    BY ONLY <1>0, <2>2 DEF FreeOK
  <2>7. HeldOK(s, A)
    BY ONLY <1>0, <2>2, <2>3 DEF HeldOK
  <2>8. PositionOK(s, A)
    BY ONLY <1>0, <2>2, <2>3 DEF PositionOK, Cold
  <2>9. StreamOK(s, A)
    BY ONLY <2>2 DEF StreamOK
  <2> QED BY ONLY <2>2, <2>5, <2>6, <2>7, <2>8, <2>9 DEF ReaderOK
<1> QED BY <1>1, <1>2 DEF LoadPosition

\* A process that starts over.
LEMMA NewIs ==
  ASSUME NEW h \in Nat, Created[h] \in Nat, NEW A
  PROVE  ReaderOK(NewReader, A, h) /\ NewReader.pc = "off"
<1>s. PICK s : s = NewReader
  OBVIOUS
<1>1. /\ s.batch = <<>> /\ s.rendered = 0 /\ s.committed = NoPosition /\ s.pendingRV = 0 /\ s.seenRV = 0 /\ ~s.replaying
      /\ s.secured /\ s.replayRV = 0 /\ s.owed = 0 /\ s.pc = "off" /\ s.committed.rv = 0
  BY <1>s DEF NewReader, NoPosition
<1>2. s \in ReaderType(h)
  <2>1. /\ <<>> \in Seq(1..h) /\ 0 \in Nat /\ 0 \in 0..h /\ 0 \in 0..Created[h] /\ 0 \in Int /\ "off" \in Stages
        /\ {} \in SUBSET (1..h) /\ FALSE \in BOOLEAN /\ TRUE \in BOOLEAN
    BY DEF Stages
  <2>2. NoPosition \in Positions(h)
    BY ONLY <2>1 DEF NoPosition, Positions
  <2> QED BY ONLY <1>s, <2>1, <2>2 DEF NewReader, ReaderType
<1>3. Len(s.batch) = 0
  BY ONLY <1>1, NoEntries
<1>5. BatchOK(s)
  BY ONLY <1>1, EmptyBatch
<1>6. FreeOK(s, A)
  BY ONLY <1>1, <1>3 DEF FreeOK
<1>7. HeldOK(s, A)
  BY ONLY <1>1 DEF HeldOK
<1>8. PositionOK(s, A)
  BY ONLY <1>1, ZeroCovered DEF PositionOK
<1>9. StreamOK(s, A)
  BY ONLY <1>1 DEF StreamOK
<1> QED BY ONLY <1>s, <1>1, <1>2, <1>5, <1>6, <1>7, <1>8, <1>9 DEF ReaderOK

\* The initial states satisfy the invariant.
LEMMA InitKeeps == Init => EventsInv
<1> SUFFICES ASSUME Init PROVE EventsInv
  OBVIOUS
<1>1. /\ head = 1 /\ compacted = 0 /\ reader = [p \in Replicas |-> NewReader]
      /\ leader = {} /\ stored = NoPosition /\ exported = {} /\ counted = {} /\ skipped = {}
  BY DEF Init
<1>2. head \in 1..MaxRV /\ Created[head] \in Nat
  <2>1. MaxRV \in Nat /\ MaxRV >= 1 /\ Created \in [1..MaxRV -> Nat \ {0}]
    BY EventsAssumption
  <2> QED BY <1>1, <2>1
<1>3. stored \in Positions(head) /\ stored.rv = 0
  <2>1. 0 \in 0..head /\ 0 \in 0..Created[head]
    BY <1>1, <1>2
  <2> QED BY <1>1, <2>1 DEF Positions, NoPosition
<1>4. ServerOK
  BY <1>1, <1>2, <1>3, ZeroCovered DEF ServerOK
<1>5. ASSUME NEW p \in Replicas PROVE ReaderOK(reader[p], Accounted, head) /\ (p \in leader <=> reader[p].pc # "off")
  <2>1. head \in Nat
    BY <1>1
  <2>2. ReaderOK(NewReader, Accounted, head) /\ NewReader.pc = "off"
    BY ONLY <1>2, <2>1, NewIs
  <2> QED BY <1>1, <2>2
<1> QED BY <1>1, <1>4, <1>5 DEF EventsInv

\* The API server moves on.
LEMMA CreateKeeps == EventsInv /\ CreateEvent => EventsInv'
<1> SUFFICES ASSUME EventsInv, CreateEvent PROVE EventsInv'
  OBVIOUS
<1>1. /\ head < MaxRV /\ head' = head + 1 /\ compacted' = compacted /\ reader' = reader /\ leader' = leader /\ stored' = stored
      /\ exported' = exported /\ counted' = counted /\ skipped' = skipped
  BY DEF CreateEvent
<1>2. ServerOK /\ head \in Nat /\ MaxRV \in Nat /\ head \in 1..MaxRV
  BY HeadFacts DEF EventsInv, ServerOK
<1>3. head + 1 \in 1..MaxRV
  BY <1>1, <1>2
<1>4. Positions(head) \subseteq Positions(head + 1) /\ ReaderType(head) \subseteq ReaderType(head + 1)
  BY ONLY <1>2, <1>3, TypesGrow
<1>5. Accounted' = Accounted
  BY <1>1 DEF Accounted
<1>6. ServerOK'
  <2>1. compacted \in 0..(head + 1) /\ exported \subseteq 1..(head + 1) /\ counted \subseteq 1..(head + 1) /\ skipped \subseteq 1..(head + 1)
    BY <1>2 DEF ServerOK
  <2>2. stored \in Positions(head + 1)
    BY <1>2, <1>4 DEF ServerOK
  <2> QED BY <1>1, <1>2, <1>3, <1>5, <2>1, <2>2 DEF ServerOK
<1>7. ASSUME NEW p \in Replicas PROVE ReaderOK(reader[p], Accounted, head + 1) /\ (p \in leader <=> reader[p].pc # "off")
  BY <1>4 DEF EventsInv, ReaderOK
<1> QED BY <1>1, <1>5, <1>6, <1>7 DEF EventsInv

\* A compaction keeps the invariant.
LEMMA CompactKeeps == EventsInv /\ Compact => EventsInv'
<1> SUFFICES ASSUME EventsInv, Compact PROVE EventsInv'
  OBVIOUS
<1>1. /\ head' = head /\ compacted' = head /\ reader' = reader /\ leader' = leader /\ stored' = stored
      /\ exported' = exported /\ counted' = counted /\ skipped' = skipped
  BY DEF Compact
<1>2. ServerOK /\ head \in Nat
  BY HeadFacts DEF EventsInv
<1>5. Accounted' = Accounted
  BY <1>1 DEF Accounted
<1>6. ServerOK'
  BY <1>1, <1>2, <1>5 DEF ServerOK
<1> QED BY <1>1, <1>5, <1>6 DEF EventsInv

-----------------------------------------------------------------------------
(* The steps.                                                                *)

\* The step of EmptiedIsCommitted.
CommitsEmptied ==
  \A p \in leader \cap leader' :
    (reader[p].pc = "watch" /\ reader'[p].pc = "watch" /\ reader'[p].batch = <<>>)
      => \A e \in EX!Range(reader[p].batch) \cup (reader[p].cursor + 1)..reader'[p].cursor : e =< reader'[p].committed.rv

\* What the invariant says of one reader.
LEMMA ReaderFacts ==
  ASSUME EventsInv, NEW p \in Replicas
  PROVE  /\ ServerOK /\ head \in Nat /\ head # 0 /\ Created[head] \in Nat /\ RetainCap \in Nat /\ RetainCap >= 1
         /\ ReaderOK(reader[p], Accounted, head) /\ (p \in leader <=> reader[p].pc # "off")
         /\ reader[p] \in ReaderType(head)
<1>1. ServerOK /\ ReaderOK(reader[p], Accounted, head) /\ (p \in leader <=> reader[p].pc # "off")
  BY DEF EventsInv
<1>2. head \in Nat /\ head >= 1 /\ Created[head] \in Nat /\ RetainCap \in Nat /\ RetainCap >= 1
  BY ONLY <1>1, HeadFacts
<1>3. reader[p] \in ReaderType(head)
  BY ONLY <1>1 DEF ReaderOK
<1> QED BY ONLY <1>1, <1>2, <1>3

\* A reader that is left alone commits nothing.
LEMMA RestCommits ==
  ASSUME EventsInv, NEW p \in Replicas, reader'[p] = reader[p]
  PROVE  reader'[p].batch = <<>> =>
            \A e \in EX!Range(reader[p].batch) \cup (reader[p].cursor + 1)..reader'[p].cursor : e =< reader'[p].committed.rv
<1> SUFFICES ASSUME reader[p].batch = <<>>,
                    NEW e \in EX!Range(reader[p].batch) \cup (reader[p].cursor + 1)..reader[p].cursor
             PROVE  FALSE
  OBVIOUS
<1>1. reader[p].cursor \in Nat
  BY ReaderFacts DEF ReaderType
<1>2. EX!Range(reader[p].batch) = {}
  BY DEF EX!Range
<1> QED BY ONLY <1>1, <1>2, e \in EX!Range(reader[p].batch) \cup (reader[p].cursor + 1)..reader[p].cursor

\* One reader moves and commits what it emptied.
LEMMA OneCommits ==
  ASSUME EventsInv, NEW p \in Replicas, \A q \in Replicas : q # p => reader'[q] = reader[q],
         p \in leader' /\ reader[p].pc = "watch" /\ reader'[p].pc = "watch" /\ reader'[p].batch = <<>> =>
            \A e \in EX!Range(reader[p].batch) \cup (reader[p].cursor + 1)..reader'[p].cursor : e =< reader'[p].committed.rv
  PROVE  CommitsEmptied
<1> SUFFICES ASSUME NEW q \in leader \cap leader', reader[q].pc = "watch" /\ reader'[q].pc = "watch" /\ reader'[q].batch = <<>>
             PROVE  \A e \in EX!Range(reader[q].batch) \cup (reader[q].cursor + 1)..reader'[q].cursor : e =< reader'[q].committed.rv
  BY DEF CommitsEmptied
<1>1. q \in Replicas
  BY DEF EventsInv, ServerOK
<1>2. CASE q = p
  BY <1>2
<1>3. CASE q # p
  BY <1>1, <1>3, RestCommits
<1> QED BY <1>2, <1>3

\* A step that leaves every reader alone.
LEMMA NoneCommits ==
  ASSUME EventsInv, reader' = reader
  PROVE  CommitsEmptied
<1>1. leader \subseteq Replicas
  BY DEF EventsInv, ServerOK
<1> QED BY <1>1, RestCommits DEF CommitsEmptied

\* Only the leading reader moves, before or after its watch.
LEMMA QuietMove ==
  ASSUME EventsInv, NEW p \in Replicas, p \in leader, NEW s, reader' = [reader EXCEPT ![p] = s],
         UNCHANGED <<Server, leader, stored, exported, counted, skipped>>, ReaderOK(s, Accounted, head), s.pc # "off",
         reader[p].pc # "watch" \/ s.pc # "watch"
  PROVE  EventsInv' /\ CommitsEmptied
<1>1. EventsInv' /\ reader'[p] = s
  BY ONLY EventsInv, p \in Replicas, p \in leader, reader' = [reader EXCEPT ![p] = s],
          UNCHANGED <<Server, leader, stored, exported, counted, skipped>>, ReaderOK(s, Accounted, head), s.pc # "off", ReaderMoves
<1>2. \A q \in Replicas : q # p => reader'[q] = reader[q]
  BY DEF EventsInv
<1>3. ~(reader[p].pc = "watch" /\ reader'[p].pc = "watch")
  BY <1>1
<1> QED BY ONLY EventsInv, p \in Replicas, <1>1, <1>2, <1>3, OneCommits

\* StartPositioned keeps the invariant and commits what it emptied.
LEMMA StartPositionedKeeps ==
  ASSUME EventsInv, NEW p \in Replicas, StartPositioned(p)
  PROVE  EventsInv' /\ CommitsEmptied
<1>f. /\ ServerOK /\ head \in Nat /\ head # 0 /\ Created[head] \in Nat /\ RetainCap \in Nat /\ RetainCap >= 1
      /\ ReaderOK(reader[p], Accounted, head) /\ (p \in leader <=> reader[p].pc # "off")
  BY ReaderFacts
<1>q. PICK q : q = Redelivering(Begin(reader[p], FALSE))
  OBVIOUS
<1>s. PICK s : s = [q EXCEPT !.pc = "open", !.cursor = q.committed.rv]
  OBVIOUS
<1>1. p \in leader /\ reader[p].pc = "start" /\ reader[p].committed.rv # 0
  BY DEF StartPositioned, At
<1>2. ReaderOK(s, Accounted, head) /\ s.pc = "open"
  <2>h. PICK h : h = head
    OBVIOUS
  <2>r. PICK r : r = reader[p]
    OBVIOUS
  <2>a. PICK A : A = Accounted
    OBVIOUS
  <2>1. /\ h \in Nat /\ Created[h] \in Nat /\ ReaderOK(r, A, h) /\ r.committed.rv # 0
        /\ q = Redelivering(Begin(r, FALSE)) /\ s = [q EXCEPT !.pc = "open", !.cursor = q.committed.rv]
    BY ONLY <1>f, <1>q, <1>s, <1>1, <2>h, <2>r, <2>a
  <2>2. ReaderOK(s, A, h) /\ s.pc = "open"
    BY ONLY <2>1, StartPositionedIs
  <2> QED BY ONLY <2>2, <2>h, <2>a
<1>3. reader' = [reader EXCEPT ![p] = s] /\ UNCHANGED <<Server, leader, stored, exported, counted, skipped>>
  BY <1>q, <1>s DEF StartPositioned
<1>4. s.pc # "off" /\ reader[p].pc # "watch"
  BY <1>1, <1>2
<1> QED BY ONLY EventsInv, p \in Replicas, <1>1, <1>2, <1>3, <1>4, QuietMove

\* StartReplay keeps the invariant and commits what it emptied.
LEMMA StartReplayKeeps ==
  ASSUME EventsInv, NEW p \in Replicas, StartReplay(p)
  PROVE  EventsInv' /\ CommitsEmptied
<1>f. /\ ServerOK /\ head \in Nat /\ head # 0 /\ Created[head] \in Nat /\ RetainCap \in Nat /\ RetainCap >= 1
      /\ ReaderOK(reader[p], Accounted, head) /\ (p \in leader <=> reader[p].pc # "off")
  BY ReaderFacts
<1>s. PICK s : s = [Redelivering(Begin(reader[p], TRUE)) EXCEPT !.pc = "list"]
  OBVIOUS
<1>1. p \in leader /\ reader[p].pc = "start" /\ reader[p].committed.rv = 0 /\ (reader[p].relist \/ StartMode = "start")
  BY DEF StartReplay, At
<1>2. ReaderOK(s, Accounted, head) /\ s.pc = "list"
  BY ONLY <1>f, <1>s, <1>1, StartReplayIs
<1>3. reader' = [reader EXCEPT ![p] = s] /\ UNCHANGED <<Server, leader, stored, exported, counted, skipped>>
  BY <1>s DEF StartReplay, EventsInv
<1>4. s.pc # "off" /\ reader[p].pc # "watch"
  BY <1>1, <1>2
<1> QED BY ONLY EventsInv, p \in Replicas, <1>1, <1>2, <1>3, <1>4, QuietMove

\* StartSeen keeps the invariant and commits what it emptied.
LEMMA StartSeenKeeps ==
  ASSUME EventsInv, NEW p \in Replicas, StartSeen(p)
  PROVE  EventsInv' /\ CommitsEmptied
<1>f. /\ ServerOK /\ head \in Nat /\ head # 0 /\ Created[head] \in Nat /\ RetainCap \in Nat /\ RetainCap >= 1
      /\ ReaderOK(reader[p], Accounted, head) /\ (p \in leader <=> reader[p].pc # "off") /\ reader[p] \in ReaderType(head)
  BY ReaderFacts
<1>c. PICK c : c = reader[p].seenRV
  OBVIOUS
<1>b. PICK b : b = Begin(reader[p], FALSE)
  OBVIOUS
<1>s. PICK s : s = [b EXCEPT !.pc = "open", !.cursor = c, !.seenRV = c]
  OBVIOUS
<1>1. p \in leader /\ reader[p].pc = "start" /\ Cold(reader[p]) /\ c # 0
  BY <1>c DEF StartSeen, At
<1>4. b \in ReaderType(head) /\ b.seenRV = c
  BY ONLY <1>f, <1>b, <1>c, BeginIs, FALSE \in BOOLEAN
<1>5. s = [b EXCEPT !.pc = "open", !.cursor = c]
  BY ONLY <1>s, <1>4 DEF ReaderType
<1>6. /\ c \in 0..head /\ Covered(c, Accounted \cup EX!Range(reader[p].batch)) /\ EX!Range(reader[p].batch) \subseteq 1..c
      /\ Accounted \subseteq Accounted
  BY ONLY <1>f, <1>c, <1>1 DEF ReaderOK, ReaderType, PositionOK
<1>2. ReaderOK(s, Accounted, head) /\ s.pc = "open"
  <2>h. PICK h : h = head
    OBVIOUS
  <2>r. PICK r : r = reader[p]
    OBVIOUS
  <2>a. PICK A : A = Accounted
    OBVIOUS
  <2>b. PICK B : B = A
    OBVIOUS
  <2>1. /\ h \in Nat /\ Created[h] \in Nat /\ ReaderOK(r, A, h) /\ Cold(r) /\ c \in 0..h /\ c # 0 /\ A \subseteq B
        /\ Covered(c, B \cup EX!Range(r.batch)) /\ EX!Range(r.batch) \subseteq 1..c
        /\ s = [Begin(r, FALSE) EXCEPT !.pc = "open", !.cursor = c, !.seenRV = c]
    BY ONLY <1>f, <1>b, <1>s, <1>1, <1>6, <2>h, <2>r, <2>a, <2>b
  <2>2. ReaderOK(s, B, h) /\ s.pc = "open"
    BY ONLY <2>1, StartColdIs
  <2> QED BY ONLY <2>2, <2>h, <2>a, <2>b
<1>3. reader' = [reader EXCEPT ![p] = s] /\ UNCHANGED <<Server, leader, stored, exported, counted, skipped>>
  BY <1>5, <1>b, <1>c DEF StartSeen, EventsInv
<1>7. s.pc # "off" /\ reader[p].pc # "watch"
  BY <1>1, <1>2
<1> QED BY ONLY EventsInv, p \in Replicas, <1>1, <1>2, <1>3, <1>7, QuietMove

\* StartCurrent keeps the invariant and commits what it emptied.
LEMMA StartCurrentKeeps ==
  ASSUME EventsInv, NEW p \in Replicas, StartCurrent(p)
  PROVE  EventsInv' /\ CommitsEmptied
<1>f. /\ ServerOK /\ head \in Nat /\ head # 0 /\ Created[head] \in Nat /\ RetainCap \in Nat /\ RetainCap >= 1
      /\ ReaderOK(reader[p], Accounted, head) /\ (p \in leader <=> reader[p].pc # "off") /\ reader[p] \in ReaderType(head)
  BY ReaderFacts
<1>s. PICK s : s = [Begin(reader[p], FALSE) EXCEPT !.pc = "open", !.cursor = head, !.seenRV = head]
  OBVIOUS
<1>1. p \in leader /\ reader[p].pc = "start" /\ Cold(reader[p])
  BY DEF StartCurrent, At
<1>2. /\ reader' = [reader EXCEPT ![p] = s] /\ head' = head /\ compacted' = compacted /\ leader' = leader /\ stored' = stored
      /\ exported' = exported /\ counted' = counted /\ skipped' = skipped \cup 1..head
  BY <1>s DEF StartCurrent, Server, EventsInv
<1>3. Accounted \subseteq Accounted' /\ 1..head \subseteq Accounted'
  BY ONLY <1>2 DEF Accounted
<1>4. ServerOK'
  BY ONLY <1>f, <1>2, <1>3 DEF ServerOK, Covered
<1>b. EX!Range(reader[p].batch) \subseteq 1..head
  <2>1. reader[p].batch \in Seq(1..head)
    BY ONLY <1>f DEF ReaderType
  <2> QED BY ONLY <2>1, EntriesOf
<1>5. PICK B : B = Accounted'
  OBVIOUS
<1>6. Accounted \subseteq B /\ Covered(head, B \cup EX!Range(reader[p].batch)) /\ head \in 0..head
  BY ONLY <1>3, <1>5, <1>f DEF Covered
<1>7. ReaderOK(s, B, head) /\ s.pc = "open"
  <2>h. PICK h : h = head
    OBVIOUS
  <2>r. PICK r : r = reader[p]
    OBVIOUS
  <2>a. PICK A : A = Accounted
    OBVIOUS
  <2>1. /\ h \in Nat /\ Created[h] \in Nat /\ ReaderOK(r, A, h) /\ Cold(r) /\ h \in 0..h /\ h # 0 /\ A \subseteq B
        /\ Covered(h, B \cup EX!Range(r.batch)) /\ EX!Range(r.batch) \subseteq 1..h
        /\ s = [Begin(r, FALSE) EXCEPT !.pc = "open", !.cursor = h, !.seenRV = h]
    BY ONLY <1>f, <1>b, <1>s, <1>1, <1>6, <2>h, <2>r, <2>a
  <2>2. ReaderOK(s, B, h) /\ s.pc = "open"
    BY ONLY <2>1, StartColdIs
  <2> QED BY ONLY <2>2, <2>h
<1>8. /\ ReaderOK(s, Accounted', head) /\ ((p \in leader') <=> s.pc # "off") /\ Accounted \subseteq Accounted'
      /\ \A q \in Replicas : q # p => (q \in leader' <=> q \in leader)
  BY ONLY <1>1, <1>2, <1>3, <1>5, <1>7
<1>9. EventsInv' /\ reader'[p] = s
  BY ONLY EventsInv, p \in Replicas, <1>2, <1>4, <1>8, OneReaderMoves
<1>10. \A q \in Replicas : q # p => reader'[q] = reader[q]
  BY <1>2 DEF EventsInv
<1>11. ~(reader[p].pc = "watch")
  BY <1>1
<1> QED BY ONLY EventsInv, p \in Replicas, <1>9, <1>10, <1>11, OneCommits

\* ListBacklog keeps the invariant and commits what it emptied.
LEMMA ListBacklogKeeps ==
  ASSUME EventsInv, NEW p \in Replicas, ListBacklog(p)
  PROVE  EventsInv' /\ CommitsEmptied
<1>f. /\ ServerOK /\ head \in Nat /\ head # 0 /\ Created[head] \in Nat /\ RetainCap \in Nat /\ RetainCap >= 1
      /\ ReaderOK(reader[p], Accounted, head) /\ (p \in leader <=> reader[p].pc # "off") /\ reader[p] \in ReaderType(head)
  BY ReaderFacts
<1>h. PICK h : h = head
  OBVIOUS
<1>r. PICK r : r = reader[p]
  OBVIOUS
<1>a. PICK A : A = Accounted
  OBVIOUS
<1>g. h \in Nat /\ h # 0 /\ Created[h] \in Nat /\ ReaderOK(r, A, h) /\ r \in ReaderType(h)
  BY ONLY <1>f, <1>h, <1>r, <1>a
<1>s. PICK s : s = [r EXCEPT !.pc = "walk", !.walk = 1..h, !.replayRV = h]
  OBVIOUS
<1>1. p \in leader /\ r.pc = "list"
  BY <1>r, <1>h DEF ListBacklog, At
<1>2. ReaderOK(s, A, h) /\ s.pc = "walk"
  BY ONLY <1>g, <1>s, <1>1, ListIs
<1>3. reader' = [reader EXCEPT ![p] = s] /\ UNCHANGED <<Server, leader, stored, exported, counted, skipped>>
  BY <1>s, <1>r, <1>h DEF ListBacklog, EventsInv
<1>4. ReaderOK(s, Accounted, head) /\ s.pc # "off" /\ (reader[p].pc # "watch" \/ s.pc # "watch")
  BY ONLY <1>1, <1>2, <1>h, <1>r, <1>a
<1> QED BY ONLY EventsInv, p \in Replicas, <1>1, <1>3, <1>4, QuietMove

\* EndWalk keeps the invariant and commits what it emptied.
LEMMA EndWalkKeeps ==
  ASSUME EventsInv, NEW p \in Replicas, EndWalk(p)
  PROVE  EventsInv' /\ CommitsEmptied
<1>f. /\ ServerOK /\ head \in Nat /\ head # 0 /\ Created[head] \in Nat /\ RetainCap \in Nat /\ RetainCap >= 1
      /\ ReaderOK(reader[p], Accounted, head) /\ (p \in leader <=> reader[p].pc # "off") /\ reader[p] \in ReaderType(head)
  BY ReaderFacts
<1>h. PICK h : h = head
  OBVIOUS
<1>r. PICK r : r = reader[p]
  OBVIOUS
<1>a. PICK A : A = Accounted
  OBVIOUS
<1>g. h \in Nat /\ h # 0 /\ Created[h] \in Nat /\ ReaderOK(r, A, h) /\ r \in ReaderType(h)
  BY ONLY <1>f, <1>h, <1>r, <1>a
<1>s. PICK s : s = [NoteSeen(r, r.replayRV) EXCEPT !.replaying = FALSE, !.pc = "tail", !.cursor = r.replayRV]
  OBVIOUS
<1>1. p \in leader /\ r.pc = "walk" /\ r.walk = {}
  BY <1>r, <1>h DEF EndWalk, At
<1>2. ReaderOK(s, A, h) /\ s.pc = "tail"
  BY ONLY <1>g, <1>s, <1>1, EndWalkIs
<1>3. reader' = [reader EXCEPT ![p] = s] /\ UNCHANGED <<Server, leader, stored, exported, counted, skipped>>
  BY <1>s, <1>r, <1>h DEF EndWalk, EventsInv
<1>4. ReaderOK(s, Accounted, head) /\ s.pc # "off" /\ (reader[p].pc # "watch" \/ s.pc # "watch")
  BY ONLY <1>1, <1>2, <1>h, <1>r, <1>a
<1> QED BY ONLY EventsInv, p \in Replicas, <1>1, <1>3, <1>4, QuietMove

\* EndReplay keeps the invariant and commits what it emptied.
LEMMA EndReplayKeeps ==
  ASSUME EventsInv, NEW p \in Replicas, EndReplay(p)
  PROVE  EventsInv' /\ CommitsEmptied
<1>f. /\ ServerOK /\ head \in Nat /\ head # 0 /\ Created[head] \in Nat /\ RetainCap \in Nat /\ RetainCap >= 1
      /\ ReaderOK(reader[p], Accounted, head) /\ (p \in leader <=> reader[p].pc # "off") /\ reader[p] \in ReaderType(head)
  BY ReaderFacts
<1>h. PICK h : h = head
  OBVIOUS
<1>r. PICK r : r = reader[p]
  OBVIOUS
<1>a. PICK A : A = Accounted
  OBVIOUS
<1>g. h \in Nat /\ h # 0 /\ Created[h] \in Nat /\ ReaderOK(r, A, h) /\ r \in ReaderType(h)
  BY ONLY <1>f, <1>h, <1>r, <1>a
<1>s. PICK s : s = [MaybeSecureReplay(r) EXCEPT !.pc = "open"]
  OBVIOUS
<1>1. p \in leader /\ r.pc = "tail" /\ r.batch = <<>>
  BY <1>r, <1>h DEF EndReplay, At
<1>2. ReaderOK(s, A, h) /\ s.pc = "open"
  BY ONLY <1>g, <1>s, <1>1, EndReplayIs
<1>3. reader' = [reader EXCEPT ![p] = s] /\ UNCHANGED <<Server, leader, stored, exported, counted, skipped>>
  BY <1>s, <1>r, <1>h DEF EndReplay, EventsInv
<1>4. ReaderOK(s, Accounted, head) /\ s.pc # "off" /\ (reader[p].pc # "watch" \/ s.pc # "watch")
  BY ONLY <1>1, <1>2, <1>h, <1>r, <1>a
<1> QED BY ONLY EventsInv, p \in Replicas, <1>1, <1>3, <1>4, QuietMove

\* WalkExpired keeps the invariant and commits what it emptied.
LEMMA WalkExpiredKeeps ==
  ASSUME EventsInv, NEW p \in Replicas, WalkExpired(p)
  PROVE  EventsInv' /\ CommitsEmptied
<1>f. /\ ServerOK /\ head \in Nat /\ head # 0 /\ Created[head] \in Nat /\ RetainCap \in Nat /\ RetainCap >= 1
      /\ ReaderOK(reader[p], Accounted, head) /\ (p \in leader <=> reader[p].pc # "off") /\ reader[p] \in ReaderType(head)
  BY ReaderFacts
<1>h. PICK h : h = head
  OBVIOUS
<1>r. PICK r : r = reader[p]
  OBVIOUS
<1>a. PICK A : A = Accounted
  OBVIOUS
<1>g. h \in Nat /\ h # 0 /\ Created[h] \in Nat /\ ReaderOK(r, A, h) /\ r \in ReaderType(h)
  BY ONLY <1>f, <1>h, <1>r, <1>a
<1>s. PICK s : s = [Expire(r) EXCEPT !.walk = {}]
  OBVIOUS
<1>1. p \in leader /\ r.pc = "walk"
  BY <1>r, <1>h DEF WalkExpired, At
<1>w. {} \in SUBSET (1..h) /\ r.pc \in {"walk", "open", "watch"}
  BY ONLY <1>1
<1>2. ReaderOK(s, A, h) /\ s.pc = "start"
  BY ONLY <1>g, <1>s, <1>1, <1>w, ExpireIs
<1>3. reader' = [reader EXCEPT ![p] = s] /\ UNCHANGED <<Server, leader, stored, exported, counted, skipped>>
  BY <1>s, <1>r, <1>h DEF WalkExpired, EventsInv
<1>4. ReaderOK(s, Accounted, head) /\ s.pc # "off" /\ (reader[p].pc # "watch" \/ s.pc # "watch")
  BY ONLY <1>1, <1>2, <1>h, <1>r, <1>a
<1> QED BY ONLY EventsInv, p \in Replicas, <1>1, <1>3, <1>4, QuietMove

\* OpenWatch keeps the invariant and commits what it emptied.
LEMMA OpenWatchKeeps ==
  ASSUME EventsInv, NEW p \in Replicas, OpenWatch(p)
  PROVE  EventsInv' /\ CommitsEmptied
<1>f. /\ ServerOK /\ head \in Nat /\ head # 0 /\ Created[head] \in Nat /\ RetainCap \in Nat /\ RetainCap >= 1
      /\ ReaderOK(reader[p], Accounted, head) /\ (p \in leader <=> reader[p].pc # "off") /\ reader[p] \in ReaderType(head)
  BY ReaderFacts
<1>h. PICK h : h = head
  OBVIOUS
<1>r. PICK r : r = reader[p]
  OBVIOUS
<1>a. PICK A : A = Accounted
  OBVIOUS
<1>g. h \in Nat /\ h # 0 /\ Created[h] \in Nat /\ ReaderOK(r, A, h) /\ r \in ReaderType(h)
  BY ONLY <1>f, <1>h, <1>r, <1>a
<1>s. PICK s : s = [r EXCEPT !.pc = "watch"]
  OBVIOUS
<1>1. p \in leader /\ r.pc = "open"
  BY <1>r, <1>h DEF OpenWatch, At
<1>2. ReaderOK(s, A, h) /\ s.pc = "watch"
  BY ONLY <1>g, <1>s, <1>1, OpenIs
<1>3. reader' = [reader EXCEPT ![p] = s] /\ UNCHANGED <<Server, leader, stored, exported, counted, skipped>>
  BY <1>s, <1>r, <1>h DEF OpenWatch, EventsInv
<1>4. ReaderOK(s, Accounted, head) /\ s.pc # "off" /\ (reader[p].pc # "watch" \/ s.pc # "watch")
  BY ONLY <1>1, <1>2, <1>h, <1>r, <1>a
<1> QED BY ONLY EventsInv, p \in Replicas, <1>1, <1>3, <1>4, QuietMove

\* WatchExpired keeps the invariant and commits what it emptied.
LEMMA WatchExpiredKeeps ==
  ASSUME EventsInv, NEW p \in Replicas, WatchExpired(p)
  PROVE  EventsInv' /\ CommitsEmptied
<1>f. /\ ServerOK /\ head \in Nat /\ head # 0 /\ Created[head] \in Nat /\ RetainCap \in Nat /\ RetainCap >= 1
      /\ ReaderOK(reader[p], Accounted, head) /\ (p \in leader <=> reader[p].pc # "off") /\ reader[p] \in ReaderType(head)
  BY ReaderFacts
<1>h. PICK h : h = head
  OBVIOUS
<1>r. PICK r : r = reader[p]
  OBVIOUS
<1>a. PICK A : A = Accounted
  OBVIOUS
<1>g. h \in Nat /\ h # 0 /\ Created[h] \in Nat /\ ReaderOK(r, A, h) /\ r \in ReaderType(h)
  BY ONLY <1>f, <1>h, <1>r, <1>a
<1>s. PICK s : s = Expire(r)
  OBVIOUS
<1>1. p \in leader /\ r.pc \in {"walk", "open", "watch"}
  BY <1>r, <1>h DEF WatchExpired, At
<1>w. PICK w \in SUBSET (1..h) : s = [Expire(r) EXCEPT !.walk = w]
  BY ONLY <1>g, <1>s DEF ReaderType, Expire
<1>2. ReaderOK(s, A, h) /\ s.pc = "start"
  BY ONLY <1>g, <1>1, <1>w, ExpireIs
<1>3. reader' = [reader EXCEPT ![p] = s] /\ UNCHANGED <<Server, leader, stored, exported, counted, skipped>>
  BY <1>s, <1>r, <1>h DEF WatchExpired, EventsInv
<1>4. ReaderOK(s, Accounted, head) /\ s.pc # "off" /\ (reader[p].pc # "watch" \/ s.pc # "watch")
  BY ONLY <1>1, <1>2, <1>h, <1>r, <1>a
<1> QED BY ONLY EventsInv, p \in Replicas, <1>1, <1>3, <1>4, QuietMove

\* WalkFails keeps the invariant and commits what it emptied.
LEMMA WalkFailsKeeps ==
  ASSUME EventsInv, NEW p \in Replicas, WalkFails(p)
  PROVE  EventsInv' /\ CommitsEmptied
<1>f. /\ ServerOK /\ head \in Nat /\ head # 0 /\ Created[head] \in Nat /\ RetainCap \in Nat /\ RetainCap >= 1
      /\ ReaderOK(reader[p], Accounted, head) /\ (p \in leader <=> reader[p].pc # "off") /\ reader[p] \in ReaderType(head)
  BY ReaderFacts
<1>h. PICK h : h = head
  OBVIOUS
<1>r. PICK r : r = reader[p]
  OBVIOUS
<1>a. PICK A : A = Accounted
  OBVIOUS
<1>g. h \in Nat /\ h # 0 /\ Created[h] \in Nat /\ ReaderOK(r, A, h) /\ r \in ReaderType(h)
  BY ONLY <1>f, <1>h, <1>r, <1>a
<1>s. PICK s : s = [r EXCEPT !.pc = "start", !.walk = {}]
  OBVIOUS
<1>1. p \in leader /\ r.pc = "walk"
  BY <1>r, <1>h DEF WalkFails, At
<1>2. ReaderOK(s, A, h) /\ s.pc = "start"
  <2>1. s \in ReaderType(h) /\ s.pc = "start"
    BY ONLY <1>g, <1>s DEF ReaderType, Stages
  <2>2. s = [r EXCEPT !.pc = s.pc, !.walk = s.walk, !.cursor = s.cursor]
    BY ONLY <1>g, <1>s DEF ReaderType
  <2>3. s.pc \in {"start", "off"}
    BY ONLY <2>1
  <2> QED BY ONLY <1>g, <2>1, <2>2, <2>3, StreamEnds
<1>3. reader' = [reader EXCEPT ![p] = s] /\ UNCHANGED <<Server, leader, stored, exported, counted, skipped>>
  BY <1>s, <1>r, <1>h DEF WalkFails, EventsInv
<1>4. ReaderOK(s, Accounted, head) /\ s.pc # "off" /\ (reader[p].pc # "watch" \/ s.pc # "watch")
  BY ONLY <1>1, <1>2, <1>h, <1>r, <1>a
<1> QED BY ONLY EventsInv, p \in Replicas, <1>1, <1>3, <1>4, QuietMove

\* WatchClosed keeps the invariant and commits what it emptied.
LEMMA WatchClosedKeeps ==
  ASSUME EventsInv, NEW p \in Replicas, WatchClosed(p)
  PROVE  EventsInv' /\ CommitsEmptied
<1>f. /\ ServerOK /\ head \in Nat /\ head # 0 /\ Created[head] \in Nat /\ RetainCap \in Nat /\ RetainCap >= 1
      /\ ReaderOK(reader[p], Accounted, head) /\ (p \in leader <=> reader[p].pc # "off") /\ reader[p] \in ReaderType(head)
  BY ReaderFacts
<1>h. PICK h : h = head
  OBVIOUS
<1>r. PICK r : r = reader[p]
  OBVIOUS
<1>a. PICK A : A = Accounted
  OBVIOUS
<1>g. h \in Nat /\ h # 0 /\ Created[h] \in Nat /\ ReaderOK(r, A, h) /\ r \in ReaderType(h)
  BY ONLY <1>f, <1>h, <1>r, <1>a
<1>s. PICK s : s = [r EXCEPT !.pc = "start"]
  OBVIOUS
<1>1. p \in leader /\ r.pc \in {"open", "watch"}
  BY <1>r, <1>h DEF WatchClosed, At
<1>2. ReaderOK(s, A, h) /\ s.pc = "start"
  <2>1. s \in ReaderType(h) /\ s.pc = "start"
    BY ONLY <1>g, <1>s DEF ReaderType, Stages
  <2>2. s = [r EXCEPT !.pc = s.pc, !.walk = s.walk, !.cursor = s.cursor]
    BY ONLY <1>g, <1>s DEF ReaderType
  <2>3. s.pc \in {"start", "off"}
    BY ONLY <2>1
  <2> QED BY ONLY <1>g, <2>1, <2>2, <2>3, StreamEnds
<1>3. reader' = [reader EXCEPT ![p] = s] /\ UNCHANGED <<Server, leader, stored, exported, counted, skipped>>
  BY <1>s, <1>r, <1>h DEF WatchClosed, EventsInv
<1>4. ReaderOK(s, Accounted, head) /\ s.pc # "off" /\ (reader[p].pc # "watch" \/ s.pc # "watch")
  BY ONLY <1>1, <1>2, <1>h, <1>r, <1>a
<1> QED BY ONLY EventsInv, p \in Replicas, <1>1, <1>3, <1>4, QuietMove

\* The other readers are left alone by an export attempt of p.
LEMMA OthersRest ==
  ASSUME EventsInv, NEW p \in Replicas, NEW r, NEW gone, FlushIfFull(p, r, gone) \/ TryFlush(p, r, gone) \/ Keep(p, r, gone)
  PROVE  \A q \in Replicas : q # p => reader'[q] = reader[q]
<1>1. ASSUME TryFlush(p, r, gone) PROVE \A q \in Replicas : q # p => reader'[q] = reader[q]
  BY <1>1 DEF TryFlush, EventsInv
<1>2. ASSUME Keep(p, r, gone) PROVE \A q \in Replicas : q # p => reader'[q] = reader[q]
  BY <1>2 DEF Keep, EventsInv
<1>3. FlushIfFull(p, r, gone) => TryFlush(p, r, gone) \/ Keep(p, r, gone)
  BY DEF FlushIfFull
<1> QED BY <1>1, <1>2, <1>3

\* ReplayItem keeps the invariant and commits what it emptied.
LEMMA ReplayItemKeeps ==
  ASSUME EventsInv, FilterDropsOnlyDone, NEW p \in Replicas, NEW e \in reader[p].walk, ReplayItem(p, e)
  PROVE  EventsInv' /\ CommitsEmptied
<1>f. /\ ServerOK /\ head \in Nat /\ head # 0 /\ Created[head] \in Nat /\ RetainCap \in Nat /\ RetainCap >= 1
      /\ ReaderOK(reader[p], Accounted, head) /\ (p \in leader <=> reader[p].pc # "off") /\ reader[p] \in ReaderType(head)
  BY ReaderFacts
<1>h. PICK h : h = head
  OBVIOUS
<1>r. PICK r : r = reader[p]
  OBVIOUS
<1>a. PICK A : A = Accounted
  OBVIOUS
<1>g. h \in Nat /\ h # 0 /\ Created[h] \in Nat /\ ReaderOK(r, A, h) /\ r \in ReaderType(h)
  BY ONLY <1>f, <1>h, <1>r, <1>a
<1>1. p \in leader /\ r.pc = "walk" /\ e \in r.walk /\ UNCHANGED <<Server, leader, skipped>>
  BY <1>r DEF ReplayItem, At
<1>u. PICK u : u = [r EXCEPT !.walk = @ \ {e}]
  OBVIOUS
<1>w. Wanted(u, e) <=> Wanted(r, e)
  BY ONLY <1>g, <1>u DEF Wanted, ReaderType
<1>n. PICK N \in SUBSET (1..head) : N = {}
  OBVIOUS
<1>b. A \cup N = A
  BY ONLY <1>n
<1>2. ASSUME ~Wanted(u, e), Keep(p, u, N) PROVE EventsInv' /\ \A q \in Replicas : q # p => reader'[q] = reader[q]
  <2>1. e \in A
    BY <1>2, <1>w, <1>1, <1>a, <1>r DEF FilterDropsOnlyDone
  <2>2. ReaderOK(u, A, h) /\ u.pc = "walk"
    BY ONLY <1>g, <1>1, <1>u, <2>1, FilteredIs
  <2>3. ReaderOK(u, Accounted \cup N, head) /\ u.pc # "off"
    BY ONLY <2>2, <1>b, <1>a, <1>h
  <2>4. EventsInv'
    BY ONLY EventsInv, p \in Replicas, <1>1, <1>n, <1>2, <2>3, KeepKeeps
  <2> QED BY ONLY EventsInv, p \in Replicas, <1>2, <2>4, OthersRest
<1>3. ASSUME NEW s, s = [Ingest(u, e) EXCEPT !.owed = @ + 1], Len(u.batch) < RetainCap, FlushIfFull(p, s, N)
      PROVE  EventsInv' /\ \A q \in Replicas : q # p => reader'[q] = reader[q]
  <2>1. Len(r.batch) < RetainCap
    BY ONLY <1>3, <1>u, <1>g DEF ReaderType
  <2>2. s = [Ingest([r EXCEPT !.walk = @ \ {e}], e) EXCEPT !.owed = @ + 1]
    BY ONLY <1>3, <1>u
  <2>3. ReaderOK(s, A, h) /\ s.batch # <<>> /\ s.pc = "walk"
    <3>1. h \in Nat /\ ReaderOK(r, A, h) /\ r.pc = "walk" /\ e \in r.walk
      BY ONLY <1>g, <1>1
    <3> QED BY ONLY <3>1, <2>1, <2>2, WantedIs
  <2>4. ReaderOK(s, Accounted \cup N, head) /\ s.batch # <<>> /\ s.pc # "off"
    BY ONLY <2>3, <1>b, <1>a, <1>h
  <2>5. EventsInv'
    BY ONLY EventsInv, p \in Replicas, <1>1, <1>n, <1>3, <2>4, FlushIfFullKeeps
  <2> QED BY ONLY EventsInv, p \in Replicas, <1>3, <2>5, OthersRest
<1>4. \/ ~Wanted(u, e) /\ Keep(p, u, N)
      \/ Len(u.batch) < RetainCap /\ FlushIfFull(p, [Ingest(u, e) EXCEPT !.owed = @ + 1], N)
  BY <1>u, <1>r, <1>n DEF ReplayItem
<1>5. EventsInv' /\ \A q \in Replicas : q # p => reader'[q] = reader[q]
  BY ONLY <1>2, <1>3, <1>4
<1>6. ~(reader[p].pc = "watch")
  BY <1>1, <1>r
<1> QED BY ONLY EventsInv, p \in Replicas, <1>5, <1>6, OneCommits

\* HoldWalk keeps the invariant and commits what it emptied.
LEMMA HoldWalkKeeps ==
  ASSUME EventsInv, NEW p \in Replicas, HoldWalk(p)
  PROVE  EventsInv' /\ CommitsEmptied
<1>f. /\ ServerOK /\ head \in Nat /\ head # 0 /\ Created[head] \in Nat /\ RetainCap \in Nat /\ RetainCap >= 1
      /\ ReaderOK(reader[p], Accounted, head) /\ (p \in leader <=> reader[p].pc # "off") /\ reader[p] \in ReaderType(head)
  BY ReaderFacts
<1>h. PICK h : h = head
  OBVIOUS
<1>r. PICK r : r = reader[p]
  OBVIOUS
<1>a. PICK A : A = Accounted
  OBVIOUS
<1>g. h \in Nat /\ h # 0 /\ Created[h] \in Nat /\ ReaderOK(r, A, h) /\ r \in ReaderType(h)
  BY ONLY <1>f, <1>h, <1>r, <1>a
<1>1. p \in leader /\ r.pc = "walk" /\ Len(r.batch) >= RetainCap /\ UNCHANGED <<Server, leader, skipped>> /\ TryFlush(p, r, {})
  BY <1>r DEF HoldWalk, At
<1>2. r.batch # <<>>
  <2>1. r.batch \in Seq(1..h)
    BY ONLY <1>g DEF ReaderType
  <2> QED BY ONLY <1>f, <1>1, <2>1, NoEntries
<1>n. PICK N \in SUBSET (1..head) : N = {}
  OBVIOUS
<1>3. ReaderOK(r, Accounted \cup N, head) /\ r.pc # "off" /\ TryFlush(p, r, N)
  <2>1. A \cup N = A
    BY ONLY <1>n
  <2> QED BY ONLY <1>g, <1>h, <1>a, <1>1, <1>n, <2>1
<1>4. EventsInv'
  BY ONLY EventsInv, p \in Replicas, <1>1, <1>2, <1>n, <1>3, TryFlushKeeps
<1>5. \A q \in Replicas : q # p => reader'[q] = reader[q]
  BY ONLY EventsInv, p \in Replicas, <1>3, OthersRest
<1>6. ~(reader[p].pc = "watch")
  BY <1>1, <1>r
<1> QED BY ONLY EventsInv, p \in Replicas, <1>4, <1>5, <1>6, OneCommits

\* ExportTail keeps the invariant and commits what it emptied.
LEMMA ExportTailKeeps ==
  ASSUME EventsInv, NEW p \in Replicas, ExportTail(p)
  PROVE  EventsInv' /\ CommitsEmptied
<1>f. /\ ServerOK /\ head \in Nat /\ head # 0 /\ Created[head] \in Nat /\ RetainCap \in Nat /\ RetainCap >= 1
      /\ ReaderOK(reader[p], Accounted, head) /\ (p \in leader <=> reader[p].pc # "off") /\ reader[p] \in ReaderType(head)
  BY ReaderFacts
<1>h. PICK h : h = head
  OBVIOUS
<1>r. PICK r : r = reader[p]
  OBVIOUS
<1>a. PICK A : A = Accounted
  OBVIOUS
<1>g. h \in Nat /\ h # 0 /\ Created[h] \in Nat /\ ReaderOK(r, A, h) /\ r \in ReaderType(h)
  BY ONLY <1>f, <1>h, <1>r, <1>a
<1>1. p \in leader /\ r.pc = "tail" /\ r.batch # <<>> /\ UNCHANGED <<Server, leader, skipped>> /\ TryFlush(p, r, {})
  BY <1>r DEF ExportTail, At
<1>2. r.batch # <<>>
  BY <1>1
<1>n. PICK N \in SUBSET (1..head) : N = {}
  OBVIOUS
<1>3. ReaderOK(r, Accounted \cup N, head) /\ r.pc # "off" /\ TryFlush(p, r, N)
  <2>1. A \cup N = A
    BY ONLY <1>n
  <2> QED BY ONLY <1>g, <1>h, <1>a, <1>1, <1>n, <2>1
<1>4. EventsInv'
  BY ONLY EventsInv, p \in Replicas, <1>1, <1>2, <1>n, <1>3, TryFlushKeeps
<1>5. \A q \in Replicas : q # p => reader'[q] = reader[q]
  BY ONLY EventsInv, p \in Replicas, <1>3, OthersRest
<1>6. ~(reader[p].pc = "watch")
  BY <1>1, <1>r
<1> QED BY ONLY EventsInv, p \in Replicas, <1>4, <1>5, <1>6, OneCommits

\* Deliver keeps the invariant and commits what it emptied.
LEMMA DeliverKeeps ==
  ASSUME EventsInv, NEW p \in Replicas, Deliver(p)
  PROVE  EventsInv' /\ CommitsEmptied
<1>f. /\ ServerOK /\ head \in Nat /\ head # 0 /\ Created[head] \in Nat /\ RetainCap \in Nat /\ RetainCap >= 1
      /\ ReaderOK(reader[p], Accounted, head) /\ (p \in leader <=> reader[p].pc # "off") /\ reader[p] \in ReaderType(head)
  BY ReaderFacts
<1>h. PICK h : h = head
  OBVIOUS
<1>r. PICK r : r = reader[p]
  OBVIOUS
<1>a. PICK A : A = Accounted
  OBVIOUS
<1>g. h \in Nat /\ h # 0 /\ Created[h] \in Nat /\ ReaderOK(r, A, h) /\ r \in ReaderType(h)
  BY ONLY <1>f, <1>h, <1>r, <1>a
<1>e. PICK e : e = r.cursor + 1
  OBVIOUS
<1>s. PICK s : s = Ingest([NoteSeen(r, e) EXCEPT !.cursor = e], e)
  OBVIOUS
<1>n. PICK gone : gone = (EX!Range(r.batch) \cup {e}) \ EX!Range(s.batch)
  OBVIOUS
<1>1. p \in leader /\ r.pc = "watch" /\ r.cursor < h /\ UNCHANGED <<Server, leader, skipped>> /\ FlushIfFull(p, s, gone)
  BY <1>r, <1>h, <1>e, <1>s, <1>n DEF Deliver, At
<1>2. /\ ReaderOK(s, A \cup gone, head) /\ s.batch # <<>> /\ gone \subseteq 1..head /\ s.pc = "watch" /\ s.cursor = e /\ s.secured
      /\ EX!Range(r.batch) \subseteq 1..r.cursor /\ e \in EX!Range(s.batch) /\ e \in Nat /\ r.cursor \in Nat
  <2>1. ServerOK /\ ReaderOK(r, A, head) /\ r.pc = "watch" /\ r.cursor < head
    BY ONLY <1>f, <1>g, <1>h, <1>1
  <2>2. Delivers(r, e, s, gone)
    BY ONLY <1>e, <1>s, <1>n DEF Delivers
  <2> QED BY ONLY <2>1, <2>2, DeliverIs
<1>3. ReaderOK(s, Accounted \cup gone, head) /\ s.pc # "off" /\ gone \in SUBSET (1..head)
  BY ONLY <1>2, <1>a
<1>4. /\ EventsInv' /\ reader'[p].cursor = s.cursor
      /\ s.secured /\ reader'[p].batch = <<>> => \A x \in EX!Range(s.batch) : x <= reader'[p].committed.rv
  BY ONLY EventsInv, p \in Replicas, <1>1, <1>2, <1>3, FlushIfFullKeeps
<1>5. \A q \in Replicas : q # p => reader'[q] = reader[q]
  BY ONLY EventsInv, p \in Replicas, <1>1, OthersRest
<1>6. ASSUME reader'[p].batch = <<>>, NEW x \in EX!Range(r.batch) \cup (r.cursor + 1)..reader'[p].cursor PROVE x <= reader'[p].committed.rv
  <2>1. e <= reader'[p].committed.rv
    BY ONLY <1>2, <1>4, <1>6
  <2>2. PICK c : c = reader'[p].committed.rv
    OBVIOUS
  <2>3. c \in Nat
    <3>1. reader'[p] \in ReaderType(head') /\ head' \in Nat /\ Created[head'] \in Nat
      <4>1. ServerOK' /\ ReaderOK(reader'[p], Accounted', head')
        BY <1>4 DEF EventsInv
      <4>2. head' = head
        BY <1>1 DEF Server
      <4> QED BY <1>f, <4>1, <4>2 DEF ReaderOK
    <3> QED BY ONLY <3>1, <2>2 DEF ReaderType, Positions
  <2>4. x \in Nat /\ x <= e
    BY ONLY <1>2, <1>4, <1>e, x \in EX!Range(r.batch) \cup (r.cursor + 1)..reader'[p].cursor
  <2>5. x <= c
    BY ONLY <1>2, <2>1, <2>2, <2>3, <2>4
  <2> QED BY ONLY <2>2, <2>5
<1>7. reader'[p].batch = <<>> => \A x \in EX!Range(reader[p].batch) \cup (reader[p].cursor + 1)..reader'[p].cursor : x <= reader'[p].committed.rv
  BY ONLY <1>6, <1>r
<1> QED BY ONLY EventsInv, p \in Replicas, <1>4, <1>5, <1>7, OneCommits

\* Bookmark keeps the invariant and commits what it emptied.
LEMMA BookmarkKeeps ==
  ASSUME EventsInv, NEW p \in Replicas, Bookmark(p)
  PROVE  EventsInv' /\ CommitsEmptied
<1>f. /\ ServerOK /\ head \in Nat /\ head # 0 /\ Created[head] \in Nat /\ RetainCap \in Nat /\ RetainCap >= 1
      /\ ReaderOK(reader[p], Accounted, head) /\ (p \in leader <=> reader[p].pc # "off") /\ reader[p] \in ReaderType(head)
  BY ReaderFacts
<1>h. PICK h : h = head
  OBVIOUS
<1>r. PICK r : r = reader[p]
  OBVIOUS
<1>a. PICK A : A = Accounted
  OBVIOUS
<1>g. h \in Nat /\ h # 0 /\ Created[h] \in Nat /\ ReaderOK(r, A, h) /\ r \in ReaderType(h)
  BY ONLY <1>f, <1>h, <1>r, <1>a
<1>q. PICK q : q = [NoteSeen(r, r.cursor) EXCEPT !.pendingRV = r.cursor]
  OBVIOUS
<1>s. PICK s : s = IF q.batch = <<>> THEN ApplyPendingBookmark(q) ELSE q
  OBVIOUS
<1>1. p \in leader /\ r.pc = "watch"
  BY <1>r DEF Bookmark, At
<1>2. ReaderOK(s, A, h) /\ s.pc = "watch" /\ s.cursor = r.cursor /\ s.batch = r.batch
  <2>1. h \in Nat /\ Created[h] \in Nat /\ ReaderOK(r, A, h) /\ r.pc = "watch"
    BY ONLY <1>g, <1>1
  <2>2. Bookmarks(r, q, s)
    BY ONLY <1>q, <1>s DEF Bookmarks
  <2> QED BY ONLY <2>1, <2>2, BookmarkIs
<1>3. reader' = [reader EXCEPT ![p] = s] /\ UNCHANGED <<Server, leader, stored, exported, counted, skipped>>
  BY <1>q, <1>s, <1>r DEF Bookmark, EventsInv
<1>4. ReaderOK(s, Accounted, head) /\ s.pc # "off"
  BY ONLY <1>2, <1>a, <1>h
<1>5. EventsInv' /\ reader'[p] = s
  BY ONLY EventsInv, p \in Replicas, <1>1, <1>3, <1>4, ReaderMoves
<1>6. \A x \in Replicas : x # p => reader'[x] = reader[x]
  BY <1>3 DEF EventsInv
<1>7. ASSUME reader'[p].batch = <<>>, NEW x \in EX!Range(r.batch) \cup (r.cursor + 1)..reader'[p].cursor PROVE x <= reader'[p].committed.rv
  <2>1. EX!Range(r.batch) = {}
    BY <1>2, <1>5, <1>7 DEF EX!Range
  <2>2. reader'[p].cursor = r.cursor /\ r.cursor \in Nat
    BY <1>2, <1>5, <1>g DEF ReaderType
  <2> QED BY ONLY <2>1, <2>2, x \in EX!Range(r.batch) \cup (r.cursor + 1)..reader'[p].cursor
<1>8. reader'[p].batch = <<>> => \A x \in EX!Range(reader[p].batch) \cup (reader[p].cursor + 1)..reader'[p].cursor : x <= reader'[p].committed.rv
  BY ONLY <1>7, <1>r
<1> QED BY ONLY EventsInv, p \in Replicas, <1>5, <1>6, <1>8, OneCommits

\* Tick keeps the invariant and commits what it emptied.
LEMMA TickKeeps ==
  ASSUME EventsInv, NEW p \in Replicas, Tick(p)
  PROVE  EventsInv' /\ CommitsEmptied
<1>f. /\ ServerOK /\ head \in Nat /\ head # 0 /\ Created[head] \in Nat /\ RetainCap \in Nat /\ RetainCap >= 1
      /\ ReaderOK(reader[p], Accounted, head) /\ (p \in leader <=> reader[p].pc # "off") /\ reader[p] \in ReaderType(head)
  BY ReaderFacts
<1>h. PICK h : h = head
  OBVIOUS
<1>r. PICK r : r = reader[p]
  OBVIOUS
<1>a. PICK A : A = Accounted
  OBVIOUS
<1>g. h \in Nat /\ h # 0 /\ Created[h] \in Nat /\ ReaderOK(r, A, h) /\ r \in ReaderType(h)
  BY ONLY <1>f, <1>h, <1>r, <1>a
<1>1. p \in leader /\ r.pc = "watch" /\ UNCHANGED <<Server, leader, skipped>>
  BY <1>r DEF Tick, At
<1>n. PICK N \in SUBSET (1..head) : N = {}
  OBVIOUS
<1>2. ASSUME r.batch # <<>>, TryFlush(p, r, N) PROVE EventsInv' /\ CommitsEmptied
  <2>1. ReaderOK(r, Accounted \cup N, head) /\ r.pc # "off"
    <3>1. A \cup N = A
      BY ONLY <1>n
    <3> QED BY ONLY <1>g, <1>h, <1>a, <1>1, <3>1
  <2>2. /\ EventsInv' /\ reader'[p].cursor = r.cursor
        /\ r.secured /\ reader'[p].batch = <<>> => \A x \in EX!Range(r.batch) : x <= reader'[p].committed.rv
    BY ONLY EventsInv, p \in Replicas, <1>1, <1>n, <1>2, <2>1, TryFlushKeeps
  <2>3. \A q \in Replicas : q # p => reader'[q] = reader[q]
    BY ONLY EventsInv, p \in Replicas, <1>2, OthersRest
  <2>4. r.secured /\ r.cursor \in Nat
    BY ONLY <1>g, <1>1 DEF ReaderOK, StreamOK, ReaderType
  <2>5. ASSUME reader'[p].batch = <<>>, NEW x \in EX!Range(r.batch) \cup (r.cursor + 1)..reader'[p].cursor PROVE x <= reader'[p].committed.rv
    BY ONLY <2>2, <2>4, <2>5
  <2>6. reader'[p].batch = <<>> => \A x \in EX!Range(reader[p].batch) \cup (reader[p].cursor + 1)..reader'[p].cursor : x <= reader'[p].committed.rv
    BY ONLY <2>5, <1>r
  <2> QED BY ONLY EventsInv, p \in Replicas, <2>2, <2>3, <2>6, OneCommits
<1>3. ASSUME Persist(r), UNCHANGED <<reader, exported, counted>> PROVE EventsInv' /\ CommitsEmptied
  <2>1. /\ head' = head /\ compacted' = compacted /\ leader' = leader /\ skipped' = skipped /\ reader' = reader
        /\ exported' = exported /\ counted' = counted
    BY <1>1, <1>3 DEF Server
  <2>2. Accounted' = Accounted
    BY ONLY <2>1 DEF Accounted
  <2>3. r.committed \in Positions(head) /\ Covered(r.committed.rv, Accounted')
    BY ONLY <1>g, <1>h, <1>a, <2>2 DEF ReaderOK, ReaderType, PositionOK
  <2>4. stored' = stored \/ (stored' \in Positions(head) /\ Covered(stored'.rv, Accounted'))
    BY ONLY <1>3, <2>3 DEF Persist
  <2>5. exported \subseteq exported' /\ exported' \subseteq 1..head /\ counted \subseteq counted' /\ counted' \subseteq 1..head
    BY ONLY <1>f, <2>1 DEF ServerOK
  <2>6. ServerOK'
    BY ONLY <1>f, <2>1, <2>4, <2>5, ServerKeeps
  <2>7. EventsInv'
    BY <2>1, <2>2, <2>6 DEF EventsInv
  <2> QED BY ONLY EventsInv, <2>1, <2>7, NoneCommits
<1>4. (r.batch # <<>> /\ TryFlush(p, r, N)) \/ (Persist(r) /\ UNCHANGED <<reader, exported, counted>>)
  BY <1>r, <1>n DEF Tick
<1> QED BY ONLY <1>2, <1>3, <1>4

\* Elect keeps the invariant and commits what it emptied.
LEMMA ElectKeeps ==
  ASSUME EventsInv, NEW p \in Replicas, Elect(p)
  PROVE  EventsInv' /\ CommitsEmptied
<1>f. /\ ServerOK /\ head \in Nat /\ head # 0 /\ Created[head] \in Nat /\ RetainCap \in Nat /\ RetainCap >= 1
      /\ ReaderOK(reader[p], Accounted, head) /\ (p \in leader <=> reader[p].pc # "off") /\ reader[p] \in ReaderType(head)
  BY ReaderFacts
<1>h. PICK h : h = head
  OBVIOUS
<1>r. PICK r : r = reader[p]
  OBVIOUS
<1>a. PICK A : A = Accounted
  OBVIOUS
<1>g. h \in Nat /\ h # 0 /\ Created[h] \in Nat /\ ReaderOK(r, A, h) /\ r \in ReaderType(h)
  BY ONLY <1>f, <1>h, <1>r, <1>a
<1>1. /\ leader = {} /\ leader' = {p} /\ head' = head /\ compacted' = compacted /\ stored' = stored /\ exported' = exported
      /\ counted' = counted /\ skipped' = skipped
  BY DEF Elect
<1>2. PICK q \in LoadPosition(reader[p]) : reader' = [reader EXCEPT ![p] = [q EXCEPT !.pc = "start"]]
  BY DEF Elect
<1>s. PICK s : s = [q EXCEPT !.pc = "start"]
  OBVIOUS
<1>3. ReaderOK(s, A, h) /\ s.pc = "start"
  <2>1. h \in Nat /\ ReaderOK(r, A, h) /\ stored \in Positions(h) /\ Covered(stored.rv, A)
    BY ONLY <1>f, <1>g, <1>h, <1>a DEF ServerOK
  <2>2. q \in LoadPosition(r)
    BY ONLY <1>2, <1>r
  <2> QED BY ONLY <2>1, <2>2, <1>s, LoadIs
<1>4. Accounted' = Accounted
  BY ONLY <1>1 DEF Accounted
<1>5. ServerOK'
  BY ONLY <1>f, <1>1, <1>4, p \in Replicas DEF ServerOK
<1>6. /\ reader' = [reader EXCEPT ![p] = s] /\ ReaderOK(s, Accounted', head) /\ ((p \in leader') <=> s.pc # "off") /\ Accounted \subseteq Accounted'
      /\ \A x \in Replicas : x # p => (x \in leader' <=> x \in leader)
  BY ONLY <1>1, <1>2, <1>s, <1>3, <1>4, <1>h, <1>a
<1>7. EventsInv'
  BY ONLY EventsInv, p \in Replicas, <1>1, <1>5, <1>6, OneReaderMoves
<1>8. CommitsEmptied
  BY ONLY <1>1 DEF CommitsEmptied
<1> QED BY ONLY <1>7, <1>8

\* The lease is free again and p is off.
LEMMA OffKeeps ==
  ASSUME EventsInv, NEW p \in Replicas, p \in leader, leader' = {}, ServerOK', head' = head, Accounted \subseteq Accounted',
         NEW s, reader' = [reader EXCEPT ![p] = s], ReaderOK(s, Accounted', head), s.pc = "off"
  PROVE  EventsInv' /\ CommitsEmptied
<1>1. leader = {p}
  BY DEF EventsInv, ServerOK
<1>2. /\ ((p \in leader') <=> s.pc # "off") /\ \A x \in Replicas : x # p => (x \in leader' <=> x \in leader)
  BY <1>1
<1>3. EventsInv'
  BY ONLY EventsInv, p \in Replicas, ServerOK', head' = head, Accounted \subseteq Accounted', reader' = [reader EXCEPT ![p] = s],
          ReaderOK(s, Accounted', head), <1>2, OneReaderMoves
<1>4. CommitsEmptied
  BY DEF CommitsEmptied
<1> QED BY ONLY <1>3, <1>4

\* Crash keeps the invariant and commits what it emptied.
LEMMA CrashKeeps ==
  ASSUME EventsInv, NEW p \in Replicas, Crash(p)
  PROVE  EventsInv' /\ CommitsEmptied
<1>f. /\ ServerOK /\ head \in Nat /\ head # 0 /\ Created[head] \in Nat /\ RetainCap \in Nat /\ RetainCap >= 1
      /\ ReaderOK(reader[p], Accounted, head) /\ (p \in leader <=> reader[p].pc # "off") /\ reader[p] \in ReaderType(head)
  BY ReaderFacts
<1>h. PICK h : h = head
  OBVIOUS
<1>r. PICK r : r = reader[p]
  OBVIOUS
<1>a. PICK A : A = Accounted
  OBVIOUS
<1>g. h \in Nat /\ h # 0 /\ Created[h] \in Nat /\ ReaderOK(r, A, h) /\ r \in ReaderType(h)
  BY ONLY <1>f, <1>h, <1>r, <1>a
<1>1. /\ p \in leader /\ leader' = {} /\ head' = head /\ compacted' = compacted /\ stored' = stored /\ exported' = exported
      /\ counted' = counted /\ skipped' = skipped /\ reader' = [reader EXCEPT ![p] = NewReader]
  BY DEF Crash
<1>4. Accounted' = Accounted
  BY ONLY <1>1 DEF Accounted
<1>5. ServerOK'
  BY ONLY <1>f, <1>1, <1>4 DEF ServerOK
<1>6. ReaderOK(NewReader, A, h) /\ NewReader.pc = "off"
  BY ONLY <1>g, NewIs
<1>s. PICK s : s = NewReader
  OBVIOUS
<1>7. ReaderOK(s, Accounted', head) /\ s.pc = "off" /\ reader' = [reader EXCEPT ![p] = s] /\ Accounted \subseteq Accounted'
  BY ONLY <1>1, <1>4, <1>6, <1>s, <1>h, <1>a
<1> QED BY ONLY EventsInv, p \in Replicas, <1>1, <1>5, <1>7, OffKeeps

\* Stop keeps the invariant and commits what it emptied.
LEMMA StopKeeps ==
  ASSUME EventsInv, NEW p \in Replicas, Stop(p)
  PROVE  EventsInv' /\ CommitsEmptied
<1>f. /\ ServerOK /\ head \in Nat /\ head # 0 /\ Created[head] \in Nat /\ RetainCap \in Nat /\ RetainCap >= 1
      /\ ReaderOK(reader[p], Accounted, head) /\ (p \in leader <=> reader[p].pc # "off") /\ reader[p] \in ReaderType(head)
  BY ReaderFacts
<1>h. PICK h : h = head
  OBVIOUS
<1>r. PICK r : r = reader[p]
  OBVIOUS
<1>a. PICK A : A = Accounted
  OBVIOUS
<1>g. h \in Nat /\ h # 0 /\ Created[h] \in Nat /\ ReaderOK(r, A, h) /\ r \in ReaderType(h)
  BY ONLY <1>f, <1>h, <1>r, <1>a
<1>s. PICK s : s = [r EXCEPT !.pc = "off", !.walk = {}, !.cursor = 0]
  OBVIOUS
<1>1. p \in leader /\ leader' = {} /\ head' = head /\ compacted' = compacted /\ skipped' = skipped
  BY DEF Stop
<1>2. ReaderOK(s, A, h) /\ s.pc = "off"
  <2>1. s \in ReaderType(h) /\ s.pc = "off"
    <3>1. 0 \in 0..h /\ {} \in SUBSET (1..h) /\ "off" \in Stages
      BY ONLY <1>g DEF Stages
    <3> QED BY ONLY <1>g, <1>s, <3>1 DEF ReaderType
  <2>2. s = [r EXCEPT !.pc = s.pc, !.walk = s.walk, !.cursor = s.cursor]
    BY ONLY <1>g, <1>s DEF ReaderType
  <2>3. s.pc \in {"start", "off"}
    BY ONLY <2>1
  <2> QED BY ONLY <1>g, <2>1, <2>2, <2>3, StreamEnds
\* However the last attempt ends, the position written is the reader's own.
<1>3. ASSUME NEW f, reader' = [reader EXCEPT ![p] = f], Persist(f), ReaderOK(f, Accounted', head), f.pc = "off",
             exported \subseteq exported', exported' \subseteq 1..head, counted \subseteq counted', counted' \subseteq 1..head
      PROVE  EventsInv' /\ CommitsEmptied
  <2>1. f.committed \in Positions(head) /\ Covered(f.committed.rv, Accounted')
    BY ONLY <1>3 DEF ReaderOK, ReaderType, PositionOK
  <2>2. stored' = stored \/ (stored' \in Positions(head) /\ Covered(stored'.rv, Accounted'))
    BY ONLY <1>3, <2>1 DEF Persist
  <2>3. ServerOK' /\ Accounted \subseteq Accounted'
    BY ONLY <1>f, <1>1, <1>3, <2>2, ServerKeeps
  <2> QED BY ONLY EventsInv, p \in Replicas, <1>1, <1>3, <2>3, OffKeeps
<1>4. ASSUME reader' = [reader EXCEPT ![p] = s], Persist(s), UNCHANGED <<exported, counted>> PROVE EventsInv' /\ CommitsEmptied
  <2>1. Accounted' = Accounted
    BY ONLY <1>1, <1>4 DEF Accounted
  <2>2. ReaderOK(s, Accounted', head)
    BY ONLY <1>2, <2>1, <1>h, <1>a
  <2>3. exported \subseteq exported' /\ exported' \subseteq 1..head /\ counted \subseteq counted' /\ counted' \subseteq 1..head
    BY ONLY <1>f, <1>4 DEF ServerOK
  <2> QED BY ONLY <1>2, <1>3, <1>4, <2>2, <2>3
<1>5. ASSUME s.batch # <<>>, NEW o \in Outcomes, reader' = [reader EXCEPT ![p] = Flush(s, o)], Persist(Flush(s, o)), Account(s, {}, o)
      PROVE  EventsInv' /\ CommitsEmptied
  <2>f. PICK f : f = Flush(s, o)
    OBVIOUS
  <2>n. PICK N \in SUBSET (1..head) : N = {}
    OBVIOUS
  <2>1. ServerOK /\ ReaderOK(s, A, head) /\ s.batch # <<>>
    BY ONLY <1>f, <1>2, <1>5, <1>h
  <2>2. Payload(s) \subseteq 1..head
    BY ONLY <2>1, PayloadListed
  <2>3. Account(s, N, o)
    BY ONLY <1>5, <2>n
  <2>4. /\ exported \subseteq exported' /\ exported' \subseteq 1..head /\ counted \subseteq counted' /\ counted' \subseteq 1..head
        /\ Accounted \cup N \subseteq Accounted' /\ (o # "down" => Payload(s) \subseteq Accounted')
    BY ONLY <1>f, <1>1, <1>5, <2>n, <2>2, <2>3, AccountIs
  <2>5. PICK B : B = Accounted'
    OBVIOUS
  <2>6. A \subseteq B /\ (o # "down" => Payload(s) \subseteq B) /\ o \in Outcomes
    BY ONLY <1>5, <1>a, <2>4, <2>5
  <2>7. ReaderOK(f, B, head) /\ f.pc = s.pc
    BY ONLY <2>f, <2>1, <2>6, FlushIs
  <2>8. /\ reader' = [reader EXCEPT ![p] = f] /\ Persist(f) /\ ReaderOK(f, Accounted', head) /\ f.pc = "off"
    BY ONLY <1>2, <1>5, <2>f, <2>5, <2>7
  <2> QED BY ONLY <1>3, <2>4, <2>8
<1>6. \/ reader' = [reader EXCEPT ![p] = s] /\ Persist(s) /\ UNCHANGED <<exported, counted>>
      \/ s.batch # <<>> /\ \E o \in Outcomes : reader' = [reader EXCEPT ![p] = Flush(s, o)] /\ Persist(Flush(s, o)) /\ Account(s, {}, o)
  BY <1>s, <1>r DEF Stop
<1> QED BY ONLY <1>4, <1>5, <1>6

-----------------------------------------------------------------------------
(* The theorems.                                                             *)

\* A step of the reader goroutine, when the filter drops only what is done.
LEMMA StepKeeps ==
  ASSUME EventsInv, FilterDropsOnlyDone, NEW p \in Replicas, Step(p)
  PROVE  EventsInv' /\ CommitsEmptied
BY StartPositionedKeeps, StartReplayKeeps, StartSeenKeeps, StartCurrentKeeps, ListBacklogKeeps, ReplayItemKeeps, HoldWalkKeeps,
   EndWalkKeeps, ExportTailKeeps, EndReplayKeeps, WalkExpiredKeeps, OpenWatchKeeps, WatchExpiredKeeps, DeliverKeeps, TickKeeps, Zenon
   DEF Step

\* Every step, when the filter drops only what is done.
LEMMA NextKeeps ==
  ASSUME EventsInv, FilterDropsOnlyDone, [Next]_vars
  PROVE  EventsInv' /\ [CommitsEmptied]_vars
<1>1. CASE UNCHANGED vars
  <2>1. /\ head' = head /\ compacted' = compacted /\ leader' = leader /\ skipped' = skipped /\ reader' = reader
        /\ exported' = exported /\ counted' = counted /\ stored' = stored
    BY <1>1 DEF vars
  <2>2. Accounted' = Accounted
    BY ONLY <2>1 DEF Accounted
  <2>3. ServerOK'
    BY <2>1, <2>2 DEF EventsInv, ServerOK
  <2> QED BY <1>1, <2>1, <2>2, <2>3 DEF EventsInv
<1>2. CASE CreateEvent \/ Compact
  <2>1. EventsInv'
    BY <1>2, CreateKeeps, CompactKeeps
  <2>2. reader' = reader
    BY <1>2 DEF CreateEvent, Compact
  <2>3. CommitsEmptied
    BY ONLY EventsInv, <2>2, NoneCommits
  <2> QED BY <2>1, <2>3
<1>3. ASSUME NEW p \in Replicas,
             Step(p) \/ Elect(p) \/ Stop(p) \/ Crash(p) \/ WalkFails(p) \/ WatchClosed(p) \/ Bookmark(p)
      PROVE  EventsInv' /\ CommitsEmptied
  BY <1>3, StepKeeps, ElectKeeps, StopKeeps, CrashKeeps, WalkFailsKeeps, WatchClosedKeeps, BookmarkKeeps, Zenon
<1>4. CASE Next
  <2>1. (EventsInv' /\ CommitsEmptied) \/ (CreateEvent \/ Compact)
    BY <1>3, <1>4, Zenon DEF Next
  <2> QED BY <1>2, <2>1
<1> QED BY <1>1, <1>4

\* The invariant gives the types.
LEMMA TypesHold == EventsInv => TypeOK
<1> SUFFICES ASSUME EventsInv PROVE TypeOK
  OBVIOUS
<1>1. /\ ServerOK /\ head \in 1..MaxRV /\ compacted \in 0..head /\ leader \subseteq Replicas /\ (leader = {} \/ \E p \in Replicas : leader = {p})
      /\ stored \in Positions(head) /\ exported \subseteq 1..head /\ counted \subseteq 1..head /\ skipped \subseteq 1..head
  BY DEF EventsInv, ServerOK
<1>2. Cardinality(leader) =< 1
  <2>1. CASE leader = {}
    BY <2>1, FS_EmptySet
  <2>2. CASE \E p \in Replicas : leader = {p}
    <3>1. PICK p : leader = {p}
      BY ONLY <2>2
    <3>2. Cardinality({p}) = 1
      BY ONLY FS_Singleton, Zenon
    <3> QED BY ONLY <3>1, <3>2
  <2> QED BY <1>1, <2>1, <2>2
<1>3. Now = Created[head]
  BY <1>1, HeadFacts
<1>4. stored.rv \in 0..head /\ stored.mark \in 0..Now
  BY ONLY <1>1, <1>3 DEF Positions
<1>5. {exported, counted, skipped} \subseteq SUBSET (1..head)
  BY ONLY <1>1
<1>6. ASSUME NEW p \in Replicas, NEW r, r = reader[p]
      PROVE  /\ Len(r.batch) =< RetainCap /\ EX!Range(r.batch) \subseteq 1..head
             /\ r.rendered =< Len(r.batch) /\ r.owed =< Len(r.batch)
             /\ r.committed.rv \in 0..head /\ {r.committed.mark, r.held} \subseteq 0..Now
             /\ {r.pendingRV, r.seenRV, r.replayRV, r.cursor} \subseteq 0..head
             /\ {r.relist, r.replaying, r.secured, r.failed} \subseteq BOOLEAN
             /\ r.walk \subseteq 1..head
             /\ (p \in leader) <=> (r.pc # "off")
  <2>1. ReaderOK(r, Accounted, head) /\ (p \in leader <=> r.pc # "off") /\ r \in ReaderType(head)
    BY <1>6, ReaderFacts
  <2>2. BatchOK(r) /\ FreeOK(r, Accounted) /\ HeldOK(r, Accounted)
    BY ONLY <2>1 DEF ReaderOK
  <2>3. r.batch \in Seq(1..head)
    BY ONLY <2>1 DEF ReaderType
  <2>4. EX!Range(r.batch) \subseteq 1..head /\ Len(r.batch) \in Nat
    BY ONLY <2>3, EntriesOf
  <2>5. r.rendered =< Len(r.batch) /\ Len(r.batch) =< RetainCap
    BY ONLY <2>2 DEF BatchOK
  <2>6. r.owed =< Len(r.batch)
    <3>1. r.secured => r.owed = 0
      BY ONLY <2>2 DEF FreeOK
    <3>2. ~r.secured => r.owed = Len(r.batch)
      BY ONLY <2>2 DEF HeldOK
    <3> QED BY ONLY <2>4, <3>1, <3>2
  <2>7. /\ r.committed \in Positions(head) /\ r.held \in 0..Created[head] /\ r.pendingRV \in 0..head /\ r.seenRV \in 0..head
        /\ r.replayRV \in 0..head /\ r.cursor \in 0..head /\ r.walk \in SUBSET (1..head)
        /\ r.relist \in BOOLEAN /\ r.replaying \in BOOLEAN /\ r.secured \in BOOLEAN /\ r.failed \in BOOLEAN
    BY ONLY <2>1 DEF ReaderType
  <2>8. r.committed.rv \in 0..head /\ r.committed.mark \in 0..Created[head]
    BY ONLY <2>7 DEF Positions
  <2>9. {r.committed.mark, r.held} \subseteq 0..Now
    BY ONLY <2>7, <2>8, <1>3
  <2>10. {r.pendingRV, r.seenRV, r.replayRV, r.cursor} \subseteq 0..head /\ r.walk \subseteq 1..head
    BY ONLY <2>7
  <2>11. {r.relist, r.replaying, r.secured, r.failed} \subseteq BOOLEAN
    BY ONLY <2>7, Zenon
  <2> QED BY ONLY <2>1, <2>4, <2>5, <2>6, <2>8, <2>9, <2>10, <2>11
<1> QED BY ONLY <1>1, <1>2, <1>4, <1>5, <1>6 DEF TypeOK

\* The invariant gives the lower bound.
LEMMA LowerBoundHolds == EventsInv => PositionIsLowerBound
<1> SUFFICES ASSUME EventsInv PROVE PositionIsLowerBound
  OBVIOUS
<1>1. Covered(stored.rv, Accounted)
  BY DEF EventsInv, ServerOK
<1>2. ASSUME NEW p \in Replicas PROVE Covered(reader[p].committed.rv, Accounted)
  BY DEF EventsInv, ReaderOK, PositionOK
<1> QED BY ONLY <1>1, <1>2 DEF PositionIsLowerBound, Covered

\* The invariant gives that nothing is passed over.
LEMMA PassedHolds == EventsInv => NothingPassedOver
<1> SUFFICES ASSUME EventsInv, NEW p \in Replicas, reader[p].pc = "watch"
             PROVE  1..reader[p].cursor \subseteq Accounted \cup EX!Range(reader[p].batch)
  BY DEF NothingPassedOver
<1>1. StreamOK(reader[p], Accounted)
  BY DEF EventsInv, ReaderOK
<1> QED BY <1>1 DEF StreamOK, Covered

\* Under a watermark that drops only what is done, the filter of a replay drops only what is done.
LEMMA SafeMarkSafeFilter == EventsInv /\ WatermarkIsSafe => FilterDropsOnlyDone
<1> SUFFICES ASSUME EventsInv, WatermarkIsSafe, NEW p \in Replicas, NEW e \in reader[p].walk, reader[p].pc = "walk", ~Wanted(reader[p], e)
             PROVE  e \in Accounted
  BY DEF FilterDropsOnlyDone
<1>r. PICK r : r = reader[p]
  OBVIOUS
<1>1. ReaderOK(r, Accounted, head) /\ r \in ReaderType(head) /\ ServerOK
  BY <1>r, ReaderFacts
<1>2. r.from = IF r.committed.mark = 0 THEN 0 ELSE r.committed.mark - Slack
  BY ONLY <1>1, <1>r, reader[p].pc = "walk" DEF ReaderOK, StreamOK
<1>3. e \in 1..head /\ r.committed \in Positions(head)
  BY <1>1, <1>r DEF ReaderType
<1>4. r.committed.mark \in 0..Created[head] /\ Ts[e] \in Nat /\ Slack \in Nat /\ Created[head] \in Nat
  BY <1>1, <1>3, HeadFacts, EventsAssumption DEF Positions
<1>5. ~(r.from <= 0) /\ ~(Ts[e] >= r.from)
  BY <1>r DEF Wanted
<1>6. Ts[e] < r.committed.mark - Slack
  BY ONLY <1>2, <1>4, <1>5
<1>7. reader[p].committed \in {stored} \cup {reader[q].committed : q \in Replicas}
  OBVIOUS
<1>8. \A x \in 1..head : Ts[x] < reader[p].committed.mark - Slack => x \in Accounted
  BY ONLY <1>7, WatermarkIsSafe DEF WatermarkIsSafe
<1> QED BY ONLY <1>3, <1>6, <1>8, <1>r

\* For any replicas, revisions, timestamps, batch sizes, caps, terms and faults: as long as
\* the filter of a replay drops only events that are accounted for, every position, stored or
\* a reader's own, is a lower bound of what is done, a watch passes nothing over, and an export
\* that empties a batch commits past it (stream, settle, secureReplay, applyPendingBookmark).
THEOREM PositionSoundUnderFilter == Spec /\ []FilterDropsOnlyDone => PositionSound
<1>1. Init => EventsInv
  BY InitKeeps
<1>2. EventsInv /\ FilterDropsOnlyDone /\ [Next]_vars => EventsInv' /\ [CommitsEmptied]_vars
  BY NextKeeps
<1>3. EventsInv => TypeOK /\ PositionIsLowerBound /\ NothingPassedOver
  BY TypesHold, LowerBoundHolds, PassedHolds
<1>4. Spec /\ []FilterDropsOnlyDone => [](TypeOK /\ PositionIsLowerBound /\ NothingPassedOver) /\ [][CommitsEmptied]_vars
  BY <1>1, <1>2, <1>3, PTL DEF Spec
<1> QED BY <1>4 DEF PositionSound, EmptiedIsCommitted, CommitsEmptied

\* The same as long as no watermark passes an event that is not accounted for: what the run
\* events_held violates is the only thing that can make a position unsound (wanted, secureReplay).
THEOREM PositionSoundUnderWatermark == Spec /\ []WatermarkIsSafe => PositionSound
<1>1. Init => EventsInv
  BY InitKeeps
<1>2. EventsInv /\ WatermarkIsSafe /\ [Next]_vars => EventsInv' /\ [CommitsEmptied]_vars
  BY NextKeeps, SafeMarkSafeFilter
<1>3. EventsInv => TypeOK /\ PositionIsLowerBound /\ NothingPassedOver
  BY TypesHold, LowerBoundHolds, PassedHolds
<1>4. Spec /\ []WatermarkIsSafe => [](TypeOK /\ PositionIsLowerBound /\ NothingPassedOver) /\ [][CommitsEmptied]_vars
  BY <1>1, <1>2, <1>3, PTL DEF Spec
<1> QED BY <1>4 DEF PositionSound, EmptiedIsCommitted, CommitsEmptied
=============================================================================
