----------------------------- MODULE ExportProofs -----------------------------
(***************************************************************************)
(* Proofs about the export side: the disk buffer (ExportBuffer), the       *)
(* client and its health flags (ExportClient) and the pooled compressors   *)
(* and readers of the transports (Pools).  Each component has an inductive *)
(* invariant, one lemma for each action, and the theorems at the end of    *)
(* its section.                                                            *)
(***************************************************************************)
EXTENDS ExportBuffer, ExportClient, Pools, FiniteSetTheorems, TLAPS

LOCAL INSTANCE SequencesExt

-----------------------------------------------------------------------------
(* The disk buffer.                                                         *)

DrainRecords == [pc : PCs, mode : {"run", "final"}, h : Nat, batch : Batches \cup {NoBatch},
                 tries : 0..Attempts, acct : BOOLEAN, result : {"none", "unread", "ok", "stuck", "rejected"}]
HandleRecords == [cur : Nat \ {0}, open : SUBSET Nat, latched : SUBSET Nat, closed : BOOLEAN]

\* The queue: of all handles only the installed one is open.
HandleInv == handle \in HandleRecords /\ OneOpenHandle

\* The drain holds the head of the queue until it has dealt with it; what it is
\* about to commit was received or dropped, and is not tracked as stuck.
DrainInv ==
  /\ disk \in Seq(Batches) /\ drain \in DrainRecords
  /\ gate \in {"free", "run", "final"} /\ (gate = "free" <=> drain.pc = "off")
  /\ drain.pc \in {"send", "wait"} => drain.tries < Attempts
  /\ drain.pc \in {"send", "wait", "commit", "rotate"} =>
       disk # <<>> /\ drain.batch = Head(disk) /\ drain.batch \in Batches
  /\ drain.pc = "commit" => drain.batch \in received \cup dropped /\ drain.batch \notin DOMAIN stuck

\* Every cycle that counts against a batch had a delivery of another to show for it.
StuckInv ==
  /\ delivered \in Nat /\ DOMAIN stuck \subseteq Batches /\ Cardinality(DOMAIN stuck) <= MaxTracked
  /\ stuck \in [DOMAIN stuck -> [cycles : 0..(MaxCycles - 1), last : 0..delivered]]
  /\ evidence \in [Batches -> Int] /\ \A b \in Batches : evidence[b] >= -1
  /\ \A b \in DOMAIN stuck : evidence[b] >= stuck[b].cycles + (delivered - stuck[b].last)

OfferInv ==
  /\ offer \in [Batches -> [pc : {"new", "add", "recover", "accepted", "refused"}, h : Nat]]
  /\ received \cup dropped \cup damaged \subseteq Batches
  /\ AcceptedIsKept

BufferInv == HandleInv /\ DrainInv /\ StuckInv /\ OfferInv

-----------------------------------------------------------------------------
\* What is in a queue that grows, shrinks or turns.
LEMMA QueueSets ==
  ASSUME NEW s \in Seq(Batches)
  PROVE  /\ \A b \in Batches : /\ Append(s, b) \in Seq(Batches) /\ Append(s, b) # <<>>
                               /\ ToSet(Append(s, b)) = ToSet(s) \cup {b}
                               /\ s # <<>> => Head(Append(s, b)) = Head(s)
         /\ s # <<>> => /\ Head(s) \in Batches /\ Tail(s) \in Seq(Batches)
                        /\ ToSet(s) = {Head(s)} \cup ToSet(Tail(s))
<1>1. ASSUME NEW b \in Batches
      PROVE  /\ Append(s, b) \in Seq(Batches) /\ Append(s, b) # <<>>
             /\ ToSet(Append(s, b)) = ToSet(s) \cup {b}
             /\ s # <<>> => Head(Append(s, b)) = Head(s)
  <2> DEFINE t == Append(s, b)
  <2>1. t \in Seq(Batches) /\ Len(t) = Len(s) + 1 /\ t[Len(s) + 1] = b
        /\ \A i \in 1..Len(s) : t[i] = s[i]
    OBVIOUS
  <2>2. DOMAIN t = 1..(Len(s) + 1) /\ DOMAIN s = 1..Len(s) /\ Len(s) \in Nat
    BY <2>1
  <2>3. t # <<>> /\ (s # <<>> => Head(t) = Head(s))
    BY <2>1, <2>2
  <2> HIDE DEF t
  <2>4. ToSet(t) = ToSet(s) \cup {b}
    <3>1. ASSUME NEW x \in ToSet(t) PROVE x \in ToSet(s) \cup {b}
      BY <2>1, <2>2 DEF ToSet
    <3>2. ASSUME NEW x \in ToSet(s) \cup {b} PROVE x \in ToSet(t)
      <4>1. CASE x = b
        BY <2>1, <2>2, <4>1 DEF ToSet
      <4>2. CASE x \in ToSet(s)
        <5>1. PICK i \in 1..Len(s) : x = s[i]
          BY <2>2, <4>2 DEF ToSet
        <5>2. x = t[i] /\ i \in DOMAIN t
          BY <2>1, <2>2, <5>1
        <5> QED BY <5>2 DEF ToSet
      <4> QED BY <4>1, <4>2
    <3> QED BY <3>1, <3>2
  <2> QED BY <2>1, <2>3, <2>4 DEF t
<1>2. ASSUME s # <<>>
      PROVE  /\ Head(s) \in Batches /\ Tail(s) \in Seq(Batches)
             /\ ToSet(s) = {Head(s)} \cup ToSet(Tail(s))
  <2> DEFINE t == Tail(s)
  <2>1. Len(s) \in Nat \ {0} /\ t \in Seq(Batches) /\ Len(t) = Len(s) - 1 /\ Head(s) = s[1]
        /\ \A i \in 1..Len(t) : t[i] = s[i + 1]
    BY <1>2
  <2>2. DOMAIN t = 1..(Len(s) - 1) /\ DOMAIN s = 1..Len(s)
    BY <2>1
  <2> HIDE DEF t
  <2>3. ToSet(s) = {Head(s)} \cup ToSet(t)
    <3>1. ASSUME NEW x \in ToSet(s) PROVE x \in {Head(s)} \cup ToSet(t)
      <4>1. PICK i \in 1..Len(s) : x = s[i]
        BY <2>2 DEF ToSet
      <4>2. CASE i = 1
        BY <2>1, <4>1, <4>2
      <4>3. CASE i # 1
        <5>1. i - 1 \in DOMAIN t /\ x = t[i - 1]
          BY <2>1, <2>2, <4>1, <4>3
        <5> QED BY <5>1 DEF ToSet
      <4> QED BY <4>2, <4>3
    <3>2. ASSUME NEW x \in {Head(s)} \cup ToSet(t) PROVE x \in ToSet(s)
      <4>1. CASE x = Head(s)
        BY <2>1, <2>2, <4>1 DEF ToSet
      <4>2. CASE x \in ToSet(t)
        <5>1. PICK i \in 1..(Len(s) - 1) : x = t[i]
          BY <2>2, <4>2 DEF ToSet
        <5>2. i + 1 \in DOMAIN s /\ x = s[i + 1]
          BY <2>1, <2>2, <5>1
        <5> QED BY <5>2 DEF ToSet
      <4> QED BY <4>1, <4>2
    <3> QED BY <3>1, <3>2
  <2>4. Head(s) \in Batches
    BY <1>2, <2>1
  <2> QED BY <2>1, <2>3, <2>4 DEF t
<1> QED BY <1>1, <1>2

LEMMA BufferInitEstablishes == Init => BufferInv
<1> SUFFICES ASSUME Init PROVE BufferInv
  OBVIOUS
<1> USE DEF Init
<1>1. HandleInv
  BY DEF HandleInv, HandleRecords, OneOpenHandle
<1>2. DrainInv
  BY BufferAssumption DEF DrainInv, DrainRecords, Idle, PCs
<1>3. StuckInv
  <2>1. DOMAIN stuck = {} /\ Cardinality({}) = 0
    BY FS_EmptySet
  <2>2. Cardinality(DOMAIN stuck) <= MaxTracked
    BY <2>1, BufferAssumption
  <2>3. delivered \in Nat /\ evidence \in [Batches -> Int] /\ \A b \in Batches : evidence[b] >= -1
    OBVIOUS
  <2>4. stuck \in [DOMAIN stuck -> [cycles : 0..(MaxCycles - 1), last : 0..delivered]]
    BY <2>1, Zenon
  <2> QED BY <2>1, <2>2, <2>3, <2>4 DEF StuckInv
<1>4. OfferInv
  BY DEF OfferInv, AcceptedIsKept
<1> QED BY <1>1, <1>2, <1>3, <1>4 DEF BufferInv

\* A handle is replaced by its successor, or closed.
LEMMA SwapKeeps ==
  ASSUME HandleInv, NEW h \in Nat, NEW reopens \in BOOLEAN, handle' = Swap(h, reopens) PROVE HandleInv'
<1>1. CASE handle.closed \/ handle.cur # h
  BY <1>1 DEF Swap, HandleInv, OneOpenHandle
<1>2. CASE ~handle.closed /\ handle.cur = h /\ reopens
  <2>1. handle' = [handle EXCEPT !.cur = @ + 1, !.open = (@ \ {h}) \cup {h + 1}]
    BY <1>2 DEF Swap
  <2>2. handle'.cur = h + 1 /\ handle'.open = {h + 1} /\ handle'.closed = FALSE /\ handle'.latched = handle.latched
    BY <1>2, <2>1 DEF HandleInv, HandleRecords, OneOpenHandle
  <2>3. handle' \in HandleRecords
    <3>1. h + 1 \in Nat \ {0} /\ (handle.open \ {h}) \cup {h + 1} \in SUBSET Nat /\ handle \in HandleRecords
      BY DEF HandleInv, HandleRecords
    <3>2. handle' = [[handle EXCEPT !.cur = h + 1] EXCEPT !.open = (handle.open \ {h}) \cup {h + 1}]
      BY <1>2, <2>1, <3>1 DEF HandleRecords
    <3>3. [handle EXCEPT !.cur = h + 1] \in HandleRecords
      BY <3>1 DEF HandleRecords
    <3> QED BY <3>1, <3>2, <3>3 DEF HandleRecords
  <2> QED BY <2>2, <2>3 DEF HandleInv, OneOpenHandle
<1>3. CASE ~handle.closed /\ handle.cur = h /\ ~reopens
  <2>1. handle' = [handle EXCEPT !.open = @ \ {h}]
    BY <1>3 DEF Swap
  <2> QED BY <1>3, <2>1 DEF HandleInv, HandleRecords, OneOpenHandle
<1> QED BY <1>1, <1>2, <1>3

LEMMA RecoverKeeps ==
  ASSUME HandleInv, NEW h \in Nat, Recover(h) PROVE HandleInv'
BY SwapKeeps DEF Recover

-----------------------------------------------------------------------------
\* What a step that leaves a part of the state alone keeps.
LEMMA HandleFrame == ASSUME HandleInv, handle' = handle PROVE HandleInv'
BY DEF HandleInv, OneOpenHandle
LEMMA DrainFrame == ASSUME DrainInv, UNCHANGED <<disk, drain, gate, received, dropped, stuck>> PROVE DrainInv'
BY DEF DrainInv
LEMMA StuckFrame == ASSUME StuckInv, UNCHANGED <<delivered, stuck, evidence>> PROVE StuckInv'
BY DEF StuckInv
LEMMA OfferFrame ==
  ASSUME OfferInv, UNCHANGED <<offer, received, dropped, damaged>>, ToSet(disk) \subseteq ToSet(disk') PROVE OfferInv'
BY DEF OfferInv, AcceptedIsKept

\* The drain moves on: what it has in hand is the head it took.
LEMMA DrainMoves ==
  ASSUME DrainInv, UNCHANGED <<disk, received, dropped>>, drain' \in DrainRecords, gate' \in {"free", "run", "final"},
         gate' = "free" <=> drain'.pc = "off",
         drain'.pc \in {"off", "take", "reserve", "recover"}
         \/ /\ drain'.pc = "wait" => drain'.tries < Attempts
            /\ drain'.pc \in {"wait", "rotate"} /\ drain.pc = "send" /\ drain'.batch = drain.batch
  PROVE  DrainInv'
BY DEF DrainInv

LEMMA ProduceKeeps ==
  ASSUME BufferInv, NEW b \in Batches, Produce(b) PROVE BufferInv'
<1>1. offer[b] \in [pc : {"new", "add", "recover", "accepted", "refused"}, h : Nat] /\ handle.cur \in Nat
  BY DEF BufferInv, OfferInv, HandleInv, HandleRecords
<1>2. StuckInv'
  BY StuckFrame DEF BufferInv, Produce, TakeHandle, Add, RecoverAdd, history
<1>3. ASSUME UNCHANGED <<disk, drain, gate, stuck, received, dropped, damaged>>, NEW k,
             k \in [pc : {"add", "recover", "refused"}, h : Nat], offer' = [offer EXCEPT ![b] = k]
      PROVE  DrainInv' /\ OfferInv'
  <2>1. DrainInv'
    BY <1>3, DrainFrame DEF BufferInv
  <2>2. offer' \in [Batches -> [pc : {"new", "add", "recover", "accepted", "refused"}, h : Nat]]
    BY <1>3 DEF BufferInv, OfferInv
  <2>3. AcceptedIsKept'
    BY <1>3 DEF BufferInv, OfferInv, AcceptedIsKept
  <2> QED BY <1>3, <2>1, <2>2, <2>3 DEF BufferInv, OfferInv
<1>4. CASE TakeHandle(b)
  <2>1. HandleInv'
    BY <1>4, HandleFrame DEF TakeHandle, BufferInv
  <2>2. DrainInv' /\ OfferInv'
    BY <1>1, <1>3, <1>4 DEF TakeHandle, history
  <2> QED BY <1>2, <2>1, <2>2 DEF BufferInv
<1>5. CASE RecoverAdd(b)
  <2>1. HandleInv'
    BY <1>1, <1>5, RecoverKeeps DEF RecoverAdd, BufferInv
  <2>2. offer' = [offer EXCEPT ![b] = [offer[b] EXCEPT !.pc = "refused"]]
        /\ [offer[b] EXCEPT !.pc = "refused"] \in [pc : {"add", "recover", "refused"}, h : Nat]
    BY <1>1, <1>5 DEF RecoverAdd, BufferInv, OfferInv
  <2>3. DrainInv' /\ OfferInv'
    BY <1>3, <1>5, <2>2 DEF RecoverAdd, history
  <2> QED BY <1>2, <2>1, <2>3 DEF BufferInv
<1>6. CASE Add(b)
  <2>1. HandleInv' /\ UNCHANGED <<drain, gate, stuck, received, dropped, damaged>>
    BY <1>6, HandleFrame DEF Add, BufferInv, history
  <2>2. /\ disk \in Seq(Batches) /\ (disk' = disk \/ disk' = Append(disk, b))
        /\ \/ offer' = [offer EXCEPT ![b].pc = "accepted"] /\ disk' = Append(disk, b)
           \/ \E pc \in {"recover", "refused"} : offer' = [offer EXCEPT ![b].pc = pc]
    BY <1>6 DEF Add, BufferInv, DrainInv
  <2>3. DrainInv'
    <3>1. CASE disk' = disk
      BY <2>1, <3>1, DrainFrame DEF BufferInv
    <3>2. CASE disk' = Append(disk, b)
      BY <2>1, <2>2, <3>2, QueueSets DEF BufferInv, DrainInv
    <3> QED BY <2>2, <3>1, <3>2
  <2>4. ToSet(disk) \subseteq ToSet(disk') /\ (disk' = Append(disk, b) => b \in ToSet(disk'))
    <3>1. CASE disk' = Append(disk, b)
      <4>1. ToSet(Append(disk, b)) = ToSet(disk) \cup {b}
        BY <2>2, QueueSets, Zenon
      <4>2. ToSet(disk') = ToSet(Append(disk, b))
        BY <3>1
      <4> QED BY <4>1, <4>2
    <3>2. CASE disk' = disk /\ disk' # Append(disk, b)
      BY <3>2
    <3> QED BY <2>2, <3>1, <3>2
  <2>5. OfferInv'
    <3>1. PICK pc \in {"accepted", "recover", "refused"} :
            offer' = [offer EXCEPT ![b].pc = pc] /\ (pc = "accepted" => disk' = Append(disk, b))
      BY <2>2
    <3>2. /\ offer' \in [Batches -> [pc : {"new", "add", "recover", "accepted", "refused"}, h : Nat]]
          /\ offer'[b].pc = pc /\ \A x \in Batches : x # b => offer'[x] = offer[x]
      BY <3>1 DEF BufferInv, OfferInv
    <3>3. AcceptedIsKept'
      BY <2>1, <2>4, <3>1, <3>2 DEF BufferInv, OfferInv, AcceptedIsKept
    <3> QED BY <2>1, <3>2, <3>3 DEF BufferInv, OfferInv
  <2> QED BY <1>2, <2>1, <2>3, <2>5 DEF BufferInv
<1> QED BY <1>4, <1>5, <1>6 DEF Produce

\* StartDrain, Take, Reserve, Backoff and the recovery of a dead handle leave the
\* queue and the history alone.
LEMMA DrainStepKeeps ==
  ASSUME BufferInv, UNCHANGED <<disk, offer, stuck, delivered, history>>, HandleInv', DrainInv' PROVE BufferInv'
<1>1. StuckInv' /\ OfferInv'
  BY StuckFrame, OfferFrame DEF BufferInv, history
<1> QED BY <1>1 DEF BufferInv

LEMMA IdleRecord == Idle \in DrainRecords /\ Idle.pc = "off"
BY BufferAssumption DEF Idle, DrainRecords, PCs

LEMMA TakesHead ==
  ASSUME BufferInv, (\E mode \in {"run", "final"} : StartDrain(mode)) \/ Take \/ Reserve PROVE BufferInv'
<1>0. drain \in DrainRecords /\ handle.cur \in Nat /\ 0 \in 0..Attempts
  BY BufferAssumption DEF BufferInv, DrainInv, HandleInv, HandleRecords
<1>1. UNCHANGED <<disk, offer, stuck, delivered, history>> /\ handle' = handle
  BY DEF StartDrain, Take, Reserve
<1>2. HandleInv'
  BY <1>1, HandleFrame DEF BufferInv
<1>3. UNCHANGED <<disk, received, dropped, stuck>>
  BY <1>1 DEF history
<1>4. CASE \E mode \in {"run", "final"} : StartDrain(mode)
  <2>1. PICK mode \in {"run", "final"} : StartDrain(mode)
    BY <1>4
  <2>2. drain' \in DrainRecords /\ drain'.pc = "take" /\ gate' = mode
    BY <2>1, <1>0 DEF StartDrain, Idle, DrainRecords, PCs
  <2>3. DrainInv'
    BY <1>3, <2>2, DrainMoves DEF BufferInv
  <2> QED BY <1>1, <1>2, <2>3, DrainStepKeeps
<1>5. CASE Take
  <2>1. drain' \in DrainRecords /\ drain'.pc = "reserve" /\ gate' = gate /\ drain.pc # "off"
    BY <1>0, <1>5 DEF Take, DrainRecords, PCs
  <2>2. DrainInv'
    BY <1>3, <2>1, DrainMoves DEF BufferInv, DrainInv
  <2> QED BY <1>1, <1>2, <2>2, DrainStepKeeps
<1>6. CASE Reserve
  <2>1. CASE Return
    <3>1. DrainInv'
      BY <1>3, <2>1, IdleRecord, DrainMoves DEF BufferInv, Return
    <3> QED BY <1>1, <1>2, <3>1, DrainStepKeeps
  <2>2. CASE drain' = [drain EXCEPT !.pc = "recover", !.result = "unread"] /\ UNCHANGED gate
    <3>1. drain' \in DrainRecords /\ drain'.pc = "recover" /\ drain.pc # "off"
      BY <1>0, <1>6, <2>2 DEF DrainRecords, PCs, Reserve
    <3>2. DrainInv'
      BY <1>3, <2>2, <3>1, DrainMoves DEF BufferInv, DrainInv
    <3> QED BY <1>1, <1>2, <3>2, DrainStepKeeps
  <2>3. CASE /\ disk # <<>> /\ UNCHANGED gate
             /\ drain' = [drain EXCEPT !.pc = "send", !.batch = Head(disk), !.tries = 0,
                                       !.acct = Accountable(Head(disk))]
    <3>1. Head(disk) \in Batches /\ Accountable(Head(disk)) \in BOOLEAN
      BY <2>3, QueueSets DEF BufferInv, DrainInv, Accountable
    <3>2. /\ drain' \in DrainRecords /\ drain'.pc = "send" /\ drain'.batch = Head(disk) /\ drain'.tries = 0
          /\ drain.pc # "off"
      BY <1>0, <1>6, <2>3, <3>1 DEF DrainRecords, PCs, Reserve
    <3>3. DrainInv'
      BY <1>3, <2>3, <3>1, <3>2, BufferAssumption DEF BufferInv, DrainInv
    <3> QED BY <1>1, <1>2, <3>3, DrainStepKeeps
  <2> QED BY <1>6, <2>1, <2>2, <2>3 DEF Reserve
<1> QED BY <1>4, <1>5, <1>6

LEMMA WaitsKeep ==
  ASSUME BufferInv, Backoff \/ RecoverDrain PROVE BufferInv'
<1>0. drain \in DrainRecords /\ drain.h \in Nat
  BY DEF BufferInv, DrainInv, DrainRecords
<1>1. UNCHANGED <<disk, offer, stuck, delivered, history>>
  BY DEF Backoff, RecoverDrain
<1>2. HandleInv'
  <2>1. CASE Backoff
    <3>1. UNCHANGED handle \/ Recover(drain.h)
      BY <2>1 DEF Backoff, Nack
    <3> QED BY <1>0, <3>1, HandleFrame, RecoverKeeps DEF BufferInv
  <2>2. CASE RecoverDrain
    BY <1>0, <2>2, RecoverKeeps DEF BufferInv, RecoverDrain
  <2> QED BY <2>1, <2>2
<1>3. UNCHANGED <<disk, received, dropped, stuck>>
  BY <1>1 DEF history
<1>4. DrainInv'
  <2>1. CASE Return
    BY <1>3, <2>1, IdleRecord, DrainMoves DEF BufferInv, Return
  <2>2. CASE Backoff /\ drain' = [drain EXCEPT !.pc = "send"] /\ UNCHANGED gate
    <3>1. /\ drain' \in DrainRecords /\ drain'.pc = "send" /\ drain'.batch = drain.batch
          /\ drain'.tries = drain.tries /\ drain.pc = "wait"
      BY <1>0, <2>2 DEF DrainRecords, PCs, Backoff
    <3> QED BY <1>3, <2>2, <3>1 DEF BufferInv, DrainInv
  <2>3. CASE RecoverDrain /\ drain' = [drain EXCEPT !.pc = "take"] /\ UNCHANGED gate
    <3>1. drain' \in DrainRecords /\ drain'.pc = "take" /\ drain.pc = "recover"
      BY <1>0, <2>3 DEF DrainRecords, PCs, RecoverDrain
    <3> QED BY <1>3, <2>3, <3>1, DrainMoves DEF BufferInv, DrainInv
  <2> QED BY <2>1, <2>2, <2>3 DEF Backoff, RecoverDrain
<1> QED BY <1>1, <1>2, <1>4, DrainStepKeeps

-----------------------------------------------------------------------------
\* The batch in hand is no longer tracked.
LEMMA UntrackedKeeps ==
  ASSUME StuckInv, NEW b \in Batches, stuck' = Untracked(stuck, b), UNCHANGED <<delivered, evidence>>
  PROVE  StuckInv' /\ b \notin DOMAIN stuck' /\ DOMAIN stuck' \subseteq DOMAIN stuck
<1>1. DOMAIN stuck' = DOMAIN stuck \ {b} /\ \A x \in DOMAIN stuck' : stuck'[x] = stuck[x]
  BY DEF Untracked
<1>2. IsFiniteSet(DOMAIN stuck)
  BY BufferAssumption, FS_Subset DEF StuckInv
<1>3. Cardinality(DOMAIN stuck') <= MaxTracked
  <2>1. Cardinality(DOMAIN stuck \ {b}) <= Cardinality(DOMAIN stuck) /\ Cardinality(DOMAIN stuck) \in Nat
        /\ Cardinality(DOMAIN stuck \ {b}) \in Nat
    <3>1. Cardinality(DOMAIN stuck) \in Nat
      BY <1>2, FS_CardinalityType
    <3>2. IsFiniteSet(DOMAIN stuck \ {b}) /\ Cardinality(DOMAIN stuck \ {b}) =
            IF b \in DOMAIN stuck THEN Cardinality(DOMAIN stuck) - 1 ELSE Cardinality(DOMAIN stuck)
      BY <1>2, FS_RemoveElement
    <3>3. Cardinality(DOMAIN stuck \ {b}) \in Nat
      BY <3>2, FS_CardinalityType
    <3> QED BY <3>1, <3>2, <3>3
  <2> QED BY <1>1, <2>1, BufferAssumption DEF StuckInv
<1>4. stuck' \in [DOMAIN stuck' -> [cycles : 0..(MaxCycles - 1), last : 0..delivered']]
  <2>1. stuck' = [x \in DOMAIN stuck \ {b} |-> stuck[x]]
    BY DEF Untracked
  <2>2. \A x \in DOMAIN stuck \ {b} : stuck[x] \in [cycles : 0..(MaxCycles - 1), last : 0..delivered]
    BY DEF StuckInv
  <2> QED BY <1>1, <2>1, <2>2
<1> QED BY <1>1, <1>3, <1>4 DEF StuckInv

\* A failed cycle that is not the last one: its evidence is counted once.
LEMMA CycleKeeps ==
  ASSUME StuckInv, NEW b \in Batches, NEW evicted \in Evictable(b), NEW cycles \in 0..(MaxCycles - 1),
         cycles <= (IF b \in DOMAIN stuck THEN stuck[b].cycles + (IF Progressed(b) THEN 1 ELSE 0) ELSE 0),
         stuck' = [x \in (DOMAIN stuck \ evicted) \cup {b} |->
                               IF x = b THEN [cycles |-> cycles, last |-> delivered] ELSE stuck[x]],
         evidence' = (IF evidence[b] = -1 THEN [evidence EXCEPT ![b] = 0] ELSE evidence), delivered' = delivered
  PROVE  StuckInv'
<1>1. DOMAIN stuck' = (DOMAIN stuck \ evicted) \cup {b} /\ stuck'[b] = [cycles |-> cycles, last |-> delivered]
      /\ \A x \in DOMAIN stuck' : x # b => x \in DOMAIN stuck /\ stuck'[x] = stuck[x]
  OBVIOUS
<1>2. IsFiniteSet(DOMAIN stuck) /\ Cardinality(DOMAIN stuck) \in Nat /\ MaxTracked \in Nat \ {0} /\ MaxCycles \in Nat \ {0}
  BY BufferAssumption, FS_Subset, FS_CardinalityType DEF StuckInv
<1>3. Cardinality(DOMAIN stuck') <= MaxTracked
  <2>1. CASE b \in DOMAIN stuck \/ Cardinality(DOMAIN stuck) < MaxTracked
    <3>1. DOMAIN stuck' = DOMAIN stuck \cup {b}
      BY <1>1, <2>1 DEF Evictable
    <3>2. Cardinality(DOMAIN stuck \cup {b}) =
            IF b \in DOMAIN stuck THEN Cardinality(DOMAIN stuck) ELSE Cardinality(DOMAIN stuck) + 1
      BY <1>2, FS_AddElement
    <3> QED BY <1>2, <2>1, <3>1, <3>2 DEF StuckInv
  <2>2. CASE b \notin DOMAIN stuck /\ ~(Cardinality(DOMAIN stuck) < MaxTracked)
    <3>1. PICK v \in DOMAIN stuck : evicted = {v}
      BY <2>2 DEF Evictable
    <3> DEFINE D == DOMAIN stuck \ {v}
    <3>2. IsFiniteSet(D) /\ Cardinality(D) = Cardinality(DOMAIN stuck) - 1
      BY <1>2, <3>1, FS_RemoveElement
    <3>3. Cardinality(D \cup {b}) = Cardinality(D) + 1
      BY <2>2, <3>2, FS_AddElement
    <3> QED BY <1>1, <1>2, <3>1, <3>2, <3>3 DEF StuckInv
  <2> QED BY <2>1, <2>2
<1>4. DOMAIN stuck' \subseteq Batches
  BY <1>1 DEF StuckInv
<1>5. stuck' \in [DOMAIN stuck' -> [cycles : 0..(MaxCycles - 1), last : 0..delivered']]
  <2>1. \A x \in DOMAIN stuck' : stuck'[x] \in [cycles : 0..(MaxCycles - 1), last : 0..delivered]
    BY <1>1 DEF StuckInv
  <2>2. stuck' = [x \in DOMAIN stuck' |-> stuck'[x]]
    BY <1>1
  <2> HIDE <1>1
  <2> QED BY <2>1, <2>2
<1>6. /\ evidence' \in [Batches -> Int] /\ evidence'[b] >= 0 /\ evidence'[b] >= evidence[b]
      /\ \A x \in Batches : x # b => evidence'[x] = evidence[x]
  BY DEF StuckInv
<1>7. evidence'[b] >= cycles
  <2>1. CASE b \notin DOMAIN stuck
    BY <1>6, <2>1
  <2>2. CASE b \in DOMAIN stuck
    <3>1. /\ evidence[b] >= stuck[b].cycles + (delivered - stuck[b].last) /\ delivered \in Nat
          /\ stuck[b].cycles \in Nat /\ stuck[b].last \in 0..delivered /\ evidence[b] \in Int
          /\ evidence'[b] \in Int
      BY <1>2, <1>6, <2>2 DEF StuckInv
    <3>2. CASE Progressed(b)
      BY <1>6, <2>2, <3>1, <3>2 DEF Progressed
    <3>3. CASE ~Progressed(b)
      BY <1>6, <2>2, <3>1, <3>3
    <3> QED BY <3>2, <3>3
  <2> QED BY <2>1, <2>2
<1>8. \A x \in DOMAIN stuck' : evidence'[x] >= stuck'[x].cycles + (delivered' - stuck'[x].last)
  <2> SUFFICES ASSUME NEW x \in DOMAIN stuck' PROVE evidence'[x] >= stuck'[x].cycles + (delivered - stuck'[x].last)
    OBVIOUS
  <2>1. CASE x = b
    BY <1>1, <1>7, <2>1 DEF StuckInv
  <2>2. CASE x # b
    BY <1>1, <1>4, <1>6, <2>2 DEF StuckInv
  <2> QED BY <2>1, <2>2
<1>9. delivered' \in Nat /\ \A x \in Batches : evidence'[x] >= -1
  BY <1>6 DEF StuckInv
<1> QED BY <1>3, <1>4, <1>5, <1>6, <1>8, <1>9 DEF StuckInv

\* One attempt: the batch in hand is received, dropped, kept for another try or
\* sent to the back of the queue; a drop that no rejection asks for has its evidence.
LEMMA FailedCycleKeeps ==
  ASSUME BufferInv, NEW b \in Batches, b = drain.batch, drain.pc = "send", NEW responded \in BOOLEAN,
         FailedCycle(b, responded), UNCHANGED <<disk, handle, offer, gate, delivered, damaged, received>>
  PROVE  BufferInv' /\ \A x \in dropped' \ dropped : evidence[x] >= MaxCycles
<1>0. drain \in DrainRecords /\ MaxCycles \in Nat \ {0}
  BY BufferAssumption DEF BufferInv, DrainInv
<1>1. HandleInv'
  BY HandleFrame DEF BufferInv
<1> DEFINE before == IF b \in DOMAIN stuck THEN stuck[b].cycles ELSE 0
           cycles == before + (IF Progressed(b) /\ responded THEN 1 ELSE 0)
<1>2. PICK evicted \in Evictable(b) :
        IF cycles >= MaxCycles
        THEN /\ stuck' = Untracked(stuck, b)
             /\ dropped' = dropped \cup {b}
             /\ drain' = [drain EXCEPT !.pc = "commit", !.result = "stuck"]
             /\ UNCHANGED evidence
        ELSE /\ stuck' = [x \in (DOMAIN stuck \ evicted) \cup {b} |->
                            IF x = b THEN [cycles |-> cycles, last |-> delivered] ELSE stuck[x]]
             /\ drain' = [drain EXCEPT !.pc = "rotate"]
             /\ evidence' = IF evidence[b] = -1 THEN [evidence EXCEPT ![b] = 0] ELSE evidence
             /\ UNCHANGED dropped
  BY DEF FailedCycle
<1>3. /\ before \in Nat /\ cycles \in Nat /\ (Progressed(b) => b \in DOMAIN stuck)
      /\ cycles <= (IF b \in DOMAIN stuck THEN stuck[b].cycles + (IF Progressed(b) THEN 1 ELSE 0) ELSE 0)
  BY <1>0 DEF BufferInv, StuckInv, Progressed
<1> HIDE DEF cycles, before
<1>4. CASE cycles >= MaxCycles
  <2>1. /\ stuck' = Untracked(stuck, b) /\ dropped' = dropped \cup {b} /\ UNCHANGED evidence
        /\ drain' = [drain EXCEPT !.pc = "commit", !.result = "stuck"]
    BY <1>2, <1>4
  <2>2. drain' \in DrainRecords /\ drain'.pc = "commit" /\ drain'.batch = b /\ drain.batch \in Batches
    BY <1>0, <2>1 DEF DrainRecords, PCs
  <2>3. StuckInv' /\ b \notin DOMAIN stuck'
    BY <2>1, UntrackedKeeps DEF BufferInv
  <2>4. DrainInv'
    BY <2>1, <2>2, <2>3 DEF BufferInv, DrainInv
  <2>5. OfferInv'
    BY <2>1 DEF BufferInv, OfferInv, AcceptedIsKept
  <2>6. evidence[b] >= MaxCycles
    <3>1. b \in DOMAIN stuck
      BY <1>0, <1>3, <1>4
    <3>2. /\ evidence[b] >= stuck[b].cycles + (delivered - stuck[b].last) /\ delivered \in Nat
          /\ stuck[b].cycles \in Nat /\ stuck[b].last \in 0..delivered /\ evidence[b] \in Int
      BY <1>0, <3>1 DEF BufferInv, StuckInv
    <3>3. CASE Progressed(b)
      BY <1>0, <1>3, <1>4, <3>1, <3>2, <3>3 DEF Progressed
    <3>4. CASE ~Progressed(b)
      BY <1>0, <1>3, <1>4, <3>1, <3>2, <3>4
    <3> QED BY <3>3, <3>4
  <2> QED BY <1>1, <2>1, <2>3, <2>4, <2>5, <2>6 DEF BufferInv
<1>5. CASE ~(cycles >= MaxCycles)
  <2>1. /\ stuck' = [x \in (DOMAIN stuck \ evicted) \cup {b} |->
                       IF x = b THEN [cycles |-> cycles, last |-> delivered] ELSE stuck[x]]
        /\ drain' = [drain EXCEPT !.pc = "rotate"] /\ UNCHANGED dropped
        /\ evidence' = IF evidence[b] = -1 THEN [evidence EXCEPT ![b] = 0] ELSE evidence
    BY <1>2, <1>5
  <2>2. drain' \in DrainRecords /\ drain'.pc = "rotate" /\ drain'.batch = drain.batch
    BY <1>0, <2>1 DEF DrainRecords, PCs
  <2>3. StuckInv'
    <3>1. cycles \in 0..(MaxCycles - 1)
      BY <1>0, <1>3, <1>5
    <3> QED BY <1>3, <2>1, <3>1, CycleKeeps DEF BufferInv
  <2>4. DrainInv'
    BY <2>1, <2>2, DrainMoves DEF BufferInv, DrainInv
  <2>5. OfferInv'
    BY <2>1, OfferFrame DEF BufferInv
  <2> QED BY <1>1, <2>1, <2>3, <2>4, <2>5 DEF BufferInv
<1> QED BY <1>4, <1>5

LEMMA AttemptKeeps ==
  ASSUME BufferInv, Attempt
  PROVE  BufferInv' /\ \A x \in dropped' \ dropped : x \in Invalid \/ evidence[x] >= MaxCycles
<1> DEFINE b == drain.batch
<1>0. /\ drain \in DrainRecords /\ drain.pc = "send" /\ b \in Batches /\ drain.tries \in Nat
      /\ drain.tries < Attempts /\ Attempts \in Nat \ {0}
  BY BufferAssumption DEF BufferInv, DrainInv, Attempt, DrainRecords
<1>1. UNCHANGED <<disk, handle, offer, gate, delivered, damaged>>
  BY DEF Attempt
<1>2. HandleInv'
  BY <1>1, HandleFrame DEF BufferInv
<1>3. PICK reply \in Replies(b) \cup (IF Cancelled THEN {"transport"} ELSE {}) :
        IF reply = "ok"
        THEN /\ received' = received \cup {b}
             /\ stuck' = Untracked(stuck, b)
             /\ drain' = [drain EXCEPT !.pc = "commit", !.result = "ok"]
             /\ UNCHANGED <<dropped, evidence>>
        ELSE IF IsPermanent(reply)
        THEN /\ dropped' = dropped \cup {b}
             /\ stuck' = Untracked(stuck, b)
             /\ drain' = [drain EXCEPT !.pc = "commit", !.result = "rejected"]
             /\ UNCHANGED <<received, evidence>>
        ELSE IF drain.tries + 1 >= Attempts \/ (drain.acct /\ Responded(reply))
        THEN FailedCycle(b, Responded(reply)) /\ UNCHANGED received
        ELSE /\ drain' = [drain EXCEPT !.pc = "wait", !.tries = @ + 1]
             /\ UNCHANGED <<stuck, received, dropped, evidence>>
  BY DEF Attempt
<1>4. ASSUME NEW result \in {"ok", "rejected"}, drain' = [drain EXCEPT !.pc = "commit", !.result = result],
             stuck' = Untracked(stuck, b), UNCHANGED evidence,
             received \subseteq received', dropped \subseteq dropped',
             received' \cup dropped' = received \cup dropped \cup {b}
      PROVE  BufferInv'
  <2>1. drain' \in DrainRecords /\ drain'.pc = "commit" /\ drain'.batch = b
    BY <1>0, <1>4 DEF DrainRecords, PCs
  <2>2. StuckInv' /\ b \notin DOMAIN stuck'
    BY <1>0, <1>1, <1>4, UntrackedKeeps DEF BufferInv
  <2>3. DrainInv'
    BY <1>0, <1>1, <1>4, <2>1, <2>2 DEF BufferInv, DrainInv
  <2>4. OfferInv'
    BY <1>0, <1>1, <1>4 DEF BufferInv, OfferInv, AcceptedIsKept
  <2> QED BY <1>2, <2>2, <2>3, <2>4 DEF BufferInv
<1>5. CASE reply = "ok"
  <2>1. BufferInv'
    BY <1>3, <1>4, <1>5
  <2> QED BY <1>3, <1>5, <2>1
<1>6. CASE reply # "ok" /\ IsPermanent(reply)
  <2>1. dropped' = dropped \cup {b} /\ BufferInv'
    BY <1>3, <1>4, <1>6
  <2>2. b \in Invalid
    BY <1>6 DEF IsPermanent, Replies
  <2> QED BY <2>1, <2>2
<1>7. CASE /\ reply # "ok" /\ ~IsPermanent(reply)
           /\ drain.tries + 1 >= Attempts \/ (drain.acct /\ Responded(reply))
  <2>1. FailedCycle(b, Responded(reply)) /\ UNCHANGED received /\ Responded(reply) \in BOOLEAN
    BY <1>3, <1>7 DEF Responded
  <2> QED BY <1>0, <1>1, <2>1, FailedCycleKeeps
<1>8. CASE /\ reply # "ok" /\ ~IsPermanent(reply)
           /\ ~(drain.tries + 1 >= Attempts \/ (drain.acct /\ Responded(reply)))
  <2>1. drain' = [drain EXCEPT !.pc = "wait", !.tries = @ + 1] /\ UNCHANGED <<stuck, received, dropped, evidence>>
        /\ drain.tries + 1 < Attempts
    BY <1>0, <1>3, <1>8
  <2>2. drain' \in DrainRecords /\ drain'.pc = "wait" /\ drain'.batch = b /\ drain'.tries < Attempts
    <3> DEFINE n == drain.tries + 1
    <3>1. n \in 0..Attempts /\ n < Attempts /\ drain' = [[drain EXCEPT !.pc = "wait"] EXCEPT !.tries = n]
      BY <1>0, <2>1
    <3> HIDE DEF n
    <3>2. [drain EXCEPT !.pc = "wait"] \in DrainRecords
      BY <1>0 DEF DrainRecords, PCs
    <3> QED BY <1>0, <3>1, <3>2 DEF DrainRecords
  <2>3. DrainInv'
    BY <1>0, <1>1, <2>1, <2>2, DrainMoves DEF BufferInv, DrainInv
  <2>4. StuckInv' /\ OfferInv'
    BY <1>1, <2>1, StuckFrame, OfferFrame DEF BufferInv
  <2> QED BY <1>2, <2>1, <2>3, <2>4 DEF BufferInv
<1> QED BY <1>5, <1>6, <1>7, <1>8

LEMMA CommitKeeps == ASSUME BufferInv, Commit PROVE BufferInv'
<1>0. /\ drain \in DrainRecords /\ drain.pc = "commit" /\ disk # <<>> /\ drain.batch = Head(disk)
      /\ drain.batch \in received \cup dropped /\ drain.batch \notin DOMAIN stuck /\ gate # "free"
      /\ disk \in Seq(Batches)
  BY DEF BufferInv, DrainInv, Commit
<1>1. UNCHANGED <<handle, offer, gate, stuck, received, dropped, damaged>>
  BY DEF Commit
<1>2. /\ disk' \in {disk, Tail(disk)}
      /\ \E pc \in {"take", "recover"} : drain' = [drain EXCEPT !.pc = pc]
  BY DEF Commit
<1>3. disk' \in Seq(Batches) /\ ToSet(disk) \subseteq {Head(disk)} \cup ToSet(disk')
  <2>1. ToSet(disk) = {Head(disk)} \cup ToSet(Tail(disk)) /\ Tail(disk) \in Seq(Batches)
    BY <1>0, QueueSets
  <2>2. CASE disk' = disk
    BY <1>0, <2>2
  <2>3. CASE disk' = Tail(disk)
    BY <2>1, <2>3
  <2> QED BY <1>2, <2>2, <2>3
<1>4. drain' \in DrainRecords /\ drain'.pc \in {"take", "recover"}
  BY <1>0, <1>2 DEF DrainRecords, PCs
<1>5. DrainInv'
  BY <1>0, <1>1, <1>3, <1>4 DEF BufferInv, DrainInv
<1>6. OfferInv'
  BY <1>0, <1>1, <1>3 DEF BufferInv, OfferInv, AcceptedIsKept
<1>7. StuckInv'
  <2>1. StuckInv
    BY DEF BufferInv
  <2> DEFINE n == IF drain.result = "ok" THEN 1 ELSE 0
  <2>2. delivered' = delivered + n /\ n \in {0, 1}
    BY <2>1 DEF Commit, StuckInv
  <2>3. /\ evidence' \in [Batches -> Int] /\ \A b \in Batches : evidence'[b] >= evidence[b] /\ evidence'[b] >= -1
        /\ \A b \in DOMAIN stuck : evidence[b] >= 0 => evidence'[b] = evidence[b] + n
    <3>1. evidence' = [b \in Batches |->
                      IF drain.result = "ok" /\ b # drain.batch /\ evidence[b] >= 0
                      THEN evidence[b] + 1 ELSE evidence[b]]
      BY DEF Commit
    <3>2. \A b \in DOMAIN stuck : b \in Batches /\ b # drain.batch
      BY <1>0, <2>1 DEF StuckInv
    <3> QED BY <2>1, <3>1, <3>2 DEF StuckInv
  <2> HIDE DEF n
  <2>4. stuck' \in [DOMAIN stuck' -> [cycles : 0..(MaxCycles - 1), last : 0..delivered']]
    <3>1. 0..delivered \subseteq 0..delivered'
      BY <2>1, <2>2 DEF StuckInv
    <3>2. \A x \in DOMAIN stuck : stuck[x] \in [cycles : 0..(MaxCycles - 1), last : 0..delivered']
      BY <2>1, <3>1 DEF StuckInv
    <3>3. stuck = [x \in DOMAIN stuck |-> stuck[x]]
      BY <2>1 DEF StuckInv
    <3> QED BY <1>1, <3>2, <3>3
  <2>5. ASSUME NEW b \in DOMAIN stuck PROVE evidence'[b] >= stuck[b].cycles + (delivered' - stuck[b].last)
    <3>1. /\ evidence[b] >= stuck[b].cycles + (delivered - stuck[b].last) /\ evidence[b] \in Int
          /\ stuck[b].cycles \in Nat /\ stuck[b].last \in 0..delivered /\ delivered \in Nat
      BY <2>1, BufferAssumption DEF StuckInv
    <3> QED BY <2>2, <2>3, <3>1
  <2>6. delivered' \in Nat
    BY <2>1, <2>2 DEF StuckInv
  <2> QED BY <1>1, <2>1, <2>3, <2>4, <2>5, <2>6 DEF StuckInv
<1>8. HandleInv'
  BY <1>1, HandleFrame DEF BufferInv
<1> QED BY <1>5, <1>6, <1>7, <1>8 DEF BufferInv

LEMMA RotateKeeps == ASSUME BufferInv, Rotate PROVE BufferInv'
<1>0. /\ drain \in DrainRecords /\ drain.pc = "rotate" /\ disk # <<>> /\ gate # "free" /\ disk \in Seq(Batches)
  BY DEF BufferInv, DrainInv, Rotate
<1>1. UNCHANGED <<handle, offer, gate, stuck, delivered, received, dropped, damaged, evidence>>
  BY DEF Rotate, history
<1>2. /\ disk' = disk \/ disk' = Append(Tail(disk), Head(disk))
      /\ \E pc \in {"take", "recover"} : drain' = [drain EXCEPT !.pc = pc]
  BY DEF Rotate
<1>3. disk' \in Seq(Batches) /\ ToSet(disk) \subseteq ToSet(disk')
  <2>1. ToSet(disk) = {Head(disk)} \cup ToSet(Tail(disk)) /\ Tail(disk) \in Seq(Batches) /\ Head(disk) \in Batches
    BY <1>0, QueueSets
  <2>2. CASE disk' = disk
    BY <1>0, <2>2
  <2>3. CASE disk' = Append(Tail(disk), Head(disk))
    <3> DEFINE t == Tail(disk)
               h == Head(disk)
    <3>1. t \in Seq(Batches) /\ h \in Batches
      BY <2>1
    <3> HIDE DEF t, h
    <3>2. Append(t, h) \in Seq(Batches) /\ ToSet(Append(t, h)) = ToSet(t) \cup {h}
      BY <3>1, QueueSets
    <3>3. ToSet(disk) = {h} \cup ToSet(t) /\ disk' = Append(t, h)
      BY <2>1, <2>3 DEF t, h
    <3> QED BY <3>2, <3>3
  <2> QED BY <1>2, <2>2, <2>3
<1>4. drain' \in DrainRecords /\ drain'.pc \in {"take", "recover"}
  BY <1>0, <1>2 DEF DrainRecords, PCs
<1>5. DrainInv'
  BY <1>0, <1>1, <1>3, <1>4 DEF BufferInv, DrainInv
<1> QED BY <1>1, <1>3, <1>5, HandleFrame, StuckFrame, OfferFrame DEF BufferInv

LEMMA ReserveCorruptKeeps == ASSUME BufferInv, ReserveCorrupt PROVE BufferInv'
<1>0. /\ drain \in DrainRecords /\ drain.pc = "reserve" /\ disk # <<>> /\ gate # "free" /\ disk \in Seq(Batches)
  BY DEF BufferInv, DrainInv, ReserveCorrupt
<1>1. UNCHANGED <<handle, offer, gate, stuck, delivered, received, dropped, evidence>>
  BY DEF ReserveCorrupt
<1>2. /\ disk' = Tail(disk) /\ damaged' = damaged \cup {Head(disk)} /\ drain' = [drain EXCEPT !.pc = "take"]
  BY DEF ReserveCorrupt
<1>3. disk' \in Seq(Batches) /\ ToSet(disk) = {Head(disk)} \cup ToSet(disk') /\ Head(disk) \in Batches
  BY <1>0, <1>2, QueueSets
<1>4. drain' \in DrainRecords /\ drain'.pc = "take"
  BY <1>0, <1>2 DEF DrainRecords, PCs
<1>5. DrainInv'
  BY <1>0, <1>1, <1>3, <1>4 DEF BufferInv, DrainInv
<1>6. OfferInv'
  BY <1>1, <1>2, <1>3 DEF BufferInv, OfferInv, AcceptedIsKept
<1> QED BY <1>1, <1>5, <1>6, HandleFrame, StuckFrame DEF BufferInv

\* The collector, the disk, the shutdown and the crash.
LEMMA AroundKeeps ==
  ASSUME BufferInv, FlipCollector \/ FailDisk \/ Stop \/ Close \/ Crash PROVE BufferInv'
<1>1. CASE FlipCollector \/ FailDisk \/ Stop \/ Close
  <2>1. UNCHANGED <<disk, offer, drain, gate, stuck, delivered, received, dropped, damaged, evidence>>
    BY <1>1 DEF FlipCollector, FailDisk, Stop, Close, history
  <2>2. HandleInv'
    <3>1. CASE handle' = handle
      BY <3>1, HandleFrame DEF BufferInv
    <3>2. CASE FailDisk
      BY <3>2 DEF FailDisk, BufferInv, HandleInv, HandleRecords, OneOpenHandle
    <3>3. CASE Close
      <4>1. handle' \in HandleRecords
        BY <3>3 DEF Close, BufferInv, HandleInv, HandleRecords
      <4>2. handle'.open = {}
        BY <3>3 DEF Close, BufferInv, HandleInv, HandleRecords, OneOpenHandle
      <4> QED BY <4>1, <4>2 DEF HandleInv, OneOpenHandle
    <3> QED BY <1>1, <3>1, <3>2, <3>3 DEF FlipCollector, Stop
  <2> QED BY <2>1, <2>2, DrainFrame, StuckFrame, OfferFrame DEF BufferInv
<1>2. CASE Crash
  <2>1. HandleInv'
    BY <1>2 DEF Crash, BufferInv, HandleInv, HandleRecords, OneOpenHandle
  <2>2. DrainInv'
    BY <1>2, IdleRecord DEF Crash, BufferInv, DrainInv
  <2>3. StuckInv'
    <3>1. DOMAIN stuck' = {} /\ Cardinality({}) = 0
      BY <1>2, FS_EmptySet DEF Crash
    <3>2. Cardinality(DOMAIN stuck') <= MaxTracked
      BY <3>1, BufferAssumption
    <3>3. delivered' = 0 /\ evidence' = [b \in Batches |-> -1] /\ stuck' = [x \in {} |-> 0]
      BY <1>2 DEF Crash
    <3>4. stuck' \in [DOMAIN stuck' -> [cycles : 0..(MaxCycles - 1), last : 0..delivered']]
      BY <3>1, <3>3, Zenon
    <3> QED BY <3>1, <3>2, <3>3, <3>4 DEF StuckInv
  <2>4. OfferInv'
    <3>1. /\ offer' \in [Batches -> [pc : {"new", "add", "recover", "accepted", "refused"}, h : Nat]]
          /\ \A b \in Batches : offer'[b].pc = "accepted" => offer[b].pc = "accepted"
      BY <1>2 DEF Crash, BufferInv, OfferInv
    <3>2. UNCHANGED <<disk, received, dropped, damaged>>
      BY <1>2 DEF Crash
    <3> QED BY <3>1, <3>2 DEF BufferInv, OfferInv, AcceptedIsKept
  <2> QED BY <2>1, <2>2, <2>3, <2>4 DEF BufferInv
<1> QED BY <1>1, <1>2

LEMMA BufferNextKeeps == BufferInv /\ [Next]_vars => BufferInv'
<1> SUFFICES ASSUME BufferInv, [Next]_vars PROVE BufferInv'
  OBVIOUS
<1>1. CASE UNCHANGED vars
  BY <1>1, HandleFrame, DrainFrame, StuckFrame, OfferFrame DEF BufferInv, vars
<1>2. CASE Next
  BY <1>2, ProduceKeeps, TakesHead, WaitsKeep, AttemptKeeps, CommitKeeps, RotateKeeps, ReserveCorruptKeeps,
     AroundKeeps DEF Next, DrainStep
<1> QED BY <1>1, <1>2

LEMMA BufferInvSuffices == BufferInv => BufferSound
<1> SUFFICES ASSUME BufferInv PROVE BufferSound
  OBVIOUS
<1>1. TypeOK
  <2>1. handle.open \subseteq 1..handle.cur /\ handle.cur \in Nat
    BY DEF BufferInv, HandleInv, HandleRecords, OneOpenHandle
  <2>2. \A b \in DOMAIN stuck : stuck[b].cycles \in 0..(MaxCycles - 1) /\ stuck[b].last \in 0..delivered
    BY DEF BufferInv, StuckInv
  <2>3. drain.pc \in PCs /\ drain.mode \in {"run", "final"} /\ drain.tries \in 0..Attempts
        /\ drain.batch \in Batches \cup {NoBatch}
    BY DEF BufferInv, DrainInv, DrainRecords
  <2> QED BY <2>1, <2>2, <2>3 DEF TypeOK, BufferInv, DrainInv, StuckInv, OfferInv
<1> QED BY <1>1 DEF BufferSound, BufferInv, HandleInv, OfferInv

\* For any set of batches, capacity and number of faults: an enqueue that answered
\* nil has its batch on disk until the collector has it, its loss was counted or
\* reported, in the one queue that is open (sink.enqueue, Buffer.recover).
THEOREM BufferAlwaysSound == Spec => []BufferSound
<1>1. Spec => []BufferInv
  BY BufferInitEstablishes, BufferNextKeeps, PTL DEF Spec
<1> QED BY <1>1, BufferInvSuffices, PTL

\* Nothing else drops a batch.
LEMMA OnlyAttemptsDrop ==
  ASSUME BufferInv, [Next]_vars PROVE \A b \in dropped' \ dropped : b \in Invalid \/ evidence[b] >= MaxCycles
<1>1. CASE Attempt
  BY <1>1, AttemptKeeps
<1>2. CASE UNCHANGED dropped
  BY <1>2
<1> QED BY <1>1, <1>2 DEF Next, DrainStep, Produce, TakeHandle, Add, RecoverAdd, StartDrain, Take, Reserve,
       ReserveCorrupt, Backoff, Commit, Rotate, RecoverDrain, FlipCollector, FailDisk, Stop, Close, Crash,
       history, vars

\* An outage never costs a batch, however long it is and whatever is tracked,
\* evicted or restarted meanwhile (stuckTooLong).
THEOREM DropsAlwaysHaveEvidence == Spec => DropsHaveEvidence
<1>1. Spec => []BufferInv
  BY BufferInitEstablishes, BufferNextKeeps, PTL DEF Spec
<1>2. BufferInv /\ [Next]_vars => [\A b \in dropped' \ dropped : b \in Invalid \/ evidence[b] >= MaxCycles]_vars
  BY OnlyAttemptsDrop
<1> QED BY <1>1, <1>2, PTL DEF Spec, DropsHaveEvidence

-----------------------------------------------------------------------------
(* The export client.                                                      *)

\* What is known of one call k whose parts the collector took t times: a part
\* before the one being sent was taken, one at or after it was not taken in this
\* attempt, and a verdict of nil means that all were.
CallRecords == [pc : {"idle", "send", "note", "lock", "backoff", "done"}, kind : Kinds,
                attempt : Nat, part : Nat, err : {"nil", "transient", "permanent", "cancelled"}]
CallOK(k, t) ==
  /\ k \in CallRecords /\ t \in [1..NParts -> Nat]
  /\ k.pc = "idle" => k.attempt = 0 /\ \A p \in 1..NParts : t[p] = 0
  /\ k.pc # "idle" => k.attempt \in 1..AttemptsOf(k.kind) /\ k.part \in PartsOf(k.kind)
  /\ \A p \in PartsOf(k.kind) :
       /\ t[p] <= k.attempt
       /\ k.pc = "send" => IF p < k.part THEN t[p] > 0 ELSE t[p] < k.attempt
       /\ k.pc \in {"note", "lock", "done"} /\ k.err = "nil" => t[p] > 0
  /\ k.pc = "backoff" => k.attempt < AttemptsOf(k.kind) /\ k.err # "nil"
  /\ k.pc = "lock" => k.err \in {"nil", "transient"}

\* The reporter counts the failing signals, and a signal is failing exactly while
\* its last verdict says so and its outage is announced.
On(s) == IF state[s] THEN 1 ELSE 0
HealthOK ==
  /\ state \in [Signals -> BOOLEAN] /\ outages \in [Signals -> Nat]
  /\ lastNoted \in [Signals -> {"nil", "transient"}]
  /\ failing = On("logs") + On("metrics")
  /\ \A s \in Signals : outages[s] = On(s) /\ (state[s] <=> lastNoted[s] = "transient")

ClientInv ==
  /\ call \in [Calls -> CallRecords] /\ collected \in [Calls -> [1..NParts -> Nat]]
  /\ \A c \in Calls : CallOK(call[c], collected[c])
  /\ HealthOK

LEMMA ClientInitEstablishes == ClientInit => ClientInv
<1> SUFFICES ASSUME ClientInit PROVE ClientInv
  OBVIOUS
<1>1. call \in [Calls -> CallRecords] /\ collected \in [Calls -> [1..NParts -> Nat]]
  BY DEF ClientInit, CallRecords, Kinds
<1>2. ASSUME NEW c \in Calls PROVE CallOK(call[c], collected[c])
  BY <1>1, ClientAssumption DEF ClientInit, CallOK, PartsOf
<1>3. HealthOK
  BY DEF ClientInit, HealthOK, On, Signals
<1> QED BY <1>1, <1>2, <1>3 DEF ClientInv

\* A step of one call leaves the others what they were.
LEMMA CallStep ==
  ASSUME ClientInv, NEW c \in Calls, NEW k, NEW t,
         call' = [call EXCEPT ![c] = k], collected' = [collected EXCEPT ![c] = t],
         CallOK(k, t), HealthOK'
  PROVE  ClientInv'
<1>1. call' \in [Calls -> CallRecords] /\ collected' \in [Calls -> [1..NParts -> Nat]]
  BY DEF ClientInv, CallOK
<1>2. ASSUME NEW d \in Calls PROVE CallOK(call'[d], collected'[d])
  BY DEF ClientInv
<1> QED BY <1>1, <1>2 DEF ClientInv

\* The end of a part: the next one, or the verdict nil.
LEMMA SentOK ==
  ASSUME NEW k, NEW t, CallOK(k, t), k.pc = "send"
  PROVE  LET u == [t EXCEPT ![k.part] = @ + 1]
         IN  /\ k.part + 1 \in PartsOf(k.kind) => CallOK([k EXCEPT !.part = @ + 1], u)
             /\ k.part + 1 \notin PartsOf(k.kind) => CallOK([k EXCEPT !.pc = "note", !.err = "nil"], u)
             /\ \A err \in {"transient", "cancelled"} : CallOK([k EXCEPT !.pc = "note", !.err = err], u)
<1> DEFINE u == [t EXCEPT ![k.part] = @ + 1]
<1>1. /\ k \in CallRecords /\ t \in [1..NParts -> Nat] /\ k.part \in PartsOf(k.kind)
      /\ PartsOf(k.kind) \subseteq 1..NParts /\ k.attempt \in 1..AttemptsOf(k.kind)
  BY ClientAssumption DEF CallOK, PartsOf
<1>2. u \in [1..NParts -> Nat] /\ u[k.part] = t[k.part] + 1
      /\ \A p \in 1..NParts \ {k.part} : u[p] = t[p]
  BY <1>1
<1>3. \A p \in PartsOf(k.kind) : u[p] <= k.attempt /\ (p <= k.part => u[p] > 0)
                                 /\ (p > k.part => u[p] < k.attempt)
  BY <1>1, <1>2 DEF CallOK, CallRecords, PartsOf
<1>4. ASSUME k.part + 1 \in PartsOf(k.kind) PROVE CallOK([k EXCEPT !.part = @ + 1], u)
  BY <1>1, <1>2, <1>3, <1>4 DEF CallOK, CallRecords, PartsOf
<1>5. ASSUME k.part + 1 \notin PartsOf(k.kind) PROVE CallOK([k EXCEPT !.pc = "note", !.err = "nil"], u)
  <2>1. \A p \in PartsOf(k.kind) : p <= k.part
    BY <1>1, <1>5, ClientAssumption DEF PartsOf
  <2> QED BY <1>1, <1>2, <1>3, <2>1 DEF CallOK, CallRecords
<1>6. ASSUME NEW err \in {"transient", "cancelled"} PROVE CallOK([k EXCEPT !.pc = "note", !.err = err], u)
  BY <1>1, <1>2, <1>3, <1>6 DEF CallOK, CallRecords
<1> QED BY <1>4, <1>5, <1>6

\* A failed part leads to the verdict on the attempt.
LEMMA FailsOK ==
  ASSUME NEW k, NEW t, CallOK(k, t), k.pc = "send", NEW err \in {"transient", "permanent", "cancelled"}
  PROVE  CallOK([k EXCEPT !.pc = "note", !.err = err], t)
BY DEF CallOK, CallRecords

\* A verdict ends the export or has it retried.
LEMMA NotedOK ==
  ASSUME NEW k, NEW t, CallOK(k, t), k.pc \in {"note", "lock"}
  PROVE  /\ CallOK([k EXCEPT !.pc = "done"], t)
         /\ k.attempt < AttemptsOf(k.kind) /\ k.err # "nil" => CallOK([k EXCEPT !.pc = "backoff"], t)
<1>1. CallOK([k EXCEPT !.pc = "done"], t)
  BY DEF CallOK, CallRecords
<1>2. ASSUME k.attempt < AttemptsOf(k.kind), k.err # "nil" PROVE CallOK([k EXCEPT !.pc = "backoff"], t)
  BY <1>2 DEF CallOK, CallRecords
<1> QED BY <1>1, <1>2

LEMMA AfterNoteKeeps ==
  ASSUME ClientInv, NEW c \in Calls, call[c].pc \in {"note", "lock"}, AfterNote(c),
         UNCHANGED collected, HealthOK'
  PROVE  ClientInv'
<1> DEFINE again == /\ call[c].err \notin {"nil", "permanent"}
                    /\ call[c].attempt < AttemptsOf(call[c].kind)
           k == [call[c] EXCEPT !.pc = IF again THEN "backoff" ELSE "done"]
<1>1. CallOK(call[c], collected[c])
  BY DEF ClientInv
<1>2. CallOK(k, collected[c])
  BY <1>1, NotedOK
<1>3. call' = [call EXCEPT ![c] = k] /\ collected' = [collected EXCEPT ![c] = collected[c]]
  BY DEF AfterNote, ClientInv
<1> HIDE DEF k
<1> QED BY <1>2, <1>3, CallStep

\* Nothing but a verdict reaches the reporter.
LEMMA HealthFrame == ASSUME ClientInv, UNCHANGED healthVars PROVE HealthOK'
BY DEF ClientInv, HealthOK, healthVars, On

LEMMA BeginKeeps ==
  ASSUME ClientInv, NEW c \in Calls, NEW kind \in KindsOf[c], Begin(c, kind) PROVE ClientInv'
<1> DEFINE k == [pc |-> "send", kind |-> kind, attempt |-> 1, part |-> 1, err |-> "nil"]
<1>1. kind \in Kinds
  BY ClientAssumption
<1>2. CallOK(call[c], collected[c]) /\ call[c].pc = "idle"
  BY DEF ClientInv, Begin
<1>3. CallOK(k, collected[c])
  BY <1>1, <1>2, ClientAssumption DEF CallOK, CallRecords, AttemptsOf, PartsOf
<1>4. call' = [call EXCEPT ![c] = k] /\ collected' = [collected EXCEPT ![c] = collected[c]]
  BY DEF Begin, ClientInv
<1>5. HealthOK'
  BY HealthFrame DEF Begin
<1> HIDE DEF k
<1> QED BY <1>3, <1>4, <1>5, CallStep

LEMMA SendKeeps ==
  ASSUME ClientInv, NEW c \in Calls, TokenFails(c) \/ Accepted(c) \/ AnswerLost(c) \/ Refused(c)
  PROVE  ClientInv'
<1> DEFINE k == call[c]
           t == collected[c]
           u == [t EXCEPT ![k.part] = @ + 1]
<1>1. CallOK(k, t) /\ k.pc = "send"
  BY DEF ClientInv, TokenFails, Accepted, AnswerLost, Refused
<1>2. HealthOK'
  BY HealthFrame DEF TokenFails, Accepted, AnswerLost, Refused
<1>3. ASSUME NEW err \in {"transient", "permanent", "cancelled"}, Fails(c, err), UNCHANGED collected
      PROVE  ClientInv'
  <2>1. call' = [call EXCEPT ![c] = [k EXCEPT !.pc = "note", !.err = err]]
        /\ collected' = [collected EXCEPT ![c] = t]
    BY <1>3 DEF Fails, ClientInv, CallRecords
  <2>2. CallOK([k EXCEPT !.pc = "note", !.err = err], t)
    BY <1>1, FailsOK
  <2> QED BY <1>2, <2>1, <2>2, CallStep
<1>4. CASE TokenFails(c) \/ Refused(c)
  BY <1>3, <1>4 DEF TokenFails, Refused
<1>5. ASSUME Collect(c) PROVE collected' = [collected EXCEPT ![c] = u]
  BY <1>5 DEF Collect, ClientInv
<1>6. CASE AnswerLost(c)
  <2>1. PICK err \in {"transient", "cancelled"} : Fails(c, err)
    BY <1>6 DEF AnswerLost
  <2>2. call' = [call EXCEPT ![c] = [k EXCEPT !.pc = "note", !.err = err]]
    BY <2>1 DEF Fails, ClientInv, CallRecords
  <2>3. CallOK([k EXCEPT !.pc = "note", !.err = err], u)
    BY <1>1, SentOK
  <2>4. collected' = [collected EXCEPT ![c] = u]
    BY <1>5, <1>6 DEF AnswerLost
  <2> QED BY <1>2, <2>2, <2>3, <2>4, CallStep
<1>7. CASE Accepted(c)
  <2>1. collected' = [collected EXCEPT ![c] = u]
    BY <1>5, <1>7 DEF Accepted
  <2>2. CASE k.part + 1 \in PartsOf(k.kind)
    <3>1. call' = [call EXCEPT ![c] = [k EXCEPT !.part = @ + 1]]
      BY <1>7, <2>2 DEF Accepted, Sent, ClientInv, CallRecords
    <3>2. CallOK([k EXCEPT !.part = @ + 1], u)
      BY <1>1, <2>2, SentOK
    <3> QED BY <1>2, <2>1, <3>1, <3>2, CallStep
  <2>3. CASE k.part + 1 \notin PartsOf(k.kind)
    <3>1. call' = [call EXCEPT ![c] = [k EXCEPT !.pc = "note", !.err = "nil"]]
      BY <1>7, <2>3 DEF Accepted, Sent, ClientInv, CallRecords
    <3>2. CallOK([k EXCEPT !.pc = "note", !.err = "nil"], u)
      BY <1>1, <2>3, SentOK
    <3> QED BY <1>2, <2>1, <3>1, <3>2, CallStep
  <2> QED BY <2>2, <2>3
<1> QED BY <1>4, <1>6, <1>7

\* A success that takes no lock saw no signal failing: its own is not.
LEMMA NoteUnlockedKeeps ==
  ASSUME ClientInv, NEW c \in Calls, NoteUnlocked(c) PROVE ClientInv'
<1>1. HealthOK'
  <2>1. CASE UNCHANGED healthVars
    BY <2>1, HealthFrame
  <2>2. CASE NoteFast(c)
    <3>1. \A s \in Signals : ~state[s]
      BY <2>2 DEF NoteFast, ClientInv, HealthOK, On, Signals
    <3>2. lastNoted' = lastNoted
      BY <2>2, <3>1 DEF NoteFast, ClientInv, HealthOK, Sig, SignalOf, Signals
    <3> QED BY <2>2, <3>2, HealthFrame DEF NoteFast, healthVars
  <2> QED BY <2>1, <2>2 DEF NoteUnlocked, NoteCancelled, NoteRejected
<1> QED BY <1>1, AfterNoteKeeps DEF NoteUnlocked

LEMMA NoteSlowKeeps ==
  ASSUME ClientInv, NEW c \in Calls, NoteSlow(c) PROVE ClientInv'
<1>1. CallOK(call[c], collected[c]) /\ call[c].pc = "note" /\ call[c].err \in {"nil", "transient"}
  BY DEF ClientInv, NoteSlow
<1>2. CallOK([call[c] EXCEPT !.pc = "lock"], collected[c])
  BY <1>1 DEF CallOK, CallRecords
<1>3. call' = [call EXCEPT ![c] = [call[c] EXCEPT !.pc = "lock"]]
      /\ collected' = [collected EXCEPT ![c] = collected[c]]
  BY DEF NoteSlow, ClientInv, CallRecords
<1>4. HealthOK'
  BY HealthFrame DEF NoteSlow
<1> QED BY <1>2, <1>3, <1>4, CallStep

\* Under the lock the count, the state and what was announced move together.
LEMMA NoteLockedKeeps ==
  ASSUME ClientInv, NEW c \in Calls, NoteLocked(c) PROVE ClientInv'
<1> DEFINE s == Sig(c)
<1>1. s \in Signals /\ call[c].err \in {"nil", "transient"}
  BY DEF ClientInv, CallOK, NoteLocked, Sig, SignalOf, Signals
<1>2. lastNoted' = [lastNoted EXCEPT ![s] = call[c].err]
  BY DEF NoteLocked
<1>3. CASE call[c].err = "nil"
  <2>1. OutageEnds(s)
    BY <1>3 DEF NoteLocked
  <2>2. HealthOK'
    <3> HIDE DEF s
    <3>1. CASE state[s]
      <4>1. state' = [state EXCEPT ![s] = FALSE] /\ outages' = [outages EXCEPT ![s] = @ - 1]
            /\ failing' = failing - 1
        BY <2>1, <3>1 DEF OutageEnds
      <4>2. outages[s] = 1
        BY <1>1, <3>1 DEF ClientInv, HealthOK, On
      <4>3. CASE s = "logs"
        BY <1>2, <1>3, <3>1, <4>1, <4>2, <4>3 DEF ClientInv, HealthOK, On, Signals
      <4>4. CASE s = "metrics"
        BY <1>2, <1>3, <3>1, <4>1, <4>2, <4>4 DEF ClientInv, HealthOK, On, Signals
      <4> QED BY <1>1, <4>3, <4>4 DEF Signals
    <3>2. CASE ~state[s]
      BY <1>1, <1>2, <1>3, <2>1, <3>2 DEF OutageEnds, ClientInv, HealthOK, On, Signals
    <3> QED BY <3>1, <3>2
  <2> QED BY <2>2, AfterNoteKeeps DEF NoteLocked
<1>4. CASE call[c].err = "transient"
  <2>1. OutageFails(s)
    BY <1>4 DEF NoteLocked
  <2>2. HealthOK'
    <3> HIDE DEF s
    <3>1. CASE state[s]
      BY <1>1, <1>2, <1>4, <2>1, <3>1 DEF OutageFails, ClientInv, HealthOK, On, Signals
    <3>2. CASE ~state[s]
      BY <1>1, <1>2, <1>4, <2>1, <3>2 DEF OutageFails, ClientInv, HealthOK, On, Signals
    <3> QED BY <3>1, <3>2
  <2> QED BY <2>2, AfterNoteKeeps DEF NoteLocked
<1> QED BY <1>1, <1>3, <1>4

\* A retry starts with the first part; none was taken more often than there were attempts.
LEMMA RestartOK ==
  ASSUME NEW k, NEW t, CallOK(k, t), k.pc = "backoff" PROVE CallOK(Restart(k), t)
<1> DEFINE r == Restart(k)
<1>1. k \in CallRecords /\ k.attempt \in Nat /\ k.kind \in Kinds
  BY DEF CallOK, CallRecords
<1>2. r = [pc |-> "send", kind |-> k.kind, attempt |-> k.attempt + 1, part |-> 1, err |-> k.err]
  BY <1>1 DEF Restart, CallRecords
<1> HIDE DEF r
<1>3. r \in CallRecords
  BY <1>1, <1>2 DEF CallRecords
<1>4. r.pc = "send" /\ r.attempt = k.attempt + 1 /\ r.part = 1 /\ r.kind = k.kind
  BY <1>2
<1>5. r.attempt \in 1..AttemptsOf(r.kind) /\ r.part \in PartsOf(r.kind)
  BY <1>1, <1>4, ClientAssumption DEF CallOK, AttemptsOf, PartsOf
<1>6. \A p \in PartsOf(r.kind) : t[p] \in Nat /\ t[p] <= k.attempt /\ ~(p < 1)
  BY <1>1, <1>4, ClientAssumption DEF CallOK, PartsOf
<1>7. \A p \in PartsOf(r.kind) : t[p] <= r.attempt /\ t[p] < r.attempt /\ ~(p < r.part)
  BY <1>1, <1>4, <1>6
<1>8. CallOK(r, t)
  BY <1>3, <1>4, <1>5, <1>7 DEF CallOK
<1> QED BY <1>8 DEF r

LEMMA BackoffKeeps ==
  ASSUME ClientInv, NEW c \in Calls, Retry(c) \/ GiveUp(c) PROVE ClientInv'
<1>1. CallOK(call[c], collected[c]) /\ call[c].pc = "backoff"
  BY DEF ClientInv, Retry, GiveUp
<1>2. CallOK(Restart(call[c]), collected[c])
  BY <1>1, RestartOK
<1>3. CallOK([call[c] EXCEPT !.pc = "done"], collected[c])
  BY <1>1 DEF CallOK, CallRecords
<1>4. HealthOK'
  BY HealthFrame DEF Retry, GiveUp
<1>5. collected' = [collected EXCEPT ![c] = collected[c]]
  BY DEF Retry, GiveUp, ClientInv
<1>6. CASE Retry(c)
  BY <1>2, <1>4, <1>5, <1>6, CallStep DEF Retry
<1>7. CASE GiveUp(c)
  <2>1. call' = [call EXCEPT ![c] = [call[c] EXCEPT !.pc = "done"]]
    BY <1>7 DEF GiveUp, ClientInv, CallRecords
  <2> QED BY <1>3, <1>4, <1>5, <2>1, CallStep
<1> QED BY <1>6, <1>7

LEMMA ClientNextKeeps == ClientInv /\ [ClientNext]_clientVars => ClientInv'
<1> SUFFICES ASSUME ClientInv, [ClientNext]_clientVars PROVE ClientInv'
  OBVIOUS
<1>1. CASE UNCHANGED clientVars
  BY <1>1 DEF ClientInv, HealthOK, On, clientVars
<1>2. CASE ClientNext
  BY <1>2, BeginKeeps, SendKeeps, NoteUnlockedKeeps, NoteSlowKeeps, NoteLockedKeeps, BackoffKeeps
     DEF ClientNext
<1> QED BY <1>1, <1>2

\* What is known of the calls and the reporter is enough.
LEMMA ClientInvSuffices == ClientInv => DeliveryTold
<1> SUFFICES ASSUME ClientInv PROVE DeliveryTold
  OBVIOUS
<1>1. ExportAnswer
  BY ClientAssumption DEF ClientInv, CallOK, ExportAnswer, CallRecords, AttemptsOf
<1>2. OutageTold
  BY DEF ClientInv, HealthOK, OutageTold, On
<1> QED BY <1>1, <1>2 DEF DeliveryTold

\* For any number of calls, parts and attempts: a nil answer means that every
\* part was taken, no part is sent more often than attempts were made, and the log
\* announces exactly the outages there are (Client.export, FailureReporter.Note).
THEOREM DeliveryAlwaysTold == ClientSpec => []DeliveryTold
<1>1. ClientSpec => []ClientInv
  BY ClientInitEstablishes, ClientNextKeeps, PTL DEF ClientSpec
<1> QED BY <1>1, ClientInvSuffices, PTL

-----------------------------------------------------------------------------
(* The pools of the transports.                                             *)

\* A pool holds an object at most once.
PoolOK(p, Z) ==
  /\ p \in [warm : Z \cup {none}, pool : [Z -> Nat]]
  /\ \A z \in Z : p.pool[z] <= 1 /\ (p.warm = z => p.pool[z] = 0)

\* An object that is taken is in the pool no more; the others are where they were.
LEMMA GotOK ==
  ASSUME NEW p, NEW Z, NEW U \in SUBSET Z, PoolOK(p, Z), none \notin Z,
         \A z \in U : ~Pooled(p, z), NEW g \in Got(p, U)
  PROVE  /\ g.z \in Z /\ PoolOK(g.p, Z) /\ ~Pooled(g.p, g.z)
         /\ \A y \in Z : y # g.z => (Pooled(g.p, y) <=> Pooled(p, y))
         /\ Pooled(p, g.z) \/ g.z \in U
<1>0. p \in [warm : Z \cup {none}, pool : [Z -> Nat]] /\ DOMAIN p.pool = Z
  BY DEF PoolOK
<1>1. CASE p.warm # none
  <2>1. g.z = p.warm /\ g.p = [p EXCEPT !.warm = none]
    BY <1>1 DEF Got
  <2>2. g.p.warm = none /\ g.p.pool = p.pool /\ g.p \in [warm : Z \cup {none}, pool : [Z -> Nat]]
    BY <1>0, <2>1
  <2> QED BY <1>0, <1>1, <2>1, <2>2 DEF PoolOK, Pooled
<1>2. ASSUME p.warm = none, NEW z \in Z, p.pool[z] > 0, g.z = z, g.p = [p EXCEPT !.pool[z] = @ - 1]
      PROVE  /\ g.z \in Z /\ PoolOK(g.p, Z) /\ ~Pooled(g.p, g.z)
             /\ \A y \in Z : y # g.z => (Pooled(g.p, y) <=> Pooled(p, y))
             /\ Pooled(p, g.z) \/ g.z \in U
  <2> DEFINE f == [p.pool EXCEPT ![z] = @ - 1]
  <2>1. p.pool[z] = 1 /\ f \in [Z -> Nat] /\ f[z] = 0 /\ \A y \in Z \ {z} : f[y] = p.pool[y]
    BY <1>0, <1>2 DEF PoolOK
  <2>2. g.p.warm = none /\ g.p.pool = f /\ g.p \in [warm : Z \cup {none}, pool : [Z -> Nat]]
    BY <1>0, <1>2, <2>1
  <2> HIDE DEF f
  <2> QED BY <1>0, <1>2, <2>1, <2>2 DEF PoolOK, Pooled
<1>3. ASSUME p.warm = none, NEW z \in U, g.z = z, g.p = p
      PROVE  /\ g.z \in Z /\ PoolOK(g.p, Z) /\ ~Pooled(g.p, g.z)
             /\ \A y \in Z : y # g.z => (Pooled(g.p, y) <=> Pooled(p, y))
             /\ Pooled(p, g.z) \/ g.z \in U
  BY <1>3
<1>4. CASE p.warm = none
  <2>1. \/ \E z \in Z : p.pool[z] > 0 /\ g = [z |-> z, p |-> [p EXCEPT !.pool[z] = @ - 1]]
        \/ \E z \in U : g = [z |-> z, p |-> p]
    BY <1>0, <1>4 DEF Got
  <2>2. CASE \E z \in Z : p.pool[z] > 0 /\ g = [z |-> z, p |-> [p EXCEPT !.pool[z] = @ - 1]]
    <3>1. PICK z \in Z : p.pool[z] > 0 /\ g = [z |-> z, p |-> [p EXCEPT !.pool[z] = @ - 1]]
      BY <2>2
    <3>2. g.z = z /\ g.p = [p EXCEPT !.pool[z] = @ - 1]
      BY <3>1
    <3> QED BY <1>2, <1>4, <3>1, <3>2
  <2>3. CASE \E z \in U : g = [z |-> z, p |-> p]
    <3>1. PICK z \in U : g = [z |-> z, p |-> p]
      BY <2>3
    <3>2. g.z = z /\ g.p = p
      BY <3>1
    <3> QED BY <1>3, <1>4, <3>2
  <2> QED BY <2>1, <2>2, <2>3
<1> QED BY <1>1, <1>4

\* One that is put back is in the pool once.
LEMMA PutOK ==
  ASSUME NEW p, NEW Z, PoolOK(p, Z), none \notin Z, NEW z \in Z, ~Pooled(p, z)
  PROVE  PoolOK(Put(p, z), Z) /\ \A y \in Z : Pooled(Put(p, z), y) <=> y = z \/ Pooled(p, y)
<1>0. p \in [warm : Z \cup {none}, pool : [Z -> Nat]] /\ p.pool[z] = 0
  BY DEF PoolOK, Pooled
<1>1. CASE p.warm = none
  <2> DEFINE q == Put(p, z)
  <2>1. q.warm = z /\ q.pool = p.pool /\ q \in [warm : Z \cup {none}, pool : [Z -> Nat]]
    BY <1>0, <1>1 DEF Put
  <2>2. PoolOK(q, Z) /\ \A y \in Z : Pooled(q, y) <=> y = z \/ Pooled(p, y)
    <3> HIDE DEF q
    <3> QED BY <1>0, <1>1, <2>1 DEF PoolOK, Pooled
  <2> QED BY <2>2
<1>2. CASE p.warm # none
  <2> DEFINE q == Put(p, z)
             f == [p.pool EXCEPT ![z] = @ + 1]
  <2>1. f \in [Z -> Nat] /\ f[z] = 1 /\ \A y \in Z \ {z} : f[y] = p.pool[y]
    BY <1>0
  <2>2. q.warm = p.warm /\ q.pool = f /\ q \in [warm : Z \cup {none}, pool : [Z -> Nat]]
    BY <1>0, <1>2, <2>1 DEF Put
  <2>3. PoolOK(q, Z) /\ \A y \in Z : Pooled(q, y) <=> y = z \/ Pooled(p, y)
    <3> HIDE DEF q, f
    <3> QED BY <1>0, <1>2, <2>1, <2>2 DEF PoolOK, Pooled
  <2> QED BY <2>3
<1> QED BY <1>1, <1>2

-----------------------------------------------------------------------------
\* A post is on its way in a buffer of its own while it is made, sent or read.
PostRecords == [pc : {"idle", "compress", "do", "closed", "done"}, kind : {"http", "grpc"},
                buf : Bufs \cup {none}, writer : Writers \cup {none}]
Holds(p) == (post[p].kind = "http" /\ post[p].pc \in {"compress", "do"}) \/ p \in reading

BodyInv ==
  /\ post \in [Posts -> PostRecords] /\ content \in [Bufs -> Posts \cup {none}]
  /\ reading \subseteq Posts /\ free \subseteq Bufs /\ reading \cap consumed = {}
  /\ \A p \in Posts : post[p].pc = "do" => post[p].kind = "http"
  /\ \A p \in Posts : Holds(p) => post[p].buf \in Bufs \ free
  /\ \A p, q \in Posts : Holds(p) /\ Holds(q) /\ p # q => post[p].buf # post[q].buf
  /\ \A p \in reading : post[p].pc \in {"do", "done"}
  /\ \A p \in Posts : (post[p].pc = "do" \/ p \in reading) => content[post[p].buf] = p

\* A writer that is in use is in no pool, and compresses for its own post.
WriterInv ==
  /\ PoolOK(writers, Writers) /\ target \in [Writers -> Posts \cup {none}]
  /\ \A p \in Posts :
       /\ post[p].pc = "compress" =>
            post[p].writer \in Writers /\ target[post[p].writer] = p /\ ~Pooled(writers, post[p].writer)
       /\ post[p].pc # "compress" => post[p].writer = none

\* A reader that is in use is in no pool, and reads its own message.
ReaderInv ==
  /\ PoolOK(readers, Readers) /\ source \in [Readers -> Msgs \cup {none}]
  /\ msg \in [Msgs -> [z : Readers \cup {none}, err : BOOLEAN, busy : BOOLEAN, closed : BOOLEAN]]
  /\ \A m \in Msgs : msg[m].z # none => source[msg[m].z] = m /\ ~Pooled(readers, msg[m].z)

PoolsInv == BodyInv /\ WriterInv /\ ReaderInv

bodyVars == <<reading, consumed, content, free>>
readerVars == <<msg, source, readers>>

LEMMA PoolsInitEstablishes == PoolsInit => PoolsInv
<1> SUFFICES ASSUME PoolsInit PROVE PoolsInv
  OBVIOUS
<1>1. ASSUME NEW Z PROVE PoolOK(Cold(Z), Z)
  BY DEF PoolOK, Cold
<1>2. post \in [Posts -> PostRecords] /\ \A p \in Posts : post[p].pc = "idle" /\ post[p].writer = none
  BY DEF PoolsInit, PostRecords
<1>3. BodyInv
  BY <1>2 DEF PoolsInit, BodyInv, Holds
<1>4. WriterInv
  BY <1>1, <1>2 DEF PoolsInit, WriterInv
<1>5. ReaderInv
  BY <1>1 DEF PoolsInit, ReaderInv
<1> QED BY <1>3, <1>4, <1>5 DEF PoolsInv

-----------------------------------------------------------------------------
\* What Compress makes of a post.
Taken(p, z, b) == [pc |-> "compress", kind |-> post[p].kind, buf |-> b, writer |-> z]

LEMMA CompressKeeps ==
  ASSUME PoolsInv, NEW p \in Posts, Compress(p) PROVE PoolsInv'
<1>1. PICK g \in Got(writers, UnusedWriters), b \in free \cup UnusedBufs :
        /\ writers' = g.p /\ target' = [target EXCEPT ![g.z] = p]
        /\ post' = [post EXCEPT ![p] = [pc |-> "compress", kind |-> post[p].kind, writer |-> g.z,
                                        buf |-> IF post[p].kind = "http" THEN b ELSE none]]
        /\ free' = IF post[p].kind = "http" THEN free \ {b} ELSE free
  BY DEF Compress
<1> DEFINE d == IF post[p].kind = "http" THEN b ELSE none
           k == Taken(p, g.z, d)
<1>2. post \in [Posts -> PostRecords] /\ post[p] \in PostRecords /\ post[p].pc = "idle"
  BY DEF PoolsInv, BodyInv, Compress
<1>3. /\ g.z \in Writers /\ PoolOK(g.p, Writers) /\ ~Pooled(g.p, g.z)
      /\ \A y \in Writers : y # g.z => (Pooled(g.p, y) <=> Pooled(writers, y))
      /\ Pooled(writers, g.z) \/ g.z \in UnusedWriters
  BY GotOK, PoolsAssumption DEF PoolsInv, WriterInv, UnusedWriters
<1>4. b \in Bufs /\ k \in PostRecords
  <2>1. b \in Bufs
    BY DEF PoolsInv, BodyInv, UnusedBufs
  <2>2. post[p].kind \in {"http", "grpc"} /\ d \in Bufs \cup {none}
    BY <1>2, <2>1 DEF PostRecords
  <2> HIDE DEF d
  <2> QED BY <1>3, <2>1, <2>2 DEF PostRecords, Taken
<1>5. post' = [post EXCEPT ![p] = k]
  BY <1>1, <1>2 DEF Taken, PostRecords
<1>6. /\ k.pc = "compress" /\ k.kind = post[p].kind /\ k.buf = d /\ k.writer = g.z
  BY DEF Taken
<1> HIDE DEF k
<1>7. /\ post' \in [Posts -> PostRecords] /\ post'[p] = k
      /\ \A q \in Posts : q # p => post'[q] = post[q]
  BY <1>2, <1>4, <1>5
<1>8. UNCHANGED <<reading, consumed, content, readerVars>>
  BY DEF Compress, readerVars
<1>9. ASSUME NEW q \in Posts, q # p, Holds(q) PROVE post[q].buf # b
  <2>1. post[q].buf \in Bufs \ free
    BY <1>9 DEF PoolsInv, BodyInv
  <2>2. ~(post[q].pc = "done" /\ q \notin reading)
    BY <1>9 DEF Holds
  <2> QED BY <2>1, <2>2, <1>9 DEF UnusedBufs
<1>10. BodyInv'
  <2>1. p \notin reading
    BY <1>2 DEF PoolsInv, BodyInv
  <2>2. free' \subseteq free /\ (post[p].kind = "http" => b \notin free')
    BY <1>1
  <2>3. \A q \in Posts : q # p => (Holds(q)' <=> Holds(q))
    BY <1>7, <1>8 DEF Holds
  <2>4. Holds(p)' => post[p].kind = "http"
    BY <2>1, <1>6, <1>7, <1>8 DEF Holds
  <2>5. /\ post' \in [Posts -> PostRecords] /\ content' \in [Bufs -> Posts \cup {none}]
        /\ reading' \subseteq Posts /\ free' \subseteq Bufs /\ reading' \cap consumed' = {}
        /\ \A q \in Posts : post'[q].pc = "do" => post'[q].kind = "http"
        /\ \A q \in reading' : post'[q].pc \in {"do", "done"}
    BY <1>6, <1>7, <1>8, <2>1, <2>2 DEF PoolsInv, BodyInv
  <2>6. \A q \in Posts : Holds(q)' => post'[q].buf \in Bufs \ free'
    BY <1>4, <1>6, <1>7, <2>2, <2>3, <2>4 DEF PoolsInv, BodyInv
  <2>7. \A q, r \in Posts : Holds(q)' /\ Holds(r)' /\ q # r => post'[q].buf # post'[r].buf
    BY <1>6, <1>7, <1>9, <2>3, <2>4 DEF PoolsInv, BodyInv
  <2>8. \A q \in Posts : (post'[q].pc = "do" \/ q \in reading') => content'[post'[q].buf] = q
    BY <1>6, <1>7, <1>8, <2>1 DEF PoolsInv, BodyInv
  <2> QED BY <2>5, <2>6, <2>7, <2>8 DEF BodyInv
<1>11. WriterInv'
  <2>1. ASSUME NEW q \in Posts, q # p, post[q].pc = "compress" PROVE post[q].writer # g.z
    BY <1>3, <2>1 DEF PoolsInv, WriterInv, UnusedWriters
  <2> QED BY <1>1, <1>3, <1>6, <1>7, <2>1 DEF PoolsInv, WriterInv
<1>12. ReaderInv'
  BY <1>8 DEF PoolsInv, ReaderInv, readerVars, Pooled
<1> QED BY <1>10, <1>11, <1>12 DEF PoolsInv

\* A step that leaves every post its buffer, lets no post go on and frees none that is held.
LEMMA BodyShrinks ==
  ASSUME BodyInv, post' \in [Posts -> PostRecords], content' \in [Bufs -> Posts \cup {none}],
         reading' \subseteq Posts, free' \subseteq Bufs, reading' \cap consumed' = {},
         \A q \in Posts : post'[q].pc = "do" => post'[q].kind = "http",
         \A q \in Posts : Holds(q)' => Holds(q) /\ post'[q].buf = post[q].buf /\ post[q].buf \notin free',
         \A q \in reading' : post'[q].pc \in {"do", "done"},
         \A q \in Posts : (post'[q].pc = "do" \/ q \in reading') => content'[post'[q].buf] = q
  PROVE  BodyInv'
<1>1. \A q \in Posts : Holds(q)' => post'[q].buf \in Bufs \ free'
  BY DEF BodyInv
<1>2. \A q, r \in Posts : Holds(q)' /\ Holds(r)' /\ q # r => post'[q].buf # post'[r].buf
  BY DEF BodyInv
<1> QED BY <1>1, <1>2 DEF BodyInv

\* The writer of a post that is done with it goes back.
LEMMA WriterBack ==
  ASSUME WriterInv, NEW p \in Posts, post[p].pc = "compress",
         target' = [target EXCEPT ![post[p].writer] = none], writers' = Put(writers, post[p].writer),
         \A q \in Posts : q # p => post'[q] = post[q],
         post'[p].pc # "compress", post'[p].writer = none
  PROVE  WriterInv'
<1>1. post[p].writer \in Writers /\ ~Pooled(writers, post[p].writer) /\ target[post[p].writer] = p
  BY DEF WriterInv
<1>2. /\ PoolOK(writers', Writers)
      /\ \A y \in Writers : Pooled(writers', y) <=> y = post[p].writer \/ Pooled(writers, y)
  BY <1>1, PutOK, PoolsAssumption DEF WriterInv
<1>3. target' \in [Writers -> Posts \cup {none}]
  BY <1>1 DEF WriterInv
<1>4. ASSUME NEW q \in Posts, q # p, post[q].pc = "compress"
      PROVE  target'[post[q].writer] = q /\ ~Pooled(writers', post[q].writer) /\ post[q].writer \in Writers
  BY <1>1, <1>2, <1>4 DEF WriterInv
<1> QED BY <1>2, <1>3, <1>4 DEF WriterInv

LEMMA ReaderFrame == ASSUME PoolsInv, UNCHANGED readerVars PROVE ReaderInv'
BY DEF PoolsInv, ReaderInv, readerVars, Pooled

LEMMA WriterFrame ==
  ASSUME WriterInv, UNCHANGED <<target, writers>>,
         \A q \in Posts : post'[q].writer = post[q].writer /\ (post'[q].pc = "compress" <=> post[q].pc = "compress")
  PROVE  WriterInv'
BY DEF WriterInv, Pooled

LEMMA CompressedKeeps ==
  ASSUME PoolsInv, NEW p \in Posts, Compressed(p) PROVE PoolsInv'
<1> DEFINE next == IF post[p].kind = "http" THEN "do" ELSE "closed"
           k == [pc |-> next, kind |-> post[p].kind, buf |-> post[p].buf, writer |-> none]
<1>1. /\ post \in [Posts -> PostRecords] /\ post[p] \in PostRecords /\ post[p].pc = "compress"
      /\ p \notin reading
  BY DEF PoolsInv, BodyInv, Compressed
<1>2. post' = [post EXCEPT ![p] = k] /\ k \in PostRecords
  <2>1. CASE post[p].kind = "http"
    BY <1>1, <2>1 DEF Compressed, PostRecords
  <2>2. CASE post[p].kind = "grpc"
    BY <1>1, <2>2 DEF Compressed, PostRecords
  <2> QED BY <1>1, <2>1, <2>2 DEF PostRecords
<1>3. k.pc = next /\ k.kind = post[p].kind /\ k.buf = post[p].buf /\ k.writer = none
  OBVIOUS
<1> HIDE DEF k
<1>4. /\ post' \in [Posts -> PostRecords] /\ post'[p] = k
      /\ \A q \in Posts : q # p => post'[q] = post[q]
  BY <1>1, <1>2
<1>5. UNCHANGED <<reading, consumed, free, readerVars>>
  BY DEF Compressed, readerVars
<1>6. \A q \in Posts : Holds(q)' <=> Holds(q)
  BY <1>1, <1>3, <1>4, <1>5 DEF Holds
<1>7. /\ content' \in [Bufs -> Posts \cup {none}]
      /\ post[p].kind = "http" => content'[post[p].buf] = p
      /\ \A q \in Posts : Holds(q) /\ q # p => content'[post[q].buf] = content[post[q].buf]
  <2>1. CASE post[p].kind = "http"
    <3>1. content' = [content EXCEPT ![post[p].buf] = p] /\ Holds(p)
      BY <1>1, <2>1 DEF Compressed, Holds
    <3> QED BY <3>1 DEF PoolsInv, BodyInv
  <2>2. CASE post[p].kind # "http"
    BY <2>2 DEF Compressed, PoolsInv, BodyInv
  <2> QED BY <2>1, <2>2
<1>8. \A q \in Posts : (post'[q].pc = "do" \/ q \in reading') => content'[post'[q].buf] = q
  <2> SUFFICES ASSUME NEW q \in Posts, post'[q].pc = "do" \/ q \in reading' PROVE content'[post'[q].buf] = q
    OBVIOUS
  <2>1. CASE q = p
    BY <1>1, <1>3, <1>4, <1>5, <1>7, <2>1
  <2>2. CASE q # p
    <3>1. Holds(q) /\ (post[q].pc = "do" \/ q \in reading)
      BY <1>4, <1>5, <2>2 DEF Holds, PoolsInv, BodyInv
    <3> QED BY <1>4, <1>7, <2>2, <3>1 DEF PoolsInv, BodyInv
  <2> QED BY <2>1, <2>2
<1>9. BodyInv'
  <2>1. \A q \in Posts : Holds(q)' => Holds(q) /\ post'[q].buf = post[q].buf /\ post[q].buf \notin free'
    BY <1>3, <1>4, <1>5, <1>6 DEF PoolsInv, BodyInv
  <2>2. \A q \in Posts : post'[q].pc = "do" => post'[q].kind = "http"
    BY <1>3, <1>4 DEF PoolsInv, BodyInv
  <2>3. \A q \in reading' : post'[q].pc \in {"do", "done"}
    BY <1>1, <1>4, <1>5 DEF PoolsInv, BodyInv
  <2>4. reading' \subseteq Posts /\ free' \subseteq Bufs /\ reading' \cap consumed' = {}
    BY <1>5 DEF PoolsInv, BodyInv
  <2> QED BY <1>4, <1>7, <1>8, <2>1, <2>2, <2>3, <2>4, BodyShrinks DEF PoolsInv
<1>10. WriterInv'
  BY <1>1, <1>3, <1>4, WriterBack DEF PoolsInv, Compressed
<1> QED BY <1>5, <1>9, <1>10, ReaderFrame DEF PoolsInv

LEMMA CompressFailsKeeps ==
  ASSUME PoolsInv, NEW p \in Posts, CompressFails(p) PROVE PoolsInv'
<1> DEFINE k == [pc |-> "done", kind |-> post[p].kind, buf |-> none, writer |-> none]
<1>1. /\ post \in [Posts -> PostRecords] /\ post[p] \in PostRecords /\ post[p].pc = "compress"
      /\ p \notin reading /\ Holds(p)
  BY DEF PoolsInv, BodyInv, CompressFails, Holds
<1>2. post' = [post EXCEPT ![p] = k] /\ k \in PostRecords
  BY <1>1 DEF CompressFails, PostRecords
<1>3. k.pc = "done" /\ k.writer = none
  OBVIOUS
<1> HIDE DEF k
<1>4. /\ post' \in [Posts -> PostRecords] /\ post'[p] = k
      /\ \A q \in Posts : q # p => post'[q] = post[q]
  BY <1>1, <1>2
<1>5. UNCHANGED <<reading, consumed, content, readerVars>> /\ free' = free \cup {post[p].buf}
  BY DEF CompressFails, readerVars
<1>6. \A q \in Posts : Holds(q)' => q # p /\ Holds(q)
  BY <1>1, <1>3, <1>4, <1>5 DEF Holds
<1>7. BodyInv'
  <2>1. \A q \in Posts : Holds(q)' => Holds(q) /\ post'[q].buf = post[q].buf /\ post[q].buf \notin free'
    BY <1>1, <1>4, <1>5, <1>6 DEF PoolsInv, BodyInv
  <2>2. \A q \in Posts : post'[q].pc = "do" => post'[q].kind = "http"
    BY <1>3, <1>4 DEF PoolsInv, BodyInv
  <2>3. \A q \in reading' : post'[q].pc \in {"do", "done"}
    BY <1>1, <1>4, <1>5 DEF PoolsInv, BodyInv
  <2>4. /\ reading' \subseteq Posts /\ free' \subseteq Bufs /\ reading' \cap consumed' = {}
        /\ content' \in [Bufs -> Posts \cup {none}]
    BY <1>1, <1>5 DEF PoolsInv, BodyInv
  <2>5. \A q \in Posts : (post'[q].pc = "do" \/ q \in reading') => content'[post'[q].buf] = q
    BY <1>1, <1>3, <1>4, <1>5 DEF PoolsInv, BodyInv
  <2> QED BY <1>4, <2>1, <2>2, <2>3, <2>4, <2>5, BodyShrinks DEF PoolsInv
<1>8. WriterInv'
  BY <1>1, <1>3, <1>4, WriterBack DEF PoolsInv, CompressFails
<1> QED BY <1>5, <1>7, <1>8, ReaderFrame DEF PoolsInv

\* The transport, and the end of a request.
LEMMA TransportKeeps ==
  ASSUME PoolsInv, NEW p \in Posts,
         CloseAgain(p) \/ StartReading(p) \/ ReadToEnd(p) \/ StopReading(p) \/ DoReturns(p)
  PROVE  PoolsInv'
<1>1. post \in [Posts -> PostRecords] /\ post[p] \in PostRecords
  BY DEF PoolsInv, BodyInv
<1>2. UNCHANGED <<content, target, writers, readerVars>>
  BY DEF CloseAgain, StartReading, ReadToEnd, StopReading, DoReturns, readerVars
<1>3. CASE CloseAgain(p) \/ DoReturns(p)
  <2>1. post' = [post EXCEPT ![p].pc = "done"] /\ post[p].pc \in {"closed", "do"} /\ reading' = reading
    BY <1>3 DEF CloseAgain, DoReturns
  <2>2. /\ post' \in [Posts -> PostRecords] /\ \A q \in Posts : q # p => post'[q] = post[q]
        /\ post'[p].pc = "done" /\ post'[p].kind = post[p].kind /\ post'[p].buf = post[p].buf
        /\ post'[p].writer = post[p].writer
    BY <1>1, <2>1 DEF PostRecords
  <2>3. consumed' \subseteq consumed
    BY <1>3 DEF CloseAgain, DoReturns
  <2>4. free' \subseteq Bufs /\ \A q \in Posts : Holds(q)' => Holds(q) /\ post[q].buf \notin free'
    <3>1. \A q \in Posts : Holds(q)' => Holds(q)
      BY <2>1, <2>2 DEF Holds
    <3>2. CASE CloseAgain(p)
      BY <3>1, <3>2 DEF CloseAgain, PoolsInv, BodyInv
    <3>3. CASE DoReturns(p)
      <4>1. Holds(p) /\ free' = free \cup Released(p)
        BY <3>3 DEF DoReturns, Holds, PoolsInv, BodyInv
      <4>2. CASE p \in consumed
        <5>1. ~Holds(p)'
          BY <2>1, <2>2, <4>2 DEF Holds, PoolsInv, BodyInv
        <5> QED BY <3>1, <4>1, <4>2, <5>1 DEF Released, PoolsInv, BodyInv
      <4>3. CASE p \notin consumed
        BY <3>1, <4>1, <4>3 DEF Released, PoolsInv, BodyInv
      <4> QED BY <4>2, <4>3
    <3> QED BY <1>3, <3>2, <3>3
  <2>5. BodyInv'
    <3>1. \A q \in Posts : Holds(q)' => Holds(q) /\ post'[q].buf = post[q].buf /\ post[q].buf \notin free'
      BY <2>2, <2>4
    <3>2. \A q \in Posts : post'[q].pc = "do" => post'[q].kind = "http"
      BY <2>2 DEF PoolsInv, BodyInv
    <3>3. \A q \in reading' : post'[q].pc \in {"do", "done"}
      BY <2>1, <2>2 DEF PoolsInv, BodyInv
    <3>4. /\ reading' \subseteq Posts /\ free' \subseteq Bufs /\ reading' \cap consumed' = {}
          /\ content' \in [Bufs -> Posts \cup {none}]
      BY <1>2, <2>1, <2>3, <2>4 DEF PoolsInv, BodyInv
    <3>5. \A q \in Posts : (post'[q].pc = "do" \/ q \in reading') => content'[post'[q].buf] = q
      BY <1>2, <2>1, <2>2 DEF PoolsInv, BodyInv
    <3> QED BY <2>2, <3>1, <3>2, <3>3, <3>4, <3>5, BodyShrinks DEF PoolsInv
  <2>6. WriterInv'
    BY <1>2, <2>1, <2>2, WriterFrame DEF PoolsInv
  <2> QED BY <1>2, <2>5, <2>6, ReaderFrame DEF PoolsInv
<1>4. CASE StartReading(p) \/ ReadToEnd(p) \/ StopReading(p)
  <2>1. UNCHANGED <<post, free>>
    BY <1>4 DEF StartReading, ReadToEnd, StopReading
  <2>2. /\ reading' \subseteq Posts /\ reading' \cap consumed' = {}
        /\ \A q \in reading' : q \in reading \/ post[q].pc = "do"
    BY <1>4 DEF StartReading, ReadToEnd, StopReading, PoolsInv, BodyInv
  <2>3. \A q \in Posts : Holds(q)' => Holds(q) /\ post'[q].buf = post[q].buf /\ post[q].buf \notin free'
    BY <2>1, <2>2 DEF Holds, PoolsInv, BodyInv
  <2>4. BodyInv'
    BY <1>2, <2>1, <2>2, <2>3, BodyShrinks DEF PoolsInv, BodyInv
  <2>5. WriterInv'
    BY <1>2, <2>1, WriterFrame DEF PoolsInv
  <2> QED BY <1>2, <2>4, <2>5, ReaderFrame DEF PoolsInv
<1> QED BY <1>3, <1>4

-----------------------------------------------------------------------------
\* The messages: the posts are not touched.
MsgRecords == [z : Readers \cup {none}, err : BOOLEAN, busy : BOOLEAN, closed : BOOLEAN]
LEMMA PostsFrame ==
  ASSUME PoolsInv, UNCHANGED <<post, reading, consumed, content, free, target, writers>>
  PROVE  BodyInv' /\ WriterInv'
BY DEF PoolsInv, BodyInv, WriterInv, Holds, Pooled

\* A message that keeps its reader, or has none, and whose reader is where it was.
LEMMA MsgStep ==
  ASSUME ReaderInv, NEW m \in Msgs, NEW k \in MsgRecords, msg' = [msg EXCEPT ![m] = k],
         PoolOK(readers', Readers), source' \in [Readers -> Msgs \cup {none}],
         k.z # none => source'[k.z] = m /\ ~Pooled(readers', k.z),
         \A n \in Msgs : n # m /\ msg[n].z # none =>
            source'[msg[n].z] = source[msg[n].z] /\ (Pooled(readers', msg[n].z) => Pooled(readers, msg[n].z))
  PROVE  ReaderInv'
<1>1. msg' \in [Msgs -> MsgRecords]
  BY DEF ReaderInv, MsgRecords
<1>2. \A n \in Msgs : msg'[n].z # none => source'[msg'[n].z] = n /\ ~Pooled(readers', msg'[n].z)
  BY DEF ReaderInv
<1> QED BY <1>1, <1>2 DEF ReaderInv, MsgRecords

\* A reader given back by the message that had it.
LEMMA ReleaseKeeps ==
  ASSUME ReaderInv, NEW m \in Msgs, NEW k \in MsgRecords, k.z = msg[m].z, ReleaseLocked(m, k)
  PROVE  ReaderInv'
<1>1. CASE k.z = none
  BY <1>1, MsgStep DEF ReleaseLocked, ReaderInv, Pooled
<1>2. CASE k.z # none
  <2> DEFINE j == [k EXCEPT !.z = none]
  <2>1. j \in MsgRecords /\ j.z = none /\ k.z \in Readers
    BY <1>2 DEF MsgRecords
  <2>2. /\ msg' = [msg EXCEPT ![m] = j] /\ source' = [source EXCEPT ![k.z] = none]
        /\ readers' = Put(readers, k.z)
    BY <1>2 DEF ReleaseLocked
  <2> HIDE DEF j
  <2>3. /\ PoolOK(readers', Readers)
        /\ \A y \in Readers : Pooled(readers', y) <=> y = k.z \/ Pooled(readers, y)
    BY <1>2, <2>1, <2>2, PutOK, PoolsAssumption DEF ReaderInv
  <2>4. ASSUME NEW n \in Msgs, n # m, msg[n].z # none PROVE msg[n].z # k.z /\ msg[n].z \in Readers
    BY <1>2, <2>4 DEF ReaderInv
  <2>5. source' \in [Readers -> Msgs \cup {none}]
    BY <2>1, <2>2 DEF ReaderInv
  <2>6. \A n \in Msgs : n # m /\ msg[n].z # none =>
          source'[msg[n].z] = source[msg[n].z] /\ (Pooled(readers', msg[n].z) => Pooled(readers, msg[n].z))
    BY <2>1, <2>2, <2>3, <2>4 DEF ReaderInv
  <2> QED BY <2>1, <2>2, <2>3, <2>5, <2>6, MsgStep
<1> QED BY <1>1, <1>2

LEMMA DecompressKeeps ==
  ASSUME PoolsInv, NEW m \in Msgs, Decompress(m) PROVE PoolsInv'
<1>1. PICK g \in Got(readers, UnusedReaders) :
       \/ /\ msg' = [msg EXCEPT ![m].z = g.z] /\ readers' = g.p
          /\ source' = [source EXCEPT ![g.z] = m]
       \/ /\ msg' = [msg EXCEPT ![m].err = TRUE, ![m].closed = TRUE]
          /\ readers' = Put(g.p, g.z) /\ source' = [source EXCEPT ![g.z] = none]
  BY DEF Decompress
<1>2. ReaderInv /\ msg \in [Msgs -> MsgRecords] /\ msg[m] \in MsgRecords /\ msg[m].z = none
  BY DEF PoolsInv, ReaderInv, MsgRecords, Decompress
<1>3. /\ g.z \in Readers /\ PoolOK(g.p, Readers) /\ ~Pooled(g.p, g.z)
      /\ \A y \in Readers : y # g.z => (Pooled(g.p, y) <=> Pooled(readers, y))
      /\ Pooled(readers, g.z) \/ g.z \in UnusedReaders
  BY <1>2, GotOK, PoolsAssumption DEF ReaderInv, UnusedReaders
<1>4. ASSUME NEW n \in Msgs, msg[n].z # none PROVE msg[n].z # g.z /\ msg[n].z \in Readers
  BY <1>2, <1>3, <1>4 DEF ReaderInv, UnusedReaders
<1>5. g.z # none
  BY <1>3, PoolsAssumption
<1>6. CASE /\ msg' = [msg EXCEPT ![m].z = g.z] /\ readers' = g.p
           /\ source' = [source EXCEPT ![g.z] = m]
  <2> DEFINE k == [msg[m] EXCEPT !.z = g.z]
  <2>1. msg' = [msg EXCEPT ![m] = k] /\ k \in MsgRecords /\ k.z = g.z
    BY <1>2, <1>3, <1>6 DEF MsgRecords
  <2> HIDE DEF k
  <2>2. source' \in [Readers -> Msgs \cup {none}] /\ source'[g.z] = m
    BY <1>2, <1>3, <1>6 DEF ReaderInv
  <2>3. \A n \in Msgs : n # m /\ msg[n].z # none =>
          source'[msg[n].z] = source[msg[n].z] /\ (Pooled(readers', msg[n].z) => Pooled(readers, msg[n].z))
    BY <1>2, <1>3, <1>4, <1>6 DEF ReaderInv
  <2>4. ReaderInv'
    BY <1>2, <1>3, <1>6, <2>1, <2>2, <2>3, MsgStep
  <2> QED BY <2>4, PostsFrame DEF Decompress, PoolsInv
<1>7. CASE /\ msg' = [msg EXCEPT ![m].err = TRUE, ![m].closed = TRUE]
           /\ readers' = Put(g.p, g.z) /\ source' = [source EXCEPT ![g.z] = none]
  <2> DEFINE k == [[msg[m] EXCEPT !.err = TRUE] EXCEPT !.closed = TRUE]
  <2>1. msg' = [msg EXCEPT ![m] = k] /\ k \in MsgRecords /\ k.z = none
    BY <1>2, <1>7 DEF MsgRecords
  <2> HIDE DEF k
  <2>2. source' \in [Readers -> Msgs \cup {none}]
    BY <1>2, <1>3, <1>7 DEF ReaderInv
  <2>3. /\ PoolOK(readers', Readers)
        /\ \A y \in Readers : Pooled(readers', y) <=> y = g.z \/ Pooled(g.p, y)
    BY <1>3, <1>7, PutOK, PoolsAssumption
  <2>4. \A n \in Msgs : n # m /\ msg[n].z # none =>
          source'[msg[n].z] = source[msg[n].z] /\ (Pooled(readers', msg[n].z) => Pooled(readers, msg[n].z))
    BY <1>2, <1>3, <1>4, <1>7, <2>3 DEF ReaderInv
  <2>5. ReaderInv'
    BY <1>2, <2>1, <2>2, <2>3, <2>4, MsgStep
  <2> QED BY <2>5, PostsFrame DEF Decompress, PoolsInv
<1> QED BY <1>1, <1>6, <1>7

LEMMA ReadKeeps ==
  ASSUME PoolsInv, NEW m \in Msgs, ReadBegins(m) \/ ReadEnds(m) \/ CloseReader(m) PROVE PoolsInv'
<1>1. ReaderInv /\ msg \in [Msgs -> MsgRecords] /\ msg[m] \in MsgRecords
  BY DEF PoolsInv, ReaderInv, MsgRecords
<1>2. BodyInv' /\ WriterInv'
  BY PostsFrame DEF ReadBegins, ReadEnds, CloseReader
<1>3. ASSUME NEW b \in BOOLEAN, msg' = [msg EXCEPT ![m].busy = b], UNCHANGED <<source, readers>>
      PROVE  ReaderInv'
  <2> DEFINE k == [msg[m] EXCEPT !.busy = b]
  <2>1. msg' = [msg EXCEPT ![m] = k] /\ k \in MsgRecords /\ k.z = msg[m].z
    BY <1>1, <1>3 DEF MsgRecords
  <2> HIDE DEF k
  <2> QED BY <1>1, <1>3, <2>1, MsgStep DEF ReaderInv, Pooled
<1>4. ASSUME NEW k, k = [[msg[m] EXCEPT !.busy = FALSE] EXCEPT !.err = TRUE]
             \/ k = [[msg[m] EXCEPT !.err = TRUE] EXCEPT !.closed = TRUE], ReleaseLocked(m, k)
      PROVE  ReaderInv'
  <2>1. k \in MsgRecords /\ k.z = msg[m].z
    BY <1>1, <1>4 DEF MsgRecords
  <2> QED BY <1>1, <1>4, <2>1, ReleaseKeeps
<1>5. CASE ReadBegins(m)
  BY <1>2, <1>3, <1>5 DEF ReadBegins, PoolsInv
<1>6. CASE ReadEnds(m)
  BY <1>2, <1>3, <1>4, <1>6 DEF ReadEnds, PoolsInv
<1>7. CASE CloseReader(m)
  BY <1>2, <1>4, <1>7 DEF CloseReader, PoolsInv
<1> QED BY <1>5, <1>6, <1>7

LEMMA PoolsNextKeeps == PoolsInv /\ [PoolsNext]_poolVars => PoolsInv'
<1> SUFFICES ASSUME PoolsInv, [PoolsNext]_poolVars PROVE PoolsInv'
  OBVIOUS
<1>1. CASE UNCHANGED poolVars
  BY <1>1 DEF PoolsInv, BodyInv, WriterInv, ReaderInv, Holds, Pooled, poolVars
<1>2. CASE PoolsNext
  BY <1>2, CompressKeeps, CompressedKeeps, CompressFailsKeeps, TransportKeeps, DecompressKeeps, ReadKeeps
     DEF PoolsNext
<1> QED BY <1>1, <1>2

\* For any number of requests, messages and pooled objects, whatever times out and
\* whoever closes what: nothing in use is shared or in a pool.
THEOREM NothingPooledTwice == PoolsSpec => []PooledOnce
<1>1. PoolsInv => PooledOnce
  BY DEF PoolsInv, BodyInv, WriterInv, ReaderInv, Holds, PooledOnce
<1>2. PoolsSpec => []PoolsInv
  BY PoolsInitEstablishes, PoolsNextKeeps, PTL DEF PoolsSpec
<1> QED BY <1>1, <1>2, PTL
=============================================================================
