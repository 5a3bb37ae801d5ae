----------------------------- MODULE TailBuffer -----------------------------
(***************************************************************************)
(* The tail-sampling buffer (internal/agent/tailbuffer).  A push is walked *)
(* span by span under one mutex: a span of a judged trace follows the      *)
(* cached verdict, any other one is buffered and its sender acked; a bound *)
(* that is exceeded judges the oldest trace early.  A sweep judges the     *)
(* traces whose window closed, in chunks that release the mutex; the final *)
(* flush judges all of them and latches the buffer, after which a push is  *)
(* judged on arrival.  Sends happen outside the mutex.  A clock read is    *)
(* taken before the mutex, so the actors hold times of different ages.     *)
(***************************************************************************)
EXTENDS Integers, Sequences, FiniteSets

SX == INSTANCE SequencesExt

CONSTANTS
    Pushes,            \* payloads pushed by senders
    Payload,           \* push -> its spans, in order
    TraceOf,           \* span -> the trace it belongs to
    Unkeyed,           \* the all-zero trace id
    Wait,              \* decisionWait
    MaxTraces, MaxSpansPerTrace, MaxSpans,
    CacheSize, TTL,    \* decisionCacheSize, decisionCacheTTL
    CompactFloor,      \* dead slots the verdict FIFO tolerates
    Chunk,             \* decideChunk
    Tries,             \* bound: push -> times its sender presents it
    MaxTime            \* bound: the clock

Spans == UNION {SX!ToSet(Payload[p]) : p \in Pushes}
Ids == {TraceOf[s] : s \in Spans} \ {Unkeyed}

ASSUME TailBufferAssumption ==
    /\ Payload \in [Pushes -> Seq(Spans)] /\ Tries \in [Pushes -> Nat \ {0}]
    /\ \A p, q \in Pushes : p # q => SX!ToSet(Payload[p]) \cap SX!ToSet(Payload[q]) = {}
    /\ Pushes \cap {"sweep", "flush", "free"} = {}
    /\ {Wait, MaxTraces, MaxSpansPerTrace, MaxSpans, CacheSize, TTL, Chunk}
          \subseteq Nat \ {0}
    /\ MaxSpansPerTrace <= MaxSpans
    /\ CompactFloor \in Nat /\ MaxTime \in Nat

Drains == {"sweep", "flush"}

VARIABLES
    clock,
    mu,        \* the mutex: a push, a drain or "free"
    flushed,   \* the latch
    order,     \* the buffered traces, oldest first: [id, spans, first]
    spans,     \* the buffered-spans counter
    verdicts,  \* the decision cache: trace -> [keep, charged, at, seq]
    fifo, seq, \* its eviction queue, slots [id, seq] in the order of seq, and the last seq
    push,      \* push -> [pc, now, i, out, mine, tries]
    drain,     \* drain -> [pc, now, n, out]
    acked, exported, dropped, lost,  \* history: what became of spans
    forgotten, \* history: traces whose verdict was evicted or outlived its TTL
    bills      \* history: trace -> times its rate budget was charged

buffer == <<order, spans>>
cache == <<verdicts, fifo, seq, forgotten, bills>>
fate == <<acked, exported, dropped, lost>>
vars == <<clock, mu, flushed, buffer, cache, push, drain, fate>>
-----------------------------------------------------------------------------
(* The decision cache (cache.go).                                          *)

LiveIn(m, slot) == slot.id \in DOMAIN m /\ m[slot.id].seq = slot.seq

\* get: the verdict, while it is younger than the TTL.
Hit(id, now) == id \in DOMAIN verdicts /\ now - verdicts[id].at < TTL

\* charged: remembered for as long as the entry is, whatever its age.
Charged(id) == id \in DOMAIN verdicts /\ verdicts[id].charged

Without(m, S) == [x \in DOMAIN m \ S |-> m[x]]

LiveSlots(m, f) == {slot \in f : LiveIn(m, slot)}

\* The slot at the front of those in S; none when there is none.
Eldest(S) == {slot \in S : \A t \in S : slot.seq <= t.seq}

\* compact: dead slots leave at the front, and everywhere once they pile up.
Compacted(m, f) ==
    LET front == {slot \in f : \E t \in LiveSlots(m, f) : t.seq <= slot.seq}
    IN  IF Cardinality(front) > 2 * Cardinality(DOMAIN m) + CompactFloor
        THEN LiveSlots(m, front)
        ELSE front

Enqueued(f, id) == f \cup {[id |-> id, seq |-> seq + 1]}

\* The spend of a re-decision is added to what the trace had paid.
Billed(id, d) == d.spent \/ Charged(id)

\* put: at capacity the oldest entry goes.
Put(id, d, now) ==
    LET others  == Without(verdicts, {id})
        full    == Cardinality(DOMAIN others) >= CacheSize
        first   == IF full THEN Eldest(LiveSlots(others, fifo)) ELSE {}
        victim  == {slot.id : slot \in first}
        rest    == IF full THEN {slot \in fifo : \E v \in first : slot.seq > v.seq} ELSE fifo
        kept    == Without(others, victim)
        entry   == [keep |-> d.keep, charged |-> Billed(id, d), at |-> now, seq |-> seq + 1]
        m       == [x \in DOMAIN kept \cup {id} |-> IF x = id THEN entry ELSE kept[x]]
        outlived == id \in DOMAIN verdicts /\ clock - verdicts[id].at >= TTL
    IN  /\ verdicts' = m
        /\ fifo' = Compacted(m, Enqueued(rest, id))
        /\ seq' = seq + 1
        /\ forgotten' = forgotten \cup victim \cup (IF outlived THEN {id} ELSE {})
        /\ bills' = [x \in Ids |->
                       IF x \in victim THEN 0 ELSE IF x = id /\ d.spent THEN bills[x] + 1 ELSE bills[x]]
-----------------------------------------------------------------------------
(* The buffer (tailbuffer.go); the FIFO is modelled without the entries    *)
(* that are gone.                                                          *)

At(id) == CHOOSE i \in 1..Len(order) : order[i].id = id
Has(id) == \E i \in 1..Len(order) : order[i].id = id

\* add: the span joins its trace, or starts one.
Add(id, s, now) ==
    /\ order' = IF Has(id) THEN [order EXCEPT ![At(id)].spans = Append(@, s)]
                ELSE Append(order, [id |-> id, spans |-> <<s>>, first |-> now])
    /\ spans' = spans + 1

\* What the policy evaluator may answer: a bucket already charged is not spent again.
Decisions(id) ==
    {d \in [keep : BOOLEAN, spent : BOOLEAN] : d.spent => id # Unkeyed /\ ~Charged(id)}

\* Mutant: only a verdict to keep is remembered.
JudgeKeepsOnly(i, d, now) ==
    LET e == order[i]
    IN  /\ order' = SX!RemoveAt(order, i)
        /\ spans' = spans - Len(e.spans)
        /\ IF e.id # Unkeyed /\ d.keep THEN Put(e.id, d, now) ELSE UNCHANGED cache
        /\ dropped' = IF d.keep THEN dropped ELSE dropped \cup SX!ToSet(e.spans)

\* judge and remove: the trace leaves the buffer, its verdict is remembered.
Judge(i, d, now) ==
    LET e == order[i]
    IN  /\ order' = SX!RemoveAt(order, i)
        /\ spans' = spans - Len(e.spans)
        /\ IF e.id # Unkeyed THEN Put(e.id, d, now) ELSE UNCHANGED cache
        /\ dropped' = IF d.keep THEN dropped ELSE dropped \cup SX!ToSet(e.spans)

Kept(i, d) == IF d.keep THEN SX!ToSet(order[i].spans) ELSE {}

Overfull == Len(order) > MaxTraces \/ spans > MaxSpans
-----------------------------------------------------------------------------
(* A push (ExportTraces and take).                                         *)

Holds(p, pc) == mu = p /\ push[p].pc = pc
Current(p) == Payload[p][push[p].i]
Walked(p) == push[p].i > Len(Payload[p])

\* The push reads the clock.  The bound lets every buffered trace fall due.
Sample(p) ==
    /\ push[p].pc = "idle" /\ clock + Wait <= MaxTime
    /\ push' = [push EXCEPT ![p].pc = "lock", ![p].now = clock, ![p].tries = @ + 1]
    /\ UNCHANGED <<clock, mu, flushed, buffer, cache, drain, fate>>

Lock(p) ==
    /\ push[p].pc = "lock" /\ mu = "free"
    /\ mu' = p
    /\ push' = [push EXCEPT ![p].pc = "walk"]
    /\ UNCHANGED <<clock, flushed, buffer, cache, drain, fate>>

\* A span without a trace id, or with the latch set, is parked until the walk ends.
ParkSpan(p) ==
    /\ Holds(p, "walk") /\ ~Walked(p)
    /\ LET id == TraceOf[Current(p)] IN
       /\ id = Unkeyed \/ (flushed /\ ~Hit(id, push[p].now))
       /\ Add(id, Current(p), push[p].now)
    /\ push' = [push EXCEPT ![p].i = @ + 1]
    /\ UNCHANGED <<clock, mu, flushed, cache, drain, fate>>

\* A span of a judged trace follows the verdict.
LateSpan(p) ==
    /\ Holds(p, "walk") /\ ~Walked(p)
    /\ LET s == Current(p)
           id == TraceOf[s]
       IN  /\ id # Unkeyed /\ Hit(id, push[p].now)
           /\ push' = [push EXCEPT ![p].i = @ + 1,
                                   ![p].out = IF verdicts[id].keep THEN @ \cup {s} ELSE @]
           /\ dropped' = IF verdicts[id].keep THEN dropped ELSE dropped \cup {s}
    /\ UNCHANGED <<clock, mu, flushed, buffer, cache, drain, acked, exported, lost>>

BufferSpan(p) ==
    /\ Holds(p, "walk") /\ ~Walked(p) /\ ~flushed
    /\ LET id == TraceOf[Current(p)] IN
       /\ id # Unkeyed /\ ~Hit(id, push[p].now)
       /\ Add(id, Current(p), push[p].now)
    /\ push' = [push EXCEPT ![p].pc = "enforce"]
    /\ UNCHANGED <<clock, mu, flushed, cache, drain, fate>>

\* The push judges a trace early and owns what it keeps of it.
Early(p, i, pc) ==
    \E d \in Decisions(order[i].id) :
       /\ Judge(i, d, push[p].now)
       /\ push' = [push EXCEPT ![p].pc = pc, ![p].out = @ \cup Kept(i, d),
                               ![p].mine = @ \cup Kept(i, d)]
       /\ UNCHANGED <<clock, mu, flushed, drain, acked, exported, lost>>

\* enforce: the trace that just grew, then the oldest ones.
EnforceTrace(p) ==
    /\ Holds(p, "enforce")
    /\ LET i == At(TraceOf[Current(p)]) IN
       \/ /\ Len(order[i].spans) >= MaxSpansPerTrace
          /\ Early(p, i, "bounds")
       \/ /\ Len(order[i].spans) < MaxSpansPerTrace
          /\ push' = [push EXCEPT ![p].pc = "bounds"]
          /\ UNCHANGED <<clock, mu, flushed, buffer, cache, drain, fate>>

DecideOldest(p) ==
    /\ Holds(p, "bounds") /\ Overfull /\ order # <<>>
    /\ Early(p, 1, "bounds")

NextSpan(p) ==
    /\ Holds(p, "bounds") /\ ~(Overfull /\ order # <<>>)
    /\ push' = [push EXCEPT ![p].pc = "walk", ![p].i = @ + 1]
    /\ UNCHANGED <<clock, mu, flushed, buffer, cache, drain, fate>>

\* What the walk must not leave behind: everything once flushed, else the unkeyed spans.
Pending ==
    IF flushed THEN IF order = <<>> THEN {} ELSE {1}
    ELSE IF Has(Unkeyed) THEN {At(Unkeyed)} ELSE {}

\* Their sender still holds these: they are sent but not owned.
JudgeHeld(p) ==
    /\ Holds(p, "walk") /\ Walked(p)
    /\ \E i \in Pending : \E d \in Decisions(order[i].id) :
       /\ Judge(i, d, push[p].now)
       /\ push' = [push EXCEPT ![p].out = @ \cup Kept(i, d)]
    /\ UNCHANGED <<clock, mu, flushed, drain, acked, exported, lost>>

\* The push is over; its locals go.
Ended(p, pc) == [pc |-> pc, now |-> 0, i |-> 1, out |-> {}, mine |-> {}, tries |-> push[p].tries]

\* A push with nothing to send is acked; its spans are buffered or dropped.
Unlock(p) ==
    /\ Holds(p, "walk") /\ Walked(p) /\ Pending = {}
    /\ mu' = "free"
    /\ push' = [push EXCEPT ![p] = IF @.out = {} THEN Ended(p, "acked") ELSE [@ EXCEPT !.pc = "send"]]
    /\ acked' = IF push[p].out = {} THEN acked \cup SX!ToSet(Payload[p]) ELSE acked
    /\ UNCHANGED <<clock, flushed, buffer, cache, drain, exported, dropped, lost>>

\* Mutant: a failed send leaves the loss to the sender's retry.
NackUncounted(p) == lost' = lost

\* A failed send loses what came out of the buffer; the push is refused either way.
Nack(p) == lost' = lost \cup push[p].mine

\* The send succeeds, or the last attempt failed and the sender may try again.
SendPush(p) ==
    /\ push[p].pc = "send"
    /\ \/ /\ exported' = exported \cup push[p].out
          /\ acked' = acked \cup SX!ToSet(Payload[p])
          /\ push' = [push EXCEPT ![p] = Ended(p, "acked")]
          /\ UNCHANGED lost
       \/ /\ Nack(p)
          /\ push' = [push EXCEPT ![p] = Ended(p, IF @.tries < Tries[p] THEN "idle" ELSE "gone")]
          /\ UNCHANGED <<exported, acked>>
    /\ UNCHANGED <<clock, mu, flushed, buffer, cache, drain, dropped>>
-----------------------------------------------------------------------------
(* The sweep and the final flush (drain).                                  *)

Due(e, now) == now - e.first >= Wait

\* No sweep starts once the flush has begun; one may still be under way.
StartDrain(a) ==
    /\ drain[a].pc = "idle" /\ drain["flush"].pc = "idle"
    /\ drain' = [drain EXCEPT ![a] = [pc |-> "lock", now |-> clock, n |-> 0, out |-> {}]]
    /\ UNCHANGED <<clock, mu, flushed, buffer, cache, push, fate>>

LockDrain(a) ==
    /\ drain[a].pc = "lock" /\ mu = "free"
    /\ mu' = a
    /\ flushed' = (flushed \/ a = "flush")
    /\ drain' = [drain EXCEPT ![a].pc = "decide", ![a].n = 0]
    /\ UNCHANGED <<clock, buffer, cache, push, fate>>

\* decideChunkLocked goes on while the oldest trace is due, or in a flush.
Deciding(a) == order # <<>> /\ (a = "flush" \/ Due(order[1], drain[a].now))

DecideDrain(a) ==
    /\ mu = a /\ drain[a].pc = "decide" /\ Deciding(a)
    /\ drain[a].n < Chunk \/ a = "flush"
    /\ \E d \in Decisions(order[1].id) :
       /\ Judge(1, d, drain[a].now)
       /\ drain' = [drain EXCEPT ![a].n = IF a = "flush" THEN @ ELSE @ + 1,
                                 ![a].out = @ \cup Kept(1, d)]
    /\ UNCHANGED <<clock, mu, flushed, push, acked, exported, lost>>

\* Between two chunks a sweep lets a push in.
Yield(a) ==
    /\ mu = a /\ a = "sweep" /\ drain[a].pc = "decide" /\ drain[a].n >= Chunk
    /\ mu' = "free"
    /\ drain' = [drain EXCEPT ![a].pc = "lock"]
    /\ UNCHANGED <<clock, flushed, buffer, cache, push, fate>>

Over(a) == IF a = "flush" THEN "done" ELSE "idle"

EndDrain(a) ==
    /\ mu = a /\ drain[a].pc = "decide" /\ ~Deciding(a)
    /\ drain[a].n < Chunk \/ a = "flush"
    /\ mu' = "free"
    /\ drain' = [drain EXCEPT ![a] = IF @.out = {} THEN [@ EXCEPT !.pc = Over(a), !.now = 0, !.n = 0]
                                     ELSE [@ EXCEPT !.pc = "send", !.n = 0]]
    /\ UNCHANGED <<clock, flushed, buffer, cache, push, fate>>

\* sendOwned: nobody else holds these spans.
SendDrain(a) ==
    /\ drain[a].pc = "send"
    /\ \/ exported' = exported \cup drain[a].out /\ UNCHANGED lost
       \/ lost' = lost \cup drain[a].out /\ UNCHANGED exported
    /\ drain' = [drain EXCEPT ![a] = [pc |-> Over(a), now |-> 0, n |-> 0, out |-> {}]]
    /\ UNCHANGED <<clock, mu, flushed, buffer, cache, push, acked, dropped>>

Tick ==
    /\ clock < MaxTime
    /\ clock' = clock + 1
    /\ UNCHANGED <<mu, flushed, buffer, cache, push, drain, fate>>
-----------------------------------------------------------------------------
Init ==
    /\ clock = 0 /\ mu = "free" /\ flushed = FALSE
    /\ order = <<>> /\ spans = 0
    /\ verdicts = [x \in {} |-> 0] /\ fifo = {} /\ seq = 0
    /\ push = [p \in Pushes |->
                 [pc |-> "idle", now |-> 0, i |-> 1, out |-> {}, mine |-> {}, tries |-> 0]]
    /\ drain = [a \in Drains |-> [pc |-> "idle", now |-> 0, n |-> 0, out |-> {}]]
    /\ acked = {} /\ exported = {} /\ dropped = {} /\ lost = {}
    /\ forgotten = {} /\ bills = [x \in Ids |-> 0]

\* The steps a push takes by itself once it arrived.
Serve(p) ==
    \/ Lock(p) \/ ParkSpan(p) \/ LateSpan(p) \/ BufferSpan(p) \/ EnforceTrace(p)
    \/ DecideOldest(p) \/ NextSpan(p) \/ JudgeHeld(p) \/ Unlock(p) \/ SendPush(p)

DrainStep(a) ==
    LockDrain(a) \/ DecideDrain(a) \/ Yield(a) \/ EndDrain(a) \/ SendDrain(a)

Next ==
    \/ \E p \in Pushes : Sample(p) \/ Serve(p)
    \/ \E a \in Drains : StartDrain(a) \/ DrainStep(a)
    \/ Tick

Spec == Init /\ [][Next]_vars
-----------------------------------------------------------------------------
(* Properties.                                                             *)

\* The places of the buffer, a pair of trace and position for each span in it.
Filled == UNION {{i} \X (1..Len(order[i].spans)) : i \in 1..Len(order)}
Buffered == UNION {SX!ToSet(order[i].spans) : i \in 1..Len(order)}
Flying == UNION ({push[p].out : p \in Pushes} \cup {drain[a].out : a \in Drains})

\* Type invariant.  Whenever the mutex is free the counter agrees with the
\* buffer and every bound holds; the verdict cache never exceeds its capacity.
TypeOK ==
    /\ clock \in 0..MaxTime /\ mu \in Pushes \cup Drains \cup {"free"} /\ flushed \in BOOLEAN
    /\ spans = Cardinality(Filled)
    /\ mu = "free" =>
         /\ Len(order) <= MaxTraces /\ spans <= MaxSpans
         /\ \A i \in 1..Len(order) : Len(order[i].spans) < MaxSpansPerTrace
    /\ DOMAIN verdicts \subseteq Ids /\ Cardinality(DOMAIN verdicts) <= CacheSize
    /\ \A p \in Pushes :
         /\ push[p].pc \in {"idle", "lock", "walk", "enforce", "bounds", "send", "acked", "gone"}
         /\ push[p].mine \subseteq push[p].out /\ push[p].out \subseteq Spans
         /\ (push[p].pc \in {"walk", "enforce", "bounds"}) <=> mu = p
    /\ \A a \in Drains : (drain[a].pc = "decide") <=> mu = a

\* A span whose sender was acked is in the buffer, on its way out, exported,
\* dropped by a verdict or counted lost: whoever took it out of the buffer
\* (take, drain, sendOwned).
AckedIsAccounted == acked \subseteq Buffered \cup Flying \cup exported \cup dropped \cup lost

\* Once the final flush has drained the buffer, no push leaves a span in it,
\* for nothing would ever take it out (the latch of drain and take).
LatchedEmpty == flushed /\ mu = "free" => order = <<>>

\* What was acked is never unaccounted for, nor stranded behind the final flush:
\* both while pushes, sweeps and the flush interleave and sends fail.
AckedKept == AckedIsAccounted /\ LatchedEmpty

\* The spans of a trace share one fate, however late they come, unless its
\* verdict was evicted or outlived its TTL (judge, the cached verdict of take).
WholeTraces ==
    \A s \in exported \cup lost, t \in dropped :
       (TraceOf[s] = TraceOf[t] /\ TraceOf[s] # Unkeyed) => TraceOf[s] \in forgotten

\* The rate budget is charged once for a trace that is judged again after its
\* verdict expired, as long as the cache remembers it (put, charged).
BilledOnce == \A id \in Ids : bills[id] <= 1

\* A trace is decided once, as a whole, from a cache within its cap (judge, put).
DecidedAsWhole == TypeOK /\ WholeTraces /\ BilledOnce
=============================================================================
