---------------------------- MODULE ExportBuffer ----------------------------
(***************************************************************************)
(* One signal's disk buffer (internal/agent/otlpexport): producers append  *)
(* batches, a drain reserves the head, sends it and commits it, and a      *)
(* batch the collector keeps refusing is told apart from an outage before  *)
(* it is dropped.  The queue handle dies with its disk and is swapped for  *)
(* a fresh one while producers and the drain still hold the old one; the   *)
(* process stops, drains once more, closes the queue, or just dies.        *)
(*                                                                         *)
(* The queue itself is the diskqueue library: records in order, a commit   *)
(* cursor, a handle that fails every write once one fsync failed.          *)
(***************************************************************************)
EXTENDS Integers, Sequences, FiniteSets

LOCAL INSTANCE SequencesExt

CONSTANTS
    Batches,     \* batches offered by the producers, distinct in content
    Poison,      \* batches the live collector refuses with a transient code
    Invalid,     \* batches it rejects for good
    Cap,         \* the spool's capacity in batches
    Attempts,    \* stuckAfterAttempts
    MaxCycles,   \* maxDrainCycles
    MaxTracked,  \* maxStuckTracked
    MaxFlips,    \* bound: changes of the collector's condition
    MaxFaults,   \* bound: disk faults
    MaxCrashes   \* bound: crashes

ASSUME BufferAssumption ==
    /\ IsFiniteSet(Batches) /\ Poison \subseteq Batches /\ Invalid \subseteq Batches \ Poison
    /\ {Cap, Attempts, MaxCycles, MaxTracked} \subseteq Nat \ {0}
    /\ {MaxFlips, MaxFaults, MaxCrashes} \subseteq Nat

VARIABLES
    disk,      \* the records behind the commit cursor, durable
    handle,    \* [cur: installed handle, open, latched: handles, closed]
    offer,     \* batch -> its enqueue: where it is and the handle it took
    drain,     \* the drain: pc, handle taken, batch in hand, failed attempts...
    gate,      \* drainGate: holder of the token
    stuck,     \* payload -> failed cycles and deliveries seen at its last one
    delivered, \* batches exported by this process
    collector, \* the collector's condition
    stopping,  \* "no", "stop" (Run's context is done), "expired" (the final one too)
    received, dropped, damaged,  \* history: what became of batches
    evidence,  \* history: deliveries of others since a batch's first failed cycle
    budget     \* [flips, faults, crashes] left

vars == <<disk, handle, offer, drain, gate, stuck, delivered, collector, stopping,
          received, dropped, damaged, evidence, budget>>

history == <<received, dropped, damaged, evidence>>

NoBatch == "none"
Idle == [pc |-> "off", mode |-> "run", h |-> 0, batch |-> NoBatch, tries |-> 0, acct |-> FALSE,
         result |-> "none"]

Alive(h) == h \in handle.open /\ h \notin handle.latched
-----------------------------------------------------------------------------
(* Classification of replies (classify.go, poison.go).                     *)

Conditions == {"up", "down", "throttling", "unauthorized"}

\* What the collector may answer for batch b in its present condition.
Replies(b) ==
    CASE collector = "up"         -> IF b \in Invalid THEN {"invalid"}
                                     ELSE IF b \in Poison THEN {"exhausted"} ELSE {"ok"}
      [] collector = "down"       -> {"transport", "http503"}
      [] collector = "throttling" -> {"http429", "exhausted+retryinfo"}
      [] OTHER                    -> {"http401"}

IsPermanent(reply) == reply \in {"invalid"}

\* respondedError: a rejection of this payload, not an outage or back-pressure.
Responded(reply) == reply \in {"http401", "exhausted"}
-----------------------------------------------------------------------------
(* The handle (buffer.go).                                                 *)

\* Mutant: whoever met the dead handle reopens the queue.
SwapUnguarded(h, reopens) ==
    IF reopens
    THEN [handle EXCEPT !.cur = @ + 1, !.open = (@ \ {handle.cur}) \cup {handle.cur + 1}]
    ELSE [handle EXCEPT !.open = @ \ {handle.cur}]

\* swap: the handle h its caller found dead is closed and the queue reopened,
\* unless it was closed on purpose or another caller replaced it already.
Swap(h, reopens) ==
    IF handle.closed \/ handle.cur # h THEN handle
    ELSE IF reopens
    THEN [handle EXCEPT !.cur = @ + 1, !.open = (@ \ {h}) \cup {h + 1}]
    ELSE [handle EXCEPT !.open = @ \ {h}]

\* Reopening fails at the cost of a fault.
Recover(h) ==
    \/ handle' = Swap(h, TRUE) /\ UNCHANGED budget
    \/ /\ budget.faults > 0
       /\ handle' = Swap(h, FALSE)
       /\ budget' = [budget EXCEPT !.faults = @ - 1]
-----------------------------------------------------------------------------
(* Producers (sink.enqueue, Buffer.add).                                   *)

TakeHandle(b) ==
    /\ offer[b].pc = "new"
    /\ offer' = [offer EXCEPT ![b] = [pc |-> "add", h |-> handle.cur]]
    /\ UNCHANGED <<disk, handle, drain, gate, stuck, delivered, collector, stopping, history,
                   budget>>

\* q.Add: durable when it answers nil; a failed fsync may leave the record.
Add(b) ==
    /\ offer[b].pc = "add"
    /\ LET h == offer[b].h
       IN  \/ /\ Alive(h) /\ Len(disk) < Cap
              /\ disk' = Append(disk, b)
              /\ offer' = [offer EXCEPT ![b].pc = "accepted"]
           \/ /\ Alive(h) /\ Len(disk) >= Cap
              /\ offer' = [offer EXCEPT ![b].pc = "refused"]
              /\ UNCHANGED disk
           \/ /\ ~Alive(h)
              /\ offer' = [offer EXCEPT ![b].pc = "recover"]
              /\ disk' = disk \/ (h \in handle.open /\ disk' = Append(disk, b))
    /\ UNCHANGED <<handle, drain, gate, stuck, delivered, collector, stopping, history, budget>>

RecoverAdd(b) ==
    /\ offer[b].pc = "recover"
    /\ Recover(offer[b].h)
    /\ offer' = [offer EXCEPT ![b].pc = "refused"]
    /\ UNCHANGED <<disk, drain, gate, stuck, delivered, collector, stopping, history>>
-----------------------------------------------------------------------------
(* The drain (Buffered.Run, FinalDrain, sink.drainLoop).                   *)

Cancelled == stopping = "expired" \/ (stopping = "stop" /\ drain.mode = "run")

\* Run or FinalDrain takes the token.
StartDrain(mode) ==
    /\ gate = "free"
    /\ mode = (IF stopping = "no" THEN "run" ELSE "final") /\ stopping # "expired"
    /\ gate' = mode
    /\ drain' = [Idle EXCEPT !.pc = "take", !.mode = mode]
    /\ UNCHANGED <<disk, handle, offer, stuck, delivered, collector, stopping, history, budget>>

Return == drain' = Idle /\ gate' = "free"

Take ==
    /\ drain.pc = "take"
    /\ drain' = [drain EXCEPT !.pc = "reserve", !.h = handle.cur, !.result = "none"]
    /\ UNCHANGED <<disk, handle, offer, gate, stuck, delivered, collector, stopping, history,
                   budget>>

\* accountableLap: a failure now would count against the payload.
Accountable(b) == b \in DOMAIN stuck /\ delivered > stuck[b].last

\* Reserve (Run) or TryReserve (FinalDrain).
Reserve ==
    /\ drain.pc = "reserve"
    /\ \/ Cancelled /\ (drain.mode = "run" \/ drain.h \notin handle.open) /\ Return
       \/ /\ ~Cancelled /\ drain.h \notin handle.open            \* ErrClosed
          /\ drain' = [drain EXCEPT !.pc = "recover", !.result = "unread"] /\ UNCHANGED gate
       \/ /\ drain.h \in handle.open /\ disk = <<>> /\ drain.mode = "final" /\ Return
       \/ /\ drain.h \in handle.open /\ disk # <<>>
          /\ drain' = [drain EXCEPT !.pc = "send", !.batch = Head(disk), !.tries = 0,
                                    !.acct = Accountable(Head(disk))]
          /\ UNCHANGED gate
    /\ UNCHANGED <<disk, handle, offer, stuck, delivered, collector, stopping, history, budget>>

\* ErrCorrupt: the queue has advanced past damage, which its stats report.
ReserveCorrupt ==
    /\ drain.pc = "reserve" /\ drain.h \in handle.open /\ disk # <<>>
    /\ budget.faults > 0
    /\ budget' = [budget EXCEPT !.faults = @ - 1]
    /\ disk' = Tail(disk) /\ damaged' = damaged \cup {Head(disk)}
    /\ drain' = [drain EXCEPT !.pc = "take"]
    /\ UNCHANGED <<handle, offer, gate, stuck, delivered, collector, stopping, received, dropped,
                   evidence>>

Untracked(s, b) == [x \in DOMAIN s \ {b} |-> s[x]]

\* Mutant: one delivery at any time counts for every later cycle.
ProgressedLatched(b) == b \in DOMAIN stuck /\ delivered >= stuck[b].last

\* stuckBatch.progressed: another batch got through since b's last failure.
Progressed(b) == b \in DOMAIN stuck /\ delivered > stuck[b].last

\* At the cap the entry with the oldest evidence makes room.
Evictable(b) ==
    IF b \in DOMAIN stuck \/ Cardinality(DOMAIN stuck) < MaxTracked THEN {{}}
    ELSE {{v} : v \in {w \in DOMAIN stuck : \A x \in DOMAIN stuck : stuck[w].last <= stuck[x].last}}

\* stuckTooLong: a whole cycle failed.  The batch is dropped after MaxCycles
\* cycles the collector answered while it was accepting others.
FailedCycle(b, responded) ==
    \E evicted \in Evictable(b) :
       LET cycles == (IF b \in DOMAIN stuck THEN stuck[b].cycles ELSE 0)
                       + (IF Progressed(b) /\ responded THEN 1 ELSE 0)
       IN  IF cycles >= MaxCycles
           THEN /\ stuck' = Untracked(stuck, b)
                /\ dropped' = dropped \cup {b}
                /\ drain' = [drain EXCEPT !.pc = "commit", !.result = "stuck"]
                /\ UNCHANGED evidence
           ELSE /\ stuck' = [x \in (DOMAIN stuck \ evicted) \cup {b} |->
                               IF x = b THEN [cycles |-> cycles, last |-> delivered] ELSE stuck[x]]
                /\ drain' = [drain EXCEPT !.pc = "rotate"]
                /\ evidence' = IF evidence[b] = -1 THEN [evidence EXCEPT ![b] = 0] ELSE evidence
                /\ UNCHANGED dropped

\* trySend, one attempt.  Once the context is done the send itself fails.
Attempt ==
    /\ drain.pc = "send"
    /\ LET b == drain.batch
       IN  \E reply \in Replies(b) \cup (IF Cancelled THEN {"transport"} ELSE {}) :
              IF reply = "ok"
              THEN /\ received' = received \cup {b}
                   /\ stuck' = Untracked(stuck, b)
                   /\ drain' = [drain EXCEPT !.pc = "commit", !.result = "ok"]
                   /\ UNCHANGED <<dropped, evidence>>
              ELSE IF IsPermanent(reply)
              THEN /\ dropped' = dropped \cup {b}
                   /\ stuck' = Untracked(stuck, b)
                   /\ drain' = [drain EXCEPT !.pc = "commit", !.result = "rejected"]
                   /\ UNCHANGED <<received, evidence>>
              ELSE IF drain.tries + 1 >= Attempts \/ (drain.acct /\ Responded(reply))
              THEN FailedCycle(b, Responded(reply)) /\ UNCHANGED received
              ELSE /\ drain' = [drain EXCEPT !.pc = "wait", !.tries = @ + 1]
                   /\ UNCHANGED <<stuck, received, dropped, evidence>>
    /\ UNCHANGED <<disk, handle, offer, gate, delivered, collector, stopping, damaged, budget>>

\* rewindQ: the reservation is nacked; a handle found dead is recovered.
Nack == IF Alive(drain.h) THEN UNCHANGED <<handle, budget>> ELSE Recover(drain.h)

\* The backoff timer fires, or the context ends: the head is nacked, Run returns.
Backoff ==
    /\ drain.pc = "wait"
    /\ \/ drain' = [drain EXCEPT !.pc = "send"] /\ UNCHANGED <<handle, gate, budget>>
       \/ Cancelled /\ Nack /\ Return
    /\ UNCHANGED <<disk, offer, stuck, delivered, collector, stopping, history>>

\* sink.commit, and the count of deliveries.
Commit ==
    /\ drain.pc = "commit"
    /\ IF Alive(drain.h)
       THEN disk' = Tail(disk) /\ drain' = [drain EXCEPT !.pc = "take"]
       ELSE disk' = disk /\ drain' = [drain EXCEPT !.pc = "recover"]
    /\ delivered' = IF drain.result = "ok" THEN delivered + 1 ELSE delivered
    /\ evidence' = [b \in Batches |->
                      IF drain.result = "ok" /\ b # drain.batch /\ evidence[b] >= 0
                      THEN evidence[b] + 1 ELSE evidence[b]]
    /\ UNCHANGED <<handle, offer, gate, stuck, collector, stopping, received, dropped, damaged,
                   budget>>

\* Rewind, then Requeue when anything is queued behind the head.
Rotate ==
    /\ drain.pc = "rotate"
    /\ IF Alive(drain.h)
       THEN /\ disk' = IF Len(disk) > 1 THEN Append(Tail(disk), Head(disk)) ELSE disk
            /\ drain' = [drain EXCEPT !.pc = "take"]
       ELSE disk' = disk /\ drain' = [drain EXCEPT !.pc = "recover"]
    /\ UNCHANGED <<handle, offer, gate, stuck, delivered, collector, stopping, history, budget>>

\* The drain met a dead handle.  Unread, the final pass gives up on the disk
\* and Run waits a second; after a commit or a rotation both go on.
RecoverDrain ==
    /\ drain.pc = "recover"
    /\ Recover(drain.h)
    /\ \/ drain.result = "unread" /\ (drain.mode = "final" \/ Cancelled) /\ Return
       \/ /\ drain.result # "unread" \/ drain.mode = "run"
          /\ drain' = [drain EXCEPT !.pc = "take"]
          /\ UNCHANGED gate
    /\ UNCHANGED <<disk, offer, stuck, delivered, collector, stopping, history>>
-----------------------------------------------------------------------------
(* The collector, the disk and the process.                                *)

FlipCollector ==
    /\ budget.flips > 0
    /\ \E c \in Conditions \ {collector} : collector' = c
    /\ budget' = [budget EXCEPT !.flips = @ - 1]
    /\ UNCHANGED <<disk, handle, offer, drain, gate, stuck, delivered, stopping, history>>

\* An fsync fails: the handle latches the error.
FailDisk ==
    /\ budget.faults > 0
    /\ handle.cur \in handle.open
    /\ handle' = [handle EXCEPT !.latched = @ \cup {handle.cur}]
    /\ budget' = [budget EXCEPT !.faults = @ - 1]
    /\ UNCHANGED <<disk, offer, drain, gate, stuck, delivered, collector, stopping, history>>

\* SIGTERM, then the end of the final drain's budget.
Stop ==
    /\ stopping # "expired"
    /\ stopping' = IF stopping = "no" THEN "stop" ELSE "expired"
    /\ UNCHANGED <<disk, handle, offer, drain, gate, stuck, delivered, collector, history, budget>>

\* The deferred Buffer.Close, whether or not the drain ever returned.
Close ==
    /\ stopping = "expired" \/ (stopping = "stop" /\ gate = "free")
    /\ ~handle.closed
    /\ handle' = [handle EXCEPT !.closed = TRUE, !.open = @ \ {handle.cur}]
    /\ stopping' = "expired"
    /\ UNCHANGED <<disk, offer, drain, gate, stuck, delivered, collector, history, budget>>

\* The process dies and comes back; only the disk survives.
Crash ==
    /\ budget.crashes > 0
    /\ budget' = [budget EXCEPT !.crashes = @ - 1]
    /\ handle' = [cur |-> handle.cur + 1, open |-> {handle.cur + 1}, latched |-> {},
                  closed |-> FALSE]
    /\ offer' = [b \in Batches |-> IF offer[b].pc \in {"add", "recover"}
                                   THEN [offer[b] EXCEPT !.pc = "refused"] ELSE offer[b]]
    /\ drain' = Idle /\ gate' = "free" /\ stopping' = "no"
    /\ stuck' = [x \in {} |-> 0] /\ delivered' = 0
    /\ evidence' = [b \in Batches |-> -1]
    /\ UNCHANGED <<disk, collector, received, dropped, damaged>>
-----------------------------------------------------------------------------
Init ==
    /\ disk = <<>>
    /\ handle = [cur |-> 1, open |-> {1}, latched |-> {}, closed |-> FALSE]
    /\ offer = [b \in Batches |-> [pc |-> "new", h |-> 0]]
    /\ drain = Idle /\ gate = "free"
    /\ stuck = [x \in {} |-> 0] /\ delivered = 0
    /\ collector \in Conditions /\ stopping = "no"
    /\ received = {} /\ dropped = {} /\ damaged = {}
    /\ evidence = [b \in Batches |-> -1]
    /\ budget = [flips |-> MaxFlips, faults |-> MaxFaults, crashes |-> MaxCrashes]

DrainStep ==
    \/ StartDrain("run") \/ StartDrain("final") \/ Take \/ Reserve \/ Attempt \/ Backoff
    \/ Commit \/ Rotate \/ RecoverDrain

Produce(b) == TakeHandle(b) \/ Add(b) \/ RecoverAdd(b)

Next ==
    \/ \E b \in Batches : Produce(b)
    \/ DrainStep \/ ReserveCorrupt
    \/ FlipCollector \/ FailDisk \/ Stop \/ Close \/ Crash

Spec == Init /\ [][Next]_vars

\* The drain goroutine runs and its timers fire.
FairSpec == Spec /\ WF_vars(DrainStep)
-----------------------------------------------------------------------------
(* Properties.                                                             *)

PCs == {"off", "take", "reserve", "send", "wait", "commit", "rotate", "recover"}

\* Type invariant of the buffer; the poison tracking stays within its cap.
TypeOK ==
    /\ disk \in Seq(Batches)
    /\ handle.cur \in Nat /\ handle.open \subseteq 1..handle.cur
    /\ \A b \in Batches : offer[b].pc \in {"new", "add", "recover", "accepted", "refused"}
    /\ drain.pc \in PCs /\ drain.mode \in {"run", "final"} /\ drain.tries \in 0..Attempts
    /\ drain.batch \in Batches \cup {NoBatch}
    /\ gate \in {"free", "run", "final"} /\ (gate = "free" <=> drain.pc = "off")
    /\ DOMAIN stuck \subseteq Batches /\ Cardinality(DOMAIN stuck) <= MaxTracked
    /\ \A b \in DOMAIN stuck : stuck[b].cycles \in 0..MaxCycles - 1 /\ stuck[b].last \in 0..delivered
    /\ received \cup dropped \cup damaged \subseteq Batches

\* A batch whose enqueue answered nil is on disk until the collector received
\* it, or it was dropped and counted, or damage to it was reported: across
\* cancelled sends, rotations, handle swaps, shutdown and crashes.
AcceptedIsKept ==
    \A b \in Batches : offer[b].pc = "accepted" =>
       b \in ToSet(disk) \cup received \cup dropped \cup damaged

\* An outage never costs a batch: one that is not rejected for good is dropped
\* only after the collector accepted others MaxCycles times since the batch
\* first failed a whole cycle.
DropsHaveEvidence ==
    [][\A b \in dropped' \ dropped : b \in Invalid \/ evidence[b] >= MaxCycles]_vars

\* Of all handles ever opened only the installed one is open, and none once the
\* buffer was closed on purpose, whoever still holds an older one.
OneOpenHandle ==
    /\ handle.open \subseteq {handle.cur}
    /\ handle.closed => handle.open = {}

\* A poison batch does not wedge the signal: while the collector is up and the
\* process is not stopping, every good batch on disk gets through.
GoodBatchesGetThrough ==
    <>[](collector = "up" /\ stopping = "no") =>
       \A b \in Batches \ (Poison \cup Invalid) :
          offer[b].pc = "accepted" ~> b \in received \cup dropped \cup damaged

\* The buffer keeps its promise to a producer: an accepted batch is kept, in the
\* one queue that is open (sink.enqueue, Buffer.recover).
BufferSound == TypeOK /\ AcceptedIsKept /\ OneOpenHandle

\* One batch that the collector cannot take costs neither itself, unproven, nor
\* the others (stuckTooLong, accountableLap).
PoisonContained == DropsHaveEvidence /\ GoodBatchesGetThrough
=============================================================================
