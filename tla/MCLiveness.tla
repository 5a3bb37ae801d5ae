----------------------------- MODULE MCLiveness -----------------------------
(***************************************************************************)
(* What must eventually happen, on small instances of three components:    *)
(* blocked container lookups, one tailed log, or the disk buffer of one    *)
(* signal.  part says which a behaviour is about.  The lookups are two     *)
(* requests for one container with room for one of them, so that waking,   *)
(* refusing and timing out compete; the log is two lines in at most two    *)
(* files with one failure; the buffer holds two good batches and a poison  *)
(* one, and small attempt and cycle limits reach every verdict.            *)
(***************************************************************************)
EXTENDS ContainerLookup, TLC

CONSTANTS r1, r2, c1, out, err, g1, g2, bad

VARIABLES
    part,
    \* --- the tailer's, its pc as sweepPc
    content, path, made, written, pruned, saved, up, starting, ckpt, tracked, fd, inode, tail,
    committed, readPos, skipEnd, str, segs, segmentsFed, highs, batch, hopUnsaved, gone, goneEnd,
    goneDrained, idleClosed, sweepPc, feeding, cur, settled, lost, duty, saveFailed, faults, crashes,
    \* --- the disk buffer's, its budget as bounds
    disk, handle, offer, drain, gate, stuck, delivered, collector, stopping, received, dropped,
    damaged, evidence, bounds

tailerVars ==
    <<content, path, made, written, pruned, saved, up, starting, ckpt, tracked, fd, inode, tail,
      committed, readPos, skipEnd, str, segs, segmentsFed, highs, batch, hopUnsaved, gone, goneEnd,
      goneDrained, idleClosed, sweepPc, feeding, cur, settled, lost, duty, saveFailed, faults, crashes>>
bufferVars ==
    <<disk, handle, offer, drain, gate, stuck, delivered, collector, stopping, received, dropped,
      damaged, evidence, bounds>>

TwoAsk == (r1 :> c1 @@ r2 :> c1)

T == INSTANCE Tailer WITH
       Streams <- {out, err}, MaxInode <- 2, MaxFaults <- 1, MaxCrashes <- 0, BatchSize <- 1,
       Script <- <<[stream |-> out, kind |-> "F"], [stream |-> err, kind |-> "F"]>>,
       MaxCarriedFds <- 1, RateDrop <- FALSE, SkipUnknown <- FALSE, IdleClose <- FALSE, pc <- sweepPc

B == INSTANCE ExportBuffer WITH
       Batches <- {g1, g2, bad}, Poison <- {bad}, Invalid <- {}, Cap <- 3, Attempts <- 2, MaxCycles <- 2,
       MaxTracked <- 1, MaxFlips <- 1, MaxFaults <- 0, MaxCrashes <- 0, budget <- bounds

suiteVars == <<part, vars, tailerVars, bufferVars>>

SuiteInit ==
    /\ part \in {"lookup", "tailer", "buffer"}
    /\ IF part = "lookup" THEN TRUE ELSE expired = {} /\ ready = FALSE
    /\ IF part = "buffer" THEN TRUE ELSE collector = "up"
    /\ Init /\ T!Init /\ B!Init

SuiteNext ==
    \/ part = "lookup" /\ Next /\ UNCHANGED <<part, tailerVars, bufferVars>>
    \/ part = "tailer" /\ T!Next /\ UNCHANGED <<part, vars, bufferVars>>
    \/ part = "buffer" /\ B!Next /\ UNCHANGED <<part, vars, tailerVars>>

\* The fairness of ContainerLookup, Tailer and ExportBuffer, each in its own part.
LookupFairness ==
    /\ WF_vars(part = "lookup" /\ DrainStore)
    /\ \A r \in Requests : WF_vars(part = "lookup" /\ Step(r))

TailerFairness ==
    /\ WF_tailerVars(part = "tailer" /\ T!Discover) /\ WF_tailerVars(part = "tailer" /\ T!EnsureOpen)
    /\ WF_tailerVars(part = "tailer" /\ T!ReadLine) /\ WF_tailerVars(part = "tailer" /\ T!Flush)
    /\ WF_tailerVars(part = "tailer" /\ T!FeedSegments) /\ WF_tailerVars(part = "tailer" /\ T!ReplayStep)
    /\ WF_tailerVars(part = "tailer" /\ T!ObserveRotation) /\ WF_tailerVars(part = "tailer" /\ T!DrainReturns)
    /\ WF_tailerVars(part = "tailer" /\ T!ReopenRotated) /\ WF_tailerVars(part = "tailer" /\ T!MarkGone)
    /\ WF_tailerVars(part = "tailer" /\ T!Resurrect) /\ WF_tailerVars(part = "tailer" /\ T!DrainGone)
    /\ WF_tailerVars(part = "tailer" /\ T!GoneDrained) /\ WF_tailerVars(part = "tailer" /\ T!SettleGone)
    /\ WF_tailerVars(part = "tailer" /\ T!StageStep) /\ WF_tailerVars(part = "tailer" /\ T!Restart)

BufferFairness == WF_bufferVars(part = "buffer" /\ B!DrainStep)

SuiteSpec == SuiteInit /\ [][SuiteNext]_suiteVars /\ LookupFairness /\ TailerFairness /\ BufferFairness
-----------------------------------------------------------------------------
\* Every line the tailer answers for is eventually delivered or counted lost:
\* a replay that never ends, or a failed flush whose lines are not read again,
\* silences the file (feedSegments, rewind).
LinesSettle == T!EventuallySettled

\* One batch that the collector cannot take costs neither itself, unproven, nor
\* the others (stuckTooLong, accountableLap).
PoisonContained == B!PoisonContained
=============================================================================
