------------------------------- MODULE Tailer -------------------------------
(***************************************************************************)
(* The log tailer of the node agent (internal/agent/tailer): one log path, *)
(* the container runtime that writes and rotates it, the sweep goroutine   *)
(* that reads it, assembles entries, exports batches and advances offsets, *)
(* and the positions file the offsets survive a crash in.                  *)
(*                                                                         *)
(* The sweep goroutine is sequential: pc says where it is inside a sweep   *)
(*   sweep    between two steps of an ordinary sweep or of housekeeping    *)
(*   replay   in feedSegments, replaying segment `feeding'                 *)
(*   drain    in drainFile, emptying the renamed file's descriptor         *)
(*   drained, aborted   drainFile returned true / false; reopen is next    *)
(*   gone     in drainGone, emptying the descriptor of a vanished file     *)
(*   settle   in settleGone                                                *)
(* The runtime, the exporter's verdicts and crashes interleave with it.    *)
(***************************************************************************)
EXTENDS Ledger

LOCAL INSTANCE FiniteSetsExt

CONSTANTS
    Streams,        \* CRI streams (stdout, stderr)
    Script,         \* the lines the container writes, in order
    MaxInode,       \* bound: log files the runtime creates
    MaxFaults,      \* bound: failed exports, saves, reads and seeks
    MaxCrashes,     \* bound: crashes of the agent
    BatchSize,      \* cfg.BatchSize
    MaxCarriedFds,  \* maxCarriedFds
    IdleClose,      \* cfg.IdleClose > 0
    RateDrop,       \* cfg.RateDrop with a rate limit: any line may be dropped
    SkipUnknown     \* UnknownFiles resolves to "end" rather than "start"

\* "F" a full line, "P" a partial CRI fragment, "B" a blank line.
Line == [stream : Streams, kind : {"F", "P", "B"}]

ASSUME ScriptAssumption == Script \in Seq(Line)
ASSUME BoundsAssumption ==
    /\ MaxInode \in Nat \ {0}
    /\ MaxFaults \in Nat
    /\ MaxCrashes \in Nat
    /\ BatchSize \in Nat \ {0}
    /\ MaxCarriedFds \in Nat
    /\ IdleClose \in BOOLEAN
    /\ RateDrop \in BOOLEAN
    /\ SkipUnknown \in BOOLEAN

VARIABLES
    \* --- the node's file system, written by the container runtime
    content,    \* content[i]: the lines of inode i
    path,       \* inode the log path names, 0 while it names none
    made,       \* inodes created so far; the runtime writes to the newest
    written,    \* lines written so far
    pruned,     \* rotated inodes that are no longer in the directory
    \* --- the positions file
    saved,      \* stored checkpoint of the path, or NoCheckpoint
    \* --- the agent's memory: file, its ledger, and the shared batch
    up,         \* the agent process runs
    starting,   \* the source's startup listing has not happened yet
    ckpt,       \* Tailer.checkpoints: loaded, not yet claimed by initFile
    tracked,    \* the path is in Tailer.files
    fd,         \* inode of the open descriptor, 0 when closed
    inode,      \* recorded identity, 0 when none
    tail,       \* ledger id of the live tail
    committed,  \* committed offset of the tail
    readPos,    \* next line to read from the tail
    skipEnd,    \* end of the last skipped line
    str,        \* per-stream ledger state
    segs,       \* rotated segments by ledger id
    segmentsFed,\* every segment is live in the pipeline
    highs,      \* exportedHighs
    batch,      \* entries waiting for export
    hopUnsaved, \* a rotation was recorded that no save has persisted
    gone,       \* the path vanished
    goneEnd,    \* fed end at the last drain of the vanished file
    goneDrained,\* the vanished file was drained at least once
    idleClosed, \* the descriptor was closed for inactivity
    pc, feeding, cur,   \* position of the sweep goroutine
    \* --- history
    settled,    \* lines delivered, permanently rejected or skipped by policy
    lost,       \* lines counted as lost
    duty,       \* lines the process answers for: read, or left in a rotated file,
                \* unless a failed seek has closed the descriptor meanwhile
    saveFailed, \* the last save of the positions file failed
    faults, crashes

fsVars   == <<content, path, made, written, pruned>>
diskVars == <<saved, saveFailed>>
idVars   == <<starting, ckpt, tracked, fd, inode, tail>>
posVars  == <<committed, readPos, skipEnd>>
segVars  == <<segs, segmentsFed>>
goneVars == <<gone, goneEnd, goneDrained>>
pcVars   == <<pc, feeding, cur>>
histVars == <<settled, lost, duty>>
budget   == <<faults, crashes>>

agentVars == <<up, idVars, posVars, str, segVars, highs, batch, hopUnsaved,
               goneVars, idleClosed, pcVars>>
vars == <<fsVars, diskVars, agentVars, histVars, budget>>

EmptyFn == [x \in {} |-> 0]
NoCheckpoint == [offset |-> -1, inode |-> 0, tail |-> 0, pending |-> EmptyFn]
NewStreams == [s \in Streams |-> EmptyStream]

Inodes == 1..MaxInode

\* The lines of inode i at offsets from..to-1.
LinesIn(i, from, to) == {i} \X (from..(to - 1))

-----------------------------------------------------------------------------
(* The container runtime and the kubelet's log rotation.                   *)

WriteLine ==
    /\ written < Len(Script)
    /\ written' = written + 1
    /\ content' = [content EXCEPT ![made] = Append(@, Script[written + 1])]
    /\ UNCHANGED <<path, made, pruned, diskVars, agentVars, histVars, budget>>

\* Rotation, first half: the file is renamed; the path dangles and the writer
\* still holds the old inode.
RenameLog ==
    /\ path # 0
    /\ made < MaxInode
    /\ path' = 0
    /\ UNCHANGED <<content, made, written, pruned, diskVars, agentVars, histVars, budget>>

\* Rotation, second half: a fresh file at the path, which the writer moves to.
CreateLog ==
    /\ path = 0
    /\ made < MaxInode
    /\ made' = made + 1
    /\ path' = made + 1
    /\ UNCHANGED <<content, written, pruned, diskVars, agentVars, histVars, budget>>

PruneRotated(i) ==
    /\ i < made
    /\ i \notin pruned
    /\ pruned' = pruned \cup {i}
    /\ UNCHANGED <<content, path, made, written, diskVars, agentVars, histVars, budget>>
-----------------------------------------------------------------------------
(* Checkpoints.                                                            *)

\* The stored form keeps each segment's identity and unsettled range.  Ledger
\* ids are only ever compared, so they are kept where the code renumbers.
CheckpointOf(c, i, t, sg) ==
    [offset |-> c, inode |-> i, tail |-> t,
     pending |-> [id \in DOMAIN sg |->
                    [inode |-> sg[id].inode, from |-> sg[id].committed, to |-> sg[id].to]]]

\* saveCheckpoints: the tracked file's offsets, or the loaded checkpoint of a
\* path not claimed yet; a released path is dropped.
SaveTo(c, i, t, sg) ==
    \/ /\ saved' = IF tracked THEN CheckpointOf(c, i, t, sg) ELSE ckpt
       /\ saveFailed' = FALSE
       /\ UNCHANGED faults
    \/ /\ faults < MaxFaults
       /\ faults' = faults + 1
       /\ saveFailed' = TRUE
       /\ UNCHANGED saved

SaveCheckpoints ==
    /\ up /\ pc = "sweep"
    /\ SaveTo(committed, inode, tail, segs)
    /\ hopUnsaved' = (hopUnsaved /\ saveFailed')
    /\ UNCHANGED <<fsVars, up, idVars, posVars, str, segVars, highs, batch,
                   goneVars, idleClosed, pcVars, histVars, crashes>>

\* Mutant: a hop waits for the periodic save.
NoteHopForgotten(c, i, t, sg) == UNCHANGED <<hopUnsaved, diskVars, faults>>

\* noteHop: a second hop while the first is unsaved forces a save now.
NoteHop(c, i, t, sg) ==
    /\ hopUnsaved' = TRUE
    /\ IF hopUnsaved THEN SaveTo(c, i, t, sg) ELSE UNCHANGED <<diskVars, faults>>
-----------------------------------------------------------------------------
(* Discovery: claimPath, initFile, saveDiscovery.                          *)

\* The segments a checkpoint restores: its pending ranges in order, and the
\* checkpointed inode itself, open-ended, when the path names another file.
Restored(cp) ==
    LET ranges == IF cp.inode # 0 /\ path # cp.inode
                  THEN Put(cp.pending, cp.tail,
                           [inode |-> cp.inode, from |-> cp.offset, to |-> -1])
                  ELSE cp.pending
    IN  [id \in DOMAIN ranges |->
           [inode |-> ranges[id].inode, committed |-> ranges[id].from, to |-> ranges[id].to,
            fed |-> FALSE, fedTo |-> 0, fd |-> FALSE]]

\* The end of what segment sg owes: its pinned end, or the end of its file.
SegEnd(sg) == IF sg.to < 0 THEN Len(content[sg.inode]) ELSE sg.to

Remainder(sg) == LinesIn(sg.inode, sg.committed, SegEnd(sg))

\* Mutant: the stored offset is not resumed.
ResumeFileFromStart ==
    /\ ckpt # NoCheckpoint
    /\ segs' = Restored(ckpt)
    /\ tail' = ckpt.tail + 1
    /\ committed' = 0
    /\ inode' = IF path # ckpt.inode THEN 0 ELSE ckpt.inode
    /\ duty' = UNION {Remainder(segs'[id]) : id \in DOMAIN segs'}
    /\ UNCHANGED settled

\* initFile with a checkpoint: resume it, or queue the checkpointed file as a
\* segment when the path was rotated meanwhile.
ResumeFile ==
    LET moved == ckpt.inode # 0 /\ path # ckpt.inode
    IN  /\ ckpt # NoCheckpoint
        /\ segs' = Restored(ckpt)
        /\ tail' = ckpt.tail + 1
        /\ committed' = IF moved THEN 0 ELSE ckpt.offset
        /\ inode' = IF moved THEN 0 ELSE ckpt.inode
        /\ duty' = UNION {Remainder(segs'[id]) : id \in DOMAIN segs'}
        /\ UNCHANGED settled

\* initFile without one: at startup UnknownFiles decides whether what the file
\* already holds is history.
UnknownFile ==
    /\ ckpt = NoCheckpoint
    /\ segs' = EmptyFn
    /\ tail' = 1
    /\ inode' = 0
    /\ committed' = IF starting /\ SkipUnknown THEN Len(content[path]) ELSE 0
    /\ settled' = settled \cup LinesIn(path, 0, committed')
    /\ UNCHANGED duty

Discover ==
    /\ up /\ pc = "sweep" /\ ~tracked
    /\ path # 0
    /\ ResumeFile \/ UnknownFile
    /\ tracked' = TRUE
    /\ starting' = FALSE
    /\ ckpt' = NoCheckpoint
    /\ str' = NewStreams
    /\ segmentsFed' = FALSE
    /\ \/ saved' = CheckpointOf(committed', inode', tail', segs')
       \/ UNCHANGED saved              \* deferred by discoverySaveWindow
    /\ UNCHANGED <<fsVars, saveFailed, up, fd, readPos, skipEnd, highs, batch, hopUnsaved,
                   goneVars, idleClosed, pcVars, lost, budget>>

\* A complete startup listing finds nothing to claim: the loaded checkpoint is
\* pruned, and later files are new ones.
ListNothing ==
    /\ up /\ pc = "sweep" /\ ~tracked /\ starting
    /\ path = 0
    /\ starting' = FALSE
    /\ ckpt' = NoCheckpoint
    /\ UNCHANGED <<fsVars, diskVars, up, tracked, fd, inode, tail, posVars, str, segVars,
                   highs, batch, hopUnsaved, goneVars, idleClosed, pcVars, histVars, budget>>
-----------------------------------------------------------------------------
(* Opening the file: ensureOpen.                                           *)

GateClosed == DOMAIN segs # {} /\ ~segmentsFed

\* beginIncarnation: a new ledger id for a tail read from the start.
BeginIncarnation ==
    /\ tail' = tail + 1
    /\ committed' = 0
    /\ readPos' = 0
    /\ skipEnd' = 0
    /\ goneEnd' = 0
    /\ goneDrained' = FALSE

\* The path names the recorded file, or the file has no recorded identity.
OpenSame ==
    /\ inode \in {0, path}
    /\ committed <= Len(content[path])
    /\ readPos' = committed
    /\ skipEnd' = 0
    /\ UNCHANGED <<tail, committed, goneEnd, goneDrained, segVars, str, highs,
                   hopUnsaved, diskVars, faults, duty>>

\* The stages and the highs of the old incarnation go; segments are replayed.
FreshPipeline(sg) ==
    /\ segs' = Unfed(sg)
    /\ segmentsFed' = FALSE
    /\ highs' = EmptyFn
    /\ str' = NewStreams

\* The offset lies past the end of the file: it is read from the start.
OpenTruncated ==
    /\ inode \in {0, path}
    /\ committed > Len(content[path])
    /\ FreshPipeline(segs)
    /\ BeginIncarnation
    /\ UNCHANGED <<hopUnsaved, diskVars, faults, duty>>

\* The path names another file: it was rotated while no descriptor was held.
OpenReplaced ==
    /\ inode \notin {0, path}
    /\ FreshPipeline(Put(segs, tail,
                         [inode |-> inode, committed |-> committed, to |-> -1,
                          fed |-> FALSE, fedTo |-> 0, fd |-> FALSE]))
    /\ BeginIncarnation
    /\ NoteHop(0, path, tail', segs')
    /\ duty' = duty \cup LinesIn(inode, 0, Len(content[inode]))

EnsureOpen ==
    /\ up /\ tracked /\ pc = "sweep" /\ ~gone
    /\ fd = 0 /\ path # 0
    /\ idleClosed => path # inode \/ Len(content[path]) # readPos
    /\ fd' = path
    /\ inode' = path
    /\ idleClosed' = FALSE
    /\ OpenSame \/ OpenTruncated \/ OpenReplaced
    /\ UNCHANGED <<fsVars, up, starting, ckpt, tracked, batch, gone, pcVars, settled, lost,
                   crashes>>

\* closeIdleFiles: everything read is committed and nothing is buffered.
CloseIdle ==
    /\ IdleClose
    /\ up /\ pc = "sweep" /\ fd # 0 /\ ~gone
    /\ FedEnd(str, tail, committed) = committed
    /\ DOMAIN segs = {}
    /\ AllBuffered(str) = {}
    /\ path = inode /\ Len(content[path]) = readPos    \* size and mtime as last seen
    /\ fd' = 0
    /\ idleClosed' = TRUE
    /\ UNCHANGED <<fsVars, diskVars, up, starting, ckpt, tracked, inode, tail, posVars, str,
                   segVars, highs, batch, hopUnsaved, goneVars, pcVars, histVars, budget>>
-----------------------------------------------------------------------------
(* Reading: consume, feedLine, and the assembly stages.                    *)

\* feedLine of line `l' at position p of inode i; a full line closes the run.
FeedLine(i, p, l) ==
    LET fed == Fed(str[l.stream], p, i)
    IN  str' = [str EXCEPT ![l.stream] = IF l.kind = "F" THEN RunClosed(fed) ELSE fed]

NextLine == content[fd][readPos + 1]

HasNext == fd # 0 /\ readPos < Len(content[fd])

\* consume feeds the next line of the tail.
ConsumeFed ==
    /\ NextLine.kind # "B"
    /\ FeedLine(fd, <<tail, readPos>>, NextLine)
    /\ UNCHANGED <<committed, skipEnd, settled>>

\* consume skips a blank line, or drops one to the rate limit.  The deferred
\* absorbSkipped runs when the chunk ends: after this line, or later if the
\* chunk holds more (where a line fed meanwhile keeps it from committing).
ConsumeSkipped ==
    /\ NextLine.kind = "B" \/ (RateDrop /\ pc = "sweep")
    /\ skipEnd' = readPos + 1
    /\ \/ committed' = Absorbed(str, tail, committed, readPos + 1)
       \/ committed' = committed /\ readPos + 1 < Len(content[fd])
    /\ settled' = settled \cup {<<fd, readPos>>}
    /\ UNCHANGED str

\* One line of readFile, or of drainFile (which ignores the rate limit and
\* only flushes between chunks); a drain also ends at its cap.
ReadLine ==
    /\ up /\ tracked
    /\ \/ pc = "sweep" /\ ~gone /\ ~GateClosed /\ Cardinality(batch) < BatchSize
       \/ pc \in {"drain", "gone"}
    /\ HasNext
    /\ ConsumeFed \/ ConsumeSkipped
    /\ readPos' = readPos + 1
    /\ duty' = duty \cup {<<fd, readPos>>}
    /\ pc' \in CASE pc = "drain" -> {"drain", "aborted"}      \* drainCap reached
                 [] pc = "gone"  -> {"gone", "settle"}
                 [] OTHER        -> {pc}
    /\ UNCHANGED <<fsVars, diskVars, up, idVars, segVars, highs, batch, hopUnsaved,
                   goneVars, idleClosed, feeding, cur, lost, budget>>

\* The stages emit while lines are fed to them and in the age flush that ends
\* the sweep of an open file.
StagesRun == up /\ (pc = "sweep" => fd # 0 /\ ~gone)

\* The CRI stage flushes a run on its own: age flush, entry cap.
RunCloses(s) ==
    /\ StagesRun /\ str[s].hasRun
    /\ str' = [str EXCEPT ![s] = RunFlushed(@)]
    /\ UNCHANGED <<fsVars, diskVars, up, idVars, posVars, segVars, highs, batch, hopUnsaved,
                   goneVars, idleClosed, pcVars, histVars, budget>>

\* The joiner completes a group of n buffered lines.
EntryEmitted(s, n) ==
    /\ StagesRun /\ n \in 1..Len(str[s].fifo)
    /\ batch' = batch \cup {Assembled(str[s], n)}
    /\ str' = [str EXCEPT ![s] = Popped(@, n)]
    /\ UNCHANGED <<fsVars, diskVars, up, idVars, posVars, segVars, highs, hopUnsaved,
                   goneVars, idleClosed, pcVars, histVars, budget>>
-----------------------------------------------------------------------------
(* Flushing: flush, commitBatch / advanceBatch, failBatch / rewind.        *)

\* Where feedSegments returns to: readFile, or drainGone, which goes on only
\* when no segment is left unfed.
AfterPass(sg, allFed) ==
    IF ~gone THEN "sweep" ELSE IF DOMAIN sg = {} \/ allFed THEN "gone" ELSE "settle"

BatchLines == UNION {LinesOf(e) : e \in batch}

\* The batch was accepted, or rejected permanently and dropped: advance.
AdvanceBatch ==
    LET all   == Highs(Proposals(batch, segs, highs))
        cands == Clamped(all, str)
        c     == Advanced(cands, tail, committed)
    IN  /\ committed' = Absorbed(str, tail, c, skipEnd)
        /\ segs' = AdvancedSegs(cands, segs)
        /\ highs' = LeftoverHighs(all, tail, c, segs')
        /\ settled' = settled \cup BatchLines
        /\ UNCHANGED <<fd, readPos, skipEnd, str, segmentsFed, pcVars, duty, faults>>

\* rewind's seek to the committed offset.  When it fails the descriptor is
\* closed, and what it led to is answered for again once it is reopened.
SeekCommitted ==
    \/ UNCHANGED <<fd, duty>>
    \/ /\ fd # 0
       /\ fd' = 0
       /\ duty' = duty \ LinesIn(fd, committed, Len(content[fd]))

\* Mutant: the stages are purged but the file is not read again.
RewindKeepsPosition ==
    /\ faults < MaxFaults
    /\ faults' = faults + 1
    /\ highs' = EmptyFn
    /\ SeekCommitted
    /\ readPos' = readPos
    /\ skipEnd' = 0
    /\ segs' = Unfed(segs)
    /\ segmentsFed' = FALSE
    /\ str' = NewStreams
    /\ pc' = CASE pc = "drain" -> "aborted"
               [] pc = "gone" -> "settle"
               [] pc = "replay" -> AfterPass(segs, FALSE)
               [] OTHER -> pc
    /\ feeding' = 0
    /\ cur' = 0
    /\ UNCHANGED <<committed, settled>>

\* rewind: everything past the committed offsets is read again.  In a drain
\* or a replay the failed flush also ends the pass.
Rewind ==
    /\ faults < MaxFaults
    /\ faults' = faults + 1
    /\ highs' = EmptyFn
    /\ SeekCommitted
    /\ readPos' = committed
    /\ skipEnd' = 0
    /\ segs' = Unfed(segs)
    /\ segmentsFed' = FALSE
    /\ str' = NewStreams
    /\ pc' = CASE pc = "drain" -> "aborted"
               [] pc = "gone" -> "settle"
               [] pc = "replay" -> AfterPass(segs, FALSE)
               [] OTHER -> pc
    /\ feeding' = 0
    /\ cur' = 0
    /\ UNCHANGED <<committed, settled>>

\* flush, by the timer or by settleGone, or by maybeFlush once the batch is
\* full: the only kind that happens inside a drain or a replay.
Flush ==
    /\ up /\ batch # {}
    /\ \/ pc \in {"sweep", "settle"}
       \/ pc \in {"drain", "gone", "replay"} /\ Cardinality(batch) >= BatchSize
    /\ AdvanceBatch \/ Rewind
    /\ batch' = {}
    /\ UNCHANGED <<fsVars, diskVars, up, starting, ckpt, tracked, inode, tail, hopUnsaved,
                   goneVars, idleClosed, lost, crashes>>
-----------------------------------------------------------------------------
(* Replaying rotated segments: feedSegments, replaySegment.                *)

ReplayFrom(sg) == MaxOf(sg.committed, sg.fedTo)

\* The pass over the segments, oldest first: on to the first id above `id',
\* or done with every segment live.
NextSegment(sg, id) ==
    LET later == {x \in DOMAIN sg : x > id}
    IN  IF later = {}
        THEN /\ pc' = AfterPass(sg, TRUE) /\ feeding' = 0 /\ cur' = 0
             /\ segmentsFed' = TRUE
        ELSE /\ pc' = "replay" /\ feeding' = Min(later)
             /\ cur' = ReplayFrom(sg[Min(later)])
             /\ UNCHANGED segmentsFed

FeedSegments ==
    /\ up /\ tracked /\ pc = "sweep" /\ ~gone
    /\ fd # 0 /\ GateClosed
    /\ NextSegment(segs, 0)
    /\ UNCHANGED <<fsVars, diskVars, up, idVars, posVars, str, segs, highs, batch, hopUnsaved,
                   goneVars, idleClosed, histVars, budget>>

Replaying == up /\ pc = "replay"

\* openSegmentSource finds the inode by its retained descriptor or on disk.
SourceFound(sg) == sg.fd \/ sg.inode \notin pruned

\* The pass goes on with the next line, or the byte budget ends it here.
ReplayOn == cur' = cur + 1 /\ UNCHANGED <<pc, feeding, segmentsFed>>

ReplayCut ==
    /\ cur + 1 < SegEnd(segs[feeding])
    /\ pc' = AfterPass(segs, FALSE) /\ feeding' = 0 /\ cur' = 0
    /\ segmentsFed' = FALSE

\* One line of the segment: a blank one is passed over, others are fed under
\* the segment's id.
ReplayLine ==
    /\ Replaying /\ feeding \in DOMAIN segs
    /\ LET sg == segs[feeding]
           l  == content[sg.inode][cur + 1]
       IN  /\ SourceFound(sg)
           /\ cur < SegEnd(sg) /\ cur < Len(content[sg.inode])
           /\ duty' = duty \cup {<<sg.inode, cur>>}
           /\ \/ /\ l.kind = "B"
                 /\ settled' = settled \cup {<<sg.inode, cur>>}
                 /\ ReplayOn
                 /\ UNCHANGED <<str, segs>>
              \/ /\ l.kind # "B"
                 /\ FeedLine(sg.inode, <<feeding, cur>>, l)
                 /\ segs' = [segs EXCEPT ![feeding].fedTo = cur + 1]
                 /\ ReplayOn \/ ReplayCut
                 /\ UNCHANGED settled
    /\ UNCHANGED <<fsVars, diskVars, up, idVars, posVars, highs, batch, hopUnsaved,
                   goneVars, idleClosed, lost, budget>>

WithoutSeg(id) == [x \in DOMAIN segs \ {id} |-> segs[x]]

\* The end of the segment was reached: an open-ended one is pinned to what was
\* fed, or retired when that is all committed.
ReplaySegmentDone ==
    /\ Replaying
    /\ feeding \in DOMAIN segs =>
          SourceFound(segs[feeding]) /\ cur = SegEnd(segs[feeding])
    /\ segs' = IF feeding \notin DOMAIN segs THEN segs
               ELSE IF segs[feeding].to >= 0
                    THEN [segs EXCEPT ![feeding].fed = TRUE]
                    ELSE IF segs[feeding].fedTo > segs[feeding].committed
                         THEN [segs EXCEPT ![feeding].to = segs[feeding].fedTo,
                                           ![feeding].fed = TRUE]
                         ELSE WithoutSeg(feeding)
    /\ NextSegment(segs', feeding)
    /\ UNCHANGED <<fsVars, diskVars, up, idVars, posVars, str, highs, batch, hopUnsaved,
                   goneVars, idleClosed, histVars, budget>>

\* openSegmentSource: no such inode any more; its lines are counted as lost.
ReplayMissing ==
    /\ Replaying /\ feeding \in DOMAIN segs
    /\ ~SourceFound(segs[feeding])
    /\ lost' = lost \cup (Remainder(segs[feeding]) \ settled)
    /\ segs' = WithoutSeg(feeding)
    /\ NextSegment(segs', feeding)
    /\ UNCHANGED <<fsVars, diskVars, up, idVars, posVars, str, highs, batch, hopUnsaved,
                   goneVars, idleClosed, settled, duty, budget>>

\* chargeStall: the source stayed unreadable for segmentStallLimit; the
\* segment is given up on and the pass ends.
ReplayStalled ==
    /\ Replaying /\ feeding \in DOMAIN segs
    /\ faults < MaxFaults
    /\ faults' = faults + 1
    /\ lost' = lost \cup (Remainder(segs[feeding]) \ settled)
    /\ segs' = WithoutSeg(feeding)
    /\ pc' = AfterPass(segs', FALSE) /\ feeding' = 0 /\ cur' = 0
    /\ segmentsFed' = FALSE
    /\ UNCHANGED <<fsVars, diskVars, up, idVars, posVars, str, highs, batch, hopUnsaved,
                   goneVars, idleClosed, settled, duty, crashes>>
-----------------------------------------------------------------------------
(* Rotation by rename: handleRotation, drainFile, reopen.                  *)

\* The path names another inode than the open one.  While the gate is closed
\* the old file is not drained: reopen records it whole.
ObserveRotation ==
    /\ up /\ tracked /\ pc = "sweep" /\ ~gone
    /\ fd # 0 /\ path \notin {0, inode}
    /\ pc' = IF GateClosed THEN "aborted" ELSE "drain"
    /\ UNCHANGED <<fsVars, diskVars, up, idVars, posVars, str, segVars, highs, batch, hopUnsaved,
                   goneVars, idleClosed, feeding, cur, histVars, budget>>

\* drainFile returns at the end of the file, or on a read error that makes the
\* unread remainder unrecoverable.
DrainReturns ==
    /\ up /\ pc = "drain"
    /\ \/ /\ ~HasNext
          /\ pc' = "drained"
          /\ UNCHANGED <<lost, faults>>
       \/ /\ HasNext /\ faults < MaxFaults
          /\ faults' = faults + 1
          /\ lost' = lost \cup LinesIn(fd, readPos, Len(content[fd]))
          /\ pc' = "drained"
    /\ UNCHANGED <<fsVars, diskVars, up, idVars, posVars, str, segVars, highs, batch, hopUnsaved,
                   goneVars, idleClosed, feeding, cur, settled, duty, crashes>>

\* Mutant: an aborted drain is not recorded for replay.
OwesLinesIfDrained(drained, fedEnd) == drained /\ fedEnd > committed

\* The old incarnation still owes lines: reopen records a segment for it.
OwesLines(drained, fedEnd) == ~drained \/ fedEnd > committed

\* Mutant: every rotation keeps its descriptor.
OldIncarnationKeepsFd(drained, fedEnd) ==
    [inode |-> inode, committed |-> committed, to |-> IF drained THEN fedEnd ELSE -1,
     fed |-> drained, fedTo |-> IF drained THEN 0 ELSE fedEnd, fd |-> TRUE]

\* Drained, it owes what was fed; otherwise it is read on from there to its end.
OldIncarnation(drained, fedEnd) ==
    [inode |-> inode, committed |-> committed, to |-> IF drained THEN fedEnd ELSE -1,
     fed |-> drained, fedTo |-> IF drained THEN 0 ELSE fedEnd,
     fd |-> fd # 0 /\ RetainedFds(segs) < MaxCarriedFds]

\* reopen after a rename.  What the stages buffer is carried into the new
\* incarnation only if every segment is live and the old file was drained;
\* otherwise it is flushed out into the batch and the segments are replayed.
Reopen(drained) ==
    LET prevFed == segmentsFed \/ DOMAIN segs = {}
        wasFed  == prevFed /\ drained
        carry   == AllBuffered(str) # {} /\ wasFed
        fedEnd  == FedEnd(str, tail, committed)
        hop     == OwesLines(drained, fedEnd)
        all     == IF hop THEN Put(segs, tail, OldIncarnation(drained, fedEnd)) ELSE segs
    IN  /\ batch' = IF carry THEN batch
                    ELSE batch \cup UNION {StopEntries(str[s]) : s \in Streams}
        /\ str' = IF carry THEN str ELSE NewStreams
        /\ segmentsFed' = wasFed
        /\ segs' = [id \in DOMAIN all |->
                      IF prevFed /\ ~drained /\ id # tail
                      THEN [all[id] EXCEPT !.fed = TRUE, !.fedTo = MaxOf(@, all[id].to)]
                      ELSE [all[id] EXCEPT !.fed = wasFed]]
        /\ BeginIncarnation
        /\ inode' = 0
        /\ fd' = 0
        /\ duty' = duty \cup LinesIn(inode, 0, Len(content[inode]))
        /\ IF hop THEN NoteHop(0, 0, tail', segs')
           ELSE UNCHANGED <<diskVars, hopUnsaved, faults>>

ReopenRotated ==
    /\ up /\ pc \in {"drained", "aborted"}
    /\ Reopen(pc = "drained")
    /\ pc' = "sweep"
    /\ UNCHANGED <<fsVars, up, starting, ckpt, tracked, highs, gone, idleClosed, feeding, cur,
                   settled, lost, crashes>>
-----------------------------------------------------------------------------
(* A path that vanished: drainGone, settleGone, resurrect, release.        *)

\* readFile finds no file at the path.
MarkGone ==
    /\ up /\ tracked /\ pc = "sweep" /\ ~gone
    /\ path = 0
    /\ gone' = TRUE
    /\ UNCHANGED <<fsVars, diskVars, up, idVars, posVars, str, segVars, highs, batch, hopUnsaved,
                   goneEnd, goneDrained, idleClosed, pcVars, histVars, budget>>

Resurrect ==
    /\ up /\ pc = "sweep" /\ gone
    /\ path # 0
    /\ gone' = FALSE /\ goneEnd' = 0 /\ goneDrained' = FALSE
    /\ UNCHANGED <<fsVars, diskVars, up, idVars, posVars, str, segVars, highs, batch, hopUnsaved,
                   idleClosed, pcVars, histVars, budget>>

\* The grace period is over: replay what the segments owe, then drain the
\* descriptor.
DrainGone ==
    /\ up /\ pc = "sweep" /\ gone
    /\ path = 0
    /\ IF GateClosed THEN NextSegment(segs, 0)
       ELSE pc' = "gone" /\ UNCHANGED <<feeding, cur, segmentsFed>>
    /\ UNCHANGED <<fsVars, diskVars, up, idVars, posVars, str, segs, highs, batch, hopUnsaved,
                   goneVars, idleClosed, histVars, budget>>

\* The vanished file is drained, or a read error ends the drain as its end
\* would: the stages flush, the fed end is the debt.
GoneDrained ==
    /\ up /\ pc = "gone"
    /\ \/ /\ ~HasNext
          /\ UNCHANGED <<lost, faults>>
       \/ /\ HasNext /\ faults < MaxFaults
          /\ faults' = faults + 1
          /\ lost' = lost \cup LinesIn(fd, readPos, Len(content[fd]))
    /\ batch' = batch \cup UNION {StopEntries(str[s]) : s \in Streams}
    /\ str' = [s \in Streams |-> Stopped(str[s])]
    /\ goneEnd' = MaxOf(goneEnd, FedEnd(str, tail, committed))
    /\ goneDrained' = TRUE
    /\ pc' = "settle"
    /\ UNCHANGED <<fsVars, diskVars, up, idVars, posVars, segVars, highs, hopUnsaved,
                   gone, idleClosed, feeding, cur, settled, duty, crashes>>

SettledGone ==
    /\ goneDrained
    /\ DOMAIN segs = {}
    /\ AllBuffered(str) = {}
    /\ committed >= goneEnd

\* What the agent's memory holds of an untracked path.
Forgotten ==
    /\ tracked' = FALSE /\ fd' = 0 /\ inode' = 0 /\ tail' = 0
    /\ committed' = 0 /\ readPos' = 0 /\ skipEnd' = 0
    /\ str' = NewStreams
    /\ segs' = EmptyFn /\ segmentsFed' = FALSE /\ highs' = EmptyFn
    /\ hopUnsaved' = FALSE
    /\ gone' = FALSE /\ goneEnd' = 0 /\ goneDrained' = FALSE
    /\ idleClosed' = FALSE
    /\ pc' = "sweep" /\ feeding' = 0 /\ cur' = 0

\* chargeGoneStall: after a failed export the drain keeps erring short of an end
\* it reached before, for segmentStallLimit; the rest of the file is given up on.
GoneStalled ==
    /\ goneDrained /\ fd # 0
    /\ committed < goneEnd
    /\ DOMAIN segs = {} /\ AllBuffered(str) = {}
    /\ lost' = lost \cup LinesIn(fd, committed, Len(content[fd]))
    /\ UNCHANGED faults

\* settleGone, after its flush: release the file, or keep it for a later sweep.
SettleGone ==
    /\ up /\ pc = "settle" /\ batch = {}
    /\ \/ SettledGone /\ Forgotten /\ UNCHANGED <<lost, faults>>
       \/ GoneStalled /\ Forgotten
       \/ /\ ~SettledGone
          /\ pc' = "sweep"
          /\ UNCHANGED <<tracked, fd, inode, tail, posVars, str, segVars, highs, hopUnsaved,
                         goneVars, idleClosed, feeding, cur, lost, faults>>
    /\ UNCHANGED <<fsVars, diskVars, up, starting, ckpt, batch, settled, duty, crashes>>
-----------------------------------------------------------------------------
(* Crash and restart.                                                      *)

Crash ==
    /\ up /\ crashes < MaxCrashes
    /\ crashes' = crashes + 1
    /\ up' = FALSE
    /\ Forgotten
    /\ batch' = {}
    /\ starting' = FALSE
    /\ ckpt' = NoCheckpoint
    /\ duty' = {}
    /\ UNCHANGED <<fsVars, diskVars, settled, lost, faults>>

\* loadCheckpoints seeds the startup scan.
Restart ==
    /\ ~up
    /\ up' = TRUE
    /\ ckpt' = saved
    /\ starting' = TRUE
    /\ UNCHANGED <<fsVars, diskVars, tracked, fd, inode, tail, posVars, str, segVars, highs, batch,
                   hopUnsaved, goneVars, idleClosed, pcVars, histVars, budget>>
-----------------------------------------------------------------------------
Init ==
    /\ content = [i \in Inodes |-> <<>>]
    /\ path = 1 /\ made = 1 /\ written = 0 /\ pruned = {}
    /\ saved = NoCheckpoint /\ saveFailed = FALSE
    /\ up = TRUE /\ starting = TRUE /\ ckpt = NoCheckpoint
    /\ tracked = FALSE /\ fd = 0 /\ inode = 0 /\ tail = 0
    /\ committed = 0 /\ readPos = 0 /\ skipEnd = 0
    /\ str = NewStreams
    /\ segs = EmptyFn /\ segmentsFed = FALSE /\ highs = EmptyFn
    /\ batch = {}
    /\ hopUnsaved = FALSE
    /\ gone = FALSE /\ goneEnd = 0 /\ goneDrained = FALSE
    /\ idleClosed = FALSE
    /\ pc = "sweep" /\ feeding = 0 /\ cur = 0
    /\ settled = {} /\ lost = {} /\ duty = {}
    /\ faults = 0 /\ crashes = 0

RuntimeStep == WriteLine \/ RenameLog \/ CreateLog \/ \E i \in Inodes : PruneRotated(i)

ReplayStep == ReplayLine \/ ReplaySegmentDone \/ ReplayMissing \/ ReplayStalled

StageStep ==
    \E s \in Streams : RunCloses(s) \/ \E n \in 1..Len(Script) : EntryEmitted(s, n)

SweepStep ==
    \/ Discover \/ ListNothing \/ EnsureOpen \/ CloseIdle
    \/ ReadLine \/ Flush
    \/ FeedSegments \/ ReplayStep
    \/ ObserveRotation \/ DrainReturns \/ ReopenRotated
    \/ MarkGone \/ Resurrect \/ DrainGone \/ GoneDrained \/ SettleGone
    \/ SaveCheckpoints

Next == RuntimeStep \/ StageStep \/ SweepStep \/ Crash \/ Restart

Spec == Init /\ [][Next]_vars

\* The sweep goroutine never stops taking steps while the agent runs, the
\* stages age out what they hold, and a stopped agent is restarted.
Fairness ==
    /\ WF_vars(Discover) /\ WF_vars(EnsureOpen) /\ WF_vars(ReadLine) /\ WF_vars(Flush)
    /\ WF_vars(FeedSegments) /\ WF_vars(ReplayStep)
    /\ WF_vars(ObserveRotation) /\ WF_vars(DrainReturns) /\ WF_vars(ReopenRotated)
    /\ WF_vars(MarkGone) /\ WF_vars(Resurrect) /\ WF_vars(DrainGone)
    /\ WF_vars(GoneDrained) /\ WF_vars(SettleGone)
    /\ WF_vars(StageStep) /\ WF_vars(Restart)

FairSpec == Spec /\ Fairness
-----------------------------------------------------------------------------
(* Properties.                                                             *)

\* Offsets never exceed the number of lines ever written.
Off == 0..Len(Script)
Pos == Nat \X Off
LineIds == Nat \X Off \X Inodes
ItemType == [start : Pos, end : Pos, lines : SUBSET LineIds]
StreamType == [lastEnd : Pos, hasRun : BOOLEAN, runStart : Pos, runLines : Seq(LineIds),
               fifo : Seq(ItemType)]
SegmentType == [inode : Inodes, committed : Off, to : Off \cup {-1}, fed : BOOLEAN,
                fedTo : Off, fd : BOOLEAN]
RangeType == [inode : Inodes, from : Off, to : Off \cup {-1}]

\* Functions from ledger ids to values of T.
Ledgered(f, T) == DOMAIN f \subseteq Nat /\ \A id \in DOMAIN f : f[id] \in T

CheckpointType(cp) ==
    \/ cp = NoCheckpoint
    \/ /\ cp.offset \in Off
       /\ cp.inode \in Inodes \cup {0}
       /\ cp.tail \in Nat
       /\ Ledgered(cp.pending, RangeType)

FsType ==
    /\ content \in [Inodes -> Seq(Line)]
    /\ \A i \in Inodes : Len(content[i]) <= written
    /\ path \in Inodes \cup {0} /\ made \in Inodes /\ written \in Off
    /\ pruned \subseteq Inodes

DiskType ==
    /\ CheckpointType(saved) /\ saveFailed \in BOOLEAN
    /\ faults \in 0..MaxFaults /\ crashes \in 0..MaxCrashes

AgentType ==
    /\ up \in BOOLEAN /\ starting \in BOOLEAN /\ tracked \in BOOLEAN
    /\ CheckpointType(ckpt)
    /\ fd \in Inodes \cup {0} /\ inode \in Inodes \cup {0}
    /\ hopUnsaved \in BOOLEAN /\ idleClosed \in BOOLEAN
    /\ gone \in BOOLEAN /\ goneDrained \in BOOLEAN
    /\ pc \in {"sweep", "replay", "drain", "drained", "aborted", "gone", "settle"}

OffsetType ==
    /\ tail \in Nat /\ feeding \in Nat
    /\ committed \in Off /\ readPos \in Off /\ skipEnd \in Off
    /\ goneEnd \in Off /\ cur \in Off

LedgerType ==
    /\ str \in [Streams -> StreamType]
    /\ Ledgered(segs, SegmentType) /\ segmentsFed \in BOOLEAN
    /\ Ledgered(highs, Off)
    /\ batch \subseteq ItemType

HistoryType ==
    /\ settled \subseteq Inodes \X Off
    /\ lost \subseteq Inodes \X Off
    /\ duty \subseteq Inodes \X Off

\* Type invariant of the tailer's state.
TypeOK == FsType /\ DiskType /\ AgentType /\ OffsetType /\ LedgerType /\ HistoryType

\* What a checkpoint still owes: each pending range, and the checkpointed file
\* from its offset (to its end, if it is rotated away).
OwedBy(cp, x) ==
    \/ x[1] = cp.inode /\ x[2] >= cp.offset
    \/ \E id \in DOMAIN cp.pending :
          /\ x[1] = cp.pending[id].inode
          /\ x[2] >= cp.pending[id].from
          /\ cp.pending[id].to < 0 \/ x[2] < cp.pending[id].to

\* No offset ever runs ahead of delivery: every line below the committed
\* offset of the tail or of a segment was delivered, permanently rejected, or
\* skipped by policy (advanceBatch, absorbSkipped).
CommittedSettled ==
    /\ inode # 0 => LinesIn(inode, 0, committed) \subseteq settled
    /\ \A id \in DOMAIN segs :
          LinesIn(segs[id].inode, 0, segs[id].committed) \subseteq settled

\* The same of what a crash resumes from: the stored checkpoint and the one a
\* restart loaded, in each of their ranges (saveCheckpoints, loadCheckpoints).
CheckpointSettled ==
    \A cp \in {saved, ckpt} :
       /\ cp.inode # 0 => LinesIn(cp.inode, 0, cp.offset) \subseteq settled
       /\ \A id \in DOMAIN cp.pending :
             LinesIn(cp.pending[id].inode, 0, cp.pending[id].from) \subseteq settled

\* Every line the process answers for is settled, counted lost, or still to
\* be read again from a source the ledger remembers.
NothingForgotten ==
    \A x \in duty \ (settled \cup lost) :
       tracked /\ OwedBy(CheckpointOf(committed, inode, tail, segs), x)

\* A restart now would read x again: the stored checkpoint owes it, or the
\* path names a file the checkpoint does not know and reads it from the start.
Recovered(x) == OwedBy(saved, x) \/ (x[1] = path /\ path # saved.inode)

\* Once the save that follows a rotation has reached the disk, a crash loses
\* nothing: every unsettled line the process answers for is read again after a
\* restart that finds the file now at the path.
Recoverable ==
    tracked /\ fd # 0 /\ path = inode /\ ~hopUnsaved /\ ~saveFailed
    => \A x \in duty \ (settled \cup lost) : Recovered(x)

\* Replays feed a line again only after its earlier copy is dropped: at any
\* time a line is in at most one entry, item or run, and each stream's
\* buffered ranges start in rotation order.
FedOnce ==
    /\ \A e, f \in batch \cup UNION {StopEntries(str[s]) : s \in Streams} :
          e # f => LinesOf(e) \cap LinesOf(f) = {}
    /\ \A s \in Streams : \A k \in 2..Len(str[s].fifo) :
          ~Less(str[s].fifo[k].start, str[s].fifo[k - 1].start)

\* Rotated files kept open are bounded however fast the log rotates.
FdsBounded == RetainedFds(segs) <= MaxCarriedFds

\* The stored offset of a file never moves backwards while the stored
\* checkpoint still names that file: a save never undoes a delivery.
StoredOffsetMonotone ==
    [][saved'.inode = saved.inode /\ saved.inode # 0 => saved'.offset >= saved.offset]_vars

\* Every line the process answers for is eventually settled or counted lost,
\* unless the process crashes first.
EventuallySettled ==
    \A i \in Inodes : \A o \in 0..(Len(Script) - 1) :
       <<i, o>> \in duty ~> (<<i, o>> \in settled \cup lost \/ <<i, o>> \notin duty)

\* initFile: the history policy is "never a licence to skip a container's
\* first lines": what is committed of the file being read was settled.
OnlyHistorySkipped == fd # 0 => LinesIn(fd, 0, committed) \subseteq settled

\* What the sweep holds is what it owes: nothing it answers for is forgotten
\* (handleRotation, feedSegments) and nothing is buffered twice (rewind, replaySegment).
LinesKept == NothingForgotten /\ FedOnce

\* What a restart resumes from never runs ahead of delivery, in memory, on disk
\* or as loaded, and never goes back (advanceBatch, saveCheckpoints).
CheckpointsSound == [](CommittedSettled /\ CheckpointSettled) /\ StoredOffsetMonotone
=============================================================================
