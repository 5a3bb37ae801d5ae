------------------------------- MODULE Ledger -------------------------------
(***************************************************************************)
(* The delivery ledger of one tailed file (internal/agent/tailer/ledger.go *)
(* and the bookkeeping half of flush.go) as pure operators.                *)
(*                                                                         *)
(* A position is <<seg, off>>: a source id (the live tail or a rotated     *)
(* segment, numbered in rotation order) and an offset within that source.  *)
(* Offsets count lines: line o of a source occupies [o, o+1).              *)
(*                                                                         *)
(* A stream's state holds the ranges the assembly stages still buffer: the *)
(* open CRI run and the fifo of completed items not yet grouped.  `lines'  *)
(* in items and entries is a history component: the lines the range was    *)
(* assembled from, as <<seg, off, inode>>.                                 *)
(***************************************************************************)
EXTENDS Integers, Sequences, FiniteSets

LOCAL INSTANCE FiniteSetsExt

\* Function f with k mapped to v.
Put(f, k, v) == [x \in DOMAIN f \cup {k} |-> IF x = k THEN v ELSE f[x]]

\* pos.less: rotation order first, then offset.
Less(p, q) == p[1] < q[1] \/ (p[1] = q[1] /\ p[2] < q[2])

MaxOf(a, b) == IF a >= b THEN a ELSE b

EmptyStream == [lastEnd |-> <<0, 0>>, hasRun |-> FALSE, runStart |-> <<0, 0>>,
                runLines |-> <<>>, fifo |-> <<>>]

Item(s, e, ls) == [start |-> s, end |-> e, lines |-> ls]

\* The lines <<inode, off>> an entry or item was assembled from.
LinesOf(e) == {<<x[3], x[2]>> : x \in e.lines}

\* What a stage holds for one stream, oldest first: the items waiting for the
\* joiner, then the open run.
BufferedStarts(st) ==
    (IF st.hasRun THEN {st.runStart} ELSE {}) \cup
    (IF st.fifo # <<>> THEN {Head(st.fifo).start} ELSE {})

\* The starts ledger.watermark folds over; it has a watermark iff not empty.
AllBuffered(str) == UNION {BufferedStarts(str[s]) : s \in DOMAIN str}

Watermark(str) ==
    CHOOSE p \in AllBuffered(str) : \A q \in AllBuffered(str) : ~Less(q, p)

\* feedLine up to the CRI stage: the line of inode i at position p joins (or
\* opens) its stream's run.
Fed(st, p, i) ==
    [st EXCEPT !.lastEnd  = <<p[1], p[2] + 1>>,
               !.hasRun   = TRUE,
               !.runStart = IF st.hasRun THEN @ ELSE p,
               !.runLines = Append(@, <<p[1], p[2], i>>)]

RunOver(st) == [st EXCEPT !.hasRun = FALSE, !.runStart = <<0, 0>>, !.runLines = <<>>]

\* criEmitFunc: an F line closes the run, which becomes one item of the
\* joiner's fifo.
RunClosed(st) ==
    [RunOver(st) EXCEPT
        !.fifo = Append(@, Item(st.runStart, st.lastEnd,
                                {st.runLines[k] : k \in 1..Len(st.runLines)}))]

\* A run no F line closed is flushed line by line: each from its own feed-time
\* position, all ending where the run ends.
RunFlushed(st) ==
    [RunOver(st) EXCEPT
        !.fifo = @ \o [k \in 1..Len(st.runLines) |->
                         Item(<<st.runLines[k][1], st.runLines[k][2]>>, st.lastEnd,
                              {st.runLines[k]})]]

\* traceEmitFunc: the joiner assembled the first n items into one entry.
Assembled(st, n) ==
    Item(st.fifo[1].start, st.fifo[n].end, UNION {st.fifo[k].lines : k \in 1..n})

Popped(st, n) == [st EXCEPT !.fifo = SubSeq(@, n + 1, Len(@))]

\* stopPipeline: every stage emits what it still buffers, the open run last.
Closed(st) == IF st.hasRun THEN RunFlushed(st) ELSE st

Stopped(st) == [Closed(st) EXCEPT !.fifo = <<>>]

StopEntries(st) == {Closed(st).fifo[k] : k \in 1..Len(Closed(st).fifo)}

\* file.fedEnd: the highest offset fed from the tail.
FedEnd(str, tail, committed) ==
    Max({committed} \cup
        {str[s].lastEnd[2] : s \in {x \in DOMAIN str : str[x].lastEnd[1] = tail}})

\* absorbSkipped: skipped lines directly past committed are committed once
\* nothing fed is outstanding.
Absorbed(str, tail, committed, skipEnd) ==
    IF skipEnd > committed /\ FedEnd(str, tail, committed) = committed
    THEN skipEnd ELSE committed

-----------------------------------------------------------------------------
\* proposeCandidates over the whole batch, folded with the highs of earlier
\* batches: the <<source, offset>> pairs a settled batch argues for.  An entry
\* that spans sources proposes the whole of each fed source it leaves behind.
Proposals(batch, segs, highs) ==
    {p \in {e.end : e \in batch}
           \cup {<<id, segs[id].to>> :
                   id \in {x \in DOMAIN segs :
                             /\ segs[x].fed
                             /\ \E e \in batch : e.start[1] <= x /\ x < e.end[1]}}
           \cup {<<id, highs[id]>> : id \in DOMAIN highs} : p[2] > 0}

Highs(props) ==
    [id \in {p[1] : p \in props} |-> Max({p[2] : p \in {q \in props : q[1] = id}})]

\* The watermark clamp of flush: a source past the oldest buffered position
\* may not advance at all, the source holding it only up to it.
Clamped(highs, str) ==
    IF AllBuffered(str) = {} THEN highs
    ELSE LET wm == Watermark(str)
         IN [id \in {x \in DOMAIN highs : ~(wm[1] < x)} |->
               IF id = wm[1] /\ wm[2] < highs[id] THEN wm[2] ELSE highs[id]]

\* advanceBatch for one source: offsets only move forward.
Advanced(cands, id, committed) ==
    IF id \in DOMAIN cands THEN MaxOf(cands[id], committed) ELSE committed

\* advanceBatch retires a bounded segment that a candidate brings to its end.
Retires(cands, id, sg) ==
    /\ id \in DOMAIN cands
    /\ cands[id] > sg.committed
    /\ sg.to >= 0
    /\ cands[id] >= sg.to

AdvancedSegs(cands, segs) ==
    [id \in {x \in DOMAIN segs : ~Retires(cands, x, segs[x])} |->
       [segs[id] EXCEPT !.committed = Advanced(cands, id, @)]]

\* exportedHighs: what was settled past the committed offset of a source that
\* still exists, so that a later batch can argue for it.
LeftoverHighs(highs, tail, committed, segs) ==
    [id \in {x \in DOMAIN highs :
               \/ x = tail /\ highs[x] > committed
               \/ x # tail /\ x \in DOMAIN segs /\ highs[x] > segs[x].committed} |->
       highs[id]]

\* purgeSegmentFeeds: every segment must be replayed from its committed offset.
Unfed(segs) == [id \in DOMAIN segs |-> [segs[id] EXCEPT !.fed = FALSE, !.fedTo = 0]]

RetainedFds(segs) == Cardinality({id \in DOMAIN segs : segs[id].fd})
=============================================================================
