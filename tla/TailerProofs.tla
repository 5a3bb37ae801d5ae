----------------------------- MODULE TailerProofs -----------------------------
(***************************************************************************)
(* Type correctness of the tailer for every script, number of streams,     *)
(* inodes, faults and crashes.  TypeOK is not inductive on its own: reopen *)
(* needs to know that a file being drained has a recorded inode, and that  *)
(* follows from how descriptor and identity move together (FdInv).         *)
(***************************************************************************)
EXTENDS Tailer, TLAPS, FiniteSetTheorems, WellFoundedInduction

LOCAL INSTANCE FiniteSetsExt

-----------------------------------------------------------------------------
(* The ledger's operators. M is a bound on every offset in play.           *)

\* A nonempty set of naturals bounded by n has a maximum, which Max denotes.
LEMMA MaxExists ==
    ASSUME NEW n \in Nat, NEW S \in SUBSET (0..n), S # {}
    PROVE  Max(S) \in S /\ \A y \in S : Max(S) >= y
<1> DEFINE D == {n - s : s \in S}
<1>1. D \in SUBSET Nat
  <2>1. \A s \in S : n - s \in Nat
    OBVIOUS
  <2> QED BY <2>1
<1>2. D # {}
  OBVIOUS
<1> HIDE DEF D
<1>3. PICK d \in D : \A e \in D : ~ (<<e, d>> \in OpToRel(<, Nat))
  BY <1>1, <1>2, NatLessThanWellFounded, WFMin
<1>4. \A e \in D : ~(e < d)
  BY <1>1, <1>3 DEF OpToRel
<1>5. PICK x \in S : d = n - x
  BY DEF D
<1>6. \A y \in S : n - y \in D
  BY DEF D
<1>7. \A y \in S : x >= y
  <2> SUFFICES ASSUME NEW y \in S PROVE x >= y
    OBVIOUS
  <2>1. ~(n - y < n - x)
    BY <1>4, <1>5, <1>6
  <2>2. x \in 0..n /\ y \in 0..n
    OBVIOUS
  <2> QED BY <2>1, <2>2
<1> QED
  BY <1>7 DEF Max

\* A nonempty set of naturals has a minimum, which Min denotes.
LEMMA MinExists ==
    ASSUME NEW S \in SUBSET Nat, S # {}
    PROVE  Min(S) \in S /\ \A y \in S : Min(S) <= y
<1>1. PICK d \in S : \A e \in S : ~ (<<e, d>> \in OpToRel(<, Nat))
  BY NatLessThanWellFounded, WFMin
<1>2. \A e \in S : ~(e < d)
  BY <1>1 DEF OpToRel
<1>3. \A e \in S : d <= e
  <2> SUFFICES ASSUME NEW e \in S PROVE d <= e
    OBVIOUS
  <2>1. e \in Nat /\ d \in Nat /\ ~(e < d)
    BY <1>2
  <2> QED BY <2>1
<1> QED
  BY <1>3 DEF Min

\* fedEnd is the committed offset or the end of some stream's last line in
\* the tail, and bounds all of them.
LEMMA FedEndBound ==
    ASSUME NEW M \in Nat, NEW sts, NEW tl, NEW com \in 0..M,
           \A s \in DOMAIN sts : sts[s].lastEnd[2] \in 0..M
    PROVE  LET end == FedEnd(sts, tl, com)
           IN  /\ end \in 0..M
               /\ end >= com
               /\ \A s \in DOMAIN sts : sts[s].lastEnd[1] = tl => sts[s].lastEnd[2] <= end
               /\ \/ end = com
                  \/ \E s \in DOMAIN sts : sts[s].lastEnd[1] = tl /\ end = sts[s].lastEnd[2]
<1> DEFINE S == {com} \cup
                {sts[s].lastEnd[2] : s \in {x \in DOMAIN sts : sts[x].lastEnd[1] = tl}}
<1>1. S \in SUBSET (0..M) /\ S # {}
  OBVIOUS
<1>2. Max(S) \in S /\ \A y \in S : Max(S) >= y
  BY <1>1, MaxExists
<1>3. FedEnd(sts, tl, com) = Max(S)
  BY DEF FedEnd
<1> QED
  BY <1>1, <1>2, <1>3

\* The watermark is the oldest buffered position: it exists as soon as
\* anything is buffered, for any number of streams.
LEMMA WatermarkOldest ==
    ASSUME NEW sts, AllBuffered(sts) \in SUBSET (Nat \X Nat), AllBuffered(sts) # {}
    PROVE  /\ Watermark(sts) \in AllBuffered(sts)
           /\ \A q \in AllBuffered(sts) : ~Less(q, Watermark(sts))
<1> DEFINE A == AllBuffered(sts)
<1> DEFINE F == {p[1] : p \in A}
<1>1. F \in SUBSET Nat /\ F # {}
  OBVIOUS
<1>2. Min(F) \in F /\ \A y \in F : Min(F) <= y
  BY <1>1, MinExists
<1> DEFINE f == Min(F)
<1> DEFINE G == {p[2] : p \in {q \in A : q[1] = f}}
<1> HIDE DEF f
<1>3. G \in SUBSET Nat /\ G # {}
  BY <1>2 DEF f
<1>4. Min(G) \in G /\ \A y \in G : Min(G) <= y
  BY <1>3, MinExists
<1>5. PICK p \in A : p[1] = f /\ p[2] = Min(G)
  BY <1>4
<1>6. \A q \in A : ~Less(q, p)
  <2> SUFFICES ASSUME NEW q \in A, Less(q, p) PROVE FALSE
    OBVIOUS
  <2>1. q[1] \in Nat /\ q[2] \in Nat /\ p[1] \in Nat /\ p[2] \in Nat
    OBVIOUS
  <2>2. p[1] <= q[1]
    BY <1>2, <1>5 DEF f
  <2>3. q[1] = p[1] /\ q[2] < p[2]
    BY <2>1, <2>2 DEF Less
  <2>4. q[2] \in G
    BY <2>3, <1>5
  <2>5. Min(G) <= q[2]
    BY <2>4, <1>4
  <2> QED
    BY <2>1, <2>3, <2>5, <1>5
<1> QED
  BY <1>5, <1>6 DEF Watermark

-----------------------------------------------------------------------------
(* The tailer.                                                             *)

\* An open descriptor belongs to a tracked file with a recorded identity, and
\* a rotation is only handled for such a file.
FdInv ==
    /\ fd # 0 => tracked /\ inode # 0
    /\ pc \in {"drain", "drained", "aborted"} => inode # 0

TypeInv == TypeOK /\ FdInv

\* The number of lines the container writes is a natural number.
LEMMA ScriptLength == Len(Script) \in Nat
BY ScriptAssumption

-----------------------------------------------------------------------------
(* Typing of the ledger's operators.                                       *)

\* Feeding a line keeps a stream's state well typed.
LEMMA FedType ==
    ASSUME NEW st \in StreamType, NEW p \in Pos, p[2] + 1 \in Off, NEW i \in Inodes
    PROVE  Fed(st, p, i) \in StreamType
<1>1. p = <<p[1], p[2]>> /\ p[1] \in Nat /\ p[2] \in Off
  BY DEF Pos
<1>2. <<p[1], p[2] + 1>> \in Pos
  BY <1>1 DEF Pos
<1>3. <<p[1], p[2], i>> \in LineIds
  BY <1>1 DEF LineIds
<1>4. Append(st.runLines, <<p[1], p[2], i>>) \in Seq(LineIds)
  BY <1>3 DEF StreamType
<1> QED
  BY <1>2, <1>4 DEF Fed, StreamType

\* Closing a run, or flushing it line by line, keeps a stream's state well typed.
LEMMA RunClosedType ==
    ASSUME NEW st \in StreamType
    PROVE  RunClosed(st) \in StreamType /\ RunFlushed(st) \in StreamType
<1> DEFINE whole == Item(st.runStart, st.lastEnd, {st.runLines[k] : k \in 1..Len(st.runLines)})
<1> DEFINE part(k) == Item(<<st.runLines[k][1], st.runLines[k][2]>>, st.lastEnd, {st.runLines[k]})
<1> DEFINE parts == [k \in 1..Len(st.runLines) |-> part(k)]
<1>1. <<0, 0>> \in Pos
  BY ScriptLength DEF Pos, Off
<1>2. st.runLines \in Seq(LineIds) /\ Len(st.runLines) \in Nat /\ st.fifo \in Seq(ItemType)
  BY DEF StreamType
<1>3. \A k \in 1..Len(st.runLines) : st.runLines[k] \in LineIds
  BY <1>2
<1>4. RunOver(st) \in StreamType /\ RunOver(st).fifo = st.fifo
  <2>1. <<>> \in Seq(LineIds)
    OBVIOUS
  <2>2. ASSUME NEW e \in Seq(LineIds), NEW z \in Pos
        PROVE  LET r == [st EXCEPT !.hasRun = FALSE, !.runStart = z, !.runLines = e]
               IN  r \in StreamType /\ r.fifo = st.fifo
    BY DEF StreamType
  <2> QED
    BY <1>1, <2>1, <2>2 DEF RunOver
<1>5. ASSUME NEW c \in StreamType, NEW q \in Seq(ItemType)
      PROVE  [c EXCEPT !.fifo = q] \in StreamType
  BY DEF StreamType
<1>6. whole \in ItemType
  BY <1>3 DEF StreamType, ItemType, Item
<1>7. Append(st.fifo, whole) \in Seq(ItemType)
  BY <1>2, <1>6
<1>8. ASSUME NEW k \in 1..Len(st.runLines) PROVE part(k) \in ItemType
  BY <1>3 DEF StreamType, ItemType, Item, LineIds, Pos
<1>9. parts \in [1..Len(st.runLines) -> ItemType]
  BY <1>8
<1>10. parts \in Seq(ItemType)
  <2>1. ASSUME NEW n \in Nat, NEW f \in [1..n -> ItemType] PROVE f \in Seq(ItemType)
    OBVIOUS
  <2> QED
    BY ONLY <1>2, <1>9, <2>1
<1>11. st.fifo \o parts \in Seq(ItemType)
  BY <1>2, <1>10
<1>12. RunClosed(st) = [RunOver(st) EXCEPT !.fifo = Append(st.fifo, whole)]
  BY <1>4 DEF RunClosed
<1>13. RunFlushed(st) = [RunOver(st) EXCEPT !.fifo = st.fifo \o parts]
  BY <1>4 DEF RunFlushed
<1> HIDE DEF whole, parts
<1> QED
  BY <1>4, <1>5, <1>7, <1>11, <1>12, <1>13

\* An assembled entry is well typed, and so is what is left of its stream.
LEMMA AssembledType ==
    ASSUME NEW st \in StreamType, NEW n \in 1..Len(st.fifo)
    PROVE  Assembled(st, n) \in ItemType /\ Popped(st, n) \in StreamType
<1>1. st.fifo \in Seq(ItemType) /\ Len(st.fifo) \in Nat
  BY DEF StreamType
<1>2. \A k \in 1..n : st.fifo[k] \in ItemType
  BY <1>1
<1>3. UNION {st.fifo[k].lines : k \in 1..n} \in SUBSET LineIds
  BY <1>2 DEF ItemType
<1>4. st.fifo[1].start \in Pos /\ st.fifo[n].end \in Pos
  BY <1>2 DEF ItemType
<1>5. Assembled(st, n) \in ItemType
  BY <1>3, <1>4 DEF Assembled, Item, ItemType
<1>6. SubSeq(st.fifo, n + 1, Len(st.fifo)) \in Seq(ItemType)
  BY <1>1
<1>7. Popped(st, n) \in StreamType
  BY <1>6 DEF Popped, StreamType
<1> QED
  BY <1>5, <1>7

\* Stopping the stages leaves well typed streams and entries.
LEMMA StoppedType ==
    ASSUME NEW st \in StreamType
    PROVE  Stopped(st) \in StreamType /\ StopEntries(st) \subseteq ItemType
<1>1. Closed(st) \in StreamType
  BY RunClosedType DEF Closed
<1>2. [Closed(st) EXCEPT !.fifo = <<>>] \in StreamType
  <2>1. <<>> \in Seq(ItemType)
    OBVIOUS
  <2>2. ASSUME NEW c \in StreamType, NEW q \in Seq(ItemType)
        PROVE  [c EXCEPT !.fifo = q] \in StreamType
    BY DEF StreamType
  <2> QED
    BY <1>1, <2>1, <2>2
<1>3. Closed(st).fifo \in Seq(ItemType)
  BY <1>1 DEF StreamType
<1>4. \A k \in 1..Len(Closed(st).fifo) : Closed(st).fifo[k] \in ItemType
  BY <1>3
<1>5. Stopped(st) \in StreamType
  BY <1>2 DEF Stopped
<1>6. StopEntries(st) \subseteq ItemType
  BY <1>4 DEF StopEntries
<1> QED
  BY <1>5, <1>6

\* The initial state of the streams is well typed.
LEMMA NewStreamsType == NewStreams \in [Streams -> StreamType]
<1>1. <<0, 0>> \in Pos
  BY ScriptLength DEF Pos, Off
<1>2. EmptyStream \in StreamType
  BY <1>1 DEF EmptyStream, StreamType
<1> QED
  BY <1>2 DEF NewStreams

\* Everything buffered is a position.
LEMMA BufferedType ==
    ASSUME NEW st \in StreamType
    PROVE  BufferedStarts(st) \subseteq Pos
<1>1. st.fifo # <<>> => Head(st.fifo) \in ItemType
  BY DEF StreamType
<1>2. st.fifo # <<>> => Head(st.fifo).start \in Pos
  BY <1>1 DEF ItemType
<1>3. st.runStart \in Pos
  BY DEF StreamType
<1> QED
  BY <1>2, <1>3 DEF BufferedStarts

\* A function of ledger ids stays one when an id is added.
LEMMA PutType ==
    ASSUME NEW T, NEW f, Ledgered(f, T), NEW k \in Nat, NEW v \in T
    PROVE  Ledgered(Put(f, k, v), T)
BY DEF Put, Ledgered

\* The proposals of a batch are positions, and their maxima are offsets.
LEMMA HighsType ==
    ASSUME LedgerType
    PROVE  Ledgered(Highs(Proposals(batch, segs, highs)), Off)
<1> DEFINE props == Proposals(batch, segs, highs)
<1>1. props \subseteq Pos
  <2>1. \A e \in batch : e.end \in Pos
    BY DEF LedgerType, ItemType
  <2>2. \A id \in DOMAIN segs : id \in Nat /\ segs[id].to \in Off \cup {-1}
    BY DEF LedgerType, Ledgered, SegmentType
  <2>3. \A id \in DOMAIN highs : id \in Nat /\ highs[id] \in Off
    BY DEF LedgerType, Ledgered
  <2>4. \A id \in DOMAIN segs : <<id, segs[id].to>>[2] > 0 => <<id, segs[id].to>> \in Pos
    BY <2>2 DEF Pos, Off
  <2>5. \A id \in DOMAIN highs : <<id, highs[id]>> \in Pos
    BY <2>3 DEF Pos
  <2> QED
    BY <2>1, <2>4, <2>5 DEF Proposals
<1> HIDE DEF props
<1>2. \A p \in props : p[1] \in Nat /\ p[2] \in 0..Len(Script)
  BY <1>1 DEF Pos, Off
<1>3. ASSUME NEW id \in {p[1] : p \in props}
      PROVE  Max({p[2] : p \in {q \in props : q[1] = id}}) \in Off
  <2> DEFINE S == {p[2] : p \in {q \in props : q[1] = id}}
  <2>1. S \in SUBSET (0..Len(Script)) /\ S # {}
    BY <1>2
  <2> HIDE DEF S
  <2>2. Max(S) \in S
    BY <2>1, MaxExists, ScriptLength
  <2> QED
    BY <2>1, <2>2 DEF S, Off
<1> QED
  BY <1>2, <1>3 DEF Highs, Ledgered, props

\* The watermark clamp yields offsets.
LEMMA ClampedType ==
    ASSUME str \in [Streams -> StreamType], NEW hs, Ledgered(hs, Off)
    PROVE  Ledgered(Clamped(hs, str), Off)
<1>1. AllBuffered(str) \subseteq Pos
  BY BufferedType DEF AllBuffered
<1>2. AllBuffered(str) # {} => Watermark(str) \in Pos
  <2>1. AllBuffered(str) \in SUBSET (Nat \X Nat)
    BY <1>1 DEF Pos, Off
  <2> QED
    BY <1>1, <2>1, WatermarkOldest
<1>3. AllBuffered(str) # {} => Watermark(str)[2] \in Off
  BY <1>2 DEF Pos
<1> QED
  BY <1>3 DEF Clamped, Ledgered

\* Retiring and advancing segments keeps the rest well typed.
LEMMA AdvancedSegsType ==
    ASSUME Ledgered(segs, SegmentType), NEW cands, Ledgered(cands, Off)
    PROVE  Ledgered(AdvancedSegs(cands, segs), SegmentType)
<1>1. ASSUME NEW id \in DOMAIN segs
      PROVE  [segs[id] EXCEPT !.committed = Advanced(cands, id, @)] \in SegmentType
  <2>1. segs[id] \in SegmentType /\ segs[id].committed \in Off
    BY DEF Ledgered, SegmentType
  <2>2. Advanced(cands, id, segs[id].committed) \in Off
    BY <2>1 DEF Advanced, MaxOf, Ledgered
  <2> QED
    BY <2>1, <2>2 DEF SegmentType
<1> QED
  BY <1>1 DEF AdvancedSegs, Ledgered

\* Marking every segment unfed keeps them well typed.
LEMMA UnfedType ==
    ASSUME NEW sg, Ledgered(sg, SegmentType)
    PROVE  Ledgered(Unfed(sg), SegmentType)
<1>1. 0 \in Off
  BY ScriptLength DEF Off
<1>2. \A id \in DOMAIN sg : [sg[id] EXCEPT !.fed = FALSE, !.fedTo = 0] \in SegmentType
  BY <1>1 DEF Ledgered, SegmentType
<1> QED
  BY <1>2 DEF Unfed, Ledgered

\* Feeding a line keeps the streams well typed.
LEMMA FeedLineType ==
    ASSUME str \in [Streams -> StreamType], NEW i \in Inodes, NEW p \in Pos,
           p[2] + 1 \in Off, NEW l \in Line, FeedLine(i, p, l)
    PROVE  str' \in [Streams -> StreamType]
<1>1. l.stream \in Streams
  BY DEF Line
<1>2. Fed(str[l.stream], p, i) \in StreamType
  BY <1>1, FedType
<1>3. RunClosed(Fed(str[l.stream], p, i)) \in StreamType
  BY <1>2, RunClosedType
<1> QED
  BY <1>2, <1>3 DEF FeedLine

\* A line of a typed file lies at an offset.
LEMMA ContentType ==
    ASSUME FsType, NEW i \in Inodes
    PROVE  /\ Len(content[i]) \in Off
           /\ \A o \in Nat : o < Len(content[i]) =>
                 /\ content[i][o + 1] \in Line
                 /\ o \in Off /\ o + 1 \in Off
<1>1. content[i] \in Seq(Line)
  BY DEF FsType
<1>2. Len(content[i]) \in Nat /\ Len(content[i]) <= written /\ written \in 0..Len(Script)
  BY <1>1 DEF FsType, Off
<1>3. \A o \in Nat : o < Len(content[i]) => content[i][o + 1] \in Line
  BY <1>1, <1>2
<1> QED
  BY <1>2, <1>3, ScriptLength DEF Off

\* A stored checkpoint of typed state is typed.
LEMMA CheckpointOfType ==
    ASSUME NEW c \in Off, NEW i \in Inodes \cup {0}, NEW t \in Nat,
           NEW sg, Ledgered(sg, SegmentType)
    PROVE  CheckpointType(CheckpointOf(c, i, t, sg))
<1>1. \A id \in DOMAIN sg :
         [inode |-> sg[id].inode, from |-> sg[id].committed, to |-> sg[id].to] \in RangeType
  BY DEF Ledgered, SegmentType, RangeType
<1> QED
  BY <1>1 DEF CheckpointOf, CheckpointType, Ledgered

\* A save, successful or not, leaves the positions file well typed.
LEMMA SaveToType ==
    ASSUME DiskType, CheckpointType(ckpt), NEW c \in Off, NEW i \in Inodes \cup {0},
           NEW t \in Nat, NEW sg, Ledgered(sg, SegmentType), SaveTo(c, i, t, sg), crashes' = crashes
    PROVE  DiskType'
<1>1. CheckpointType(CheckpointOf(c, i, t, sg))
  BY CheckpointOfType
<1>2. CheckpointType(saved') /\ saveFailed' \in BOOLEAN
  BY <1>1 DEF SaveTo, DiskType
<1>3. faults' \in 0..MaxFaults
  BY BoundsAssumption DEF SaveTo, DiskType
<1> QED
  BY <1>2, <1>3 DEF DiskType

\* The same for a noted hop.
LEMMA NoteHopType ==
    ASSUME DiskType, CheckpointType(ckpt), NEW c \in Off, NEW i \in Inodes \cup {0},
           NEW t \in Nat, NEW sg, Ledgered(sg, SegmentType), NoteHop(c, i, t, sg), crashes' = crashes
    PROVE  DiskType' /\ hopUnsaved' \in BOOLEAN
<1>1. CASE hopUnsaved
  <2>1. SaveTo(c, i, t, sg)
    BY <1>1 DEF NoteHop
  <2> QED
    BY <2>1, SaveToType DEF NoteHop
<1>2. CASE ~hopUnsaved
  BY <1>2 DEF NoteHop, DiskType, diskVars
<1> QED
  BY <1>1, <1>2

\* What is left of a segment are lines of its file.
LEMMA RemainderType ==
    ASSUME FsType, NEW sg \in SegmentType
    PROVE  Remainder(sg) \subseteq Inodes \X Off
<1>1. sg.inode \in Inodes /\ sg.committed \in Off /\ sg.to \in Off \cup {-1}
  BY DEF SegmentType
<1>2. SegEnd(sg) \in Off
  BY <1>1, ContentType DEF SegEnd, Off
<1>3. sg.committed..(SegEnd(sg) - 1) \subseteq Off
  BY <1>1, <1>2, ScriptLength DEF Off
<1> QED
  BY <1>1, <1>3 DEF Remainder, LinesIn

\* Lines between two offsets of a file.
LEMMA LinesInType ==
    ASSUME NEW i \in Inodes, NEW a \in Off, NEW b \in Off
    PROVE  LinesIn(i, a, b) \subseteq Inodes \X Off
<1>1. a..(b - 1) \subseteq Off
  BY ScriptLength DEF Off
<1> QED
  BY <1>1 DEF LinesIn

\* A pass moves on to a segment at one of its offsets.
LEMMA NextSegmentType ==
    ASSUME NEW sg, Ledgered(sg, SegmentType), NEW id \in Nat, NextSegment(sg, id),
           segmentsFed \in BOOLEAN
    PROVE  /\ pc' \in {"sweep", "replay", "gone", "settle"}
           /\ feeding' \in Nat /\ cur' \in Off /\ segmentsFed' \in BOOLEAN
<1> DEFINE later == {x \in DOMAIN sg : x > id}
<1>1. later \in SUBSET Nat
  BY DEF Ledgered
<1>2. CASE later = {}
  <2>1. 0 \in Off
    BY ScriptLength DEF Off
  <2>2. pc' = AfterPass(sg, TRUE) /\ feeding' = 0 /\ cur' = 0 /\ segmentsFed' = TRUE
    BY <1>2 DEF NextSegment
  <2>3. AfterPass(sg, TRUE) \in {"sweep", "gone", "settle"}
    BY DEF AfterPass
  <2> QED
    BY <2>1, <2>2, <2>3
<1>3. CASE later # {}
  <2>1. Min(later) \in later
    BY <1>1, <1>3, MinExists
  <2> DEFINE next == Min(later)
  <2>2. next \in DOMAIN sg /\ next \in Nat
    BY <1>1, <2>1
  <2>3. pc' = "replay" /\ feeding' = next /\ cur' = ReplayFrom(sg[next])
        /\ segmentsFed' = segmentsFed
    BY <1>3 DEF NextSegment
  <2> HIDE DEF next
  <2>4. ReplayFrom(sg[next]) \in Off
    BY <2>2 DEF ReplayFrom, MaxOf, Ledgered, SegmentType
  <2> QED
    BY <2>2, <2>3, <2>4
<1> QED
  BY <1>2, <1>3

-----------------------------------------------------------------------------
(* TypeInv is preserved by every action.                                   *)

\* The initial states satisfy the invariant.
LEMMA InitType == Init => TypeInv
<1> SUFFICES ASSUME Init PROVE TypeInv
  OBVIOUS
<1>1. 0 \in Off
  BY ScriptLength DEF Off
<1>2. FsType
  <2>1. content \in [Inodes -> Seq(Line)]
    BY DEF Init
  <2>2. \A i \in Inodes : Len(content[i]) = 0
    BY DEF Init
  <2>3. 1 \in Inodes
    BY BoundsAssumption DEF Inodes
  <2> QED
    BY <1>1, <2>1, <2>2, <2>3 DEF Init, FsType
<1>3. DiskType
  <2>1. 0 \in 0..MaxFaults /\ 0 \in 0..MaxCrashes
    BY BoundsAssumption
  <2> QED
    BY <2>1 DEF Init, DiskType, CheckpointType
<1>4. AgentType
  BY DEF Init, AgentType, CheckpointType
<1>5. OffsetType
  BY <1>1 DEF Init, OffsetType
<1>6. LedgerType
  BY NewStreamsType DEF Init, LedgerType, Ledgered, EmptyFn
<1>7. HistoryType
  BY DEF Init, HistoryType
<1>8. FdInv
  BY DEF Init, FdInv
<1> QED
  BY <1>2, <1>3, <1>4, <1>5, <1>6, <1>7, <1>8 DEF TypeInv, TypeOK

\* The runtime only touches the file system.
LEMMA RuntimeType == ASSUME TypeInv, RuntimeStep PROVE TypeInv'
<1> USE DEF TypeInv, TypeOK
<1>1. FsType'
  <2>1. CASE WriteLine
    <3> DEFINE l == Script[written + 1]
    <3>1. l \in Line /\ written + 1 \in Off
      BY <2>1, ScriptAssumption, ScriptLength DEF WriteLine, FsType, Off
    <3> HIDE DEF l
    <3>2. made \in Inodes /\ content[made] \in Seq(Line)
      BY DEF FsType
    <3>3. content' = [content EXCEPT ![made] = Append(content[made], l)]
      BY <2>1 DEF WriteLine, l
    <3>4. Append(content[made], l) \in Seq(Line)
          /\ Len(Append(content[made], l)) = Len(content[made]) + 1
      BY <3>1, <3>2
    <3>5. content' \in [Inodes -> Seq(Line)]
      BY <3>3, <3>4 DEF FsType
    <3>6. \A i \in Inodes : Len(content'[i]) <= written + 1
      <4> SUFFICES ASSUME NEW i \in Inodes PROVE Len(content'[i]) <= written + 1
        OBVIOUS
      <4>1. Len(content[i]) \in Nat /\ Len(content[i]) <= written /\ written \in Nat
        BY DEF FsType, Off
      <4> QED
        BY <3>2, <3>3, <3>4, <4>1 DEF FsType
    <3> QED
      BY <2>1, <3>1, <3>5, <3>6 DEF WriteLine, FsType
  <2>2. CASE RenameLog
    BY <2>2 DEF RenameLog, FsType
  <2>3. CASE CreateLog
    <3>1. made + 1 \in Inodes
      BY <2>3, BoundsAssumption DEF CreateLog, FsType, Inodes
    <3> QED
      BY <2>3, <3>1 DEF CreateLog, FsType
  <2>4. CASE \E i \in Inodes : PruneRotated(i)
    BY <2>4 DEF PruneRotated, FsType
  <2> QED
    BY <2>1, <2>2, <2>3, <2>4 DEF RuntimeStep
<1>2. UNCHANGED <<diskVars, agentVars, histVars, budget>>
  BY DEF RuntimeStep, WriteLine, RenameLog, CreateLog, PruneRotated
<1>3. DiskType' /\ AgentType' /\ OffsetType' /\ LedgerType' /\ HistoryType'
  BY <1>2 DEF agentVars, diskVars, histVars, budget, idVars, posVars, segVars, goneVars, pcVars,
              DiskType, AgentType, OffsetType, LedgerType, HistoryType
<1>4. FdInv'
  BY <1>2 DEF agentVars, idVars, pcVars, FdInv
<1> QED
  BY <1>1, <1>3, <1>4

\* A step of SaveCheckpoints keeps the invariant.
LEMMA SaveCheckpointsType == ASSUME TypeInv, SaveCheckpoints PROVE TypeInv'
<1> USE DEF TypeInv, TypeOK
<1>1. DiskType'
  BY SaveToType DEF SaveCheckpoints, AgentType, OffsetType, LedgerType
<1>2. saveFailed' \in BOOLEAN
  BY <1>1 DEF DiskType
<1>3. AgentType'
  BY <1>2 DEF SaveCheckpoints, AgentType, idVars, goneVars, pcVars
<1>4. FsType' /\ OffsetType' /\ LedgerType' /\ HistoryType' /\ FdInv'
  BY DEF SaveCheckpoints, fsVars, idVars, posVars, segVars, goneVars, pcVars, histVars,
         FsType, OffsetType, LedgerType, HistoryType, FdInv
<1> QED
  BY <1>1, <1>3, <1>4

\* A step of Discover keeps the invariant.
LEMMA DiscoverType == ASSUME TypeInv, Discover PROVE TypeInv'
<1> USE DEF TypeInv, TypeOK
<1>0. 0 \in Off
  BY ScriptLength DEF Off
<1>1. path \in Inodes /\ Len(content[path]) \in Off
  BY ContentType DEF Discover, FsType
<1>2. /\ Ledgered(segs', SegmentType) /\ tail' \in Nat
      /\ committed' \in Off /\ inode' \in Inodes \cup {0}
      /\ settled' \subseteq Inodes \X Off /\ duty' \subseteq Inodes \X Off
  <2>1. CASE ResumeFile
    <3>1. /\ ckpt.offset \in Off /\ ckpt.inode \in Inodes \cup {0}
          /\ ckpt.tail \in Nat /\ Ledgered(ckpt.pending, RangeType)
      BY <2>1 DEF ResumeFile, AgentType, CheckpointType
    <3> DEFINE ranges == IF ckpt.inode # 0 /\ path # ckpt.inode
                         THEN Put(ckpt.pending, ckpt.tail,
                                  [inode |-> ckpt.inode, from |-> ckpt.offset, to |-> -1])
                         ELSE ckpt.pending
    <3>2. Ledgered(ranges, RangeType)
      <4>1. ckpt.inode # 0 =>
              [inode |-> ckpt.inode, from |-> ckpt.offset, to |-> -1] \in RangeType
        BY <3>1 DEF RangeType
      <4> QED
        BY <3>1, <4>1, PutType
    <3>3. Restored(ckpt) =
            [id \in DOMAIN ranges |->
               [inode |-> ranges[id].inode, committed |-> ranges[id].from,
                to |-> ranges[id].to, fed |-> FALSE, fedTo |-> 0, fd |-> FALSE]]
      BY DEF Restored
    <3> HIDE DEF ranges
    <3>4. Ledgered(segs', SegmentType)
      BY <2>1, <3>2, <3>3, <1>0 DEF ResumeFile, Ledgered, RangeType, SegmentType
    <3>5. \A id \in DOMAIN segs' : Remainder(segs'[id]) \subseteq Inodes \X Off
      BY <3>4, RemainderType DEF Ledgered
    <3>6. duty' \subseteq Inodes \X Off
      BY <2>1, <3>5 DEF ResumeFile
    <3>7. tail' \in Nat /\ committed' \in Off /\ inode' \in Inodes \cup {0}
          /\ settled' = settled
      BY <2>1, <3>1, <1>0 DEF ResumeFile
    <3> QED
      BY <3>4, <3>6, <3>7 DEF HistoryType
  <2>2. CASE UnknownFile
    <3>1. committed' \in Off
      BY <2>2, <1>0, <1>1 DEF UnknownFile
    <3>2. LinesIn(path, 0, committed') \subseteq Inodes \X Off
      BY <1>0, <1>1, <3>1, LinesInType
    <3> QED
      BY <2>2, <3>1, <3>2 DEF UnknownFile, HistoryType, Ledgered, EmptyFn
  <2> QED
    BY <2>1, <2>2 DEF Discover
<1>3. DiskType'
  <2>1. CheckpointType(CheckpointOf(committed', inode', tail', segs'))
    BY <1>2, CheckpointOfType
  <2> QED
    BY <2>1 DEF Discover, DiskType, budget
<1>4. AgentType'
  BY <1>2 DEF Discover, AgentType, CheckpointType, goneVars, pcVars
<1>5. OffsetType'
  BY <1>2 DEF Discover, OffsetType, goneVars, pcVars
<1>6. LedgerType'
  BY <1>2, NewStreamsType DEF Discover, LedgerType
<1>7. HistoryType'
  BY <1>2 DEF Discover, HistoryType
<1>8. FsType' /\ FdInv'
  BY DEF Discover, FsType, FdInv, fsVars, pcVars
<1> QED
  BY <1>3, <1>4, <1>5, <1>6, <1>7, <1>8

\* A step of ListNothing keeps the invariant.
LEMMA ListNothingType == ASSUME TypeInv, ListNothing PROVE TypeInv'
BY DEF TypeInv, CheckpointType, TypeOK, ListNothing, fsVars, diskVars, posVars, segVars, goneVars, pcVars,
       histVars, budget, FsType, DiskType, AgentType, OffsetType, LedgerType, HistoryType, FdInv

\* A step of EnsureOpen keeps the invariant.
LEMMA EnsureOpenType == ASSUME TypeInv, EnsureOpen PROVE TypeInv'
<1> USE DEF TypeInv, TypeOK
<1>0. 0 \in Off
  BY ScriptLength DEF Off
<1>1. path \in Inodes
  BY DEF EnsureOpen, FsType
<1>2. /\ tail' \in Nat /\ committed' \in Off /\ readPos' \in Off /\ skipEnd' \in Off
      /\ goneEnd' \in Off /\ goneDrained' \in BOOLEAN
  <2>1. CASE OpenSame
    BY <2>1, <1>0 DEF EnsureOpen, OpenSame, OffsetType, AgentType
  <2>2. CASE OpenTruncated \/ OpenReplaced
    <3>1. BeginIncarnation
      BY <2>2 DEF OpenTruncated, OpenReplaced
    <3>2. tail' = tail + 1 /\ committed' = 0 /\ readPos' = 0 /\ skipEnd' = 0 /\ goneEnd' = 0
      BY <3>1 DEF BeginIncarnation
    <3>3. goneDrained' \in BOOLEAN
      BY <3>1 DEF BeginIncarnation
    <3> QED
      BY <3>2, <3>3, <1>0 DEF OffsetType
  <2> QED
    BY <2>1, <2>2 DEF EnsureOpen
<1> DEFINE old == [inode |-> inode, committed |-> committed, to |-> -1,
                   fed |-> FALSE, fedTo |-> 0, fd |-> FALSE]
<1>3. inode # 0 => Ledgered(Put(segs, tail, old), SegmentType)
  <2>1. inode # 0 => old \in SegmentType
    BY <1>0 DEF AgentType, OffsetType, SegmentType
  <2> QED
    BY <2>1, PutType DEF LedgerType, OffsetType
<1> HIDE DEF old
<1>4. LedgerType'
  <2>1. CASE OpenSame
    BY <2>1 DEF EnsureOpen, OpenSame, LedgerType, segVars
  <2>2. CASE OpenTruncated
    BY <2>2, UnfedType, NewStreamsType
       DEF EnsureOpen, OpenTruncated, FreshPipeline, LedgerType, Ledgered, EmptyFn
  <2>3. CASE OpenReplaced
    <3>1. Ledgered(Unfed(Put(segs, tail, old)), SegmentType)
      BY <2>3, <1>3, UnfedType DEF OpenReplaced
    <3>2. segs' = Unfed(Put(segs, tail, old)) /\ segmentsFed' = FALSE
          /\ highs' = EmptyFn /\ str' = NewStreams
      BY <2>3 DEF OpenReplaced, FreshPipeline, old
    <3> QED
      BY <3>1, <3>2, NewStreamsType DEF EnsureOpen, LedgerType, Ledgered, EmptyFn
  <2> QED
    BY <2>1, <2>2, <2>3 DEF EnsureOpen
<1>5. DiskType' /\ hopUnsaved' \in BOOLEAN
  <2>1. CASE OpenReplaced
    <3>1. NoteHop(0, path, tail', segs') /\ crashes' = crashes
      BY <2>1 DEF OpenReplaced, EnsureOpen
    <3> QED
      BY <3>1, <1>0, <1>1, <1>2, <1>4, NoteHopType DEF AgentType, LedgerType
  <2>2. CASE OpenSame \/ OpenTruncated
    BY <2>2 DEF OpenSame, OpenTruncated, EnsureOpen, DiskType, diskVars, AgentType
  <2> QED
    BY <2>1, <2>2 DEF EnsureOpen
<1>6. HistoryType'
  <2>1. CASE OpenReplaced
    <3>1. inode \in Inodes
      BY <2>1 DEF OpenReplaced, AgentType
    <3>2. LinesIn(inode, 0, Len(content[inode])) \subseteq Inodes \X Off
      BY <3>1, <1>0, ContentType, LinesInType
    <3> QED
      BY <2>1, <3>2 DEF OpenReplaced, EnsureOpen, HistoryType
  <2>2. CASE OpenSame \/ OpenTruncated
    BY <2>2 DEF OpenSame, OpenTruncated, EnsureOpen, HistoryType
  <2> QED
    BY <2>1, <2>2 DEF EnsureOpen
<1>7. AgentType'
  BY <1>1, <1>2, <1>5 DEF EnsureOpen, AgentType, pcVars
<1>8. OffsetType'
  BY <1>2 DEF EnsureOpen, OffsetType, pcVars
<1>9. FsType' /\ FdInv'
  BY <1>1, BoundsAssumption DEF EnsureOpen, FsType, FdInv, fsVars, pcVars, Inodes
<1> QED
  BY <1>4, <1>5, <1>6, <1>7, <1>8, <1>9

\* A step of CloseIdle keeps the invariant.
LEMMA CloseIdleType == ASSUME TypeInv, CloseIdle PROVE TypeInv'
BY DEF TypeInv, TypeOK, CloseIdle, fsVars, diskVars, posVars, segVars, goneVars, pcVars,
       histVars, budget, FsType, DiskType, AgentType, OffsetType, LedgerType, HistoryType, FdInv

\* A step of ReadLine keeps the invariant.
LEMMA ReadLineType == ASSUME TypeInv, ReadLine PROVE TypeInv'
<1> USE DEF TypeInv, TypeOK
<1>1. fd \in Inodes /\ readPos \in Nat /\ readPos < Len(content[fd])
  BY ScriptLength DEF ReadLine, HasNext, AgentType, OffsetType, Off
<1>2. NextLine \in Line /\ readPos + 1 \in Off
  BY <1>1, ContentType DEF NextLine
<1>3. <<fd, readPos>> \in Inodes \X Off
  BY <1>1 DEF OffsetType
<1>4. str' \in [Streams -> StreamType]
  <2>1. CASE ConsumeFed
    <3>1. <<tail, readPos>> \in Pos
      BY DEF OffsetType, Pos
    <3> QED
      BY <2>1, <3>1, <1>1, <1>2, FeedLineType DEF ConsumeFed, LedgerType
  <2>2. CASE ConsumeSkipped
    BY <2>2 DEF ConsumeSkipped, LedgerType
  <2> QED
    BY <2>1, <2>2 DEF ReadLine
<1>5. committed' \in Off /\ skipEnd' \in Off /\ settled' \subseteq Inodes \X Off
  BY <1>2, <1>3 DEF ReadLine, ConsumeFed, ConsumeSkipped, Absorbed, OffsetType, HistoryType
<1>6. OffsetType'
  BY <1>2, <1>5 DEF ReadLine, OffsetType, idVars, goneVars
<1>7. AgentType'
  BY DEF ReadLine, AgentType, idVars, goneVars
<1>8. HistoryType'
  BY <1>3, <1>5 DEF ReadLine, HistoryType
<1>9. LedgerType'
  BY <1>4 DEF ReadLine, LedgerType, segVars
<1>10. FsType' /\ DiskType'
  BY DEF ReadLine, FsType, DiskType, fsVars, diskVars, budget
<1>11. FdInv'
  BY <1>1 DEF ReadLine, FdInv, idVars, AgentType
<1> QED
  BY <1>6, <1>7, <1>8, <1>9, <1>10, <1>11

\* A step of Stage keeps the invariant.
LEMMA StageType == ASSUME TypeInv, StageStep PROVE TypeInv'
<1> USE DEF TypeInv, TypeOK
<1>1. str' \in [Streams -> StreamType] /\ batch' \subseteq ItemType
  <2>1. ASSUME NEW s \in Streams, RunCloses(s)
        PROVE  str' \in [Streams -> StreamType] /\ batch' \subseteq ItemType
    <3>1. RunFlushed(str[s]) \in StreamType
      BY RunClosedType DEF LedgerType
    <3> QED
      BY <2>1, <3>1 DEF RunCloses, LedgerType
  <2>2. ASSUME NEW s \in Streams, NEW n \in 1..Len(Script), EntryEmitted(s, n)
        PROVE  str' \in [Streams -> StreamType] /\ batch' \subseteq ItemType
    <3>1. Assembled(str[s], n) \in ItemType /\ Popped(str[s], n) \in StreamType
      BY <2>2, AssembledType DEF EntryEmitted, LedgerType
    <3> QED
      BY <2>2, <3>1 DEF EntryEmitted, LedgerType
  <2> QED
    BY <2>1, <2>2 DEF StageStep
<1>2. UNCHANGED <<fsVars, diskVars, up, idVars, posVars, segVars, highs, hopUnsaved,
                  goneVars, idleClosed, pcVars, histVars, budget>>
  BY DEF StageStep, RunCloses, EntryEmitted
<1> QED
  BY <1>1, <1>2 DEF fsVars, diskVars, idVars, posVars, segVars, goneVars, pcVars,
       histVars, budget, FsType, DiskType, AgentType, OffsetType, LedgerType, HistoryType, FdInv

\* A step of Flush keeps the invariant.
LEMMA FlushType == ASSUME TypeInv, Flush PROVE TypeInv'
<1> USE DEF TypeInv, TypeOK
<1>0. 0 \in Off
  BY ScriptLength DEF Off
<1>1. BatchLines \subseteq Inodes \X Off
  <2>1. ASSUME NEW e \in batch, NEW x \in e.lines PROVE <<x[3], x[2]>> \in Inodes \X Off
    <3>1. e.lines \subseteq LineIds
      BY DEF LedgerType, ItemType
    <3>2. x \in LineIds
      BY <3>1
    <3> QED
      BY <3>2 DEF LineIds
  <2> QED
    BY <2>1 DEF BatchLines, LinesOf
<1>2. CASE AdvanceBatch
  <2> DEFINE all   == Highs(Proposals(batch, segs, highs))
  <2> DEFINE cands == Clamped(all, str)
  <2> DEFINE c     == Advanced(cands, tail, committed)
  <2>1. Ledgered(all, Off)
    BY HighsType
  <2>2. Ledgered(cands, Off)
    BY <2>1, ClampedType DEF LedgerType
  <2>3. /\ committed' = Absorbed(str, tail, c, skipEnd)
        /\ segs' = AdvancedSegs(cands, segs)
        /\ highs' = LeftoverHighs(all, tail, c, segs')
        /\ settled' = settled \cup BatchLines
        /\ UNCHANGED <<fd, readPos, skipEnd, str, segmentsFed, pcVars, duty, faults>>
    BY <1>2 DEF AdvanceBatch
  <2> HIDE DEF all, cands
  <2>4. c \in Off
    BY <2>2 DEF Advanced, MaxOf, Ledgered, OffsetType
  <2> HIDE DEF c
  <2>5. committed' \in Off
    BY <2>3, <2>4 DEF Absorbed, OffsetType
  <2>6. Ledgered(segs', SegmentType)
    BY <2>2, <2>3, AdvancedSegsType DEF LedgerType
  <2>7. Ledgered(highs', Off)
    BY <2>1, <2>3 DEF LeftoverHighs, Ledgered
  <2>8. LedgerType' /\ OffsetType' /\ HistoryType'
    BY <1>1, <2>3, <2>5, <2>6, <2>7
       DEF Flush, LedgerType, OffsetType, HistoryType, idVars, goneVars, pcVars
  <2>9. FsType' /\ DiskType' /\ AgentType' /\ FdInv'
    BY <2>3 DEF Flush, FsType, DiskType, AgentType, FdInv, fsVars, diskVars, idVars, goneVars,
                pcVars
  <2> QED
    BY <2>8, <2>9
<1>3. CASE Rewind
  <2>1. LedgerType'
    BY <1>3, UnfedType, NewStreamsType DEF Rewind, Flush, LedgerType, Ledgered, EmptyFn
  <2>2. OffsetType' /\ HistoryType' /\ FsType'
    BY <1>0, <1>3
       DEF Rewind, SeekCommitted, Flush, OffsetType, HistoryType, FsType, fsVars, goneVars
  <2>3. DiskType'
    BY <1>3, BoundsAssumption DEF Rewind, Flush, DiskType, diskVars
  <2>4. AfterPass(segs, FALSE) \in {"sweep", "gone", "settle"}
    BY DEF AfterPass
  <2>5. AgentType' /\ FdInv'
    BY <1>3, <2>4 DEF Rewind, SeekCommitted, Flush, AgentType, FdInv, goneVars
  <2> QED
    BY <2>1, <2>2, <2>3, <2>5
<1> QED
  BY <1>2, <1>3 DEF Flush

\* A step of FeedSegments keeps the invariant.
LEMMA FeedSegmentsType == ASSUME TypeInv, FeedSegments PROVE TypeInv'
<1> USE DEF TypeInv, TypeOK
<1>1. /\ pc' \in {"sweep", "replay", "gone", "settle"}
      /\ feeding' \in Nat /\ cur' \in Off /\ segmentsFed' \in BOOLEAN
  BY NextSegmentType DEF FeedSegments, LedgerType
<1> QED
  BY <1>1 DEF FeedSegments, fsVars, diskVars, idVars, posVars, goneVars, histVars, budget,
       FsType, DiskType, AgentType, OffsetType, LedgerType, HistoryType, FdInv

\* Dropping a segment keeps the others well typed.
LEMMA WithoutSegType ==
    ASSUME Ledgered(segs, SegmentType), NEW id
    PROVE  Ledgered(WithoutSeg(id), SegmentType)
BY DEF WithoutSeg, Ledgered

\* Updating one segment to a typed one keeps them well typed.
LEMMA SegUpdateType ==
    ASSUME Ledgered(segs, SegmentType), NEW id \in DOMAIN segs, NEW v \in SegmentType,
           NEW g, g = [segs EXCEPT ![id] = v]
    PROVE  Ledgered(g, SegmentType)
BY DEF Ledgered

\* A step of ReplayLine keeps the invariant.
LEMMA ReplayLineType == ASSUME TypeInv, ReplayLine PROVE TypeInv'
<1> USE DEF TypeInv, TypeOK
<1> DEFINE sg == segs[feeding]
<1> DEFINE l == content[sg.inode][cur + 1]
<1>0. 0 \in Off
  BY ScriptLength DEF Off
<1>1. feeding \in DOMAIN segs /\ sg \in SegmentType
  BY DEF ReplayLine, LedgerType, Ledgered
<1>2. sg.inode \in Inodes /\ cur \in Nat /\ cur < Len(content[sg.inode])
  BY <1>1, ScriptLength DEF ReplayLine, SegmentType, OffsetType, Off
<1>3. l \in Line /\ cur \in Off /\ cur + 1 \in Off
  BY <1>2, ContentType
<1>4. <<sg.inode, cur>> \in Inodes \X Off
  BY <1>2, <1>3
<1>5. AfterPass(segs, FALSE) \in {"sweep", "gone", "settle"}
  BY DEF AfterPass
<1> HIDE DEF l
<1>6. CASE l.kind = "B" /\ settled' = settled \cup {<<sg.inode, cur>>} /\ ReplayOn
           /\ UNCHANGED <<str, segs>>
  BY <1>6, <1>3, <1>4
     DEF ReplayLine, ReplayOn, fsVars, diskVars, idVars, posVars, goneVars, budget,
       FsType, DiskType, AgentType, OffsetType, LedgerType, HistoryType, FdInv
<1>7. CASE /\ FeedLine(sg.inode, <<feeding, cur>>, l)
           /\ segs' = [segs EXCEPT ![feeding].fedTo = cur + 1]
           /\ ReplayOn \/ ReplayCut
           /\ UNCHANGED settled
  <2>1. str' \in [Streams -> StreamType]
    <3>1. <<feeding, cur>> \in Pos
      BY <1>3 DEF OffsetType, Pos
    <3> QED
      BY <1>7, <3>1, <1>2, <1>3, FeedLineType DEF LedgerType
  <2>2. Ledgered(segs', SegmentType)
    <3>1. [sg EXCEPT !.fedTo = cur + 1] \in SegmentType
      BY <1>1, <1>3 DEF SegmentType
    <3> QED
      BY <1>1, <1>7, <3>1, SegUpdateType DEF LedgerType
  <2>3. /\ pc' \in {"replay", "sweep", "gone", "settle"} /\ feeding' \in Nat
        /\ cur' \in Off /\ segmentsFed' \in BOOLEAN
    <3>1. CASE ReplayOn
      BY <3>1, <1>3 DEF ReplayLine, Replaying, ReplayOn, OffsetType, LedgerType
    <3>2. CASE ReplayCut
      BY <3>2, <1>0, <1>5 DEF ReplayCut
    <3> QED
      BY <1>7, <3>1, <3>2
  <2>4. UNCHANGED <<fsVars, diskVars, up, idVars, posVars, highs, batch, hopUnsaved,
                    goneVars, idleClosed, lost, budget>>
        /\ duty' = duty \cup {<<sg.inode, cur>>} /\ settled' = settled
    BY <1>7 DEF ReplayLine
  <2> HIDE DEF sg
  <2> QED
    BY <1>4, <2>1, <2>2, <2>3, <2>4
       DEF fsVars, diskVars, idVars, posVars, goneVars, budget,
         FsType, DiskType, AgentType, OffsetType, LedgerType, HistoryType, FdInv
<1> QED
  BY <1>6, <1>7 DEF ReplayLine, l

\* A step of ReplaySegmentDone keeps the invariant.
LEMMA ReplaySegmentDoneType == ASSUME TypeInv, ReplaySegmentDone PROVE TypeInv'
<1> USE DEF TypeInv, TypeOK
<1>1. Ledgered(segs', SegmentType)
  <2>1. CASE feeding \notin DOMAIN segs
    BY <2>1 DEF ReplaySegmentDone, LedgerType
  <2>2. CASE feeding \in DOMAIN segs
    <3> DEFINE sg == segs[feeding]
    <3>1. sg \in SegmentType
      BY <2>2 DEF LedgerType, Ledgered
    <3>2. [sg EXCEPT !.fed = TRUE] \in SegmentType
      BY <3>1 DEF SegmentType
    <3>3. [sg EXCEPT !.to = sg.fedTo, !.fed = TRUE] \in SegmentType
      BY <3>1 DEF SegmentType
    <3>4. \/ segs' = [segs EXCEPT ![feeding] = [sg EXCEPT !.fed = TRUE]]
          \/ segs' = [segs EXCEPT ![feeding] = [sg EXCEPT !.to = sg.fedTo, !.fed = TRUE]]
          \/ segs' = WithoutSeg(feeding)
      BY <2>2 DEF ReplaySegmentDone, LedgerType, Ledgered
    <3> QED
      BY <2>2, <3>2, <3>3, <3>4, SegUpdateType, WithoutSegType DEF LedgerType
  <2> QED
    BY <2>1, <2>2
<1>2. /\ pc' \in {"sweep", "replay", "gone", "settle"}
      /\ feeding' \in Nat /\ cur' \in Off /\ segmentsFed' \in BOOLEAN
  BY <1>1, NextSegmentType DEF ReplaySegmentDone, LedgerType, OffsetType
<1>3. UNCHANGED <<fsVars, diskVars, up, idVars, posVars, str, highs, batch, hopUnsaved,
                  goneVars, idleClosed, histVars, budget>>
  BY DEF ReplaySegmentDone
<1> QED
  BY <1>1, <1>2, <1>3
     DEF fsVars, diskVars, idVars, posVars, goneVars, histVars, budget,
       FsType, DiskType, AgentType, OffsetType, LedgerType, HistoryType, FdInv

\* A step of ReplayGivenUp keeps the invariant.
LEMMA ReplayGivenUpType == ASSUME TypeInv, ReplayMissing \/ ReplayStalled PROVE TypeInv'
<1> USE DEF TypeInv, TypeOK
<1>0. 0 \in Off
  BY ScriptLength DEF Off
<1>1. segs' = WithoutSeg(feeding) /\ Ledgered(segs', SegmentType)
  BY WithoutSegType DEF ReplayMissing, ReplayStalled, LedgerType
<1>2. lost' \subseteq Inodes \X Off
  <2>1. segs[feeding] \in SegmentType
    BY DEF ReplayMissing, ReplayStalled, LedgerType, Ledgered
  <2>2. Remainder(segs[feeding]) \subseteq Inodes \X Off
    BY <2>1, RemainderType
  <2>3. lost' = lost \cup (Remainder(segs[feeding]) \ settled)
    BY DEF ReplayMissing, ReplayStalled
  <2> QED
    BY <2>2, <2>3 DEF HistoryType
<1>3. /\ pc' \in {"sweep", "replay", "gone", "settle"}
      /\ feeding' \in Nat /\ cur' \in Off /\ segmentsFed' \in BOOLEAN
  <2>1. CASE ReplayMissing
    BY <2>1, <1>1, NextSegmentType DEF ReplayMissing, LedgerType, OffsetType
  <2>2. CASE ReplayStalled
    BY <2>2, <1>0 DEF ReplayStalled, AfterPass
  <2> QED
    BY <2>1, <2>2
<1>4. faults' \in 0..MaxFaults
  <2>1. faults \in 0..MaxFaults /\ MaxFaults \in Nat
    BY BoundsAssumption DEF DiskType
  <2>2. faults' = faults \/ (faults < MaxFaults /\ faults' = faults + 1)
    BY DEF ReplayMissing, ReplayStalled, budget
  <2> QED
    BY <2>1, <2>2
<1>5. UNCHANGED <<fsVars, diskVars, up, idVars, posVars, str, highs, batch, hopUnsaved,
                  goneVars, idleClosed, settled, duty, crashes>>
  BY DEF ReplayMissing, ReplayStalled, budget
<1> QED
  BY <1>1, <1>2, <1>3, <1>4, <1>5
     DEF fsVars, diskVars, idVars, posVars, goneVars,
       FsType, DiskType, AgentType, OffsetType, LedgerType, HistoryType, FdInv

\* A step of ObserveRotation keeps the invariant.
LEMMA ObserveRotationType == ASSUME TypeInv, ObserveRotation PROVE TypeInv'
BY DEF TypeInv, TypeOK, ObserveRotation, fsVars, diskVars, idVars, posVars, segVars, goneVars,
       histVars, budget, FsType, DiskType, AgentType, OffsetType, LedgerType, HistoryType, FdInv

\* A step of DrainReturns keeps the invariant.
LEMMA DrainReturnsType == ASSUME TypeInv, DrainReturns PROVE TypeInv'
<1> USE DEF TypeInv, TypeOK
<1>1. lost' \subseteq Inodes \X Off
  <2>1. fd # 0 => LinesIn(fd, readPos, Len(content[fd])) \subseteq Inodes \X Off
    BY ContentType, LinesInType DEF AgentType, OffsetType
  <2> QED
    BY <2>1 DEF DrainReturns, HasNext, HistoryType
<1>2. faults' \in 0..MaxFaults /\ pc' = "drained"
  BY BoundsAssumption DEF DrainReturns, DiskType
<1> QED
  BY <1>1, <1>2 DEF DrainReturns, fsVars, diskVars, idVars, posVars, segVars, goneVars,
       FsType, DiskType, AgentType, OffsetType, LedgerType, HistoryType, FdInv

\* The end of what the stages were fed is an offset.
LEMMA FedEndType ==
    ASSUME OffsetType, LedgerType
    PROVE  FedEnd(str, tail, committed) \in Off
<1>1. \A s \in DOMAIN str : str[s].lastEnd[2] \in 0..Len(Script)
  BY DEF LedgerType, StreamType, Pos, Off
<1>2. committed \in 0..Len(Script)
  BY DEF OffsetType, Off
<1> QED
  BY <1>1, <1>2, ScriptLength, FedEndBound DEF Off

\* A step of ReopenRotated keeps the invariant.
LEMMA ReopenRotatedType == ASSUME TypeInv, ReopenRotated PROVE TypeInv'
<1> USE DEF TypeInv, TypeOK
<1> DEFINE drained == (pc = "drained")
<1> DEFINE fedEnd == FedEnd(str, tail, committed)
<1> DEFINE all == IF OwesLines(drained, fedEnd)
                  THEN Put(segs, tail, OldIncarnation(drained, fedEnd)) ELSE segs
<1>0. 0 \in Off
  BY ScriptLength DEF Off
<1>1. inode \in Inodes
  BY DEF ReopenRotated, FdInv, AgentType
<1>2. fedEnd \in Off
  BY FedEndType
<1> HIDE DEF fedEnd
<1>3. OldIncarnation(drained, fedEnd) \in SegmentType
  BY <1>0, <1>1, <1>2 DEF OldIncarnation, SegmentType, OffsetType
<1>4. Ledgered(all, SegmentType)
  BY <1>3, PutType DEF LedgerType, OffsetType
<1>5. Reopen(drained)
  BY DEF ReopenRotated
<1> HIDE DEF all
<1>6. Ledgered(segs', SegmentType) /\ segmentsFed' \in BOOLEAN
  <2> DEFINE prevFed == segmentsFed \/ DOMAIN segs = {}
  <2>1. segs' = [id \in DOMAIN all |->
                   IF prevFed /\ ~drained /\ id # tail
                   THEN [all[id] EXCEPT !.fed = TRUE, !.fedTo = MaxOf(@, all[id].to)]
                   ELSE [all[id] EXCEPT !.fed = prevFed /\ drained]]
        /\ segmentsFed' = (prevFed /\ drained)
    BY <1>5 DEF Reopen, all, fedEnd
  <2>2. ASSUME NEW id \in DOMAIN all
        PROVE  /\ [all[id] EXCEPT !.fed = TRUE, !.fedTo = MaxOf(@, all[id].to)] \in SegmentType
               /\ [all[id] EXCEPT !.fed = prevFed /\ drained] \in SegmentType
    <3>1. all[id] \in SegmentType
      BY <1>4 DEF Ledgered
    <3>2. MaxOf(all[id].fedTo, all[id].to) \in Off
      BY <3>1 DEF SegmentType, MaxOf, Off
    <3> QED
      BY <3>1, <3>2 DEF SegmentType
  <2> QED
    BY <1>4, <2>1, <2>2 DEF Ledgered
<1>7. batch' \subseteq ItemType /\ str' \in [Streams -> StreamType]
  <2>1. \A s \in Streams : StopEntries(str[s]) \subseteq ItemType
    BY StoppedType DEF LedgerType
  <2>2. UNION {StopEntries(str[s]) : s \in Streams} \subseteq ItemType
    BY <2>1
  <2>3. batch' \subseteq batch \cup UNION {StopEntries(str[s]) : s \in Streams}
    BY <1>5 DEF Reopen
  <2>4. str' \in {str, NewStreams}
    BY <1>5 DEF Reopen
  <2> QED
    BY <2>2, <2>3, <2>4, NewStreamsType DEF LedgerType
<1>8. LedgerType'
  BY <1>6, <1>7 DEF ReopenRotated, LedgerType
<1>9. BeginIncarnation /\ inode' = 0 /\ fd' = 0
      /\ duty' = duty \cup LinesIn(inode, 0, Len(content[inode]))
  BY <1>5 DEF Reopen
<1>10. OffsetType'
  BY <1>0, <1>9 DEF ReopenRotated, BeginIncarnation, OffsetType
<1>11. HistoryType'
  <2>1. LinesIn(inode, 0, Len(content[inode])) \subseteq Inodes \X Off
    BY <1>0, <1>1, ContentType, LinesInType
  <2> QED
    BY <1>9, <2>1 DEF ReopenRotated, HistoryType
<1>12. DiskType' /\ hopUnsaved' \in BOOLEAN
  <2>1. crashes' = crashes
    BY DEF ReopenRotated
  <2>2. NoteHop(0, 0, tail', segs') \/ UNCHANGED <<diskVars, hopUnsaved, faults>>
    BY <1>5 DEF Reopen
  <2>3. CASE NoteHop(0, 0, tail', segs')
    BY <2>1, <2>3, <1>0, <1>6, <1>10, NoteHopType DEF AgentType, OffsetType
  <2>4. CASE UNCHANGED <<diskVars, hopUnsaved, faults>>
    BY <2>1, <2>4 DEF diskVars, DiskType, AgentType
  <2> QED
    BY <2>2, <2>3, <2>4
<1>13. FsType' /\ AgentType' /\ FdInv'
  BY <1>9, <1>12 DEF ReopenRotated, BeginIncarnation, FsType, AgentType, FdInv, fsVars
<1> QED
  BY <1>8, <1>10, <1>11, <1>12, <1>13

\* A step of MarkGone keeps the invariant.
LEMMA MarkGoneType == ASSUME TypeInv, MarkGone PROVE TypeInv'
BY DEF TypeInv, TypeOK, MarkGone, fsVars, diskVars, idVars, posVars, segVars, pcVars,
       histVars, budget, FsType, DiskType, AgentType, OffsetType, LedgerType, HistoryType, FdInv

\* A step of Resurrect keeps the invariant.
LEMMA ResurrectType == ASSUME TypeInv, Resurrect PROVE TypeInv'
<1>1. 0 \in Off
  BY ScriptLength DEF Off
<1> QED
  BY <1>1 DEF TypeInv, TypeOK, Resurrect, fsVars, diskVars, idVars, posVars, segVars, pcVars,
       histVars, budget, FsType, DiskType, AgentType, OffsetType, LedgerType, HistoryType, FdInv

\* A step of DrainGone keeps the invariant.
LEMMA DrainGoneType == ASSUME TypeInv, DrainGone PROVE TypeInv'
<1> USE DEF TypeInv, TypeOK
<1>1. /\ pc' \in {"sweep", "replay", "gone", "settle"}
      /\ feeding' \in Nat /\ cur' \in Off /\ segmentsFed' \in BOOLEAN
  <2>1. CASE GateClosed
    BY <2>1, NextSegmentType DEF DrainGone, LedgerType
  <2>2. CASE ~GateClosed
    BY <2>2 DEF DrainGone, LedgerType, OffsetType
  <2> QED
    BY <2>1, <2>2
<1> QED
  BY <1>1 DEF DrainGone, fsVars, diskVars, idVars, posVars, goneVars, histVars, budget,
       FsType, DiskType, AgentType, OffsetType, LedgerType, HistoryType, FdInv

\* A step of GoneDrained keeps the invariant.
LEMMA GoneDrainedType == ASSUME TypeInv, GoneDrained PROVE TypeInv'
<1> USE DEF TypeInv, TypeOK
<1>1. \A s \in Streams : Stopped(str[s]) \in StreamType /\ StopEntries(str[s]) \subseteq ItemType
  BY StoppedType DEF LedgerType
<1>2. UNION {StopEntries(str[s]) : s \in Streams} \subseteq ItemType
  BY <1>1
<1>3. LedgerType'
  BY <1>1, <1>2 DEF GoneDrained, LedgerType, segVars
<1>4. goneEnd' \in Off
  BY FedEndType DEF GoneDrained, MaxOf, OffsetType
<1>5. OffsetType'
  BY <1>4 DEF GoneDrained, OffsetType, idVars, posVars
<1>6. lost' \subseteq Inodes \X Off
  <2>1. fd # 0 => LinesIn(fd, readPos, Len(content[fd])) \subseteq Inodes \X Off
    BY ContentType, LinesInType DEF AgentType, OffsetType
  <2> QED
    BY <2>1 DEF GoneDrained, HasNext, HistoryType
<1>7. faults' \in 0..MaxFaults
  BY BoundsAssumption DEF GoneDrained, DiskType
<1> QED
  BY <1>3, <1>5, <1>6, <1>7 DEF GoneDrained, fsVars, diskVars, idVars, posVars,
       FsType, DiskType, AgentType, HistoryType, FdInv

\* Forgetting the file leaves well typed state.
LEMMA ForgottenType ==
    ASSUME Forgotten, batch' \subseteq ItemType
    PROVE  /\ OffsetType' /\ LedgerType' /\ FdInv'
           /\ tracked' = FALSE /\ fd' = 0 /\ inode' = 0 /\ pc' = "sweep"
           /\ hopUnsaved' = FALSE /\ idleClosed' = FALSE
           /\ gone' = FALSE /\ goneDrained' = FALSE
<1>1. 0 \in Off
  BY ScriptLength DEF Off
<1>2. OffsetType'
  BY <1>1 DEF Forgotten, OffsetType
<1>3. LedgerType'
  BY NewStreamsType DEF Forgotten, LedgerType, Ledgered, EmptyFn
<1>4. FdInv'
  BY DEF Forgotten, FdInv
<1> QED
  BY <1>2, <1>3, <1>4 DEF Forgotten

\* A step of SettleGone keeps the invariant.
LEMMA SettleGoneType == ASSUME TypeInv, SettleGone PROVE TypeInv'
<1> USE DEF TypeInv, TypeOK
<1>1. FsType' /\ DiskType' /\ HistoryType' /\ batch' = batch
  <2>1. fd # 0 => LinesIn(fd, committed, Len(content[fd])) \subseteq Inodes \X Off
    BY ContentType, LinesInType DEF AgentType, OffsetType
  <2>2. lost' \subseteq Inodes \X Off /\ faults' = faults
    BY <2>1 DEF SettleGone, GoneStalled, HistoryType
  <2> QED
    BY <2>2 DEF SettleGone, fsVars, diskVars, FsType, DiskType, HistoryType
<1>2. CASE Forgotten
  <2>1. OffsetType' /\ LedgerType' /\ FdInv'
    BY <1>1, <1>2, ForgottenType DEF LedgerType
  <2>2. AgentType'
    BY <1>2 DEF Forgotten, SettleGone, AgentType
  <2> QED
    BY <1>1, <2>1, <2>2
<1>3. CASE /\ pc' = "sweep"
           /\ UNCHANGED <<tracked, fd, inode, tail, posVars, str, segVars, highs, hopUnsaved,
                          goneVars, idleClosed, feeding, cur>>
  BY <1>1, <1>3 DEF SettleGone, posVars, segVars, goneVars, AgentType, OffsetType, LedgerType,
                    FdInv
<1> QED
  BY <1>2, <1>3 DEF SettleGone

\* A step of Crash keeps the invariant.
LEMMA CrashType == ASSUME TypeInv, Crash PROVE TypeInv'
<1> USE DEF TypeInv, TypeOK
<1>1. OffsetType' /\ LedgerType' /\ FdInv'
  BY ForgottenType DEF Crash
<1>2. AgentType'
  BY DEF Crash, Forgotten, AgentType, CheckpointType
<1>3. crashes' \in 0..MaxCrashes
  BY BoundsAssumption DEF Crash, DiskType
<1> QED
  BY <1>1, <1>2, <1>3 DEF Crash, fsVars, diskVars, FsType, DiskType, HistoryType

\* A step of Restart keeps the invariant.
LEMMA RestartType == ASSUME TypeInv, Restart PROVE TypeInv'
BY DEF TypeInv, TypeOK, Restart, fsVars, diskVars, posVars, segVars, goneVars, pcVars,
       histVars, budget, FsType, DiskType, AgentType, OffsetType, LedgerType, HistoryType, FdInv

\* A step of Stutter keeps the invariant.
LEMMA StutterType == ASSUME TypeInv, UNCHANGED vars PROVE TypeInv'
BY DEF TypeInv, TypeOK, vars, agentVars, fsVars, diskVars, idVars, posVars, segVars, goneVars,
       pcVars, histVars, budget, FsType, DiskType, AgentType, OffsetType, LedgerType,
       HistoryType, FdInv

\* TypeInv is inductive.
LEMMA TypeStep == TypeInv /\ [Next]_vars => TypeInv'
<1> SUFFICES ASSUME TypeInv, [Next]_vars PROVE TypeInv'
  OBVIOUS
<1>1. CASE UNCHANGED vars
  BY <1>1, StutterType
<1>2. CASE Next
  BY <1>2, RuntimeType, StageType, CrashType, RestartType, DiscoverType, ListNothingType,
     EnsureOpenType, CloseIdleType, ReadLineType, FlushType, FeedSegmentsType,
     ReplayLineType, ReplaySegmentDoneType, ReplayGivenUpType, ObserveRotationType,
     DrainReturnsType, ReopenRotatedType, MarkGoneType, ResurrectType, DrainGoneType,
     GoneDrainedType, SettleGoneType, SaveCheckpointsType
     DEF Next, SweepStep, ReplayStep
<1> QED
  BY <1>1, <1>2

\* Type correctness of the tailer (internal/agent/tailer): whatever the
\* runtime writes and rotates and whenever exports, saves, reads or the agent
\* itself fail, every offset stays within the lines written, every segment and
\* checkpoint names a file that exists, and a rotation is only ever handled
\* for a file whose inode is known.
THEOREM TypeCorrect == Spec => []TypeOK
<1>1. Init => TypeInv
  BY InitType
<1>2. TypeInv /\ [Next]_vars => TypeInv'
  BY TypeStep
<1>3. TypeInv => TypeOK
  BY DEF TypeInv
<1> QED
  BY <1>1, <1>2, <1>3, PTL DEF Spec

-----------------------------------------------------------------------------
(* Descriptors kept for rotated files are bounded.                         *)

\* The segments whose descriptor is kept open.
FdSet(sg) == {id \in DOMAIN sg : sg[id].fd}

FdsInv == IsFiniteSet(FdSet(segs)) /\ FdsBounded

\* Segments that keep no descriptor the others did not keep stay bounded.
LEMMA FdsShrink ==
    ASSUME FdsInv, NEW g, FdSet(g) \subseteq FdSet(segs)
    PROVE  IsFiniteSet(FdSet(g)) /\ RetainedFds(g) <= MaxCarriedFds
<1>1. IsFiniteSet(FdSet(g)) /\ Cardinality(FdSet(g)) <= Cardinality(FdSet(segs))
  BY FS_Subset DEF FdsInv
<1>2. Cardinality(FdSet(g)) \in Nat /\ Cardinality(FdSet(segs)) \in Nat
  BY <1>1, FS_CardinalityType DEF FdsInv
<1>3. Cardinality(FdSet(segs)) <= MaxCarriedFds /\ RetainedFds(g) = Cardinality(FdSet(g))
  BY DEF FdsInv, FdsBounded, RetainedFds, FdSet
<1> QED
  BY <1>1, <1>2, <1>3, BoundsAssumption

\* reopen records the rotated file with a descriptor only below the bound.
LEMMA FdsReopen == ASSUME TypeInv, FdsInv, ReopenRotated PROVE FdsInv'
<1> DEFINE drained == (pc = "drained")
<1> DEFINE fedEnd == FedEnd(str, tail, committed)
<1> DEFINE old == OldIncarnation(drained, fedEnd)
<1> DEFINE all == IF OwesLines(drained, fedEnd) THEN Put(segs, tail, old) ELSE segs
<1>1. DOMAIN segs' = DOMAIN all /\ \A id \in DOMAIN all : segs'[id].fd = all[id].fd
  <2>1. Reopen(drained)
    BY DEF ReopenRotated
  <2> DEFINE prevFed == segmentsFed \/ DOMAIN segs = {}
  <2>2. segs' = [id \in DOMAIN all |->
                   IF prevFed /\ ~drained /\ id # tail
                   THEN [all[id] EXCEPT !.fed = TRUE, !.fedTo = MaxOf(@, all[id].to)]
                   ELSE [all[id] EXCEPT !.fed = prevFed /\ drained]]
    BY <2>1 DEF Reopen
  <2>3. \A id \in DOMAIN all : all[id] \in SegmentType
    <3>1. \A id \in DOMAIN segs : segs[id] \in SegmentType
      BY DEF TypeInv, TypeOK, LedgerType, Ledgered
    <3>2. inode \in Inodes /\ committed \in Off /\ fedEnd \in Off /\ 0 \in Off
      BY FedEndType, ScriptLength
         DEF TypeInv, TypeOK, ReopenRotated, FdInv, AgentType, OffsetType, Off
    <3> HIDE DEF fedEnd
    <3>3. old \in SegmentType
      BY <3>2 DEF OldIncarnation, SegmentType
    <3> QED
      BY <3>1, <3>3 DEF Put
  <2> HIDE DEF all, prevFed
  <2>4. ASSUME NEW id \in DOMAIN all PROVE segs'[id].fd = all[id].fd
    BY <2>2, <2>3 DEF SegmentType
  <2> QED
    BY <2>2, <2>4
<1>2. FdSet(segs') = FdSet(all)
  BY <1>1 DEF FdSet
<1>3. CASE ~OwesLines(drained, fedEnd)
  <2>1. FdSet(segs') \subseteq FdSet(segs)
    BY <1>2, <1>3
  <2> QED
    BY <2>1, FdsShrink DEF FdsInv, FdsBounded
<1>4. CASE OwesLines(drained, fedEnd) /\ ~(RetainedFds(segs) < MaxCarriedFds)
  <2>1. ~old.fd
    BY <1>4 DEF OldIncarnation
  <2> HIDE DEF old
  <2>2. FdSet(Put(segs, tail, old)) \subseteq FdSet(segs)
    BY <2>1 DEF FdSet, Put
  <2>3. FdSet(segs') \subseteq FdSet(segs)
    BY <1>2, <1>4, <2>2
  <2> QED
    BY <2>3, FdsShrink DEF FdsInv, FdsBounded
<1>5. CASE OwesLines(drained, fedEnd) /\ RetainedFds(segs) < MaxCarriedFds
  <2> DEFINE F == FdSet(segs)
  <2>0. IsFiniteSet(F) /\ Cardinality(F) < MaxCarriedFds
    BY <1>5 DEF FdsInv, RetainedFds, FdSet
  <2>1. IsFiniteSet(F \cup {tail}) /\ Cardinality(F \cup {tail}) <= Cardinality(F) + 1
    <3>1. Cardinality(F) \in Nat
      BY <2>0, FS_CardinalityType
    <3> HIDE DEF F
    <3>2. IsFiniteSet(F \cup {tail})
          /\ Cardinality(F \cup {tail}) = IF tail \in F THEN Cardinality(F) ELSE Cardinality(F) + 1
      BY <2>0, FS_AddElement
    <3> QED
      BY <3>1, <3>2
  <2> HIDE DEF old
  <2>2. FdSet(segs') \subseteq F \cup {tail}
    <3>1. FdSet(Put(segs, tail, old)) \subseteq FdSet(segs) \cup {tail}
      BY DEF FdSet, Put
    <3> QED
      BY <1>2, <1>5, <3>1
  <2> HIDE DEF F
  <2>3. IsFiniteSet(FdSet(segs')) /\ Cardinality(FdSet(segs')) <= Cardinality(F \cup {tail})
    BY <2>1, <2>2, FS_Subset
  <2>4. Cardinality(FdSet(segs')) \in Nat /\ Cardinality(F) \in Nat
        /\ Cardinality(F \cup {tail}) \in Nat
    BY <2>0, <2>1, <2>3, FS_CardinalityType
  <2>5. Cardinality(FdSet(segs')) <= MaxCarriedFds
    BY <2>0, <2>1, <2>3, <2>4, BoundsAssumption
  <2> QED
    BY <2>3, <2>5 DEF FdsInv, FdsBounded, RetainedFds, FdSet
<1> QED
  BY <1>3, <1>4, <1>5

\* Every other step keeps at most the descriptors that were kept before.
LEMMA FdsStep == TypeInv /\ FdsInv /\ [Next]_vars => FdsInv'
<1> SUFFICES ASSUME TypeInv, FdsInv, [Next]_vars PROVE FdsInv'
  OBVIOUS
<1>0. \A id \in DOMAIN segs : segs[id] \in SegmentType
  BY DEF TypeInv, TypeOK, LedgerType, Ledgered
<1>1. SUFFICES ASSUME ~ReopenRotated PROVE FdSet(segs') \subseteq FdSet(segs)
  BY <1>1, FdsReopen, FdsShrink DEF FdsInv, FdsBounded
<1>2. CASE segs' = segs
  BY <1>2
<1>3. CASE Discover
  <2>1. CASE ResumeFile
    BY <2>1 DEF ResumeFile, Restored, FdSet
  <2>2. CASE UnknownFile
    BY <2>2 DEF UnknownFile, EmptyFn, FdSet
  <2> QED
    BY <1>3, <2>1, <2>2 DEF Discover
<1>4. ASSUME NEW sg, FdSet(sg) \subseteq FdSet(segs), \A id \in DOMAIN sg : sg[id] \in SegmentType
      PROVE  FdSet(Unfed(sg)) \subseteq FdSet(segs)
  BY <1>4 DEF Unfed, FdSet, SegmentType
<1>5. CASE EnsureOpen
  <2> DEFINE old == [inode |-> inode, committed |-> committed, to |-> -1,
                     fed |-> FALSE, fedTo |-> 0, fd |-> FALSE]
  <2>1. CASE OpenSame
    BY <1>2, <2>1 DEF OpenSame, segVars
  <2>2. CASE OpenTruncated
    BY <2>2, <1>0, <1>4 DEF OpenTruncated, FreshPipeline
  <2>3. CASE OpenReplaced
    <3>1. old \in SegmentType
      BY <2>3, ScriptLength
         DEF OpenReplaced, TypeInv, TypeOK, AgentType, OffsetType, SegmentType, Off
    <3>2. segs' = Unfed(Put(segs, tail, old))
      BY <2>3 DEF OpenReplaced, FreshPipeline
    <3>3. ~old.fd
      OBVIOUS
    <3> HIDE DEF old
    <3>4. FdSet(Put(segs, tail, old)) \subseteq FdSet(segs)
          /\ \A id \in DOMAIN Put(segs, tail, old) : Put(segs, tail, old)[id] \in SegmentType
      BY <3>1, <3>3, <1>0 DEF FdSet, Put
    <3> QED
      BY <3>2, <3>4, <1>4
  <2> QED
    BY <1>5, <2>1, <2>2, <2>3 DEF EnsureOpen
<1>6. CASE Flush
  <2>1. CASE AdvanceBatch
    <3>1. ASSUME NEW cands PROVE FdSet(AdvancedSegs(cands, segs)) \subseteq FdSet(segs)
      BY <1>0 DEF AdvancedSegs, FdSet, SegmentType
    <3> QED
      BY <2>1, <3>1 DEF AdvanceBatch
  <2>2. CASE Rewind
    BY <2>2, <1>0, <1>4 DEF Rewind
  <2> QED
    BY <1>6, <2>1, <2>2 DEF Flush
<1>7. FdSet(WithoutSeg(feeding)) \subseteq FdSet(segs)
  BY DEF WithoutSeg, FdSet
<1>8. CASE ReplayStep
  <2>1. CASE ReplayLine
    <3>1. segs' = segs \/ segs' = [segs EXCEPT ![feeding].fedTo = cur + 1]
      BY <2>1 DEF ReplayLine
    <3> QED
      BY <3>1, <1>0, <1>2 DEF FdSet, SegmentType
  <2>2. CASE ReplaySegmentDone
    <3>1. \/ segs' = segs
          \/ segs' = WithoutSeg(feeding)
          \/ segs' = [segs EXCEPT ![feeding].fed = TRUE]
          \/ segs' = [segs EXCEPT ![feeding].to = segs[feeding].fedTo, ![feeding].fed = TRUE]
      BY <2>2 DEF ReplaySegmentDone
    <3> QED
      BY <3>1, <1>0, <1>7 DEF FdSet, SegmentType
  <2>3. CASE ReplayMissing \/ ReplayStalled
    BY <2>3, <1>7 DEF ReplayMissing, ReplayStalled
  <2> QED
    BY <1>8, <2>1, <2>2, <2>3 DEF ReplayStep
<1>9. CASE SettleGone \/ Crash
  <2>1. segs' = segs \/ segs' = EmptyFn
    BY <1>9 DEF SettleGone, Crash, Forgotten, segVars
  <2> QED
    BY <2>1, <1>2 DEF FdSet, EmptyFn
<1>10. segs' = segs \/ Discover \/ EnsureOpen \/ Flush \/ ReplayStep \/ SettleGone \/ Crash
  <2>1. CASE RuntimeStep \/ StageStep \/ Restart \/ UNCHANGED vars
    BY <2>1 DEF RuntimeStep, WriteLine, RenameLog, CreateLog, PruneRotated, StageStep, RunCloses,
         EntryEmitted, Restart, agentVars, segVars, vars
  <2>2. CASE ListNothing \/ CloseIdle \/ ReadLine \/ FeedSegments \/ ObserveRotation
             \/ DrainReturns
    BY <2>2 DEF ListNothing, CloseIdle, ReadLine, FeedSegments, ObserveRotation, DrainReturns,
         segVars
  <2>3. CASE MarkGone \/ Resurrect \/ DrainGone \/ GoneDrained \/ SaveCheckpoints
    BY <2>3 DEF MarkGone, Resurrect, DrainGone, GoneDrained, SaveCheckpoints, segVars
  <2> QED
    BY <1>1, <2>1, <2>2, <2>3 DEF Next, SweepStep
<1> QED
  BY <1>2, <1>3, <1>5, <1>6, <1>8, <1>9, <1>10

\* However fast a log rotates while its lines cannot be delivered, reopen
\* keeps at most maxCarriedFds descriptors of rotated files open.
THEOREM DescriptorsBounded == Spec => []FdsBounded
<1>1. Init => TypeInv /\ FdsInv
  <2>1. Init => FdSet(segs) = {}
    BY DEF Init, FdSet, EmptyFn
  <2>2. RetainedFds(segs) = Cardinality(FdSet(segs))
    BY DEF RetainedFds, FdSet
  <2> QED
    BY <2>1, <2>2, InitType, FS_EmptySet, BoundsAssumption DEF FdsInv, FdsBounded
<1>2. TypeInv /\ FdsInv /\ [Next]_vars => TypeInv' /\ FdsInv'
  BY TypeStep, FdsStep
<1>3. FdsInv => FdsBounded
  BY DEF FdsInv
<1> QED
  BY <1>1, <1>2, <1>3, PTL DEF Spec
===============================================================================
