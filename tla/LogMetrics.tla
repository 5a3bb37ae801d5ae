------------------------------ MODULE LogMetrics ------------------------------
(***************************************************************************)
(* Metrics counted inside the process (internal/metrics): the series of    *)
(* the log-metric rules (DynamicMetricSet) and of the process's own        *)
(* metrics (Registry).  Lines are observed into a series while an export   *)
(* snapshots it, sends the snapshot in chunks and, where a chunk fails,    *)
(* hands the samples back to the store or keeps them to offer again.       *)
(*                                                                         *)
(* A value is the set of observations it was made of.  A stream is one     *)
(* label set of one series, under one resource; a kind is a counter, a     *)
(* summary or histogram, a gauge that adds up, one that is set (level), or *)
(* one that aggregates a window.  Resources are numbers, for the order in  *)
(* which ties are broken.  Time is coarse: LmBaseline, LmGrace and         *)
(* LmExpiration stand for three minutes, four minutes and the rule's       *)
(* maxAge.  Matching a line, reading its value and its labels yield the    *)
(* stream that observes, or nothing.                                       *)
(***************************************************************************)
EXTENDS Integers, FiniteSets, Sequences

LOCAL INSTANCE FiniteSetsExt
LOCAL INSTANCE SequencesExt

CONSTANTS Streams,        \* label sets
          LmShapes,       \* the rule sets, with bounds on observations and time
          LmBaseline, LmGrace, LmExpiration,
          LmMaxResources, LmMaxSamples,   \* bounds of what is kept to offer again
          LmExports, LmFails    \* bounds: exports, failed sends

ASSUME LmTimes == /\ {LmBaseline, LmGrace, LmExpiration} \subseteq Nat
                  /\ LmBaseline < LmGrace

VARIABLES shape,      \* role, cap, func-backed stream; kind, series and resource of each stream
          store,      \* series.db: the samples of the admitted streams
          export,     \* the export that holds exportMu
          retry,      \* retryBy: per resource, the generations to offer again
          retained,   \* retainedSamples
          lmNow,
          total,     \* the running total a func-backed counter reads
          lastRead,   \* gaugeFunc.last
          counted,    \* history: observations counted as dropped
          replaced,   \* history: observations a later one of a level took the place of
          arrived,    \* history: observations in a payload that was accepted
          sent,       \* history: the accepted points of every stream
          rejected,   \* history: streams with a point that was refused for good
          lmLeft      \* the budgets left

lmVars == <<shape, store, export, retry, retained, lmNow, total, lastRead,
            counted, replaced, arrived, sent, rejected, lmLeft>>

AllSeries == {shape.series[k] : k \in Streams}
LmResources == {shape.resource[k] : k \in Streams}
Aggregating(k) == shape.kind[k] = "window"
Zeroed(k) == shape.kind[k] \in {"gauge", "level"}      \* when it has gone idle
RefusesNegative(k) == shape.kind[k] \in {"counter", "summary"}

NoExport == [phase |-> "idle", ts |-> 0, todo |-> {}, by |-> << >>, left |-> {}]

LmInit ==
  /\ shape \in LmShapes
  /\ store = << >>
  /\ export = NoExport
  /\ retry = << >>
  /\ retained = 0
  /\ lmNow = 0
  /\ total = {} /\ lastRead = {}
  /\ counted = {} /\ replaced = {} /\ arrived = {} /\ rejected = {}
  /\ sent = [k \in Streams |-> << >>]
  /\ lmLeft = [obs |-> shape.obs, exports |-> LmExports, fails |-> LmFails]

-----------------------------------------------------------------------------
(* Observing.                                                              *)

\* Where a stream admitted now began: a counter's start is backdated, to no earlier
\* than the series, which exists from time 0.
StreamStart(k) == IF shape.kind[k] = "counter" THEN Max({lmNow - LmBaseline, 0}) ELSE lmNow

\* The sample a stream is admitted with.
Admit(k) == [seen |-> {}, start |-> StreamStart(k), initial |-> TRUE, sealed |-> FALSE,
             exported |-> FALSE, when |-> lmNow]

\* The series is full: a new label set is refused and counted.
Capped(k) ==
  /\ k \notin DOMAIN store
  /\ shape.cap > 0
  /\ Cardinality({q \in DOMAIN store : shape.series[q] = shape.series[k]}) >= shape.cap

\* A window that was emitted begins anew and a level is set; all else accumulates.
StartsOver(k, e) == (Aggregating(k) /\ e.sealed) \/ shape.kind[k] = "level"

Record(k, e, os) ==
  [e EXCEPT !.exported = FALSE, !.sealed = FALSE, !.seen = IF StartsOver(k, e) THEN os ELSE @ \cup os]

\* The store after the observations os of stream k, recorded together.
Recorded(k, os) ==
  LET e == Record(k, IF k \in DOMAIN store THEN store[k] ELSE Admit(k), os)
  IN [q \in DOMAIN store \cup {k} |-> IF q = k THEN [e EXCEPT !.when = lmNow] ELSE store[q]]

Fresh == lmLeft.obs         \* an observation is named by the budget it used
TakeObs == lmLeft.obs > 0 /\ lmLeft' = [lmLeft EXCEPT !.obs = @ - 1]

\* The series takes an observation; one past the cap is counted instead.
ObserveFold(k) ==
  /\ TakeObs
  /\ k # shape.func
  /\ IF Capped(k) THEN counted' = counted \cup {Fresh} /\ UNCHANGED <<store, replaced>>
     ELSE /\ store' = Recorded(k, {Fresh}) /\ counted' = counted
          /\ replaced' = IF shape.kind[k] = "level" /\ k \in DOMAIN store
                         THEN replaced \cup store[k].seen ELSE replaced
  /\ UNCHANGED <<shape, export, retry, retained, lmNow, total, lastRead, arrived, sent, rejected>>

\* A line that a rule matches and, unless it only tallies lines, reads a value
\* from; a transform script's emit_metric of a declared metric (of no other, and of
\* no histogram with a bucket label: the script is told); a count of the process.
RuleObserves(k) == shape.role = "rules" /\ ObserveFold(k)
EmitDirect(k) == shape.role = "rules" /\ ObserveFold(k)
RegObserves(k) == shape.role = "registry" /\ ObserveFold(k)

\* A value that is not finite, or negative where only growth makes sense, is
\* refused and counted, whether a rule read it or a script emitted it.
Refuse(k, value) ==
  /\ TakeObs
  /\ value = "negative" => RefusesNegative(k)
  /\ counted' = counted \cup {Fresh}
  /\ UNCHANGED <<shape, store, export, retry, retained, lmNow, total, lastRead, replaced, arrived, sent, rejected>>

\* A stream is admitted at zero.
Materialize(k) ==
  /\ k \notin DOMAIN store /\ k # shape.func /\ ~Capped(k)
  /\ store' = [q \in DOMAIN store \cup {k} |-> IF q = k THEN Admit(k) ELSE store[q]]
  /\ UNCHANGED <<shape, export, retry, retained, lmNow, total, lastRead, counted, replaced, arrived, sent, rejected, lmLeft>>

\* So is a labelled self metric when its label values are first named.
WithLabelValues(k) == shape.role = "registry" /\ Materialize(k)

\* The component behind a func-backed counter counts; or it is rebuilt, and counts
\* from nothing (and is read before it is back at its old total).
SourceCounts ==
  /\ shape.func # ""
  /\ \/ TakeObs /\ total' = total \cup {Fresh}
        /\ (lastRead \subseteq total \/ Cardinality(total) + 1 < Cardinality(lastRead))
     \/ total # {} /\ total = lastRead /\ total' = {} /\ lmLeft' = lmLeft
  /\ UNCHANGED <<shape, store, export, retry, retained, lmNow, lastRead, counted, replaced, arrived, sent, rejected>>

\* What a running total that reads v adds to the one that read prev.
CounterDelta(prev, v) == IF Cardinality(v) >= Cardinality(prev) THEN v \ prev ELSE v

\* The snapshots of one export are over within the baseline's minutes; sending
\* them may take any time.
LmTick ==
  /\ lmNow < shape.time
  /\ export.phase = "snapshot" => lmNow < export.ts + LmBaseline
  /\ lmNow' = lmNow + 1
  /\ UNCHANGED <<shape, store, export, retry, retained, total, lastRead, counted, replaced, arrived, sent, rejected, lmLeft>>

-----------------------------------------------------------------------------
(* Exporting.                                                              *)

\* An export takes exportMu and reads the clock; the registry's func-backed
\* counters push what they grew by.
ExportBegins ==
  /\ export.phase = "idle"
  /\ lmLeft.exports > 0
  /\ lmLeft' = [lmLeft EXCEPT !.exports = @ - 1]
  /\ export' = [phase |-> "snapshot", ts |-> lmNow, todo |-> AllSeries,
                by |-> [r \in LmResources |-> << >>], left |-> {}]
  /\ IF shape.func = "" THEN UNCHANGED <<store, lastRead>>
     ELSE /\ store' = Recorded(shape.func, CounterDelta(lastRead, total))
          /\ lastRead' = total
  /\ UNCHANGED <<shape, retry, retained, lmNow, total, counted, replaced, arrived, sent, rejected>>

IdleFor(k) == IF shape.role = "registry" THEN 0 ELSE lmNow - store[k].when - LmExpiration
Quiet(k) == IdleFor(k) > 0
Gone(k) == IdleFor(k) >= LmGrace

\* What the snapshot of a stream carries: a value nobody has exported, however
\* old, and the value of every stream that is in use.
Emitted(k) == IF Gone(k) \/ (Quiet(k) /\ ~Aggregating(k)) THEN ~store[k].exported ELSE TRUE

\* The store will not hold this value any more: the stream goes, an idle gauge is
\* zeroed, or the window is closed.
Final(k) == Gone(k) \/ (Aggregating(k) /\ ~store[k].sealed) \/ (Quiet(k) /\ Zeroed(k))

Sample(k) == [key |-> k, seen |-> store[k].seen, start |-> store[k].start,
              initial |-> store[k].initial, final |-> Final(k)]

AfterSnapshot(k) ==
  LET e == [store[k] EXCEPT !.initial = FALSE, !.exported = TRUE, !.sealed = Aggregating(k)]
  IN IF Quiet(k) /\ Zeroed(k) THEN [e EXCEPT !.seen = {}, !.start = lmNow] ELSE e

\* The generation one series adds to a resource.
Generation(s, r) ==
  LET mine == {k \in DOMAIN store : shape.series[k] = s /\ shape.resource[k] = r /\ Emitted(k)}
  IN IF mine = {} THEN << >> ELSE <<[ts |-> export.ts, samples |-> {Sample(k) : k \in mine}]>>

\* The generations kept from failed exports go in front of the new ones.
MergeRetry(by) == [r \in LmResources |-> (IF r \in DOMAIN retry THEN retry[r] ELSE << >>) \o by[r]]

\* One series is snapshotted under its own lock; after the last one the kept
\* samples join, and there may be nothing at all to send.
Snapshot(s) ==
  /\ export.phase = "snapshot" /\ s \in export.todo
  /\ LET stays == {k \in DOMAIN store : shape.series[k] # s \/ ~Gone(k)}
         fresh == [r \in LmResources |-> export.by[r] \o Generation(s, r)]
         last == export.todo = {s}
         by == IF last THEN MergeRetry(fresh) ELSE fresh
         left == {r \in LmResources : by[r] # << >>}
     IN /\ store' = [k \in stays |-> IF shape.series[k] = s THEN AfterSnapshot(k) ELSE store[k]]
        /\ export' = IF last /\ left = {} THEN NoExport
                     ELSE [export EXCEPT !.phase = IF last THEN "send" ELSE @, !.todo = @ \ {s}, !.by = by,
                                         !.left = IF last THEN left ELSE {}]
        /\ IF last THEN retry' = << >> /\ retained' = 0 ELSE UNCHANGED <<retry, retained>>
  /\ UNCHANGED <<shape, lmNow, total, lastRead, counted, replaced, arrived, sent, rejected, lmLeft>>

GenSamples(gens) == UNION {gens[i].samples : i \in DOMAIN gens}
Seen(samples) == UNION {p.seen : p \in samples}
Gens(C) == UNION {GenSamples(export.by[r]) : r \in C}

\* Mutant of Rearm: the baseline is not handed back.
RearmNoBaseline(C) ==
  [k \in DOMAIN store |->
     IF ~Aggregating(k) /\ \E p \in Gens(C) : p.key = k /\ ~p.final
     THEN [store[k] EXCEPT !.exported = FALSE] ELSE store[k]]

\* The live samples of a failed chunk get back what the snapshot consumed.
Rearm(C) ==
  [k \in DOMAIN store |->
     LET mine == {p \in Gens(C) : p.key = k /\ ~p.final}
     IN IF Aggregating(k) \/ mine = {} THEN store[k]
        ELSE [store[k] EXCEPT !.exported = FALSE, !.initial = @ \/ \E p \in mine : p.initial]]

\* The generations of a failed chunk that are the last copy of something.
FinalSamples(gens) ==
  LET kept == [i \in DOMAIN gens |-> [gens[i] EXCEPT !.samples = {p \in @ : p.final}]]
  IN SelectSeq(kept, LAMBDA g : g.samples # {})

Kept(C) == {r \in C : FinalSamples(export.by[r]) # << >>}

\* The buffer with the chunk's last copies in it.
WithChunk(C) ==
  [r \in DOMAIN retry \cup Kept(C) |->
     (IF r \in DOMAIN retry THEN retry[r] ELSE << >>) \o (IF r \in Kept(C) THEN FinalSamples(export.by[r]) ELSE << >>)]

Newest(buf, r) == buf[r][Len(buf[r])].ts
GenSize(gens) == FoldLeft(LAMBDA n, g : n + Cardinality(g.samples), 0, gens)
BufferSize(buf) == SumFunction([r \in DOMAIN buf |-> GenSize(buf[r])])

\* The resources past the bound: those whose freshest generation is oldest.
StalestRetained(buf) ==
  LET Staler(q, r) == Newest(buf, q) < Newest(buf, r) \/ (Newest(buf, q) = Newest(buf, r) /\ q < r)
  IN {r \in DOMAIN buf :
        Cardinality({q \in DOMAIN buf : Staler(q, r)}) < Cardinality(DOMAIN buf) - LmMaxResources}

\* The generations past the bound on samples, oldest first: by their own time, then
\* by how quiet their resource is, then by its name and their place.
OldestGenerations(buf) ==
  LET all == UNION {{r} \X DOMAIN buf[r] : r \in DOMAIN buf}
      age(a) == <<buf[a[1]][a[2]].ts, Newest(buf, a[1]), a[1], a[2]>>
      Older(a, b) == \E n \in 1..4 : age(a)[n] < age(b)[n] /\ \A m \in 1..(n - 1) : age(a)[m] = age(b)[m]
      size(a) == Cardinality(buf[a[1]][a[2]].samples)
  IN {a \in all : BufferSize(buf) - MapThenSumSet(size, {b \in all : Older(b, a)}) > LmMaxSamples}

\* A chunk that failed for now: live samples go back to the store, last copies to
\* the buffer, and what the buffer cannot hold is counted.
Retain(C) ==
  LET all  == WithChunk(C)
      some == Restrict(all, DOMAIN all \ StalestRetained(all))
      old  == OldestGenerations(some)
      left == [r \in DOMAIN some |-> SelectSeq([i \in DOMAIN some[r] |-> <<i, some[r][i]>>],
                                               LAMBDA x : <<r, x[1]>> \notin old)]
      lost == (UNION {GenSamples(all[r]) : r \in StalestRetained(all)})
              \cup UNION {some[a[1]][a[2]].samples : a \in old}
  IN /\ store' = Rearm(C)
     /\ retry' = [r \in {q \in DOMAIN left : left[q] # << >>} |-> [i \in DOMAIN left[r] |-> left[r][i][2]]]
     /\ retained' = retained + SumFunctionOnSet([r \in LmResources |-> GenSize(FinalSamples(export.by[r]))], C)
                    - SumFunctionOnSet([r \in DOMAIN all |-> GenSize(all[r])], StalestRetained(all))
                    - MapThenSumSet(LAMBDA a : Cardinality(some[a[1]][a[2]].samples), old)
     /\ counted' = counted \cup Seen(lost)

\* A point's start is never after its time; a counter's first points come with the
\* zeros of its baseline, where there is room for one between start and time.
StartOf(p, ts) == Min({p.start, ts})
BaselineZeros(p, ts) == shape.kind[p.key] = "counter" /\ p.initial /\ StartOf(p, ts) < ts
Point(p, ts) == [start |-> StartOf(p, ts), seen |-> p.seen, ts |-> ts, zeros |-> BaselineZeros(p, ts)]

\* The points of stream k in a chunk, in the order they are rendered.
Rendered(C, k) ==
  LET r == shape.resource[k]
      mine == SelectSeq(export.by[r], LAMBDA g : \E p \in g.samples : p.key = k)
  IN IF r \notin C THEN << >>
     ELSE [i \in DOMAIN mine |-> Point(CHOOSE p \in mine[i].samples : p.key = k, mine[i].ts)]

\* The registry sends one payload; a set sends a chunk of the resources it has left.
Chunks == IF shape.role = "registry" THEN {export.left} ELSE SUBSET export.left \ {{}}

ChunkAccepted(C) ==
  /\ arrived' = arrived \cup Seen(Gens(C))
  /\ sent' = [k \in Streams |-> sent[k] \o Rendered(C, k)]
  /\ UNCHANGED <<store, retry, retained, counted, rejected, lmLeft>>

\* A set counts a chunk that is refused for good and lets it go.  The registry
\* tries again whatever the error.
ChunkFailed(C, permanent) ==
  /\ lmLeft.fails > 0
  /\ lmLeft' = [lmLeft EXCEPT !.fails = @ - 1]
  /\ IF shape.role = "registry" THEN store' = Rearm(C) /\ UNCHANGED <<retry, retained, counted, rejected>>
     ELSE IF permanent
     THEN /\ counted' = counted \cup Seen(Gens(C))
          /\ rejected' = rejected \cup {p.key : p \in Gens(C)}
          /\ UNCHANGED <<store, retry, retained>>
     ELSE Retain(C) /\ UNCHANGED rejected
  /\ UNCHANGED <<arrived, sent>>

\* A chunk has been sent, and the answer is here.
FlushReturns(C) ==
  /\ export.phase = "send"
  /\ C \in Chunks
  /\ ChunkAccepted(C) \/ \E permanent \in BOOLEAN : ChunkFailed(C, permanent)
  /\ export' = IF C = export.left THEN NoExport ELSE [export EXCEPT !.left = @ \ C]
  /\ UNCHANGED <<shape, lmNow, total, lastRead, replaced>>

LmNext ==
  \/ \E k \in Streams : RuleObserves(k) \/ EmitDirect(k) \/ RegObserves(k) \/ WithLabelValues(k)
  \/ \E k \in Streams, value \in {"nonfinite", "negative"} : Refuse(k, value)
  \/ SourceCounts
  \/ LmTick
  \/ ExportBegins
  \/ \E s \in AllSeries : Snapshot(s)
  \/ \E C \in SUBSET export.left : FlushReturns(C)

-----------------------------------------------------------------------------
(* Properties.                                                             *)

InFlight == Gens(IF export.phase = "snapshot" THEN LmResources ELSE export.left)
Unexported == UNION {store[k].seen : k \in {q \in DOMAIN store : ~store[q].exported}}

\* Every observation is in a payload that was accepted, is counted as dropped, gave
\* way to a later one of a gauge that is set, or is still on its way: in a value the next snapshot emits, in the export under
\* way, in the buffer of last copies, or unread at its source.  The buffer's
\* bookkeeping is exact and within both of its bounds.
ObservationsAccounted ==
  /\ (lmLeft.obs + 1)..shape.obs \subseteq
       counted \cup replaced \cup arrived \cup Unexported \cup Seen(InFlight)
       \cup Seen(UNION {GenSamples(retry[r]) : r \in DOMAIN retry}) \cup CounterDelta(lastRead, total)
  /\ retained = BufferSize(retry)
  /\ retained <= LmMaxSamples
  /\ Cardinality(DOMAIN retry) <= LmMaxResources

\* The accepted points of a counter never go back: on one start the value only
\* grows, time and start only move forward, and the first point of every start
\* comes with its baseline of zeros (unless a point before it was refused for good,
\* or leaves no room for them).
StreamsForward ==
  \A k \in Streams : shape.kind[k] = "counter" =>
    \A i \in DOMAIN sent[k] :
      LET p == sent[k][i]
          first == i = 1 \/ sent[k][i - 1].start # p.start
      IN /\ first => p.zeros \/ p.start = p.ts \/ k \in rejected
         /\ i > 1 => /\ sent[k][i - 1].start <= p.start /\ sent[k][i - 1].ts <= p.ts
                     /\ ~first => sent[k][i - 1].seen \subseteq p.seen

\* A count reaches the collector whole and in order (snapshot, retain,
\* evictOldestGenerations, rearm).
CountsDelivered == ObservationsAccounted /\ StreamsForward
=============================================================================
