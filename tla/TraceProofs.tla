----------------------------- MODULE TraceProofs -----------------------------
(***************************************************************************)
(* For any taps, exporters, series, shards, name lists and payloads: every *)
(* series the collector has seen moves forward and is dropped only once    *)
(* delivered, and a trace is consumed by the one shard its ring names.     *)
(* For any pushes, bounds and cache: an acked span is never unaccounted    *)
(* for, the latched buffer is empty whenever the mutex is free, and a      *)
(* trace is decided once as long as its verdict is remembered.  For any    *)
(* spans, payloads, window and bounds: two halves of a call that end apart *)
(* came a whole window apart, and each span is in one place.               *)
(***************************************************************************)
EXTENDS CumAgg, ShardRing, TailBuffer, EdgePairing, FiniteSetTheorems, SequenceTheorems, WellFoundedInduction, TLAPS

-----------------------------------------------------------------------------
(* Cumulative aggregation.                                                  *)

SeriesRecords == [id : Nat, start : Nat, seen : Nat, state : {"observed", "rendered", "delivered"}, calls : Nat]
Points == [key : AggKeys, id : Nat, calls : Nat]
Pointers == [key : AggKeys, id : Nat]
TapRecords == [pc : {"idle", "observe", "done"}, now : Nat, i : Nat, tries : Int]
ExportRecords == [pc : {"idle", "list", "copy", "mark"}, now : Nat, ptrs : Seq(Pointers), snap : SUBSET Points,
                  i : Nat, tries : Int]

\* Point p is of the same series as q and no earlier, or of a later series.
Ahead(p, q) == p.id > q.id \/ (p.id = q.id /\ p.calls >= q.calls)

Names(list, k) == \E j \in 1..Len(list) : list[j].key = k /\ list[j].id = series[k].id

\* The store: what was marked delivered was carried as it is, and no series is behind
\* what the collector knows of its key.
SeriesInv ==
  /\ aggClock \in Nat /\ births \in Nat
  /\ DOMAIN series \subseteq AggKeys /\ series \in [DOMAIN series -> SeriesRecords] /\ IsFiniteSet(DOMAIN series)
  /\ DOMAIN latest \subseteq AggKeys /\ latest \in [DOMAIN latest -> Points]
  /\ \A k \in Live : series[k].id <= births /\ (series[k].state = "delivered" => PointOf(k) \in carried)
  /\ \A k \in DOMAIN latest : latest[k].id <= births /\ (k \in Live => Ahead(series[k], latest[k]))
  /\ evicted \subseteq carried

TapsInv ==
  /\ tapped \in [Taps -> TapRecords]
  /\ \A t \in Taps : tapped[t].pc = "observe" => tapped[t].i \in 1..Len(SpansOf[t])

\* The export e: what it copied is no earlier than what the collector knows and no later than
\* the store; what it listed and nothing touched since is in its copy or, sent, was carried.
ExportInv(e) ==
  /\ export[e].pc # "idle" => gate = e
  /\ export[e].pc = "list" => rendered = << >>
  /\ export[e].pc = "copy" =>
       /\ \A p \in export[e].snap :
            /\ p.id <= births
            /\ p.key \in Live => Ahead(series[p.key], p)
            /\ p.key \in DOMAIN latest => Ahead(p, latest[p.key])
       /\ \A k \in Live : Names(rendered, k) /\ series[k].state = "rendered" => PointOf(k) \in export[e].snap
  /\ export[e].pc = "mark" =>
       \A k \in Live : Names(export[e].ptrs, k) /\ series[k].state = "rendered" => PointOf(k) \in carried

ExportsInv ==
  /\ export \in [Exporters -> ExportRecords] /\ rendered \in Seq(Pointers)
  /\ \A e \in Exporters : ExportInv(e)

AggInv == SeriesInv /\ TapsInv /\ ExportsInv

LEMMA AheadTransitive ==
  ASSUME NEW p, NEW q, NEW r, p.id \in Nat, p.calls \in Nat, q.id \in Nat, q.calls \in Nat, r.id \in Nat,
         r.calls \in Nat, Ahead(p, q), Ahead(q, r)
  PROVE  Ahead(p, r)
  BY DEF Ahead

LEMMA AggInitEstablishes == AggInit => AggInv
<1> SUFFICES ASSUME AggInit PROVE AggInv
  OBVIOUS
<1> USE AggAssumption
<1>0. \A S : [k \in {} |-> 0] \in [{} -> S] /\ DOMAIN [k \in {} |-> 0] = {}
  BY Zenon
<1>1. SeriesInv
  BY <1>0, FS_EmptySet DEF AggInit, SeriesInv, Live
<1>2. TapsInv
  BY DEF AggInit, TapsInv, TapRecords
<1>3. ExportsInv
  <2>1. \A e \in Exporters : export[e] = [pc |-> "idle", now |-> 0, ptrs |-> << >>, snap |-> {}, i |-> 0, tries |-> 0]
    BY DEF AggInit
  <2>2. [pc |-> "idle", now |-> 0, ptrs |-> << >>, snap |-> {}, i |-> 0, tries |-> 0] \in ExportRecords
    BY DEF ExportRecords
  <2>3. export \in [Exporters -> ExportRecords] /\ rendered \in Seq(Pointers)
    BY <2>2 DEF AggInit
  <2> QED BY <2>1, <2>3 DEF ExportsInv, ExportInv
<1> QED BY <1>1, <1>2, <1>3 DEF AggInv
-----------------------------------------------------------------------------
(* Observing.                                                               *)

LEMMA TapKeeps ==
  ASSUME AggInv, NEW t \in Taps, TapRefused(t) \/ TapConsumes(t) PROVE AggInv'
<1> USE AggAssumption
<1>0. UNCHANGED <<aggClock, series, rendered, gate, export, births, carried, evicted, latest>>
  BY DEF TapRefused, TapConsumes
<1>1. SeriesInv' /\ ExportsInv'
  BY <1>0 DEF AggInv, SeriesInv, ExportsInv, ExportInv, Live, PointOf, Names
<1>2. tapped \in [Taps -> TapRecords] /\ tapped[t] \in TapRecords /\ aggClock \in Nat
  BY DEF AggInv, TapsInv, SeriesInv
<1>3. PICK n \in TapRecords : /\ tapped' = [tapped EXCEPT ![t] = n]
                              /\ n.pc = "observe" => n.i \in 1..Len(SpansOf[t])
  <2>1. CASE TapRefused(t)
    <3> PICK n : n = [tapped[t] EXCEPT !.tries = @ + 1]
      OBVIOUS
    <3>1. n \in TapRecords /\ n.pc = "idle"
      BY <2>1, <1>2 DEF TapRecords, TapRefused
    <3>2. tapped' = [tapped EXCEPT ![t] = n]
      BY <2>1 DEF TapRefused
    <3> QED BY <3>1, <3>2
  <2>2. CASE TapConsumes(t)
    <3> PICK n : n = [pc |-> "observe", now |-> aggClock, i |-> 1, tries |-> tapped[t].tries + 1]
      OBVIOUS
    <3>1. n \in TapRecords /\ n.i = 1
      BY <1>2 DEF TapRecords
    <3>2. tapped' = [tapped EXCEPT ![t] = n]
      BY <2>2 DEF TapConsumes
    <3>3. SpansOf[t] \in Seq(AggKeys) /\ SpansOf[t] # << >>
      OBVIOUS
    <3>4. Len(SpansOf[t]) \in Nat /\ Len(SpansOf[t]) >= 1
      BY <3>3, EmptySeq
    <3>5. n.i \in 1..Len(SpansOf[t])
      BY <3>1, <3>4
    <3> QED BY <3>1, <3>2, <3>5
  <2> QED BY <2>1, <2>2
<1>4. TapsInv'
  <2>1. \A x \in Taps : tapped'[x] = IF x = t THEN n ELSE tapped[x]
    BY <1>2, <1>3
  <2> QED BY <2>1, <1>2, <1>3 DEF AggInv, TapsInv
<1> QED BY <1>1, <1>4 DEF AggInv

\* One series x replaced by one that is ahead of it, or a fresh one added.
LEMMA SeriesObserved ==
  ASSUME SeriesInv, ExportsInv, NEW k \in AggKeys, NEW s \in SeriesRecords, s.state = "observed",
         births' \in Nat, births' >= births, s.id <= births',
         IF k \in Live THEN Ahead(s, series[k]) ELSE s.id > births,
         series' = WithSeries(k, s), UNCHANGED <<aggClock, rendered, gate, export, carried, evicted, latest>>
  PROVE  SeriesInv' /\ ExportsInv'
<1>0. /\ series \in [DOMAIN series -> SeriesRecords] /\ DOMAIN series \subseteq AggKeys /\ births \in Nat
      /\ latest \in [DOMAIN latest -> Points]
  BY DEF SeriesInv
<1>1. /\ DOMAIN series' = DOMAIN series \cup {k} /\ series'[k] = s
      /\ \A j \in DOMAIN series : j # k => series'[j] = series[j]
      /\ series' \in [DOMAIN series' -> SeriesRecords]
  BY <1>0 DEF WithSeries, Live
<1>2. \A p : p.id \in Nat /\ p.calls \in Nat /\ p.id <= births /\ (k \in Live => Ahead(series[k], p)) => Ahead(s, p)
  <2> SUFFICES ASSUME NEW p, p.id \in Nat, p.calls \in Nat, p.id <= births, k \in Live => Ahead(series[k], p)
               PROVE  Ahead(s, p)
    OBVIOUS
  <2>0. s.id \in Nat /\ s.calls \in Nat
    BY DEF SeriesRecords
  <2>1. CASE k \in Live
    <3>1. series[k].id \in Nat /\ series[k].calls \in Nat
      BY <2>1, <1>0 DEF Live, SeriesRecords
    <3> QED BY <2>0, <2>1, <3>1, AheadTransitive
  <2>2. CASE k \notin Live
    BY <2>0, <2>2, <1>0 DEF Ahead
  <2> QED BY <2>1, <2>2
<1>3. SeriesInv'
  <2>1. ASSUME NEW j \in DOMAIN series'
        PROVE  series'[j].id <= births' /\ (series'[j].state = "delivered" => PointOf(j)' \in carried')
    <3>1. CASE j = k
      BY <3>1, <1>1
    <3>2. CASE j # k
      <4>1. j \in Live /\ series'[j] = series[j] /\ series[j].id \in Nat
        BY <3>2, <1>0, <1>1 DEF Live, SeriesRecords
      <4>2. series[j].id <= births /\ (series[j].state = "delivered" => PointOf(j) \in carried)
        BY <4>1 DEF SeriesInv
      <4> QED BY <4>1, <4>2, <1>0 DEF PointOf
    <3> QED BY <3>1, <3>2
  <2>2. ASSUME NEW j \in DOMAIN latest
        PROVE  latest[j].id <= births' /\ (j \in DOMAIN series' => Ahead(series'[j], latest[j]))
    <3>1. latest[j].id \in Nat /\ latest[j].calls \in Nat /\ latest[j].id <= births
      BY <1>0 DEF SeriesInv, Points
    <3>2. CASE j = k
      BY <3>1, <3>2, <1>0, <1>1, <1>2 DEF SeriesInv
    <3>3. CASE j # k
      BY <3>1, <3>3, <1>0, <1>1 DEF SeriesInv, Live
    <3> QED BY <3>2, <3>3
  <2>3. IsFiniteSet(DOMAIN series \cup {k})
    BY FS_AddElement DEF SeriesInv
  <2>4. IsFiniteSet(DOMAIN series')
    BY <2>3, <1>1
  <2> QED BY <2>1, <2>2, <2>4, <1>0, <1>1 DEF SeriesInv, Live
<1>4. ASSUME NEW e \in Exporters PROVE ExportInv(e)'
  <2>0. export[e] \in ExportRecords /\ ExportInv(e)
    BY DEF ExportsInv
  <2>1. ASSUME export[e].pc = "copy", NEW p \in export[e].snap
        PROVE  p.id <= births' /\ (p.key \in DOMAIN series' => Ahead(series'[p.key], p))
    <3>1. p.id \in Nat /\ p.calls \in Nat /\ p.id <= births /\ (p.key \in Live => Ahead(series[p.key], p))
      BY <2>0, <2>1 DEF ExportInv, ExportRecords, Points
    <3>2. CASE p.key = k
      BY <3>1, <3>2, <1>0, <1>1, <1>2
    <3>3. CASE p.key # k
      BY <3>1, <3>3, <1>0, <1>1 DEF Live
    <3> QED BY <3>2, <3>3
  <2>2. ASSUME NEW j \in DOMAIN series', series'[j].state = "rendered"
        PROVE  /\ j \in Live /\ series[j].state = "rendered" /\ PointOf(j)' = PointOf(j)
               /\ \A list : Names(list, j)' => Names(list, j)
    <3>1. j # k
      BY <2>2, <1>1
    <3>2. j \in Live /\ series'[j] = series[j]
      BY <3>1, <1>1 DEF Live
    <3> QED BY <2>2, <3>2 DEF PointOf, Names
  <2> QED BY <2>0, <2>1, <2>2 DEF ExportInv, Live
<1> QED BY <1>3, <1>4 DEF ExportsInv

LEMMA ObserveKeeps == ASSUME AggInv, NEW t \in Taps, Observe(t) PROVE AggInv'
<1> USE AggAssumption
<1>0. /\ tapped \in [Taps -> TapRecords] /\ tapped[t] \in TapRecords /\ tapped[t].pc = "observe"
      /\ tapped[t].i \in 1..Len(SpansOf[t]) /\ SpansOf[t] \in Seq(AggKeys) /\ births \in Nat
  BY DEF AggInv, TapsInv, Observe, SeriesInv
<1> PICK n : n = [tapped[t] EXCEPT !.i = @ + 1, !.pc = IF tapped[t].i = Len(SpansOf[t]) THEN "done" ELSE @]
  OBVIOUS
<1>1. n \in TapRecords /\ (n.pc = "observe" => n.i \in 1..Len(SpansOf[t]))
  <2> PICK i \in Nat : i = tapped[t].i
    BY <1>0 DEF TapRecords
  <2> PICK len \in Nat : len = Len(SpansOf[t])
    BY <1>0
  <2> PICK pc : pc = IF i = len THEN "done" ELSE "observe"
    OBVIOUS
  <2>0. i \in 1..len /\ i + 1 \in Nat /\ pc \in {"observe", "done"} /\ (pc = "observe" => i + 1 \in 1..len)
    BY <1>0
  <2>1. n = [tapped[t] EXCEPT !.i = i + 1, !.pc = pc]
    BY <1>0
  <2>2. n = [pc |-> pc, now |-> tapped[t].now, i |-> i + 1, tries |-> tapped[t].tries]
    BY <2>1, <1>0 DEF TapRecords
  <2> QED BY <2>0, <2>2, <1>0 DEF TapRecords
<1>2. tapped' = [tapped EXCEPT ![t] = n]
  BY DEF Observe
<1>3. TapsInv'
  <2>1. \A x \in Taps : tapped'[x] = IF x = t THEN n ELSE tapped[x]
    BY <1>0, <1>2
  <2> QED BY <2>1, <1>0, <1>1, <1>2 DEF AggInv, TapsInv
<1> PICK k : k = SpansOf[t][tapped[t].i]
  OBVIOUS
<1> PICK read : read = tapped[t].now
  OBVIOUS
<1>4. k \in AggKeys /\ read \in Nat
  BY <1>0, ElementOfSeq DEF TapRecords
<1>5. UNCHANGED <<aggClock, rendered, gate, export, carried, evicted, latest>>
  BY DEF Observe
<1>6. CASE UNCHANGED <<series, births>>
  <2>1. SeriesInv' /\ ExportsInv'
    BY <1>5, <1>6 DEF AggInv, SeriesInv, ExportsInv, ExportInv, Live, PointOf, Names
  <2> QED BY <2>1, <1>3 DEF AggInv
<1>7. ASSUME NEW s \in AdmitLocked(k, read),
             series' = WithSeries(k, ObservedLocked([s EXCEPT !.calls = @ + 1], read)),
             births' = IF k \in Live THEN births ELSE births + 1
      PROVE  AggInv'
  <2>0. series \in [DOMAIN series -> SeriesRecords] /\ \A j \in Live : series[j].id <= births
    BY DEF AggInv, SeriesInv
  <2>1. /\ s \in SeriesRecords
        /\ IF k \in Live THEN s = series[k] /\ s.id <= births ELSE s.id = births + 1
    <3>1. CASE k \in Live
      BY <3>1, <1>7, <2>0 DEF AdmitLocked, Live
    <3>2. CASE k \notin Live
      <4>1. s = [id |-> births + 1, start |-> read, seen |-> read, state |-> "observed", calls |-> 0]
        BY <3>2, <1>7 DEF AdmitLocked
      <4> QED BY <3>2, <4>1, <1>0, <1>4 DEF SeriesRecords
    <3> QED BY <3>1, <3>2
  <2> PICK new : new = ObservedLocked([s EXCEPT !.calls = @ + 1], read)
    OBVIOUS
  <2>2. new \in SeriesRecords /\ new.state = "observed" /\ new.id = s.id /\ new.calls = s.calls + 1
    <3> PICK a : a = [s EXCEPT !.calls = @ + 1]
      OBVIOUS
    <3>1. a \in SeriesRecords /\ a.id = s.id /\ a.calls = s.calls + 1
      BY <2>1 DEF SeriesRecords
    <3>2. new = [a EXCEPT !.seen = read, !.state = "observed"]
      BY DEF ObservedLocked
    <3> QED BY <3>1, <3>2, <1>4 DEF SeriesRecords
  <2>3. s.id \in Nat /\ s.calls \in Nat
    BY <2>1 DEF SeriesRecords
  <2>4. new.id <= births' /\ births' \in Nat /\ births' >= births
    BY <2>1, <2>2, <1>0, <1>7
  <2>5. IF k \in Live THEN Ahead(new, series[k]) ELSE new.id > births
    BY <2>1, <2>2, <2>3, <1>0 DEF Ahead
  <2>6. series' = WithSeries(k, new)
    BY <1>7
  <2>7. SeriesInv' /\ ExportsInv'
    BY <2>2, <2>4, <2>5, <2>6, <1>4, <1>5, SeriesObserved DEF AggInv
  <2> QED BY <2>7, <1>3 DEF AggInv
<1> QED BY <1>6, <1>7 DEF Observe
-----------------------------------------------------------------------------
(* Exporting.                                                               *)

\* A step of the export that holds the gate, or takes it: no other is under way.
LEMMA ExportSteps ==
  ASSUME ExportsInv, NEW e \in Exporters, export[e].pc # "idle" \/ gate = "free", NEW n \in ExportRecords,
         export' = [export EXCEPT ![e] = n], rendered' \in Seq(Pointers), ExportInv(e)'
  PROVE  ExportsInv'
<1> USE AggAssumption
<1>0. export \in [Exporters -> ExportRecords] /\ gate \in {e, "free"}
  BY DEF ExportsInv, ExportInv
<1>1. ASSUME NEW x \in Exporters PROVE ExportInv(x)'
  <2>1. CASE x = e
    BY <2>1
  <2>2. CASE x # e
    <3>1. export[x].pc = "idle" /\ export'[x] = export[x]
      BY <2>2, <1>0 DEF ExportsInv, ExportInv
    <3> QED BY <3>1 DEF ExportInv
  <2> QED BY <2>1, <2>2
<1> QED BY <1>0, <1>1 DEF ExportsInv

LEMMA SeriesFrame ==
  ASSUME SeriesInv, UNCHANGED <<aggClock, series, births, carried, evicted, latest>> PROVE SeriesInv'
  BY DEF SeriesInv, Live, PointOf

LEMMA TapsFrame == ASSUME TapsInv, UNCHANGED tapped PROVE TapsInv'
  BY DEF TapsInv

LEMMA CancelKeeps == ASSUME AggInv, NEW e \in Exporters, ExportCancelled(e) PROVE AggInv'
<1>0. /\ UNCHANGED <<aggClock, series, rendered, gate, tapped, births, carried, evicted, latest>>
      /\ export \in [Exporters -> ExportRecords] /\ export[e] \in ExportRecords /\ export[e].pc = "idle"
  BY DEF ExportCancelled, AggInv, ExportsInv
<1>1. SeriesInv' /\ TapsInv'
  BY <1>0, SeriesFrame, TapsFrame DEF AggInv
<1> PICK n : n = [export[e] EXCEPT !.tries = @ + 1]
  OBVIOUS
<1>2. n \in ExportRecords /\ n.pc = "idle" /\ export' = [export EXCEPT ![e] = n]
  BY <1>0 DEF ExportCancelled, ExportRecords
<1>3. \A x \in Exporters : export'[x] = IF x = e THEN n ELSE export[x]
  BY <1>0, <1>2
<1>4. ASSUME NEW x \in Exporters PROVE ExportInv(x)'
  <2>1. CASE x = e
    BY <2>1, <1>2, <1>3 DEF ExportInv
  <2>2. CASE x # e
    BY <2>2, <1>0, <1>3 DEF AggInv, ExportsInv, ExportInv, Live, Names, PointOf
  <2> QED BY <2>1, <2>2
<1>5. ExportsInv'
  BY <1>0, <1>2, <1>4 DEF AggInv, ExportsInv
<1> QED BY <1>1, <1>5 DEF AggInv

LEMMA GateKeeps == ASSUME AggInv, NEW e \in Exporters, GateTaken(e) PROVE AggInv'
<1>0. /\ UNCHANGED <<aggClock, series, tapped, births, carried, evicted, latest>> /\ gate = "free" /\ gate' = e
      /\ rendered' = << >> /\ export \in [Exporters -> ExportRecords] /\ export[e] \in ExportRecords /\ aggClock \in Nat
  BY DEF GateTaken, AggInv, ExportsInv, SeriesInv
<1>1. SeriesInv' /\ TapsInv'
  BY <1>0, SeriesFrame, TapsFrame DEF AggInv
<1> PICK n : n = [export[e] EXCEPT !.pc = "list", !.now = aggClock, !.tries = @ + 1]
  OBVIOUS
<1>2. n \in ExportRecords /\ n.pc = "list"
  <2>1. n = [pc |-> "list", now |-> aggClock, ptrs |-> export[e].ptrs, snap |-> export[e].snap, i |-> export[e].i,
             tries |-> export[e].tries + 1]
    BY <1>0 DEF ExportRecords
  <2> QED BY <2>1, <1>0 DEF ExportRecords
<1>3. export' = [export EXCEPT ![e] = n]
  BY DEF GateTaken
<1>4. export'[e] = n /\ rendered' \in Seq(Pointers)
  BY <1>0, <1>3
<1>5. ExportInv(e)'
  BY <1>0, <1>2, <1>4 DEF ExportInv
<1>6. ExportsInv'
  BY <1>0, <1>2, <1>3, <1>4, <1>5, ExportSteps DEF AggInv
<1> QED BY <1>1, <1>6 DEF AggInv

\* The store after some of its series left, none of them before it was carried.
LEMMA ListKeeps == ASSUME AggInv, NEW e \in Exporters, ListLive(e) PROVE AggInv'
<1> PICK gone : gone = {k \in Live : Evictable(k, export[e].now)}
  OBVIOUS
<1>0. /\ UNCHANGED <<aggClock, rendered, gate, tapped, births, carried, latest>> /\ export[e].pc = "list"
      /\ series' = [k \in Live \ gone |-> series[k]] /\ evicted' = evicted \cup {PointOf(k) : k \in gone}
      /\ export \in [Exporters -> ExportRecords] /\ export[e] \in ExportRecords /\ rendered = << >> /\ gate = e
  BY DEF ListLive, AggInv, ExportsInv, ExportInv
<1>1. gone \subseteq Live /\ \A k \in gone : series[k].state = "delivered"
  BY DEF Evictable
<1>2. /\ DOMAIN series' = DOMAIN series \ gone /\ \A k \in DOMAIN series' : series'[k] = series[k]
      /\ series' \in [DOMAIN series' -> SeriesRecords]
  BY <1>0 DEF Live, AggInv, SeriesInv
<1>3. SeriesInv'
  <2>1. IsFiniteSet(DOMAIN series)
    BY DEF AggInv, SeriesInv
  <2>2. IsFiniteSet(DOMAIN series \ gone)
    BY <2>1, FS_Subset
  <2>3. evicted' \subseteq carried'
    BY <1>0, <1>1 DEF AggInv, SeriesInv
  <2>4. \A k \in DOMAIN series' : PointOf(k)' = PointOf(k) /\ k \in Live
    BY <1>2 DEF PointOf, Live
  <2> QED BY <2>2, <2>3, <2>4, <1>0, <1>2 DEF AggInv, SeriesInv, Live
<1>4. PICK walk \in Walks(Live \ gone) :
          export' = [export EXCEPT ![e] =
            [@ EXCEPT !.ptrs = [j \in DOMAIN walk |-> [key |-> walk[j], id |-> series[walk[j]].id]],
                      !.i = 0, !.snap = {}, !.pc = "copy"]]
  BY DEF ListLive
<1> PICK ptrs : ptrs = [j \in DOMAIN walk |-> [key |-> walk[j], id |-> series[walk[j]].id]]
  OBVIOUS
<1>5. ptrs \in Seq(Pointers)
  <2>1. IsFiniteSet(Live \ gone)
    <3>1. IsFiniteSet(Live)
      BY DEF AggInv, SeriesInv, Live
    <3> QED BY <3>1, FS_Subset
  <2>2. PICK m \in Nat : m = Cardinality(Live \ gone)
    BY <2>1, FS_CardinalityType
  <2>3. walk \in [1..m -> Live \ gone]
    BY <2>2 DEF Walks
  <2>4. \A k \in Live : k \in AggKeys /\ series[k].id \in Nat
    BY DEF AggInv, SeriesInv, SeriesRecords, Live
  <2>5. \A j \in 1..m : [key |-> walk[j], id |-> series[walk[j]].id] \in Pointers
    BY <2>3, <2>4 DEF Pointers
  <2>6. ptrs = [j \in 1..m |-> [key |-> walk[j], id |-> series[walk[j]].id]]
    BY <2>3
  <2>7. ptrs \in [1..m -> Pointers]
    BY <2>5, <2>6
  <2> QED BY <2>7
<1> PICK n : n = [export[e] EXCEPT !.ptrs = ptrs, !.i = 0, !.snap = {}, !.pc = "copy"]
  OBVIOUS
<1>6. n \in ExportRecords /\ n.pc = "copy" /\ n.snap = {}
  BY <1>0, <1>5 DEF ExportRecords
<1>7. export' = [export EXCEPT ![e] = n]
  BY <1>4
<1>8. export'[e] = n /\ rendered' \in Seq(Pointers)
  BY <1>0, <1>7
<1>9. ExportInv(e)'
  BY <1>0, <1>6, <1>8 DEF ExportInv, Names
<1>10. ExportsInv'
  BY <1>0, <1>6, <1>7, <1>8, <1>9, ExportSteps DEF AggInv
<1>11. TapsInv'
  BY <1>0, TapsFrame DEF AggInv
<1> QED BY <1>3, <1>10, <1>11 DEF AggInv

LEMMA StretchIs ==
  ASSUME NEW S, NEW q \in Seq(S), NEW i \in Nat, NEW end \in Nat, i < end, end <= Len(q), NEW c,
         c = SubSeq(q, i + 1, end)
  PROVE  c \in Seq(S) /\ \A m \in 1..Len(c) : i + m \in 1..Len(q) /\ c[m] = q[i + m]
<1>1. \A m \in i + 1..end : q[m] \in S
  OBVIOUS
<1>2. /\ c \in Seq(S) /\ Len(c) = (IF i + 1 <= end THEN end - (i + 1) + 1 ELSE 0)
      /\ \A m \in 1..end - (i + 1) + 1 : c[m] = q[i + 1 + m - 1]
  BY <1>1, SubSeqProperties
<1> QED BY <1>2

\* A chunk is a stretch of the list it is taken from.
LEMMA ChunkIs ==
  ASSUME NEW e, export[e] \in ExportRecords, export[e].i < Len(export[e].ptrs)
  PROVE  /\ ChunkOf(e) \in Seq(Pointers)
         /\ \A j \in 1..Len(ChunkOf(e)) : \E m \in 1..Len(export[e].ptrs) : ChunkOf(e)[j] = export[e].ptrs[m]
<1> PICK ptrs : ptrs = export[e].ptrs
  OBVIOUS
<1> PICK i \in Nat : i = export[e].i
  BY DEF ExportRecords
<1> PICK len \in Nat : len = Len(ptrs)
  BY DEF ExportRecords
<1> PICK end \in Nat : end = ChunkEnd(e)
  BY AggAssumption DEF ChunkEnd
<1>1. ptrs \in Seq(Pointers) /\ i < len /\ end <= len /\ end > i
  BY AggAssumption DEF ExportRecords, ChunkEnd
<1> PICK c : c = ChunkOf(e)
  OBVIOUS
<1>2. c = SubSeq(ptrs, i + 1, end) /\ end <= Len(ptrs) /\ i < end
  BY <1>1 DEF ChunkOf
<1>3. c \in Seq(Pointers) /\ \A m \in 1..Len(c) : i + m \in 1..Len(ptrs) /\ c[m] = ptrs[i + m]
  BY ONLY <1>1, <1>2, StretchIs
<1> QED BY <1>3

\* A store whose series changed in their state only.
LEMMA StatesMoved ==
  ASSUME SeriesInv, DOMAIN series' = DOMAIN series,
         \A k \in Live : /\ series'[k] \in SeriesRecords /\ series'[k].id = series[k].id
                         /\ series'[k].calls = series[k].calls
                         /\ series'[k].state = "delivered" => PointOf(k) \in carried,
         series' \in [DOMAIN series -> SeriesRecords],
         UNCHANGED <<aggClock, births, carried, evicted, latest>>
  PROVE  SeriesInv' /\ \A k \in Live : PointOf(k)' = PointOf(k)
<1>1. \A k \in Live : PointOf(k)' = PointOf(k)
  BY DEF PointOf
<1>2. \A k \in Live : \A q : Ahead(series[k], q) => Ahead(series'[k], q)
  BY DEF Ahead
<1> QED BY <1>1, <1>2 DEF SeriesInv, Live

LEMMA CopyKeeps == ASSUME AggInv, NEW e \in Exporters, CopyChunk(e) PROVE AggInv'
<1> PICK ks : ks = {p.key : p \in Chunked(e)}
  OBVIOUS
<1> PICK c : c = ChunkOf(e)
  OBVIOUS
<1>0. /\ UNCHANGED <<aggClock, gate, tapped, births, carried, evicted, latest>> /\ export[e].pc = "copy"
      /\ export[e].i < Len(export[e].ptrs) /\ rendered' = rendered \o c
      /\ export \in [Exporters -> ExportRecords] /\ export[e] \in ExportRecords /\ rendered \in Seq(Pointers) /\ gate = e
      /\ series' = [k \in Live |-> IF k \in ks THEN [series[k] EXCEPT !.state = "rendered"] ELSE series[k]]
  BY DEF CopyChunk, AggInv, ExportsInv, ExportInv
<1>s. SeriesInv /\ ExportInv(e)
  BY DEF AggInv, ExportsInv
<1>c. c \in Seq(Pointers)
  BY <1>0, ChunkIs
<1>k. /\ \A k \in ks : k \in Live
      /\ \A k \in Live : Names(c, k) => k \in ks
  <2>1. \A k \in ks : k \in Live
    BY DEF Chunked, Held
  <2>2. ASSUME NEW k \in Live, Names(c, k) PROVE k \in ks
    <3> PICK j \in 1..Len(c) : c[j].key = k /\ c[j].id = series[k].id
      BY <2>2 DEF Names
    <3>1. Held(c[j])
      BY DEF Held
    <3>2. c[j] \in Chunked(e)
      BY <3>1 DEF Chunked
    <3> QED BY <3>2
  <2> QED BY <2>1, <2>2
<1>1. \A k \in Live : series[k] \in SeriesRecords
  BY <1>s DEF SeriesInv, Live
<1>2. \A k \in Live : /\ series'[k] \in SeriesRecords /\ series'[k].id = series[k].id /\ series'[k].calls = series[k].calls
                      /\ series'[k].state = IF k \in ks THEN "rendered" ELSE series[k].state
  <2> SUFFICES ASSUME NEW k \in Live
               PROVE  /\ series'[k] \in SeriesRecords /\ series'[k].id = series[k].id /\ series'[k].calls = series[k].calls
                      /\ series'[k].state = IF k \in ks THEN "rendered" ELSE series[k].state
    OBVIOUS
  <2>1. series'[k] = IF k \in ks THEN [series[k] EXCEPT !.state = "rendered"] ELSE series[k]
    BY <1>0
  <2> QED BY <2>1, <1>1 DEF SeriesRecords
<1>3. DOMAIN series' = DOMAIN series /\ series' \in [DOMAIN series -> SeriesRecords]
  BY <1>0, <1>2 DEF Live
<1>4. SeriesInv' /\ \A k \in Live : PointOf(k)' = PointOf(k)
  <2>1. \A k \in Live : series'[k].state = "delivered" => PointOf(k) \in carried
    BY <1>2, <1>s DEF SeriesInv
  <2> QED BY <2>1, <1>0, <1>2, <1>3, <1>s, StatesMoved
<1> PICK snap : snap = export[e].snap \cup {PointOf(k) : k \in ks}
  OBVIOUS
<1>5. \A k \in Live : PointOf(k) \in Points /\ PointOf(k).key = k /\ PointOf(k).id = series[k].id
                      /\ PointOf(k).calls = series[k].calls /\ series[k].id \in Nat /\ series[k].calls \in Nat /\ k \in AggKeys
  <2>1. \A k \in Live : series[k].id \in Nat /\ series[k].calls \in Nat /\ k \in AggKeys
    BY <1>1, <1>s DEF SeriesRecords, SeriesInv, Live
  <2> QED BY <2>1 DEF PointOf, Points
<1>6. snap \subseteq Points
  BY <1>0, <1>5, <1>k DEF ExportRecords
<1> PICK n : n = [export[e] EXCEPT !.i = @ + SnapChunk, !.snap = snap]
  OBVIOUS
<1>7. n \in ExportRecords /\ n.pc = "copy" /\ n.snap = snap
  <2> PICK i \in Nat : i = export[e].i + SnapChunk
    BY <1>0, AggAssumption DEF ExportRecords
  <2>1. n = [export[e] EXCEPT !.i = i, !.snap = snap]
    OBVIOUS
  <2> QED BY <2>1, <1>0, <1>6 DEF ExportRecords
<1>8. export' = [export EXCEPT ![e] = n]
  BY DEF CopyChunk
<1>9. export'[e] = n /\ rendered' \in Seq(Pointers)
  BY <1>0, <1>8, <1>c
<1>10. ASSUME NEW p \in snap
       PROVE  /\ p.id <= births /\ (p.key \in Live => Ahead(series'[p.key], p))
              /\ p.key \in DOMAIN latest => Ahead(p, latest[p.key])
  <2>1. CASE p \in export[e].snap
    <3>1. /\ p.id <= births /\ (p.key \in Live => Ahead(series[p.key], p))
          /\ p.key \in DOMAIN latest => Ahead(p, latest[p.key])
      BY <2>1, <1>0, <1>s DEF ExportInv
    <3> QED BY <3>1, <1>2 DEF Ahead
  <2>2. CASE p \notin export[e].snap
    <3> PICK k \in ks : p = PointOf(k)
      BY <2>2
    <3>1. k \in Live /\ p.key = k /\ p.id = series[k].id /\ p.calls = series[k].calls /\ p.id \in Nat /\ p.calls \in Nat
      BY <1>5, <1>k
    <3>2. series[k].id <= births /\ (k \in DOMAIN latest => Ahead(series[k], latest[k]))
      BY <3>1, <1>s DEF SeriesInv
    <3>3. Ahead(series'[k], p)
      BY <3>1, <1>2 DEF Ahead
    <3>4. k \in DOMAIN latest => Ahead(p, latest[k])
      BY <3>1, <3>2 DEF Ahead
    <3> QED BY <3>1, <3>2, <3>3, <3>4
  <2> QED BY <2>1, <2>2
<1>11. ASSUME NEW k \in Live, Names(rendered, k)', series'[k].state = "rendered" PROVE PointOf(k) \in snap
  <2>1. CASE k \in ks
    BY <2>1
  <2>2. CASE k \notin ks
    <3>1. series[k].state = "rendered" /\ ~Names(c, k) /\ series'[k].id = series[k].id
      BY <2>2, <1>2, <1>11, <1>k
    <3>2. PICK j \in 1..Len(rendered') : rendered'[j].key = k /\ rendered'[j].id = series[k].id
      BY <1>11, <3>1 DEF Names
    <3>3. /\ Len(rendered') = Len(rendered) + Len(c) /\ Len(rendered) \in Nat /\ Len(c) \in Nat
          /\ \A m \in 1..Len(rendered') : rendered'[m] = IF m <= Len(rendered) THEN rendered[m] ELSE c[m - Len(rendered)]
      BY <1>0, <1>c, ConcatProperties
    <3>4. j <= Len(rendered)
      <4> SUFFICES ASSUME j > Len(rendered) PROVE FALSE
        BY <3>3
      <4>1. j - Len(rendered) \in 1..Len(c) /\ rendered'[j] = c[j - Len(rendered)]
        BY <3>3
      <4> QED BY <4>1, <3>1, <3>2 DEF Names
    <3>5. Names(rendered, k)
      BY <3>2, <3>3, <3>4 DEF Names
    <3> QED BY <3>1, <3>5, <1>0, <1>s DEF ExportInv
  <2> QED BY <2>1, <2>2
<1>12. ExportInv(e)'
  <2>1. Live' = Live
    BY <1>3 DEF Live
  <2> QED BY <2>1, <1>0, <1>4, <1>7, <1>9, <1>10, <1>11 DEF ExportInv
<1>13. ExportsInv'
  BY <1>0, <1>7, <1>8, <1>9, <1>12, ExportSteps DEF AggInv
<1>14. TapsInv'
  BY <1>0, TapsFrame DEF AggInv
<1> QED BY <1>4, <1>13, <1>14 DEF AggInv

LEMMA MarkKeeps == ASSUME AggInv, NEW e \in Exporters, MarkChunk(e) PROVE AggInv'
<1> PICK ks : ks = {p.key : p \in Chunked(e)}
  OBVIOUS
<1> PICK c : c = ChunkOf(e)
  OBVIOUS
<1>0. /\ UNCHANGED <<aggClock, rendered, gate, tapped, births, carried, evicted, latest>> /\ export[e].pc = "mark"
      /\ export[e].i < Len(export[e].ptrs)
      /\ export \in [Exporters -> ExportRecords] /\ export[e] \in ExportRecords /\ rendered \in Seq(Pointers) /\ gate = e
      /\ series' = [k \in Live |-> IF k \in ks THEN [series[k] EXCEPT !.state = DeliveredState(series[k])] ELSE series[k]]
  BY DEF MarkChunk, AggInv, ExportsInv, ExportInv
<1>s. SeriesInv /\ ExportInv(e)
  BY DEF AggInv, ExportsInv
<1>k. \A k \in ks : k \in Live /\ Names(export[e].ptrs, k)
  <2> SUFFICES ASSUME NEW p \in Chunked(e) PROVE p.key \in Live /\ Names(export[e].ptrs, p.key)
    OBVIOUS
  <2>1. Held(p) /\ \E j \in 1..Len(c) : p = c[j]
    BY DEF Chunked
  <2>2. \E m \in 1..Len(export[e].ptrs) : p = export[e].ptrs[m]
    BY <2>1, <1>0, ChunkIs
  <2> QED BY <2>1, <2>2 DEF Held, Names
<1>1. \A k \in Live : series[k] \in SeriesRecords
  BY <1>s DEF SeriesInv, Live
<1>2. \A k \in Live : /\ series'[k] \in SeriesRecords /\ series'[k].id = series[k].id /\ series'[k].calls = series[k].calls
                      /\ \/ series'[k].state = series[k].state
                         \/ k \in ks /\ series[k].state = "rendered" /\ series'[k].state = "delivered"
  <2> SUFFICES ASSUME NEW k \in Live
               PROVE  /\ series'[k] \in SeriesRecords /\ series'[k].id = series[k].id /\ series'[k].calls = series[k].calls
                      /\ \/ series'[k].state = series[k].state
                         \/ k \in ks /\ series[k].state = "rendered" /\ series'[k].state = "delivered"
    OBVIOUS
  <2>1. series'[k] = IF k \in ks THEN [series[k] EXCEPT !.state = DeliveredState(series[k])] ELSE series[k]
    BY <1>0
  <2> PICK d : d = DeliveredState(series[k])
    OBVIOUS
  <2>2. \/ d = series[k].state
        \/ series[k].state = "rendered" /\ d = "delivered"
    BY DEF DeliveredState
  <2> QED BY <2>1, <2>2, <1>1 DEF SeriesRecords
<1>3. DOMAIN series' = DOMAIN series /\ series' \in [DOMAIN series -> SeriesRecords]
  BY <1>0, <1>2 DEF Live
<1>4. SeriesInv' /\ \A k \in Live : PointOf(k)' = PointOf(k)
  <2>1. \A k \in Live : series'[k].state = "delivered" => PointOf(k) \in carried
    BY <1>0, <1>2, <1>k, <1>s DEF SeriesInv, ExportInv
  <2> QED BY <2>1, <1>0, <1>2, <1>3, <1>s, StatesMoved
<1> PICK n : n = [export[e] EXCEPT !.i = @ + SnapChunk]
  OBVIOUS
<1>5. n \in ExportRecords /\ n.pc = "mark" /\ n.ptrs = export[e].ptrs
  <2> PICK i \in Nat : i = export[e].i + SnapChunk
    BY <1>0, AggAssumption DEF ExportRecords
  <2>1. n = [export[e] EXCEPT !.i = i]
    OBVIOUS
  <2> QED BY <2>1, <1>0 DEF ExportRecords
<1>6. export' = [export EXCEPT ![e] = n]
  BY DEF MarkChunk
<1>7. export'[e] = n /\ rendered' \in Seq(Pointers)
  BY <1>0, <1>6
<1>8. ExportInv(e)'
  <2>1. Live' = Live
    BY <1>3 DEF Live
  <2>2. ASSUME NEW k \in Live, Names(export[e].ptrs, k)', series'[k].state = "rendered" PROVE PointOf(k) \in carried
    <3>1. series[k].state = "rendered" /\ series'[k].id = series[k].id
      BY <2>2, <1>2
    <3>2. Names(n.ptrs, k)
      BY <2>2, <3>1, <1>7 DEF Names
    <3> QED BY <3>1, <3>2, <1>0, <1>5, <1>s DEF ExportInv
  <2> QED BY <2>1, <2>2, <1>0, <1>4, <1>5, <1>7 DEF ExportInv
<1>9. ExportsInv'
  BY <1>0, <1>5, <1>6, <1>7, <1>8, ExportSteps DEF AggInv
<1>10. TapsInv'
  BY <1>0, TapsFrame DEF AggInv
<1> QED BY <1>4, <1>9, <1>10 DEF AggInv

\* The collector's view after a payload: no key is forgotten and each is as some point
\* of the payload says, or as it was.
LEMMA ArrivedIs ==
  ASSUME NEW snap, NEW v, v = Arrived(snap)
  PROVE  /\ DOMAIN v = DOMAIN latest \cup {p.key : p \in snap}
         /\ \A k \in DOMAIN v : \/ \E p \in snap : p.key = k /\ v[k] = p
                                \/ k \in DOMAIN latest /\ v[k] = latest[k]
<1>1. DOMAIN v = DOMAIN latest \cup {p.key : p \in snap}
  BY DEF Arrived
<1>2. ASSUME NEW k \in DOMAIN v
      PROVE  \/ \E p \in snap : p.key = k /\ v[k] = p
             \/ k \in DOMAIN latest /\ v[k] = latest[k]
  <2>0. v[k] = IF \E p \in snap : p.key = k THEN CHOOSE p \in snap : p.key = k ELSE latest[k]
    BY <1>1 DEF Arrived
  <2>1. CASE \E p \in snap : p.key = k
    <3>1. v[k] = CHOOSE p \in snap : p.key = k
      BY <2>0, <2>1
    <3> QED BY <2>1, <3>1
  <2>2. CASE ~\E p \in snap : p.key = k
    BY <2>0, <2>2, <1>1
  <2> QED BY <2>1, <2>2
<1> QED BY <1>1, <1>2

\* A payload that reached the collector moves it forward.
LEMMA ArrivalForward ==
  ASSUME AggInv, NEW e \in Exporters, export[e].pc = "copy", NEW v, v = Arrived(export[e].snap)
  PROVE  /\ DOMAIN latest \subseteq DOMAIN v /\ DOMAIN v \subseteq AggKeys /\ v \in [DOMAIN v -> Points]
         /\ \A k \in DOMAIN latest : Ahead(v[k], latest[k])
         /\ \A k \in DOMAIN v : v[k].id <= births /\ (k \in Live => Ahead(series[k], v[k]))
<1> PICK snap : snap = export[e].snap
  OBVIOUS
<1>0. /\ snap \subseteq Points /\ ExportInv(e) /\ SeriesInv
  BY DEF AggInv, ExportsInv, ExportRecords
<1>1. /\ DOMAIN v = DOMAIN latest \cup {p.key : p \in snap}
      /\ \A k \in DOMAIN v : \/ \E p \in snap : p.key = k /\ v[k] = p
                             \/ k \in DOMAIN latest /\ v[k] = latest[k]
  <2>1. v = Arrived(snap)
    OBVIOUS
  <2> QED BY <2>1, ArrivedIs
<1>2. \A p \in snap : p.key \in AggKeys /\ p.id \in Nat /\ p.calls \in Nat
  BY <1>0 DEF Points
<1>3. \A p \in snap : /\ p.id <= births /\ (p.key \in Live => Ahead(series[p.key], p))
                      /\ p.key \in DOMAIN latest => Ahead(p, latest[p.key])
  BY <1>0 DEF ExportInv
<1>4. \A k \in DOMAIN latest : latest[k] \in Points /\ latest[k].id \in Nat /\ latest[k].calls \in Nat /\ k \in AggKeys
  BY <1>0 DEF SeriesInv, Points
<1>5. v = [k \in DOMAIN v |-> v[k]]
  BY DEF Arrived
<1>6. \A k \in DOMAIN v : v[k] \in Points /\ k \in AggKeys
  BY <1>0, <1>1, <1>2, <1>4
<1>7. \A k \in DOMAIN latest : Ahead(v[k], latest[k])
  <2> SUFFICES ASSUME NEW k \in DOMAIN latest PROVE Ahead(v[k], latest[k])
    OBVIOUS
  <2>1. CASE \E p \in snap : p.key = k /\ v[k] = p
    BY <2>1, <1>3
  <2>2. CASE v[k] = latest[k]
    BY <2>2, <1>4 DEF Ahead
  <2> QED BY <2>1, <2>2, <1>1
<1>8. \A k \in DOMAIN v : v[k].id <= births /\ (k \in Live => Ahead(series[k], v[k]))
  <2> SUFFICES ASSUME NEW k \in DOMAIN v PROVE v[k].id <= births /\ (k \in Live => Ahead(series[k], v[k]))
    OBVIOUS
  <2>1. CASE \E p \in snap : p.key = k /\ v[k] = p
    BY <2>1, <1>3
  <2>2. CASE k \in DOMAIN latest /\ v[k] = latest[k]
    BY <2>2, <1>0 DEF SeriesInv
  <2> QED BY <2>1, <2>2, <1>1
<1> QED BY <1>1, <1>5, <1>6, <1>7, <1>8

LEMMA AckedKeeps == ASSUME AggInv, NEW e \in Exporters, SendAcked(e) PROVE AggInv'
<1>0. /\ UNCHANGED <<aggClock, series, rendered, gate, tapped, births, evicted>> /\ export[e].pc = "copy"
      /\ export \in [Exporters -> ExportRecords] /\ export[e] \in ExportRecords /\ rendered \in Seq(Pointers) /\ gate = e
      /\ carried' = carried \cup export[e].snap
  BY DEF SendAcked, AllCopied, AggInv, ExportsInv, ExportInv
<1>s. SeriesInv /\ ExportInv(e)
  BY DEF AggInv, ExportsInv
<1>1. /\ DOMAIN latest' \subseteq AggKeys /\ latest' \in [DOMAIN latest' -> Points]
      /\ \A k \in DOMAIN latest' : latest'[k].id <= births /\ (k \in Live => Ahead(series[k], latest'[k]))
  <2>1. PICK v : v = Arrived(export[e].snap)
    OBVIOUS
  <2>2. latest' = v
    BY <2>1 DEF SendAcked
  <2>3. /\ DOMAIN latest \subseteq DOMAIN v /\ DOMAIN v \subseteq AggKeys /\ v \in [DOMAIN v -> Points]
        /\ \A k \in DOMAIN latest : Ahead(v[k], latest[k])
        /\ \A k \in DOMAIN v : v[k].id <= births /\ (k \in Live => Ahead(series[k], v[k]))
    BY <2>1, <1>0, ArrivalForward
  <2> QED BY <2>2, <2>3
<1>2. SeriesInv'
  BY <1>0, <1>1, <1>s DEF SeriesInv, Live, PointOf
<1> PICK n : n = [export[e] EXCEPT !.pc = "mark", !.i = 0, !.ptrs = rendered, !.snap = {}]
  OBVIOUS
<1>3. n \in ExportRecords /\ n.pc = "mark" /\ n.ptrs = rendered
  BY <1>0 DEF ExportRecords
<1>4. export' = [export EXCEPT ![e] = n]
  BY DEF SendAcked
<1>5. export'[e] = n /\ rendered' \in Seq(Pointers)
  BY <1>0, <1>4
<1>6. ExportInv(e)'
  <2>1. \A k \in Live : Names(rendered, k) /\ series[k].state = "rendered" => PointOf(k) \in carried'
    BY <1>0, <1>s DEF ExportInv
  <2> QED BY <2>1, <1>0, <1>3, <1>5 DEF ExportInv, Live, Names, PointOf
<1>7. ExportsInv'
  BY <1>0, <1>3, <1>4, <1>5, <1>6, ExportSteps DEF AggInv
<1>8. TapsInv'
  BY <1>0, TapsFrame DEF AggInv
<1> QED BY <1>2, <1>7, <1>8 DEF AggInv

\* However an export ends, it leaves the gate and its record as they were before it.
LEMMA EndKeeps ==
  ASSUME AggInv, NEW e \in Exporters, export[e].pc # "idle", Released(e), export' = [export EXCEPT ![e] = ExportEnded(e)],
         SeriesInv', UNCHANGED tapped
  PROVE  AggInv'
<1>0. export \in [Exporters -> ExportRecords] /\ export[e] \in ExportRecords /\ rendered' = << >>
  BY DEF AggInv, ExportsInv, Released
<1> PICK n : n = ExportEnded(e)
  OBVIOUS
<1>1. n \in ExportRecords /\ n.pc = "idle"
  <2>1. n = [pc |-> "idle", now |-> export[e].now, ptrs |-> << >>, snap |-> {}, i |-> 0, tries |-> export[e].tries]
    BY <1>0 DEF ExportRecords, ExportEnded
  <2> QED BY <2>1, <1>0 DEF ExportRecords
<1>2. export' = [export EXCEPT ![e] = n] /\ export'[e] = n /\ rendered' \in Seq(Pointers)
  BY <1>0
<1>3. ExportInv(e)'
  BY <1>1, <1>2 DEF ExportInv
<1>4. ExportsInv'
  BY <1>1, <1>2, <1>3, ExportSteps DEF AggInv
<1> QED BY <1>4, TapsFrame DEF AggInv

LEMMA FailedKeeps == ASSUME AggInv, NEW e \in Exporters, SendFailed(e) PROVE AggInv'
<1>0. /\ UNCHANGED <<aggClock, series, tapped, births, carried, evicted>> /\ export[e].pc = "copy"
      /\ Released(e) /\ export' = [export EXCEPT ![e] = ExportEnded(e)]
  BY DEF SendFailed, AllCopied
<1>s. SeriesInv
  BY DEF AggInv
<1>1. CASE latest' = latest
  BY <1>0, <1>1, SeriesFrame, EndKeeps DEF AggInv
<1>2. CASE latest' = Arrived(export[e].snap)
  <2>1. PICK v : v = Arrived(export[e].snap)
    OBVIOUS
  <2>2. /\ DOMAIN latest \subseteq DOMAIN v /\ DOMAIN v \subseteq AggKeys /\ v \in [DOMAIN v -> Points]
        /\ \A k \in DOMAIN latest : Ahead(v[k], latest[k])
        /\ \A k \in DOMAIN v : v[k].id <= births /\ (k \in Live => Ahead(series[k], v[k]))
    BY <2>1, <1>0, ArrivalForward
  <2>3. latest' = v
    BY <2>1, <1>2
  <2>4. SeriesInv'
    BY <2>2, <2>3, <1>0, <1>s DEF SeriesInv, Live, PointOf
  <2> QED BY <2>4, <1>0, EndKeeps
<1> QED BY <1>1, <1>2 DEF SendFailed

LEMMA DoneKeeps == ASSUME AggInv, NEW e \in Exporters, ExportNothing(e) \/ ExportDone(e) PROVE AggInv'
<1>0. /\ UNCHANGED <<aggClock, series, tapped, births, carried, evicted, latest>> /\ export[e].pc # "idle"
      /\ Released(e) /\ export' = [export EXCEPT ![e] = ExportEnded(e)]
  BY DEF ExportNothing, ExportDone
<1> QED BY <1>0, SeriesFrame, EndKeeps DEF AggInv

LEMMA AggNextKeeps == AggInv /\ [AggNext]_aggVars => AggInv'
<1> SUFFICES ASSUME AggInv, [AggNext]_aggVars PROVE AggInv'
  OBVIOUS
<1>1. CASE UNCHANGED aggVars
  BY <1>1 DEF aggVars, AggInv, SeriesInv, TapsInv, ExportsInv, ExportInv, Live, PointOf, Names
<1>2. CASE AggTick
  <2>1. aggClock' \in Nat /\ UNCHANGED <<series, rendered, gate, tapped, export, births, carried, evicted, latest>>
    BY <1>2 DEF AggTick, AggInv, SeriesInv
  <2> QED BY <2>1 DEF AggInv, SeriesInv, TapsInv, ExportsInv, ExportInv, Live, PointOf, Names
<1>3. ASSUME NEW t \in Taps, TapRefused(t) \/ TapConsumes(t) \/ Observe(t) PROVE AggInv'
  BY <1>3, TapKeeps, ObserveKeeps
<1>4. ASSUME NEW e \in Exporters,
             \/ ExportCancelled(e) \/ GateTaken(e) \/ ListLive(e) \/ CopyChunk(e)
             \/ ExportNothing(e) \/ SendAcked(e) \/ SendFailed(e) \/ MarkChunk(e) \/ ExportDone(e)
      PROVE  AggInv'
  BY <1>4, CancelKeeps, GateKeeps, ListKeeps, CopyKeeps, DoneKeeps, AckedKeeps, FailedKeeps, MarkKeeps
<1> QED BY <1>1, <1>2, <1>3, <1>4 DEF AggNext

LEMMA StepForward ==
  AggInv /\ AggNext => LatestForward
<1> SUFFICES ASSUME AggInv, AggNext, NEW k \in DOMAIN latest PROVE Ahead(latest'[k], latest[k])
  BY DEF Ahead, LatestForward
<1>0. latest[k].id \in Nat /\ latest[k].calls \in Nat
  BY DEF AggInv, SeriesInv, Points
<1>1. CASE latest' = latest
  BY <1>0, <1>1 DEF Ahead
<1>2. ASSUME NEW e \in Exporters, export[e].pc = "copy", latest' = Arrived(export[e].snap)
      PROVE  Ahead(latest'[k], latest[k])
  <2>1. PICK v : v = Arrived(export[e].snap)
    OBVIOUS
  <2>2. /\ DOMAIN latest \subseteq DOMAIN v /\ DOMAIN v \subseteq AggKeys /\ v \in [DOMAIN v -> Points]
        /\ \A j \in DOMAIN latest : Ahead(v[j], latest[j])
        /\ \A j \in DOMAIN v : v[j].id <= births /\ (j \in Live => Ahead(series[j], v[j]))
    BY <2>1, <1>2, ArrivalForward
  <2> QED BY <2>1, <2>2, <1>2
<1>3. ASSUME NEW e \in Exporters, SendAcked(e) \/ SendFailed(e) PROVE Ahead(latest'[k], latest[k])
  BY <1>1, <1>2, <1>3 DEF SendAcked, SendFailed, AllCopied
<1>4. ASSUME NEW t \in Taps, TapRefused(t) \/ TapConsumes(t) \/ Observe(t) PROVE latest' = latest
  BY <1>4 DEF TapRefused, TapConsumes, Observe
<1>5. ASSUME NEW e \in Exporters,
             \/ ExportCancelled(e) \/ GateTaken(e) \/ ListLive(e) \/ CopyChunk(e)
             \/ ExportNothing(e) \/ MarkChunk(e) \/ ExportDone(e)
      PROVE  latest' = latest
  BY <1>5 DEF ExportCancelled, GateTaken, ListLive, CopyChunk, ExportNothing, MarkChunk, ExportDone
<1>6. AggTick => latest' = latest
  BY DEF AggTick
<1> QED BY <1>1, <1>3, <1>4, <1>5, <1>6 DEF AggNext

\* For any number of payloads, series, exports and chunks: eviction only ever takes a count
\* that an acknowledged payload carried, and the collector never sees a series go back,
\* however exports overlap, fail after arriving, or are overtaken by new spans
\* (Store.Export, LivePointersLocked, afterDelivered).
THEOREM SeriesAlwaysDelivered == AggSpec => SeriesDelivered
<1>1. AggSpec => []AggInv
  BY AggInitEstablishes, AggNextKeeps, PTL DEF AggSpec
<1>2. AggInv' => EvictedWasDelivered'
  BY DEF AggInv, SeriesInv, EvictedWasDelivered
<1>3. AggInv /\ AggInv' /\ [AggNext]_aggVars => [EvictedWasDelivered' /\ LatestForward]_aggVars
  BY <1>2, StepForward
<1> QED BY <1>1, <1>3, PTL DEF AggSpec, SeriesDelivered

-----------------------------------------------------------------------------
(* The shard ring.                                                          *)

LEMMA MinimalIsLeast ==
  ASSUME NEW R, NEW T \in SUBSET Nat, NEW t \in T,
         \A a \in Nat : \A b \in Nat : (a < b) => (<<a, b>> \in R),
         \A y \in T : ~ (<<y, t>> \in R)
  PROVE  \A y \in T : t <= y
<1> TAKE y \in T
<1>1. y \in Nat /\ t \in Nat
  OBVIOUS
<1>2. ~ (y < t)
  BY <1>1
<1> QED BY ONLY <1>1, <1>2

LEMMA LeastOf == ASSUME NEW T \in SUBSET Nat, T # {} PROVE \E t \in T : \A u \in T : t <= u
<1>1. \A a \in Nat : \A b \in Nat : (a < b) => (<<a, b>> \in OpToRel(<, Nat))
  BY DEF OpToRel
<1>2. T \subseteq Nat
  OBVIOUS
<1>3. PICK t \in T : \A y \in T : ~ (<<y, t>> \in OpToRel(<, Nat))
  BY <1>2, WFMin, NatLessThanWellFounded
<1>4. \A y \in T : t <= y
  BY <1>1, <1>3, MinimalIsLeast
<1> QED BY <1>4

\* The ring of a list is that of its names.
LEMMA SameNamesSameRing ==
  ASSUME NEW l, NEW m, NamesIn(l) = NamesIn(m)
  PROVE  RingTokens(l) = RingTokens(m)
BY DEF RingTokens

\* A key's token is one of the ring's.
LEMMA TokenIsOfRing ==
  ASSUME NEW ring, DOMAIN ring \in SUBSET Nat, DOMAIN ring # {}, NEW key
  PROVE  TokenFor(ring, key) \in DOMAIN ring
<1>0. PICK T \in SUBSET Nat : T = DOMAIN ring
  OBVIOUS
<1>1. CASE {t \in T : t >= key} # {}
  <2>1. {t \in T : t >= key} \in SUBSET Nat
    OBVIOUS
  <2>2. \E x \in {t \in T : t >= key} : \A u \in {t \in T : t >= key} : x <= u
    BY <1>1, <2>1, LeastOf
  <2> QED BY <1>0, <1>1, <2>2 DEF TokenFor
<1>2. CASE {t \in T : t >= key} = {}
  <2>1. \E t \in T : \A u \in T : t <= u
    BY <1>0, LeastOf
  <2> QED BY <1>0, <1>2, <2>1 DEF TokenFor
<1> QED BY <1>1, <1>2

Listed == \A e \in Entries : names[e] \in NameLists[e]

\* A trace has one owner, whichever entry asks.
LEMMA OneOwner ==
  ASSUME Listed, NEW e \in Entries, NEW f \in Entries, NEW s, KeyOf[s] # NoKey
  PROVE  OwnerOf(e, s) = OwnerOf(f, s)
<1>1. NamesIn(names[e]) = NamesIn(names[f])
  BY RingAssumption DEF Listed
<1>2. RingTokens(names[e]) = RingTokens(names[f])
  BY <1>1, SameNamesSameRing
<1> QED BY <1>2 DEF OwnerOf

\* Without siblings every span is the entry's own.
LEMMA AloneOwnsAll ==
  ASSUME Listed, NEW e \in Entries, ClientsOf(e) = {}, NEW s, KeyOf[s] # NoKey => KeyOf[s] \in Nat
  PROVE  OwnerOf(e, s) = e
<1>1. CASE KeyOf[s] = NoKey
  BY <1>1 DEF OwnerOf
<1>2. CASE KeyOf[s] # NoKey
  <2>0. PICK l \in NameLists[e] : l = names[e]
    BY DEF Listed
  <2>1. NamesIn(l) = {e}
    BY <2>0, RingAssumption DEF ClientsOf
  <2>2. TokensOf[e] \in SUBSET Nat /\ TokensOf[e] # {} /\ Rank[e] \in Nat
    BY <2>1, RingAssumption
  <2>3. UNION {TokensOf[n] : n \in NamesIn(l)} = TokensOf[e]
    BY <2>1
  <2>4. \A t \in TokensOf[e] : {n \in NamesIn(l) : t \in TokensOf[n]} = {e}
    BY <2>1
  <2>5. (CHOOSE n \in {e} : \A m \in {e} : Rank[n] <= Rank[m]) = e
    BY <2>2
  <2>6. RingTokens(l) = [t \in TokensOf[e] |-> e]
    BY <2>3, <2>4, <2>5 DEF RingTokens
  <2>7. PICK ring : ring = RingTokens(l)
    OBVIOUS
  <2>8. TokenFor(ring, KeyOf[s]) \in DOMAIN ring
    BY <2>2, <2>6, <2>7, TokenIsOfRing
  <2> QED BY <1>2, <2>0, <2>6, <2>7, <2>8 DEF OwnerOf
<1> QED BY <1>1, <1>2

Busy == {"suspects", "first", "second", "local"}

\* The shares of a payload in flight are the spans' owners but its entry; a
\* share a sibling took is consumed, and so is the whole of an accepted payload.
RequestInv(r, p) ==
  /\ r = [at |-> r.at, pc |-> r.pc, share |-> r.share, tries |-> r.tries]
  /\ r.pc \in Busy \cup {"idle", "refused", "rejected", "accepted"}
  /\ r.pc # "idle" => r.at \in Entries
  /\ r.pc \in Busy => DOMAIN r.share = Owners(r.at, p) \ {r.at}
  /\ r.pc = "first" => \A n \in DOMAIN r.share : r.share[n] \in {"first", "second", "taken", "failed", "barred"}
  /\ r.pc = "second" => \A n \in DOMAIN r.share : r.share[n] \in {"second", "taken", "failed", "barred"}
  /\ r.pc = "local" => \A n \in DOMAIN r.share : r.share[n] = "taken"
  /\ r.pc \in {"first", "second", "local"} => \A n \in DOMAIN r.share : r.share[n] = "taken" =>
       \A s \in ShareOf(r.at, p, n) : [entry |-> n, span |-> s] \in consumed
  /\ r.pc = "accepted" => \A s \in TraceSpans[p] : \E n : [entry |-> n, span |-> s] \in consumed

\* What was consumed was consumed by the owner of its trace.
OwnersConsume ==
  \A c \in consumed : KeyOf[c.span] # NoKey => \A e \in Entries : c.entry = OwnerOf(e, c.span)

RingInv ==
  /\ Listed
  /\ DOMAIN request = TracePushes /\ request = [p \in TracePushes |-> request[p]]
  /\ \A p \in TracePushes : RequestInv(request[p], p)
  /\ OwnersConsume

LEMMA RingInitially == RingInit => RingInv
<1> SUFFICES ASSUME RingInit PROVE RingInv
  OBVIOUS
<1>1. Listed
  BY DEF RingInit, Listed
<1>2. DOMAIN request = TracePushes /\ request = [p \in TracePushes |-> request[p]]
  BY DEF RingInit
<1>3. \A p \in TracePushes : RequestInv(request[p], p)
  BY DEF RingInit, RequestInv, Busy
<1>4. OwnersConsume
  BY DEF RingInit, OwnersConsume
<1> QED BY <1>1, <1>2, <1>3, <1>4 DEF RingInv

\* What an entry consumes or forwards under the owner's name keeps it so.
LEMMA ConsumedByOwner ==
  ASSUME Listed, OwnersConsume, NEW e \in Entries, NEW p, NEW n,
         consumed' \subseteq consumed \cup {[entry |-> n, span |-> s] : s \in ShareOf(e, p, n)},
         names' = names
  PROVE  OwnersConsume'
<1>1. \A f, s : OwnerOf(f, s)' = OwnerOf(f, s)
  BY DEF OwnerOf
<1>2. \A c \in consumed' : KeyOf[c.span] # NoKey => \A f \in Entries : c.entry = OwnerOf(f, c.span)
  <2> SUFFICES ASSUME NEW c \in consumed', KeyOf[c.span] # NoKey, NEW f \in Entries
               PROVE  c.entry = OwnerOf(f, c.span)
    OBVIOUS
  <2>1. CASE c \in consumed
    BY <2>1 DEF OwnersConsume
  <2>2. CASE c \notin consumed
    <3>1. PICK s \in ShareOf(e, p, n) : c = [entry |-> n, span |-> s]
      BY <2>2
    <3>2. c.entry = n /\ c.span = s /\ OwnerOf(e, s) = n
      BY <3>1 DEF ShareOf
    <3>3. OwnerOf(e, s) = OwnerOf(f, s)
      BY <3>2, OneOwner
    <3> QED BY <3>2, <3>3
  <2> QED BY <2>1, <2>2
<1> QED BY <1>1, <1>2 DEF OwnersConsume

\* A request left alone keeps its part when nothing is taken back.
LEMMA RequestKept ==
  ASSUME NEW r, NEW p, RequestInv(r, p), names' = names, consumed \subseteq consumed'
  PROVE  RequestInv(r, p)'
<1>1. \A f, s : OwnerOf(f, s)' = OwnerOf(f, s)
  BY DEF OwnerOf
<1>2. Owners(r.at, p)' = Owners(r.at, p)
  BY <1>1 DEF Owners
<1>3. \A n : ShareOf(r.at, p, n)' = ShareOf(r.at, p, n)
  BY <1>1 DEF ShareOf
<1> QED BY <1>2, <1>3 DEF RequestInv

\* It is enough to look at the request that moved, as it was moved.
LEMMA RequestMoved ==
  ASSUME RingInv, NEW p \in TracePushes, NEW n,
         request' = [request EXCEPT ![p] = n], RequestInv(n, p),
         names' = names, consumed' = consumed
  PROVE  RingInv'
<1>1. Listed' /\ OwnersConsume'
  <2>1. \A f, s : OwnerOf(f, s)' = OwnerOf(f, s)
    BY DEF OwnerOf
  <2> QED BY <2>1 DEF Listed, OwnersConsume, RingInv
<1>2. DOMAIN request' = TracePushes /\ request' = [q \in TracePushes |-> request'[q]]
  BY DEF RingInv
<1>3. \A q \in TracePushes : RequestInv(request'[q], q)
  BY DEF RingInv
<1>4. \A q \in TracePushes : RequestInv(request[q], q)'
  <2> TAKE q \in TracePushes
  <2>1. PICK r : r = request'[q]
    OBVIOUS
  <2>2. RequestInv(r, q)'
    BY <1>3, <2>1, RequestKept
  <2> QED BY <2>1, <2>2
<1> QED BY <1>1, <1>2, <1>4 DEF RingInv

\* The same where an owner consumed: other requests are kept.
LEMMA RequestServed ==
  ASSUME RingInv, NEW p \in TracePushes, NEW n,
         request' = [request EXCEPT ![p] = n], RequestInv(n, p)',
         names' = names, consumed \subseteq consumed', OwnersConsume'
  PROVE  RingInv'
<1>1. Listed'
  BY DEF Listed, RingInv
<1>2. DOMAIN request' = TracePushes /\ request' = [q \in TracePushes |-> request'[q]]
  BY DEF RingInv
<1>4. \A q \in TracePushes : RequestInv(request[q], q)'
  <2> TAKE q \in TracePushes
  <2>1. PICK r : r = request'[q]
    OBVIOUS
  <2>2. RequestInv(r, q)'
    <3>1. CASE q = p
      <4>1. r = n
        BY <2>1, <3>1 DEF RingInv
      <4> QED BY <4>1, <3>1
    <3>2. CASE q # p
      <4>1. r = request[q] /\ RequestInv(request[q], q)
        BY <2>1, <3>2 DEF RingInv
      <4>2. RequestInv(r, q)
        BY <4>1
      <4> QED BY <4>2, RequestKept
    <3> QED BY <3>1, <3>2
  <2> QED BY <2>1, <2>2
<1> QED BY <1>1, <1>2, <1>4 DEF RingInv

LEMMA PushReceivedKeeps ==
  ASSUME RingInv, NEW p \in TracePushes, NEW e \in Entries, PushReceived(p, e)
  PROVE  RingInv'
<1>1. PICK n : /\ request' = [request EXCEPT ![p] = n]
               /\ n = [at |-> e, tries |-> request[p].tries + 1,
                       pc |-> IF ClientsOf(e) = {} THEN "local" ELSE "suspects",
                       share |-> [m \in Owners(e, p) \ {e} |-> "todo"]]
  BY DEF PushReceived
<1>2. n.at = e /\ n = [at |-> n.at, pc |-> n.pc, share |-> n.share, tries |-> n.tries]
      /\ DOMAIN n.share = Owners(e, p) \ {e} /\ n.pc \in {"local", "suspects"}
  BY <1>1
<1>3. n.pc = "local" => DOMAIN n.share = {}
  <2> SUFFICES ASSUME n.pc = "local" PROVE \A s \in TraceSpans[p] : OwnerOf(e, s) = e
    BY <1>2 DEF Owners
  <2>1. ClientsOf(e) = {}
    BY <1>1
  <2>2. \A s \in TraceSpans[p] : KeyOf[s] # NoKey => KeyOf[s] \in Nat
    BY RingAssumption
  <2> QED BY <2>1, <2>2, AloneOwnsAll DEF RingInv
<1>4. RequestInv(n, p)
  BY <1>2, <1>3 DEF RequestInv, Busy
<1> QED BY <1>1, <1>4, RequestMoved DEF PushReceived

LEMMA SharesSortedKeeps ==
  ASSUME RingInv, NEW p \in TracePushes, SharesSorted(p)
  PROVE  RingInv'
<1>0. RequestInv(request[p], p)
  BY DEF RingInv
<1>1. PICK r : r = request[p]
  OBVIOUS
<1>2. PICK sh : /\ DOMAIN sh = DOMAIN r.share
                /\ \A m \in DOMAIN r.share : sh[m] \in {"first", "second"}
                /\ request' = [request EXCEPT ![p] = [r EXCEPT !.pc = "first", !.share = sh]]
  <2>1. PICK sh : sh = [m \in Shares(p) |-> IF m \in Suspects(p) THEN "first" ELSE "second"]
    OBVIOUS
  <2> QED BY <1>1, <2>1 DEF SharesSorted, Shares
<1>3. PICK n : n = [r EXCEPT !.pc = "first", !.share = sh]
  OBVIOUS
<1>4. n = [at |-> r.at, pc |-> "first", share |-> sh, tries |-> r.tries]
  BY <1>0, <1>1, <1>3 DEF RequestInv
<1>5. r.pc = "suspects" /\ DOMAIN sh = Owners(r.at, p) \ {r.at} /\ r.at \in Entries
  BY <1>0, <1>1, <1>2 DEF SharesSorted, RequestInv, Busy
<1>6. RequestInv(n, p)
  BY <1>2, <1>4, <1>5 DEF RequestInv, Busy
<1> QED BY <1>2, <1>3, <1>6, RequestMoved DEF SharesSorted

LEMMA RoundDoneKeeps ==
  ASSUME RingInv, NEW p \in TracePushes, RoundDone(p)
  PROVE  RingInv'
<1>0. RequestInv(request[p], p)
  BY DEF RingInv
<1>1. PICK r : r = request[p]
  OBVIOUS
<1>2. PICK o \in RoundOutcomes(p) : request' = [request EXCEPT ![p].pc = o]
  BY DEF RoundDone
<1>3. PICK n : n = [r EXCEPT !.pc = o]
  OBVIOUS
<1>4. n = [at |-> r.at, pc |-> o, share |-> r.share, tries |-> r.tries]
  BY <1>0, <1>1, <1>3 DEF RequestInv
<1>5. request' = [request EXCEPT ![p] = n]
  BY <1>1, <1>2, <1>3 DEF RoundDone, RingInv
<1>6. r.pc \in {"first", "second"} /\ \A m \in DOMAIN r.share : r.share[m] # r.pc
  BY <1>1 DEF RoundDone, InRound, Shares
<1>7. \/ o \in {"refused", "rejected"}
      \/ o = "second" /\ r.pc = "first" /\ \A m \in DOMAIN r.share : r.share[m] \notin {"failed", "barred"}
      \/ o = "local" /\ r.pc = "second" /\ \A m \in DOMAIN r.share : r.share[m] \notin {"failed", "barred"}
  BY <1>1, <1>2, <1>6 DEF RoundOutcomes, Marked, Shares
<1>8. RequestInv(r, p)
  BY <1>0, <1>1
<1>9. RequestInv(n, p)
  BY <1>4, <1>6, <1>7, <1>8 DEF RequestInv, Busy
<1> QED BY <1>5, <1>9, RequestMoved DEF RoundDone

LEMMA RetriedKeeps ==
  ASSUME RingInv, NEW p \in TracePushes, Retried(p)
  PROVE  RingInv'
<1>0. RequestInv(request[p], p)
  BY DEF RingInv
<1>1. PICK n : n = [request[p] EXCEPT !.pc = "idle", !.share = << >>]
  OBVIOUS
<1>2. n = [at |-> request[p].at, pc |-> "idle", share |-> << >>, tries |-> request[p].tries]
  BY <1>0, <1>1 DEF RequestInv
<1>3. RequestInv(n, p)
  BY <1>2 DEF RequestInv, Busy
<1> QED BY <1>1, <1>3, RequestMoved DEF Retried

\* A share that left the round, with what its sibling consumed.
LEMMA ShareAnswered ==
  ASSUME RingInv, NEW p \in TracePushes, NEW m \in Shares(p), InRound(p, m),
         NEW mark \in {"taken", "failed", "barred"},
         request' = [request EXCEPT ![p].share[m] = mark], names' = names,
         consumed \subseteq consumed',
         consumed' \subseteq consumed \cup {[entry |-> m, span |-> s] : s \in ShareOf(request[p].at, p, m)},
         mark = "taken" => \A s \in ShareOf(request[p].at, p, m) : [entry |-> m, span |-> s] \in consumed'
  PROVE  RingInv'
<1>0. RequestInv(request[p], p)
  BY DEF RingInv
<1>1. PICK r : r = request[p]
  OBVIOUS
<1>2. PICK n : n = [r EXCEPT !.share = [r.share EXCEPT ![m] = mark]]
  OBVIOUS
<1>3. n = [at |-> r.at, pc |-> r.pc, share |-> [r.share EXCEPT ![m] = mark], tries |-> r.tries]
  BY <1>0, <1>1, <1>2 DEF RequestInv
<1>4. request' = [request EXCEPT ![p] = n]
  BY <1>0, <1>1, <1>2 DEF RingInv, RequestInv
<1>5. r.pc \in {"first", "second"} /\ r.at \in Entries
  BY <1>0, <1>1 DEF InRound, RequestInv
<1>6. OwnersConsume'
  BY <1>1, <1>5, ConsumedByOwner DEF RingInv
<1>7. RequestInv(r, p)'
  BY <1>0, <1>1, RequestKept
<1>8. RequestInv(n, p)'
  <2>1. PICK sh : sh = [r.share EXCEPT ![m] = mark]
    OBVIOUS
  <2>2. DOMAIN sh = DOMAIN r.share /\ sh[m] = mark /\ \A k \in DOMAIN r.share : k # m => sh[k] = r.share[k]
    BY <1>1, <2>1 DEF Shares
  <2>3. n = [at |-> r.at, pc |-> r.pc, share |-> sh, tries |-> r.tries]
    BY <1>3, <2>1
  <2>4. \A s \in ShareOf(r.at, p, m)' : mark = "taken" => [entry |-> m, span |-> s] \in consumed'
    BY <1>1 DEF ShareOf, OwnerOf
  <2> QED BY <1>5, <1>7, <2>2, <2>3, <2>4 DEF RequestInv, Busy
<1> QED BY <1>4, <1>6, <1>8, RequestServed

LEMMA LocalConsumedKeeps ==
  ASSUME RingInv, NEW p \in TracePushes, NEW out \in {"accepted", "refused", "rejected"}, LocalConsumed(p, out)
  PROVE  RingInv'
<1>0. RequestInv(request[p], p)
  BY DEF RingInv
<1>1. PICK r : r = request[p]
  OBVIOUS
<1>2. PICK n : n = [r EXCEPT !.pc = out]
  OBVIOUS
<1>3. n = [at |-> r.at, pc |-> out, share |-> r.share, tries |-> r.tries]
  BY <1>0, <1>1, <1>2 DEF RequestInv
<1>4. request' = [request EXCEPT ![p] = n] /\ names' = names
  BY <1>1, <1>2 DEF LocalConsumed, RingInv
<1>5. r.pc = "local" /\ r.at \in Entries /\ RequestInv(r, p)
  BY <1>0, <1>1 DEF LocalConsumed, RequestInv
<1>6. /\ consumed \subseteq consumed'
      /\ consumed' \subseteq consumed \cup {[entry |-> r.at, span |-> s] : s \in ShareOf(r.at, p, r.at)}
      /\ out = "accepted" => \A s \in ShareOf(r.at, p, r.at) : [entry |-> r.at, span |-> s] \in consumed'
  BY <1>1 DEF LocalConsumed
<1>7. OwnersConsume'
  BY <1>4, <1>5, <1>6, ConsumedByOwner DEF RingInv
<1>8. out = "accepted" => \A s \in TraceSpans[p] : \E k : [entry |-> k, span |-> s] \in consumed'
  <2> SUFFICES ASSUME out = "accepted", NEW s \in TraceSpans[p] PROVE \E k : [entry |-> k, span |-> s] \in consumed'
    OBVIOUS
  <2>0. PICK o : o = OwnerOf(r.at, s)
    OBVIOUS
  <2>1. s \in ShareOf(r.at, p, o)
    BY <2>0 DEF ShareOf
  <2>2. CASE o = r.at
    BY <1>6, <2>1, <2>2
  <2>3. CASE o # r.at
    <3>1. o \in DOMAIN r.share
      BY <1>5, <2>0, <2>3 DEF RequestInv, Busy, Owners
    <3>2. r.share[o] = "taken"
      BY <1>5, <3>1 DEF RequestInv
    <3>3. [entry |-> o, span |-> s] \in consumed
      BY <1>5, <2>1, <3>1, <3>2 DEF RequestInv
    <3> QED BY <1>6, <3>3
  <2> QED BY <2>2, <2>3
<1>9. RequestInv(n, p)'
  BY <1>3, <1>5, <1>8 DEF RequestInv, Busy
<1> QED BY <1>4, <1>6, <1>7, <1>9, RequestServed

LEMMA RingStep == RingInv /\ [RingNext]_ringVars => RingInv'
<1> SUFFICES ASSUME RingInv, [RingNext]_ringVars PROVE RingInv'
  OBVIOUS
<1>1. CASE UNCHANGED ringVars
  <2>1. names' = names /\ request' = request /\ consumed' = consumed
    BY <1>1 DEF ringVars
  <2>2. OwnersConsume' /\ Listed'
    BY <2>1 DEF RingInv, OwnersConsume, Listed, OwnerOf
  <2>3. \A p \in TracePushes : RequestInv(request[p], p)'
    <3> TAKE p \in TracePushes
    <3>1. PICK r : r = request[p]
      OBVIOUS
    <3>2. RequestInv(r, p)'
      BY <2>1, <3>1, RequestKept DEF RingInv
    <3> QED BY <2>1, <3>1, <3>2
  <2> QED BY <2>1, <2>2, <2>3 DEF RingInv
<1>2. CASE RingNext
  <2>1. PICK p \in TracePushes :
          \/ \E e \in Entries : PushReceived(p, e)
          \/ SharesSorted(p) \/ RoundDone(p) \/ Retried(p)
          \/ \E n \in Shares(p) : \/ ShareTaken(p, n)
                                  \/ \E reached \in BOOLEAN, mark \in {"failed", "barred"} : ShareFailed(p, n, reached, mark)
          \/ \E out \in {"accepted", "refused", "rejected"} : LocalConsumed(p, out)
    BY <1>2 DEF RingNext
  <2>2. CASE \E e \in Entries : PushReceived(p, e)
    BY <2>2, PushReceivedKeeps
  <2>3. CASE SharesSorted(p) \/ RoundDone(p) \/ Retried(p)
    BY <2>3, SharesSortedKeeps, RoundDoneKeeps, RetriedKeeps
  <2>4. ASSUME NEW n \in Shares(p), ShareTaken(p, n) PROVE RingInv'
    BY <2>4, ShareAnswered DEF ShareTaken
  <2>5. ASSUME NEW n \in Shares(p), NEW reached \in BOOLEAN, NEW mark \in {"failed", "barred"}, ShareFailed(p, n, reached, mark) PROVE RingInv'
    BY <2>5, ShareAnswered DEF ShareFailed
  <2>6. CASE \E out \in {"accepted", "refused", "rejected"} : LocalConsumed(p, out)
    BY <2>6, LocalConsumedKeeps
  <2> QED BY <2>1, <2>2, <2>3, <2>4, <2>5, <2>6
<1> QED BY <1>1, <1>2

\* Whatever the lists' order and repeats, whichever shards a payload is sent to
\* and however often: what the tier accepted was consumed, each trace by one shard.
THEOREM ShardingAlwaysSound == RingSpec => []ShardingSound
<1>1. RingInv => ShardingSound
  <2> SUFFICES ASSUME RingInv PROVE AcceptedIsConsumed /\ OneOwnerPerTrace
    BY DEF ShardingSound
  <2>1. AcceptedIsConsumed
    <3> SUFFICES ASSUME NEW p \in TracePushes, request[p].pc = "accepted", NEW s \in TraceSpans[p]
                 PROVE  \E c \in consumed : c.span = s
      BY DEF AcceptedIsConsumed
    <3>0. PICK r : r = request[p] /\ RequestInv(r, p) /\ r.pc = "accepted"
      BY DEF RingInv
    <3>1. PICK n : [entry |-> n, span |-> s] \in consumed
      BY ONLY <3>0, s \in TraceSpans[p] DEF RequestInv
    <3> QED BY <3>1
  <2>2. OneOwnerPerTrace
    <3> SUFFICES ASSUME NEW c \in consumed, NEW d \in consumed,
                        KeyOf[c.span] = KeyOf[d.span], KeyOf[c.span] # NoKey
                 PROVE  c.entry = d.entry
      BY DEF OneOwnerPerTrace
    <3>1. PICK e \in Entries : TRUE
      BY RingAssumption
    <3>2. c.entry = OwnerOf(e, c.span) /\ d.entry = OwnerOf(e, d.span)
      BY DEF RingInv, OwnersConsume
    <3>3. OwnerOf(e, c.span) = OwnerOf(e, d.span)
      BY DEF OwnerOf
    <3> QED BY <3>2, <3>3
  <2> QED BY <2>1, <2>2
<1> QED BY <1>1, RingInitially, RingStep, PTL DEF RingSpec

-----------------------------------------------------------------------------
(* The tail-sampling buffer.                                                *)

Entry == [id : Ids \cup {Unkeyed}, spans : Seq(Spans), first : Nat]

PushState == [pc : {"idle", "lock", "walk", "enforce", "bounds", "send", "acked", "gone"},
              now : Nat, i : Nat \ {0}, out : SUBSET Spans, mine : SUBSET Spans, tries : Nat]

DrainState == [pc : {"idle", "lock", "decide", "send", "done"}, now : Nat, n : Nat,
               out : SUBSET Spans]

TypeInv ==
    /\ clock \in Nat /\ flushed \in BOOLEAN
    /\ mu \in Pushes \cup Drains \cup {"free"}
    /\ order \in Seq(Entry)
    /\ push \in [Pushes -> PushState]
    /\ drain \in [Drains -> DrainState]

\* Appending to one trace of the buffer.
LEMMA AddFacts ==
    ASSUME order \in Seq(Entry), NEW id \in Ids \cup {Unkeyed}, NEW s \in Spans, NEW now \in Nat,
           Add(id, s, now)
    PROVE  /\ order' \in Seq(Entry)
           /\ Buffered \subseteq Buffered' /\ s \in Buffered'
           /\ \E k \in 1..Len(order') : order'[k].id = id
           /\ \A k \in 1..Len(order') :
                \/ \E j \in 1..Len(order) : order'[k] = order[j]
                \/ order'[k].id = id /\ SX!ToSet(order'[k].spans) \subseteq {s}
                \/ \E j \in 1..Len(order) :
                     /\ order'[k].id = order[j].id
                     /\ SX!ToSet(order'[k].spans) \subseteq SX!ToSet(order[j].spans) \cup {s}
<1>1. CASE Has(id)
  <2>1. PICK n \in 1..Len(order) : order[n].id = id /\ n = At(id)
    BY <1>1 DEF Has, At
  <2>2. order[n] \in Entry /\ order[n].spans \in Seq(Spans)
    <3>1. order[n] \in Entry
      BY <2>1
    <3> QED BY <3>1 DEF Entry
  <2> DEFINE t == Append(order[n].spans, s)
  <2>3. t \in Seq(Spans) /\ SX!ToSet(t) = SX!ToSet(order[n].spans) \cup {s}
    <3>1. t \in Seq(Spans) /\ Len(t) = Len(order[n].spans) + 1
      BY <2>2
    <3>2. \A x \in 1..Len(order[n].spans) : t[x] = order[n].spans[x]
      BY <2>2
    <3>3. t[Len(t)] = s
      BY <2>2
    <3> PICK q \in Seq(Spans) : q = order[n].spans
      BY <2>2
    <3> PICK u \in Seq(Spans) : u = t
      BY <3>1
    <3> HIDE DEF t
    <3>4. Len(q) \in Nat /\ Len(u) = Len(q) + 1
      BY <3>1, LenProperties
    <3>5. (\A x \in 1..Len(q) : u[x] = q[x]) /\ u[Len(u)] = s
      BY <3>2, <3>3
    <3>6. SX!ToSet(u) \subseteq SX!ToSet(q) \cup {s}
      <4>1. ASSUME NEW x \in 1..Len(u) PROVE u[x] \in SX!ToSet(q) \cup {s}
        <5>1. x \in 1..Len(q) \/ x = Len(u)
          BY ONLY <3>4, x \in 1..Len(u)
        <5> QED BY <3>5, <5>1 DEF SX!ToSet
      <4> QED BY <4>1 DEF SX!ToSet
    <3>7. SX!ToSet(q) \cup {s} \subseteq SX!ToSet(u)
      <4>1. Len(u) \in 1..Len(u) /\ \A x \in 1..Len(q) : x \in 1..Len(u)
        BY ONLY <3>4
      <4> QED BY <3>5, <4>1 DEF SX!ToSet
    <3> QED BY <3>1, <3>6, <3>7
  <2> HIDE DEF t
  <2> DEFINE e == [order[n] EXCEPT !.spans = t]
  <2>4. e \in Entry /\ e.id = id /\ e.spans = t
    BY <2>1, <2>2, <2>3 DEF Entry
  <2>5. order' = [order EXCEPT ![n] = e]
    BY <1>1, <2>1 DEF Add, t
  <2> HIDE DEF e
  <2>6. /\ order' \in Seq(Entry) /\ Len(order') = Len(order)
        /\ order'[n] = e /\ \A j \in 1..Len(order) : j # n => order'[j] = order[j]
    BY <2>1, <2>4, <2>5
  <2>7. \A j \in 1..Len(order) : SX!ToSet(order[j].spans) \subseteq SX!ToSet(order'[j].spans)
    BY <2>1, <2>3, <2>4, <2>6
  <2>8. Buffered \subseteq Buffered' /\ s \in Buffered'
    BY <2>1, <2>3, <2>4, <2>6, <2>7 DEF Buffered
  <2>9. \A k \in 1..Len(order') :
                \/ \E j \in 1..Len(order) : order'[k] = order[j]
                \/ \E j \in 1..Len(order) :
                     /\ order'[k].id = order[j].id
                     /\ SX!ToSet(order'[k].spans) \subseteq SX!ToSet(order[j].spans) \cup {s}
    BY <2>1, <2>3, <2>4, <2>6
  <2> QED BY <2>1, <2>4, <2>6, <2>8, <2>9 DEF Has
<1>2. CASE ~Has(id)
  <2> DEFINE e == [id |-> id, spans |-> <<s>>, first |-> now]
  <2>1. e \in Entry /\ e.id = id /\ SX!ToSet(e.spans) = {s}
    BY DEF Entry, SX!ToSet
  <2>2. order' = Append(order, e)
    BY <1>2 DEF Add
  <2> HIDE DEF e
  <2>3. /\ order' \in Seq(Entry) /\ Len(order') = Len(order) + 1
        /\ order'[Len(order) + 1] = e /\ \A j \in 1..Len(order) : order'[j] = order[j]
    BY <2>1, <2>2
  <2>4. Buffered \subseteq Buffered' /\ s \in Buffered'
    BY <2>1, <2>3 DEF Buffered
  <2> QED BY <2>1, <2>3, <2>4 DEF Has
<1> QED BY <1>1, <1>2

\* Taking one trace out of the buffer.
LEMMA RemoveFacts ==
    ASSUME order \in Seq(Entry), NEW i \in 1..Len(order), order' = SX!RemoveAt(order, i)
    PROVE  /\ order' \in Seq(Entry)
           /\ Buffered \subseteq Buffered' \cup SX!ToSet(order[i].spans)
           /\ \A k \in 1..Len(order') : \E j \in 1..Len(order) : order'[k] = order[j]
<1>1. order' = SubSeq(order, 1, i - 1) \o SubSeq(order, i + 1, Len(order))
  BY DEF SX!RemoveAt
<1> DEFINE a == SubSeq(order, 1, i - 1)
           b == SubSeq(order, i + 1, Len(order))
<1>2. /\ a \in Seq(Entry) /\ Len(a) = i - 1
      /\ \A j \in 1..i - 1 : a[j] = order[j]
  OBVIOUS
<1>3. /\ b \in Seq(Entry) /\ Len(b) = Len(order) - i
      /\ \A j \in 1..Len(order) - i : b[j] = order[i + j]
  OBVIOUS
<1>4. order' = a \o b
  BY <1>1
<1> HIDE DEF a, b
<1>5. /\ order' \in Seq(Entry) /\ Len(order') = Len(order) - 1
      /\ \A j \in 1..i - 1 : order'[j] = order[j]
      /\ \A j \in i..Len(order) - 1 : order'[j] = order[j + 1]
  <2>1. order' \in Seq(Entry) /\ Len(order') = Len(a) + Len(b)
    <3>1. a \in Seq(Entry) /\ b \in Seq(Entry)
      BY <1>2, <1>3
    <3>2. Len(a \o b) = Len(a) + Len(b)
      BY ONLY <3>1
    <3>3. a \o b \in Seq(Entry)
      BY ONLY <3>1
    <3> QED BY <1>4, <3>2, <3>3
  <2>2. \A j \in 1..i - 1 : order'[j] = order[j]
    BY <1>2, <1>3, <1>4
  <2>3. ASSUME NEW j \in i..Len(order) - 1 PROVE order'[j] = order[j + 1]
    <3>1. j > Len(a) /\ j - Len(a) \in 1..Len(b)
      BY <1>2, <1>3
    <3>2. order'[j] = b[j - Len(a)]
      BY <1>2, <1>3, <1>4, <3>1
    <3> QED BY <1>2, <1>3, <3>1, <3>2
  <2> QED BY <1>2, <1>3, <2>1, <2>2, <2>3
<1>6. \A k \in 1..Len(order') : \E j \in 1..Len(order) : order'[k] = order[j]
  <2> SUFFICES ASSUME NEW k \in 1..Len(order')
               PROVE  \E j \in 1..Len(order) : order'[k] = order[j]
    OBVIOUS
  <2>1. CASE k < i
    BY <1>5, <2>1
  <2>2. CASE k >= i
    <3>1. k + 1 \in 1..Len(order) /\ order'[k] = order[k + 1]
      BY <1>5, <2>2
    <3> QED BY <3>1
  <2> QED BY <2>1, <2>2
<1>7. ASSUME NEW x \in Buffered, x \notin SX!ToSet(order[i].spans) PROVE x \in Buffered'
  <2>1. PICK j \in 1..Len(order) : x \in SX!ToSet(order[j].spans)
    BY <1>7 DEF Buffered
  <2>2. j # i
    BY <1>7, <2>1
  <2>3. CASE j < i
    <3>1. j \in 1..Len(order') /\ order'[j] = order[j]
      BY <1>5, <2>3
    <3> QED BY <2>1, <3>1 DEF Buffered
  <2>4. CASE j > i
    <3>1. j - 1 \in 1..Len(order') /\ order'[j - 1] = order[j]
      BY <1>5, <2>4
    <3> QED BY <2>1, <3>1 DEF Buffered
  <2> QED BY <2>2, <2>3, <2>4
<1> QED BY <1>5, <1>6, <1>7

\* What judging one trace does to the buffer and to the dropped spans.
LEMMA JudgeFacts ==
    ASSUME order \in Seq(Entry), NEW i \in 1..Len(order), NEW d, NEW now, Judge(i, d, now)
    PROVE  /\ order' \in Seq(Entry)
           /\ dropped \subseteq dropped'
           /\ Buffered \subseteq Buffered' \cup Kept(i, d) \cup dropped'
           /\ Kept(i, d) \subseteq SX!ToSet(order[i].spans)
           /\ Kept(i, d) \subseteq Spans
           /\ \A k \in 1..Len(order') : \E j \in 1..Len(order) : order'[k] = order[j]
<1>1. order' = SX!RemoveAt(order, i)
  BY DEF Judge
<1>2. dropped' = IF d.keep THEN dropped ELSE dropped \cup SX!ToSet(order[i].spans)
  BY DEF Judge
<1>3. /\ order' \in Seq(Entry)
      /\ Buffered \subseteq Buffered' \cup SX!ToSet(order[i].spans)
      /\ \A k \in 1..Len(order') : \E j \in 1..Len(order) : order'[k] = order[j]
  BY <1>1, RemoveFacts
<1>4. SX!ToSet(order[i].spans) \subseteq Spans
  <2>1. order[i] \in Entry
    OBVIOUS
  <2>2. order[i].spans \in Seq(Spans)
    BY <2>1 DEF Entry
  <2> QED BY <2>2 DEF SX!ToSet
<1> QED BY <1>2, <1>3, <1>4 DEF Kept

\* The index of a trace that is buffered.
LEMMA AtFacts ==
    ASSUME NEW id, Has(id)
    PROVE  At(id) \in 1..Len(order) /\ order[At(id)].id = id
BY DEF Has, At

\* A push's spans, and the traces they belong to.
LEMMA PayloadFacts ==
    ASSUME NEW p \in Pushes
    PROVE  /\ Payload[p] \in Seq(Spans) /\ Len(Payload[p]) \in Nat
           /\ \A s : s \in SX!ToSet(Payload[p]) <=> \E j \in 1..Len(Payload[p]) : s = Payload[p][j]
           /\ \A j \in 1..Len(Payload[p]) :
                Payload[p][j] \in Spans /\ TraceOf[Payload[p][j]] \in Ids \cup {Unkeyed}
<1>1. Payload[p] \in Seq(Spans)
  BY TailBufferAssumption DEF TailBufferAssumption
<1>2. \A j \in 1..Len(Payload[p]) : Payload[p][j] \in Spans
  BY <1>1
<1>3. \A s \in Spans : TraceOf[s] \in Ids \cup {Unkeyed}
  BY DEF Ids
<1>4. \A s : s \in SX!ToSet(Payload[p]) <=> \E j \in 1..Len(Payload[p]) : s = Payload[p][j]
  BY DEF SX!ToSet
<1>5. Len(Payload[p]) \in Nat
  BY <1>1
<1> QED BY <1>1, <1>2, <1>3, <1>4, <1>5
-----------------------------------------------------------------------------
(* The inductive invariant.                                                *)

\* Every span somebody answers for.
Acc == Buffered \cup Flying \cup exported \cup dropped \cup lost

InWalk == {"walk", "enforce", "bounds"}

\* The mutex is held exactly by the actor whose program counter says so, and
\* a drain that is idle carries nothing.
LockInv ==
    /\ \A p \in Pushes : push[p].pc \in InWalk <=> mu = p
    /\ \A a \in Drains : drain[a].pc = "decide" <=> mu = a
    /\ \A a \in Drains : drain[a].pc = "idle" => drain[a].out = {}

\* Spans without a trace id, and all spans once the buffer is latched, are in
\* the buffer only while the push that brought them walks.
HeldInv ==
    \A k \in 1..Len(order) :
       (order[k].id = Unkeyed \/ (flushed /\ mu # "flush"))
          => mu \in Pushes /\ SX!ToSet(order[k].spans) \subseteq SX!ToSet(Payload[mu])

\* What a push sends without owning it is its own, and what it walked is accounted for.
PushInv(p) ==
    /\ push[p].out \ push[p].mine \subseteq SX!ToSet(Payload[p])
    /\ push[p].pc \in {"idle", "lock"} => push[p].i = 1
    /\ push[p].pc \in {"enforce", "bounds"} => push[p].i <= Len(Payload[p])
    /\ push[p].pc = "enforce" => Has(TraceOf[Payload[p][push[p].i]])
    /\ push[p].pc = "send" => push[p].i > Len(Payload[p])
    /\ push[p].pc \in InWalk \cup {"send"} =>
         \A j \in 1..Len(Payload[p]) :
            (j < push[p].i \/ (j = push[p].i /\ push[p].pc # "walk")) => Payload[p][j] \in Acc

AckInv ==
    /\ acked \subseteq Acc
    /\ \A s \in acked : \E q \in Pushes : push[q].pc = "acked" /\ s \in SX!ToSet(Payload[q])

BufferInv ==
    /\ TypeInv /\ LockInv /\ HeldInv /\ AckInv
    /\ \A p \in Pushes : PushInv(p)

-----------------------------------------------------------------------------
(* Frames: what a step of one push, or of one drain, leaves alone.         *)

\* What is on its way out, element by element.
LEMMA FlyingFacts ==
    \A x : x \in Flying <=> \/ \E p \in Pushes : x \in push[p].out
                            \/ \E a \in Drains : x \in drain[a].out
BY DEF Flying

\* The same after the step.
LEMMA FlyingNext ==
    \A x : x \in Flying' <=> \/ \E p \in Pushes : x \in push'[p].out
                             \/ \E a \in Drains : x \in drain'[a].out
BY DEF Flying

\* A step of push p that answers for what it takes, except for some of its own spans.
LEMMA AccFrame ==
    ASSUME BufferInv, NEW p \in Pushes, NEW r \in PushState, NEW gone,
           push' = [push EXCEPT ![p] = r], drain' = drain,
           exported \subseteq exported', dropped \subseteq dropped', lost \subseteq lost',
           Buffered \subseteq Buffered' \cup r.out \cup dropped',
           push[p].out \ gone \subseteq r.out \cup exported' \cup lost'
    PROVE  Acc \ gone \subseteq Acc'
<1>1. /\ push'[p] = r
      /\ \A q \in Pushes : q # p => push'[q] = push[q]
  BY DEF BufferInv, TypeInv
<1>2. \A x \in Flying : x \in Flying' \/ x \in push[p].out
  BY <1>1, FlyingFacts, FlyingNext
<1>3. r.out \subseteq Flying'
  BY <1>1, FlyingNext
<1> QED BY <1>2, <1>3 DEF Acc

\* Such a step keeps the other pushes' invariants and the acked spans accounted for.
LEMMA PushFrame ==
    ASSUME BufferInv, NEW p \in Pushes, NEW r \in PushState, NEW gone,
           push' = [push EXCEPT ![p] = r], drain' = drain,
           exported \subseteq exported', dropped \subseteq dropped', lost \subseteq lost',
           Buffered \subseteq Buffered' \cup r.out \cup dropped',
           push[p].out \ gone \subseteq r.out \cup exported' \cup lost',
           gone \subseteq SX!ToSet(Payload[p]), push[p].pc # "acked",
           mu = p \/ order' = order,
           acked' = acked \/ (/\ r.pc = "acked" /\ acked' = acked \cup SX!ToSet(Payload[p])
                              /\ SX!ToSet(Payload[p]) \subseteq Acc')
    PROVE  /\ Acc \ gone \subseteq Acc'
           /\ AckInv'
           /\ \A q \in Pushes : q # p => PushInv(q)'
<1>1. /\ push'[p] = r
      /\ \A q \in Pushes : q # p => push'[q] = push[q]
  BY DEF BufferInv, TypeInv
<1>4. Acc \ gone \subseteq Acc'
  BY AccFrame
<1>5. \A q \in Pushes : q # p => SX!ToSet(Payload[q]) \cap gone = {}
  BY TailBufferAssumption DEF TailBufferAssumption
<1>6. acked \cap gone = {}
  <2>1. \A s \in acked : \E q \in Pushes : q # p /\ s \in SX!ToSet(Payload[q])
    BY DEF BufferInv, AckInv
  <2> QED BY <1>5, <2>1
<1>7. AckInv'
  <2>1. acked \subseteq Acc'
    BY <1>4, <1>6 DEF BufferInv, AckInv
  <2>2. \A s \in acked : \E q \in Pushes : push'[q].pc = "acked" /\ s \in SX!ToSet(Payload[q])
    BY <1>1 DEF BufferInv, AckInv
  <2>3. CASE acked' = acked
    BY <2>1, <2>2, <2>3 DEF AckInv
  <2>4. CASE /\ r.pc = "acked" /\ acked' = acked \cup SX!ToSet(Payload[p])
             /\ SX!ToSet(Payload[p]) \subseteq Acc'
    BY <1>1, <2>1, <2>2, <2>4 DEF AckInv
  <2> QED BY <2>3, <2>4
<1>8. ASSUME NEW q \in Pushes, q # p PROVE PushInv(q)'
  <2>1. PushInv(q) /\ push'[q] = push[q]
    BY <1>1, <1>8 DEF BufferInv
  <2>2. push[q].pc = "enforce" => order' = order
    BY <1>8 DEF BufferInv, LockInv, InWalk
  <2>3. push[q].pc = "enforce" => Has(TraceOf[Payload[q][push[q].i]])'
    BY <2>1, <2>2 DEF PushInv, Has
  <2>4. \A j \in 1..Len(Payload[q]) : Payload[q][j] \in Acc => Payload[q][j] \in Acc'
    BY <1>4, <1>5, <1>8, PayloadFacts
  <2> QED BY <2>1, <2>3, <2>4 DEF PushInv
<1> QED BY <1>4, <1>7, <1>8

\* A step of drain a that answers for what it takes.
LEMMA DrainFrame ==
    ASSUME BufferInv, NEW a \in Drains, NEW r \in DrainState,
           drain' = [drain EXCEPT ![a] = r], push' = push, acked' = acked,
           exported \subseteq exported', dropped \subseteq dropped', lost \subseteq lost',
           Buffered \subseteq Buffered' \cup r.out \cup dropped',
           drain[a].out \subseteq r.out \cup exported' \cup lost',
           mu = a \/ order' = order
    PROVE  /\ AckInv'
           /\ \A q \in Pushes : PushInv(q)'
<1>1. /\ drain'[a] = r
      /\ \A b \in Drains : b # a => drain'[b] = drain[b]
  BY DEF BufferInv, TypeInv
<1>2. \A x \in Flying : x \in Flying' \/ x \in drain[a].out
  BY <1>1, FlyingFacts, FlyingNext
<1>3. r.out \subseteq Flying'
  BY <1>1, FlyingNext
<1>4. Acc \subseteq Acc'
  BY <1>2, <1>3 DEF Acc
<1>5. AckInv'
  BY <1>4 DEF BufferInv, AckInv
<1>6. ASSUME NEW q \in Pushes PROVE PushInv(q)'
  <2>1. PushInv(q) /\ push'[q] = push[q]
    BY DEF BufferInv
  <2>2. a \notin Pushes
    BY TailBufferAssumption DEF TailBufferAssumption, Drains
  <2>3. push[q].pc = "enforce" => order' = order
    BY <2>2 DEF BufferInv, LockInv, InWalk
  <2>4. push[q].pc = "enforce" => Has(TraceOf[Payload[q][push[q].i]])'
    BY <2>1, <2>3 DEF PushInv, Has
  <2> QED BY <1>4, <2>1, <2>4 DEF PushInv
<1> QED BY <1>5, <1>6

\* The mutex and the types, in a step of push p.
LEMMA PushLock ==
    ASSUME BufferInv, NEW p \in Pushes, NEW r \in PushState,
           push' = [push EXCEPT ![p] = r], drain' = drain, clock' = clock, flushed' = flushed,
           order' \in Seq(Entry),
           r.pc \in InWalk <=> mu' = p,
           mu' = mu \/ (mu = "free" /\ mu' = p) \/ (mu = p /\ mu' = "free")
    PROVE  TypeInv' /\ LockInv'
<1>1. /\ push' \in [Pushes -> PushState] /\ push'[p] = r
      /\ \A q \in Pushes : q # p => push'[q] = push[q]
  BY DEF BufferInv, TypeInv
<1>2. p \notin Drains /\ p # "free" /\ "free" \notin Pushes /\ "free" \notin Drains
  BY TailBufferAssumption DEF TailBufferAssumption, Drains
<1>3. TypeInv'
  BY <1>1 DEF BufferInv, TypeInv
<1>4. ASSUME NEW q \in Pushes PROVE push'[q].pc \in InWalk <=> mu' = q
  <2>1. push[q].pc \in InWalk <=> mu = q
    BY DEF BufferInv, LockInv
  <2> QED BY <1>1, <1>2, <2>1
<1>5. ASSUME NEW a \in Drains PROVE drain'[a].pc = "decide" <=> mu' = a
  BY <1>2 DEF BufferInv, LockInv
<1>6. \A a \in Drains : drain'[a].pc = "idle" => drain'[a].out = {}
  BY DEF BufferInv, LockInv
<1> QED BY <1>3, <1>4, <1>5, <1>6 DEF LockInv

\* The mutex and the types, in a step of drain a.
LEMMA DrainLock ==
    ASSUME BufferInv, NEW a \in Drains, NEW r \in DrainState,
           drain' = [drain EXCEPT ![a] = r], push' = push, clock' = clock, flushed' \in BOOLEAN,
           order' \in Seq(Entry),
           r.pc = "decide" <=> mu' = a, r.pc = "idle" => r.out = {},
           mu' = mu \/ (mu = "free" /\ mu' = a) \/ (mu = a /\ mu' = "free")
    PROVE  TypeInv' /\ LockInv'
<1>1. /\ drain' \in [Drains -> DrainState] /\ drain'[a] = r
      /\ \A b \in Drains : b # a => drain'[b] = drain[b]
  BY DEF BufferInv, TypeInv
<1>2. a \notin Pushes /\ a # "free" /\ "free" \notin Pushes /\ "free" \notin Drains
  BY TailBufferAssumption DEF TailBufferAssumption, Drains
<1>3. TypeInv'
  BY <1>1 DEF BufferInv, TypeInv
<1>4. ASSUME NEW b \in Drains PROVE drain'[b].pc = "decide" <=> mu' = b
  <2>1. drain[b].pc = "decide" <=> mu = b
    BY DEF BufferInv, LockInv
  <2> QED BY <1>1, <1>2, <2>1
<1>5. ASSUME NEW q \in Pushes PROVE push'[q].pc \in InWalk <=> mu' = q
  BY <1>2 DEF BufferInv, LockInv
<1>6. \A b \in Drains : drain'[b].pc = "idle" => drain'[b].out = {}
  BY <1>1 DEF BufferInv, LockInv
<1> QED BY <1>3, <1>4, <1>5, <1>6 DEF LockInv
-----------------------------------------------------------------------------
(* The steps of a push.                                                    *)

\* A step of Sample keeps the invariant.
LEMMA SampleStep ==
    ASSUME BufferInv, NEW p \in Pushes, Sample(p)
    PROVE  BufferInv'
<1>0. push[p] \in PushState /\ clock \in Nat /\ order \in Seq(Entry) /\ PushInv(p)
  BY DEF BufferInv, TypeInv
<1>1. /\ push[p].pc = "idle" /\ drain' = drain /\ order' = order /\ mu' = mu /\ clock' = clock
      /\ flushed' = flushed /\ exported' = exported /\ dropped' = dropped /\ lost' = lost
      /\ acked' = acked
  BY DEF Sample, buffer, fate
<1> DEFINE r == push'[p]
<1>2. /\ r \in PushState /\ r.pc = "lock" /\ r.out = push[p].out /\ r.mine = push[p].mine
      /\ r.i = push[p].i
  <2>1. push' = [push EXCEPT ![p].pc = "lock", ![p].now = clock, ![p].tries = @ + 1]
    BY DEF Sample
  <2>2. push \in [Pushes -> PushState]
    BY DEF BufferInv, TypeInv
  <2>3. r \in PushState
    BY <1>0, <2>1, <2>2 DEF PushState
  <2>4. r.pc = "lock" /\ r.out = push[p].out /\ r.mine = push[p].mine /\ r.i = push[p].i
    BY <1>0, <2>1, <2>2 DEF PushState
  <2> QED BY <2>3, <2>4
<1>3. push' = [push EXCEPT ![p] = r]
  BY DEF Sample, BufferInv, TypeInv
<1> HIDE DEF r
<1>4. AckInv' /\ \A q \in Pushes : q # p => PushInv(q)'
  <2>1. Buffered' = Buffered
    BY <1>1 DEF Buffered
  <2> QED BY <1>1, <1>2, <1>3, <2>1, PushFrame, Zenon
<1>5. TypeInv' /\ LockInv'
  <2>1. push[p].pc \notin InWalk /\ r.pc \notin InWalk
    BY <1>1, <1>2 DEF InWalk
  <2>2. mu # p
    BY <2>1 DEF BufferInv, LockInv
  <2> QED BY <1>0, <1>1, <1>2, <1>3, <2>1, <2>2, PushLock
<1>6. PushInv(p)'
  <2>1. push'[p] = r
    BY <1>3 DEF BufferInv, TypeInv
  <2> QED BY <1>0, <1>1, <1>2, <2>1 DEF PushInv, InWalk
<1>7. HeldInv'
  BY <1>1 DEF BufferInv, HeldInv
<1> QED BY <1>4, <1>5, <1>6, <1>7 DEF BufferInv

\* A step of Lock keeps the invariant.
LEMMA LockStep ==
    ASSUME BufferInv, NEW p \in Pushes, Lock(p)
    PROVE  BufferInv'
<1>0. push[p] \in PushState /\ order \in Seq(Entry) /\ PushInv(p)
  BY DEF BufferInv, TypeInv
<1>1. /\ push[p].pc = "lock" /\ drain' = drain /\ order' = order /\ mu = "free" /\ mu' = p
      /\ clock' = clock /\ flushed' = flushed /\ exported' = exported /\ dropped' = dropped
      /\ lost' = lost /\ acked' = acked
  BY DEF Lock, buffer, fate
<1> DEFINE r == [push[p] EXCEPT !.pc = "walk"]
<1>2. r \in PushState /\ r.pc = "walk" /\ r.out = push[p].out /\ r.mine = push[p].mine
      /\ r.i = push[p].i
  BY <1>0 DEF PushState
<1>3. push' = [push EXCEPT ![p] = r]
  BY DEF Lock
<1> HIDE DEF r
<1>4. AckInv' /\ \A q \in Pushes : q # p => PushInv(q)'
  <2>1. Buffered' = Buffered
    BY <1>1 DEF Buffered
  <2> QED BY <1>1, <1>2, <1>3, <2>1, PushFrame, Zenon
<1>5. TypeInv' /\ LockInv'
  <2>1. r.pc \in InWalk
    BY <1>2 DEF InWalk
  <2> QED BY <1>0, <1>1, <1>2, <1>3, <2>1, PushLock
<1>6. PushInv(p)'
  <2>1. push'[p] = r
    BY <1>3 DEF BufferInv, TypeInv
  <2>2. r.i = 1
    BY <1>0, <1>1, <1>2 DEF PushInv
  <2> QED BY <1>0, <1>1, <1>2, <2>1, <2>2, PayloadFacts DEF PushInv, InWalk
<1>7. HeldInv'
  <2>1. "free" \notin Pushes
    BY TailBufferAssumption DEF TailBufferAssumption
  <2> QED BY <1>1, <2>1 DEF BufferInv, HeldInv
<1> QED BY <1>4, <1>5, <1>6, <1>7 DEF BufferInv

\* The span a push is at joins the buffer: it is that push's own.
LEMMA AddHeld ==
    ASSUME BufferInv, NEW p \in Pushes, mu = p, mu' = mu, flushed' = flushed,
           NEW id \in Ids \cup {Unkeyed}, NEW s \in SX!ToSet(Payload[p]), NEW now \in Nat,
           s \in Spans, Add(id, s, now)
    PROVE  HeldInv'
<1>1. order \in Seq(Entry)
  BY DEF BufferInv, TypeInv
<1>2. \A k \in 1..Len(order') :
         \/ \E j \in 1..Len(order) : order'[k] = order[j]
         \/ order'[k].id = id /\ SX!ToSet(order'[k].spans) \subseteq {s}
         \/ \E j \in 1..Len(order) :
              /\ order'[k].id = order[j].id
              /\ SX!ToSet(order'[k].spans) \subseteq SX!ToSet(order[j].spans) \cup {s}
  BY <1>1, AddFacts
<1>3. \A j \in 1..Len(order) : (order[j].id = Unkeyed \/ (flushed /\ mu # "flush"))
         => SX!ToSet(order[j].spans) \subseteq SX!ToSet(Payload[p])
  BY DEF BufferInv, HeldInv
<1> QED BY <1>2, <1>3 DEF HeldInv

\* A trace leaves the buffer.
LEMMA RemoveHeld ==
    ASSUME BufferInv, mu' = mu, flushed' = flushed,
           \A k \in 1..Len(order') : \E j \in 1..Len(order) : order'[k] = order[j]
    PROVE  HeldInv'
BY DEF BufferInv, HeldInv

\* A step of ParkSpan keeps the invariant.
LEMMA ParkSpanStep ==
    ASSUME BufferInv, NEW p \in Pushes, ParkSpan(p)
    PROVE  BufferInv'
<1>0. push[p] \in PushState /\ order \in Seq(Entry) /\ PushInv(p)
  BY DEF BufferInv, TypeInv
<1>1. /\ push[p].pc = "walk" /\ drain' = drain /\ mu = p /\ mu' = mu
      /\ clock' = clock /\ flushed' = flushed /\ exported' = exported /\ dropped' = dropped
      /\ lost' = lost /\ acked' = acked
      /\ Add(TraceOf[Current(p)], Current(p), push[p].now)
  BY DEF ParkSpan, Holds, fate
<1> DEFINE r == push'[p]
<1>2. push' = [push EXCEPT ![p].i = @ + 1]
  BY DEF ParkSpan
<1>3. push' = [push EXCEPT ![p] = r]
  BY <1>2 DEF BufferInv, TypeInv
<1>4. /\ r \in PushState
      /\ r.pc = push[p].pc /\ r.out = push[p].out /\ r.mine = push[p].mine /\ r.i = push[p].i + 1
  <2>1. push \in [Pushes -> PushState]
    BY DEF BufferInv, TypeInv
  <2>2. r \in PushState
    <3>1. push[p].i \in Nat \ {0}
      BY <1>0 DEF PushState
    <3>2. push[p].i + 1 \in Nat \ {0}
      BY <3>1
    <3>3. r = [push[p] EXCEPT !.i = push[p].i + 1]
      BY <1>2, <2>1
    <3> QED BY <1>0, <3>2, <3>3 DEF PushState
  <2>3. /\ r.pc = push[p].pc /\ r.out = push[p].out /\ r.mine = push[p].mine /\ r.i = push[p].i + 1
    BY <1>0, <1>2, <2>1 DEF PushState
  <2> QED BY <2>2, <2>3
<1> HIDE DEF r
<1> DEFINE s == Current(p)
           id == TraceOf[Current(p)]
<1>5. /\ push[p].i \in 1..Len(Payload[p]) /\ push[p].now \in Nat
      /\ s = Payload[p][push[p].i]
      /\ s \in Spans /\ s \in SX!ToSet(Payload[p]) /\ id \in Ids \cup {Unkeyed}
  <2>1. push[p].i \in 1..Len(Payload[p]) /\ push[p].now \in Nat
    BY <1>0, PayloadFacts DEF ParkSpan, Walked, PushState
  <2> QED BY <2>1, PayloadFacts DEF Current
<1>6. Add(id, s, push[p].now)
  BY <1>1
<1> HIDE DEF s, id
<1>7. order' \in Seq(Entry) /\ Buffered \subseteq Buffered' /\ s \in Buffered'
  BY <1>0, <1>5, <1>6, AddFacts
<1>8. AckInv' /\ (\A q \in Pushes : q # p => PushInv(q)') /\ Acc \ {} \subseteq Acc'
  BY <1>1, <1>3, <1>4, <1>7, PushFrame
<1>9. TypeInv' /\ LockInv'
  <2>1. r.pc \in InWalk
    BY <1>1, <1>4 DEF InWalk
  <2> QED BY <1>1, <1>3, <1>4, <1>7, <2>1, PushLock
<1>10. PushInv(p)'
  <2>1. push'[p] = r
    BY DEF r
  <2>2. s \in Acc'
    BY <1>7 DEF Acc
  <2>3. r.pc = "walk"
    BY <1>1, <1>4
  <2>4. \A j \in 1..Len(Payload[p]) : j < r.i => Payload[p][j] \in Acc'
    <3>1. \A j \in 1..Len(Payload[p]) : j < push[p].i => Payload[p][j] \in Acc
      BY <1>0, <1>1 DEF PushInv, InWalk
    <3> QED BY <1>4, <1>5, <1>8, <2>2, <3>1, PayloadFacts
  <2>5. r.out \ r.mine \subseteq SX!ToSet(Payload[p])
    BY <1>0, <1>4 DEF PushInv
  <2> QED BY <2>1, <2>3, <2>4, <2>5 DEF PushInv
<1>11. HeldInv'
  BY <1>1, <1>5, <1>6, AddHeld
<1> QED BY <1>8, <1>9, <1>10, <1>11 DEF BufferInv

\* A step of LateSpan keeps the invariant.
LEMMA LateSpanStep ==
    ASSUME BufferInv, NEW p \in Pushes, LateSpan(p)
    PROVE  BufferInv'
<1>0. push[p] \in PushState /\ order \in Seq(Entry) /\ PushInv(p) /\ push \in [Pushes -> PushState]
  BY DEF BufferInv, TypeInv
<1> DEFINE r == push'[p]
           s == Current(p)
           keep == verdicts[TraceOf[Current(p)]].keep
           o == IF keep THEN push[p].out \cup {s} ELSE push[p].out
<1>1. /\ push[p].pc = "walk" /\ drain' = drain /\ mu = p /\ mu' = mu
      /\ clock' = clock /\ flushed' = flushed /\ exported' = exported /\ order' = order
      /\ lost' = lost /\ acked' = acked
      /\ dropped' = IF keep THEN dropped ELSE dropped \cup {s}
  BY DEF LateSpan, Holds, buffer
<1>2. push' = [push EXCEPT ![p].i = @ + 1, ![p].out = o]
  BY <1>0 DEF LateSpan
<1>3. push' = [push EXCEPT ![p] = r]
  BY <1>0, <1>2
<1>5. /\ push[p].i \in 1..Len(Payload[p])
      /\ s = Payload[p][push[p].i]
      /\ s \in Spans /\ s \in SX!ToSet(Payload[p])
  <2>1. push[p].i \in 1..Len(Payload[p])
    BY <1>0, PayloadFacts DEF LateSpan, Walked, PushState
  <2> QED BY <2>1, PayloadFacts DEF Current
<1>6. /\ s \in o \cup dropped' /\ push[p].out \subseteq o /\ o \in SUBSET Spans
      /\ o \subseteq push[p].out \cup {s} /\ dropped \subseteq dropped'
  BY <1>0, <1>1, <1>5 DEF PushState
<1> HIDE DEF o, s, keep
<1>4. /\ r \in PushState
      /\ r.pc = push[p].pc /\ r.out = o /\ r.mine = push[p].mine /\ r.i = push[p].i + 1
  <2>1. push[p].i \in Nat \ {0}
    BY <1>0 DEF PushState
  <2>2. push[p].i + 1 \in Nat \ {0}
    BY <2>1
  <2>3. r = [push[p] EXCEPT !.i = push[p].i + 1, !.out = o]
    BY <1>0, <1>2
  <2>4. r \in PushState
    BY <1>0, <1>6, <2>2, <2>3 DEF PushState
  <2>5. r.pc = push[p].pc /\ r.out = o /\ r.mine = push[p].mine /\ r.i = push[p].i + 1
    BY <1>0, <2>3 DEF PushState
  <2> QED BY <2>4, <2>5
<1> HIDE DEF r
<1>7. Buffered \subseteq Buffered'
  BY <1>1 DEF Buffered
<1>8. AckInv' /\ (\A q \in Pushes : q # p => PushInv(q)') /\ Acc \ {} \subseteq Acc'
  BY <1>1, <1>3, <1>4, <1>6, <1>7, PushFrame
<1>9. TypeInv' /\ LockInv'
  <2>1. r.pc \in InWalk
    BY <1>1, <1>4 DEF InWalk
  <2> QED BY <1>0, <1>1, <1>3, <1>4, <2>1, PushLock
<1>10. PushInv(p)'
  <2>1. push'[p] = r
    BY DEF r
  <2>2. s \in Acc'
    <3>1. o \subseteq Flying'
      BY <1>4, <2>1, FlyingNext
    <3> QED BY <1>6, <3>1 DEF Acc
  <2>3. r.pc = "walk"
    BY <1>1, <1>4
  <2>4. \A j \in 1..Len(Payload[p]) : j < r.i => Payload[p][j] \in Acc'
    <3>1. \A j \in 1..Len(Payload[p]) : j < push[p].i => Payload[p][j] \in Acc
      BY <1>0, <1>1 DEF PushInv, InWalk
    <3> QED BY <1>4, <1>5, <1>8, <2>2, <3>1, PayloadFacts
  <2>5. r.out \ r.mine \subseteq SX!ToSet(Payload[p])
    BY <1>0, <1>4, <1>5, <1>6 DEF PushInv
  <2> QED BY <2>1, <2>3, <2>4, <2>5 DEF PushInv
<1>11. HeldInv'
  BY <1>1 DEF BufferInv, HeldInv
<1> QED BY <1>8, <1>9, <1>10, <1>11 DEF BufferInv

\* A step of BufferSpan keeps the invariant.
LEMMA BufferSpanStep ==
    ASSUME BufferInv, NEW p \in Pushes, BufferSpan(p)
    PROVE  BufferInv'
<1>0. push[p] \in PushState /\ order \in Seq(Entry) /\ PushInv(p) /\ push \in [Pushes -> PushState]
  BY DEF BufferInv, TypeInv
<1>1. /\ push[p].pc = "walk" /\ drain' = drain /\ mu = p /\ mu' = mu
      /\ clock' = clock /\ flushed' = flushed /\ exported' = exported /\ dropped' = dropped
      /\ lost' = lost /\ acked' = acked
      /\ Add(TraceOf[Current(p)], Current(p), push[p].now)
  BY DEF BufferSpan, Holds, fate
<1> DEFINE r == push'[p]
<1>2. r = [push[p] EXCEPT !.pc = "enforce"]
  BY <1>0 DEF BufferSpan
<1>3. push' = [push EXCEPT ![p] = r]
  BY <1>0 DEF BufferSpan
<1>4. /\ r \in PushState
      /\ r.pc = "enforce" /\ r.out = push[p].out /\ r.mine = push[p].mine /\ r.i = push[p].i
  BY <1>0, <1>2 DEF PushState
<1> HIDE DEF r
<1> DEFINE s == Current(p)
           id == TraceOf[Current(p)]
<1>5. /\ push[p].i \in 1..Len(Payload[p]) /\ push[p].now \in Nat
      /\ s = Payload[p][push[p].i] /\ id = TraceOf[s]
      /\ s \in Spans /\ s \in SX!ToSet(Payload[p]) /\ id \in Ids \cup {Unkeyed}
  <2>1. push[p].i \in 1..Len(Payload[p]) /\ push[p].now \in Nat
    BY <1>0, PayloadFacts DEF BufferSpan, Walked, PushState
  <2> QED BY <2>1, PayloadFacts DEF Current
<1>6. Add(id, s, push[p].now)
  BY <1>1
<1> HIDE DEF s, id
<1>7. /\ order' \in Seq(Entry) /\ Buffered \subseteq Buffered' /\ s \in Buffered'
      /\ \E k \in 1..Len(order') : order'[k].id = id
  BY <1>0, <1>5, <1>6, AddFacts
<1>8. AckInv' /\ (\A q \in Pushes : q # p => PushInv(q)') /\ Acc \ {} \subseteq Acc'
  BY <1>1, <1>3, <1>4, <1>7, PushFrame
<1>9. TypeInv' /\ LockInv'
  <2>1. r.pc \in InWalk
    BY <1>4 DEF InWalk
  <2> QED BY <1>1, <1>3, <1>4, <1>7, <2>1, PushLock
<1>10. PushInv(p)'
  <2>1. push'[p] = r
    BY DEF r
  <2>2. s \in Acc'
    BY <1>7 DEF Acc
  <2>3. \E k \in 1..Len(order') : order'[k].id = TraceOf[Payload[p][r.i]]
    BY <1>4, <1>5, <1>7
  <2>4. \A j \in 1..Len(Payload[p]) : (j < r.i \/ j = r.i) => Payload[p][j] \in Acc'
    <3>1. \A j \in 1..Len(Payload[p]) : j < push[p].i => Payload[p][j] \in Acc
      BY <1>0, <1>1 DEF PushInv, InWalk
    <3> QED BY <1>4, <1>5, <1>8, <2>2, <3>1
  <2>5. r.out \ r.mine \subseteq SX!ToSet(Payload[p]) /\ r.i <= Len(Payload[p])
    BY <1>0, <1>4, <1>5 DEF PushInv
  <2> QED BY <1>4, <2>1, <2>3, <2>4, <2>5 DEF PushInv, Has
<1>11. HeldInv'
  BY <1>1, <1>5, <1>6, AddHeld
<1> QED BY <1>8, <1>9, <1>10, <1>11 DEF BufferInv

\* A trace judged early by push p, which owns what it keeps of it.
LEMMA EarlyStep ==
    ASSUME BufferInv, NEW p \in Pushes, NEW i \in 1..Len(order), mu = p,
           push[p].pc \in {"enforce", "bounds"}, Early(p, i, "bounds")
    PROVE  BufferInv'
<1>0. push[p] \in PushState /\ order \in Seq(Entry) /\ PushInv(p) /\ push \in [Pushes -> PushState]
  BY DEF BufferInv, TypeInv
<1>1. PICK d \in Decisions(order[i].id) :
        /\ Judge(i, d, push[p].now)
        /\ push' = [push EXCEPT ![p].pc = "bounds", ![p].out = @ \cup Kept(i, d),
                                ![p].mine = @ \cup Kept(i, d)]
        /\ UNCHANGED <<clock, mu, flushed, drain, acked, exported, lost>>
  BY DEF Early
<1> DEFINE r == push'[p]
           kept == Kept(i, d)
<1>2. /\ order' \in Seq(Entry) /\ dropped \subseteq dropped'
      /\ Buffered \subseteq Buffered' \cup kept \cup dropped'
      /\ kept \subseteq Spans
      /\ \A k \in 1..Len(order') : \E j \in 1..Len(order) : order'[k] = order[j]
  BY <1>0, <1>1, JudgeFacts
<1>3. push' = [push EXCEPT ![p] = r]
  BY <1>0, <1>1
<1>4. r = [push[p] EXCEPT !.pc = "bounds", !.out = push[p].out \cup kept,
                          !.mine = push[p].mine \cup kept]
  BY <1>0, <1>1
<1> HIDE DEF kept
<1>5. /\ r \in PushState
      /\ r.pc = "bounds" /\ r.out = push[p].out \cup kept /\ r.mine = push[p].mine \cup kept
      /\ r.i = push[p].i
  <2>1. push[p].out \cup kept \in SUBSET Spans /\ push[p].mine \cup kept \in SUBSET Spans
    BY <1>0, <1>2 DEF PushState
  <2> QED BY <1>0, <1>4, <2>1 DEF PushState
<1> HIDE DEF r
<1>6. AckInv' /\ (\A q \in Pushes : q # p => PushInv(q)') /\ Acc \ {} \subseteq Acc'
  <2>1. push[p].pc # "acked" /\ push[p].out \ {} \subseteq r.out \cup exported' \cup lost'
    BY <1>5
  <2>2. Buffered \subseteq Buffered' \cup r.out \cup dropped'
    BY <1>2, <1>5
  <2> QED BY <1>1, <1>2, <1>3, <1>5, <2>1, <2>2, PushFrame
<1>7. TypeInv' /\ LockInv'
  <2>1. r.pc \in InWalk
    BY <1>5 DEF InWalk
  <2> QED BY <1>1, <1>2, <1>3, <1>5, <2>1, PushLock
<1>8. PushInv(p)'
  <2>1. push'[p] = r
    BY DEF r
  <2>2. \A j \in 1..Len(Payload[p]) : (j < r.i \/ j = r.i) => Payload[p][j] \in Acc'
    <3>1. push[p].pc \in InWalk /\ push[p].pc # "walk"
      BY DEF InWalk
    <3>2. \A j \in 1..Len(Payload[p]) : (j < push[p].i \/ j = push[p].i) => Payload[p][j] \in Acc
      BY <1>0, <3>1 DEF PushInv
    <3> QED BY <1>5, <1>6, <3>2
  <2>3. r.out \ r.mine \subseteq SX!ToSet(Payload[p]) /\ r.i <= Len(Payload[p])
    BY <1>0, <1>5 DEF PushInv
  <2> QED BY <1>5, <2>1, <2>2, <2>3 DEF PushInv
<1>9. HeldInv'
  BY <1>1, <1>2, RemoveHeld
<1> QED BY <1>6, <1>7, <1>8, <1>9 DEF BufferInv

\* A push moves on without touching the buffer.
LEMMA MoveStep ==
    ASSUME BufferInv, NEW p \in Pushes, NEW r \in PushState, mu = p,
           push' = [push EXCEPT ![p] = r],
           UNCHANGED <<clock, mu, flushed, buffer, cache, drain, fate>>,
           r.out = push[p].out, r.mine = push[p].mine,
           \/ push[p].pc = "enforce" /\ r.pc = "bounds" /\ r.i = push[p].i
           \/ push[p].pc = "bounds" /\ r.pc = "walk" /\ r.i = push[p].i + 1
    PROVE  BufferInv'
<1>0. push[p] \in PushState /\ order \in Seq(Entry) /\ PushInv(p) /\ push \in [Pushes -> PushState]
  BY DEF BufferInv, TypeInv
<1>1. /\ drain' = drain /\ order' = order /\ mu' = mu /\ clock' = clock /\ acked' = acked
      /\ flushed' = flushed /\ exported' = exported /\ dropped' = dropped /\ lost' = lost
  BY DEF buffer, fate
<1>2. AckInv' /\ (\A q \in Pushes : q # p => PushInv(q)') /\ Acc \ {} \subseteq Acc'
  <2>1. Buffered' = Buffered
    BY <1>1 DEF Buffered
  <2>2. push[p].pc # "acked"
    OBVIOUS
  <2> QED BY <1>1, <2>1, <2>2, PushFrame
<1>3. TypeInv' /\ LockInv'
  <2>1. r.pc \in InWalk
    BY DEF InWalk
  <2> QED BY <1>0, <1>1, <2>1, PushLock
<1>4. PushInv(p)'
  <2>1. push'[p] = r
    BY <1>0
  <2>2. push[p].pc \in InWalk /\ push[p].pc # "walk" /\ push[p].i \in Nat
    BY <1>0 DEF InWalk, PushState
  <2>3. \A j \in 1..Len(Payload[p]) : (j < push[p].i \/ j = push[p].i) => Payload[p][j] \in Acc'
    BY <1>0, <1>2, <2>2 DEF PushInv
  <2>4. \A j \in 1..Len(Payload[p]) :
          (j < r.i \/ (j = r.i /\ r.pc # "walk")) => Payload[p][j] \in Acc'
    BY <2>2, <2>3, PayloadFacts
  <2>5. r.pc = "bounds" => r.i <= Len(Payload[p])
    BY <1>0 DEF PushInv
  <2> QED BY <1>0, <2>1, <2>4, <2>5 DEF PushInv
<1>5. HeldInv'
  BY <1>1 DEF BufferInv, HeldInv
<1> QED BY <1>2, <1>3, <1>4, <1>5 DEF BufferInv

\* A step of EnforceTrace keeps the invariant.
LEMMA EnforceTraceStep ==
    ASSUME BufferInv, NEW p \in Pushes, EnforceTrace(p)
    PROVE  BufferInv'
<1>0. push[p] \in PushState /\ PushInv(p) /\ push \in [Pushes -> PushState]
  BY DEF BufferInv, TypeInv
<1>1. mu = p /\ push[p].pc = "enforce"
  BY DEF EnforceTrace, Holds
<1>2. At(TraceOf[Current(p)]) \in 1..Len(order)
  BY <1>0, <1>1, AtFacts DEF PushInv, Current
<1>3. CASE Early(p, At(TraceOf[Current(p)]), "bounds")
  BY <1>1, <1>2, <1>3, EarlyStep
<1>4. CASE /\ push' = [push EXCEPT ![p].pc = "bounds"]
           /\ UNCHANGED <<clock, mu, flushed, buffer, cache, drain, fate>>
  <2> DEFINE r == [push[p] EXCEPT !.pc = "bounds"]
  <2>1. /\ r \in PushState /\ r.pc = "bounds" /\ r.out = push[p].out /\ r.mine = push[p].mine
        /\ r.i = push[p].i
    BY <1>0 DEF PushState
  <2>2. push' = [push EXCEPT ![p] = r]
    BY <1>4
  <2> HIDE DEF r
  <2> QED BY <1>1, <1>4, <2>1, <2>2, MoveStep
<1> QED BY <1>3, <1>4 DEF EnforceTrace

\* A step of DecideOldest keeps the invariant.
LEMMA DecideOldestStep ==
    ASSUME BufferInv, NEW p \in Pushes, DecideOldest(p)
    PROVE  BufferInv'
<1>1. mu = p /\ push[p].pc = "bounds" /\ order # <<>> /\ Early(p, 1, "bounds")
  BY DEF DecideOldest, Holds
<1>2. 1 \in 1..Len(order)
  <2>1. order \in Seq(Entry)
    BY DEF BufferInv, TypeInv
  <2> QED BY <1>1, <2>1
<1> QED BY <1>1, <1>2, EarlyStep

\* A step of NextSpan keeps the invariant.
LEMMA NextSpanStep ==
    ASSUME BufferInv, NEW p \in Pushes, NextSpan(p)
    PROVE  BufferInv'
<1>0. push[p] \in PushState /\ PushInv(p) /\ push \in [Pushes -> PushState]
  BY DEF BufferInv, TypeInv
<1>1. /\ mu = p /\ push[p].pc = "bounds"
      /\ push' = [push EXCEPT ![p].pc = "walk", ![p].i = @ + 1]
      /\ UNCHANGED <<clock, mu, flushed, buffer, cache, drain, fate>>
  BY DEF NextSpan, Holds
<1> DEFINE r == push'[p]
<1>2. push' = [push EXCEPT ![p] = r]
  BY <1>0, <1>1
<1>3. /\ r \in PushState
      /\ r.pc = "walk" /\ r.out = push[p].out /\ r.mine = push[p].mine /\ r.i = push[p].i + 1
  <2>1. push[p].i \in Nat \ {0}
    BY <1>0 DEF PushState
  <2>2. push[p].i + 1 \in Nat \ {0}
    BY <2>1
  <2>3. r = [push[p] EXCEPT !.pc = "walk", !.i = push[p].i + 1]
    BY <1>0, <1>1
  <2>4. r \in PushState
    BY <1>0, <2>2, <2>3 DEF PushState
  <2>5. r.pc = "walk" /\ r.out = push[p].out /\ r.mine = push[p].mine /\ r.i = push[p].i + 1
    BY <1>0, <2>3 DEF PushState
  <2> QED BY <2>4, <2>5
<1> HIDE DEF r
<1> QED BY <1>1, <1>2, <1>3, MoveStep

\* A step of JudgeHeld keeps the invariant.
LEMMA JudgeHeldStep ==
    ASSUME BufferInv, NEW p \in Pushes, JudgeHeld(p)
    PROVE  BufferInv'
<1>0. push[p] \in PushState /\ order \in Seq(Entry) /\ PushInv(p) /\ push \in [Pushes -> PushState]
  BY DEF BufferInv, TypeInv
<1>1. PICK i \in Pending : \E d \in Decisions(order[i].id) :
        /\ Judge(i, d, push[p].now)
        /\ push' = [push EXCEPT ![p].out = @ \cup Kept(i, d)]
  BY DEF JudgeHeld
<1>2. PICK d \in Decisions(order[i].id) :
        /\ Judge(i, d, push[p].now)
        /\ push' = [push EXCEPT ![p].out = @ \cup Kept(i, d)]
  BY <1>1
<1>3. /\ mu = p /\ push[p].pc = "walk"
      /\ UNCHANGED <<clock, mu, flushed, drain, acked, exported, lost>>
  BY DEF JudgeHeld, Holds
<1>4. i \in 1..Len(order) /\ (flushed \/ order[i].id = Unkeyed)
  <2>1. CASE flushed
    BY <1>0, <1>1, <2>1 DEF Pending
  <2>2. CASE ~flushed
    BY <1>1, <2>2, AtFacts DEF Pending
  <2> QED BY <2>1, <2>2
<1>5. SX!ToSet(order[i].spans) \subseteq SX!ToSet(Payload[p])
  <2>1. mu # "flush"
    BY <1>3, TailBufferAssumption DEF TailBufferAssumption
  <2> QED BY <1>3, <1>4, <2>1 DEF BufferInv, HeldInv
<1> DEFINE r == push'[p]
           kept == Kept(i, d)
<1>6. /\ order' \in Seq(Entry) /\ dropped \subseteq dropped'
      /\ Buffered \subseteq Buffered' \cup kept \cup dropped'
      /\ kept \subseteq Spans /\ kept \subseteq SX!ToSet(Payload[p])
      /\ \A k \in 1..Len(order') : \E j \in 1..Len(order) : order'[k] = order[j]
  BY <1>0, <1>2, <1>4, <1>5, JudgeFacts
<1>7. push' = [push EXCEPT ![p] = r]
  BY <1>0, <1>2
<1>8. r = [push[p] EXCEPT !.out = push[p].out \cup kept]
  BY <1>0, <1>2
<1> HIDE DEF kept
<1>9. /\ r \in PushState
      /\ r.pc = "walk" /\ r.out = push[p].out \cup kept /\ r.mine = push[p].mine
      /\ r.i = push[p].i
  <2>1. push[p].out \cup kept \in SUBSET Spans
    BY <1>0, <1>6 DEF PushState
  <2> QED BY <1>0, <1>3, <1>8, <2>1 DEF PushState
<1> HIDE DEF r
<1>10. AckInv' /\ (\A q \in Pushes : q # p => PushInv(q)') /\ Acc \ {} \subseteq Acc'
  <2>1. push[p].pc # "acked" /\ push[p].out \ {} \subseteq r.out \cup exported' \cup lost'
    BY <1>3, <1>9
  <2>2. Buffered \subseteq Buffered' \cup r.out \cup dropped'
    BY <1>6, <1>9
  <2> QED BY <1>3, <1>6, <1>7, <1>9, <2>1, <2>2, PushFrame
<1>11. TypeInv' /\ LockInv'
  <2>1. r.pc \in InWalk
    BY <1>9 DEF InWalk
  <2> QED BY <1>3, <1>6, <1>7, <1>9, <2>1, PushLock
<1>12. PushInv(p)'
  <2>1. push'[p] = r
    BY DEF r
  <2>2. \A j \in 1..Len(Payload[p]) : j < r.i => Payload[p][j] \in Acc'
    <3>1. \A j \in 1..Len(Payload[p]) : j < push[p].i => Payload[p][j] \in Acc
      BY <1>0, <1>3 DEF PushInv, InWalk
    <3> QED BY <1>9, <1>10, <3>1
  <2>3. r.out \ r.mine \subseteq SX!ToSet(Payload[p])
    BY <1>0, <1>6, <1>9 DEF PushInv
  <2> QED BY <1>9, <2>1, <2>2, <2>3 DEF PushInv
<1>13. HeldInv'
  BY <1>3, <1>6, RemoveHeld
<1> QED BY <1>10, <1>11, <1>12, <1>13 DEF BufferInv

\* The record a push ends with.
LEMMA EndedFacts ==
    ASSUME NEW p \in Pushes, push[p] \in PushState, NEW pc \in {"idle", "acked", "gone"}
    PROVE  /\ Ended(p, pc) \in PushState
           /\ Ended(p, pc).pc = pc /\ Ended(p, pc).out = {} /\ Ended(p, pc).mine = {}
           /\ Ended(p, pc).i = 1
BY DEF Ended, PushState

\* A push that walked or sent all of its spans has them accounted for.
LEMMA AllWalked ==
    ASSUME BufferInv, NEW p \in Pushes, push[p].pc \in {"walk", "send"},
           push[p].i > Len(Payload[p])
    PROVE  SX!ToSet(Payload[p]) \subseteq Acc
<1>1. PushInv(p) /\ push[p] \in PushState
  BY DEF BufferInv, TypeInv
<1>2. push[p].i \in Nat
  BY <1>1 DEF PushState
<1>3. \A j \in 1..Len(Payload[p]) : Payload[p][j] \in Acc
  BY <1>1, <1>2, PayloadFacts DEF PushInv, InWalk
<1>4. \A s \in SX!ToSet(Payload[p]) : \E j \in 1..Len(Payload[p]) : s = Payload[p][j]
  BY PayloadFacts
<1> QED BY <1>3, <1>4

\* A step of Unlock keeps the invariant.
LEMMA UnlockStep ==
    ASSUME BufferInv, NEW p \in Pushes, Unlock(p)
    PROVE  BufferInv'
<1>0. push[p] \in PushState /\ order \in Seq(Entry) /\ PushInv(p) /\ push \in [Pushes -> PushState]
  BY DEF BufferInv, TypeInv
<1>1. /\ mu = p /\ push[p].pc = "walk" /\ mu' = "free" /\ push[p].i > Len(Payload[p])
      /\ drain' = drain /\ order' = order /\ clock' = clock /\ flushed' = flushed
      /\ exported' = exported /\ dropped' = dropped /\ lost' = lost /\ Pending = {}
  BY DEF Unlock, Holds, Walked, buffer
<1>2. Buffered' = Buffered
  BY <1>1 DEF Buffered
<1>3. HeldInv'
  <2>1. \A k \in 1..Len(order) : ~flushed /\ order[k].id # Unkeyed
    <3>1. CASE flushed
      BY <1>0, <1>1, <3>1 DEF Pending
    <3>2. CASE ~flushed
      BY <1>1, <3>2 DEF Pending, Has
    <3> QED BY <3>1, <3>2
  <2> QED BY <1>1, <2>1 DEF HeldInv
<1>4. p # "free" /\ push[p].pc # "acked"
  BY <1>1, TailBufferAssumption DEF TailBufferAssumption
<1>5. CASE push[p].out = {}
  <2> DEFINE r == Ended(p, "acked")
  <2>1. push' = [push EXCEPT ![p] = r] /\ acked' = acked \cup SX!ToSet(Payload[p])
    BY <1>5 DEF Unlock
  <2>2. r \in PushState /\ r.pc = "acked" /\ r.out = {} /\ r.mine = {}
    BY <1>0, EndedFacts
  <2> HIDE DEF r
  <2>3. Acc \ {} \subseteq Acc'
    BY <1>1, <1>2, <1>5, <2>1, <2>2, AccFrame
  <2>4. SX!ToSet(Payload[p]) \subseteq Acc'
    BY <1>1, <2>3, AllWalked
  <2>5. AckInv' /\ \A q \in Pushes : q # p => PushInv(q)'
    BY <1>1, <1>2, <1>4, <1>5, <2>1, <2>2, <2>4, PushFrame
  <2>6. TypeInv' /\ LockInv'
    <3>1. r.pc \notin InWalk
      BY <2>2 DEF InWalk
    <3> QED BY <1>0, <1>1, <1>4, <2>1, <2>2, <3>1, PushLock
  <2>7. PushInv(p)'
    <3>1. push'[p] = r
      BY <1>0, <2>1
    <3> QED BY <2>2, <3>1 DEF PushInv, InWalk
  <2> QED BY <1>3, <2>5, <2>6, <2>7 DEF BufferInv
<1>6. CASE push[p].out # {}
  <2> DEFINE r == [push[p] EXCEPT !.pc = "send"]
  <2>1. push' = [push EXCEPT ![p] = r] /\ acked' = acked
    BY <1>6 DEF Unlock
  <2>2. /\ r \in PushState /\ r.pc = "send" /\ r.out = push[p].out /\ r.mine = push[p].mine
        /\ r.i = push[p].i
    BY <1>0 DEF PushState
  <2> HIDE DEF r
  <2>3. AckInv' /\ (\A q \in Pushes : q # p => PushInv(q)') /\ Acc \ {} \subseteq Acc'
    BY <1>1, <1>2, <1>4, <2>1, <2>2, PushFrame
  <2>4. TypeInv' /\ LockInv'
    <3>1. r.pc \notin InWalk
      BY <2>2 DEF InWalk
    <3> QED BY <1>0, <1>1, <1>4, <2>1, <2>2, <3>1, PushLock
  <2>5. PushInv(p)'
    <3>1. push'[p] = r
      BY <1>0, <2>1
    <3>2. \A j \in 1..Len(Payload[p]) : Payload[p][j] \in Acc'
      BY <1>1, <2>3, AllWalked, PayloadFacts
    <3>3. r.out \ r.mine \subseteq SX!ToSet(Payload[p]) /\ r.i > Len(Payload[p])
      BY <1>0, <1>1, <2>2 DEF PushInv
    <3> QED BY <2>2, <3>1, <3>2, <3>3 DEF PushInv, InWalk
  <2> QED BY <1>3, <2>3, <2>4, <2>5 DEF BufferInv
<1> QED BY <1>5, <1>6

\* A step of SendPush keeps the invariant.
LEMMA SendPushStep ==
    ASSUME BufferInv, NEW p \in Pushes, SendPush(p)
    PROVE  BufferInv'
<1>0. push[p] \in PushState /\ order \in Seq(Entry) /\ PushInv(p) /\ push \in [Pushes -> PushState]
  BY DEF BufferInv, TypeInv
<1>1. /\ push[p].pc = "send" /\ drain' = drain /\ order' = order /\ clock' = clock /\ mu' = mu
      /\ flushed' = flushed /\ dropped' = dropped
  BY DEF SendPush, buffer
<1>2. Buffered' = Buffered
  BY <1>1 DEF Buffered
<1>3. HeldInv'
  BY <1>1 DEF BufferInv, HeldInv
<1>4. push[p].pc # "acked" /\ mu # p
  <2>1. push[p].pc \notin InWalk
    BY <1>1 DEF InWalk
  <2> QED BY <1>1, <2>1 DEF BufferInv, LockInv
<1>5. ASSUME NEW pc \in {"idle", "acked", "gone"}, push' = [push EXCEPT ![p] = Ended(p, pc)],
             AckInv' /\ \A q \in Pushes : q # p => PushInv(q)'
      PROVE  BufferInv'
  <2> DEFINE r == Ended(p, pc)
  <2>1. r \in PushState /\ r.pc = pc /\ r.out = {} /\ r.mine = {} /\ r.i = 1
    BY <1>0, EndedFacts
  <2>2. push' = [push EXCEPT ![p] = r]
    BY <1>5
  <2> HIDE DEF r
  <2>3. TypeInv' /\ LockInv'
    <3>1. r.pc \notin InWalk
      BY <2>1 DEF InWalk
    <3> QED BY <1>0, <1>1, <1>4, <2>1, <2>2, <3>1, PushLock
  <2>4. PushInv(p)'
    <3>1. push'[p] = r
      BY <1>0, <2>2
    <3> QED BY <2>1, <3>1 DEF PushInv, InWalk
  <2> QED BY <1>3, <1>5, <2>3, <2>4 DEF BufferInv
<1>6. CASE /\ exported' = exported \cup push[p].out
           /\ acked' = acked \cup SX!ToSet(Payload[p])
           /\ push' = [push EXCEPT ![p] = Ended(p, "acked")]
           /\ UNCHANGED lost
  <2> DEFINE r == Ended(p, "acked")
  <2>1. r \in PushState /\ r.pc = "acked" /\ r.out = {}
    BY <1>0, EndedFacts
  <2>2. push' = [push EXCEPT ![p] = r]
    BY <1>6
  <2> HIDE DEF r
  <2>3. Acc \ {} \subseteq Acc'
    BY <1>1, <1>2, <1>6, <2>1, <2>2, AccFrame
  <2>4. SX!ToSet(Payload[p]) \subseteq Acc'
    <3>1. push[p].i > Len(Payload[p])
      BY <1>0, <1>1 DEF PushInv
    <3> QED BY <1>1, <2>3, <3>1, AllWalked
  <2>5. AckInv' /\ \A q \in Pushes : q # p => PushInv(q)'
    BY <1>1, <1>2, <1>4, <1>6, <2>1, <2>2, <2>4, PushFrame
  <2> QED BY <1>5, <1>6, <2>5
<1>7. CASE /\ Nack(p)
           /\ push' = [push EXCEPT ![p] = Ended(p, IF @.tries < Tries[p] THEN "idle" ELSE "gone")]
           /\ UNCHANGED <<exported, acked>>
  <2> DEFINE pc == IF push[p].tries < Tries[p] THEN "idle" ELSE "gone"
             r == Ended(p, pc)
             gone == push[p].out \ push[p].mine
  <2>1. r \in PushState /\ r.pc = pc /\ r.out = {}
    BY <1>0, EndedFacts
  <2>2. push' = [push EXCEPT ![p] = r] /\ pc \in {"idle", "acked", "gone"}
    BY <1>7
  <2>3. gone \subseteq SX!ToSet(Payload[p]) /\ push[p].out \ gone \subseteq lost' /\ lost \subseteq lost'
    BY <1>0, <1>7 DEF PushInv, Nack
  <2> HIDE DEF r, gone, pc
  <2>4. AckInv' /\ \A q \in Pushes : q # p => PushInv(q)'
    BY <1>1, <1>2, <1>4, <1>7, <2>1, <2>2, <2>3, PushFrame
  <2> QED BY <1>5, <2>2, <2>4 DEF r
<1> QED BY <1>6, <1>7 DEF SendPush

-----------------------------------------------------------------------------
(* The steps of a drain.                                                   *)

\* A drain's step that leaves the buffer and what it carries alone.
LEMMA DrainMoveStep ==
    ASSUME BufferInv, NEW a \in Drains, NEW r \in DrainState,
           drain' = [drain EXCEPT ![a] = r], r.out = drain[a].out,
           UNCHANGED <<clock, order, push, fate>>, flushed' \in BOOLEAN,
           r.pc = "decide" <=> mu' = a, r.pc = "idle" => r.out = {},
           mu' = mu \/ (mu = "free" /\ mu' = a) \/ (mu = a /\ mu' = "free"),
           HeldInv'
    PROVE  BufferInv'
<1>1. order \in Seq(Entry)
  BY DEF BufferInv, TypeInv
<1>2. /\ order' = order /\ push' = push /\ clock' = clock /\ exported' = exported
      /\ dropped' = dropped /\ lost' = lost /\ acked' = acked
  BY DEF fate
<1>3. Buffered' = Buffered
  BY <1>2 DEF Buffered
<1>4. AckInv' /\ \A q \in Pushes : PushInv(q)'
  BY <1>2, <1>3, DrainFrame
<1>5. TypeInv' /\ LockInv'
  BY <1>1, <1>2, DrainLock
<1> QED BY <1>4, <1>5 DEF BufferInv

\* A step of StartDrain keeps the invariant.
LEMMA StartDrainStep ==
    ASSUME BufferInv, NEW a \in Drains, StartDrain(a)
    PROVE  BufferInv'
<1>0. drain[a] \in DrainState /\ drain \in [Drains -> DrainState] /\ clock \in Nat /\ flushed \in BOOLEAN
  BY DEF BufferInv, TypeInv
<1> DEFINE r == [pc |-> "lock", now |-> clock, n |-> 0, out |-> {}]
<1>1. r \in DrainState /\ r.pc = "lock" /\ r.out = {}
  BY <1>0 DEF DrainState
<1>2. /\ drain' = [drain EXCEPT ![a] = r] /\ drain[a].pc = "idle"
      /\ order' = order /\ push' = push /\ clock' = clock /\ exported' = exported
      /\ dropped' = dropped /\ lost' = lost /\ acked' = acked /\ mu' = mu /\ flushed' = flushed
  BY DEF StartDrain, buffer, fate
<1> HIDE DEF r
<1>3. HeldInv'
  BY <1>2 DEF BufferInv, HeldInv
<1>4. mu # a
  BY <1>2 DEF BufferInv, LockInv
<1>5. drain[a].out = {}
  BY <1>2 DEF BufferInv, LockInv
<1> QED BY <1>0, <1>1, <1>2, <1>3, <1>4, <1>5, DrainMoveStep DEF fate

\* A step of LockDrain keeps the invariant.
LEMMA LockDrainStep ==
    ASSUME BufferInv, NEW a \in Drains, LockDrain(a)
    PROVE  BufferInv'
<1>0. drain[a] \in DrainState /\ drain \in [Drains -> DrainState] /\ flushed \in BOOLEAN
  BY DEF BufferInv, TypeInv
<1>1. /\ drain' = [drain EXCEPT ![a].pc = "decide", ![a].n = 0]
      /\ order' = order /\ push' = push /\ clock' = clock /\ exported' = exported
      /\ dropped' = dropped /\ lost' = lost /\ acked' = acked /\ mu = "free" /\ mu' = a
      /\ flushed' = (flushed \/ a = "flush")
  BY DEF LockDrain, buffer, fate
<1> DEFINE r == [drain[a] EXCEPT !.pc = "decide", !.n = 0]
<1>2. r \in DrainState /\ r.pc = "decide" /\ r.out = drain[a].out
  BY <1>0 DEF DrainState
<1>3. drain' = [drain EXCEPT ![a] = r]
  BY <1>0, <1>1
<1> HIDE DEF r
<1>4. HeldInv'
  <2>1. "free" \notin Pushes /\ mu # "flush"
    BY <1>1, TailBufferAssumption DEF TailBufferAssumption
  <2>2. \A k \in 1..Len(order) : order[k].id # Unkeyed /\ ~flushed
    BY <1>1, <2>1 DEF BufferInv, HeldInv
  <2> QED BY <1>1, <2>2 DEF HeldInv
<1>5. flushed' \in BOOLEAN
  BY <1>0, <1>1
<1> QED BY <1>1, <1>2, <1>3, <1>4, <1>5, DrainMoveStep DEF fate

\* A step of DecideDrain keeps the invariant.
LEMMA DecideDrainStep ==
    ASSUME BufferInv, NEW a \in Drains, DecideDrain(a)
    PROVE  BufferInv'
<1>0. /\ drain[a] \in DrainState /\ drain \in [Drains -> DrainState] /\ flushed \in BOOLEAN
      /\ order \in Seq(Entry)
  BY DEF BufferInv, TypeInv
<1>1. /\ mu = a /\ drain[a].pc = "decide" /\ order # <<>>
      /\ UNCHANGED <<clock, mu, flushed, push, acked, exported, lost>>
  BY DEF DecideDrain, Deciding
<1>2. PICK d \in Decisions(order[1].id) :
        /\ Judge(1, d, drain[a].now)
        /\ drain' = [drain EXCEPT ![a].n = IF a = "flush" THEN @ ELSE @ + 1,
                                  ![a].out = @ \cup Kept(1, d)]
  BY DEF DecideDrain
<1>3. 1 \in 1..Len(order)
  BY <1>0, <1>1
<1> DEFINE r == drain'[a]
           kept == Kept(1, d)
           n == IF a = "flush" THEN drain[a].n ELSE drain[a].n + 1
<1>4. /\ order' \in Seq(Entry) /\ dropped \subseteq dropped'
      /\ Buffered \subseteq Buffered' \cup kept \cup dropped'
      /\ kept \subseteq Spans
      /\ \A k \in 1..Len(order') : \E j \in 1..Len(order) : order'[k] = order[j]
  BY <1>0, <1>2, <1>3, JudgeFacts
<1>5. drain' = [drain EXCEPT ![a] = r]
  BY <1>0, <1>2
<1>6. r = [drain[a] EXCEPT !.n = n, !.out = drain[a].out \cup kept]
  BY <1>0, <1>2
<1>7. n \in Nat
  <2>1. drain[a].n \in Nat
    BY <1>0 DEF DrainState
  <2> QED BY <2>1
<1> HIDE DEF kept, n
<1>8. r \in DrainState /\ r.pc = "decide" /\ r.out = drain[a].out \cup kept
  <2>1. drain[a].out \cup kept \in SUBSET Spans
    BY <1>0, <1>4 DEF DrainState
  <2> QED BY <1>0, <1>1, <1>6, <1>7, <2>1 DEF DrainState
<1> HIDE DEF r
<1>9. AckInv' /\ \A q \in Pushes : PushInv(q)'
  <2>1. drain[a].out \subseteq r.out \cup exported' \cup lost'
    BY <1>8
  <2>2. Buffered \subseteq Buffered' \cup r.out \cup dropped'
    BY <1>4, <1>8
  <2> QED BY <1>1, <1>4, <1>5, <1>8, <2>1, <2>2, DrainFrame
<1>10. TypeInv' /\ LockInv'
  BY <1>0, <1>1, <1>4, <1>5, <1>8, DrainLock
<1>11. HeldInv'
  BY <1>1, <1>4, RemoveHeld
<1> QED BY <1>9, <1>10, <1>11 DEF BufferInv

\* A step of Yield keeps the invariant.
LEMMA YieldStep ==
    ASSUME BufferInv, NEW a \in Drains, Yield(a)
    PROVE  BufferInv'
<1>0. drain[a] \in DrainState /\ drain \in [Drains -> DrainState] /\ flushed \in BOOLEAN
  BY DEF BufferInv, TypeInv
<1>1. /\ drain' = [drain EXCEPT ![a].pc = "lock"]
      /\ order' = order /\ push' = push /\ clock' = clock /\ exported' = exported
      /\ dropped' = dropped /\ lost' = lost /\ acked' = acked /\ mu = a /\ mu' = "free"
      /\ flushed' = flushed /\ a = "sweep"
  BY DEF Yield, buffer, fate
<1> DEFINE r == [drain[a] EXCEPT !.pc = "lock"]
<1>2. r \in DrainState /\ r.pc = "lock" /\ r.out = drain[a].out
  BY <1>0 DEF DrainState
<1>3. drain' = [drain EXCEPT ![a] = r]
  BY <1>0, <1>1
<1> HIDE DEF r
<1>4. HeldInv'
  <2>1. "sweep" \notin Pushes
    BY TailBufferAssumption DEF TailBufferAssumption
  <2>2. \A k \in 1..Len(order) : order[k].id # Unkeyed /\ ~flushed
    BY <1>1, <2>1 DEF BufferInv, HeldInv
  <2> QED BY <1>1, <2>2 DEF HeldInv
<1> QED BY <1>0, <1>1, <1>2, <1>3, <1>4, DrainMoveStep DEF fate

\* A step of EndDrain keeps the invariant.
LEMMA EndDrainStep ==
    ASSUME BufferInv, NEW a \in Drains, EndDrain(a)
    PROVE  BufferInv'
<1>0. /\ drain[a] \in DrainState /\ drain \in [Drains -> DrainState] /\ flushed \in BOOLEAN
      /\ order \in Seq(Entry)
  BY DEF BufferInv, TypeInv
<1>1. /\ order' = order /\ push' = push /\ clock' = clock /\ exported' = exported
      /\ dropped' = dropped /\ lost' = lost /\ acked' = acked /\ mu = a /\ mu' = "free"
      /\ flushed' = flushed /\ (a = "flush" => order = <<>>)
  BY DEF EndDrain, Deciding, buffer, fate
<1>2. HeldInv'
  <2>1. a \notin Pushes /\ (a # "flush" => a = "sweep")
    BY TailBufferAssumption DEF TailBufferAssumption, Drains
  <2>2. \A k \in 1..Len(order) : order[k].id # Unkeyed /\ ~flushed
    <3>1. CASE a = "flush"
      BY <1>1, <3>1
    <3>2. CASE a # "flush"
      BY <1>1, <2>1, <3>2 DEF BufferInv, HeldInv
    <3> QED BY <3>1, <3>2
  <2> QED BY <1>1, <2>2 DEF HeldInv
<1>3. CASE drain[a].out = {}
  <2> DEFINE r == [drain[a] EXCEPT !.pc = Over(a), !.now = 0, !.n = 0]
  <2>1. drain' = [drain EXCEPT ![a] = r]
    BY <1>3 DEF EndDrain
  <2>2. r \in DrainState /\ r.pc # "decide" /\ r.out = {}
    BY <1>0, <1>3 DEF DrainState, Over
  <2> HIDE DEF r
  <2> QED BY <1>0, <1>1, <1>2, <1>3, <2>1, <2>2, DrainMoveStep DEF fate, Drains
<1>4. CASE drain[a].out # {}
  <2> DEFINE r == [drain[a] EXCEPT !.pc = "send", !.n = 0]
  <2>1. drain' = [drain EXCEPT ![a] = r]
    BY <1>4 DEF EndDrain
  <2>2. r \in DrainState /\ r.pc = "send" /\ r.out = drain[a].out
    BY <1>0 DEF DrainState
  <2> HIDE DEF r
  <2> QED BY <1>0, <1>1, <1>2, <2>1, <2>2, DrainMoveStep DEF fate, Drains
<1> QED BY <1>3, <1>4

\* A step of SendDrain keeps the invariant.
LEMMA SendDrainStep ==
    ASSUME BufferInv, NEW a \in Drains, SendDrain(a)
    PROVE  BufferInv'
<1>0. /\ drain[a] \in DrainState /\ drain \in [Drains -> DrainState] /\ flushed \in BOOLEAN
      /\ order \in Seq(Entry)
  BY DEF BufferInv, TypeInv
<1>1. /\ order' = order /\ push' = push /\ clock' = clock /\ mu' = mu /\ flushed' = flushed
      /\ dropped' = dropped /\ acked' = acked /\ drain[a].pc = "send"
      /\ drain[a].out \subseteq exported' \cup lost' /\ exported \subseteq exported'
      /\ lost \subseteq lost'
  BY DEF SendDrain, buffer
<1> DEFINE r == [pc |-> Over(a), now |-> 0, n |-> 0, out |-> {}]
<1>2. drain' = [drain EXCEPT ![a] = r]
  BY DEF SendDrain
<1>3. r \in DrainState /\ r.pc # "decide" /\ r.out = {}
  BY DEF DrainState, Over
<1> HIDE DEF r
<1>4. Buffered' = Buffered
  BY <1>1 DEF Buffered
<1>5. HeldInv'
  BY <1>1 DEF BufferInv, HeldInv
<1>6. mu # a
  BY <1>1 DEF BufferInv, LockInv
<1>7. AckInv' /\ \A q \in Pushes : PushInv(q)'
  BY <1>1, <1>2, <1>3, <1>4, DrainFrame
<1>8. TypeInv' /\ LockInv'
  BY <1>0, <1>1, <1>2, <1>3, <1>6, DrainLock
<1> QED BY <1>5, <1>7, <1>8 DEF BufferInv
-----------------------------------------------------------------------------
\* The initial states satisfy the invariant.
LEMMA InitInv == Init => BufferInv
<1> SUFFICES ASSUME Init PROVE BufferInv
  OBVIOUS
<1>1. TypeInv
  <2>1. order \in Seq(Entry)
    BY DEF Init
  <2>2. push \in [Pushes -> PushState]
    BY DEF Init, PushState
  <2>3. drain \in [Drains -> DrainState]
    BY DEF Init, DrainState
  <2> QED BY <2>1, <2>2, <2>3 DEF Init, TypeInv
<1>2. LockInv
  <2>1. "free" \notin Pushes /\ "free" \notin Drains
    BY TailBufferAssumption DEF TailBufferAssumption, Drains
  <2> QED BY <2>1 DEF Init, LockInv, InWalk
<1>3. HeldInv
  BY DEF Init, HeldInv
<1>4. AckInv
  BY DEF Init, AckInv
<1>5. \A p \in Pushes : PushInv(p)
  BY DEF Init, PushInv, InWalk
<1> QED BY <1>1, <1>2, <1>3, <1>4, <1>5 DEF BufferInv

\* Time passing, and a stuttering step, change nothing the invariant reads.
LEMMA IdleStep ==
    ASSUME BufferInv, clock' \in Nat,
           UNCHANGED <<mu, flushed, buffer, cache, push, drain, fate>>
    PROVE  BufferInv'
<1>1. /\ order' = order /\ push' = push /\ drain' = drain /\ mu' = mu /\ flushed' = flushed
      /\ exported' = exported /\ dropped' = dropped /\ lost' = lost /\ acked' = acked
  BY DEF buffer, fate
<1>2. Acc' = Acc
  BY <1>1 DEF Acc, Buffered, Flying
<1>3. TypeInv' /\ LockInv' /\ HeldInv'
  BY <1>1 DEF BufferInv, TypeInv, LockInv, HeldInv
<1>4. AckInv'
  BY <1>1, <1>2 DEF BufferInv, AckInv
<1>5. \A p \in Pushes : PushInv(p)'
  BY <1>1, <1>2 DEF BufferInv, PushInv, Has
<1> QED BY <1>3, <1>4, <1>5 DEF BufferInv

\* Every step preserves the invariant.
LEMMA NextInv == BufferInv /\ [Next]_vars => BufferInv'
<1> SUFFICES ASSUME BufferInv, [Next]_vars PROVE BufferInv'
  OBVIOUS
<1>1. clock \in Nat
  BY DEF BufferInv, TypeInv
<1>2. CASE \E p \in Pushes : Sample(p) \/ Serve(p)
  <2> PICK p \in Pushes : Sample(p) \/ Serve(p)
    BY <1>2
  <2> QED BY SampleStep, LockStep, ParkSpanStep, LateSpanStep, BufferSpanStep, EnforceTraceStep,
             DecideOldestStep, NextSpanStep, JudgeHeldStep, UnlockStep, SendPushStep DEF Serve
<1>3. CASE \E a \in Drains : StartDrain(a) \/ DrainStep(a)
  <2> PICK a \in Drains : StartDrain(a) \/ DrainStep(a)
    BY <1>3
  <2> QED BY StartDrainStep, LockDrainStep, DecideDrainStep, YieldStep, EndDrainStep,
             SendDrainStep DEF DrainStep
<1>4. CASE Tick
  <2>1. clock' \in Nat
    BY <1>1, <1>4 DEF Tick
  <2> QED BY <1>4, <2>1, IdleStep DEF Tick
<1>5. CASE UNCHANGED vars
  BY <1>1, <1>5, IdleStep DEF vars
<1> QED BY <1>2, <1>3, <1>4, <1>5 DEF Next

\* The invariant holds in every reachable state.
LEMMA InvHolds == Spec => []BufferInv
<1>1. Init => BufferInv
  BY InitInv
<1>2. BufferInv /\ [Next]_vars => BufferInv'
  BY NextInv
<1> QED BY <1>1, <1>2, PTL DEF Spec

\* However pushes, sweeps and the flush interleave, a span whose sender was
\* acked is buffered, on its way out, exported, dropped by a verdict or
\* counted lost (take, drain, sendOwned).
LEMMA AccountedAlways == Spec => []AckedIsAccounted
<1>1. BufferInv => AckedIsAccounted
  BY DEF BufferInv, AckInv, Acc, AckedIsAccounted
<1> QED BY <1>1, InvHolds, PTL

\* A latched buffer is empty whenever the mutex is free: no straggling push
\* leaves a span that nothing would take out (the latch of drain and take).
LEMMA LatchedStaysEmpty == Spec => []LatchedEmpty
<1>1. BufferInv => LatchedEmpty
  <2> SUFFICES ASSUME BufferInv, flushed, mu = "free" PROVE order = <<>>
    BY DEF LatchedEmpty
  <2>1. order \in Seq(Entry)
    BY DEF BufferInv, TypeInv
  <2>2. "free" \notin Pushes
    BY TailBufferAssumption DEF TailBufferAssumption
  <2>3. \A k \in 1..Len(order) : FALSE
    BY <2>2 DEF BufferInv, HeldInv
  <2>4. Len(order) = 0
    BY <2>1, <2>3
  <2> QED BY <2>1, <2>4
<1> QED BY <1>1, InvHolds, PTL

\* However pushes, sweeps and the flush interleave and whichever sends fail, an
\* acked span is accounted for and none is stranded in the latched buffer.
THEOREM AckedNeverVanishes == Spec => []AckedKept
<1>1. AckedIsAccounted /\ LatchedEmpty => AckedKept
  BY DEF AckedKept
<1> QED BY <1>1, AccountedAlways, LatchedStaysEmpty, PTL

-----------------------------------------------------------------------------
(* One verdict for a trace, within the bounds.                             *)

Verdict == [keep : BOOLEAN, charged : BOOLEAN, at : Nat, seq : Nat]
Slot == [id : Ids, seq : Nat]

\* The buffer: one entry for a trace, of its own spans, as many as the counter says.
OrderInv ==
    /\ IsFiniteSet(Filled) /\ spans = Cardinality(Filled)
    /\ \A i, j \in 1..Len(order) : order[i].id = order[j].id => i = j
    /\ \A k \in 1..Len(order) : \A n \in 1..Len(order[k].spans) : TraceOf[order[k].spans[n]] = order[k].id

\* Nobody's clock reading is ahead of the clock.
NowInv ==
    /\ clock <= MaxTime
    /\ \A p \in Pushes : push[p].now <= clock
    /\ \A a \in Drains : drain[a].now <= clock

\* The cache: every entry has its slot, and a charge is remembered with it.
CacheInv ==
    /\ DOMAIN verdicts \subseteq Ids /\ verdicts \in [DOMAIN verdicts -> Verdict]
    /\ IsFiniteSet(DOMAIN verdicts) /\ Cardinality(DOMAIN verdicts) <= CacheSize
    /\ seq \in Nat /\ fifo \subseteq Slot
    /\ \A x \in DOMAIN verdicts : [id |-> x, seq |-> verdicts[x].seq] \in fifo
    /\ bills \in [Ids -> Nat]
    /\ \A x \in Ids : bills[x] <= 1 /\ (bills[x] = 1 => Charged(x))

\* A trace that is buffered again outlived its verdict.
StaleInv ==
    \A k \in 1..Len(order) :
       order[k].id \in DOMAIN verdicts => clock - verdicts[order[k].id].at >= TTL

Sent == exported \cup lost \cup Flying
Remembered(s, keep) ==
    TraceOf[s] # Unkeyed /\ TraceOf[s] \notin forgotten
       => TraceOf[s] \in DOMAIN verdicts /\ verdicts[TraceOf[s]].keep = keep

\* What left the buffer followed the verdict that is remembered.
FateInv ==
    /\ \A s \in Sent : Remembered(s, TRUE)
    /\ \A s \in dropped : Remembered(s, FALSE)

MineInv == \A p \in Pushes : push[p].mine \subseteq push[p].out

Within == Len(order) <= MaxTraces /\ spans <= MaxSpans
Short(S) == \A k \in 1..Len(order) : order[k].id \notin S => Len(order[k].spans) < MaxSpansPerTrace

\* The bounds hold but for the spans without a trace id a walk has parked, and for
\* what it is about to enforce.
BoundInv ==
    /\ mu \in Drains \cup {"free"} => Within /\ Short({})
    /\ \A p \in Pushes : mu = p /\ ~flushed =>
         /\ push[p].pc = "walk" =>
              /\ Short({Unkeyed})
              /\ ~Has(Unkeyed) => Within
              /\ \A k \in 1..Len(order) : order[k].id = Unkeyed =>
                   Len(order) <= MaxTraces + 1 /\ spans <= MaxSpans + Len(order[k].spans)
         /\ push[p].pc = "enforce" => Short({Unkeyed, TraceOf[Current(p)]})
         /\ push[p].pc = "bounds" => Short({Unkeyed})
DecInv == OrderInv /\ NowInv /\ CacheInv /\ StaleInv /\ FateInv /\ MineInv /\ BoundInv

\* The list after one entry left it.
LEMMA RemoveShape ==
    ASSUME order \in Seq(Entry), NEW i \in 1..Len(order), order' = SX!RemoveAt(order, i)
    PROVE  /\ order' \in Seq(Entry) /\ Len(order') = Len(order) - 1
           /\ \A j \in 1..i - 1 : order'[j] = order[j]
           /\ \A j \in i..Len(order) - 1 : order'[j] = order[j + 1]
<1>1. order' = SubSeq(order, 1, i - 1) \o SubSeq(order, i + 1, Len(order))
  BY DEF SX!RemoveAt
<1> DEFINE a == SubSeq(order, 1, i - 1)
           b == SubSeq(order, i + 1, Len(order))
<1>2. /\ a \in Seq(Entry) /\ Len(a) = i - 1
      /\ \A j \in 1..i - 1 : a[j] = order[j]
  OBVIOUS
<1>3. /\ b \in Seq(Entry) /\ Len(b) = Len(order) - i
      /\ \A j \in 1..Len(order) - i : b[j] = order[i + j]
  OBVIOUS
<1>4. order' = a \o b
  BY <1>1
<1> HIDE DEF a, b
<1>5. order' \in Seq(Entry) /\ Len(order') = Len(a) + Len(b)
  <2>1. a \in Seq(Entry) /\ b \in Seq(Entry)
    BY <1>2, <1>3
  <2>2. Len(a \o b) = Len(a) + Len(b)
    BY ONLY <2>1
  <2>3. a \o b \in Seq(Entry)
    BY ONLY <2>1
  <2> QED BY <1>4, <2>2, <2>3
<1>6. \A j \in 1..i - 1 : order'[j] = order[j]
  BY <1>2, <1>3, <1>4
<1>7. ASSUME NEW j \in i..Len(order) - 1 PROVE order'[j] = order[j + 1]
  <2>1. j > Len(a) /\ j - Len(a) \in 1..Len(b)
    BY <1>2, <1>3
  <2>2. order'[j] = b[j - Len(a)]
    BY <1>2, <1>3, <1>4, <2>1
  <2> QED BY <1>2, <1>3, <2>1, <2>2
<1> QED BY <1>2, <1>3, <1>5, <1>6, <1>7

\* What was the k-th entry, and which one the j-th became.
LEMMA RemoveIndex ==
    ASSUME order \in Seq(Entry), NEW i \in 1..Len(order), order' = SX!RemoveAt(order, i)
    PROVE  /\ order' \in Seq(Entry) /\ Len(order) \in Nat /\ Len(order') = Len(order) - 1
           /\ \A k \in 1..Len(order') :
                LET j == IF k < i THEN k ELSE k + 1
                IN  j \in 1..Len(order) /\ j # i /\ order'[k] = order[j] /\ (IF j < i THEN j ELSE j - 1) = k
           /\ \A j \in 1..Len(order) : j # i =>
                LET k == IF j < i THEN j ELSE j - 1
                IN  k \in 1..Len(order') /\ order'[k] = order[j]
<1> PICK n \in Nat : n = Len(order)
  OBVIOUS
<1>1. /\ order' \in Seq(Entry) /\ Len(order') = n - 1 /\ i \in 1..n
      /\ \A j \in 1..i - 1 : order'[j] = order[j]
      /\ \A j \in i..n - 1 : order'[j] = order[j + 1]
  BY RemoveShape
<1>2. ASSUME NEW k \in 1..n - 1
      PROVE  LET j == IF k < i THEN k ELSE k + 1
             IN  j \in 1..n /\ j # i /\ order'[k] = order[j] /\ (IF j < i THEN j ELSE j - 1) = k
  <2>1. CASE k < i
    <3>1. k \in 1..i - 1 /\ k \in 1..n /\ k # i
      BY ONLY <2>1, <1>1, n \in Nat, k \in 1..n - 1
    <3> QED BY <3>1, <2>1, <1>1
  <2>2. CASE ~(k < i)
    <3>1. k \in i..n - 1 /\ k + 1 \in 1..n /\ k + 1 # i /\ ~(k + 1 < i) /\ k + 1 - 1 = k
      BY ONLY <2>2, <1>1, n \in Nat, k \in 1..n - 1
    <3> QED BY <3>1, <2>2, <1>1
  <2> QED BY <2>1, <2>2
<1>3. ASSUME NEW j \in 1..n, j # i
      PROVE  LET k == IF j < i THEN j ELSE j - 1
             IN  k \in 1..n - 1 /\ order'[k] = order[j]
  <2>1. CASE j < i
    <3>1. j \in 1..i - 1 /\ j \in 1..n - 1
      BY ONLY <2>1, <1>1, n \in Nat, j \in 1..n
    <3> QED BY <3>1, <2>1, <1>1
  <2>2. CASE ~(j < i)
    <3>1. j - 1 \in i..n - 1 /\ j - 1 \in 1..n - 1 /\ (j - 1) + 1 = j
      BY ONLY <2>2, <1>3, <1>1, n \in Nat, j \in 1..n
    <3> QED BY <3>1, <2>2, <1>1
  <2> QED BY <2>1, <2>2
<1> QED BY <1>1, <1>2, <1>3

\* The list after a span joined it.
LEMMA AddShape ==
    ASSUME order \in Seq(Entry), NEW id \in Ids \cup {Unkeyed}, NEW s \in Spans, NEW now \in Nat,
           Add(id, s, now)
    PROVE  /\ order' \in Seq(Entry) /\ Len(order) \in Nat
           /\ \/ /\ Has(id) /\ Len(order') = Len(order)
                 /\ At(id) \in 1..Len(order) /\ order[At(id)].id = id
                 /\ \A k \in 1..Len(order) : k # At(id) => order'[k] = order[k]
                 /\ order'[At(id)].id = id /\ order'[At(id)].spans = Append(order[At(id)].spans, s)
              \/ /\ ~Has(id) /\ Len(order') = Len(order) + 1
                 /\ \A k \in 1..Len(order) : order'[k] = order[k]
                 /\ order'[Len(order) + 1].id = id /\ order'[Len(order) + 1].spans = <<s>>
<1>1. Len(order) \in Nat
  OBVIOUS
<1>2. CASE Has(id)
  <2>1. PICK n \in 1..Len(order) : order[n].id = id /\ n = At(id)
    BY <1>2, AtFacts
  <2>2. PICK e \in Entry : e = order[n]
    BY ElementOfSeq
  <2>3. e.spans \in Seq(Spans) /\ Append(e.spans, s) \in Seq(Spans)
    BY <2>2 DEF Entry
  <2> PICK t \in Seq(Spans) : t = Append(e.spans, s)
    BY <2>3
  <2>4. order' = [order EXCEPT ![n].spans = Append(@, s)]
    BY <1>2, <2>1 DEF Add
  <2>5. order' = [order EXCEPT ![n] = [e EXCEPT !.spans = t]]
    BY <2>2, <2>4 DEF Entry
  <2>6. [e EXCEPT !.spans = t] \in Entry /\ [e EXCEPT !.spans = t].id = e.id /\ [e EXCEPT !.spans = t].spans = t
    BY ONLY e \in Entry, t \in Seq(Spans) DEF Entry
  <2> PICK g \in Entry : g = [e EXCEPT !.spans = t]
    BY <2>6
  <2>7. /\ order' \in Seq(Entry) /\ Len(order') = Len(order)
        /\ \A j \in 1..Len(order) : order'[j] = IF j = n THEN g ELSE order[j]
    BY <2>5, ExceptSeq
  <2> QED BY <1>1, <1>2, <2>1, <2>2, <2>6, <2>7
<1>3. CASE ~Has(id)
  <2> DEFINE g == [id |-> id, spans |-> <<s>>, first |-> now]
  <2>1. g \in Entry /\ g.id = id /\ g.spans = <<s>>
    BY DEF Entry
  <2>2. order' = Append(order, g)
    BY <1>3 DEF Add
  <2> HIDE DEF g
  <2>3. /\ order' \in Seq(Entry) /\ Len(order') = Len(order) + 1
        /\ \A j \in 1..Len(order) : order'[j] = order[j]
        /\ order'[Len(order) + 1] = g
    BY <2>1, <2>2, AppendProperties
  <2> QED BY <1>1, <1>3, <2>1, <2>3
<1> QED BY <1>2, <1>3

\* The places before and after, one by one.
LEMMA FilledFacts ==
    /\ \A x : x \in Filled <=> \E i \in 1..Len(order) : \E j \in 1..Len(order[i].spans) : x = <<i, j>>
    /\ \A x : x \in Filled' <=> \E i \in 1..Len(order') : \E j \in 1..Len(order'[i].spans) : x = <<i, j>>
BY DEF Filled

\* A span that joined the buffer takes one place more.
LEMMA AddCount ==
    ASSUME order \in Seq(Entry), NEW id \in Ids \cup {Unkeyed}, NEW s \in Spans, NEW now \in Nat,
           Add(id, s, now), IsFiniteSet(Filled), spans = Cardinality(Filled)
    PROVE  IsFiniteSet(Filled') /\ spans' = Cardinality(Filled') /\ spans' = spans + 1
<1>1. spans' = spans + 1
  BY DEF Add
<1> SUFFICES ASSUME TRUE PROVE \E x : x \notin Filled /\ Filled' = Filled \cup {x}
  BY <1>1, FS_AddElement
<1>2. CASE Has(id)
  <2> PICK n \in 1..Len(order) : n = At(id)
    BY <1>2, AtFacts
  <2>1. /\ Len(order') = Len(order) /\ \A k \in 1..Len(order) : k # n => order'[k] = order[k]
        /\ order'[n].spans = Append(order[n].spans, s)
    BY <1>2, AddShape
  <2>2. order[n].spans \in Seq(Spans)
    <3>1. order[n] \in Entry
      BY ElementOfSeq
    <3> QED BY <3>1 DEF Entry
  <2> PICK L \in Nat : L = Len(order[n].spans)
    BY <2>2
  <2>3. Len(order'[n].spans) = L + 1
    BY <2>1, <2>2
  <2> DEFINE x == <<n, L + 1>>
  <2>4. x \notin Filled
    BY FilledFacts
  <2>5. \A y : y \in Filled' <=> y \in Filled \/ y = x
    <3>1. ASSUME NEW y \in Filled' PROVE y \in Filled \/ y = x
      <4> PICK i \in 1..Len(order') : \E j \in 1..Len(order'[i].spans) : y = <<i, j>>
        BY <3>1, FilledFacts
      <4>1. PICK j \in 1..Len(order'[i].spans) : y = <<i, j>>
        OBVIOUS
      <4>2. i \in 1..Len(order)
        BY <2>1
      <4>3. CASE i # n
        BY <4>1, <4>2, <4>3, <2>1, FilledFacts
      <4>4. CASE i = n
        <5>1. j \in 1..L + 1
          BY <4>4, <2>3
        <5>2. j \in 1..L \/ j = L + 1
          BY <5>1
        <5> QED BY <5>2, <4>1, <4>4, FilledFacts
      <4> QED BY <4>3, <4>4
    <3>2. ASSUME NEW y \in Filled PROVE y \in Filled'
      <4> PICK i \in 1..Len(order) : \E j \in 1..Len(order[i].spans) : y = <<i, j>>
        BY <3>2, FilledFacts
      <4>1. PICK j \in 1..Len(order[i].spans) : y = <<i, j>>
        OBVIOUS
      <4>2. j \in 1..Len(order'[i].spans)
        <5>1. CASE i # n
          BY <5>1, <2>1
        <5>2. CASE i = n
          BY <5>2, <2>3
        <5> QED BY <5>1, <5>2
      <4> QED BY <4>1, <4>2, <2>1, FilledFacts
    <3>3. x \in Filled'
      <4>1. L + 1 \in 1..Len(order'[n].spans) /\ n \in 1..Len(order')
        BY <2>1, <2>3
      <4> QED BY <4>1, FilledFacts
    <3> QED BY <3>1, <3>2, <3>3
  <2> HIDE DEF x
  <2>6. Filled' = Filled \cup {x}
    BY <2>5
  <2> QED BY <2>4, <2>6
<1>3. CASE ~Has(id)
  <2>1. /\ Len(order') = Len(order) + 1 /\ Len(order) \in Nat
        /\ \A k \in 1..Len(order) : order'[k] = order[k]
        /\ order'[Len(order) + 1].spans = <<s>>
    BY <1>3, AddShape
  <2> PICK n \in Nat : n = Len(order)
    BY <2>1
  <2> DEFINE x == <<n + 1, 1>>
  <2>2. x \notin Filled
    BY FilledFacts
  <2>3. Len(order'[n + 1].spans) = 1
    BY <2>1
  <2>4. \A y : y \in Filled' <=> y \in Filled \/ y = x
    <3>1. ASSUME NEW y \in Filled' PROVE y \in Filled \/ y = x
      <4> PICK i \in 1..n + 1 : \E j \in 1..Len(order'[i].spans) : y = <<i, j>>
        BY <2>1, <3>1, FilledFacts
      <4>1. PICK j \in 1..Len(order'[i].spans) : y = <<i, j>>
        OBVIOUS
      <4>2. CASE i \in 1..n
        BY <4>1, <4>2, <2>1, FilledFacts
      <4>3. CASE i = n + 1
        <5>1. j = 1
          BY <4>3, <2>3
        <5> QED BY <5>1, <4>1, <4>3
      <4> QED BY <4>2, <4>3
    <3>2. ASSUME NEW y \in Filled PROVE y \in Filled'
      <4> PICK i \in 1..n : \E j \in 1..Len(order[i].spans) : y = <<i, j>>
        BY <3>2, FilledFacts
      <4>1. PICK j \in 1..Len(order[i].spans) : y = <<i, j>>
        OBVIOUS
      <4>2. i \in 1..Len(order') /\ j \in 1..Len(order'[i].spans)
        BY <2>1
      <4> QED BY <4>1, <4>2, FilledFacts
    <3>3. x \in Filled'
      <4>1. 1 \in 1..Len(order'[n + 1].spans) /\ n + 1 \in 1..Len(order')
        BY <2>1, <2>3
      <4> QED BY <4>1, FilledFacts
    <3> QED BY <3>1, <3>2, <3>3
  <2> HIDE DEF x
  <2>5. Filled' = Filled \cup {x}
    BY <2>4
  <2> QED BY <2>2, <2>5
<1> QED BY <1>2, <1>3

\* A trace that left the buffer gives back as many places as it has spans.
LEMMA RemoveCount ==
    ASSUME order \in Seq(Entry), NEW i \in 1..Len(order), order' = SX!RemoveAt(order, i),
           IsFiniteSet(Filled)
    PROVE  /\ IsFiniteSet(Filled') /\ Cardinality(Filled') = Cardinality(Filled) - Len(order[i].spans)
           /\ Cardinality(Filled) \in Nat /\ Len(order[i].spans) \in Nat
<1>1. order[i].spans \in Seq(Spans)
  <2>1. order[i] \in Entry
    BY ElementOfSeq
  <2> QED BY <2>1 DEF Entry
<1> PICK L \in Nat : L = Len(order[i].spans)
  BY <1>1
<1> DEFINE col == {i} \X (1..L)
           R == Filled \ col
           g(x) == <<IF x[1] < i THEN x[1] ELSE x[1] - 1, x[2]>>
           f == [x \in R |-> g(x)]
<1>2. IsFiniteSet(col) /\ Cardinality(col) = L
  <2>1. IsFiniteSet(1..L) /\ Cardinality(1..L) = L
    <3>1. 1 \in Int /\ L \in Int
      OBVIOUS
    <3>2. IsFiniteSet(1..L) /\ Cardinality(1..L) = IF 1 > L THEN 0 ELSE L - 1 + 1
      BY <3>1, FS_Interval
    <3> QED BY <3>2
  <2>2. IsFiniteSet({i}) /\ Cardinality({i}) = 1
    BY FS_Singleton
  <2>3. IsFiniteSet({i} \X (1..L)) /\ Cardinality({i} \X (1..L)) = Cardinality({i}) * Cardinality(1..L)
    BY <2>1, <2>2, FS_Product
  <2> QED BY <2>1, <2>2, <2>3
<1>3. col \subseteq Filled
  BY FilledFacts
<1>4. IsFiniteSet(R) /\ Cardinality(R) = Cardinality(Filled) - L /\ Cardinality(Filled) \in Nat
  <2>1. Filled \cap col = col
    BY <1>3
  <2> HIDE DEF col
  <2>2. IsFiniteSet(Filled \ col) /\ Cardinality(Filled \ col) = Cardinality(Filled) - Cardinality(Filled \cap col)
    BY FS_Difference
  <2>3. Cardinality(Filled) \in Nat
    BY FS_CardinalityType
  <2> QED BY <2>1, <2>2, <2>3, <1>2
<1>5. ASSUME NEW x \in R
      PROVE  \E a \in 1..Len(order) : \E b \in 1..Len(order[a].spans) : a # i /\ x = <<a, b>>
  <2> PICK a \in 1..Len(order) : \E b \in 1..Len(order[a].spans) : x = <<a, b>>
    BY FilledFacts
  <2>1. PICK b \in 1..Len(order[a].spans) : x = <<a, b>>
    OBVIOUS
  <2>2. a # i
    BY <2>1
  <2> QED BY <2>1, <2>2
<1>6. ASSUME NEW x \in R PROVE g(x) \in Filled'
  <2> PICK a \in 1..Len(order) : \E b \in 1..Len(order[a].spans) : a # i /\ x = <<a, b>>
    BY <1>5
  <2>1. PICK b \in 1..Len(order[a].spans) : a # i /\ x = <<a, b>>
    OBVIOUS
  <2> DEFINE k == IF a < i THEN a ELSE a - 1
  <2>2. k \in 1..Len(order') /\ order'[k] = order[a]
    BY <2>1, RemoveIndex
  <2>3. g(x) = <<k, b>>
    BY <2>1
  <2> QED BY <2>2, <2>3, FilledFacts
<1>7. ASSUME NEW y \in Filled' PROVE \E x \in R : g(x) = y
  <2> PICK k \in 1..Len(order') : \E b \in 1..Len(order'[k].spans) : y = <<k, b>>
    BY FilledFacts
  <2>1. PICK b \in 1..Len(order'[k].spans) : y = <<k, b>>
    OBVIOUS
  <2> DEFINE a == IF k < i THEN k ELSE k + 1
  <2>2. a \in 1..Len(order) /\ a # i /\ order'[k] = order[a] /\ (IF a < i THEN a ELSE a - 1) = k
    BY <2>1, RemoveIndex
  <2>3. <<a, b>> \in R
    BY <2>1, <2>2, FilledFacts
  <2>4. g(<<a, b>>) = y
    BY <2>1, <2>2
  <2> QED BY <2>3, <2>4
<1>8. ASSUME NEW x \in R, NEW y \in R, g(x) = g(y) PROVE x = y
  <2> PICK a \in 1..Len(order) : \E b \in 1..Len(order[a].spans) : a # i /\ x = <<a, b>>
    BY <1>5
  <2>1. PICK b \in 1..Len(order[a].spans) : a # i /\ x = <<a, b>>
    OBVIOUS
  <2> PICK c \in 1..Len(order) : \E e \in 1..Len(order[c].spans) : c # i /\ y = <<c, e>>
    BY <1>5
  <2>2. PICK e \in 1..Len(order[c].spans) : c # i /\ y = <<c, e>>
    OBVIOUS
  <2>3. b = e /\ (IF a < i THEN a ELSE a - 1) = (IF c < i THEN c ELSE c - 1)
    BY <1>8, <2>1, <2>2
  <2>4. a \in Int /\ c \in Int /\ i \in Int
    OBVIOUS
  <2>5. a = c
    BY ONLY <2>1, <2>2, <2>3, <2>4
  <2> QED BY <2>1, <2>2, <2>3, <2>5
<1>9. f \in Bijection(R, Filled')
  <2>1. f \in [R -> Filled'] /\ DOMAIN f = R /\ \A x \in R : f[x] = g(x)
    BY <1>6
  <2> HIDE DEF R, g, f
  <2>2. IsInjective(f)
    BY <2>1, <1>8 DEF IsInjective
  <2>3. \A y \in Filled' : \E x \in R : f[x] = y
    BY <2>1, <1>7
  <2> QED BY <2>1, <2>2, <2>3 DEF Bijection, Injection, Surjection
<1> HIDE DEF R, g, f
<1>10. ExistsBijection(R, Filled')
  BY <1>9 DEF ExistsBijection
<1>11. IsFiniteSet(Filled') /\ Cardinality(Filled') = Cardinality(R)
  BY <1>4, <1>10, FS_Bijection
<1> QED BY <1>4, <1>11

\* A span that joins its trace keeps the list in order.
LEMMA AddOrder ==
    ASSUME order \in Seq(Entry), OrderInv, NEW id \in Ids \cup {Unkeyed}, NEW s \in Spans, TraceOf[s] = id,
           NEW now \in Nat, Add(id, s, now)
    PROVE  OrderInv' /\ spans' = spans + 1
<1>1. IsFiniteSet(Filled') /\ spans' = Cardinality(Filled') /\ spans' = spans + 1
  BY AddCount DEF OrderInv
<1>2. CASE Has(id)
  <2> PICK n \in 1..Len(order) : n = At(id)
    BY <1>2, AtFacts
  <2>1. /\ Len(order') = Len(order) /\ \A k \in 1..Len(order) : k # n => order'[k] = order[k]
        /\ order'[n].spans = Append(order[n].spans, s) /\ order'[n].id = id /\ order[n].id = id
    BY <1>2, AddShape
  <2>2. order[n].spans \in Seq(Spans)
    <3>1. order[n] \in Entry
      BY ElementOfSeq
    <3> QED BY <3>1 DEF Entry
  <2>3. \A k \in 1..Len(order) : order'[k].id = order[k].id
    BY <2>1
  <2>4. \A a, b \in 1..Len(order') : order'[a].id = order'[b].id => a = b
    BY <2>1, <2>3 DEF OrderInv
  <2>5. ASSUME NEW k \in 1..Len(order'), NEW j \in 1..Len(order'[k].spans) PROVE TraceOf[order'[k].spans[j]] = order'[k].id
    <3>1. CASE k # n
      BY <3>1, <2>1 DEF OrderInv
    <3>2. CASE k = n
      <4> PICK q \in Seq(Spans) : q = order[n].spans
        BY <2>2
      <4>1. j \in 1..Len(q) + 1 /\ Len(q) \in Nat
        BY <3>2, <2>1
      <4>2. CASE j = Len(q) + 1
        <5>1. Append(q, s)[j] = s
          BY <4>2
        <5> QED BY <5>1, <3>2, <2>1
      <4>3. CASE j \in 1..Len(q)
        <5>1. Append(q, s)[j] = q[j]
          BY <4>3
        <5>2. TraceOf[q[j]] = order[n].id
          BY <4>3 DEF OrderInv
        <5> QED BY <5>1, <5>2, <3>2, <2>1
      <4> QED BY <4>1, <4>2, <4>3
    <3> QED BY <3>1, <3>2
  <2> QED BY <1>1, <2>4, <2>5 DEF OrderInv
<1>3. CASE ~Has(id)
  <2>1. /\ Len(order') = Len(order) + 1 /\ Len(order) \in Nat
        /\ \A k \in 1..Len(order) : order'[k] = order[k]
        /\ order'[Len(order) + 1].id = id /\ order'[Len(order) + 1].spans = <<s>>
    BY <1>3, AddShape
  <2>2. \A k \in 1..Len(order') : k \in 1..Len(order) \/ k = Len(order) + 1
    BY <2>1
  <2>3. \A k \in 1..Len(order) : order[k].id # id
    BY <1>3 DEF Has
  <2>4. \A a, b \in 1..Len(order') : order'[a].id = order'[b].id => a = b
    BY <2>1, <2>2, <2>3 DEF OrderInv
  <2>5. ASSUME NEW k \in 1..Len(order'), NEW j \in 1..Len(order'[k].spans) PROVE TraceOf[order'[k].spans[j]] = order'[k].id
    <3>1. CASE k \in 1..Len(order)
      BY <3>1, <2>1 DEF OrderInv
    <3>2. CASE k = Len(order) + 1
      <4>1. j = 1
        BY <3>2, <2>1
      <4> QED BY <4>1, <3>2, <2>1
    <3> QED BY <2>2, <3>1, <3>2
  <2> QED BY <1>1, <2>4, <2>5 DEF OrderInv
<1> QED BY <1>1, <1>2, <1>3

\* So does a trace that leaves it.
LEMMA RemoveOrder ==
    ASSUME order \in Seq(Entry), OrderInv, NEW i \in 1..Len(order), order' = SX!RemoveAt(order, i),
           spans' = spans - Len(order[i].spans)
    PROVE  OrderInv' /\ \A k \in 1..Len(order') : order'[k].id # order[i].id
<1>1. IsFiniteSet(Filled') /\ spans' = Cardinality(Filled')
  BY RemoveCount DEF OrderInv
<1>2. ASSUME NEW k \in 1..Len(order')
      PROVE  LET j == IF k < i THEN k ELSE k + 1
             IN  j \in 1..Len(order) /\ j # i /\ order'[k] = order[j] /\ (IF j < i THEN j ELSE j - 1) = k
  BY RemoveIndex
<1>3. ASSUME NEW a \in 1..Len(order'), NEW b \in 1..Len(order'), order'[a].id = order'[b].id PROVE a = b
  <2> DEFINE x == IF a < i THEN a ELSE a + 1
             y == IF b < i THEN b ELSE b + 1
  <2>1. x \in 1..Len(order) /\ order'[a] = order[x] /\ (IF x < i THEN x ELSE x - 1) = a
    BY <1>2
  <2>2. y \in 1..Len(order) /\ order'[b] = order[y] /\ (IF y < i THEN y ELSE y - 1) = b
    BY <1>2
  <2> HIDE DEF x, y
  <2>3. x = y
    BY <2>1, <2>2, <1>3 DEF OrderInv
  <2> QED BY <2>1, <2>2, <2>3
<1>4. \A k \in 1..Len(order') : \A n \in 1..Len(order'[k].spans) : TraceOf[order'[k].spans[n]] = order'[k].id
  <2> SUFFICES ASSUME NEW k \in 1..Len(order'), NEW n \in 1..Len(order'[k].spans)
               PROVE  TraceOf[order'[k].spans[n]] = order'[k].id
    OBVIOUS
  <2>1. PICK j \in 1..Len(order) : order'[k] = order[j]
    BY <1>2
  <2> QED BY <2>1 DEF OrderInv
<1>5. \A k \in 1..Len(order') : order'[k].id # order[i].id
  BY <1>2 DEF OrderInv
<1> QED BY <1>1, <1>3, <1>4, <1>5 DEF OrderInv

\* The cache after a verdict was put into it.
LEMMA PutKeeps ==
    ASSUME CacheInv, NEW id \in Ids, NEW d \in Decisions(id), NEW now \in Nat, Put(id, d, now)
    PROVE  /\ CacheInv'
           /\ id \in DOMAIN verdicts' /\ verdicts'[id].keep = d.keep /\ forgotten \subseteq forgotten'
           /\ id \in DOMAIN verdicts /\ clock - verdicts[id].at >= TTL => id \in forgotten'
           /\ \A x \in DOMAIN verdicts' : x # id => x \in DOMAIN verdicts /\ verdicts'[x] = verdicts[x]
           /\ \A x \in DOMAIN verdicts : x # id /\ x \notin forgotten' => x \in DOMAIN verdicts'
<1>0. /\ DOMAIN verdicts \subseteq Ids /\ (\A x \in DOMAIN verdicts : verdicts[x] \in Verdict)
      /\ IsFiniteSet(DOMAIN verdicts) /\ Cardinality(DOMAIN verdicts) <= CacheSize /\ Cardinality(DOMAIN verdicts) \in Nat
      /\ seq \in Nat /\ fifo \subseteq Slot /\ CacheSize \in Nat /\ CacheSize >= 1
      /\ d.keep \in BOOLEAN /\ d.spent \in BOOLEAN /\ (d.spent => ~Charged(id))
  BY TailBufferAssumption, FS_CardinalityType DEF CacheInv, Decisions
<1> DEFINE others  == Without(verdicts, {id})
           full    == Cardinality(DOMAIN others) >= CacheSize
           first   == IF full THEN Eldest(LiveSlots(others, fifo)) ELSE {}
           victim  == {slot.id : slot \in first}
           rest    == IF full THEN {slot \in fifo : \E v \in first : slot.seq > v.seq} ELSE fifo
           kept    == Without(others, victim)
           entry   == [keep |-> d.keep, charged |-> Billed(id, d), at |-> now, seq |-> seq + 1]
           m       == [x \in DOMAIN kept \cup {id} |-> IF x = id THEN entry ELSE kept[x]]
<1>1. /\ verdicts' = m /\ fifo' = Compacted(m, Enqueued(rest, id)) /\ seq' = seq + 1
      /\ forgotten' = forgotten \cup victim \cup (IF id \in DOMAIN verdicts /\ clock - verdicts[id].at >= TTL THEN {id} ELSE {})
      /\ bills' = [x \in Ids |->
                     IF x \in victim THEN 0 ELSE IF x = id /\ d.spent THEN bills[x] + 1 ELSE bills[x]]
  BY DEF Put
<1>2. DOMAIN others = DOMAIN verdicts \ {id} /\ \A x \in DOMAIN others : others[x] = verdicts[x]
  BY DEF Without
<1> HIDE DEF others
<1>3. first \subseteq LiveSlots(others, fifo) /\ first \subseteq fifo
  BY DEF Eldest, LiveSlots
<1>4. victim \subseteq DOMAIN others
  BY <1>3 DEF LiveSlots, LiveIn
<1>5. DOMAIN kept = DOMAIN others \ victim /\ \A x \in DOMAIN kept : kept[x] = verdicts[x]
  BY <1>2 DEF Without
<1>6. full => first # {}
  <2> SUFFICES ASSUME full PROVE first # {}
    OBVIOUS
  <2> DEFINE S == LiveSlots(others, fifo)
             T == {t.seq : t \in S}
  <2>1. DOMAIN others # {}
    BY <1>0, FS_EmptySet
  <2>2. S # {}
    <3>1. PICK x \in DOMAIN others : TRUE
      BY <2>1
    <3>2. [id |-> x, seq |-> verdicts[x].seq] \in fifo
      BY <3>1, <1>2 DEF CacheInv
    <3>3. [id |-> x, seq |-> verdicts[x].seq] \in S
      BY <3>1, <3>2, <1>2 DEF LiveSlots, LiveIn
    <3> QED BY <3>3
  <2>3. T \in SUBSET Nat /\ T # {}
    BY <2>2, <1>0 DEF LiveSlots, Slot
  <2>4. PICK t \in T : \A u \in T : t <= u
    <3> HIDE DEF T
    <3> QED BY <2>3, LeastOf
  <2>5. PICK w \in S : w.seq = t
    BY <2>4
  <2>6. w \in Eldest(S)
    BY <2>4, <2>5 DEF Eldest
  <2> QED BY <2>6
<1> HIDE DEF first
<1>7. IsFiniteSet(DOMAIN kept) /\ Cardinality(DOMAIN kept) \in Nat /\ Cardinality(DOMAIN kept) < CacheSize
  <2>1. IsFiniteSet(DOMAIN others) /\ Cardinality(DOMAIN others) <= CacheSize /\ Cardinality(DOMAIN others) \in Nat
    <3>1. IsFiniteSet(DOMAIN others) /\ Cardinality(DOMAIN others) <= Cardinality(DOMAIN verdicts)
      BY <1>0, <1>2, FS_Subset
    <3>2. Cardinality(DOMAIN others) \in Nat
      BY <3>1, FS_CardinalityType
    <3> QED BY <1>0, <3>1, <3>2
  <2>2. /\ IsFiniteSet(DOMAIN kept) /\ Cardinality(DOMAIN kept) <= Cardinality(DOMAIN others)
        /\ Cardinality(DOMAIN others) = Cardinality(DOMAIN kept) => DOMAIN others = DOMAIN kept
    <3>1. DOMAIN kept \in SUBSET DOMAIN others
      BY <1>5
    <3> HIDE DEF kept
    <3> QED BY <3>1, <2>1, FS_Subset
  <2>3. Cardinality(DOMAIN kept) \in Nat
    BY <2>2, FS_CardinalityType
  <2>4. CASE ~full
    BY <2>1, <2>2, <2>3, <2>4, <1>0
  <2>5. CASE full
    <3>1. victim # {}
      BY <1>6, <2>5
    <3>2. DOMAIN others # DOMAIN kept
      BY <3>1, <1>4, <1>5
    <3> HIDE DEF kept, full
    <3> QED BY <3>2, <2>1, <2>2, <2>3, <1>0
  <2> QED BY <2>2, <2>3, <2>4, <2>5
<1>8. /\ DOMAIN m = DOMAIN kept \cup {id} /\ m[id] = entry /\ id \notin DOMAIN kept
      /\ \A x \in DOMAIN kept : m[x] = verdicts[x] /\ x \in DOMAIN verdicts /\ x # id /\ x \notin victim
  BY <1>2, <1>5
<1>9. entry \in Verdict /\ entry.keep = d.keep /\ entry.charged = Billed(id, d) /\ entry.seq = seq + 1
  <2>1. Billed(id, d) \in BOOLEAN
    <3>1. Charged(id) \in BOOLEAN
      BY <1>0 DEF Charged, Verdict
    <3> QED BY <3>1, <1>0 DEF Billed
  <2>2. seq + 1 \in Nat
    BY <1>0
  <2> QED BY <2>1, <2>2, <1>0 DEF Verdict
<1> HIDE DEF entry, m
<1>10. Cardinality(DOMAIN m) <= CacheSize /\ IsFiniteSet(DOMAIN m)
  <2>1. IsFiniteSet(DOMAIN kept \cup {id}) /\ Cardinality(DOMAIN kept \cup {id}) = Cardinality(DOMAIN kept) + 1
    <3> HIDE DEF kept
    <3> QED BY <1>7, <1>8, FS_AddElement
  <2> HIDE DEF kept
  <2> QED BY <2>1, <1>7, <1>8, <1>0
<1>11. DOMAIN m \subseteq Ids /\ m \in [DOMAIN m -> Verdict]
  <2>1. \A x \in DOMAIN m : x \in Ids /\ m[x] \in Verdict
    BY <1>0, <1>8, <1>9
  <2>2. m = [x \in DOMAIN m |-> m[x]]
    BY <1>8 DEF m
  <2> QED BY <2>1, <2>2
<1>12. rest \subseteq fifo /\ \A x \in DOMAIN kept : [id |-> x, seq |-> verdicts[x].seq] \in rest
  <2>1. rest \subseteq fifo
    OBVIOUS
  <2> SUFFICES ASSUME NEW x \in DOMAIN kept PROVE [id |-> x, seq |-> verdicts[x].seq] \in rest
    BY <2>1
  <2> DEFINE t == [id |-> x, seq |-> verdicts[x].seq]
  <2>2. x \in DOMAIN verdicts /\ x \in DOMAIN others /\ x \notin victim /\ t \in fifo /\ t.id = x /\ t.seq = verdicts[x].seq /\ t.seq \in Nat
    BY <1>0, <1>5, <1>8 DEF CacheInv, Verdict
  <2> HIDE DEF t
  <2>3. t \in LiveSlots(others, fifo)
    BY <2>2, <1>2 DEF LiveSlots, LiveIn
  <2>4. CASE ~full
    BY <2>2, <2>4 DEF t
  <2>5. CASE full
    <3>1. PICK v \in first : TRUE
      BY <1>6, <2>5
    <3>2. v \in LiveSlots(others, fifo) /\ v.seq \in Nat /\ \A u \in LiveSlots(others, fifo) : v.seq <= u.seq /\ u.seq \in Nat
      BY <3>1, <1>3, <1>0, <2>5 DEF first, Eldest, LiveSlots, Slot
    <3>3. t \notin first
      BY <2>2
    <3>4. t.seq # v.seq
      <4> SUFFICES ASSUME t.seq = v.seq PROVE FALSE
        OBVIOUS
      <4>1. t \in Eldest(LiveSlots(others, fifo))
        BY <2>3, <3>2 DEF Eldest
      <4> QED BY <4>1, <3>3, <2>5 DEF first
    <3>5. t.seq > v.seq
      BY <3>2, <3>4, <2>2, <2>3
    <3> QED BY <3>1, <3>5, <2>2, <2>5 DEF t
  <2> QED BY <2>4, <2>5
<1> DEFINE q == Enqueued(rest, id)
<1>14. q \subseteq Slot /\ \A x \in DOMAIN m : [id |-> x, seq |-> m[x].seq] \in q
  <2>1. q = rest \cup {[id |-> id, seq |-> seq + 1]}
    BY DEF Enqueued
  <2>2. [id |-> id, seq |-> seq + 1] \in Slot
    BY <1>0 DEF Slot
  <2> QED BY <2>1, <2>2, <1>0, <1>8, <1>9, <1>12
<1> HIDE DEF q, rest, kept, victim, full
<1>15. Compacted(m, q) \subseteq q /\ \A x \in DOMAIN m : [id |-> x, seq |-> m[x].seq] \in Compacted(m, q)
  <2> DEFINE front == {slot \in q : \E t \in LiveSlots(m, q) : t.seq <= slot.seq}
  <2>1. Compacted(m, q) = IF Cardinality(front) > 2 * Cardinality(DOMAIN m) + CompactFloor
                          THEN LiveSlots(m, front) ELSE front
    BY DEF Compacted
  <2>2. LiveSlots(m, front) \subseteq front /\ front \subseteq q
    BY DEF LiveSlots
  <2>3. ASSUME NEW x \in DOMAIN m PROVE [id |-> x, seq |-> m[x].seq] \in front /\ [id |-> x, seq |-> m[x].seq] \in LiveSlots(m, front)
    <3> DEFINE t == [id |-> x, seq |-> m[x].seq]
    <3>1. t \in q /\ t.id = x /\ t.seq = m[x].seq /\ t.seq \in Nat
      BY <1>11, <1>14 DEF Verdict
    <3> HIDE DEF t
    <3>2. t \in LiveSlots(m, q)
      BY <3>1 DEF LiveSlots, LiveIn
    <3>3. t.seq <= t.seq
      BY <3>1
    <3>4. t \in front
      BY <3>1, <3>2, <3>3
    <3> QED BY <3>1, <3>4 DEF LiveSlots, LiveIn, t
  <2> HIDE DEF front
  <2> QED BY <2>1, <2>2, <2>3
<1>16. bills' \in [Ids -> Nat] /\ \A x \in Ids : bills'[x] <= 1 /\ (bills'[x] = 1 => Charged(x)')
  <2>1. ASSUME NEW x \in Ids PROVE bills'[x] \in Nat /\ bills'[x] <= 1 /\ (bills'[x] = 1 => x \in DOMAIN m /\ m[x].charged)
    <3>0. bills[x] \in Nat /\ bills[x] <= 1 /\ (bills[x] = 1 => Charged(x))
      BY DEF CacheInv
    <3>1. bills'[x] = IF x \in victim THEN 0 ELSE IF x = id /\ d.spent THEN bills[x] + 1 ELSE bills[x]
      BY <1>1
    <3>2. CASE x \in victim
      BY <3>1, <3>2
    <3>3. CASE x \notin victim /\ x = id
      <4>1. m[x].charged = (d.spent \/ Charged(id)) /\ x \in DOMAIN m
        BY <3>3, <1>8, <1>9 DEF Billed
      <4>2. CASE d.spent
        <5>1. bills[x] = 0
          BY <4>2, <3>0, <3>3, <1>0
        <5>2. bills'[x] = 1
          BY <5>1, <4>2, <3>1, <3>3
        <5>3. x \in DOMAIN m /\ m[x].charged
          BY <4>1, <4>2
        <5> QED BY <5>2, <5>3
      <4>3. CASE ~d.spent
        BY <4>1, <4>3, <3>0, <3>1, <3>3
      <4> QED BY <4>2, <4>3
    <3>4. CASE x \notin victim /\ x # id
      <4>1. bills'[x] = bills[x]
        BY <3>1, <3>4
      <4>2. Charged(x) => x \in DOMAIN kept
        BY <3>4, <1>2, <1>5 DEF Charged
      <4> QED BY <4>1, <4>2, <3>0, <1>8 DEF Charged
    <3> QED BY <3>2, <3>3, <3>4
  <2> QED BY <2>1, <1>1 DEF Charged
<1>17. CacheInv'
  <2>1. seq' \in Nat
    BY <1>0, <1>1
  <2>2. fifo' \subseteq Slot /\ \A x \in DOMAIN m : [id |-> x, seq |-> m[x].seq] \in fifo'
    BY <1>1, <1>14, <1>15 DEF q
  <2> QED BY <2>1, <2>2, <1>1, <1>10, <1>11, <1>16 DEF CacheInv
<1>18. \A x \in DOMAIN verdicts : x # id /\ x \notin forgotten' => x \in DOMAIN m
  BY <1>1, <1>2, <1>5, <1>8
<1> QED BY <1>1, <1>8, <1>9, <1>17, <1>18

\* The initial states satisfy the invariant.
LEMMA DecStarts == Init => DecInv
<1> SUFFICES ASSUME Init PROVE DecInv
  OBVIOUS
<1>1. order = <<>> /\ Len(order) = 0 /\ spans = 0 /\ clock = 0 /\ mu = "free"
  BY DEF Init
<1>2. Filled = {}
  BY <1>1, FilledFacts
<1>3. OrderInv
  BY <1>1, <1>2, FS_EmptySet DEF OrderInv
<1>4. NowInv
  BY <1>1, TailBufferAssumption DEF Init, NowInv
<1>5. CacheInv
  <2>1. DOMAIN verdicts = {} /\ seq = 0 /\ fifo = {} /\ bills = [x \in Ids |-> 0] /\ verdicts = [x \in {} |-> 0]
    BY DEF Init
  <2>2. verdicts \in [DOMAIN verdicts -> Verdict]
    BY <2>1
  <2>3. IsFiniteSet(DOMAIN verdicts) /\ Cardinality(DOMAIN verdicts) <= CacheSize
    BY <2>1, FS_EmptySet, TailBufferAssumption
  <2> QED BY <2>1, <2>2, <2>3 DEF CacheInv
<1>6. StaleInv
  BY <1>1 DEF StaleInv
<1>7. FateInv /\ MineInv
  <2>1. \A x : x \notin Flying
    BY FlyingFacts DEF Init
  <2> QED BY <2>1 DEF FateInv, MineInv, Sent, Init
<1>8. BoundInv
  <2>1. "free" \notin Pushes
    BY TailBufferAssumption
  <2>2. MaxTraces \in Nat /\ MaxSpans \in Nat
    BY TailBufferAssumption
  <2> QED BY <1>1, <2>1, <2>2 DEF BoundInv, Within, Short
<1> QED BY <1>3, <1>4, <1>5, <1>6, <1>7, <1>8 DEF DecInv

\* A step that leaves buffer and cache alone.
LEMMA CalmKeeps ==
    ASSUME DecInv, UNCHANGED <<order, spans, verdicts, fifo, seq, forgotten, bills, clock>>,
           \A s \in Sent' : s \in Sent \/ Remembered(s, TRUE),
           \A s \in dropped' : s \in dropped \/ Remembered(s, FALSE)
    PROVE  OrderInv' /\ CacheInv' /\ StaleInv' /\ FateInv'
<1>1. Filled' = Filled
  BY DEF Filled
<1>2. OrderInv'
  BY <1>1 DEF DecInv, OrderInv
<1>3. CacheInv' /\ StaleInv'
  BY DEF DecInv, CacheInv, StaleInv, Charged
<1>4. FateInv'
  BY DEF DecInv, FateInv, Remembered
<1> QED BY <1>2, <1>3, <1>4

\* A step that adds to the buffer and leaves the cache alone.
LEMMA AddKeeps ==
    ASSUME DecInv, order \in Seq(Entry), UNCHANGED <<verdicts, fifo, seq, forgotten, bills, clock>>,
           NEW s \in Spans, NEW now \in Nat, NEW id \in Ids \cup {Unkeyed}, id = TraceOf[s], Add(id, s, now),
           id \in DOMAIN verdicts => clock - verdicts[id].at >= TTL,
           Sent' \subseteq Sent, dropped' = dropped
    PROVE  OrderInv' /\ CacheInv' /\ StaleInv' /\ FateInv' /\ spans' = spans + 1
<1>1. OrderInv' /\ spans' = spans + 1
  BY AddOrder DEF DecInv
<1>2. \A k \in 1..Len(order') : order'[k].id = id \/ \E j \in 1..Len(order) : order'[k].id = order[j].id
  <2>1. CASE Has(id)
    BY <2>1, AddShape
  <2>2. CASE ~Has(id)
    <3>1. /\ Len(order') = Len(order) + 1 /\ Len(order) \in Nat
          /\ \A k \in 1..Len(order) : order'[k] = order[k]
          /\ order'[Len(order) + 1].id = id
      BY <2>2, AddShape
    <3>2. \A k \in 1..Len(order') : k \in 1..Len(order) \/ k = Len(order) + 1
      BY <3>1
    <3> QED BY <3>1, <3>2
  <2> QED BY <2>1, <2>2
<1>3. StaleInv'
  BY <1>2 DEF DecInv, StaleInv
<1>4. CacheInv' /\ FateInv'
  BY DEF DecInv, CacheInv, FateInv, Remembered, Charged
<1> QED BY <1>1, <1>3, <1>4

\* A step that judges a trace and keeps of it what the verdict says.
LEMMA JudgeKeeps ==
    ASSUME DecInv, order \in Seq(Entry), clock' = clock, NEW i \in 1..Len(order),
           NEW d \in Decisions(order[i].id), NEW now \in Nat, Judge(i, d, now),
           Sent' \subseteq Sent \cup Kept(i, d)
    PROVE  /\ OrderInv' /\ CacheInv' /\ StaleInv' /\ FateInv'
           /\ spans' = spans - Len(order[i].spans) /\ \A k \in 1..Len(order') : order'[k].id # order[i].id
<1> PICK e \in Entry : e = order[i]
  BY ElementOfSeq
<1>1. /\ order' = SX!RemoveAt(order, i) /\ spans' = spans - Len(e.spans)
      /\ dropped' = IF d.keep THEN dropped ELSE dropped \cup SX!ToSet(e.spans)
      /\ IF e.id # Unkeyed THEN Put(e.id, d, now) ELSE UNCHANGED cache
  BY DEF Judge
<1>2. OrderInv' /\ \A k \in 1..Len(order') : order'[k].id # e.id
  BY <1>1, RemoveOrder DEF DecInv
<1>3. \A k \in 1..Len(order') : \E j \in 1..Len(order) : order'[k] = order[j]
  BY <1>1, RemoveFacts
<1>4. \A s \in SX!ToSet(e.spans) : TraceOf[s] = e.id
  <2>1. e.spans \in Seq(Spans)
    BY DEF Entry
  <2>2. \A s \in SX!ToSet(e.spans) : \E n \in 1..Len(e.spans) : s = e.spans[n]
    BY <2>1 DEF SX!ToSet
  <2> QED BY <2>2 DEF DecInv, OrderInv
<1>5. d.keep \in BOOLEAN /\ Kept(i, d) = IF d.keep THEN SX!ToSet(e.spans) ELSE {}
  BY DEF Decisions, Kept
<1>6. \A s \in Sent' : s \in Sent \/ (d.keep /\ TraceOf[s] = e.id)
  BY <1>4, <1>5
<1>7. \A s \in dropped' : s \in dropped \/ (~d.keep /\ TraceOf[s] = e.id)
  BY <1>1, <1>4
<1>8. CASE e.id = Unkeyed
  <2>1. UNCHANGED <<verdicts, fifo, seq, forgotten, bills>>
    BY <1>1, <1>8 DEF cache
  <2>2. CacheInv'
    BY <2>1 DEF DecInv, CacheInv, Charged
  <2>3. StaleInv'
    BY <2>1, <1>3 DEF DecInv, StaleInv
  <2>4. FateInv'
    BY <2>1, <1>6, <1>7, <1>8 DEF DecInv, FateInv, Remembered
  <2> QED BY <2>2, <2>3, <2>4, <1>1, <1>2
<1>9. CASE e.id # Unkeyed
  <2>1. e.id \in Ids /\ Put(e.id, d, now)
    BY <1>1, <1>9 DEF Entry
  <2> PICK id \in Ids : id = e.id
    BY <2>1
  <2>2. /\ CacheInv'
        /\ id \in DOMAIN verdicts' /\ verdicts'[id].keep = d.keep /\ forgotten \subseteq forgotten'
        /\ id \in DOMAIN verdicts /\ clock - verdicts[id].at >= TTL => id \in forgotten'
        /\ \A x \in DOMAIN verdicts' : x # id => x \in DOMAIN verdicts /\ verdicts'[x] = verdicts[x]
        /\ \A x \in DOMAIN verdicts : x # id /\ x \notin forgotten' => x \in DOMAIN verdicts'
    BY <2>1, PutKeeps DEF DecInv
  <2>3. id \in DOMAIN verdicts => id \in forgotten'
    BY <2>2 DEF DecInv, StaleInv
  <2>4. StaleInv'
    <3> SUFFICES ASSUME NEW k \in 1..Len(order'), order'[k].id \in DOMAIN verdicts'
                 PROVE  clock - verdicts'[order'[k].id].at >= TTL
      BY DEF StaleInv
    <3>1. PICK j \in 1..Len(order) : order'[k] = order[j]
      BY <1>3
    <3>2. order'[k].id # id
      BY <1>2
    <3>3. order[j].id \in DOMAIN verdicts /\ verdicts'[order[j].id] = verdicts[order[j].id]
      BY <3>1, <3>2, <2>2
    <3> QED BY <3>1, <3>3 DEF DecInv, StaleInv
  <2>5. ASSUME NEW s, NEW keep, Remembered(s, keep), TraceOf[s] # Unkeyed, TraceOf[s] \notin forgotten'
        PROVE  TraceOf[s] \in DOMAIN verdicts' /\ verdicts'[TraceOf[s]].keep = keep
    <3>1. TraceOf[s] \in DOMAIN verdicts /\ verdicts[TraceOf[s]].keep = keep
      BY <2>5, <2>2 DEF Remembered
    <3>2. TraceOf[s] # id
      BY <3>1, <2>3, <2>5
    <3> QED BY <3>1, <3>2, <2>2, <2>5
  <2>6. \A s \in Sent' : Remembered(s, TRUE)'
    <3> SUFFICES ASSUME NEW s \in Sent', TraceOf[s] # Unkeyed, TraceOf[s] \notin forgotten'
                 PROVE  TraceOf[s] \in DOMAIN verdicts' /\ verdicts'[TraceOf[s]].keep = TRUE
      BY DEF Remembered
    <3>1. CASE s \in Sent
      BY <3>1, <2>5 DEF DecInv, FateInv
    <3>2. CASE d.keep /\ TraceOf[s] = e.id
      BY <3>2, <2>2, <1>5
    <3> QED BY <3>1, <3>2, <1>6
  <2>7. \A s \in dropped' : Remembered(s, FALSE)'
    <3> SUFFICES ASSUME NEW s \in dropped', TraceOf[s] # Unkeyed, TraceOf[s] \notin forgotten'
                 PROVE  TraceOf[s] \in DOMAIN verdicts' /\ verdicts'[TraceOf[s]].keep = FALSE
      BY DEF Remembered
    <3>1. CASE s \in dropped
      BY <3>1, <2>5 DEF DecInv, FateInv
    <3>2. CASE ~d.keep /\ TraceOf[s] = e.id
      BY <3>2, <2>2, <1>5
    <3> QED BY <3>1, <3>2, <1>7
  <2> QED BY <2>2, <2>4, <2>6, <2>7, <1>1, <1>2 DEF FateInv
<1> QED BY <1>8, <1>9

\* A step of push p, as the other invariants see it.
LEMMA PushSeen ==
    ASSUME DecInv, NEW p \in Pushes, UNCHANGED <<drain, clock>>, NEW A,
           \A q \in Pushes : q # p => push'[q] = push[q],
           push'[p].now <= clock, push'[p].mine \subseteq push'[p].out,
           push'[p].out \subseteq push[p].out \cup A,
           exported' \cup lost' \subseteq exported \cup lost \cup push[p].out
    PROVE  NowInv' /\ MineInv' /\ Sent' \subseteq Sent \cup A
<1>1. NowInv' /\ MineInv'
  BY DEF DecInv, NowInv, MineInv
<1>2. ASSUME NEW x \in Sent' PROVE x \in Sent \cup A
  <2>1. CASE x \in exported' \cup lost'
    BY <2>1, FlyingFacts DEF Sent
  <2>2. CASE x \in Flying'
    <3>1. (\E q \in Pushes : x \in push'[q].out) \/ (\E a \in Drains : x \in drain[a].out)
      BY <2>2, FlyingNext
    <3>2. CASE \E a \in Drains : x \in drain[a].out
      BY <3>2, FlyingFacts DEF Sent
    <3>3. CASE \E q \in Pushes : x \in push'[q].out
      <4>1. PICK q \in Pushes : x \in push'[q].out
        BY <3>3
      <4>2. CASE q = p
        BY <4>1, <4>2, FlyingFacts DEF Sent
      <4>3. CASE q # p
        BY <4>1, <4>3, FlyingFacts DEF Sent
      <4> QED BY <4>2, <4>3
    <3> QED BY <3>1, <3>2, <3>3
  <2> QED BY <2>1, <2>2 DEF Sent
<1> QED BY <1>1, <1>2

\* A step of drain a.
LEMMA DrainSeen ==
    ASSUME DecInv, NEW a \in Drains, UNCHANGED <<push, clock>>, NEW A,
           \A b \in Drains : b # a => drain'[b] = drain[b],
           drain'[a].now <= clock,
           drain'[a].out \subseteq drain[a].out \cup A,
           exported' \cup lost' \subseteq exported \cup lost \cup drain[a].out
    PROVE  NowInv' /\ MineInv' /\ Sent' \subseteq Sent \cup A
<1>1. NowInv' /\ MineInv'
  BY DEF DecInv, NowInv, MineInv
<1>2. ASSUME NEW x \in Sent' PROVE x \in Sent \cup A
  <2>1. CASE x \in exported' \cup lost'
    BY <2>1, FlyingFacts DEF Sent
  <2>2. CASE x \in Flying'
    <3>1. (\E q \in Pushes : x \in push[q].out) \/ (\E b \in Drains : x \in drain'[b].out)
      BY <2>2, FlyingNext
    <3>2. CASE \E q \in Pushes : x \in push[q].out
      BY <3>2, FlyingFacts DEF Sent
    <3>3. CASE \E b \in Drains : x \in drain'[b].out
      <4>1. PICK b \in Drains : x \in drain'[b].out
        BY <3>3
      <4>2. CASE b = a
        BY <4>1, <4>2, FlyingFacts DEF Sent
      <4>3. CASE b # a
        BY <4>1, <4>3, FlyingFacts DEF Sent
      <4> QED BY <4>2, <4>3
    <3> QED BY <3>1, <3>2, <3>3
  <2> QED BY <2>1, <2>2 DEF Sent
<1> QED BY <1>1, <1>2

\* A push is no drain and not the free mutex.
LEMMA PushNames == \A p \in Pushes : p \notin Drains \cup {"free"}
BY TailBufferAssumption DEF Drains

\* The bounds are numbers.
LEMMA BoundTypes ==
    /\ MaxTraces \in Nat /\ MaxSpans \in Nat /\ MaxSpansPerTrace \in Nat /\ MaxSpansPerTrace >= 1
BY TailBufferAssumption

\* The entries and their lengths.
LEMMA OrderTypes ==
    ASSUME BufferInv, DecInv
    PROVE  /\ order \in Seq(Entry) /\ Len(order) \in Nat /\ spans \in Nat
           /\ \A k \in 1..Len(order) : Len(order[k].spans) \in Nat
           /\ order = <<>> => spans = 0 /\ Len(order) = 0
<1>1. order \in Seq(Entry) /\ Len(order) \in Nat
  BY DEF BufferInv, TypeInv
<1>2. spans \in Nat
  BY FS_CardinalityType DEF DecInv, OrderInv
<1>3. ASSUME NEW k \in 1..Len(order) PROVE Len(order[k].spans) \in Nat
  <2>1. order[k] \in Entry
    BY <1>1, ElementOfSeq
  <2>2. order[k].spans \in Seq(Spans)
    BY <2>1 DEF Entry
  <2> QED BY <2>2
<1>4. ASSUME order = <<>> PROVE spans = 0 /\ Len(order) = 0
  <2>1. Len(order) = 0
    BY <1>4
  <2>2. Filled = {}
    BY <2>1, FilledFacts
  <2> QED BY <2>1, <2>2, FS_EmptySet DEF DecInv, OrderInv
<1> QED BY <1>1, <1>2, <1>3, <1>4

\* The bounds after a step of nobody who holds the mutex, or that moves nothing they see.
LEMMA BoundsSame ==
    ASSUME DecInv, UNCHANGED <<order, spans, mu, flushed>>,
           \A q \in Pushes : mu = q => push'[q].pc = push[q].pc /\ push'[q].i = push[q].i
    PROVE  BoundInv'
BY DEF DecInv, BoundInv, Within, Short, Has, Current

\* A step of Sample keeps the invariant.
LEMMA SampleDec ==
    ASSUME BufferInv, DecInv, NEW p \in Pushes, Sample(p)
    PROVE  DecInv'
<1>1. /\ push[p].pc = "idle" /\ push' = [push EXCEPT ![p].pc = "lock", ![p].now = clock, ![p].tries = @ + 1]
      /\ UNCHANGED <<clock, mu, flushed, order, spans, verdicts, fifo, seq, forgotten, bills, drain, exported, lost, dropped>>
  BY DEF Sample, buffer, cache, fate
<1>2. push \in [Pushes -> PushState] /\ clock \in Nat
  BY DEF BufferInv, TypeInv
<1>3. /\ push'[p].now = clock /\ push'[p].mine = push[p].mine /\ push'[p].out = push[p].out
      /\ \A q \in Pushes : q # p => push'[q] = push[q]
  BY <1>1, <1>2 DEF PushState
<1>4. NowInv' /\ MineInv' /\ Sent' \subseteq Sent \cup {}
  <2>1. push'[p].now <= clock /\ push'[p].mine \subseteq push'[p].out
    BY <1>2, <1>3 DEF DecInv, MineInv
  <2> QED BY <1>1, <1>3, <2>1, PushSeen
<1>5. OrderInv' /\ CacheInv' /\ StaleInv' /\ FateInv'
  BY <1>1, <1>4, CalmKeeps
<1>6. BoundInv'
  <2>1. mu # p
    BY <1>1 DEF BufferInv, LockInv, InWalk
  <2> QED BY <1>1, <1>3, <2>1, BoundsSame
<1> QED BY <1>4, <1>5, <1>6 DEF DecInv

\* A step of Lock keeps the invariant.
LEMMA LockDec ==
    ASSUME BufferInv, DecInv, NEW p \in Pushes, Lock(p)
    PROVE  DecInv'
<1>1. /\ push[p].pc = "lock" /\ push' = [push EXCEPT ![p].pc = "walk"] /\ mu = "free" /\ mu' = p
      /\ UNCHANGED <<clock, flushed, order, spans, verdicts, fifo, seq, forgotten, bills, drain, exported, lost, dropped>>
  BY DEF Lock, buffer, cache, fate
<1>2. push \in [Pushes -> PushState] /\ clock \in Nat
  BY DEF BufferInv, TypeInv
<1>3. /\ push'[p].now = push[p].now /\ push'[p].mine = push[p].mine /\ push'[p].out = push[p].out /\ push'[p].pc = "walk"
      /\ \A q \in Pushes : q # p => push'[q] = push[q]
  BY <1>1, <1>2 DEF PushState
<1>4. NowInv' /\ MineInv' /\ Sent' \subseteq Sent \cup {}
  <2>1. push'[p].now <= clock /\ push'[p].mine \subseteq push'[p].out
    BY <1>3 DEF DecInv, MineInv, NowInv
  <2> QED BY <1>1, <1>3, <2>1, PushSeen
<1>5. OrderInv' /\ CacheInv' /\ StaleInv' /\ FateInv'
  BY <1>1, <1>4, CalmKeeps
<1>6. BoundInv'
  <2>1. Within /\ Short({})
    BY <1>1 DEF DecInv, BoundInv
  <2>2. Within' /\ Short({Unkeyed})' /\ \A k \in 1..Len(order) : Len(order) <= MaxTraces + 1 /\ spans <= MaxSpans + Len(order[k].spans)
    BY <1>1, <2>1, OrderTypes, BoundTypes DEF Within, Short
  <2>3. \A q \in Pushes : mu' = q => q = p /\ push'[q].pc = "walk"
    BY <1>1, <1>3
  <2> QED BY <1>1, <2>2, <2>3, PushNames DEF BoundInv
<1> QED BY <1>4, <1>5, <1>6 DEF DecInv

\* A step of LateSpan keeps the invariant.
LEMMA LateSpanDec ==
    ASSUME BufferInv, DecInv, NEW p \in Pushes, LateSpan(p)
    PROVE  DecInv'
<1> DEFINE s == Current(p)
           id == TraceOf[s]
           keep == verdicts[id].keep
<1>1. /\ mu = p /\ push[p].pc = "walk" /\ id # Unkeyed /\ Hit(id, push[p].now)
      /\ push' = [push EXCEPT ![p].i = @ + 1, ![p].out = IF keep THEN @ \cup {s} ELSE @]
      /\ dropped' = IF keep THEN dropped ELSE dropped \cup {s}
      /\ UNCHANGED <<clock, mu, flushed, order, spans, verdicts, fifo, seq, forgotten, bills, drain, exported, lost>>
  BY DEF LateSpan, buffer, cache, Holds
<1>2. push \in [Pushes -> PushState] /\ clock \in Nat
  BY DEF BufferInv, TypeInv
<1>3. /\ push'[p].now = push[p].now /\ push'[p].mine = push[p].mine /\ push'[p].pc = push[p].pc
      /\ push'[p].out = (IF keep THEN push[p].out \cup {s} ELSE push[p].out)
      /\ \A q \in Pushes : q # p => push'[q] = push[q]
  <2> HIDE DEF s, keep
  <2> QED BY <1>1, <1>2 DEF PushState
<1>4. id \in DOMAIN verdicts /\ keep \in BOOLEAN
  BY <1>1 DEF Hit, DecInv, CacheInv, Verdict
<1> DEFINE A == IF keep THEN {s} ELSE {}
<1>5. NowInv' /\ MineInv' /\ Sent' \subseteq Sent \cup A
  <2>1. push'[p].now <= clock /\ push'[p].mine \subseteq push'[p].out /\ push'[p].out \subseteq push[p].out \cup A
    BY <1>3 DEF DecInv, MineInv, NowInv
  <2> HIDE DEF A, s, keep
  <2> QED BY <1>1, <1>3, <2>1, PushSeen
<1>6. OrderInv' /\ CacheInv' /\ StaleInv' /\ FateInv'
  <2>1. \A x \in Sent' : x \in Sent \/ Remembered(x, TRUE)
    BY <1>4, <1>5 DEF Remembered
  <2>2. \A x \in dropped' : x \in dropped \/ Remembered(x, FALSE)
    BY <1>1, <1>4 DEF Remembered
  <2> QED BY <1>1, <2>1, <2>2, CalmKeeps
<1>7. BoundInv'
  <2>1. \A q \in Pushes : mu = q => q = p
    BY <1>1
  <2>2. push'[p].pc = "walk"
    BY <1>1, <1>3
  <2> QED BY <1>1, <2>1, <2>2, PushNames DEF DecInv, BoundInv, Within, Short, Has
<1> QED BY <1>5, <1>6, <1>7 DEF DecInv

\* A trace without a live verdict outlived the one it may have.
LEMMA NotHit ==
    ASSUME BufferInv, DecInv, NEW p \in Pushes, NEW id, ~Hit(id, push[p].now)
    PROVE  id \in DOMAIN verdicts => clock - verdicts[id].at >= TTL
<1> SUFFICES ASSUME id \in DOMAIN verdicts PROVE clock - verdicts[id].at >= TTL
  OBVIOUS
<1>1. ~(push[p].now - verdicts[id].at < TTL)
  BY DEF Hit
<1>2. push[p].now \in Nat /\ clock \in Nat /\ push[p].now <= clock /\ verdicts[id].at \in Nat /\ TTL \in Nat
  BY TailBufferAssumption DEF BufferInv, TypeInv, PushState, DecInv, NowInv, CacheInv, Verdict
<1> PICK a \in Nat, c \in Nat, v \in Nat, t \in Nat : a = push[p].now /\ c = clock /\ v = verdicts[id].at /\ t = TTL
  BY <1>2
<1>3. c - v >= t
  BY ONLY <1>1, <1>2, a \in Nat, c \in Nat, v \in Nat, t \in Nat, a = push[p].now, c = clock, v = verdicts[id].at, t = TTL
<1> QED BY <1>3

\* The span a push is at, and its trace.
LEMMA CurrentFacts ==
    ASSUME BufferInv, NEW p \in Pushes, ~Walked(p)
    PROVE  Current(p) \in Spans /\ TraceOf[Current(p)] \in Ids \cup {Unkeyed}
<1>1. push[p].i \in Nat \ {0} /\ Len(Payload[p]) \in Nat
  BY PayloadFacts DEF BufferInv, TypeInv, PushState
<1>2. push[p].i \in 1..Len(Payload[p])
  BY <1>1 DEF Walked
<1> QED BY <1>2, PayloadFacts DEF Current

\* A step of ParkSpan keeps the invariant.
LEMMA ParkSpanDec ==
    ASSUME BufferInv, DecInv, NEW p \in Pushes, ParkSpan(p)
    PROVE  DecInv'
<1> DEFINE s == Current(p)
           id == TraceOf[s]
           now == push[p].now
<1>1. /\ mu = p /\ push[p].pc = "walk" /\ ~Walked(p) /\ (id = Unkeyed \/ (flushed /\ ~Hit(id, now)))
      /\ Add(id, s, now) /\ push' = [push EXCEPT ![p].i = @ + 1]
      /\ UNCHANGED <<clock, mu, flushed, verdicts, fifo, seq, forgotten, bills, drain, exported, lost, dropped>>
  BY DEF ParkSpan, cache, fate, Holds
<1>2. push \in [Pushes -> PushState] /\ clock \in Nat /\ now \in Nat
  BY DEF BufferInv, TypeInv, PushState
<1>3. /\ push'[p].now = push[p].now /\ push'[p].mine = push[p].mine /\ push'[p].pc = push[p].pc /\ push'[p].out = push[p].out
      /\ \A q \in Pushes : q # p => push'[q] = push[q]
  BY <1>1, <1>2 DEF PushState
<1>4. s \in Spans /\ id \in Ids \cup {Unkeyed}
  BY <1>1, CurrentFacts
<1>5. id \in DOMAIN verdicts => clock - verdicts[id].at >= TTL
  <2>1. CASE id = Unkeyed
    BY <2>1 DEF DecInv, CacheInv, Ids
  <2>2. CASE ~Hit(id, now)
    BY <2>2, NotHit
  <2> QED BY <1>1, <2>1, <2>2
<1>6. NowInv' /\ MineInv' /\ Sent' \subseteq Sent \cup {}
  <2>1. push'[p].now <= clock /\ push'[p].mine \subseteq push'[p].out
    BY <1>3 DEF DecInv, MineInv, NowInv
  <2> QED BY <1>1, <1>3, <2>1, PushSeen
<1>7. order \in Seq(Entry) /\ Len(order) \in Nat
  BY OrderTypes
<1>8. OrderInv' /\ CacheInv' /\ StaleInv' /\ FateInv' /\ spans' = spans + 1
  <2> HIDE DEF s, id, now
  <2>1. Sent' \subseteq Sent /\ dropped' = dropped /\ id = TraceOf[s]
    BY <1>1, <1>6 DEF id
  <2> QED BY <1>1, <1>2, <1>4, <1>5, <1>7, <2>1, AddKeeps
<1>9. BoundInv'
  <2>1. \A q \in Pushes : mu' = q => q = p /\ push'[q].pc = "walk"
    BY <1>1, <1>3
  <2>2. mu' \notin Drains \cup {"free"}
    BY <1>1, PushNames
  <2>3. CASE flushed
    BY <1>1, <2>2, <2>3 DEF BoundInv
  <2>4. CASE ~flushed
    <3>1. id = Unkeyed
      BY <1>1, <2>4
    <3>2. /\ Short({Unkeyed}) /\ (~Has(Unkeyed) => Within)
          /\ \A k \in 1..Len(order) : order[k].id = Unkeyed =>
               Len(order) <= MaxTraces + 1 /\ spans <= MaxSpans + Len(order[k].spans)
      BY <1>1, <2>4 DEF DecInv, BoundInv
    <3>3. CASE Has(Unkeyed)
      <4> PICK n \in 1..Len(order) : n = At(Unkeyed) /\ order[n].id = Unkeyed
        BY <3>3, AtFacts
      <4>1. /\ Len(order') = Len(order) /\ \A k \in 1..Len(order) : k # n => order'[k] = order[k]
            /\ order'[n].id = Unkeyed /\ order'[n].spans = Append(order[n].spans, s)
        <5> HIDE DEF s, id, now
        <5> QED BY <3>1, <3>3, <1>1, <1>2, <1>4, <1>7, AddShape
      <4>2. Len(order'[n].spans) = Len(order[n].spans) + 1
        <5>1. order[n] \in Entry
          BY <1>7, ElementOfSeq
        <5>2. order[n].spans \in Seq(Spans)
          BY <5>1 DEF Entry
        <5> QED BY <4>1, <5>2
      <4>3. \A k \in 1..Len(order) : order[k].id = Unkeyed => k = n
        BY DEF DecInv, OrderInv
      <4>4. Short({Unkeyed})'
        BY <3>2, <4>1 DEF Short
      <4>5. \A k \in 1..Len(order') : order'[k].id = Unkeyed =>
               Len(order') <= MaxTraces + 1 /\ spans' <= MaxSpans + Len(order'[k].spans)
        <5> SUFFICES ASSUME NEW k \in 1..Len(order'), order'[k].id = Unkeyed
                     PROVE  Len(order') <= MaxTraces + 1 /\ spans' <= MaxSpans + Len(order'[k].spans)
          OBVIOUS
        <5>1. k = n
          BY <4>1, <4>3
        <5>2. Len(order) <= MaxTraces + 1 /\ spans <= MaxSpans + Len(order[n].spans)
          BY <3>2
        <5>3. spans \in Nat /\ Len(order[n].spans) \in Nat
          BY OrderTypes
        <5> QED BY <5>1, <5>2, <5>3, <4>1, <4>2, <1>8, BoundTypes
      <4>6. Has(Unkeyed)'
        BY <4>1 DEF Has
      <4> QED BY <2>1, <2>2, <4>4, <4>5, <4>6 DEF BoundInv
    <3>4. CASE ~Has(Unkeyed)
      <4>1. /\ Len(order') = Len(order) + 1 /\ \A k \in 1..Len(order) : order'[k] = order[k]
            /\ order'[Len(order) + 1].id = Unkeyed /\ order'[Len(order) + 1].spans = <<s>>
        <5> HIDE DEF s, id, now
        <5> QED BY <3>1, <3>4, <1>1, <1>2, <1>4, <1>7, AddShape
      <4>2. \A k \in 1..Len(order') : k \in 1..Len(order) \/ k = Len(order) + 1
        BY <4>1, <1>7
      <4>3. Short({Unkeyed})'
        BY <3>2, <4>1, <4>2 DEF Short
      <4>4. \A k \in 1..Len(order) : order[k].id # Unkeyed
        BY <3>4 DEF Has
      <4>5. \A k \in 1..Len(order') : order'[k].id = Unkeyed =>
               Len(order') <= MaxTraces + 1 /\ spans' <= MaxSpans + Len(order'[k].spans)
        <5> SUFFICES ASSUME NEW k \in 1..Len(order'), order'[k].id = Unkeyed
                     PROVE  Len(order') <= MaxTraces + 1 /\ spans' <= MaxSpans + Len(order'[k].spans)
          OBVIOUS
        <5>1. k = Len(order) + 1
          BY <4>1, <4>2, <4>4
        <5>2. Len(order) <= MaxTraces /\ spans <= MaxSpans
          BY <3>2, <3>4 DEF Within
        <5>3. Len(order'[k].spans) = 1
          BY <5>1, <4>1
        <5> QED BY <5>2, <5>3, <4>1, <1>7, <1>8, OrderTypes, BoundTypes
      <4>6. Len(order) + 1 \in 1..Len(order')
        BY <4>1, <1>7
      <4>7. Has(Unkeyed)'
        BY <4>1, <4>6 DEF Has
      <4> QED BY <2>1, <2>2, <4>3, <4>5, <4>7 DEF BoundInv
    <3> QED BY <3>3, <3>4
  <2> QED BY <2>3, <2>4
<1> QED BY <1>6, <1>8, <1>9 DEF DecInv

\* A step of BufferSpan keeps the invariant.
LEMMA BufferSpanDec ==
    ASSUME BufferInv, DecInv, NEW p \in Pushes, BufferSpan(p)
    PROVE  DecInv'
<1> DEFINE s == Current(p)
           id == TraceOf[s]
           now == push[p].now
<1>1. /\ mu = p /\ push[p].pc = "walk" /\ ~Walked(p) /\ ~flushed /\ ~Hit(id, now)
      /\ Add(id, s, now) /\ push' = [push EXCEPT ![p].pc = "enforce"]
      /\ UNCHANGED <<clock, mu, flushed, verdicts, fifo, seq, forgotten, bills, drain, exported, lost, dropped>>
  BY DEF BufferSpan, cache, fate, Holds
<1>2. push \in [Pushes -> PushState] /\ clock \in Nat /\ now \in Nat
  BY DEF BufferInv, TypeInv, PushState
<1>3. /\ push'[p].now = push[p].now /\ push'[p].mine = push[p].mine /\ push'[p].pc = "enforce" /\ push'[p].out = push[p].out
      /\ push'[p].i = push[p].i /\ \A q \in Pushes : q # p => push'[q] = push[q]
  BY <1>1, <1>2 DEF PushState
<1>4. s \in Spans /\ id \in Ids \cup {Unkeyed}
  BY <1>1, CurrentFacts
<1>5. id \in DOMAIN verdicts => clock - verdicts[id].at >= TTL
  BY <1>1, NotHit
<1>6. NowInv' /\ MineInv' /\ Sent' \subseteq Sent \cup {}
  <2>1. push'[p].now <= clock /\ push'[p].mine \subseteq push'[p].out
    BY <1>3 DEF DecInv, MineInv, NowInv
  <2> QED BY <1>1, <1>3, <2>1, PushSeen
<1>7. order \in Seq(Entry) /\ Len(order) \in Nat
  BY OrderTypes
<1>8. OrderInv' /\ CacheInv' /\ StaleInv' /\ FateInv'
  <2> HIDE DEF s, id, now
  <2>1. Sent' \subseteq Sent /\ dropped' = dropped /\ id = TraceOf[s]
    BY <1>1, <1>6 DEF id
  <2> QED BY <1>1, <1>2, <1>4, <1>5, <1>7, <2>1, AddKeeps
<1>9. BoundInv'
  <2>1. \A q \in Pushes : mu' = q => q = p /\ push'[q].pc = "enforce"
    BY <1>1, <1>3
  <2>2. mu' \notin Drains \cup {"free"}
    BY <1>1, PushNames
  <2>3. Current(p)' = s
    BY <1>3 DEF Current
  <2>4. Short({Unkeyed})
    BY <1>1 DEF DecInv, BoundInv
  <2>5. \A k \in 1..Len(order') : order'[k].id # id => k \in 1..Len(order) /\ order'[k] = order[k]
    <3> HIDE DEF s, id, now
    <3>1. CASE Has(id)
      BY <3>1, <1>1, <1>2, <1>4, <1>7, AddShape
    <3>2. CASE ~Has(id)
      <4>1. /\ Len(order') = Len(order) + 1 /\ \A k \in 1..Len(order) : order'[k] = order[k]
            /\ order'[Len(order) + 1].id = id
        BY <3>2, <1>1, <1>2, <1>4, <1>7, AddShape
      <4>2. \A k \in 1..Len(order') : k \in 1..Len(order) \/ k = Len(order) + 1
        BY <4>1, <1>7
      <4> QED BY <4>1, <4>2
    <3> QED BY <3>1, <3>2
  <2>6. Short({Unkeyed, TraceOf[Current(p)]})'
    <3>1. \A k \in 1..Len(order') : order'[k].id \notin {Unkeyed, id} => Len(order'[k].spans) < MaxSpansPerTrace
      BY <2>4, <2>5 DEF Short
    <3> QED BY <3>1, <2>3 DEF Short
  <2> QED BY <2>1, <2>2, <2>6 DEF BoundInv
<1> QED BY <1>6, <1>8, <1>9 DEF DecInv

\* Removing an entry leaves the others as short as they were.
LEMMA RemoveShort ==
    ASSUME BufferInv, DecInv, NEW i \in 1..Len(order), order' = SX!RemoveAt(order, i), NEW S, NEW T,
           Short(S), \A x \in S : x \in T \/ \A k \in 1..Len(order') : order'[k].id # x
    PROVE  Short(T)'
<1>1. \A k \in 1..Len(order') : \E j \in 1..Len(order) : order'[k] = order[j]
  BY OrderTypes, RemoveFacts
<1> SUFFICES ASSUME NEW k \in 1..Len(order'), order'[k].id \notin T
             PROVE  Len(order'[k].spans) < MaxSpansPerTrace
  BY DEF Short
<1>2. order'[k].id \notin S
  OBVIOUS
<1> QED BY <1>1, <1>2 DEF Short

\* A trace judged early: its spans leave with one verdict.
LEMMA EarlyDec ==
    ASSUME BufferInv, DecInv, NEW p \in Pushes, NEW i \in 1..Len(order), mu = p, Early(p, i, "bounds"),
           ~flushed => Short({Unkeyed, order[i].id})
    PROVE  DecInv'
<1>1. PICK d \in Decisions(order[i].id) :
        /\ Judge(i, d, push[p].now)
        /\ push' = [push EXCEPT ![p].pc = "bounds", ![p].out = @ \cup Kept(i, d),
                                ![p].mine = @ \cup Kept(i, d)]
        /\ UNCHANGED <<clock, mu, flushed, drain, acked, exported, lost>>
  BY DEF Early
<1> DEFINE kept == Kept(i, d)
<1>2. push \in [Pushes -> PushState] /\ order \in Seq(Entry) /\ push[p].now \in Nat
  BY DEF BufferInv, TypeInv, PushState
<1>3. /\ push'[p].now = push[p].now /\ push'[p].mine = push[p].mine \cup kept /\ push'[p].pc = "bounds"
      /\ push'[p].out = push[p].out \cup kept /\ \A q \in Pushes : q # p => push'[q] = push[q]
  <2> HIDE DEF kept
  <2>1. push' = [push EXCEPT ![p].pc = "bounds", ![p].out = @ \cup kept, ![p].mine = @ \cup kept]
    BY <1>1 DEF kept
  <2> QED BY <1>2, <2>1 DEF PushState
<1>4. NowInv' /\ MineInv' /\ Sent' \subseteq Sent \cup kept
  <2>1. push'[p].now <= clock /\ push'[p].mine \subseteq push'[p].out
    BY <1>3 DEF DecInv, MineInv, NowInv
  <2> HIDE DEF kept
  <2> QED BY <1>1, <1>3, <2>1, PushSeen
<1>5. /\ OrderInv' /\ CacheInv' /\ StaleInv' /\ FateInv'
      /\ \A k \in 1..Len(order') : order'[k].id # order[i].id
  BY <1>1, <1>2, <1>4, JudgeKeeps
<1>6. BoundInv'
  <2>1. \A q \in Pushes : mu' = q => q = p /\ push'[q].pc = "bounds"
    BY <1>1, <1>3
  <2>2. mu' \notin Drains \cup {"free"}
    BY <1>1, PushNames
  <2>3. order' = SX!RemoveAt(order, i)
    BY <1>1 DEF Judge
  <2>4. ~flushed => Short({Unkeyed})'
    BY <1>5, <2>3, RemoveShort
  <2> QED BY <1>1, <2>1, <2>2, <2>4 DEF BoundInv
<1> QED BY <1>4, <1>5, <1>6 DEF DecInv

\* A push that holds the mutex moves on without touching the buffer.
LEMMA WalkOnDec ==
    ASSUME BufferInv, DecInv, NEW p \in Pushes, mu = p,
           UNCHANGED <<clock, mu, flushed, buffer, cache, drain, fate>>,
           push'[p].now = push[p].now, push'[p].mine = push[p].mine, push'[p].out = push[p].out,
           \A q \in Pushes : q # p => push'[q] = push[q],
           BoundInv'
    PROVE  DecInv'
<1>1. UNCHANGED <<clock, mu, order, spans, verdicts, fifo, seq, forgotten, bills, drain, exported, lost, dropped>>
  BY DEF buffer, cache, fate
<1>2. NowInv' /\ MineInv' /\ Sent' \subseteq Sent \cup {}
  <2>1. push'[p].now <= clock /\ push'[p].mine \subseteq push'[p].out
    BY DEF DecInv, MineInv, NowInv
  <2> QED BY <1>1, <2>1, PushSeen
<1>3. OrderInv' /\ CacheInv' /\ StaleInv' /\ FateInv'
  BY <1>1, <1>2, CalmKeeps
<1> QED BY <1>2, <1>3 DEF DecInv

\* A step of EnforceTrace keeps the invariant.
LEMMA EnforceTraceDec ==
    ASSUME BufferInv, DecInv, NEW p \in Pushes, EnforceTrace(p)
    PROVE  DecInv'
<1> DEFINE id == TraceOf[Current(p)]
<1>1. mu = p /\ push[p].pc = "enforce" /\ push \in [Pushes -> PushState] /\ PushInv(p)
  BY DEF EnforceTrace, Holds, BufferInv, TypeInv
<1>2. Has(id)
  BY <1>1 DEF PushInv, Current
<1> PICK i \in 1..Len(order) : i = At(id) /\ order[i].id = id
  BY <1>2, AtFacts
<1>3. ~flushed => Short({Unkeyed, id})
  BY <1>1 DEF DecInv, BoundInv
<1>4. CASE Early(p, i, "bounds")
  BY <1>1, <1>3, <1>4, EarlyDec
<1>5. CASE /\ Len(order[i].spans) < MaxSpansPerTrace
           /\ push' = [push EXCEPT ![p].pc = "bounds"]
           /\ UNCHANGED <<clock, mu, flushed, buffer, cache, drain, fate>>
  <2>1. /\ push'[p].now = push[p].now /\ push'[p].mine = push[p].mine /\ push'[p].pc = "bounds"
        /\ push'[p].out = push[p].out /\ \A q \in Pushes : q # p => push'[q] = push[q]
    BY <1>1, <1>5 DEF PushState
  <2>2. \A k \in 1..Len(order) : order[k].id = id => k = i
    BY DEF DecInv, OrderInv
  <2>3. ~flushed => Short({Unkeyed})
    <3> HIDE DEF id
    <3> QED BY <1>3, <1>5, <2>2 DEF Short
  <2>4. order' = order /\ mu' = p /\ flushed' = flushed
    BY <1>1, <1>5 DEF buffer
  <2>5. ~flushed => Short({Unkeyed})'
    BY <2>3, <2>4 DEF Short
  <2>6. BoundInv'
    BY <2>1, <2>4, <2>5, PushNames DEF BoundInv
  <2> QED BY <1>1, <1>5, <2>1, <2>6, WalkOnDec
<1> QED BY <1>4, <1>5 DEF EnforceTrace

\* A step of DecideOldest keeps the invariant.
LEMMA DecideOldestDec ==
    ASSUME BufferInv, DecInv, NEW p \in Pushes, DecideOldest(p)
    PROVE  DecInv'
<1>1. mu = p /\ push[p].pc = "bounds" /\ order # <<>> /\ Early(p, 1, "bounds")
  BY DEF DecideOldest, Holds
<1>2. order \in Seq(Entry)
  BY OrderTypes
<1>3. 1 \in 1..Len(order)
  BY <1>1, <1>2
<1>4. ~flushed => Short({Unkeyed, order[1].id})
  BY <1>1 DEF DecInv, BoundInv, Short
<1> QED BY <1>1, <1>3, <1>4, EarlyDec

\* A step of NextSpan keeps the invariant.
LEMMA NextSpanDec ==
    ASSUME BufferInv, DecInv, NEW p \in Pushes, NextSpan(p)
    PROVE  DecInv'
<1>1. /\ mu = p /\ push[p].pc = "bounds" /\ ~(Overfull /\ order # <<>>)
      /\ push' = [push EXCEPT ![p].pc = "walk", ![p].i = @ + 1]
      /\ UNCHANGED <<clock, mu, flushed, buffer, cache, drain, fate>>
  BY DEF NextSpan, Holds
<1>2. push \in [Pushes -> PushState]
  BY DEF BufferInv, TypeInv
<1>3. /\ push'[p].now = push[p].now /\ push'[p].mine = push[p].mine /\ push'[p].pc = "walk"
      /\ push'[p].out = push[p].out /\ \A q \in Pushes : q # p => push'[q] = push[q]
  BY <1>1, <1>2 DEF PushState
<1>4. order' = order /\ spans' = spans /\ mu' = p /\ flushed' = flushed
  BY <1>1 DEF buffer
<1>5. Len(order) <= MaxTraces /\ spans <= MaxSpans
  <2>1. CASE order = <<>>
    BY <2>1, OrderTypes, BoundTypes
  <2>2. CASE ~Overfull
    BY <2>2, OrderTypes, BoundTypes DEF Overfull
  <2> QED BY <1>1, <2>1, <2>2
<1>6. ~flushed => Short({Unkeyed})'
  BY <1>1, <1>4 DEF DecInv, BoundInv, Short
<1>7. Within' /\ \A k \in 1..Len(order') : Len(order') <= MaxTraces + 1 /\ spans' <= MaxSpans + Len(order'[k].spans)
  BY <1>4, <1>5, OrderTypes, BoundTypes DEF Within
<1>8. BoundInv'
  BY <1>3, <1>4, <1>6, <1>7, PushNames DEF BoundInv
<1> QED BY <1>1, <1>3, <1>8, WalkOnDec

\* A step of JudgeHeld keeps the invariant.
LEMMA JudgeHeldDec ==
    ASSUME BufferInv, DecInv, NEW p \in Pushes, JudgeHeld(p)
    PROVE  DecInv'
<1>1. /\ mu = p /\ push[p].pc = "walk"
      /\ UNCHANGED <<clock, mu, flushed, drain, acked, exported, lost>>
  BY DEF JudgeHeld, Holds
<1>2. push \in [Pushes -> PushState] /\ order \in Seq(Entry) /\ push[p].now \in Nat /\ Len(order) \in Nat
  BY DEF BufferInv, TypeInv, PushState
<1>3. PICK i \in Pending : \E d \in Decisions(order[i].id) :
        /\ Judge(i, d, push[p].now)
        /\ push' = [push EXCEPT ![p].out = @ \cup Kept(i, d)]
  BY DEF JudgeHeld
<1>4. PICK d \in Decisions(order[i].id) :
        /\ Judge(i, d, push[p].now)
        /\ push' = [push EXCEPT ![p].out = @ \cup Kept(i, d)]
  BY <1>3
<1>5. i \in 1..Len(order) /\ (flushed \/ order[i].id = Unkeyed)
  <2>1. CASE flushed
    BY <1>2, <1>3, <2>1 DEF Pending
  <2>2. CASE ~flushed
    BY <1>3, <2>2, AtFacts DEF Pending
  <2> QED BY <2>1, <2>2
<1> DEFINE kept == Kept(i, d)
<1>6. /\ push'[p].now = push[p].now /\ push'[p].mine = push[p].mine /\ push'[p].pc = "walk"
      /\ push'[p].out = push[p].out \cup kept /\ \A q \in Pushes : q # p => push'[q] = push[q]
  <2>1. push' = [push EXCEPT ![p].out = @ \cup kept]
    BY <1>4
  <2> HIDE DEF kept
  <2> QED BY <1>1, <1>2, <2>1 DEF PushState
<1>7. NowInv' /\ MineInv' /\ Sent' \subseteq Sent \cup kept
  <2>1. push'[p].now <= clock /\ push'[p].mine \subseteq push'[p].out
    BY <1>6 DEF DecInv, MineInv, NowInv
  <2> HIDE DEF kept
  <2> QED BY <1>1, <1>6, <2>1, PushSeen
<1>8. /\ OrderInv' /\ CacheInv' /\ StaleInv' /\ FateInv' /\ spans' = spans - Len(order[i].spans)
      /\ \A k \in 1..Len(order') : order'[k].id # order[i].id
  BY <1>1, <1>2, <1>4, <1>5, <1>7, JudgeKeeps
<1>9. BoundInv'
  <2>1. \A q \in Pushes : mu' = q => q = p /\ push'[q].pc = "walk"
    BY <1>1, <1>6
  <2>2. mu' \notin Drains \cup {"free"}
    BY <1>1, PushNames
  <2>3. CASE flushed
    BY <1>1, <2>2, <2>3 DEF BoundInv
  <2>4. CASE ~flushed
    <3>1. order[i].id = Unkeyed /\ Short({Unkeyed})
      BY <1>1, <1>5, <2>4 DEF DecInv, BoundInv
    <3>2. order' = SX!RemoveAt(order, i)
      BY <1>4 DEF Judge
    <3>3. Short({Unkeyed})'
      BY <1>5, <3>1, <3>2, RemoveShort
    <3>4. \A k \in 1..Len(order') : order'[k].id # Unkeyed
      BY <1>8, <3>1
    <3>5. Len(order) <= MaxTraces + 1 /\ spans <= MaxSpans + Len(order[i].spans)
      BY <1>1, <1>5, <2>4, <3>1 DEF DecInv, BoundInv
    <3>6. Len(order') = Len(order) - 1
      BY <1>2, <1>5, <3>2, RemoveShape
    <3>7. spans \in Nat /\ Len(order[i].spans) \in Nat
      BY <1>5, OrderTypes
    <3>8. Within'
      <4> PICK a \in Nat, b \in Nat, c \in Nat : a = Len(order) /\ b = spans /\ c = Len(order[i].spans)
        BY <1>2, <3>7
      <4>1. a - 1 <= MaxTraces /\ b - c <= MaxSpans
        BY <3>5, BoundTypes
      <4> QED BY <4>1, <3>6, <1>8 DEF Within
    <3> QED BY <2>1, <2>2, <3>3, <3>4, <3>8 DEF BoundInv
  <2> QED BY <2>3, <2>4
<1> QED BY <1>7, <1>8, <1>9 DEF DecInv

\* A step of Unlock keeps the invariant.
LEMMA UnlockDec ==
    ASSUME BufferInv, DecInv, NEW p \in Pushes, Unlock(p)
    PROVE  DecInv'
<1>1. /\ mu = p /\ push[p].pc = "walk" /\ Pending = {} /\ mu' = "free"
      /\ push' = [push EXCEPT ![p] = IF @.out = {} THEN Ended(p, "acked") ELSE [@ EXCEPT !.pc = "send"]]
      /\ UNCHANGED <<clock, flushed, order, spans, verdicts, fifo, seq, forgotten, bills, drain, exported, lost, dropped>>
  BY DEF Unlock, buffer, cache, Holds
<1>2. push \in [Pushes -> PushState] /\ clock \in Nat /\ push[p] \in PushState /\ flushed \in BOOLEAN
  BY DEF BufferInv, TypeInv
<1> DEFINE r == IF push[p].out = {} THEN Ended(p, "acked") ELSE [push[p] EXCEPT !.pc = "send"]
<1>3. r.now <= clock /\ r.mine \subseteq r.out /\ r.out \subseteq push[p].out
  <2>1. CASE push[p].out = {}
    BY <1>2, <2>1 DEF Ended
  <2>2. CASE push[p].out # {}
    <3>1. r.now = push[p].now /\ r.mine = push[p].mine /\ r.out = push[p].out
      BY <1>2, <2>2 DEF PushState
    <3> QED BY <3>1 DEF DecInv, NowInv, MineInv
  <2> QED BY <2>1, <2>2
<1>4. push'[p] = r /\ \A q \in Pushes : q # p => push'[q] = push[q]
  BY <1>1, <1>2
<1> HIDE DEF r
<1>5. NowInv' /\ MineInv' /\ Sent' \subseteq Sent \cup {}
  BY <1>1, <1>3, <1>4, PushSeen
<1>6. OrderInv' /\ CacheInv' /\ StaleInv' /\ FateInv'
  BY <1>1, <1>5, CalmKeeps
<1>7. Within /\ Short({})
  <2>1. CASE flushed
    <3>1. order = <<>>
      BY <1>1, <2>1 DEF Pending
    <3> QED BY <3>1, OrderTypes, BoundTypes DEF Within, Short
  <2>2. CASE ~flushed
    <3>1. ~Has(Unkeyed)
      BY <1>1, <2>2 DEF Pending
    <3>2. Within /\ Short({Unkeyed})
      BY <1>1, <2>2, <3>1 DEF DecInv, BoundInv
    <3> QED BY <3>1, <3>2 DEF Short, Has
  <2> QED BY <1>2, <2>1, <2>2
<1>8. BoundInv'
  <2>1. Within' /\ Short({})'
    BY <1>1, <1>7 DEF Within, Short
  <2>2. mu' \notin Pushes
    BY <1>1, PushNames
  <2> QED BY <2>1, <2>2 DEF BoundInv
<1> QED BY <1>5, <1>6, <1>8 DEF DecInv

\* A step of SendPush keeps the invariant.
LEMMA SendPushDec ==
    ASSUME BufferInv, DecInv, NEW p \in Pushes, SendPush(p)
    PROVE  DecInv'
<1>1. /\ push[p].pc = "send"
      /\ UNCHANGED <<clock, mu, flushed, order, spans, verdicts, fifo, seq, forgotten, bills, drain, dropped>>
      /\ exported' \cup lost' \subseteq exported \cup lost \cup push[p].out
  <2>1. push[p].mine \subseteq push[p].out
    BY DEF DecInv, MineInv
  <2> QED BY <2>1 DEF SendPush, Nack, buffer, cache
<1>2. push \in [Pushes -> PushState] /\ clock \in Nat /\ push[p] \in PushState
  BY DEF BufferInv, TypeInv
<1>3. \E pc \in {"acked", "idle", "gone"} : push' = [push EXCEPT ![p] = Ended(p, pc)]
  BY DEF SendPush
<1>4. /\ push'[p].now = 0 /\ push'[p].out = {} /\ push'[p].mine = {}
      /\ \A q \in Pushes : q # p => push'[q] = push[q]
  BY <1>2, <1>3 DEF Ended
<1>5. NowInv' /\ MineInv' /\ Sent' \subseteq Sent \cup {}
  <2>1. push'[p].now <= clock /\ push'[p].mine \subseteq push'[p].out
    BY <1>2, <1>4
  <2> QED BY <1>1, <1>4, <2>1, PushSeen
<1>6. OrderInv' /\ CacheInv' /\ StaleInv' /\ FateInv'
  BY <1>1, <1>5, CalmKeeps
<1>7. BoundInv'
  <2>1. mu # p
    BY <1>1 DEF BufferInv, LockInv, InWalk
  <2> QED BY <1>1, <1>4, <2>1, BoundsSame
<1> QED BY <1>5, <1>6, <1>7 DEF DecInv

\* A step of a drain that neither judges nor sends.
LEMMA DrainMoveDec ==
    ASSUME BufferInv, DecInv, NEW a \in Drains, NEW r, drain' = [drain EXCEPT ![a] = r],
           r.now <= clock, r.out \subseteq drain[a].out,
           UNCHANGED <<clock, buffer, cache, push, fate>>, BoundInv'
    PROVE  DecInv'
<1>1. UNCHANGED <<clock, order, spans, verdicts, fifo, seq, forgotten, bills, push, exported, lost, dropped>>
  BY DEF buffer, cache, fate
<1>2. drain'[a] = r /\ \A b \in Drains : b # a => drain'[b] = drain[b]
  BY DEF BufferInv, TypeInv
<1>3. NowInv' /\ MineInv' /\ Sent' \subseteq Sent \cup {}
  BY <1>1, <1>2, DrainSeen
<1>4. OrderInv' /\ CacheInv' /\ StaleInv' /\ FateInv'
  BY <1>1, <1>3, CalmKeeps
<1> QED BY <1>3, <1>4 DEF DecInv

\* The bounds once nobody walks.
LEMMA BoundsFree ==
    ASSUME DecInv, UNCHANGED <<order, spans>>, mu \in Drains \cup {"free"}, mu' \in Drains \cup {"free"}
    PROVE  BoundInv'
<1>1. Within' /\ Short({})'
  BY DEF DecInv, BoundInv, Within, Short
<1>2. mu' \notin Pushes
  BY PushNames
<1> QED BY <1>1, <1>2 DEF BoundInv

\* A step of StartDrain keeps the invariant.
LEMMA StartDrainDec ==
    ASSUME BufferInv, DecInv, NEW a \in Drains, StartDrain(a)
    PROVE  DecInv'
<1> DEFINE r == [pc |-> "lock", now |-> clock, n |-> 0, out |-> {}]
<1>1. drain' = [drain EXCEPT ![a] = r] /\ UNCHANGED <<clock, mu, flushed, buffer, cache, push, fate>>
  BY DEF StartDrain
<1>2. r.now <= clock /\ r.out \subseteq drain[a].out
  BY DEF BufferInv, TypeInv
<1>3. BoundInv'
  BY <1>1, BoundsSame DEF buffer
<1> HIDE DEF r
<1> QED BY <1>1, <1>2, <1>3, DrainMoveDec

\* A step of LockDrain keeps the invariant.
LEMMA LockDrainDec ==
    ASSUME BufferInv, DecInv, NEW a \in Drains, LockDrain(a)
    PROVE  DecInv'
<1> DEFINE r == [drain[a] EXCEPT !.pc = "decide", !.n = 0]
<1>1. /\ drain' = [drain EXCEPT ![a].pc = "decide", ![a].n = 0] /\ mu = "free" /\ mu' = a
      /\ UNCHANGED <<clock, buffer, cache, push, fate>>
  BY DEF LockDrain
<1>2. drain \in [Drains -> DrainState] /\ drain[a] \in DrainState
  BY DEF BufferInv, TypeInv
<1>3. r.now = drain[a].now /\ r.out = drain[a].out /\ drain' = [drain EXCEPT ![a] = r]
  BY <1>1, <1>2 DEF DrainState
<1>4. r.now <= clock
  BY <1>3 DEF DecInv, NowInv
<1>5. BoundInv'
  BY <1>1, BoundsFree DEF buffer
<1> HIDE DEF r
<1> QED BY <1>1, <1>3, <1>4, <1>5, DrainMoveDec

\* A step of Yield keeps the invariant.
LEMMA YieldDec ==
    ASSUME BufferInv, DecInv, NEW a \in Drains, Yield(a)
    PROVE  DecInv'
<1> DEFINE r == [drain[a] EXCEPT !.pc = "lock"]
<1>1. /\ drain' = [drain EXCEPT ![a].pc = "lock"] /\ mu = a /\ mu' = "free"
      /\ UNCHANGED <<clock, buffer, cache, push, fate>>
  BY DEF Yield
<1>2. drain \in [Drains -> DrainState] /\ drain[a] \in DrainState
  BY DEF BufferInv, TypeInv
<1>3. r.now = drain[a].now /\ r.out = drain[a].out /\ drain' = [drain EXCEPT ![a] = r]
  BY <1>1, <1>2 DEF DrainState
<1>4. r.now <= clock
  BY <1>3 DEF DecInv, NowInv
<1>5. BoundInv'
  BY <1>1, BoundsFree DEF buffer
<1> HIDE DEF r
<1> QED BY <1>1, <1>3, <1>4, <1>5, DrainMoveDec

\* A step of EndDrain keeps the invariant.
LEMMA EndDrainDec ==
    ASSUME BufferInv, DecInv, NEW a \in Drains, EndDrain(a)
    PROVE  DecInv'
<1> DEFINE r == IF drain[a].out = {} THEN [drain[a] EXCEPT !.pc = Over(a), !.now = 0, !.n = 0]
                ELSE [drain[a] EXCEPT !.pc = "send", !.n = 0]
<1>1. /\ drain' = [drain EXCEPT ![a] = r] /\ mu = a /\ mu' = "free"
      /\ UNCHANGED <<clock, buffer, cache, push, fate>>
  BY DEF EndDrain
<1>2. drain \in [Drains -> DrainState] /\ drain[a] \in DrainState /\ clock \in Nat
  BY DEF BufferInv, TypeInv
<1>3. (r.now = drain[a].now \/ r.now = 0) /\ r.out = drain[a].out
  BY <1>2 DEF DrainState
<1>4. r.now <= clock
  BY <1>2, <1>3 DEF DecInv, NowInv
<1>5. BoundInv'
  BY <1>1, BoundsFree DEF buffer
<1> HIDE DEF r
<1> QED BY <1>1, <1>3, <1>4, <1>5, DrainMoveDec

\* A step of SendDrain keeps the invariant.
LEMMA SendDrainDec ==
    ASSUME BufferInv, DecInv, NEW a \in Drains, SendDrain(a)
    PROVE  DecInv'
<1>1. /\ drain' = [drain EXCEPT ![a] = [pc |-> Over(a), now |-> 0, n |-> 0, out |-> {}]]
      /\ exported' \cup lost' \subseteq exported \cup lost \cup drain[a].out
      /\ UNCHANGED <<clock, mu, flushed, order, spans, verdicts, fifo, seq, forgotten, bills, push, dropped>>
  BY DEF SendDrain, buffer, cache
<1>2. drain \in [Drains -> DrainState] /\ clock \in Nat
  BY DEF BufferInv, TypeInv
<1>3. drain'[a].now = 0 /\ drain'[a].out = {} /\ \A b \in Drains : b # a => drain'[b] = drain[b]
  BY <1>1, <1>2
<1>4. NowInv' /\ MineInv' /\ Sent' \subseteq Sent \cup {}
  <2>1. drain'[a].now <= clock
    BY <1>2, <1>3
  <2> QED BY <1>1, <1>3, <2>1, DrainSeen
<1>5. OrderInv' /\ CacheInv' /\ StaleInv' /\ FateInv'
  BY <1>1, <1>4, CalmKeeps
<1>6. BoundInv'
  BY <1>1, BoundsSame
<1> QED BY <1>4, <1>5, <1>6 DEF DecInv

\* A step of DecideDrain keeps the invariant.
LEMMA DecideDrainDec ==
    ASSUME BufferInv, DecInv, NEW a \in Drains, DecideDrain(a)
    PROVE  DecInv'
<1>1. mu = a /\ order # <<>> /\ UNCHANGED <<clock, mu, flushed, push, acked, exported, lost>>
  BY DEF DecideDrain, Deciding
<1>2. PICK d \in Decisions(order[1].id) :
        /\ Judge(1, d, drain[a].now)
        /\ drain' = [drain EXCEPT ![a].n = IF a = "flush" THEN @ ELSE @ + 1,
                                  ![a].out = @ \cup Kept(1, d)]
  BY DEF DecideDrain
<1>3. drain \in [Drains -> DrainState] /\ order \in Seq(Entry) /\ drain[a].now \in Nat
  BY DEF BufferInv, TypeInv, DrainState
<1>4. 1 \in 1..Len(order)
  BY <1>1, <1>3
<1> DEFINE kept == Kept(1, d)
<1>5. /\ drain'[a].now = drain[a].now /\ drain'[a].out = drain[a].out \cup kept
      /\ \A b \in Drains : b # a => drain'[b] = drain[b]
  <2> DEFINE n == IF a = "flush" THEN drain[a].n ELSE drain[a].n + 1
  <2>1. drain' = [drain EXCEPT ![a] = [drain[a] EXCEPT !.n = n, !.out = @ \cup kept]]
    BY <1>2, <1>3
  <2> HIDE DEF kept, n
  <2> QED BY <1>3, <2>1 DEF DrainState
<1>6. NowInv' /\ MineInv' /\ Sent' \subseteq Sent \cup kept
  <2>1. drain'[a].now <= clock
    BY <1>5 DEF DecInv, NowInv
  <2> HIDE DEF kept
  <2> QED BY <1>1, <1>5, <2>1, DrainSeen
<1>7. /\ OrderInv' /\ CacheInv' /\ StaleInv' /\ FateInv' /\ spans' = spans - Len(order[1].spans)
  BY <1>1, <1>2, <1>3, <1>4, <1>6, JudgeKeeps
<1>8. BoundInv'
  <2>1. Len(order) <= MaxTraces /\ spans <= MaxSpans /\ Short({})
    BY <1>1 DEF DecInv, BoundInv, Within
  <2>2. order' = SX!RemoveAt(order, 1)
    BY <1>2 DEF Judge
  <2>3. Short({})'
    BY <1>4, <2>1, <2>2, RemoveShort
  <2>4. Len(order') = Len(order) - 1
    BY <1>3, <1>4, <2>2, RemoveShape
  <2>5. spans \in Nat /\ Len(order[1].spans) \in Nat /\ Len(order) \in Nat
    BY <1>4, OrderTypes
  <2>6. Within'
    <3> PICK k \in Nat, b \in Nat, c \in Nat : k = Len(order) /\ b = spans /\ c = Len(order[1].spans)
      BY <2>5
    <3>1. k - 1 <= MaxTraces /\ b - c <= MaxSpans
      BY <2>1, BoundTypes
    <3> QED BY <3>1, <2>4, <1>7 DEF Within
  <2>7. mu' \notin Pushes
    BY <1>1, PushNames
  <2> QED BY <2>3, <2>6, <2>7 DEF BoundInv
<1> QED BY <1>6, <1>7, <1>8 DEF DecInv

\* Time passing, and a stuttering step.
LEMMA IdleDec ==
    ASSUME BufferInv, DecInv, clock' \in Nat, clock <= clock', clock' <= MaxTime,
           UNCHANGED <<mu, flushed, buffer, cache, push, drain, fate>>
    PROVE  DecInv'
<1>1. UNCHANGED <<mu, flushed, order, spans, verdicts, fifo, seq, forgotten, bills, push, drain, exported, lost, dropped>>
  BY DEF buffer, cache, fate
<1>2. clock \in Nat /\ push \in [Pushes -> PushState] /\ drain \in [Drains -> DrainState]
  BY DEF BufferInv, TypeInv
<1>3. Filled' = Filled /\ Sent' = Sent
  BY <1>1 DEF Filled, Sent, Flying
<1>4. OrderInv' /\ CacheInv' /\ FateInv' /\ MineInv'
  BY <1>1, <1>3 DEF DecInv, OrderInv, CacheInv, Charged, FateInv, Remembered, MineInv
<1>5. NowInv'
  <2>1. ASSUME NEW n \in Nat, n <= clock PROVE n <= clock'
    BY <2>1, <1>2
  <2>2. \A p \in Pushes : push[p].now \in Nat
    BY <1>2 DEF PushState
  <2>3. \A a \in Drains : drain[a].now \in Nat
    BY <1>2 DEF DrainState
  <2> QED BY <1>1, <2>1, <2>2, <2>3 DEF DecInv, NowInv
<1>6. StaleInv'
  <2> SUFFICES ASSUME NEW k \in 1..Len(order), order[k].id \in DOMAIN verdicts
               PROVE  clock' - verdicts[order[k].id].at >= TTL
    BY <1>1 DEF StaleInv
  <2>1. clock - verdicts[order[k].id].at >= TTL
    BY DEF DecInv, StaleInv
  <2>2. verdicts[order[k].id].at \in Nat /\ TTL \in Nat
    BY TailBufferAssumption DEF DecInv, CacheInv, Verdict
  <2> QED BY <1>2, <2>1, <2>2
<1>7. BoundInv'
  BY <1>1, BoundsSame
<1> QED BY <1>4, <1>5, <1>6, <1>7 DEF DecInv

\* Every step preserves the invariant.
LEMMA DecStep == BufferInv /\ DecInv /\ [Next]_vars => DecInv'
<1> SUFFICES ASSUME BufferInv, DecInv, [Next]_vars PROVE DecInv'
  OBVIOUS
<1>1. clock \in Nat /\ clock <= MaxTime /\ MaxTime \in Nat
  BY TailBufferAssumption DEF BufferInv, TypeInv, DecInv, NowInv
<1>2. CASE \E p \in Pushes : Sample(p) \/ Serve(p)
  <2> PICK p \in Pushes : Sample(p) \/ Serve(p)
    BY <1>2
  <2> QED BY SampleDec, LockDec, ParkSpanDec, LateSpanDec, BufferSpanDec, EnforceTraceDec,
             DecideOldestDec, NextSpanDec, JudgeHeldDec, UnlockDec, SendPushDec DEF Serve
<1>3. CASE \E a \in Drains : StartDrain(a) \/ DrainStep(a)
  <2> PICK a \in Drains : StartDrain(a) \/ DrainStep(a)
    BY <1>3
  <2> QED BY StartDrainDec, LockDrainDec, DecideDrainDec, YieldDec, EndDrainDec,
             SendDrainDec DEF DrainStep
<1>4. CASE Tick
  <2>1. clock' \in Nat /\ clock <= clock' /\ clock' <= MaxTime
    BY <1>1, <1>4 DEF Tick
  <2> QED BY <1>4, <2>1, IdleDec DEF Tick
<1>5. CASE UNCHANGED vars
  BY <1>1, <1>5, IdleDec DEF vars
<1> QED BY <1>2, <1>3, <1>4, <1>5 DEF Next

\* The invariant gives the property.
LEMMA DecGives == BufferInv /\ DecInv => DecidedAsWhole
<1> SUFFICES ASSUME BufferInv, DecInv PROVE DecidedAsWhole
  OBVIOUS
<1>1. TypeOK
  <2>1. /\ clock \in 0..MaxTime /\ mu \in Pushes \cup Drains \cup {"free"} /\ flushed \in BOOLEAN
        /\ spans = Cardinality(Filled)
    BY TailBufferAssumption DEF BufferInv, TypeInv, DecInv, NowInv, OrderInv
  <2>2. mu = "free" =>
         /\ Len(order) <= MaxTraces /\ spans <= MaxSpans
         /\ \A i \in 1..Len(order) : Len(order[i].spans) < MaxSpansPerTrace
    BY DEF DecInv, BoundInv, Within, Short
  <2>3. DOMAIN verdicts \subseteq Ids /\ Cardinality(DOMAIN verdicts) <= CacheSize
    BY DEF DecInv, CacheInv
  <2>4. ASSUME NEW p \in Pushes
        PROVE  /\ push[p].pc \in {"idle", "lock", "walk", "enforce", "bounds", "send", "acked", "gone"}
               /\ push[p].mine \subseteq push[p].out /\ push[p].out \subseteq Spans
               /\ (push[p].pc \in {"walk", "enforce", "bounds"}) <=> mu = p
    <3>1. push[p] \in PushState
      BY DEF BufferInv, TypeInv
    <3>2. push[p].pc \in {"idle", "lock", "walk", "enforce", "bounds", "send", "acked", "gone"} /\ push[p].out \subseteq Spans
      BY <3>1 DEF PushState
    <3> QED BY <3>2 DEF DecInv, MineInv, BufferInv, LockInv, InWalk
  <2>5. \A a \in Drains : (drain[a].pc = "decide") <=> mu = a
    BY DEF BufferInv, LockInv
  <2> QED BY <2>1, <2>2, <2>3, <2>4, <2>5 DEF TypeOK
<1>2. WholeTraces
  <2> SUFFICES ASSUME NEW s \in exported \cup lost, NEW t \in dropped,
                      TraceOf[s] = TraceOf[t], TraceOf[s] # Unkeyed, TraceOf[s] \notin forgotten
               PROVE  FALSE
    BY DEF WholeTraces
  <2>1. Remembered(s, TRUE) /\ Remembered(t, FALSE)
    BY DEF DecInv, FateInv, Sent
  <2> QED BY <2>1 DEF Remembered
<1>3. BilledOnce
  BY DEF DecInv, CacheInv, BilledOnce
<1> QED BY <1>1, <1>2, <1>3 DEF DecidedAsWhole

\* However pushes, sweeps and the flush interleave, the spans of a trace share one
\* verdict as long as the cache remembers it, its rate budget is charged once, and
\* the buffer and the cache stay within their bounds (judge, put, enforce).
THEOREM TracesDecidedAsWhole == Spec => []DecidedAsWhole
<1>1. Init => DecInv
  BY DecStarts
<1>2. BufferInv /\ DecInv /\ [Next]_vars => DecInv'
  BY DecStep
<1>3. BufferInv /\ DecInv => DecidedAsWhole
  BY DecGives
<1> QED BY <1>1, <1>2, <1>3, InvHolds, PTL DEF Spec

-----------------------------------------------------------------------------
(* The pairing of the service graph.                                         *)

Keys == {EdgeKey(s) : s \in HalfSpans}
PendingRec ==
  [key : Keys, exp : Int, client : SUBSET HalfSpans, server : SUBSET HalfSpans, failed : BOOLEAN,
   conn : {"unknown", "messaging", "database"}, peer : {Empty} \cup {SpanInfo[s].peer : s \in HalfSpans},
   halves : SUBSET HalfSpans]
ConsumerRec == [pc : {"idle", "sweep", "observe", "done"}, now : Nat, budget : Nat, i : Nat]
Consumers == GraphPushes \cup {"sweep"}
EndSet == Fates \cup {"none", "pending", "ignored"}
LoneFates == {"virtual", "unpaired"}
InEdge(x) == x.client \cup x.server

PairTypes ==
  /\ graphClock \in Nat /\ pending \in Seq(PendingRec) /\ counts \in [Fates -> Int]
  /\ consumer \in [Consumers -> ConsumerRec]
  /\ ends \in [HalfSpans -> EndSet] /\ met \in [HalfSpans -> [at : Int, opened : Int]]

\* An entry waits for its other side: it has one side only, of spans that wait with it.
Waits(e, en, mt) ==
  /\ e.halves # {} /\ e.client \subseteq e.halves /\ e.server \subseteq e.halves
  /\ e.client = {} \/ e.server = {}
  /\ \A s \in e.halves :
       /\ en[s] = "pending" /\ EdgeKey(s) = e.key /\ SpanInfo[s].service # Empty
       /\ Side(s) \in {"client", "server"} /\ mt[s].opened = e.exp - PairWait
       /\ Side(s) = "client" => e.client # {}
       /\ Side(s) = "server" => e.server # {}

OneEach(pd) == \A i, j \in 1..Len(pd) : pd[i].key = pd[j].key => i = j
AllWait(pd, en, mt) == \A i \in 1..Len(pd) : Waits(pd[i], en, mt)
HalvesListed(pd, en) == \A s \in HalfSpans : en[s] = "pending" => \E i \in 1..Len(pd) : s \in pd[i].halves
ListInv == OneEach(pending) /\ AllWait(pending, ends, met) /\ HalvesListed(pending, ends) /\ Len(pending) <= MaxItems

\* A payload has not read the spans it still has to observe.
Unread(p, c, en) ==
  c.pc # "done" => \A i \in 1..Len(GraphSpans[p]) : i >= c.i => en[GraphSpans[p][i]] = "none"
ConsumersInv ==
  /\ \A p \in Consumers : consumer[p].now <= graphClock
  /\ \A p \in GraphPushes :
       /\ consumer[p].pc = "idle" => consumer[p].i = 0
       /\ consumer[p].pc \in {"sweep", "observe"} => consumer[p].i \in 1..Len(GraphSpans[p])
       /\ Unread(p, consumer[p], ends)
  /\ consumer["sweep"].pc \in {"idle", "sweep"}

EdgeOK(x, en) ==
  /\ InEdge(x) # {} /\ InEdge(x) \subseteq HalfSpans
  /\ \A s \in InEdge(x) : EdgeKey(s) = x.key /\ en[s] \in {"completed", "virtual"}
  /\ (x.virtual = "none") = (x.client # {} /\ x.server # {})

OneEdge(ed) == \A x, y \in ed : InEdge(x) \cap InEdge(y) # {} => x = y
EdgesInv ==
  /\ IsFiniteSet(edges) /\ (\A x \in edges : EdgeOK(x, ends)) /\ OneEdge(edges)
  /\ counts["completed"] + counts["virtual"] = Cardinality(edges)

DropInv == counts["dropped"] = Cardinality({s \in HalfSpans : ends[s] = "dropped"})
ServiceInv == \A s \in HalfSpans : ends[s] = "virtual" => SpanInfo[s].service # Empty

\* Whoever is alone waited a whole window, and met none of the other side.
Opposite(s, t) == {Side(s), Side(t)} = {"client", "server"} /\ EdgeKey(s) = EdgeKey(t)
Apart(s, t, mt) == mt[s].at - mt[t].opened >= PairWait \/ mt[t].at - mt[s].opened >= PairWait
Waited(en, mt, now) == \A s \in HalfSpans : en[s] \in LoneFates => mt[s].opened + PairWait <= now
AllApart(en, mt) ==
  \A s, t \in HalfSpans :
    en[s] \in LoneFates /\ en[t] \in LoneFates \cup {"pending"} /\ Opposite(s, t) => Apart(s, t, mt)
TimeInv == Waited(ends, met, graphClock) /\ AllApart(ends, met)

PairInv ==
  PairTypes /\ ListInv /\ ConsumersInv /\ EdgesInv /\ DropInv /\ ServiceInv /\ TimeInv

LEMMA PairStarts == PairInit => PairInv
<1> SUFFICES ASSUME PairInit PROVE PairInv
  OBVIOUS
<1>1. PairTypes
  BY DEF PairInit, PairTypes, Consumers, ConsumerRec, EndSet, Fates
<1>2. ListInv
  <2>1. pending = << >> /\ Len(pending) = 0 /\ MaxItems \in Nat
    BY PairAssumption DEF PairInit
  <2>2. OneEach(pending) /\ AllWait(pending, ends, met) /\ Len(pending) <= MaxItems
    BY <2>1 DEF OneEach, AllWait
  <2>3. HalvesListed(pending, ends)
    BY DEF PairInit, HalvesListed
  <2> QED BY <2>2, <2>3 DEF ListInv
<1>3. ConsumersInv
  <2>1. \A p \in GraphPushes : \A i \in 1..Len(GraphSpans[p]) : GraphSpans[p][i] \in HalfSpans
    BY PairAssumption
  <2> QED BY <2>1 DEF PairInit, ConsumersInv, Unread, Consumers
<1>4. EdgesInv
  BY FS_EmptySet DEF PairInit, EdgesInv, OneEdge, Fates
<1>5. DropInv
  <2>1. {s \in HalfSpans : ends[s] = "dropped"} = {}
    BY DEF PairInit
  <2> QED BY <2>1, FS_EmptySet DEF PairInit, DropInv, Fates
<1>6. ServiceInv /\ TimeInv
  BY DEF PairInit, ServiceInv, TimeInv, Waited, AllApart, LoneFates
<1> QED BY <1>1, <1>2, <1>3, <1>4, <1>5, <1>6 DEF PairInv

LEMMA SpanFacts ==
  ASSUME NEW p \in GraphPushes, NEW i \in 1..Len(GraphSpans[p])
  PROVE  GraphSpans[p][i] \in HalfSpans /\ i \in DOMAIN GraphSpans[p] /\ Len(GraphSpans[p]) \in Nat
BY PairAssumption

LEMMA PushLength == ASSUME NEW p \in GraphPushes PROVE Len(GraphSpans[p]) \in Nat /\ Len(GraphSpans[p]) >= 1
BY PairAssumption

\* What only moves the consumers and the clock.
LEMMA ConsumeKeeps ==
  ASSUME PairInv, \/ \E p \in GraphPushes : Consume(p)
                  \/ SweepTicked \/ GraphTick
  PROVE  PairInv'
<1>1. CASE GraphTick
  <2>1. graphClock' = graphClock + 1 /\ graphClock \in Nat /\ UNCHANGED <<pending, counts, consumer, edges, ends, met>>
    BY <1>1 DEF GraphTick, PairInv, PairTypes
  <2>2. PairTypes' /\ ListInv' /\ EdgesInv' /\ DropInv' /\ ServiceInv'
    BY <2>1 DEF PairInv, PairTypes, ListInv, EdgesInv, DropInv, ServiceInv
  <2>3. ConsumersInv'
    <3>1. \A p \in Consumers : consumer[p].now \in Nat
      BY DEF PairInv, PairTypes, ConsumerRec
    <3> QED BY <2>1, <3>1 DEF PairInv, ConsumersInv, Unread
  <2>4. TimeInv'
    <3>1. Waited(ends', met', graphClock')
      <4> SUFFICES ASSUME NEW s \in HalfSpans, ends[s] \in LoneFates PROVE met[s].opened + PairWait <= graphClock + 1
        BY <2>1 DEF Waited
      <4>1. met[s].opened \in Int /\ PairWait \in Nat /\ met[s].opened + PairWait <= graphClock
        BY PairAssumption DEF PairInv, PairTypes, TimeInv, Waited
      <4> QED BY <4>1, <2>1
    <3> QED BY <3>1, <2>1 DEF PairInv, TimeInv, AllApart
  <2> QED BY <2>2, <2>3, <2>4 DEF PairInv
<1>2. CASE (\E p \in GraphPushes : Consume(p)) \/ SweepTicked
  <2>1. UNCHANGED <<graphClock, pending, counts, edges, ends, met>>
    BY <1>2 DEF Consume, SweepTicked
  <2>2. PICK p \in Consumers, n \in Nat :
          /\ consumer[p].pc = "idle"
          /\ consumer' = [consumer EXCEPT ![p] = [pc |-> "sweep", now |-> graphClock, i |-> 1, budget |-> n]]
    <3>1. CASE SweepTicked
      <4>1. MaxItems + 1 \in Nat /\ "sweep" \in Consumers
        BY PairAssumption DEF Consumers
      <4> QED BY <3>1, <4>1 DEF SweepTicked
    <3>2. ASSUME NEW p \in GraphPushes, Consume(p) PROVE \E n \in Nat :
            /\ consumer[p].pc = "idle"
            /\ consumer' = [consumer EXCEPT ![p] = [pc |-> "sweep", now |-> graphClock, i |-> 1, budget |-> n]]
      <4>1. Least(Len(GraphSpans[p]) + SweepFloor, MaxSweepBudget) \in Nat
        BY PairAssumption, PushLength DEF Least
      <4> QED BY <3>2, <4>1 DEF Consume
    <3> QED BY <1>2, <3>1, <3>2 DEF Consumers
  <2>3. ListInv' /\ EdgesInv' /\ DropInv' /\ ServiceInv' /\ TimeInv'
    BY <2>1 DEF PairInv, ListInv, EdgesInv, DropInv, ServiceInv, TimeInv
  <2>4. graphClock \in Nat /\ consumer \in [Consumers -> ConsumerRec]
    BY DEF PairInv, PairTypes
  <2>5. consumer' \in [Consumers -> ConsumerRec] /\ consumer'[p] = [pc |-> "sweep", now |-> graphClock, i |-> 1, budget |-> n]
        /\ \A q \in Consumers : q # p => consumer'[q] = consumer[q]
    BY <2>2, <2>4 DEF ConsumerRec
  <2>6. PairTypes'
    BY <2>1, <2>5 DEF PairInv, PairTypes
  <2>7. ConsumersInv'
    <3>1. \A q \in Consumers : consumer'[q].now <= graphClock
      BY <2>5, <2>4 DEF PairInv, ConsumersInv
    <3>2. ASSUME NEW q \in GraphPushes
          PROVE  /\ consumer'[q].pc = "idle" => consumer'[q].i = 0
                 /\ consumer'[q].pc \in {"sweep", "observe"} => consumer'[q].i \in 1..Len(GraphSpans[q])
                 /\ Unread(q, consumer'[q], ends)
      <4>1. CASE q # p
        BY <4>1, <2>5 DEF PairInv, ConsumersInv, Consumers
      <4>2. CASE q = p
        <5>1. \A i \in 1..Len(GraphSpans[q]) : ends[GraphSpans[q][i]] = "none"
          <6>1. Unread(q, consumer[q], ends) /\ consumer[q].pc = "idle"
            BY <2>2, <4>2 DEF PairInv, ConsumersInv
          <6>2. consumer[q].i = 0
            BY <6>1 DEF PairInv, ConsumersInv
          <6> QED BY <6>1, <6>2, PushLength DEF Unread
        <5> QED BY <5>1, <4>2, <2>5, PushLength DEF Unread
      <4> QED BY <4>1, <4>2
    <3>3. consumer'["sweep"].pc \in {"idle", "sweep"}
      BY <2>5 DEF PairInv, ConsumersInv, Consumers
    <3> QED BY <2>1, <3>1, <3>2, <3>3 DEF ConsumersInv
  <2> QED BY <2>3, <2>6, <2>7 DEF PairInv
<1> QED BY <1>1, <1>2

\* A payload that observed a span: the ones after it are still unread.
LEMMA ObserveConsumers ==
  ASSUME PairInv, NEW p \in GraphPushes, ObserveSpan(p),
         \A h \in HalfSpans : ends[h] = "none" /\ h # GraphSpans[p][consumer[p].i] => ends'[h] = "none"
  PROVE  consumer' \in [Consumers -> ConsumerRec] /\ ConsumersInv'
<1>1. consumer[p].pc = "observe" /\ graphClock' = graphClock
      /\ consumer' = [consumer EXCEPT ![p].i = @ + 1, ![p].pc = IF consumer[p].i = Len(GraphSpans[p]) THEN "done" ELSE @]
  BY DEF ObserveSpan
<1>2. p \in Consumers /\ consumer \in [Consumers -> ConsumerRec] /\ consumer[p] \in ConsumerRec
  BY DEF PairInv, PairTypes, Consumers
<1>3. consumer[p].i \in 1..Len(GraphSpans[p]) /\ Unread(p, consumer[p], ends) /\ Len(GraphSpans[p]) \in Nat
  BY <1>1, PushLength DEF PairInv, ConsumersInv
<1>4. /\ consumer'[p].i = consumer[p].i + 1 /\ consumer'[p].now = consumer[p].now
      /\ consumer'[p].pc = IF consumer[p].i = Len(GraphSpans[p]) THEN "done" ELSE "observe"
      /\ consumer'[p] \in ConsumerRec
      /\ \A q \in Consumers : q # p => consumer'[q] = consumer[q]
  <2> DEFINE pc == IF consumer[p].i = Len(GraphSpans[p]) THEN "done" ELSE consumer[p].pc
             c  == [consumer[p] EXCEPT !.i = consumer[p].i + 1, !.pc = pc]
  <2>1. consumer' = [consumer EXCEPT ![p] = c]
    BY <1>1, <1>2 DEF ConsumerRec
  <2>2. consumer'[p] = c /\ \A q \in Consumers : q # p => consumer'[q] = consumer[q]
    BY <2>1, <1>2
  <2>3. c \in ConsumerRec /\ c.i = consumer[p].i + 1 /\ c.now = consumer[p].now /\ c.pc = pc
    <3>1. pc \in {"idle", "sweep", "observe", "done"} /\ consumer[p].i + 1 \in Nat
      BY <1>1, <1>2 DEF ConsumerRec
    <3> PICK d \in ConsumerRec : d = consumer[p]
      BY <1>2
    <3> PICK n \in Nat : n = consumer[p].i + 1
      BY <3>1
    <3> PICK x \in {"idle", "sweep", "observe", "done"} : x = pc
      BY <3>1
    <3>2. c = [d EXCEPT !.i = n, !.pc = x]
      OBVIOUS
    <3>3. /\ [d EXCEPT !.i = n, !.pc = x] \in ConsumerRec
          /\ [d EXCEPT !.i = n, !.pc = x].i = n /\ [d EXCEPT !.i = n, !.pc = x].pc = x
          /\ [d EXCEPT !.i = n, !.pc = x].now = d.now
      BY ONLY d \in ConsumerRec, n \in Nat, x \in {"idle", "sweep", "observe", "done"} DEF ConsumerRec
    <3> HIDE DEF pc, c
    <3> QED BY <3>2, <3>3
  <2> QED BY <2>2, <2>3, <1>1
<1>5. consumer' \in [Consumers -> ConsumerRec]
  BY <1>1, <1>2, <1>4
<1>6. \A q \in Consumers : consumer'[q].now <= graphClock'
  BY <1>1, <1>4 DEF PairInv, ConsumersInv
<1>7. ASSUME NEW q \in GraphPushes
      PROVE  /\ consumer'[q].pc = "idle" => consumer'[q].i = 0
             /\ consumer'[q].pc \in {"sweep", "observe"} => consumer'[q].i \in 1..Len(GraphSpans[q])
             /\ Unread(q, consumer'[q], ends')
  <2>1. Unread(q, consumer'[q], ends')
    <3> SUFFICES ASSUME consumer'[q].pc # "done", NEW i \in 1..Len(GraphSpans[q]), i >= consumer'[q].i
                 PROVE  ends'[GraphSpans[q][i]] = "none"
      BY DEF Unread
    <3>1. GraphSpans[q][i] \in HalfSpans
      BY SpanFacts
    <3>2. ends[GraphSpans[q][i]] = "none"
      <4>1. CASE q = p
        <5>1. i >= consumer[p].i /\ consumer[p].pc # "done"
          BY <4>1, <1>1, <1>3, <1>4, <1>2 DEF ConsumerRec
        <5> QED BY <5>1, <4>1, <1>3 DEF Unread
      <4>2. CASE q # p
        <5>1. q \in Consumers /\ consumer'[q] = consumer[q] /\ Unread(q, consumer[q], ends)
          BY <4>2, <1>4 DEF Consumers, PairInv, ConsumersInv
        <5> QED BY <5>1 DEF Unread
      <4> QED BY <4>1, <4>2
    <3>3. GraphSpans[q][i] # GraphSpans[p][consumer[p].i]
      <4>1. ~(q = p /\ i = consumer[p].i)
        BY <1>3, <1>4
      <4>2. i \in DOMAIN GraphSpans[q] /\ consumer[p].i \in DOMAIN GraphSpans[p]
        BY <1>3, SpanFacts
      <4> QED BY <4>1, <4>2, PairAssumption
    <3> QED BY <3>1, <3>2, <3>3
  <2>2. CASE q = p
    BY <2>1, <2>2, <1>3, <1>4, <1>2 DEF ConsumerRec
  <2>3. CASE q # p
    BY <2>1, <2>3, <1>4 DEF PairInv, ConsumersInv, Consumers
  <2> QED BY <2>2, <2>3
<1>8. consumer'["sweep"].pc \in {"idle", "sweep"}
  BY <1>4, PairAssumption DEF PairInv, ConsumersInv, Consumers
<1> QED BY <1>5, <1>6, <1>7, <1>8 DEF ConsumersInv

LEMMA ObservedIsFresh ==
  ASSUME PairInv, NEW p \in GraphPushes, ObserveSpan(p)
  PROVE  GraphSpans[p][consumer[p].i] \in HalfSpans /\ ends[GraphSpans[p][consumer[p].i]] = "none"
<1>1. consumer[p].pc = "observe"
  BY DEF ObserveSpan
<1>2. consumer[p].i \in 1..Len(GraphSpans[p]) /\ Unread(p, consumer[p], ends)
  BY <1>1 DEF PairInv, ConsumersInv
<1> QED BY <1>1, <1>2, SpanFacts DEF Unread

SameDropped == \A h \in HalfSpans : ends'[h] = "dropped" <=> ends[h] = "dropped"

LEMMA DroppedSame ==
  ASSUME DropInv, SameDropped, counts'["dropped"] = counts["dropped"]
  PROVE  DropInv'
<1>1. {h \in HalfSpans : ends'[h] = "dropped"} = {h \in HalfSpans : ends[h] = "dropped"}
  BY DEF SameDropped
<1> QED BY <1>1 DEF DropInv

\* A span that joins no entry.
LEMMA PassKeeps ==
  ASSUME PairInv, NEW s \in HalfSpans, ends[s] = "none", NEW f \in {"ignored", "unkeyable", "dropped"},
         ends' = [ends EXCEPT ![s] = f], UNCHANGED <<pending, edges, met, graphClock>>,
         counts' \in [Fates -> Int], counts'["completed"] = counts["completed"], counts'["virtual"] = counts["virtual"],
         counts'["dropped"] = counts["dropped"] + (IF f = "dropped" THEN 1 ELSE 0),
         consumer' \in [Consumers -> ConsumerRec], ConsumersInv'
  PROVE  PairInv'
<1>1. ends \in [HalfSpans -> EndSet] /\ ends'[s] = f /\ (\A h \in HalfSpans : h # s => ends'[h] = ends[h])
      /\ ends' \in [HalfSpans -> EndSet]
  BY DEF PairInv, PairTypes, EndSet, Fates
<1>2. PairTypes'
  BY <1>1 DEF PairInv, PairTypes
<1>3. pending \in Seq(PendingRec)
  BY DEF PairInv, PairTypes
<1>4. ListInv'
  <2>1. ASSUME NEW i \in 1..Len(pending) PROVE Waits(pending[i], ends', met)
    <3>1. Waits(pending[i], ends, met) /\ pending[i] \in PendingRec
      BY <1>3, ElementOfSeq DEF PairInv, ListInv, AllWait
    <3> QED BY <3>1, <1>1 DEF Waits, PendingRec
  <2>2. HalvesListed(pending, ends')
    BY <1>1 DEF PairInv, ListInv, HalvesListed
  <2> QED BY <2>1, <2>2 DEF PairInv, ListInv, AllWait
<1>5. EdgesInv'
  <2>1. ASSUME NEW x \in edges PROVE EdgeOK(x, ends')
    <3>1. EdgeOK(x, ends)
      BY DEF PairInv, EdgesInv
    <3> QED BY <3>1, <1>1 DEF EdgeOK
  <2> QED BY <2>1 DEF PairInv, EdgesInv
<1>6. DropInv'
  <2>1. CASE f # "dropped"
    <3>1. SameDropped /\ counts'["dropped"] = counts["dropped"]
      BY <1>1, <2>1 DEF SameDropped, PairInv, PairTypes, Fates
    <3> QED BY <3>1, DroppedSame DEF PairInv
  <2>2. CASE f = "dropped"
    <3>1. {h \in HalfSpans : ends'[h] = "dropped"} = {h \in HalfSpans : ends[h] = "dropped"} \cup {s}
      BY <1>1, <2>2
    <3>2. s \notin {h \in HalfSpans : ends[h] = "dropped"}
      OBVIOUS
    <3>3. IsFiniteSet({h \in HalfSpans : ends[h] = "dropped"})
      BY PairAssumption, FS_Subset
    <3>4. Cardinality({h \in HalfSpans : ends[h] = "dropped"} \cup {s}) = Cardinality({h \in HalfSpans : ends[h] = "dropped"}) + 1
      BY <3>2, <3>3, FS_AddElement
    <3> QED BY <3>1, <3>4, <2>2 DEF PairInv, DropInv
  <2> QED BY <2>1, <2>2
<1>7. ServiceInv' /\ TimeInv'
  BY <1>1 DEF PairInv, ServiceInv, TimeInv, Waited, AllApart, LoneFates
<1> QED BY <1>2, <1>4, <1>5, <1>6, <1>7 DEF PairInv

\* What joining does to an entry.
LEMMA MergeFacts ==
  ASSUME NEW s \in HalfSpans, Side(s) \in {"client", "server"}, NEW e \in PendingRec
  PROVE  /\ Merge(e, s) \in PendingRec /\ Merge(e, s).key = e.key /\ Merge(e, s).exp = e.exp
         /\ Merge(e, s).halves = e.halves \cup {s}
         /\ Merge(e, s).client = IF Side(s) = "client" THEN {s} ELSE e.client
         /\ Merge(e, s).server = IF Side(s) = "server" THEN {s} ELSE e.server
<1>1. Connection(s) \in {"unknown", "messaging", "database"}
  BY DEF Connection, SpanSide
<1>2. SpanInfo[s].peer \in {Empty} \cup {SpanInfo[h].peer : h \in HalfSpans}
  OBVIOUS
<1> QED BY <1>1, <1>2 DEF Merge, PendingRec

LEMMA NewEntryFacts ==
  ASSUME NEW s \in HalfSpans, NEW x \in Int
  PROVE  /\ NewEntry(EdgeKey(s), x) \in PendingRec /\ NewEntry(EdgeKey(s), x).key = EdgeKey(s)
         /\ NewEntry(EdgeKey(s), x).exp = x /\ NewEntry(EdgeKey(s), x).halves = {}
         /\ NewEntry(EdgeKey(s), x).client = {} /\ NewEntry(EdgeKey(s), x).server = {}
BY DEF NewEntry, PendingRec, Keys

\* The list after an entry joined it, changed, or left it.
LEMMA RetiredFacts ==
  ASSUME pending \in Seq(PendingRec), NEW i \in 1..Len(pending)
  PROVE  /\ Retired(i) \in Seq(PendingRec) /\ Len(Retired(i)) = Len(pending) - 1
         /\ \A j \in 1..Len(pending) - 1 : Retired(i)[j] = pending[IF j < i THEN j ELSE j + 1]
         /\ \A k \in 1..Len(pending) : k # i => \E j \in 1..Len(pending) - 1 : Retired(i)[j] = pending[k]
<1> DEFINE n == Len(pending)
<1>1. n \in Nat /\ i \in 1..n /\ n - 1 \in Nat
  BY LenProperties
<1>2. \A j \in 1..n - 1 : pending[IF j < i THEN j ELSE j + 1] \in PendingRec
  <2>1. ASSUME NEW j \in 1..n - 1 PROVE (IF j < i THEN j ELSE j + 1) \in 1..n
    BY <1>1
  <2> QED BY <2>1, ElementOfSeq
<1> DEFINE r == Retired(i)
<1>3. r = [j \in 1..n - 1 |-> pending[IF j < i THEN j ELSE j + 1]]
  BY DEF Retired
<1>4. r \in Seq(PendingRec)
  <2>1. r \in [1..n - 1 -> PendingRec]
    BY <1>2, <1>3
  <2> HIDE DEF r, n
  <2> QED BY <2>1, <1>1, SeqDef
<1>5. Len(r) = n - 1
  <2>1. DOMAIN r = 1..n - 1 /\ DOMAIN r = 1..Len(r) /\ Len(r) \in Nat
    <3>1. DOMAIN r = 1..n - 1
      BY <1>3
    <3>2. DOMAIN r = 1..Len(r) /\ Len(r) \in Nat
      BY <1>4, LenProperties
    <3> QED BY <3>1, <3>2
  <2> HIDE DEF r, n
  <2> QED BY <2>1, <1>1
<1>6. \A j \in 1..n - 1 : r[j] = pending[IF j < i THEN j ELSE j + 1]
  BY <1>3
<1>7. ASSUME NEW k \in 1..n, k # i PROVE \E j \in 1..n - 1 : r[j] = pending[k]
  <2> DEFINE j == IF k < i THEN k ELSE k - 1
  <2>1. j \in 1..n - 1 /\ (IF j < i THEN j ELSE j + 1) = k
    BY <1>1, <1>7
  <2> QED BY <2>1, <1>6
<1> QED BY <1>4, <1>5, <1>6, <1>7

\* An entry that waits, whatever became of spans outside it.
LEMMA WaitsStill ==
  ASSUME NEW e, NEW en, NEW mt, NEW en2, NEW mt2, Waits(e, en, mt),
         \A h \in e.halves : en2[h] = en[h] /\ mt2[h] = mt[h]
  PROVE  Waits(e, en2, mt2)
BY DEF Waits

\* The spans of one entry are in no other.
LEMMA HalvesApart ==
  ASSUME ListInv, NEW i \in 1..Len(pending), NEW j \in 1..Len(pending), NEW h \in pending[i].halves,
         h \in pending[j].halves
  PROVE  i = j
<1>1. EdgeKey(h) = pending[i].key /\ EdgeKey(h) = pending[j].key
  BY DEF ListInv, AllWait, Waits
<1> QED BY <1>1 DEF ListInv, OneEach

\* A new edge of spans that were in none.
LEMMA EdgeAdded ==
  ASSUME EdgesInv, NEW x, EdgeOK(x, ends'), \A s \in InEdge(x) : ends[s] \notin {"completed", "virtual"},
         \A s \in HalfSpans : ends[s] \in {"completed", "virtual"} => ends'[s] \in {"completed", "virtual"},
         edges' = edges \cup {x},
         counts["completed"] \in Int, counts["virtual"] \in Int,
         counts'["completed"] + counts'["virtual"] = counts["completed"] + counts["virtual"] + 1
  PROVE  EdgesInv'
<1>1. ASSUME NEW y \in edges PROVE EdgeOK(y, ends') /\ InEdge(y) \cap InEdge(x) = {}
  <2>1. EdgeOK(y, ends)
    BY DEF EdgesInv
  <2> QED BY <2>1 DEF EdgeOK
<1>2. x \notin edges
  BY <1>1 DEF EdgeOK
<1>3. IsFiniteSet(edges \cup {x}) /\ Cardinality(edges \cup {x}) = Cardinality(edges) + 1
  BY <1>2, FS_AddElement DEF EdgesInv
<1>4. OneEdge(edges \cup {x})
  BY <1>1 DEF OneEdge, EdgesInv
<1>5. counts'["completed"] + counts'["virtual"] = Cardinality(edges')
  BY <1>3 DEF EdgesInv
<1> QED BY <1>1, <1>3, <1>4, <1>5 DEF EdgesInv

\* The edges when no span leaves one and none is added.
LEMMA EdgesSame ==
  ASSUME EdgesInv, UNCHANGED <<edges, counts>>,
         \A s \in HalfSpans : ends[s] \in {"completed", "virtual"} => ends'[s] \in {"completed", "virtual"}
  PROVE  EdgesInv'
<1>1. ASSUME NEW y \in edges PROVE EdgeOK(y, ends')
  <2>1. EdgeOK(y, ends)
    BY DEF EdgesInv
  <2> QED BY <2>1 DEF EdgeOK
<1> QED BY <1>1 DEF EdgesInv

\* A span that is merged now came a whole window after whoever was given up before.
LEMMA MergedApart ==
  ASSUME PairInv, NEW s \in HalfSpans, NEW o \in Int, met' = [met EXCEPT ![s] = [at |-> graphClock, opened |-> o]],
         ends[s] = "none", graphClock' = graphClock,
         \A h \in HalfSpans : ends'[h] \in LoneFates => ends[h] \in LoneFates,
         \A h \in HalfSpans : ends'[h] = "pending" => h = s \/ ends[h] = "pending"
  PROVE  TimeInv' /\ met' \in [HalfSpans -> [at : Int, opened : Int]]
<1>1. /\ met \in [HalfSpans -> [at : Int, opened : Int]] /\ graphClock \in Nat /\ PairWait \in Nat
  BY PairAssumption DEF PairInv, PairTypes
<1>2. /\ met'[s].at = graphClock /\ met'[s].opened = o /\ \A h \in HalfSpans : h # s => met'[h] = met[h]
      /\ met' \in [HalfSpans -> [at : Int, opened : Int]]
  BY <1>1
<1>3. \A h \in HalfSpans : ends'[h] \in LoneFates => h # s
  BY DEF LoneFates
<1>4. Waited(ends', met', graphClock')
  BY <1>2, <1>3 DEF PairInv, TimeInv, Waited
<1>5. AllApart(ends', met')
  <2> SUFFICES ASSUME NEW a \in HalfSpans, NEW b \in HalfSpans, ends'[a] \in LoneFates,
                      ends'[b] \in LoneFates \cup {"pending"}, Opposite(a, b)
               PROVE  Apart(a, b, met')
    BY DEF AllApart
  <2>1. a # s /\ met'[a] = met[a] /\ ends[a] \in LoneFates
    BY <1>2, <1>3
  <2>2. CASE b # s
    <3>1. ends[b] \in LoneFates \cup {"pending"} /\ met'[b] = met[b]
      BY <2>2, <1>2
    <3>2. Apart(a, b, met)
      BY <3>1, <2>1 DEF PairInv, TimeInv, AllApart
    <3> QED BY <3>1, <3>2, <2>1 DEF Apart
  <2>3. CASE b = s
    <3>1. met[a].opened \in Int /\ met[a].opened + PairWait <= graphClock
      BY <1>1, <2>1 DEF PairInv, TimeInv, Waited
    <3>2. met'[b].at - met'[a].opened >= PairWait
      BY <3>1, <1>1, <1>2, <2>1, <2>3
    <3> QED BY <3>2 DEF Apart
  <2> QED BY <2>2, <2>3
<1> QED BY <1>2, <1>4, <1>5 DEF TimeInv

\* The span opens an entry.
LEMMA OpenKeeps ==
  ASSUME PairInv, NEW s \in HalfSpans, ends[s] = "none", NEW now \in Nat, graphClock' = graphClock,
         SpanInfo[s].service # Empty, Side(s) \in {"client", "server"},
         \A i \in 1..Len(pending) : pending[i].key # EdgeKey(s), Len(pending) < MaxItems,
         pending' = Append(pending, Merge(NewEntry(EdgeKey(s), now + PairWait), s)),
         ends' = [ends EXCEPT ![s] = "pending"],
         met' = [met EXCEPT ![s] = [at |-> graphClock, opened |-> now]],
         UNCHANGED <<counts, edges>>,
         consumer' \in [Consumers -> ConsumerRec], ConsumersInv'
  PROVE  PairInv'
<1>1. ends \in [HalfSpans -> EndSet] /\ ends'[s] = "pending" /\ (\A h \in HalfSpans : h # s => ends'[h] = ends[h])
      /\ ends' \in [HalfSpans -> EndSet]
  BY DEF PairInv, PairTypes, EndSet
<1>2. TimeInv' /\ met' \in [HalfSpans -> [at : Int, opened : Int]]
  <2>1. now \in Int
    OBVIOUS
  <2>2. /\ \A h \in HalfSpans : ends'[h] \in LoneFates => ends[h] \in LoneFates
        /\ \A h \in HalfSpans : ends'[h] = "pending" => h = s \/ ends[h] = "pending"
    BY <1>1 DEF LoneFates
  <2> QED BY <2>1, <2>2, MergedApart
<1>3. pending \in Seq(PendingRec) /\ PairWait \in Nat /\ now + PairWait \in Int /\ MaxItems \in Nat /\ Len(pending) \in Nat
  BY PairAssumption DEF PairInv, PairTypes
<1> DEFINE e == Merge(NewEntry(EdgeKey(s), now + PairWait), s)
<1>4. /\ e \in PendingRec /\ e.key = EdgeKey(s) /\ e.exp = now + PairWait /\ e.halves = {s}
      /\ e.client = (IF Side(s) = "client" THEN {s} ELSE {}) /\ e.server = (IF Side(s) = "server" THEN {s} ELSE {})
  <2> DEFINE n == NewEntry(EdgeKey(s), now + PairWait)
  <2>1. /\ n \in PendingRec /\ n.key = EdgeKey(s) /\ n.exp = now + PairWait /\ n.halves = {}
        /\ n.client = {} /\ n.server = {}
    BY <1>3, NewEntryFacts
  <2> HIDE DEF n
  <2>2. /\ Merge(n, s) \in PendingRec /\ Merge(n, s).key = n.key /\ Merge(n, s).exp = n.exp
        /\ Merge(n, s).halves = n.halves \cup {s}
        /\ Merge(n, s).client = IF Side(s) = "client" THEN {s} ELSE n.client
        /\ Merge(n, s).server = IF Side(s) = "server" THEN {s} ELSE n.server
    BY <2>1, MergeFacts
  <2> QED BY <2>1, <2>2 DEF n
<1>5. pending' = Append(pending, e)
  OBVIOUS
<1> HIDE DEF e
<1>6. /\ pending' \in Seq(PendingRec) /\ Len(pending') = Len(pending) + 1
      /\ (\A i \in 1..Len(pending) : pending'[i] = pending[i]) /\ pending'[Len(pending) + 1] = e
  BY <1>3, <1>4, <1>5, AppendProperties
<1>7. met'[s].opened = now /\ \A h \in HalfSpans : h # s => met'[h] = met[h]
  BY DEF PairInv, PairTypes
<1>8. Waits(e, ends', met')
  <2>1. met'[s].opened = e.exp - PairWait
    BY <1>3, <1>4, <1>7
  <2> QED BY <2>1, <1>4, <1>1 DEF Waits
<1>9. ASSUME NEW i \in 1..Len(pending) PROVE Waits(pending[i], ends', met')
  <2>1. Waits(pending[i], ends, met) /\ pending[i] \in PendingRec
    BY <1>3, ElementOfSeq DEF PairInv, ListInv, AllWait
  <2>2. \A h \in pending[i].halves : h \in HalfSpans /\ h # s
    BY <2>1 DEF Waits, PendingRec
  <2>3. \A h \in pending[i].halves : ends'[h] = ends[h] /\ met'[h] = met[h]
    BY <2>2, <1>1, <1>7
  <2> QED BY ONLY <2>1, <2>3, WaitsStill
<1>10. ListInv'
  <2>1. \A i \in 1..Len(pending') : i \in 1..Len(pending) \/ i = Len(pending) + 1
    BY <1>3, <1>6
  <2>2. AllWait(pending', ends', met')
    BY <2>1, <1>6, <1>8, <1>9 DEF AllWait
  <2>3. OneEach(pending')
    <3>1. \A i \in 1..Len(pending) : pending'[i].key # e.key
      BY <1>4, <1>6
    <3>2. OneEach(pending)
      BY DEF PairInv, ListInv
    <3> QED BY <2>1, <1>6, <3>1, <3>2 DEF OneEach
  <2>4. HalvesListed(pending', ends')
    <3> SUFFICES ASSUME NEW h \in HalfSpans, ends'[h] = "pending" PROVE \E i \in 1..Len(pending') : h \in pending'[i].halves
      BY DEF HalvesListed
    <3>1. CASE h = s
      <4>1. Len(pending) + 1 \in 1..Len(pending')
        BY <1>3, <1>6
      <4> QED BY <4>1, <3>1, <1>4, <1>6
    <3>2. CASE h # s
      <4>1. PICK i \in 1..Len(pending) : h \in pending[i].halves
        BY <3>2, <1>1 DEF PairInv, ListInv, HalvesListed
      <4>2. i \in 1..Len(pending')
        BY <1>3, <1>6
      <4> QED BY <4>1, <4>2, <1>6
    <3> QED BY <3>1, <3>2
  <2>5. Len(pending') <= MaxItems
    BY <1>3, <1>6
  <2> QED BY <2>2, <2>3, <2>4, <2>5 DEF ListInv
<1>11. EdgesInv'
  BY <1>1, EdgesSame DEF PairInv
<1>12. DropInv' /\ ServiceInv'
  <2>1. SameDropped
    BY <1>1 DEF SameDropped
  <2> QED BY <2>1, <1>1, DroppedSame DEF PairInv, ServiceInv
<1>13. PairTypes'
  BY <1>1, <1>2, <1>6 DEF PairInv, PairTypes
<1> QED BY <1>2, <1>10, <1>11, <1>12, <1>13 DEF PairInv

\* The span joins an entry that still waits for its other side.
LEMMA JoinKeeps ==
  ASSUME PairInv, NEW s \in HalfSpans, ends[s] = "none", graphClock' = graphClock,
         SpanInfo[s].service # Empty, Side(s) \in {"client", "server"},
         NEW i \in 1..Len(pending), pending[i].key = EdgeKey(s),
         Merge(pending[i], s).client = {} \/ Merge(pending[i], s).server = {},
         pending' = [pending EXCEPT ![i] = Merge(pending[i], s)],
         ends' = [ends EXCEPT ![s] = "pending"],
         met' = [met EXCEPT ![s] = [at |-> graphClock, opened |-> pending[i].exp - PairWait]],
         UNCHANGED <<counts, edges>>,
         consumer' \in [Consumers -> ConsumerRec], ConsumersInv'
  PROVE  PairInv'
<1>1. ends \in [HalfSpans -> EndSet] /\ ends'[s] = "pending" /\ (\A h \in HalfSpans : h # s => ends'[h] = ends[h])
      /\ ends' \in [HalfSpans -> EndSet]
  BY DEF PairInv, PairTypes, EndSet
<1>2. pending \in Seq(PendingRec) /\ PairWait \in Nat /\ Len(pending) \in Nat /\ pending[i] \in PendingRec
  BY PairAssumption, ElementOfSeq DEF PairInv, PairTypes
<1>3. pending[i].exp - PairWait \in Int
  BY <1>2 DEF PendingRec
<1>4. TimeInv' /\ met' \in [HalfSpans -> [at : Int, opened : Int]]
  <2>1. /\ \A h \in HalfSpans : ends'[h] \in LoneFates => ends[h] \in LoneFates
        /\ \A h \in HalfSpans : ends'[h] = "pending" => h = s \/ ends[h] = "pending"
    BY <1>1 DEF LoneFates
  <2> QED BY <2>1, <1>3, MergedApart
<1> DEFINE e == Merge(pending[i], s)
<1>5. /\ e \in PendingRec /\ e.key = pending[i].key /\ e.exp = pending[i].exp /\ e.halves = pending[i].halves \cup {s}
      /\ e.client = (IF Side(s) = "client" THEN {s} ELSE pending[i].client)
      /\ e.server = (IF Side(s) = "server" THEN {s} ELSE pending[i].server)
  BY <1>2, MergeFacts
<1>6. pending' = [pending EXCEPT ![i] = e] /\ (e.client = {} \/ e.server = {})
  OBVIOUS
<1> HIDE DEF e
<1>7. /\ pending' \in Seq(PendingRec) /\ Len(pending') = Len(pending)
      /\ \A j \in 1..Len(pending) : pending'[j] = IF j = i THEN e ELSE pending[j]
  BY <1>2, <1>5, <1>6, ExceptSeq
<1>8. met'[s].opened = pending[i].exp - PairWait /\ \A h \in HalfSpans : h # s => met'[h] = met[h]
  BY DEF PairInv, PairTypes
<1>9. ASSUME NEW j \in 1..Len(pending)
      PROVE  /\ Waits(pending[j], ends, met) /\ pending[j] \in PendingRec
             /\ \A h \in pending[j].halves : h \in HalfSpans /\ h # s /\ ends'[h] = ends[h] /\ met'[h] = met[h]
  <2>1. Waits(pending[j], ends, met) /\ pending[j] \in PendingRec
    BY <1>2, ElementOfSeq DEF PairInv, ListInv, AllWait
  <2>2. \A h \in pending[j].halves : h \in HalfSpans /\ h # s
    BY <2>1 DEF Waits, PendingRec
  <2> QED BY <2>1, <2>2, <1>1, <1>8
<1>10. Waits(e, ends', met')
  <2>1. Waits(pending[i], ends', met')
    <3>1. Waits(pending[i], ends, met) /\ \A h \in pending[i].halves : ends'[h] = ends[h] /\ met'[h] = met[h]
      BY <1>9
    <3> QED BY ONLY <3>1, WaitsStill
  <2>2. met'[s].opened = e.exp - PairWait
    BY <1>5, <1>8
  <2> QED BY <2>1, <2>2, <1>1, <1>5, <1>6 DEF Waits
<1>11. ListInv'
  <2>1. AllWait(pending', ends', met')
    <3> SUFFICES ASSUME NEW j \in 1..Len(pending) PROVE Waits(pending'[j], ends', met')
      BY <1>7 DEF AllWait
    <3>1. CASE j = i
      BY <3>1, <1>7, <1>10
    <3>2. CASE j # i
      <4>1. Waits(pending[j], ends, met) /\ \A h \in pending[j].halves : ends'[h] = ends[h] /\ met'[h] = met[h]
        BY <1>9
      <4>2. Waits(pending[j], ends', met')
        BY ONLY <4>1, WaitsStill
      <4> QED BY <4>2, <3>2, <1>7
    <3> QED BY <3>1, <3>2
  <2>2. OneEach(pending')
    <3>1. \A j \in 1..Len(pending) : pending'[j].key = pending[j].key
      BY <1>5, <1>7
    <3>2. OneEach(pending)
      BY DEF PairInv, ListInv
    <3> QED BY <3>1, <3>2, <1>7 DEF OneEach
  <2>3. HalvesListed(pending', ends')
    <3> SUFFICES ASSUME NEW h \in HalfSpans, ends'[h] = "pending" PROVE \E j \in 1..Len(pending') : h \in pending'[j].halves
      BY DEF HalvesListed
    <3>1. CASE h = s
      BY <3>1, <1>5, <1>7
    <3>2. CASE h # s
      <4>1. PICK j \in 1..Len(pending) : h \in pending[j].halves
        BY <3>2, <1>1 DEF PairInv, ListInv, HalvesListed
      <4> QED BY <4>1, <1>5, <1>7
    <3> QED BY <3>1, <3>2
  <2>4. Len(pending') <= MaxItems
    BY <1>7 DEF PairInv, ListInv
  <2> QED BY <2>1, <2>2, <2>3, <2>4 DEF ListInv
<1>12. EdgesInv'
  BY <1>1, EdgesSame DEF PairInv
<1>13. DropInv' /\ ServiceInv'
  <2>1. SameDropped
    BY <1>1 DEF SameDropped
  <2> QED BY <2>1, <1>1, DroppedSame DEF PairInv, ServiceInv
<1>14. PairTypes'
  BY <1>1, <1>4, <1>7 DEF PairInv, PairTypes
<1> QED BY <1>4, <1>11, <1>12, <1>13, <1>14 DEF PairInv

\* The span completes an edge, whose entry leaves the list.
LEMMA CompleteKeeps ==
  ASSUME PairInv, NEW s \in HalfSpans, ends[s] = "none", graphClock' = graphClock,
         SpanInfo[s].service # Empty, Side(s) \in {"client", "server"},
         NEW i \in 1..Len(pending), pending[i].key = EdgeKey(s),
         Merge(pending[i], s).client # {}, Merge(pending[i], s).server # {},
         pending' = Retired(i),
         ends' = [h \in HalfSpans |-> IF h \in Merge(pending[i], s).halves THEN "completed" ELSE ends[h]],
         met' = [met EXCEPT ![s] = [at |-> graphClock, opened |-> pending[i].exp - PairWait]],
         counts' = [counts EXCEPT !["completed"] = @ + 1],
         edges' = edges \cup {EdgeOf(Merge(pending[i], s))},
         consumer' \in [Consumers -> ConsumerRec], ConsumersInv'
  PROVE  PairInv'
<1>2. /\ pending \in Seq(PendingRec) /\ PairWait \in Nat /\ Len(pending) \in Nat /\ pending[i] \in PendingRec
      /\ ends \in [HalfSpans -> EndSet]
  BY PairAssumption, ElementOfSeq DEF PairInv, PairTypes
<1>3. pending[i].exp - PairWait \in Int
  BY <1>2 DEF PendingRec
<1> DEFINE e == Merge(pending[i], s)
<1>4. /\ e \in PendingRec /\ e.key = pending[i].key /\ e.halves = pending[i].halves \cup {s}
      /\ e.client = (IF Side(s) = "client" THEN {s} ELSE pending[i].client)
      /\ e.server = (IF Side(s) = "server" THEN {s} ELSE pending[i].server)
  BY <1>2, MergeFacts
<1>5. /\ ends' = [h \in HalfSpans |-> IF h \in e.halves THEN "completed" ELSE ends[h]]
      /\ edges' = edges \cup {EdgeOf(e)} /\ e.client # {} /\ e.server # {}
  OBVIOUS
<1> HIDE DEF e
<1>6. /\ ends' \in [HalfSpans -> EndSet]
      /\ \A h \in HalfSpans : ends'[h] = IF h = s \/ h \in pending[i].halves THEN "completed" ELSE ends[h]
  BY <1>2, <1>4, <1>5 DEF EndSet, Fates
<1>7. Waits(pending[i], ends, met) /\ pending[i].halves \subseteq HalfSpans
  BY <1>2 DEF PairInv, ListInv, AllWait, PendingRec
<1>8. \A h \in HalfSpans : ends'[h] # ends[h] => ends'[h] = "completed" /\ ends[h] \in {"none", "pending"}
  BY <1>6, <1>7 DEF Waits
<1>9. TimeInv' /\ met' \in [HalfSpans -> [at : Int, opened : Int]]
  <2>1. /\ \A h \in HalfSpans : ends'[h] \in LoneFates => ends[h] \in LoneFates
        /\ \A h \in HalfSpans : ends'[h] = "pending" => h = s \/ ends[h] = "pending"
    BY <1>8 DEF LoneFates
  <2> QED BY <2>1, <1>3, MergedApart
<1>10. \A h \in HalfSpans : h # s => met'[h] = met[h]
  BY DEF PairInv, PairTypes
<1>11. /\ pending' \in Seq(PendingRec) /\ Len(pending') = Len(pending) - 1
       /\ \A j \in 1..Len(pending) - 1 : pending'[j] = pending[IF j < i THEN j ELSE j + 1]
       /\ \A k \in 1..Len(pending) : k # i => \E j \in 1..Len(pending) - 1 : pending'[j] = pending[k]
  BY <1>2, RetiredFacts
<1>12. ListInv'
  <2>1. ASSUME NEW j \in 1..Len(pending) - 1
        PROVE  LET k == IF j < i THEN j ELSE j + 1 IN k \in 1..Len(pending) /\ k # i /\ pending'[j] = pending[k]
    <3> PICK n \in Nat : n = Len(pending)
      BY <1>2
    <3>1. i \in 1..n /\ j \in 1..n - 1
      OBVIOUS
    <3>2. (IF j < i THEN j ELSE j + 1) \in 1..n /\ (IF j < i THEN j ELSE j + 1) # i
      BY ONLY <3>1, n \in Nat
    <3> QED BY <3>2, <1>11
  <2>2. ASSUME NEW k \in 1..Len(pending), k # i PROVE Waits(pending[k], ends', met')
    <3>1. Waits(pending[k], ends, met) /\ pending[k].halves \subseteq HalfSpans
      <4>1. pending[k] \in PendingRec
        BY <1>2, ElementOfSeq
      <4>2. pending[k].halves \subseteq HalfSpans
        BY <4>1 DEF PendingRec
      <4> QED BY <4>2 DEF PairInv, ListInv, AllWait
    <3>2. \A h \in pending[k].halves : h # s /\ h \notin pending[i].halves
      BY <3>1, <2>2, HalvesApart DEF Waits, PairInv
    <3>3. \A h \in pending[k].halves : ends'[h] = ends[h] /\ met'[h] = met[h]
      BY <3>1, <3>2, <1>6, <1>10
    <3> QED BY ONLY <3>1, <3>3, WaitsStill
  <2>3. AllWait(pending', ends', met')
    BY <2>1, <2>2, <1>11 DEF AllWait
  <2>4. OneEach(pending')
    <3> SUFFICES ASSUME NEW a \in 1..Len(pending) - 1, NEW b \in 1..Len(pending) - 1, pending'[a].key = pending'[b].key
                 PROVE  a = b
      BY <1>11 DEF OneEach
    <3> DEFINE x == IF a < i THEN a ELSE a + 1
               y == IF b < i THEN b ELSE b + 1
    <3>1. x \in 1..Len(pending) /\ y \in 1..Len(pending) /\ pending[x].key = pending[y].key
      BY <2>1
    <3>2. x = y
      BY <3>1 DEF PairInv, ListInv, OneEach
    <3> QED BY <3>2
  <2>5. HalvesListed(pending', ends')
    <3> SUFFICES ASSUME NEW h \in HalfSpans, ends'[h] = "pending" PROVE \E j \in 1..Len(pending') : h \in pending'[j].halves
      BY DEF HalvesListed
    <3>1. ends[h] = "pending" /\ h \notin pending[i].halves
      BY <1>6
    <3>2. PICK k \in 1..Len(pending) : h \in pending[k].halves
      BY <3>1 DEF PairInv, ListInv, HalvesListed
    <3> QED BY <3>1, <3>2, <1>11
  <2>6. Len(pending') <= MaxItems
    BY <1>2, <1>11, PairAssumption DEF PairInv, ListInv
  <2> QED BY <2>3, <2>4, <2>5, <2>6 DEF ListInv
<1>13. counts \in [Fates -> Int] /\ counts'["completed"] = counts["completed"] + 1 /\ counts'["virtual"] = counts["virtual"]
       /\ counts'["dropped"] = counts["dropped"] /\ counts' \in [Fates -> Int]
  BY DEF PairInv, PairTypes, Fates
<1>14. EdgesInv'
  <2> DEFINE x == EdgeOf(e)
  <2>1. InEdge(x) = e.client \cup e.server /\ x.key = e.key /\ x.client = e.client /\ x.server = e.server /\ x.virtual = "none"
    BY DEF EdgeOf, InEdge
  <2> HIDE DEF x
  <2>2. InEdge(x) \subseteq pending[i].halves \cup {s}
    BY <2>1, <1>4, <1>7 DEF Waits
  <2>3. \A h \in InEdge(x) : h \in HalfSpans /\ ends'[h] = "completed" /\ ends[h] \in {"none", "pending"} /\ EdgeKey(h) = x.key
    BY <2>1, <2>2, <1>4, <1>6, <1>7 DEF Waits
  <2>4. EdgeOK(x, ends')
    BY <2>1, <2>3, <1>5 DEF EdgeOK
  <2>5. \A h \in HalfSpans : ends[h] \in {"completed", "virtual"} => ends'[h] \in {"completed", "virtual"}
    BY <1>8
  <2>6. \A h \in InEdge(x) : ends[h] \notin {"completed", "virtual"}
    BY <2>3
  <2>7. counts["completed"] \in Int /\ counts["virtual"] \in Int
        /\ counts'["completed"] + counts'["virtual"] = counts["completed"] + counts["virtual"] + 1
    BY <1>13 DEF Fates
  <2>8. edges' = edges \cup {x} /\ EdgesInv
    BY <1>5 DEF x, PairInv
  <2> QED BY <2>4, <2>5, <2>6, <2>7, <2>8, EdgeAdded
<1>15. DropInv' /\ ServiceInv'
  <2>1. SameDropped
    BY <1>8 DEF SameDropped
  <2>2. ServiceInv'
    BY <1>8 DEF PairInv, ServiceInv
  <2> QED BY <2>1, <2>2, <1>13, DroppedSame DEF PairInv
<1>16. PairTypes'
  BY <1>6, <1>9, <1>11, <1>13 DEF PairInv, PairTypes
<1> QED BY <1>9, <1>12, <1>14, <1>15, <1>16 DEF PairInv

LEMMA SpanKeeps ==
  ASSUME PairInv, NEW p \in GraphPushes, ObserveSpan(p)
  PROVE  PairInv'
<1> DEFINE s == GraphSpans[p][consumer[p].i]
<1>1. s \in HalfSpans /\ ends[s] = "none"
  BY ObservedIsFresh
<1>2. consumer[p].now \in Nat /\ graphClock' = graphClock /\ ends \in [HalfSpans -> EndSet] /\ counts \in [Fates -> Int]
      /\ pending \in Seq(PendingRec)
  BY DEF ObserveSpan, PairInv, PairTypes, ConsumerRec, Consumers
<1>3. (\A h \in HalfSpans : ends[h] = "none" /\ h # s => ends'[h] = "none")
      => consumer' \in [Consumers -> ConsumerRec] /\ ConsumersInv'
  BY ObserveConsumers
<1>4. Side(s) \in {"client", "server", "none"}
  BY DEF Side, SpanSide
<1>5. CASE /\ ends' = [ends EXCEPT ![s] = "ignored"]
           /\ UNCHANGED <<pending, counts, edges, met>>
  <2>1. consumer' \in [Consumers -> ConsumerRec] /\ ConsumersInv'
    BY <1>1, <1>2, <1>3, <1>5
  <2>2. counts' \in [Fates -> Int] /\ counts'["completed"] = counts["completed"] /\ counts'["virtual"] = counts["virtual"]
        /\ counts'["dropped"] = counts["dropped"] + (IF "ignored" = "dropped" THEN 1 ELSE 0)
    BY <1>2, <1>5 DEF Fates
  <2> HIDE DEF s
  <2> QED BY <2>1, <2>2, <1>1, <1>2, <1>5, PassKeeps
<1>6. CASE /\ counts' = [counts EXCEPT !["unkeyable"] = @ + 1]
           /\ ends' = [ends EXCEPT ![s] = "unkeyable"]
           /\ UNCHANGED <<pending, edges, met>>
  <2>1. consumer' \in [Consumers -> ConsumerRec] /\ ConsumersInv'
    BY <1>1, <1>2, <1>3, <1>6
  <2>2. counts' \in [Fates -> Int] /\ counts'["completed"] = counts["completed"] /\ counts'["virtual"] = counts["virtual"]
        /\ counts'["dropped"] = counts["dropped"] + (IF "unkeyable" = "dropped" THEN 1 ELSE 0)
    BY <1>2, <1>6 DEF Fates
  <2> HIDE DEF s
  <2> QED BY <2>1, <2>2, <1>1, <1>2, <1>6, PassKeeps
<1>7. CASE SpanInfo[s].service # Empty /\ Side(s) # "none" /\ Insert(s, consumer[p].now)
  <2>1. Side(s) \in {"client", "server"}
    BY <1>4, <1>7
  <2>2. CASE /\ counts' = [counts EXCEPT !["dropped"] = @ + 1]
             /\ ends' = [ends EXCEPT ![s] = "dropped"]
             /\ UNCHANGED <<pending, edges, met>>
    <3>1. consumer' \in [Consumers -> ConsumerRec] /\ ConsumersInv'
      BY <1>1, <1>2, <1>3, <2>2
    <3>2. counts' \in [Fates -> Int] /\ counts'["completed"] = counts["completed"] /\ counts'["virtual"] = counts["virtual"]
          /\ counts'["dropped"] = counts["dropped"] + (IF "dropped" = "dropped" THEN 1 ELSE 0)
      BY <1>2, <2>2 DEF Fates
    <3> HIDE DEF s
    <3> QED BY <3>1, <3>2, <1>1, <1>2, <2>2, PassKeeps
  <2>3. CASE /\ {i \in DOMAIN pending : pending[i].key = EdgeKey(s)} = {} /\ Len(pending) < MaxItems
             /\ pending' = Append(pending, Merge(NewEntry(EdgeKey(s), consumer[p].now + PairWait), s))
             /\ ends' = [ends EXCEPT ![s] = "pending"]
             /\ met' = [met EXCEPT ![s] = [at |-> graphClock, opened |-> consumer[p].now]]
             /\ UNCHANGED <<counts, edges>>
    <3>1. consumer' \in [Consumers -> ConsumerRec] /\ ConsumersInv'
      BY <1>1, <1>2, <1>3, <2>3
    <3>2. \A i \in 1..Len(pending) : pending[i].key # EdgeKey(s)
      BY <2>3, <1>2
    <3> HIDE DEF s
    <3> QED BY <3>1, <3>2, <1>1, <1>2, <1>7, <2>1, <2>3, OpenKeeps
  <2>4. ASSUME NEW i \in DOMAIN pending, pending[i].key = EdgeKey(s),
               met' = [met EXCEPT ![s] = [at |-> graphClock, opened |-> pending[i].exp - PairWait]],
               ~(Merge(pending[i], s).client # {} /\ Merge(pending[i], s).server # {}),
               pending' = [pending EXCEPT ![i] = Merge(pending[i], s)],
               ends' = [ends EXCEPT ![s] = "pending"], UNCHANGED <<counts, edges>>
        PROVE  PairInv'
    <3>1. consumer' \in [Consumers -> ConsumerRec] /\ ConsumersInv'
      BY <1>1, <1>2, <1>3, <2>4
    <3>2. i \in 1..Len(pending)
      BY <1>2
    <3> HIDE DEF s
    <3> QED BY <3>1, <3>2, <1>1, <1>2, <1>7, <2>1, <2>4, JoinKeeps
  <2>5. ASSUME NEW i \in DOMAIN pending, pending[i].key = EdgeKey(s),
               met' = [met EXCEPT ![s] = [at |-> graphClock, opened |-> pending[i].exp - PairWait]],
               Merge(pending[i], s).client # {}, Merge(pending[i], s).server # {},
               pending' = Retired(i), edges' = edges \cup {EdgeOf(Merge(pending[i], s))},
               counts' = [counts EXCEPT !["completed"] = @ + 1],
               ends' = [h \in HalfSpans |-> IF h \in Merge(pending[i], s).halves THEN "completed" ELSE ends[h]]
        PROVE  PairInv'
    <3>1. i \in 1..Len(pending) /\ pending[i] \in PendingRec
      BY <1>2, ElementOfSeq
    <3>2. consumer' \in [Consumers -> ConsumerRec] /\ ConsumersInv'
      <4>1. Merge(pending[i], s).halves = pending[i].halves \cup {s}
        BY <3>1, <2>1, <1>1, MergeFacts
      <4>2. \A h \in pending[i].halves : ends[h] = "pending"
        BY <3>1 DEF PairInv, ListInv, AllWait, Waits
      <4> QED BY <4>1, <4>2, <1>1, <1>2, <1>3, <2>5
    <3> HIDE DEF s
    <3> QED BY <3>1, <3>2, <1>1, <1>2, <1>7, <2>1, <2>5, CompleteKeeps
  <2> QED BY <1>7, <2>2, <2>3, <2>4, <2>5 DEF Insert
<1> QED BY <1>5, <1>6, <1>7 DEF ObserveSpan

\* One hold takes entries at the head, each past its window.
LEMMA OverdueFacts ==
  ASSUME pending \in Seq(PendingRec), NEW now \in Nat, NEW n \in Nat
  PROVE  /\ Overdue(now, n) \in 0..Len(pending)
         /\ \A i \in 1..Overdue(now, n) : pending[i].exp <= now
<1>1. Len(pending) \in Nat
  OBVIOUS
<1> PICK m : m = Least(n, Len(pending))
  OBVIOUS
<1>2. m \in Nat /\ m <= Len(pending)
  BY <1>1 DEF Least
<1> DEFINE Q(k) == (\A i \in 1..k : PastWindow(pending[i], now)) /\ (k < m => ~PastWindow(pending[k + 1], now))
           late == {j \in 1..m : ~PastWindow(pending[j], now)}
<1>3. \E k \in 0..m : Q(k)
  <2>1. CASE late = {}
    <3>1. m \in 0..m /\ Q(m)
      BY <2>1, <1>2
    <3> QED BY <3>1
  <2>2. CASE late # {}
    <3>1. late \in SUBSET Nat
      BY <1>2
    <3> HIDE DEF late
    <3>2. PICK t \in late : \A u \in late : t <= u
      BY <3>1, <2>2, LeastOf
    <3>3. t \in 1..m /\ ~PastWindow(pending[t], now)
      BY <3>2 DEF late
    <3>4. t - 1 \in 0..m /\ (t - 1) + 1 = t
      BY <3>3, <1>2
    <3>5. \A i \in 1..t - 1 : PastWindow(pending[i], now)
      <4> SUFFICES ASSUME NEW i \in 1..t - 1, i \in late PROVE FALSE
        BY <3>3, <1>2 DEF late
      <4>1. t <= i
        BY <3>2
      <4> QED BY <4>1, <3>3
    <3>6. Q(t - 1)
      BY <3>3, <3>4, <3>5
    <3> QED BY <3>4, <3>6
  <2> QED BY <2>1, <2>2
<1>4. Overdue(now, n) = CHOOSE k \in 0..m : Q(k)
  BY DEF Overdue
<1> PICK k : k = Overdue(now, n)
  OBVIOUS
<1>5. k \in 0..m /\ Q(k)
  BY <1>3, <1>4
<1>6. k \in 0..Len(pending) /\ \A i \in 1..k : pending[i].exp <= now
  BY <1>1, <1>2, <1>5 DEF PastWindow
<1> QED BY <1>6

LEMMA PromoteFacts ==
  ASSUME NEW e \in PendingRec
  PROVE  /\ Promote(e).key = e.key /\ Promote(e).client = e.client /\ Promote(e).server = e.server
         /\ Promote(e).virtual \in {"server", "client"} /\ InEdge(Promote(e)) = e.client \cup e.server
<1>1. /\ Promote(e).key = e.key /\ Promote(e).client = e.client /\ Promote(e).server = e.server
      /\ Promote(e).virtual \in {"server", "client"}
  BY DEF Promote, EdgeOf
<1> QED BY <1>1 DEF InEdge

\* The first k entries, each past its window, leave the list.
TakenHold(k) ==
  /\ pending' = SubSeq(pending, k + 1, Len(pending))
  /\ counts' = [counts EXCEPT !["virtual"] = @ + Cardinality({i \in 1..k : Outcome(pending[i]) = "virtual"}),
                              !["unpaired"] = @ + Cardinality({i \in 1..k : Outcome(pending[i]) = "unpaired"})]
  /\ edges' = edges \cup {Promote(pending[i]) : i \in {j \in 1..k : Outcome(pending[j]) = "virtual"}}
  /\ ends' = [s \in HalfSpans |-> IF {i \in 1..k : s \in pending[i].halves} = {} THEN ends[s]
                                 ELSE Outcome(pending[CHOOSE i \in {i \in 1..k : s \in pending[i].halves} : TRUE])]
  /\ UNCHANGED <<graphClock, met>>

\* What becomes of the spans.
LEMMA TakenSpans ==
  ASSUME PairInv, NEW k \in 0..Len(pending), TakenHold(k)
  PROVE  /\ \A i \in 1..k : \A h \in pending[i].halves : h \in HalfSpans /\ ends'[h] = Outcome(pending[i])
         /\ \A h \in HalfSpans : (\A i \in 1..k : h \notin pending[i].halves) => ends'[h] = ends[h]
         /\ \A h \in HalfSpans : ends'[h] # ends[h] =>
              /\ ends[h] = "pending" /\ ends'[h] \in LoneFates
              /\ \E i \in 1..k : h \in pending[i].halves /\ ends'[h] = Outcome(pending[i])
         /\ ends' \in [HalfSpans -> EndSet]
<1>1. pending \in Seq(PendingRec) /\ Len(pending) \in Nat /\ k \in Nat /\ k <= Len(pending) /\ ends \in [HalfSpans -> EndSet]
  BY DEF PairInv, PairTypes
<1>2. \A i \in 1..k : i \in 1..Len(pending)
  BY <1>1
<1>3. ASSUME NEW i \in 1..k, NEW h \in pending[i].halves
      PROVE  h \in HalfSpans /\ ends[h] = "pending" /\ ends'[h] = Outcome(pending[i])
  <2>1. i \in 1..Len(pending) /\ pending[i] \in PendingRec
    BY <1>1, <1>2, ElementOfSeq
  <2>2. h \in HalfSpans /\ ends[h] = "pending"
    <3>1. Waits(pending[i], ends, met)
      BY <2>1 DEF PairInv, ListInv, AllWait
    <3> QED BY <2>1, <3>1 DEF Waits, PendingRec
  <2> DEFINE t == {j \in 1..k : h \in pending[j].halves}
  <2>3. t = {i}
    BY <1>2, <2>1, HalvesApart DEF PairInv
  <2>4. (CHOOSE j \in t : TRUE) = i
    BY <2>3
  <2>5. ends'[h] = IF t = {} THEN ends[h] ELSE Outcome(pending[CHOOSE j \in t : TRUE])
    BY <2>2 DEF TakenHold
  <2> HIDE DEF t
  <2> QED BY <2>2, <2>3, <2>4, <2>5
<1>4. ASSUME NEW h \in HalfSpans, \A i \in 1..k : h \notin pending[i].halves PROVE ends'[h] = ends[h]
  <2>1. {j \in 1..k : h \in pending[j].halves} = {}
    BY <1>4
  <2> QED BY <2>1 DEF TakenHold
<1>5. ASSUME NEW h \in HalfSpans, ends'[h] # ends[h]
      PROVE  /\ ends[h] = "pending" /\ ends'[h] \in LoneFates
             /\ \E i \in 1..k : h \in pending[i].halves /\ ends'[h] = Outcome(pending[i])
  <2>1. PICK i \in 1..k : h \in pending[i].halves
    BY <1>4, <1>5
  <2> QED BY <2>1, <1>3 DEF Outcome, LoneFates
<1>6. ends' \in [HalfSpans -> EndSet]
  <2>1. \A h \in HalfSpans : ends'[h] \in EndSet
    BY <1>1, <1>5 DEF LoneFates, EndSet, Fates
  <2>2. ends' = [h \in HalfSpans |-> ends'[h]]
    BY DEF TakenHold
  <2> QED BY <2>1, <2>2
<1> QED BY <1>3, <1>4, <1>5, <1>6

LEMMA TakenList ==
  ASSUME PairInv, NEW k \in 0..Len(pending), TakenHold(k)
  PROVE  ListInv' /\ pending' \in Seq(PendingRec)
<1>1. /\ pending \in Seq(PendingRec) /\ Len(pending) \in Nat /\ k \in Nat /\ k <= Len(pending) /\ MaxItems \in Nat
      /\ Len(pending) <= MaxItems /\ met' = met
  BY PairAssumption DEF PairInv, PairTypes, ListInv, TakenHold
<1>2. /\ pending' \in Seq(PendingRec) /\ Len(pending') = Len(pending) - k
      /\ \A j \in 1..Len(pending) - k : pending'[j] = pending[k + j]
  <2> PICK n \in Nat : n = Len(pending)
    BY <1>1
  <2>1. \A i \in k + 1..n : pending[i] \in PendingRec
    <3>1. \A i \in k + 1..n : i \in 1..n
      BY <1>1
    <3> QED BY <3>1, <1>1, ElementOfSeq
  <2>2. k + 1 \in Int /\ n \in Int
    BY <1>1
  <2>3. /\ SubSeq(pending, k + 1, n) \in Seq(PendingRec)
        /\ Len(SubSeq(pending, k + 1, n)) = IF k + 1 <= n THEN n - (k + 1) + 1 ELSE 0
        /\ \A i \in 1..n - (k + 1) + 1 : SubSeq(pending, k + 1, n)[i] = pending[(k + 1) + i - 1]
    BY <2>1, <2>2, SubSeqProperties
  <2>4. (IF k + 1 <= n THEN n - (k + 1) + 1 ELSE 0) = n - k /\ n - (k + 1) + 1 = n - k
        /\ \A i \in 1..n - k : (k + 1) + i - 1 = k + i
    <3>1. k \in Nat /\ k <= n
      BY <1>1
    <3> QED BY ONLY <3>1, n \in Nat
  <2>5. pending' = SubSeq(pending, k + 1, n)
    BY DEF TakenHold
  <2> QED BY <2>3, <2>4, <2>5
<1>3. ASSUME NEW j \in 1..Len(pending) - k PROVE k + j \in 1..Len(pending) /\ pending'[j] = pending[k + j] /\ k + j \notin 1..k
  <2> PICK n \in Nat : n = Len(pending)
    BY <1>1
  <2>1. k + j \in 1..n /\ k + j \notin 1..k
    BY ONLY n \in Nat, k \in Nat, k <= n, j \in 1..n - k, <1>1
  <2> QED BY <2>1, <1>2
<1>4. AllWait(pending', ends', met')
  <2> SUFFICES ASSUME NEW j \in 1..Len(pending) - k PROVE Waits(pending[k + j], ends', met')
    BY <1>2, <1>3 DEF AllWait
  <2>1. Waits(pending[k + j], ends, met)
    BY <1>3 DEF PairInv, ListInv, AllWait
  <2>2. pending[k + j].halves \subseteq HalfSpans
    <3>1. pending[k + j] \in PendingRec
      BY <1>1, <1>3, ElementOfSeq
    <3> QED BY <3>1 DEF PendingRec
  <2>3. \A h \in pending[k + j].halves : ends'[h] = ends[h] /\ met'[h] = met[h]
    <3> SUFFICES ASSUME NEW h \in pending[k + j].halves PROVE ends'[h] = ends[h]
      BY <1>1
    <3>1. ASSUME NEW i \in 1..k, h \in pending[i].halves PROVE FALSE
      <4>1. i \in 1..Len(pending)
        BY <1>1
      <4>2. i = k + j
        BY <4>1, <1>3, <3>1, HalvesApart DEF PairInv
      <4> QED BY <4>2, <1>3
    <3> QED BY <3>1, <2>2, TakenSpans
  <2> QED BY ONLY <2>1, <2>3, WaitsStill
<1>5. OneEach(pending')
  <2> SUFFICES ASSUME NEW a \in 1..Len(pending) - k, NEW b \in 1..Len(pending) - k, pending[k + a].key = pending[k + b].key
               PROVE  a = b
    BY <1>2, <1>3 DEF OneEach
  <2>1. k + a = k + b
    BY <1>3 DEF PairInv, ListInv, OneEach
  <2> QED BY <2>1, <1>1
<1>6. HalvesListed(pending', ends')
  <2> SUFFICES ASSUME NEW h \in HalfSpans, ends'[h] = "pending" PROVE \E j \in 1..Len(pending') : h \in pending'[j].halves
    BY DEF HalvesListed
  <2>1. ends[h] = "pending" /\ \A i \in 1..k : h \notin pending[i].halves
    BY TakenSpans DEF LoneFates, Outcome
  <2>2. PICK i \in 1..Len(pending) : h \in pending[i].halves
    BY <2>1 DEF PairInv, ListInv, HalvesListed
  <2>3. i - k \in 1..Len(pending) - k /\ k + (i - k) = i
    <3> PICK n \in Nat : n = Len(pending)
      BY <1>1
    <3>1. i \notin 1..k /\ i \in 1..n
      BY <2>1, <2>2
    <3> QED BY ONLY <3>1, <1>1, n \in Nat, n = Len(pending)
  <2> QED BY <2>2, <2>3, <1>2
<1>7. Len(pending') <= MaxItems
  BY <1>1, <1>2
<1> QED BY <1>2, <1>4, <1>5, <1>6, <1>7 DEF ListInv

\* The virtual nodes' edges, one for each entry that makes one.
LEMMA TakenEdges ==
  ASSUME PairInv, NEW k \in 0..Len(pending), TakenHold(k)
  PROVE  EdgesInv' /\ counts' \in [Fates -> Int] /\ counts'["dropped"] = counts["dropped"]
<1>1. /\ pending \in Seq(PendingRec) /\ Len(pending) \in Nat /\ k \in Nat /\ k <= Len(pending)
      /\ ends \in [HalfSpans -> EndSet] /\ counts \in [Fates -> Int]
  BY DEF PairInv, PairTypes
<1> DEFINE V == {i \in 1..k : Outcome(pending[i]) = "virtual"}
           U == {i \in 1..k : Outcome(pending[i]) = "unpaired"}
           N == {Promote(pending[i]) : i \in V}
           f == [i \in V |-> Promote(pending[i])]
<1>2. IsFiniteSet(V) /\ IsFiniteSet(U) /\ Cardinality(V) \in Nat /\ Cardinality(U) \in Nat
  <2>1. IsFiniteSet(1..k)
    BY <1>1, FS_Interval
  <2>2. V \subseteq 1..k /\ U \subseteq 1..k
    OBVIOUS
  <2> QED BY <2>1, <2>2, FS_Subset, FS_CardinalityType
<1>3. /\ counts' \in [Fates -> Int] /\ counts'["completed"] = counts["completed"] /\ counts'["dropped"] = counts["dropped"]
      /\ counts'["virtual"] = counts["virtual"] + Cardinality(V)
  <2>1. counts' = [counts EXCEPT !["virtual"] = @ + Cardinality(V), !["unpaired"] = @ + Cardinality(U)]
    BY DEF TakenHold
  <2> HIDE DEF V, U
  <2> QED BY <2>1, <1>1, <1>2 DEF Fates
<1>4. ASSUME NEW i \in V
      PROVE  /\ i \in 1..Len(pending) /\ pending[i] \in PendingRec /\ Waits(pending[i], ends, met)
             /\ Promote(pending[i]).key = pending[i].key
             /\ InEdge(Promote(pending[i])) \subseteq pending[i].halves
             /\ \A h \in pending[i].halves : h \in HalfSpans /\ ends[h] = "pending" /\ ends'[h] = "virtual"
             /\ EdgeOK(Promote(pending[i]), ends')
  <2>1. i \in 1..k /\ i \in 1..Len(pending) /\ pending[i] \in PendingRec
    BY <1>1, ElementOfSeq
  <2>2. Waits(pending[i], ends, met)
    BY <2>1 DEF PairInv, ListInv, AllWait
  <2>3. \A h \in pending[i].halves : h \in HalfSpans /\ ends[h] = "pending" /\ ends'[h] = "virtual"
    BY <2>1, <2>2, TakenSpans DEF Waits
  <2> DEFINE x == Promote(pending[i])
  <2>4. /\ x.key = pending[i].key /\ x.client = pending[i].client /\ x.server = pending[i].server
        /\ x.virtual # "none" /\ InEdge(x) = pending[i].client \cup pending[i].server
    BY <2>1, PromoteFacts
  <2> HIDE DEF x
  <2>5. (pending[i].client = {}) # (pending[i].server = {})
    BY DEF Outcome, Promotable
  <2>6. InEdge(x) \subseteq pending[i].halves
    BY <2>2, <2>4 DEF Waits
  <2>7. \A h \in InEdge(x) : EdgeKey(h) = x.key /\ ends'[h] = "virtual" /\ h \in HalfSpans
    BY <2>2, <2>3, <2>4, <2>6 DEF Waits
  <2>8. EdgeOK(x, ends')
    <3>1. InEdge(x) # {}
      BY <2>4, <2>5
    <3>2. (x.virtual = "none") = (x.client # {} /\ x.server # {})
      BY <2>4, <2>5
    <3> QED BY <3>1, <3>2, <2>7 DEF EdgeOK
  <2> QED BY <2>1, <2>2, <2>3, <2>4, <2>6, <2>8 DEF x
<1>5. \A i, j \in V : Promote(pending[i]).key = Promote(pending[j]).key => i = j
  BY <1>4 DEF PairInv, ListInv, OneEach
<1>6. IsFiniteSet(N) /\ Cardinality(N) = Cardinality(V)
  <2> HIDE DEF V
  <2>1. f \in Bijection(V, N)
    <3>1. f \in [V -> N] /\ DOMAIN f = V
      OBVIOUS
    <3>2. IsInjective(f)
      BY <1>5, <3>1 DEF IsInjective
    <3>3. \A t \in N : \E s \in V : f[s] = t
      OBVIOUS
    <3> QED BY <3>1, <3>2, <3>3 DEF Bijection, Injection, Surjection
  <2> HIDE DEF f, N
  <2>2. ExistsBijection(V, N)
    BY <2>1 DEF ExistsBijection
  <2> QED BY <2>2, <1>2, FS_Bijection
<1>7. ASSUME NEW y \in edges PROVE EdgeOK(y, ends') /\ \A h \in InEdge(y) : h \in HalfSpans /\ ends[h] # "pending"
  <2>1. EdgeOK(y, ends)
    BY DEF PairInv, EdgesInv
  <2>2. \A h \in HalfSpans : ends[h] # "pending" => ends'[h] = ends[h]
    BY TakenSpans
  <2> QED BY <2>1, <2>2 DEF EdgeOK
<1>8. ASSUME NEW x \in N PROVE EdgeOK(x, ends') /\ \A h \in InEdge(x) : ends[h] = "pending"
  <2>1. PICK i \in V : x = Promote(pending[i])
    OBVIOUS
  <2> HIDE DEF V, N
  <2> QED BY <2>1, <1>4
<1>9. edges' = edges \cup N
  BY DEF TakenHold
<1>10. edges \cap N = {}
  <2> HIDE DEF N
  <2> QED BY <1>7, <1>8 DEF EdgeOK
<1>11. IsFiniteSet(edges') /\ Cardinality(edges') = Cardinality(edges) + Cardinality(N)
  <2> HIDE DEF N
  <2>1. IsFiniteSet(edges)
    BY DEF PairInv, EdgesInv
  <2>2. Cardinality(edges \cup N) = Cardinality(edges) + Cardinality(N) - Cardinality(edges \cap N) /\ IsFiniteSet(edges \cup N)
    BY <2>1, <1>6, FS_Union
  <2>3. Cardinality(edges) \in Nat /\ Cardinality(N) \in Nat /\ Cardinality({}) = 0
    BY <2>1, <1>6, FS_CardinalityType, FS_EmptySet
  <2>4. Cardinality(edges \cap N) = 0
    BY <2>3, <1>10
  <2>5. Cardinality(edges \cup N) = Cardinality(edges) + Cardinality(N)
    BY ONLY <2>2, <2>3, <2>4
  <2> QED BY <2>2, <2>5, <1>9
<1>12. OneEdge(edges')
  <2> SUFFICES ASSUME NEW x \in edges', NEW y \in edges', NEW h \in InEdge(x), h \in InEdge(y) PROVE x = y
    BY DEF OneEdge
  <2>1. CASE x \in edges /\ y \in edges
    BY <2>1 DEF PairInv, EdgesInv, OneEdge
  <2>2. CASE x \in N /\ y \in N
    <3>1. x.key = y.key
      BY <2>2, <1>8 DEF EdgeOK
    <3>2. PICK i \in V, j \in V : x = Promote(pending[i]) /\ y = Promote(pending[j])
      BY <2>2
    <3> QED BY <3>1, <3>2, <1>5
  <2>3. CASE (x \in edges /\ y \in N) \/ (x \in N /\ y \in edges)
    <3> HIDE DEF N
    <3> QED BY <2>3, <1>7, <1>8
  <2> HIDE DEF N
  <2> QED BY <2>1, <2>2, <2>3, <1>9
<1>13. counts'["completed"] + counts'["virtual"] = Cardinality(edges')
  <2>1. counts["completed"] + counts["virtual"] = Cardinality(edges) /\ counts["completed"] \in Int /\ counts["virtual"] \in Int
    BY <1>1 DEF PairInv, EdgesInv, Fates
  <2> HIDE DEF N, V, U
  <2> QED BY <2>1, <1>2, <1>3, <1>6, <1>11
<1>14. \A x \in edges' : EdgeOK(x, ends')
  <2> HIDE DEF N
  <2> QED BY <1>7, <1>8, <1>9
<1> QED BY <1>3, <1>11, <1>12, <1>13, <1>14 DEF EdgesInv

\* Who is alone now waited a whole window, and its entry held the only ones of its call.
LEMMA TakenTime ==
  ASSUME PairInv, NEW k \in 0..Len(pending), TakenHold(k), \A i \in 1..k : pending[i].exp <= graphClock
  PROVE  TimeInv' /\ ServiceInv'
<1>1. /\ pending \in Seq(PendingRec) /\ Len(pending) \in Nat /\ k \in Nat /\ k <= Len(pending) /\ met' = met /\ graphClock' = graphClock
      /\ graphClock \in Nat /\ PairWait \in Nat /\ met \in [HalfSpans -> [at : Int, opened : Int]]
  BY PairAssumption DEF PairInv, PairTypes, TakenHold
<1>2. ASSUME NEW h \in HalfSpans, ends[h] = "pending"
      PROVE  \E i \in 1..Len(pending) : h \in pending[i].halves /\ Waits(pending[i], ends, met)
  BY <1>2 DEF PairInv, ListInv, HalvesListed, AllWait
<1>3. ASSUME NEW h \in HalfSpans, ends'[h] # ends[h]
      PROVE  ends[h] = "pending" /\ SpanInfo[h].service # Empty /\ met[h].opened + PairWait <= graphClock
  <2>1. PICK i \in 1..k : h \in pending[i].halves
    BY <1>3, TakenSpans
  <2>2. i \in 1..Len(pending) /\ pending[i] \in PendingRec
    BY <1>1, ElementOfSeq
  <2>3. Waits(pending[i], ends, met)
    BY <2>2 DEF PairInv, ListInv, AllWait
  <2>4. met[h].opened = pending[i].exp - PairWait /\ pending[i].exp \in Int /\ pending[i].exp <= graphClock
    BY <2>1, <2>2, <2>3 DEF Waits, PendingRec
  <2>5. met[h].opened + PairWait <= graphClock
    BY <2>4, <1>1
  <2> QED BY <2>1, <2>3, <2>5 DEF Waits
<1>4. Waited(ends', met', graphClock')
  BY <1>1, <1>3 DEF PairInv, TimeInv, Waited
<1>5. ServiceInv'
  BY <1>3 DEF PairInv, ServiceInv
<1>6. AllApart(ends', met')
  <2> SUFFICES ASSUME NEW a \in HalfSpans, NEW b \in HalfSpans, ends'[a] \in LoneFates,
                      ends'[b] \in LoneFates \cup {"pending"}, Opposite(a, b)
               PROVE  Apart(a, b, met)
    BY <1>1 DEF AllApart
  <2>1. ends[b] \in LoneFates \cup {"pending"}
    BY <1>3
  <2>2. CASE ends[a] \in LoneFates
    BY <2>1, <2>2 DEF PairInv, TimeInv, AllApart
  <2>3. CASE ends[a] \notin LoneFates
    <3>1. ends[a] = "pending"
      BY <2>3, <1>3
    <3>2. CASE ends[b] \in LoneFates
      <4>1. Opposite(b, a)
        BY DEF Opposite
      <4>2. Apart(b, a, met)
        BY <3>1, <3>2, <4>1 DEF PairInv, TimeInv, AllApart
      <4> QED BY <4>2 DEF Apart
    <3>3. CASE ends[b] = "pending"
      <4>1. PICK i \in 1..Len(pending) : a \in pending[i].halves /\ Waits(pending[i], ends, met)
        BY <3>1, <1>2
      <4>2. PICK j \in 1..Len(pending) : b \in pending[j].halves /\ Waits(pending[j], ends, met)
        BY <3>3, <1>2
      <4>3. pending[i].key = pending[j].key
        BY <4>1, <4>2 DEF Waits, Opposite
      <4>4. i = j
        BY <4>3 DEF PairInv, ListInv, OneEach
      <4>5. (Side(a) = "client" /\ Side(b) = "server") \/ (Side(a) = "server" /\ Side(b) = "client")
        BY DEF Opposite
      <4> QED BY <4>1, <4>2, <4>4, <4>5 DEF Waits
    <3> QED BY <2>1, <3>2, <3>3
  <2> QED BY <2>2, <2>3
<1> QED BY <1>4, <1>5, <1>6 DEF TimeInv

LEMMA SweepHoldKeeps ==
  ASSUME PairInv, NEW p \in Consumers, SweepHold(p)
  PROVE  PairInv'
<1> DEFINE c == consumer[p]
           n == Least(c.budget, ExpirePerHold)
           k == Overdue(c.now, n)
<1>1. /\ pending \in Seq(PendingRec) /\ consumer \in [Consumers -> ConsumerRec] /\ c \in ConsumerRec /\ graphClock \in Nat
      /\ ExpirePerHold \in Nat
  BY PairAssumption DEF PairInv, PairTypes
<1>2. c.pc = "sweep" /\ c.budget \in Nat /\ c.now \in Nat /\ c.now <= graphClock /\ c.i \in Nat
  BY <1>1 DEF SweepHold, PairInv, ConsumersInv, ConsumerRec
<1>3. n \in Nat /\ c.budget - n \in Nat
  BY <1>1, <1>2 DEF Least
<1> HIDE DEF n
<1>4. k \in 0..Len(pending) /\ \A i \in 1..k : pending[i].exp <= c.now
  BY <1>1, <1>2, <1>3, OverdueFacts
<1>5. \A i \in 1..k : pending[i].exp <= graphClock
  <2>1. \A i \in 1..k : i \in 1..Len(pending) /\ Len(pending) \in Nat
    BY <1>1, <1>4
  <2>2. \A i \in 1..k : pending[i].exp \in Int
    <3>1. \A i \in 1..k : pending[i] \in PendingRec
      BY <2>1, <1>1, ElementOfSeq
    <3> QED BY <3>1 DEF PendingRec
  <2> HIDE DEF k, c
  <2> QED BY <2>2, <1>1, <1>2, <1>4
<1>6. TakenHold(k)
  BY DEF SweepHold, TakenHold, n
<1>7. consumer' = [consumer EXCEPT ![p].budget = @ - n, ![p].pc = IF k < n \/ c.budget = n THEN After(p) ELSE @]
  BY DEF SweepHold, n
<1> HIDE DEF k
<1>8. /\ ListInv' /\ EdgesInv' /\ TimeInv' /\ ServiceInv' /\ pending' \in Seq(PendingRec) /\ counts' \in [Fates -> Int]
      /\ counts'["dropped"] = counts["dropped"]
  BY <1>4, <1>5, <1>6, TakenList, TakenEdges, TakenTime
<1>9. /\ ends' \in [HalfSpans -> EndSet] /\ met' = met /\ graphClock' = graphClock
      /\ \A h \in HalfSpans : ends'[h] # ends[h] => ends[h] = "pending" /\ ends'[h] \in LoneFates
  BY <1>4, <1>6, TakenSpans DEF TakenHold
<1>10. DropInv'
  <2>1. SameDropped
    BY <1>9 DEF SameDropped, LoneFates
  <2> QED BY <2>1, <1>8, DroppedSame DEF PairInv
<1>11. /\ consumer'[p].i = c.i /\ consumer'[p].now = c.now /\ consumer'[p].pc \in {"sweep", After(p)}
       /\ consumer'[p] \in ConsumerRec /\ \A q \in Consumers : q # p => consumer'[q] = consumer[q]
  <2> PICK x \in {"sweep", After(p)} : x = IF k < n \/ c.budget = n THEN After(p) ELSE c.pc
    BY <1>2
  <2> PICK b \in Nat : b = c.budget - n
    BY <1>3
  <2> PICK d \in ConsumerRec : d = c
    BY <1>1
  <2>1. consumer' = [consumer EXCEPT ![p] = [d EXCEPT !.budget = b, !.pc = x]]
    BY <1>7, <1>1 DEF ConsumerRec
  <2>2. consumer'[p] = [d EXCEPT !.budget = b, !.pc = x] /\ \A q \in Consumers : q # p => consumer'[q] = consumer[q]
    BY <2>1, <1>1
  <2>3. x \in {"idle", "sweep", "observe", "done"}
    BY DEF After
  <2>4. /\ [d EXCEPT !.budget = b, !.pc = x] \in ConsumerRec
        /\ [d EXCEPT !.budget = b, !.pc = x].i = d.i /\ [d EXCEPT !.budget = b, !.pc = x].pc = x
        /\ [d EXCEPT !.budget = b, !.pc = x].now = d.now
    BY ONLY d \in ConsumerRec, b \in Nat, <2>3 DEF ConsumerRec
  <2> QED BY <2>2, <2>4
<1>12. consumer' \in [Consumers -> ConsumerRec]
  BY <1>1, <1>7, <1>11
<1>13. ConsumersInv'
  <2>1. \A q \in Consumers : consumer'[q].now <= graphClock'
    BY <1>2, <1>9, <1>11 DEF PairInv, ConsumersInv
  <2>2. ASSUME NEW q \in GraphPushes
        PROVE  /\ consumer'[q].pc = "idle" => consumer'[q].i = 0
               /\ consumer'[q].pc \in {"sweep", "observe"} => consumer'[q].i \in 1..Len(GraphSpans[q])
               /\ Unread(q, consumer'[q], ends')
    <3>1. Unread(q, consumer[q], ends)
      BY DEF PairInv, ConsumersInv
    <3>2. Unread(q, consumer[q], ends')
      <4>1. \A i \in 1..Len(GraphSpans[q]) : GraphSpans[q][i] \in HalfSpans
        BY SpanFacts
      <4> QED BY <3>1, <4>1, <1>9 DEF Unread
    <3>3. CASE q = p
      <4>1. After(p) = "observe"
        BY <3>3, PairAssumption DEF After
      <4>2. consumer'[q].pc \in {"sweep", "observe"} /\ consumer'[q].i = consumer[q].i
        BY <3>3, <4>1, <1>11
      <4>3. consumer[q].i \in 1..Len(GraphSpans[q])
        BY <3>3, <1>2 DEF PairInv, ConsumersInv
      <4>4. Unread(q, consumer'[q], ends')
        BY <3>2, <3>3, <4>2, <1>2 DEF Unread
      <4> QED BY <4>2, <4>3, <4>4
    <3>4. CASE q # p
      BY <3>2, <3>4, <1>11 DEF PairInv, ConsumersInv, Consumers
    <3> QED BY <3>3, <3>4
  <2>3. consumer'["sweep"].pc \in {"idle", "sweep"}
    BY <1>11 DEF PairInv, ConsumersInv, Consumers, After
  <2> QED BY <2>1, <2>2, <2>3 DEF ConsumersInv
<1>14. PairTypes'
  BY <1>8, <1>9, <1>12 DEF PairInv, PairTypes
<1> QED BY <1>8, <1>10, <1>13, <1>14 DEF PairInv

LEMMA PairStep == PairInv /\ [PairNext]_graphVars => PairInv'
<1> SUFFICES ASSUME PairInv, [PairNext]_graphVars PROVE PairInv'
  OBVIOUS
<1>1. CASE UNCHANGED graphVars
  BY <1>1 DEF graphVars, PairInv, PairTypes, ListInv, ConsumersInv, EdgesInv, DropInv, ServiceInv, TimeInv
<1>2. CASE \E p \in GraphPushes : ObserveSpan(p)
  BY <1>2, SpanKeeps
<1>3. CASE \E p \in GraphPushes \cup {"sweep"} : SweepHold(p)
  BY <1>3, SweepHoldKeeps DEF Consumers
<1>4. CASE (\E p \in GraphPushes : Consume(p)) \/ SweepTicked \/ GraphTick
  BY <1>4, ConsumeKeeps
<1> QED BY <1>1, <1>2, <1>3, <1>4 DEF PairNext

LEMMA PairInvSound == PairInv => PairingSound
<1> SUFFICES ASSUME PairInv PROVE PairingSound
  OBVIOUS
<1>1. pending \in Seq(PendingRec) /\ Len(pending) \in Nat /\ DOMAIN pending = 1..Len(pending)
  BY DEF PairInv, PairTypes
<1>2. Cardinality(Items) = Len(pending)
  <2> DEFINE D == 1..Len(pending)
             f == [i \in D |-> pending[i].key]
  <2>1. Items = {pending[i].key : i \in D}
    BY <1>1 DEF Items
  <2>2. f \in [D -> Items] /\ DOMAIN f = D /\ \A i \in D : f[i] = pending[i].key
    BY <2>1
  <2>3. IsInjective(f)
    BY <2>2 DEF IsInjective, PairInv, ListInv, OneEach
  <2>4. \A t \in Items : \E s \in D : f[s] = t
    BY <2>1
  <2>5. f \in Bijection(D, Items)
    BY <2>2, <2>3, <2>4 DEF Bijection, Injection, Surjection
  <2>6. IsFiniteSet(D) /\ Cardinality(D) = Len(pending)
    BY <1>1, FS_Interval
  <2> HIDE DEF f, D
  <2>7. ExistsBijection(D, Items)
    BY <2>5 DEF ExistsBijection
  <2> QED BY <2>6, <2>7, FS_Bijection
<1>3. UNION {pending[i].halves : i \in DOMAIN pending} = {s \in HalfSpans : ends[s] = "pending"}
  <2>1. ASSUME NEW i \in DOMAIN pending, NEW s \in pending[i].halves PROVE s \in HalfSpans /\ ends[s] = "pending"
    <3>1. i \in 1..Len(pending) /\ pending[i] \in PendingRec
      BY <1>1, ElementOfSeq
    <3>2. Waits(pending[i], ends, met)
      BY <3>1 DEF PairInv, ListInv, AllWait
    <3> QED BY <3>1, <3>2 DEF Waits, PendingRec
  <2>2. ASSUME NEW s \in HalfSpans, ends[s] = "pending" PROVE \E i \in DOMAIN pending : s \in pending[i].halves
    BY <2>2, <1>1 DEF PairInv, ListInv, HalvesListed
  <2> QED BY <2>1, <2>2
<1>4. ASSUME NEW s \in HalfSpans
      PROVE  Cardinality(InEdges(s)) <= (IF ends[s] \in {"completed", "virtual"} THEN 1 ELSE 0)
  <2>1. CASE InEdges(s) = {}
    BY <2>1, FS_EmptySet
  <2>2. CASE InEdges(s) # {}
    <3>1. PICK x \in edges : s \in x.client \cup x.server /\ x \in InEdges(s)
      BY <2>2 DEF InEdges
    <3>2. \A y \in InEdges(s) : y = x
      BY <3>1 DEF InEdges, PairInv, EdgesInv, OneEdge, InEdge
    <3>3. InEdges(s) = {x}
      BY <3>1, <3>2
    <3>4. ends[s] \in {"completed", "virtual"}
      BY <3>1 DEF PairInv, EdgesInv, EdgeOK, InEdge
    <3>5. Cardinality({x}) = 1
      BY FS_Singleton
    <3> QED BY <3>3, <3>4, <3>5
  <2> QED BY <2>1, <2>2
<1>5. PairingAccounts
  <2>1. \A e \in edges : /\ \A s \in e.client \cup e.server : EdgeKey(s) = e.key
                         /\ (e.virtual = "none") = (e.client # {} /\ e.server # {})
    BY DEF PairInv, EdgesInv, EdgeOK, InEdge
  <2> QED BY <1>2, <1>3, <1>4, <2>1 DEF PairingAccounts, PairInv, ListInv, EdgesInv, DropInv, ServiceInv
<1>6. PairsMeet
  BY DEF PairsMeet, PairInv, TimeInv, AllApart, Opposite, Apart, LoneFates
<1> QED BY <1>5, <1>6 DEF PairingSound

\* Whatever the spans, their payloads and the bounds: two halves of one call that end
\* apart came a whole window apart, and each span is in one place (upsert, expireInPasses).
THEOREM PairingAlwaysSound == PairSpec => []PairingSound
<1>1. PairSpec => []PairInv
  BY PairStarts, PairStep, PTL DEF PairSpec
<1> QED BY <1>1, PairInvSound, PTL
===============================================================================
