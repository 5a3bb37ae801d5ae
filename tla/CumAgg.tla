------------------------------- MODULE CumAgg -------------------------------
(***************************************************************************)
(* Cumulative aggregation (internal/agent/cumagg) as span metrics          *)
(* (internal/agent/spanmetrics) and the service graph's registry use it: a *)
(* bounded store of series, observed under one mutex, and an export that   *)
(* lists the live series, copies them in chunks that release the mutex,    *)
(* sends the copy and, once the collector took it, marks what it carried.  *)
(* Only a delivered series may be evicted.  Exemplars, histogram buckets   *)
(* and labels are left out: a series is its count.                         *)
(***************************************************************************)
EXTENDS Integers, Sequences, FiniteSets

CONSTANTS
    Taps,            \* trace payloads passed through the tap
    SpansOf,         \* payload -> the series keys of its spans, in order
    Exporters,       \* callers of Export: the ticker's loop, the final flush
    MaxCardinality, StaleAfter,
    SnapChunk,       \* snapChunk: series per hold of the mutex
    AggTries,        \* bound: payload or caller -> times it is presented or exports
    AggMaxTime       \* bound: the clock

AggKeys == UNION {{SpansOf[t][i] : i \in DOMAIN SpansOf[t]} : t \in Taps}

ASSUME AggAssumption ==
    /\ "free" \notin Exporters
    /\ \A t \in Taps : SpansOf[t] \in Seq(AggKeys) /\ SpansOf[t] # << >>
    /\ MaxCardinality \in Nat /\ StaleAfter \in Nat /\ AggMaxTime \in Nat
    /\ SnapChunk \in Nat \ {0}

VARIABLES
    aggClock,
    series,     \* key -> [id, start, seen, state, calls] of the live series
    rendered,   \* the keys and ids listed by the current export, in order
    gate,       \* exportGate: the export that holds it, or "free"
    tapped,     \* payload -> [pc, now, i, tries]
    export,     \* caller -> [pc, now, ptrs, snap, i, tries]
    births,     \* history: series created so far
    carried,      \* history: the points of acknowledged payloads
    evicted,    \* history: what eviction threw away
    latest      \* history: the last point the collector saw of each key

aggVars == <<aggClock, series, rendered, gate, tapped, export, births, carried, evicted, latest>>

Live == DOMAIN series
PointOf(k) == [key |-> k, id |-> series[k].id, calls |-> series[k].calls]

\* A series named by a pointer is still in the store.
Held(p) == p.key \in Live /\ series[p.key].id = p.id

AggInit ==
  /\ aggClock = 0 /\ series = [k \in {} |-> 0] /\ rendered = << >> /\ gate = "free"
  /\ tapped = [t \in Taps |-> [pc |-> "idle", now |-> 0, i |-> 0, tries |-> 0]]
  /\ export = [e \in Exporters |-> [pc |-> "idle", now |-> 0, ptrs |-> << >>, snap |-> {}, i |-> 0, tries |-> 0]]
  /\ births = 0 /\ carried = {} /\ evicted = {} /\ latest = [k \in {} |-> 0]
-----------------------------------------------------------------------------
(* Observing *)

\* tap.ExportTraces: the inner chain refuses the payload, and nothing is counted.
TapRefused(t) ==
  /\ tapped[t].pc = "idle" /\ tapped[t].tries < AggTries[t]
  /\ tapped' = [tapped EXCEPT ![t].tries = @ + 1]
  /\ UNCHANGED <<aggClock, series, rendered, gate, export, births, carried, evicted, latest>>

\* The inner chain takes it; Consume reads the clock once for all of its spans.
TapConsumes(t) ==
  /\ tapped[t].pc = "idle" /\ tapped[t].tries < AggTries[t]
  /\ tapped' = [tapped EXCEPT ![t] = [pc |-> "observe", now |-> aggClock, i |-> 1, tries |-> @.tries + 1]]
  /\ UNCHANGED <<aggClock, series, rendered, gate, export, births, carried, evicted, latest>>

\* AdmitLocked: the key's series, a fresh one, or none when the store is full.
AdmitLocked(k, now) ==
  IF k \in Live THEN {series[k]}
  ELSE IF Cardinality(Live) >= MaxCardinality THEN {}
  ELSE {[id |-> births + 1, start |-> now, seen |-> now, state |-> "observed", calls |-> 0]}

ObservedLocked(s, now) == [s EXCEPT !.seen = now, !.state = "observed"]

WithSeries(k, s) == [j \in Live \cup {k} |-> IF j = k THEN s ELSE series[j]]

Observe(t) ==
  LET p == tapped[t]
      k == SpansOf[t][p.i]
      got == AdmitLocked(k, p.now)
  IN /\ p.pc = "observe"
     /\ \/ got = {} /\ UNCHANGED <<series, births>>
        \/ \E s \in got :
             /\ series' = WithSeries(k, ObservedLocked([s EXCEPT !.calls = @ + 1], p.now))
             /\ births' = IF k \in Live THEN births ELSE births + 1
     /\ tapped' = [tapped EXCEPT ![t] =
          [p EXCEPT !.i = @ + 1, !.pc = IF p.i = Len(SpansOf[t]) THEN "done" ELSE @]]
     /\ UNCHANGED <<aggClock, rendered, gate, export, carried, evicted, latest>>
-----------------------------------------------------------------------------
(* Exporting *)

\* The caller's context ends while another export holds the gate.
ExportCancelled(e) ==
  /\ export[e].pc = "idle" /\ export[e].tries < AggTries[e] /\ gate # "free"
  /\ export' = [export EXCEPT ![e].tries = @ + 1]
  /\ UNCHANGED <<aggClock, series, rendered, gate, tapped, births, carried, evicted, latest>>

\* The gate is taken, the list of an earlier export forgotten, the clock read.
GateTaken(e) ==
  /\ export[e].pc = "idle" /\ export[e].tries < AggTries[e] /\ gate = "free"
  /\ gate' = e /\ rendered' = << >>
  /\ export' = [export EXCEPT ![e] = [export[e] EXCEPT !.pc = "list", !.now = aggClock, !.tries = @ + 1]]
  /\ UNCHANGED <<aggClock, series, tapped, births, carried, evicted, latest>>

Evictable(k, now) ==
  StaleAfter > 0 /\ series[k].state = "delivered" /\ now - series[k].seen > StaleAfter

\* The orders in which a map's walk may meet the members of a set.
Walks(S) == {f \in [1..Cardinality(S) -> S] : \A x \in S : \E i \in DOMAIN f : f[i] = x}

\* LivePointersLocked: one hold of the mutex evicts and lists the rest.
ListLive(e) ==
  LET gone == {k \in Live : Evictable(k, export[e].now)}
  IN /\ export[e].pc = "list"
     /\ series' = [k \in Live \ gone |-> series[k]]
     /\ evicted' = evicted \cup {PointOf(k) : k \in gone}
     /\ \E walk \in Walks(Live \ gone) :
          export' = [export EXCEPT ![e] =
            [@ EXCEPT !.ptrs = [j \in DOMAIN walk |-> [key |-> walk[j], id |-> series[walk[j]].id]],
                      !.i = 0, !.snap = {}, !.pc = "copy"]]
     /\ UNCHANGED <<aggClock, rendered, gate, tapped, births, carried, latest>>

\* eachChunked: what one hold of the mutex walks.
ChunkEnd(e) ==
  IF export[e].i + SnapChunk < Len(export[e].ptrs) THEN export[e].i + SnapChunk ELSE Len(export[e].ptrs)
ChunkOf(e) == SubSeq(export[e].ptrs, export[e].i + 1, ChunkEnd(e))
Chunked(e) == {p \in {ChunkOf(e)[j] : j \in 1..Len(ChunkOf(e))} : Held(p)}

\* One chunk of Snapshotter.Take: each series is marked rendered, listed and copied.
CopyChunk(e) ==
  LET ks == {p.key : p \in Chunked(e)}
  IN /\ export[e].pc = "copy" /\ export[e].i < Len(export[e].ptrs)
     /\ series' = [k \in Live |-> IF k \in ks THEN [series[k] EXCEPT !.state = "rendered"] ELSE series[k]]
     /\ rendered' = rendered \o ChunkOf(e)
     /\ export' = [export EXCEPT ![e] =
          [export[e] EXCEPT !.i = @ + SnapChunk, !.snap = @ \cup {PointOf(k) : k \in ks}]]
     /\ UNCHANGED <<aggClock, gate, tapped, births, carried, evicted, latest>>

\* The gate goes back and the list is forgotten, however the export ended.
Released(e) == gate' = "free" /\ rendered' = << >>

ExportEnded(e) == [export[e] EXCEPT !.pc = "idle", !.ptrs = << >>, !.snap = {}, !.i = 0]

\* Nothing is live: nothing is sent.
ExportNothing(e) ==
  /\ export[e].pc = "copy" /\ export[e].ptrs = << >>
  /\ Released(e) /\ export' = [export EXCEPT ![e] = ExportEnded(e)]
  /\ UNCHANGED <<aggClock, series, tapped, births, carried, evicted, latest>>

\* What the collector then knows of every key, the payload having reached it.
Arrived(snap) ==
  [k \in DOMAIN latest \cup {p.key : p \in snap} |->
     IF \E p \in snap : p.key = k THEN CHOOSE p \in snap : p.key = k ELSE latest[k]]

AllCopied(e) == export[e].pc = "copy" /\ export[e].ptrs # << >> /\ export[e].i >= Len(export[e].ptrs)

SendAcked(e) ==
  /\ AllCopied(e)
  /\ latest' = Arrived(export[e].snap) /\ carried' = carried \cup export[e].snap
  /\ export' = [export EXCEPT ![e] = [@ EXCEPT !.pc = "mark", !.i = 0, !.ptrs = rendered, !.snap = {}]]
  /\ UNCHANGED <<aggClock, series, rendered, gate, tapped, births, evicted>>

\* The send fails, whether or not the payload got there: the marks stay.
SendFailed(e) ==
  /\ AllCopied(e)
  /\ latest' \in {latest, Arrived(export[e].snap)}
  /\ Released(e) /\ export' = [export EXCEPT ![e] = ExportEnded(e)]
  /\ UNCHANGED <<aggClock, series, tapped, births, carried, evicted>>

\* Mutant of DeliveredState: what was observed since the copy is marked too.
DeliveredStateAlways(s) == "delivered"

\* markDeliveredLocked: only a series nothing touched since it was copied.
DeliveredState(s) == IF s.state = "rendered" THEN "delivered" ELSE s.state

\* One chunk of afterDelivered.
MarkChunk(e) ==
  LET ks == {p.key : p \in Chunked(e)}
  IN /\ export[e].pc = "mark" /\ export[e].i < Len(export[e].ptrs)
     /\ series' = [k \in Live |-> IF k \in ks THEN [series[k] EXCEPT !.state = DeliveredState(series[k])]
                                  ELSE series[k]]
     /\ export' = [export EXCEPT ![e].i = @ + SnapChunk]
     /\ UNCHANGED <<aggClock, rendered, gate, tapped, births, carried, evicted, latest>>

ExportDone(e) ==
  /\ export[e].pc = "mark" /\ export[e].i >= Len(export[e].ptrs)
  /\ Released(e) /\ export' = [export EXCEPT ![e] = ExportEnded(e)]
  /\ UNCHANGED <<aggClock, series, tapped, births, carried, evicted, latest>>

AggTick ==
  /\ aggClock < AggMaxTime /\ aggClock' = aggClock + 1
  /\ UNCHANGED <<series, rendered, gate, tapped, export, births, carried, evicted, latest>>

AggNext ==
  \/ \E t \in Taps : TapRefused(t) \/ TapConsumes(t) \/ Observe(t)
  \/ \E e \in Exporters :
       \/ ExportCancelled(e) \/ GateTaken(e) \/ ListLive(e) \/ CopyChunk(e)
       \/ ExportNothing(e) \/ SendAcked(e) \/ SendFailed(e) \/ MarkChunk(e) \/ ExportDone(e)
  \/ AggTick

AggSpec == AggInit /\ [][AggNext]_aggVars
-----------------------------------------------------------------------------
(* Properties *)

\* A series is evicted only with a count an acknowledged payload carried: what
\* is observed while a payload is on its way, or was carried by one that failed,
\* stays until a later export delivers it.
EvictedWasDelivered == evicted \subseteq carried

\* The count the collector sees of one series never goes back, and a series
\* that was evicted never follows its successor.
LatestForward ==
  \A k \in DOMAIN latest :
    \/ latest'[k].id > latest[k].id
    \/ latest'[k].id = latest[k].id /\ latest'[k].calls >= latest[k].calls

\* The collector sees each series whole and in order, however the exports of the
\* ticker and of the shutdown overlap: no step evicts what was not delivered, and
\* none takes the collector back (Export, markDeliveredLocked).
SeriesDelivered == [][EvictedWasDelivered' /\ LatestForward]_aggVars
=============================================================================
