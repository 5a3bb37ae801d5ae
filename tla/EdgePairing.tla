----------------------------- MODULE EdgePairing -----------------------------
(***************************************************************************)
(* The service graph's pairing (internal/agent/servicegraph: store.go and  *)
(* processor.go).  A client span and the server span it caused, met in     *)
(* either order and in different payloads, make one edge; the half that    *)
(* waits longer than the window becomes a virtual node's edge when it      *)
(* names its peer and is given up otherwise.  Payloads are consumed        *)
(* concurrently, each reading the clock once, before the store's mutex.    *)
(* Durations, dimensions and label values are left out.                    *)
(***************************************************************************)
EXTENDS Integers, Sequences, FiniteSets

CONSTANTS
    HalfSpans,        \* the spans
    SpanInfo,         \* span -> [kind, service, trace, id, parent, failed, peer, db]
    GraphPushes,      \* payloads
    GraphSpans,       \* payload -> its spans, in order
    PairWait,         \* wait: the pairing window
    MaxItems,
    SweepFloor, MaxSweepBudget,   \* sweepFloorPerBatch, maxSweepBudgetPerBatch
    ExpirePerHold,
    GraphMaxTime      \* bound: the clock

\* HalfSpans are spans as they arrive: a span that is sent again is another one.
ASSUME PairAssumption ==
    /\ IsFiniteSet(HalfSpans) /\ "sweep" \notin GraphPushes
    /\ GraphSpans \in [GraphPushes -> Seq(HalfSpans) \ {<< >>}]
    /\ \A p, q \in GraphPushes : \A i \in DOMAIN GraphSpans[p], j \in DOMAIN GraphSpans[q] :
         GraphSpans[p][i] = GraphSpans[q][j] => p = q /\ i = j
    /\ {PairWait, MaxItems, SweepFloor, MaxSweepBudget, ExpirePerHold, GraphMaxTime} \subseteq Nat

Empty == ""
Fates == {"completed", "virtual", "unpaired", "dropped", "unkeyable"}

VARIABLES
    graphClock,
    pending,    \* the entries in list order: [key, exp, client, server, failed, conn, peer, halves]
    counts,     \* Stats: fate -> count
    consumer,   \* payload or "sweep" -> [pc, now, budget, i]
    edges,      \* history: the edges emitted
    ends,       \* history: span -> what became of it
    met         \* history: span -> [at, opened], when it was merged and the window it joined

graphVars == <<graphClock, pending, counts, consumer, edges, ends, met>>

Items == {pending[i].key : i \in DOMAIN pending}

PairInit ==
  /\ graphClock = 0 /\ pending = << >> /\ counts = [f \in Fates |-> 0]
  /\ consumer = [p \in GraphPushes \cup {"sweep"} |-> [pc |-> "idle", now |-> 0, budget |-> 0, i |-> 0]]
  /\ edges = {} /\ ends = [s \in HalfSpans |-> "none"]
  /\ met = [s \in HalfSpans |-> [at |-> 0, opened |-> 0]]
-----------------------------------------------------------------------------
(* The half of an edge a span stands for *)

\* spanSide: the side and the connection type a kind says; none for the others.
SpanSide(kind) ==
  CASE kind = "client" -> <<"client", "unknown">>
    [] kind = "producer" -> <<"client", "messaging">>
    [] kind = "server" -> <<"server", "unknown">>
    [] kind = "consumer" -> <<"server", "messaging">>
    [] OTHER -> <<"none", "unknown">>

Side(s) == SpanSide(SpanInfo[s].kind)[1]

\* A server span is keyed by the span that called it.
KeySpan(s) == IF Side(s) = "server" THEN SpanInfo[s].parent ELSE SpanInfo[s].id
EdgeKey(s) == <<SpanInfo[s].trace, KeySpan(s)>>

Unkeyable(s) == SpanInfo[s].trace = Empty \/ (Side(s) = "client" /\ KeySpan(s) = Empty)

\* A database is only ever called: its attributes mean nothing on a server span.
Connection(s) ==
  IF Side(s) = "client" /\ SpanInfo[s].db THEN "database" ELSE SpanSide(SpanInfo[s].kind)[2]

\* newEntry: what an entry is before its first half.
NewEntry(key, exp) ==
  [key |-> key, exp |-> exp, client |-> {}, server |-> {}, failed |-> FALSE,
   conn |-> "unknown", peer |-> Empty, halves |-> {}]

\* merge: the last span of a side replaces the one before it.
Merge(e, s) ==
  [e EXCEPT
     !.conn = IF Connection(s) = "database" \/ @ = "unknown" THEN Connection(s) ELSE @,
     !.failed = @ \/ SpanInfo[s].failed,
     !.peer = IF @ = Empty THEN SpanInfo[s].peer ELSE @,
     !.client = IF Side(s) = "client" THEN {s} ELSE @,
     !.server = IF Side(s) = "server" THEN {s} ELSE @,
     !.halves = @ \cup {s}]

\* edge: the pair as the registry receives it.
EdgeOf(e) ==
  [key |-> e.key, client |-> e.client, server |-> e.server, failed |-> e.failed,
   conn |-> e.conn, virtual |-> "none"]

\* promote: the one half of an entry that names the other.
Promotable(e) == e.peer # Empty /\ (e.client = {}) # (e.server = {})
Promote(e) ==
  [EdgeOf(e) EXCEPT
     !.virtual = IF e.client # {} THEN "server" ELSE "client",
     !.conn = IF @ = "unknown" THEN "virtual_node" ELSE @]

\* A lone half whose time has come, as counted and as the spans' fate.
Outcome(e) == IF Promotable(e) THEN "virtual" ELSE "unpaired"
-----------------------------------------------------------------------------
(* One payload *)

Least(a, b) == IF a < b THEN a ELSE b

\* Consume reads the clock and settles how many overdue entries it may take.
Consume(p) ==
  /\ p # "sweep" /\ consumer[p].pc = "idle"
  /\ consumer' = [consumer EXCEPT ![p] =
       [pc |-> "sweep", now |-> graphClock, i |-> 1,
        budget |-> Least(Len(GraphSpans[p]) + SweepFloor, MaxSweepBudget)]]
  /\ UNCHANGED <<graphClock, pending, counts, edges, ends, met>>

\* Sweep, from the ticker: every overdue entry.
SweepTicked ==
  /\ consumer["sweep"].pc = "idle"
  /\ consumer' = [consumer EXCEPT !["sweep"] = [pc |-> "sweep", now |-> graphClock, i |-> 1, budget |-> MaxItems + 1]]
  /\ UNCHANGED <<graphClock, pending, counts, edges, ends, met>>

\* Mutant of PastWindow: the caller's clock is not asked.
PastWindowAnyway(e, now) == TRUE

PastWindow(e, now) == e.exp <= now

\* The entries one hold takes: the overdue ones at the head, up to n.
Overdue(now, n) ==
  CHOOSE k \in 0..Least(n, Len(pending)) :
    /\ \A i \in 1..k : PastWindow(pending[i], now)
    /\ k < Least(n, Len(pending)) => ~PastWindow(pending[k + 1], now)

After(p) == IF p = "sweep" THEN "idle" ELSE "observe"

\* One hold of expireInPasses: the pass ends when a hold finds fewer than it may take.
SweepHold(p) ==
  LET c == consumer[p]
      n == Least(c.budget, ExpirePerHold)
      k == Overdue(c.now, n)
      taken(s) == {i \in 1..k : s \in pending[i].halves}
      become(f) == {i \in 1..k : Outcome(pending[i]) = f}
  IN /\ c.pc = "sweep"
     /\ pending' = SubSeq(pending, k + 1, Len(pending))
     /\ counts' = [counts EXCEPT !["virtual"] = @ + Cardinality(become("virtual")),
                                    !["unpaired"] = @ + Cardinality(become("unpaired"))]
     /\ edges' = edges \cup {Promote(pending[i]) : i \in become("virtual")}
     /\ ends' = [s \in HalfSpans |-> IF taken(s) = {} THEN ends[s]
                                    ELSE Outcome(pending[CHOOSE i \in taken(s) : TRUE])]
     /\ consumer' = [consumer EXCEPT ![p].budget = @ - n,
                        ![p].pc = IF k < n \/ c.budget = n THEN After(p) ELSE @]
     /\ UNCHANGED <<graphClock, met>>

\* retire: entry i leaves the list.
Retired(i) == [j \in 1..Len(pending) - 1 |-> pending[IF j < i THEN j ELSE j + 1]]

\* insert: the span joins its entry, makes one at the tail, or finds the store
\* full; the second side completes the edge, which is emitted under the mutex.
Insert(s, now) ==
  LET at == {i \in DOMAIN pending : pending[i].key = EdgeKey(s)}
      whole(e) == e.client # {} /\ e.server # {}
      joined(i) == Merge(pending[i], s)
      settle(e) == [h \in HalfSpans |-> IF h \in e.halves THEN "completed" ELSE ends[h]]
  IN \/ /\ at = {} /\ Len(pending) >= MaxItems
        /\ counts' = [counts EXCEPT !["dropped"] = @ + 1]
        /\ ends' = [ends EXCEPT ![s] = "dropped"]
        /\ UNCHANGED <<pending, edges, met>>
     \/ /\ at = {} /\ Len(pending) < MaxItems
        /\ pending' = Append(pending, Merge(NewEntry(EdgeKey(s), now + PairWait), s))
        /\ ends' = [ends EXCEPT ![s] = "pending"]
        /\ met' = [met EXCEPT ![s] = [at |-> graphClock, opened |-> now]]
        /\ UNCHANGED <<counts, edges>>
     \/ \E i \in at :
          /\ met' = [met EXCEPT ![s] = [at |-> graphClock, opened |-> pending[i].exp - PairWait]]
          /\ \/ /\ whole(joined(i))
                /\ counts' = [counts EXCEPT !["completed"] = @ + 1]
                /\ edges' = edges \cup {EdgeOf(joined(i))}
                /\ pending' = Retired(i)
                /\ ends' = settle(joined(i))
             \/ /\ ~whole(joined(i))
                /\ pending' = [pending EXCEPT ![i] = joined(i)]
                /\ ends' = [ends EXCEPT ![s] = "pending"]
                /\ UNCHANGED <<counts, edges>>

\* One span of a payload: a resource without a service name, and a kind that
\* makes no edge, pass by; a span that cannot be keyed is only counted.
ObserveSpan(p) ==
  LET c == consumer[p]
      s == GraphSpans[p][c.i]
  IN /\ c.pc = "observe"
     /\ \/ /\ SpanInfo[s].service = Empty \/ Side(s) = "none"
           /\ ends' = [ends EXCEPT ![s] = "ignored"]
           /\ UNCHANGED <<pending, counts, edges, met>>
        \/ /\ SpanInfo[s].service # Empty /\ Side(s) # "none" /\ Unkeyable(s)
           /\ counts' = [counts EXCEPT !["unkeyable"] = @ + 1]
           /\ ends' = [ends EXCEPT ![s] = "unkeyable"]
           /\ UNCHANGED <<pending, edges, met>>
        \/ /\ SpanInfo[s].service # Empty /\ Side(s) # "none" /\ ~Unkeyable(s)
           /\ Insert(s, c.now)
     /\ consumer' = [consumer EXCEPT ![p].i = @ + 1, ![p].pc = IF c.i = Len(GraphSpans[p]) THEN "done" ELSE @]
     /\ UNCHANGED graphClock

GraphTick ==
  /\ graphClock < GraphMaxTime /\ graphClock' = graphClock + 1
  /\ UNCHANGED <<pending, counts, consumer, edges, ends, met>>

PairNext ==
  \/ \E p \in GraphPushes : Consume(p) \/ ObserveSpan(p)
  \/ \E p \in GraphPushes \cup {"sweep"} : SweepHold(p)
  \/ SweepTicked \/ GraphTick

PairSpec == PairInit /\ [][PairNext]_graphVars
-----------------------------------------------------------------------------
(* Properties *)

InEdges(s) == {e \in edges : s \in e.client \cup e.server}

\* Every span the pairing took is in exactly one place: waiting in the one entry
\* of its key, in one edge at most, or given up; an edge joins a call to the
\* span it caused; and the counters say what happened.
PairingAccounts ==
  /\ Cardinality(Items) = Len(pending) /\ Len(pending) <= MaxItems
  /\ UNION {pending[i].halves : i \in DOMAIN pending} = {s \in HalfSpans : ends[s] = "pending"}
  /\ \A s \in HalfSpans :
       /\ Cardinality(InEdges(s)) <= (IF ends[s] \in {"completed", "virtual"} THEN 1 ELSE 0)
       /\ ends[s] = "virtual" => SpanInfo[s].service # Empty
  /\ \A e \in edges :
       /\ \A s \in e.client \cup e.server : EdgeKey(s) = e.key
       /\ (e.virtual = "none") = (e.client # {} /\ e.server # {})
  /\ counts["completed"] + counts["virtual"] = Cardinality(edges)
  /\ counts["dropped"] = Cardinality({s \in HalfSpans : ends[s] = "dropped"})

\* Two halves of one call that end apart, each a virtual node's or given up, came
\* a whole window apart: the half that arrives within the window of the other
\* finds it, whatever order the payloads' clock readings and the sweeps took.
PairsMeet ==
  \A s, t \in {x \in HalfSpans : ends[x] \in {"virtual", "unpaired"}} :
    Side(s) = "client" /\ Side(t) = "server" /\ EdgeKey(s) = EdgeKey(t)
    => \/ met[s].at - met[t].opened >= PairWait
       \/ met[t].at - met[s].opened >= PairWait

\* Halves of one call meet, and each is in one place (upsert, expire).
PairingSound == PairingAccounts /\ PairsMeet
=============================================================================
