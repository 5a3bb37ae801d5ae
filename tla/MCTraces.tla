------------------------------ MODULE MCTraces ------------------------------
(***************************************************************************)
(* The parts of the trace tier, and the processes that run them and the    *)
(* other pipelines, each checked on its own small instance: part says      *)
(* which one a behaviour is about, and the others keep still.              *)
(***************************************************************************)
EXTENDS TailBuffer, CumAgg, EdgePairing, ShardRing, Lifecycle, TLC

CONSTANTS p1, p2, a1, a2, b1, u1, a, b, none

VARIABLE part
suiteVars == <<part, vars, aggVars, graphVars, ringVars, lifeVars>>

\* The tail-sampling buffer: two senders, spans of two traces and one without.
TwoSenders == (p1 :> <<a1, b1, u1>> @@ p2 :> <<a2>>)
Twice == (p1 :> 1 @@ p2 :> 2)
Traces == (a1 :> a @@ a2 :> a @@ b1 :> b @@ u1 :> none)

\* Aggregation: two payloads over three series, one of them observed by both,
\* and room for two.
MCSpansOf == (p1 :> <<"x", "y">> @@ p2 :> <<"x", "z">>)
MCAggTries == (p1 :> 1 @@ p2 :> 2 @@ "ticker" :> 2 @@ "final" :> 1)

\* Pairing: a call to a database that names its peer and its two answers, the
\* second a retry; a producer; a span without a trace id and one of no edge.
Half(k, t, i, q, peer, db) ==
  [kind |-> k, service |-> "svc", trace |-> t, id |-> i, parent |-> q, failed |-> FALSE, peer |-> peer, db |-> db]
MCSpanInfo ==
  [c1 |-> Half("client", "t", "1", "", "db", TRUE), s1 |-> Half("server", "t", "2", "1", "", FALSE),
   s2 |-> Half("server", "t", "3", "1", "", TRUE), m1 |-> Half("producer", "t", "4", "", "", FALSE),
   n1 |-> Half("consumer", "", "5", "4", "q", FALSE), i1 |-> Half("internal", "t", "6", "", "", FALSE)]
MCGraphSpans == (p1 :> <<"c1", "m1", "n1">> @@ p2 :> <<"s1", "s2", "i1">>)

\* The ring: two shards with one token in common, listed in two orders, and a
\* process outside the ring; a payload with two traces and a span without one.
MCNameLists == [s1 |-> {<<"s1", "s2">>, <<"s2", "s1", "s2">>}, s2 |-> {<<"s1", "s2">>}, s3 |-> {<<"s1", "s2">>}]
MCTokensOf == [s1 |-> {2, 4}, s2 |-> {4, 6}]
MCRank == [s1 |-> 1, s2 |-> 2]
MCTraceSpans == (p1 :> {"x1", "y1", "z1"} @@ p2 :> {"x2", "y2"})
MCKeyOf == [x1 |-> 3, x2 |-> 3, y1 |-> 5, y2 |-> 7, z1 |-> 99]

\* The roles: a shard of the tier whose listeners may fail, a singleton with
\* scripts and a destination of its own, a node agent, the metadata service,
\* and the dry runs of both.
Process(role, on, fatal) == [role |-> role, on |-> on, fatal |-> fatal]
MCConfs ==
  { Process("agent", {"buffer", "self", "tier", "tail", "span", "tierIngest", "cgroup"}, {"receiver", "tierIngest"}),
    Process("agent", {"metadata", "debug", "ingest", "events", "azure", "logMetrics", "transforms", "routes"},
            {"events", "debugServer"}),
    Process("agent", {"positions", "buffer", "self", "logs", "journald", "scraper", "cgroup", "logMetrics"}, {}),
    Process("agent", {"checkConfig"}, {}), Process("service", {"checkConfig"}, {}),
    Process("service", {"self", "monitors", "scrapeAuth"}, {}) }

SuiteInit ==
  /\ part \in {"tail", "aggregate", "pair", "ring", "life"}
  /\ IF part = "life" THEN TRUE ELSE conf = Process("agent", {"checkConfig"}, {})
  /\ IF part = "ring" THEN TRUE ELSE names = [e \in Entries |-> <<"s1", "s2">>]
  /\ Init /\ AggInit /\ PairInit /\ RingInit /\ LifeInit

SuiteNext ==
  \/ part = "tail" /\ Next /\ UNCHANGED <<part, aggVars, graphVars, ringVars, lifeVars>>
  \/ part = "aggregate" /\ AggNext /\ UNCHANGED <<part, vars, graphVars, ringVars, lifeVars>>
  \/ part = "pair" /\ PairNext /\ UNCHANGED <<part, vars, aggVars, ringVars, lifeVars>>
  \/ part = "ring" /\ RingNext /\ UNCHANGED <<part, vars, aggVars, graphVars, lifeVars>>
  \/ part = "life" /\ LifeNext /\ UNCHANGED <<part, vars, aggVars, graphVars, ringVars>>

SuiteSpec == SuiteInit /\ [][SuiteNext]_suiteVars
=============================================================================
