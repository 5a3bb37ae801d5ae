------------------------------- MODULE MCExport -------------------------------
(***************************************************************************)
(* The parts of the export side, each checked on its own small instance:   *)
(* part says which one a behaviour is about, and the others keep still.    *)
(***************************************************************************)
EXTENDS ExportBuffer, ExportClient, Pools, Destinations, Split, LogMetrics, TLC

CONSTANTS g1, bad, c1, c2, c3, m1, m2, b1, b2, w1, w2, r1, r2

VARIABLE part
suiteVars == <<part, vars, clientVars, poolVars, destVars, splitVars, lmVars>>

\* Two exports of one signal, one of them raw, and one of the other.
MCKindsOf == [c \in Calls |-> CASE c = c1 -> {"logs"} [] c = c2 -> {"metrics"} [] OTHER -> {"raw"}]

\* The flags' collector, plain or with its CA; a section with a client pair and
\* a header that differs from the flags' in case.
H(n, w, f) == [name |-> n, written |-> w, from |-> f]
Flags == [endpoint |-> "base", protocol |-> "grpc", token |-> "flag", ca |-> "", cert |-> "", key |-> "",
          skip |-> "flag", insecure |-> FALSE, headers |-> {H("Org", "Org", "flag")}, gzip |-> TRUE, level |-> 1]
MCFlagConfigs == { Flags, [Flags EXCEPT !.insecure = TRUE, !.token = "", !.level = 2],
                   [Flags EXCEPT !.protocol = "http", !.ca = "flag"] }
MCSections == { [headers |-> {}, cert |-> "", key |-> ""],
                [headers |-> {H("Org", "org", "section")}, cert |-> "section", key |-> "section"] }
MCChoices == { NoOverride, [endpoint |-> "base", token |-> "override"], [endpoint |-> "other"],
               [endpoint |-> "other", ca |-> "override", protocol |-> "http",
                headers |-> {H("Authorization", "authorization", "override")}],
               [cert |-> "override", endpoint |-> "other"], [insecure |-> TRUE],
               [endpoint |-> "base", headers |-> {H("Content-Length", "content-length", "override")}] }

\* None, one resource of up to two scopes, and three resources, with frames and points
\* on both sides of the cap.
Metric == [size : {1, 20}, points : {<< >>, <<0>>, <<3, 0, 3>>, <<30>>, [i \in 1..8 |-> 0]}]
MetricSeqs == {<< >>} \cup {<<m>> : m \in Metric}
              \cup {<<m, [size |-> 1, points |-> p]>> : m \in Metric, p \in {<<0>>, <<3, 9, 3>>}}
Scope == [size : {1, 9}, metrics : MetricSeqs]
Scope2 == { [size |-> 1, metrics |-> ms] :
              ms \in {<< >>, <<[size |-> 1, points |-> <<9, 9, 9>>]>>, <<[size |-> 1, points |-> <<40>>]>>} }
MCPayloads ==
  {<< >>}
  \cup { <<[size |-> b, scopes |-> ss]>> : b \in {2, 21},
      ss \in {<< >>} \cup {<<s>> : s \in Scope} \cup {<<s, t>> : s \in Scope, t \in Scope2} }
  \cup { <<[size |-> b, scopes |-> << >>], [size |-> c, scopes |-> <<s>>],
           [size |-> 1, scopes |-> <<[size |-> 1, metrics |-> <<[size |-> 1, points |-> <<2>>]>>]>>]>> :
         b \in {2, 40}, c \in {3, 20}, s \in Scope }

\* Two streams: of two rules, for one resource or two; of one rule that admits only
\* one of them; and of the registry, one of them read from a function.
Two(x, y) == [a |-> x, b |-> y]
MCShapes ==
  { [role |-> "rules", obs |-> 2, time |-> 3, kind |-> k, series |-> Two("s", "t"),
     resource |-> IF k.a = k.b THEN Two(1, 2) ELSE Two(1, 1), cap |-> 0, func |-> ""] :
      k \in {Two("counter", "counter"), Two("gauge", "gauge"), Two("window", "window"), Two("summary", "window")} }
  \cup { [role |-> "rules", obs |-> 2, time |-> 3, kind |-> Two("counter", "counter"), series |-> Two("s", "s"),
          resource |-> Two(1, 2), cap |-> 1, func |-> ""] }
  \cup { [role |-> "registry", obs |-> 3, time |-> 1, kind |-> Two("counter", k), series |-> Two("s", "t"),
          resource |-> Two(1, 1), cap |-> 0, func |-> "a"] : k \in {"counter", "level"} }

SuiteInit ==
  /\ part \in {"buffer", "client", "pools", "destinations", "split", "counts"}
  /\ IF part = "buffer" THEN TRUE ELSE collector = "up"
  /\ IF part = "pools" THEN TRUE
     ELSE post = [p \in Posts |-> [pc |-> "idle", kind |-> "http", buf |-> none, writer |-> none]]
  /\ IF part = "destinations" THEN TRUE
     ELSE /\ flagBase = Flags /\ section = [headers |-> {}, cert |-> "", key |-> ""] /\ pinned = 0
          /\ override = [s \in {"logs", "metrics", "traces"} |-> NoOverride]
  /\ IF part = "split" THEN TRUE ELSE payload = << >>
  /\ IF part = "counts" THEN TRUE ELSE shape = CHOOSE s \in LmShapes : TRUE
  /\ Init /\ ClientInit /\ PoolsInit /\ DestInit /\ SplitInit /\ LmInit

SuiteNext ==
  \/ part = "buffer" /\ Next /\ UNCHANGED <<part, clientVars, poolVars, destVars, splitVars, lmVars>>
  \/ part = "client" /\ ClientNext /\ UNCHANGED <<part, vars, poolVars, destVars, splitVars, lmVars>>
  \/ part = "pools" /\ PoolsNext /\ UNCHANGED <<part, vars, clientVars, destVars, splitVars, lmVars>>
  \/ part = "destinations" /\ DestNext /\ UNCHANGED <<part, vars, clientVars, poolVars, splitVars, lmVars>>
  \/ part = "counts" /\ LmNext /\ UNCHANGED <<part, vars, clientVars, poolVars, destVars, splitVars>>

SuiteSpec == SuiteInit /\ [][SuiteNext]_suiteVars
=============================================================================
