----------------------------- MODULE MCMetadata -----------------------------
(***************************************************************************)
(* The parts of the metadata service and of its client, each checked on    *)
(* its own small instance: part says which one a behaviour is about, and   *)
(* the others keep still.                                                  *)
(***************************************************************************)
EXTENDS PodStore, MetaClient, Bearer, NodeTargets, TargetBuild, TLC

CONSTANTS pod1, pod2, pod3, n1, n2, web, db, ip1, ip2, c1, c2, c3

VARIABLE part
suiteVars == <<part, vars, metaVars, bearerVars, discoveryVars, buildVars, relabelVars>>

\* The pod store: pod1 and pod2 are incarnations of one name, as of a
\* StatefulSet replica; pod3 is another pod that competes for an address or shares a node.
Pods3    == {pod1, pod2, pod3}
SameName == (pod1 :> web @@ pod2 :> web @@ pod3 :> db)

Pod(node, ips, done, terminating, ids) ==
    [node |-> node, ips |-> ips, done |-> done, terminating |-> terminating, ids |-> ids]

\* pod1 is scheduled, gets its address, restarts a container, drains and finishes;
\* pod2 takes over its name and address on another node; pod3 competes for its second
\* address.
Lives ==
    (pod1 :> {Pod(NoNode, <<>>, FALSE, FALSE, {}), Pod(n1, <<ip1>>, FALSE, FALSE, {c1}),
           Pod(n1, <<ip1>>, FALSE, TRUE, {c2}), Pod(n1, <<ip1>>, TRUE, FALSE, {c1, c2})}
       @@ pod2 :> {Pod(n2, <<ip1, ip2>>, FALSE, FALSE, {c3})}
       @@ pod3 :> {Pod(n1, <<ip2>>, FALSE, FALSE, {})})

\* Two goroutines of the receiver, or of the client.
MCSides == {[a |-> s, b |-> s] : s \in {"file", "rotating"}}
MCCalls == [a |-> 2, b |-> 1, l1 |-> 2, l2 |-> 1]

\* The caches of target discovery: two incarnations of one Service name, and
\* budgets that let each source change under the requests it can disturb.
MCSvcName == ("u1" :> "web" @@ "u2" :> "web")
MCRequestNode == [a |-> "n1", b |-> "n1", c |-> "n1", d |-> "n2"]
Budget(pod, owner, svc, mon, ra, rb, rc, rd) ==
  [changes |-> [pods |-> pod, owners |-> owner, services |-> svc, monitors |-> mon],
   runs |-> [a |-> ra, b |-> rb, c |-> rc, d |-> rd]]
MCBudgets ==
  {Budget(0, 0, 1, 0, 1, 2, 0, 0), Budget(0, 0, 0, 1, 1, 2, 0, 0), Budget(0, 0, 0, 3, 0, 0, 2, 0),
   Budget(1, 0, 0, 0, 1, 1, 0, 0), Budget(0, 1, 0, 0, 1, 1, 0, 0), Budget(0, 0, 4, 0, 0, 0, 0, 0),
   Budget(1, 0, 0, 0, 1, 0, 0, 1), Budget(0, 0, 1, 1, 1, 1, 0, 0)}

\* The build: pods on the host network share an address; two Services reach the
\* first, monitors with and without credentials and cadence select them.
Num(n)   == [num |-> n, name |-> ""]
Named(s) == [num |-> 0, name |-> s]
Endpoint(id, mon, port, target, auth, interval, timeout, rules) ==
  [id |-> id, monitor |-> mon, port |-> port, target |-> target, auth |-> auth, interval |-> interval,
   timeout |-> timeout, rules |-> rules, refused |-> id = "e4", selects |-> {"web"}]
MCContainers ==
  << [type |-> "init", ports |-> <<[name |-> "http", port |-> 1]>>],
     [type |-> "app",  ports |-> <<[name |-> "http", port |-> 2], [name |-> "admin", port |-> 3]>>] >>
BuildPod(id, opted, list, ok, bytes) ==
  [id |-> id, ip |-> "host", optedIn |-> opted, portList |-> list, containers |-> MCContainers,
   labels |-> {"web"}, scrapeable |-> ok, bytes |-> bytes]
BuildService(name, opted, list, eps, bytes) ==
  [name |-> name, optedIn |-> opted, portList |-> list, selects |-> {"web"}, endpoints |-> eps, bytes |-> bytes,
   ports |-> <<[name |-> "http",  port |-> 8, target |-> Named("http")],
               [name |-> "admin", port |-> 9, target |-> Num(3)]>>]
Rule1 == [id |-> "r1", bytes |-> 6]
Rule2 == [id |-> "r2", bytes |-> 9]
Rule3 == [id |-> "r3", bytes |-> 1]
Rule5 == [id |-> "r5", bytes |-> 1]
SmEndpoints ==
  {Endpoint("e1", "m1", "http", Num(0), NoAuth, 2, 0, <<Rule1>>),
   Endpoint("e2", "m2", "http", Num(0), "cred2", 1, 1, <<Rule2, Rule3>>),
   Endpoint("e3", "m3", "", Named("admin"), "cred3", 0, 2, <<>>),
   Endpoint("e4", "m4", "http", Num(0), "cred3", 0, 2, <<>>),
   Endpoint("e5", "m1", "gone", Num(0), NoAuth, 0, 0, <<>>)}
PmEndpoints ==
  {Endpoint("p1", "m5", "http", Num(0), "cred5", Unparsable, 1, <<Rule5>>),
   Endpoint("p2", "m6", "", Num(3), "cred2", 1, 0, <<>>)}
MCInventories ==
  {[pods |-> <<BuildPod("a", o, l, TRUE, 2), BuildPod("b", TRUE, <<>>, FALSE, 1), BuildPod("c", TRUE, <<Num(3)>>, TRUE, w)>>,
    services |-> <<BuildService("s1", so, sl, <<x, y>>, 3), BuildService("s2", TRUE, <<>>, <<x>>, 2)>>,
    podMonitors |-> <<z>>] :
     o \in BOOLEAN, l \in {<<>>, <<Num(2)>>, <<Named("admin"), Num(2)>>}, w \in {1, 5}, so \in BOOLEAN,
     sl \in {<<>>, <<Num(9)>>}, x \in SmEndpoints, y \in SmEndpoints, z \in PmEndpoints}

\* Chains of up to three rules over two labels.
RelabelRule(action, src, target, match, bytes, cost, err, odd) ==
  [action |-> action, src |-> src, target |-> target, match |-> match, bytes |-> bytes,
   cost |-> cost, err |-> err, oddSeparator |-> odd]
MCRules ==
  {RelabelRule("drop", <<"x">>, "", {}, 1, 1, "", FALSE), RelabelRule("keep", <<"y", "x">>, "", {}, 1, 1, "", FALSE),
   RelabelRule("keep", <<"y", "x">>, "", {}, 1, 1, "", TRUE), RelabelRule("drop", <<"x">>, "", {}, 11, 1, "", FALSE),
   RelabelRule("drop", <<"y">>, "", {}, 1, 3, "", FALSE), RelabelRule("drop", <<"y">>, "", {}, 1, 1, "invalid", FALSE),
   RelabelRule("", <<>>, "x", {}, 0, 0, "", FALSE), RelabelRule("replace", <<>>, "y", {}, 0, 0, "", FALSE),
   RelabelRule("hashmod", <<>>, "$", {}, 0, 0, "", FALSE), RelabelRule("labelkeep", <<>>, "", {"x"}, 1, 1, "", FALSE),
   RelabelRule("labeldrop", <<>>, "", {"x"}, 1, 1, "", FALSE), RelabelRule("labeldrop", <<>>, "", {"y"}, 1, 1, "", FALSE),
   RelabelRule("labelmap", <<>>, "", {}, 1, 1, "", FALSE), RelabelRule("keepequal", <<>>, "x", {}, 1, 1, "", FALSE)}
MCRelabelSpecs == UNION {[1 .. n -> MCRules] : n \in 1 .. 3}

\* A part that is not looked at starts from one fixed state.
SuiteInit ==
  /\ part \in {"store", "client", "bearer", "discovery", "build", "relabel"}
  /\ IF part = "bearer" THEN TRUE ELSE sideOf = [a |-> "file", b |-> "file"]
  /\ IF part = "discovery" THEN TRUE
     ELSE changes = Budget(0, 0, 4, 0, 0, 0, 0, 0).changes /\ runs = Budget(0, 0, 4, 0, 0, 0, 0, 0).runs
  /\ IF part = "build" THEN TRUE ELSE inventory = CHOOSE i \in Inventories : TRUE
  /\ IF part = "relabel" THEN TRUE ELSE spec = CHOOSE c \in [1 .. 1 -> MCRules] : TRUE
  /\ Init /\ MetaInit /\ BearerInit /\ DiscoveryInit /\ BuildInit /\ RelabelInit

SuiteNext ==
  \/ part = "store" /\ Next /\ UNCHANGED <<part, metaVars, bearerVars, discoveryVars, buildVars, relabelVars>>
  \/ part = "client" /\ MetaNext /\ UNCHANGED <<part, vars, bearerVars, discoveryVars, buildVars, relabelVars>>
  \/ part = "bearer" /\ BearerNext /\ UNCHANGED <<part, vars, metaVars, discoveryVars, buildVars, relabelVars>>
  \/ part = "discovery" /\ DiscoveryNext /\ UNCHANGED <<part, vars, metaVars, bearerVars, buildVars, relabelVars>>
  \/ part = "build" /\ BuildNext /\ UNCHANGED <<part, vars, metaVars, bearerVars, discoveryVars, relabelVars>>
  \/ part = "relabel" /\ RelabelNext /\ UNCHANGED <<part, vars, metaVars, bearerVars, discoveryVars, buildVars>>

SuiteSpec == SuiteInit /\ [][SuiteNext]_suiteVars

-----------------------------------------------------------------------------
\* What a discovered target carries is what was offered for it: its bytes are
\* billed, its credentials named, its offers united (targetdedup.go), and the
\* rules it keeps decide as the whole chain would (relabel.go).
DiscoverySound == NeverUnderbilled /\ CredentialsNamed /\ OffersUnited /\ KeptRulesReadOriginals
=============================================================================
