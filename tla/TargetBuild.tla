---------------------------- MODULE TargetBuild ----------------------------
(***************************************************************************)
(* How one GET of a node's targets turns the node's pods, the Services in  *)
(* front of them and the ServiceMonitors and PodMonitors that select them  *)
(* into scrape targets: scrape.PodTargets and its siblings resolve ports,  *)
(* and server.targetDedup folds what they yield into one target per URL,   *)
(* under a ceiling on the count and on the bytes of a pod's targets.       *)
(*                                                                         *)
(* A URL stands for scheme, address, port and path: the pods, endpoints    *)
(* and Services of the instance differ in port only, so a URL is the pod's *)
(* address and a port. Texts are reduced to their size in bytes.           *)
(***************************************************************************)
EXTENDS Integers, Sequences, FiniteSets
LOCAL INSTANCE SequencesExt
LOCAL INSTANCE FiniteSetsExt

CONSTANTS
  Inventories,  \* the clusters looked at: the node's pods in the store's order, the opted-in
                \* Services of their namespaces sorted by name with the monitor endpoints that
                \* select them, and the PodMonitors' endpoints
  MaxPortsPerPod, MaxTargetBytesPerPod, MaxContributorsPerTarget,
  MaxRelabelChainRules, MaxRelabelChainBytes,
  NoSvc, NoMonitor, NoAuth

VARIABLES
  inventory,  \* the one of Inventories being built
  podAt,      \* index in BuildPods of the pod being built, 0 before the first
  svcAt,      \* index of the Service being walked, 0 for the pod's own annotations
  epAt,       \* endpoints already offered of that Service, or of the PodMonitors
  built,      \* the targets of the whole node so far
  dedup,      \* targetDedup: base, urlOwner is derived, the rest field by field
  offersSeen, \* monitorOffers.seen
  unresolved,    \* unresolvedReports.pending
  asked,      \* unresolvedReports.asked
  offered     \* ghost: what was offered for the pod, in order
buildVars == <<inventory, podAt, svcAt, epAt, built, dedup, offersSeen, unresolved, asked, offered>>

BuildPods           == inventory.pods
BuildServices       == inventory.services
PodMonitorEndpoints == inventory.podMonitors

NoPort == 0
Unparsable == 99  \* an interval that promDuration cannot read

-----------------------------------------------------------------------------
(* Ports *)

RegularContainer(c) == c.type \notin {"init", "ephemeral"}

PortByName(pod, name, regular) ==
  LET decls == FlattenSeq([i \in DOMAIN pod.containers |->
                 IF RegularContainer(pod.containers[i]) = regular
                 THEN SelectSeq(pod.containers[i].ports, LAMBDA d : d.name = name) ELSE <<>>])
  IN IF decls = <<>> THEN NoPort ELSE decls[1].port

\* The declaration of a regular container wins over that of an init or ephemeral one.
ContainerPortByName(pod, name) ==
  IF name = "" THEN NoPort
  ELSE IF PortByName(pod, name, TRUE) # NoPort THEN PortByName(pod, name, TRUE)
  ELSE PortByName(pod, name, FALSE)

\* An annotation entry or a targetPort is [num] or [name].
PortEntry(pod, e) == IF e.num # NoPort THEN e.num ELSE ContainerPortByName(pod, e.name)

\* The first MaxPortsPerPod distinct valid ports of a list.
FirstPorts(ports) ==
  FoldLeft(LAMBDA acc, n : IF n = NoPort \/ Contains(acc, n) \/ Len(acc) >= MaxPortsPerPod
                           THEN acc ELSE Append(acc, n), <<>>, ports)

PodPorts(pod) ==
  FirstPorts(IF pod.portList # <<>>
             THEN [i \in DOMAIN pod.portList |-> PortEntry(pod, pod.portList[i])]
             ELSE FlattenSeq([i \in DOMAIN pod.containers |->
                    [j \in DOMAIN pod.containers[i].ports |-> pod.containers[i].ports[j].port]]))

\* Service ports picked by the annotation, each once, in the order of the entries.
SelectServicePorts(svc) ==
  LET matches(e) == SelectSeq(svc.ports, LAMBDA sp : sp.name = e.name \/ (e.num # NoPort /\ sp.port = e.num))
      picked == FlattenSeq([i \in DOMAIN svc.portList |-> matches(svc.portList[i])])
  IN IF svc.portList = <<>> THEN svc.ports
     ELSE FoldLeft(LAMBDA acc, sp : IF Contains(acc, sp) THEN acc ELSE Append(acc, sp), <<>>, picked)

TargetPodPort(pod, sp) ==
  IF sp.target.name # "" THEN ContainerPortByName(pod, sp.target.name)
  ELSE IF sp.target.num # NoPort THEN sp.target.num ELSE sp.port

\* A ServiceMonitor's port names a port of the Service, its targetPort one of the pod.
MonitorPodPort(pod, svc, ep) ==
  IF ep.port # ""
  THEN LET hit == SelectSeq(svc.ports, LAMBDA sp : sp.name = ep.port)
       IN IF hit = <<>> THEN NoPort ELSE TargetPodPort(pod, hit[1])
  ELSE PortEntry(pod, ep.target)

PodMonitorPodPort(pod, ep) ==
  IF ep.port # "" THEN ContainerPortByName(pod, ep.port) ELSE PortEntry(pod, ep.target)

\* An endpoint refused when its monitor was parsed resolves to nothing.
MonitorEndpoint(pod, svc, ep) == IF ep.refused THEN NoPort ELSE MonitorPodPort(pod, svc, ep)
PodMonitorEndpoint(pod, ep)   == IF ep.refused THEN NoPort ELSE PodMonitorPodPort(pod, ep)

-----------------------------------------------------------------------------
(* Targets *)

Target(pod, n, source, svc, monitor, ep) ==
  [url |-> <<pod.ip, n>>, pod |-> pod.id, source |-> source,
   service |-> svc, monitor |-> monitor, monitors |-> <<>>,
   auth |-> ep.auth, interval |-> ep.interval, timeout |-> ep.timeout, rules |-> ep.rules]

NoEndpoint == [auth |-> NoAuth, interval |-> 0, timeout |-> 0, rules |-> <<>>]

FullView(svc)     == [name |-> svc.name, bytes |-> svc.bytes]
IdentityView(v)   == [v EXCEPT !.bytes = 1]
ServiceViewBytes(v) == IF v = NoSvc THEN 0 ELSE v.bytes

\* The rules of an endpoint's chain are [id, bytes].
RelabelRuleBytes(rules) == FoldLeft(LAMBDA n, r : n + r.bytes, 0, rules)

TargetOwnBytes(t) ==
  1 + ServiceViewBytes(t.service) + Len(t.monitors) + RelabelRuleBytes(t.rules)
    + (IF t.auth = NoAuth THEN 0 ELSE 1) + (IF t.interval = 0 THEN 0 ELSE 1) + (IF t.timeout = 0 THEN 0 ELSE 1)

PodTargets(pod) ==
  IF ~pod.optedIn THEN <<>>
  ELSE [i \in DOMAIN PodPorts(pod) |-> Target(pod, PodPorts(pod)[i], "pod", NoSvc, NoMonitor, NoEndpoint)]

ServiceDoorTargets(pod, svc) ==
  LET sps == SelectServicePorts(svc)
      ports == FirstPorts([i \in DOMAIN sps |-> TargetPodPort(pod, sps[i])])
  IN IF ~svc.optedIn THEN <<>>
     ELSE [i \in DOMAIN ports |-> Target(pod, ports[i], "service", FullView(svc), NoMonitor, NoEndpoint)]

-----------------------------------------------------------------------------
(* The merge of a second monitor endpoint into the target that holds its URL *)

\* Rules are appended up to the first that does not fit the chain's ceilings.
AppendRelabelChain(rules, add) ==
  LET with(k) == rules \o SubSeq(add, 1, k)
      fits(k) == Len(with(k)) <= MaxRelabelChainRules /\ RelabelRuleBytes(with(k)) <= MaxRelabelChainBytes
  IN with(Max({0} \cup {k \in DOMAIN add : fits(k)}))

\* The shorter interval wins and brings its own timeout.
MergeCadence(t, ep) ==
  IF ep.interval = 0 /\ t.interval = 0
  THEN IF t.timeout = 0 THEN [t EXCEPT !.timeout = ep.timeout] ELSE t
  ELSE IF ep.interval = 0 THEN t
  ELSE IF \/ t.interval = 0
          \/ t.interval # Unparsable /\ ep.interval # Unparsable /\ ep.interval < t.interval
       THEN [t EXCEPT !.interval = ep.interval, !.timeout = ep.timeout]
       ELSE t

\* The list of contributors starts with the holder and names each monitor once.
AddContributor(t, monitor) ==
  IF t.monitors = <<>> /\ monitor = t.monitor THEN t
  ELSE LET list == IF t.monitors = <<>> THEN <<t.monitor>> ELSE t.monitors
       IN [t EXCEPT !.monitors = IF Contains(list, monitor) \/ Len(list) >= MaxContributorsPerTarget
                                 THEN list ELSE Append(list, monitor)]

MergeMonitorEndpoint(t, ep) ==
  LET chained == IF t.rules = ep.rules THEN t
                 ELSE [t EXCEPT !.rules = AppendRelabelChain(t.rules, ep.rules)]
      timed   == MergeCadence(chained, ep)
      authed  == IF t.auth = NoAuth THEN [timed EXCEPT !.auth = ep.auth] ELSE timed
  IN IF authed = t THEN t ELSE AddContributor(authed, ep.monitor)

-----------------------------------------------------------------------------
(* targetDedup *)

NoDedup ==
  [base |-> 0, authOwner |-> <<>>, capped |-> 0, cappedBySize |-> 0,
   podBytes |-> 0, bytes |-> 0, trimmed |-> {}]

ResetDedup(d, base) == [NoDedup EXCEPT !.base = base]

\* The position in out of the target of this pod that holds the URL, 0 if none.
UrlOwner(d, out, url) ==
  LET hits == {i \in d.base + 1 .. Len(out) : out[i].url = url}
  IN IF hits = {} THEN 0 ELSE CHOOSE i \in hits : TRUE

ConfiguredTarget(t) == t.monitor # NoMonitor

\* A Service view that a held target gains is cut to its identity when the
\* full one would pass the ceiling; the pod's first target keeps it.
BoundSwapView(d, i, cand, svcBefore, grown) ==
  LET untrimmed == [d EXCEPT !.trimmed = @ \ {cand.url}]
      view == ServiceViewBytes(cand.service)
      cut  == IdentityView(cand.service)
  IN IF cand.service = svcBefore THEN [d |-> d, t |-> cand, grown |-> grown]
     ELSE IF \/ i = d.base + 1 \/ cand.service = NoSvc
             \/ d.bytes + grown <= MaxTargetBytesPerPod
             \/ view <= ServiceViewBytes(svcBefore)
     THEN [d |-> untrimmed, t |-> cand, grown |-> grown]
     ELSE [d |-> [untrimmed EXCEPT !.trimmed = @ \cup {cand.url}],
           t |-> [cand EXCEPT !.service = cut],
           grown |-> grown - view + ServiceViewBytes(cut)]

ChargeSwap(d, grown) == IF grown > 0 THEN [d EXCEPT !.bytes = @ + grown] ELSE d

CarryForward(winner, loser) ==
  IF winner.service = NoSvc THEN [winner EXCEPT !.service = loser.service] ELSE winner

\* add for a URL nobody holds: the count, then the bytes, bound all but the first.
AddNew(d, out, t, pod) ==
  LET cost  == pod.bytes + TargetOwnBytes(t)
      first == Len(out) = d.base
      e     == [d EXCEPT !.podBytes = pod.bytes]
  IN IF Len(out) - d.base >= MaxPortsPerPod
     THEN [d |-> [d EXCEPT !.capped = @ + 1], out |-> out]
     ELSE IF ~first /\ d.bytes + cost > MaxTargetBytesPerPod
     THEN [d |-> [e EXCEPT !.capped = @ + 1, !.cappedBySize = @ + 1], out |-> out]
     ELSE [d |-> [e EXCEPT !.bytes = @ + cost], out |-> Append(out, t)]

\* A monitor's target displaces an annotation's and keeps the Service it reached.
AddHeld(d, out, t, i) ==
  LET held == out[i]
      swap == ConfiguredTarget(t) /\ ~ConfiguredTarget(held)
      gain == held.service = NoSvc /\ t.service # NoSvc
      win  == IF swap THEN CarryForward(t, held) ELSE CarryForward(held, t)
      b    == BoundSwapView(d, i, win, held.service,
                            IF swap THEN TargetOwnBytes(win) - TargetOwnBytes(held)
                            ELSE ServiceViewBytes(win.service))
  IN IF swap \/ gain
     THEN [d |-> ChargeSwap(b.d, b.grown), out |-> [out EXCEPT ![i] = b.t]]
     ELSE [d |-> d, out |-> out]

Add(d, out, t, pod) ==
  LET i == UrlOwner(d, out, t.url)
  IN IF i = 0 THEN AddNew(d, out, t, pod) ELSE AddHeld(d, out, t, i)

AddAll(d, out, ts, pod) ==
  FoldLeft(LAMBDA acc, t : Add(acc.d, acc.out, t, pod), [d |-> d, out |-> out], ts)

\* mergeInto: what the merge adds is charged, the ceiling does not refuse it.
MergeInto(d, out, i, ep) ==
  LET held   == out[i]
      merged == MergeMonitorEndpoint(held, ep)
      adopts == held.auth = NoAuth /\ ep.auth # NoAuth
      paid   == [d EXCEPT !.bytes = @ + TargetOwnBytes(merged) - TargetOwnBytes(held)]
  IN [d |-> IF adopts THEN [paid EXCEPT !.authOwner = Append(@, [url |-> held.url, monitor |-> ep.monitor])] ELSE paid,
      out |-> [out EXCEPT ![i] = merged]]

\* Who supplied the credentials of the target: the adopted monitor, else the holder.
ServingAuth(d, t) ==
  LET by == SelectSeq(d.authOwner, LAMBDA a : a.url = t.url)
  IN IF by = <<>> THEN t.monitor ELSE Last(by).monitor

OfferEndpoint(d, out, pod, svc, source, ep, n) ==
  LET i == UrlOwner(d, out, <<pod.ip, n>>)
  IN IF i # 0 /\ ConfiguredTarget(out[i]) THEN MergeInto(d, out, i, ep)
     ELSE Add(d, out, Target(pod, n, source, svc, ep.monitor, ep), pod)

-----------------------------------------------------------------------------
(* nodeTargets: one pod after the other, one door after the other *)

ThePod == BuildPods[podAt]
TheSvc == BuildServices[svcAt]
Matched(pod, svc) == svc.selects \cap pod.labels # {}

BuildInit ==
  /\ inventory \in Inventories
  /\ podAt = 0 /\ svcAt = 0 /\ epAt = 0
  /\ built = <<>> /\ dedup = NoDedup
  /\ offersSeen = {} /\ unresolved = <<>> /\ asked = {} /\ offered = <<>>

\* What was offered and not refused, for the properties.
Noted(ts, r) ==
  LET taken == SelectSeq(ts, LAMBDA t : UrlOwner(r.d, r.out, t.url) # 0)
  IN [i \in DOMAIN taken |->
        [url |-> taken[i].url, svc |-> taken[i].service # NoSvc, monitor |-> taken[i].monitor,
         auth |-> taken[i].auth, interval |-> taken[i].interval, timeout |-> taken[i].timeout]]

\* The next pod: reset, then the pod's own annotations. A pod that is not
\* scrapeable or that nothing opts in is passed over.
StartPod(k) ==
  LET pod == BuildPods[k]
      r   == AddAll(ResetDedup(dedup, Len(built)), built, PodTargets(pod), pod)
  IN /\ k \in podAt + 1 .. Len(BuildPods)
     /\ podAt = 0 \/ (svcAt > Len(BuildServices) /\ epAt = Len(PodMonitorEndpoints))
     /\ \A j \in podAt + 1 .. k - 1 : ~BuildPods[j].scrapeable
     /\ pod.scrapeable
     /\ podAt' = k /\ svcAt' = 0 /\ epAt' = 0
     /\ dedup' = r.d /\ built' = r.out
     /\ offersSeen' = {} /\ unresolved' = <<>> /\ UNCHANGED <<inventory, asked>>
     /\ offered' = Noted(PodTargets(pod), r)

\* Every endpoint of the Service being walked has been offered.
DoorDone == svcAt \in DOMAIN BuildServices /\ Matched(ThePod, TheSvc) => epAt = Len(TheSvc.endpoints)

\* The next Service: the targets of its annotations.
WalkService ==
  LET svc == BuildServices[svcAt + 1]
      ts  == IF Matched(ThePod, svc) THEN ServiceDoorTargets(ThePod, svc) ELSE <<>>
      r   == AddAll(dedup, built, ts, ThePod)
  IN /\ podAt # 0 /\ svcAt < Len(BuildServices) /\ DoorDone
     /\ svcAt' = svcAt + 1 /\ epAt' = 0
     /\ dedup' = r.d /\ built' = r.out /\ offered' = offered \o Noted(ts, r)
     /\ UNCHANGED <<inventory, podAt, offersSeen, unresolved, asked>>

\* An endpoint of a ServiceMonitor that selects the Service. The same endpoint
\* reaching the same URL through a second Service is not offered again.
OfferServiceMonitor ==
  LET ep == TheSvc.endpoints[epAt + 1]
      n  == MonitorEndpoint(ThePod, TheSvc, ep)
      k  == <<<<ThePod.ip, n>>, ep.id>>
      t  == Target(ThePod, n, "servicemonitor", FullView(TheSvc), ep.monitor, ep)
      r  == OfferEndpoint(dedup, built, ThePod, FullView(TheSvc), "servicemonitor", ep, n)
  IN /\ podAt # 0 /\ svcAt \in DOMAIN BuildServices /\ Matched(ThePod, TheSvc)
     /\ epAt < Len(TheSvc.endpoints)
     /\ epAt' = epAt + 1
     /\ IF n = NoPort
        THEN unresolved' = Append(unresolved, ep) /\ UNCHANGED <<dedup, built, offersSeen, offered>>
        ELSE IF k \in offersSeen
        THEN UNCHANGED <<dedup, built, offersSeen, unresolved, offered>>
        ELSE /\ dedup' = r.d /\ built' = r.out
             /\ offersSeen' = offersSeen \cup {k} /\ offered' = offered \o Noted(<<t>>, r)
             /\ UNCHANGED unresolved
     /\ UNCHANGED <<inventory, podAt, svcAt, asked>>

\* After the Services: an endpoint that resolved through none of them is
\* asked about once per monitor for the whole response.
ReportUnresolved ==
  /\ podAt # 0 /\ svcAt = Len(BuildServices) /\ DoorDone
  /\ svcAt' = svcAt + 1 /\ epAt' = 0
  /\ asked' = asked \cup {unresolved[i].monitor : i \in {j \in DOMAIN unresolved :
                 (unresolved[j].port # "" \/ unresolved[j].target # [num |-> NoPort, name |-> ""])
                 /\ ~\E k \in offersSeen : k[2] = unresolved[j].id}}
  /\ UNCHANGED <<inventory, podAt, built, dedup, offersSeen, unresolved, offered>>

OfferPodMonitor ==
  LET ep == PodMonitorEndpoints[epAt + 1]
      n  == PodMonitorEndpoint(ThePod, ep)
      t  == Target(ThePod, n, "podmonitor", NoSvc, ep.monitor, ep)
      r  == OfferEndpoint(dedup, built, ThePod, NoSvc, "podmonitor", ep, n)
  IN /\ podAt # 0 /\ svcAt > Len(BuildServices) /\ epAt < Len(PodMonitorEndpoints)
     /\ epAt' = epAt + 1
     /\ IF n = NoPort \/ ~(ep.selects \cap ThePod.labels # {})
        THEN UNCHANGED <<dedup, built, offered>>
        ELSE dedup' = r.d /\ built' = r.out /\ offered' = offered \o Noted(<<t>>, r)
     /\ asked' = IF n = NoPort /\ ep.port # "" /\ ep.selects \cap ThePod.labels # {}
                 THEN asked \cup {ep.monitor} ELSE asked
     /\ UNCHANGED <<inventory, podAt, svcAt, offersSeen, unresolved>>

BuildNext ==
  \/ \E k \in DOMAIN BuildPods : StartPod(k)
  \/ WalkService \/ OfferServiceMonitor \/ ReportUnresolved \/ OfferPodMonitor

-----------------------------------------------------------------------------
PodsTargets == SubSeq(built, dedup.base + 1, Len(built))

\* What a pod's targets weigh is never more than what the builder billed for
\* them: every swap, merge and trimmed view is accounted (targetdedup.go:431).
NeverUnderbilled ==
  LET weight(t) == dedup.podBytes + TargetOwnBytes(t)
  IN dedup.bytes >= FoldLeft(LAMBDA n, t : n + weight(t), 0, PodsTargets)

\* The monitor named as the source of a target's credentials did offer
\* exactly those credentials for that URL of that pod (targetdedup.go:238).
CredentialsNamed ==
  podAt # 0 => \A i \in DOMAIN PodsTargets :
    LET t == PodsTargets[i]
    IN t.auth # NoAuth =>
         \E j \in DOMAIN offered : /\ offered[j].url = t.url /\ offered[j].auth = t.auth
                                   /\ offered[j].monitor = ServingAuth(dedup, t)

\* Whatever the order of the doors, a URL has one target; the first monitor that
\* offered it holds it, the Service that reached it is kept, and its cadence is
\* the shortest asked for, interval and timeout of one endpoint.
OffersUnited ==
  \A i \in DOMAIN PodsTargets :
    LET t    == PodsTargets[i]
        seen == SelectSeq(offered, LAMBDA o : o.url = t.url)
        mons == SelectSeq(seen, LAMBDA o : o.monitor # NoMonitor)
        asks == {mons[j].interval : j \in DOMAIN mons} \ {0}
    IN /\ \A j \in DOMAIN PodsTargets : PodsTargets[j].url = t.url => j = i
       /\ mons # <<>> => t.monitor = mons[1].monitor
       /\ (\E j \in DOMAIN seen : seen[j].svc) => t.service # NoSvc
       /\ asks # {} /\ Unparsable \notin asks
            => \E j \in DOMAIN mons : /\ mons[j].interval = Min(asks) /\ t.interval = Min(asks)
                                      /\ mons[j].timeout = t.timeout

-----------------------------------------------------------------------------
(***************************************************************************)
(* How a monitor endpoint's metricRelabelings become the chain of keep and *)
(* drop rules that the build is given. The other actions are not           *)
(* supported: they are reported and left out. A kept rule that reads a     *)
(* label one of them would have written no longer means what its author    *)
(* wrote, so the whole endpoint is refused rather than filtered            *)
(* differently.                                                            *)
(*                                                                         *)
(* A rule's regex is the set of labels it matches, its size a number of    *)
(* bytes, its compiled size a cost; err is why it does not compile.        *)
(***************************************************************************)
CONSTANTS
  RelabelSpecs,         \* the chains looked at: sequences of rules
  MaxRelabelRules, MaxRelabelChainCost, MaxTrackedWrites, MaxRelabelIgnored

VARIABLES
  spec,        \* the endpoint's metricRelabelings
  ruleAt,      \* rules looked at so far
  kept,        \* positions in spec of the rules that were kept
  reported,    \* entries of ignored, in the order they were added
  chainCapped,
  refusedBy,   \* the field that refuses the endpoint, "" while none does
  writes       \* relabelWrites: all, names, preds, cost
relabelVars == <<spec, ruleAt, kept, reported, chainCapped, refusedBy, writes>>

\* A source label costs its one byte and its framing in the served document.
RelabelLabelBytes == 3
RuleBytes(r) == r.bytes + Len(r.src) * (1 + RelabelLabelBytes)
KeepDrop(r) == r.action \in {"keep", "drop"}
SumOver(ps, f(_)) == FoldSet(LAMBDA i, n : n + f(spec[i]), 0, ps)
ChainBytes == SumOver(kept, RuleBytes)
ChainCost == SumOver(kept, LAMBDA r : r.cost)

RelabelInit ==
  /\ spec \in RelabelSpecs /\ ruleAt = 0 /\ kept = {} /\ reported = <<>>
  /\ chainCapped = FALSE /\ refusedBy = ""
  /\ writes = [all |-> FALSE, names |-> {}, preds |-> <<>>, cost |-> 0]

\* report: an entry once, and after the first few only that there are more.
Report(entry) ==
  IF Contains(reported, entry) THEN reported
  ELSE IF Cardinality({i \in DOMAIN reported : reported[i] \notin {"capped", "more"}}) < MaxRelabelIgnored
       THEN Append(reported, entry)
  ELSE IF Contains(reported, "more") THEN reported ELSE Append(reported, "more")

WriteAll(w) == [w EXCEPT !.all = TRUE]

\* note: which labels an unsupported rule may leave different. What cannot be
\* tracked within the bounds counts as writing every label.
Note(w, r) ==
  IF w.all THEN w
  ELSE CASE r.action \in {"replace", "hashmod", "lowercase", "uppercase"} ->
              IF r.target = "" THEN w
              ELSE IF r.target = "$" \/ Cardinality(w.names) >= MaxTrackedWrites THEN WriteAll(w)
              ELSE [w EXCEPT !.names = @ \cup {r.target}]
         [] r.action \in {"labeldrop", "labelkeep"} ->
              IF \/ Len(w.preds) >= MaxTrackedWrites \/ r.bytes > MaxRelabelChainBytes
                 \/ r.err # "" \/ w.cost + r.cost > MaxRelabelChainCost
              THEN WriteAll(w)
              ELSE [w EXCEPT !.cost = @ + r.cost,
                             !.preds = Append(@, [match |-> r.match, removes |-> r.action = "labeldrop"])]
         [] r.action = "labelmap" -> WriteAll(w)
         [] OTHER -> w

\* Mutant of Touches: writes that could not be tracked are forgotten.
TouchesTracked(w, label) ==
  \/ label \in w.names
  \/ \E p \in ToSet(w.preds) : (label \in p.match) = p.removes

Touches(w, label) ==
  \/ w.all \/ label \in w.names
  \/ \E p \in ToSet(w.preds) : (label \in p.match) = p.removes

More == ruleAt < Len(spec) /\ refusedBy = ""
Rule == spec[ruleAt + 1]
Passed == ruleAt' = ruleAt + 1

\* An action other than keep and drop: reported, and what it writes is noted.
Unsupported ==
  /\ More /\ ~KeepDrop(Rule) /\ Passed
  /\ IF chainCapped THEN UNCHANGED <<reported, writes>>
     ELSE /\ reported' = Report(IF Rule.action = "" THEN "replace(default)" ELSE Rule.action)
          /\ writes' = Note(writes, IF Rule.action = "" THEN [Rule EXCEPT !.action = "replace"] ELSE Rule)
  /\ UNCHANGED <<spec, kept, chainCapped, refusedBy>>

\* A separator of its own only matters when several labels are joined by it.
OddSeparator(r) == r.oddSeparator /\ Len(r.src) > 1

SeparatorIgnored ==
  /\ More /\ KeepDrop(Rule) /\ OddSeparator(Rule) /\ Passed
  /\ reported' = IF chainCapped THEN reported ELSE Report("separator")
  /\ UNCHANGED <<spec, kept, chainCapped, refusedBy, writes>>

FitsChain(r) == Cardinality(kept) < MaxRelabelRules /\ ChainBytes + RuleBytes(r) <= MaxRelabelChainBytes
ReadsWritten(r) == \E i \in DOMAIN r.src : Touches(writes, r.src[i])

\* An oversize rule, one that reads a written label, or one that does not
\* compile refuses the endpoint; one past the ceiling caps the chain there.
KeepOrDrop ==
  /\ More /\ KeepDrop(Rule) /\ ~OddSeparator(Rule) /\ Passed
  /\ LET refuse(entry, field) == /\ refusedBy' = field /\ reported' = Append(reported, entry)
                                 /\ kept' = {} /\ UNCHANGED chainCapped
         cap == /\ reported' = Append(reported, "capped") /\ chainCapped' = TRUE
                /\ UNCHANGED <<kept, refusedBy>>
     IN IF RuleBytes(Rule) > MaxRelabelChainBytes THEN refuse("oversize", "chain")
        ELSE IF chainCapped THEN UNCHANGED <<kept, reported, chainCapped, refusedBy>>
        ELSE IF ~FitsChain(Rule) THEN cap
        ELSE IF ReadsWritten(Rule) THEN refuse("dependent", "dependent")
        ELSE IF Rule.err # "" THEN refuse(Rule.err, "chain")
        ELSE IF ChainCost + Rule.cost > MaxRelabelChainCost THEN cap
        ELSE kept' = kept \cup {ruleAt + 1} /\ UNCHANGED <<reported, chainCapped, refusedBy>>
  /\ UNCHANGED <<spec, writes>>

RelabelNext == Unsupported \/ SeparatorIgnored \/ KeepOrDrop

-----------------------------------------------------------------------------
\* What Prometheus would have done to a label with a rule that is left out.
MayChange(r, label) ==
  CASE r.action \in {"", "replace", "hashmod", "lowercase", "uppercase"} -> r.target \in {label, "$"}
    [] r.action = "labeldrop" -> label \in r.match
    [] r.action = "labelkeep" -> label \notin r.match
    [] r.action = "labelmap"  -> TRUE
    [] OTHER -> FALSE

\* A kept rule decides on the values the exporter sent exactly as it would have
\* in the whole chain: no earlier rule that was left out may change a label it
\* reads, whatever bound on tracked writes was hit (relabel.go:270).
KeptRulesReadOriginals ==
  \A k \in kept : \A i \in DOMAIN spec[k].src :
    \A j \in 1 .. k - 1 : ~KeepDrop(spec[j]) => ~MayChange(spec[j], spec[k].src[i])
=============================================================================
