---------------------------- MODULE NodeTargets ----------------------------
(***************************************************************************)
(* The caches between the informers and a GET of a node's scrape targets:  *)
(* the Service index and its per-namespace sorted lists, the monitor       *)
(* index, the join of monitors with Services, the list of PodMonitors, the *)
(* credential references monitors name, and the entity tags of documents   *)
(* already served, which let a poll be answered 304 without building.      *)
(* Each is validated by generations read without a lock.                   *)
(*                                                                         *)
(* A source is the version of what it published; a document is the version *)
(* of each source that went into it (TargetBuild has the content).         *)
(***************************************************************************)
EXTENDS Integers, FiniteSets

CONSTANTS
  SvcUids, SvcName,     \* Services and the name each carries: two may share one
  MonitorKeys,          \* ServiceMonitors and PodMonitors: one generation for both
  TargetRequests,       \* requests that may be in flight at once
  AuthRequests,         \* those of them that ask for a scrape credential
  RequestNode,          \* the node each asks for
  MaxNodeTargetETags,
  DiscoveryBudgets      \* bounds: how often each source may change, how often each request may run

VARIABLES
  svcs, byName,         \* Service index: versions held per UID, UID per name
  svcLatest,            \* ghost: the UID each name was last given to and not deleted
  svcGen, svcPub,       \* its generation, and what readers under the lock see
  mons, rejected,       \* monitor index: versions held, versions refused
  monGen, monPub,
  podPub, ownerPub,     \* pod store per node and owner metadata: generation = version
  writing,              \* index whose write lock is held, with its pending content
  sorted, sortedGen,    \* Service index: sorted list memo (version, or -1) and its generation
  joined, podMons, authRefs,   \* caches: version, generations, valid
  joinHolder,           \* request that holds monMu, or NoRequest
  etags,                \* targetsETags per node
  changes, runs,        \* what is left of the budget
  req                   \* per request: program counter and locals
discoveryVars == <<svcs, byName, svcLatest, svcGen, svcPub, mons, rejected, monGen, monPub,
                   podPub, ownerPub, writing, sorted, sortedGen, joined, podMons, authRefs,
                   joinHolder, etags, changes, runs, req>>
indexVars == <<svcs, byName, svcLatest, svcGen, svcPub, mons, rejected, monGen, monPub, podPub,
               ownerPub, writing, changes>>
cacheVars == <<sorted, sortedGen, joined, podMons, authRefs, joinHolder, etags>>

NoRequest == "none"
ASSUME DiscoveryAssumption == NoRequest \notin TargetRequests /\ "none" \notin SvcUids

NoDoc == [pods |-> -1, owners |-> -1, services |-> -1, monitors |-> -1, joinedSvcs |-> -1, podMonitors |-> -1]
TargetNodes == {RequestNode[r] : r \in TargetRequests}
NoRun == [pc |-> "idle", tag |-> NoDoc, since |-> NoDoc, at |-> [pods |-> 0, owners |-> 0, services |-> 0, monitors |-> 0],
         doc |-> NoDoc, gen |-> 0, usable |-> TRUE, src |-> "pods"]
Free == writing = "none"

DiscoveryInit ==
  /\ svcs = [u \in SvcUids |-> 0] /\ byName = [n \in {SvcName[u] : u \in SvcUids} |-> "none"]
  /\ svcLatest = byName
  /\ svcGen = 0 /\ svcPub = 0
  /\ mons = [m \in MonitorKeys |-> 0] /\ rejected = [m \in MonitorKeys |-> 0]
  /\ monGen = 0 /\ monPub = 0
  /\ podPub \in [TargetNodes -> {1}] /\ ownerPub = 0 /\ writing = "none"
  /\ sorted = -1 /\ sortedGen = 0
  /\ joined = [mon |-> -1, svc |-> -1, monGen |-> 0, svcGen |-> 0, valid |-> FALSE]
  /\ podMons = [mon |-> -1, gen |-> 0, valid |-> FALSE]
  /\ authRefs = [mon |-> -1, gen |-> 0, valid |-> FALSE]
  /\ joinHolder = NoRequest
  /\ etags = [n \in TargetNodes |-> NoDoc]
  /\ \E b \in DiscoveryBudgets : changes = b.changes /\ runs = b.runs
  /\ req = [r \in TargetRequests |-> NoRun]

-----------------------------------------------------------------------------
(* The informers. The generation moves before the lock is released: a      *)
(* reader may see the new generation while the content is still locked.    *)

CanChange(s) == changes[s] > 0 /\ changes' = [changes EXCEPT ![s] = @ - 1]

Replacing(u, prev, version) ==
  [v \in SvcUids |-> IF v = u THEN version ELSE IF v = prev THEN 0 ELSE svcs[v]]

\* Upsert. A resync redelivers the version already held and is a no-op. A name
\* held under another UID means the delete was missed: the previous record goes.
UpsertService(u, version) ==
  LET prev == byName[SvcName[u]]
  IN /\ Free /\ CanChange("services")
     /\ version \in {svcs[u], svcs[u] + 1} /\ version > 0
     /\ prev = u \/ svcs[u] = 0
     /\ IF svcs[u] = version
        THEN UNCHANGED <<svcs, byName, svcLatest, svcGen, writing>>
        ELSE /\ svcGen' = svcGen + 1 /\ writing' = "services"
             /\ svcs' = Replacing(u, prev, version)
             /\ byName' = [byName EXCEPT ![SvcName[u]] = u]
             /\ svcLatest' = [svcLatest EXCEPT ![SvcName[u]] = u]
     /\ UNCHANGED <<svcPub, mons, rejected, monGen, monPub, podPub, ownerPub, cacheVars, runs, req>>

\* Delete. A UID that was already replaced under its name is not held any more.
DeleteService(u) ==
  /\ Free /\ CanChange("services")
  /\ IF svcs[u] = 0
     THEN UNCHANGED <<svcs, byName, svcGen, writing>>
     ELSE /\ svcGen' = svcGen + 1 /\ writing' = "services"
          /\ svcs' = [svcs EXCEPT ![u] = 0]
          /\ byName' = IF byName[SvcName[u]] = u THEN [byName EXCEPT ![SvcName[u]] = "none"] ELSE byName
  /\ svcLatest' = IF svcLatest[SvcName[u]] = u THEN [svcLatest EXCEPT ![SvcName[u]] = "none"] ELSE svcLatest
  /\ UNCHANGED <<svcPub, mons, rejected, monGen, monPub, podPub, ownerPub, cacheVars, runs, req>>

\* upsertMonitor: a spec that does not parse drops what the key held before.
UpsertMonitor(m, version, parses) ==
  LET refused == ~parses /\ mons[m] = 0
      same    == parses /\ mons[m] = version
  IN /\ Free /\ CanChange("monitors")
     /\ version \in {mons[m], mons[m] + 1} /\ version > 0
     /\ rejected' = [rejected EXCEPT ![m] = IF parses THEN 0 ELSE version]
     /\ mons' = [mons EXCEPT ![m] = IF parses THEN version ELSE 0]
     /\ IF refused \/ same THEN UNCHANGED <<monGen, writing>>
        ELSE monGen' = monGen + 1 /\ writing' = "monitors"
     /\ UNCHANGED <<svcs, byName, svcLatest, svcGen, svcPub, monPub, podPub, ownerPub, cacheVars, runs, req>>

DeleteMonitor(m) ==
  /\ Free /\ CanChange("monitors") /\ (mons[m] # 0 \/ rejected[m] # 0)
  /\ rejected' = [rejected EXCEPT ![m] = 0] /\ mons' = [mons EXCEPT ![m] = 0]
  /\ IF mons[m] = 0 THEN UNCHANGED <<monGen, writing>>
     ELSE monGen' = monGen + 1 /\ writing' = "monitors"
  /\ UNCHANGED <<svcs, byName, svcLatest, svcGen, svcPub, monPub, podPub, ownerPub, cacheVars, runs, req>>

\* The write lock is released: readers see the new content.
Publish ==
  /\ ~Free /\ writing' = "none"
  /\ svcPub' = svcGen /\ monPub' = monGen
  /\ UNCHANGED <<svcs, byName, svcLatest, svcGen, mons, rejected, monGen, podPub, ownerPub, changes, cacheVars, runs, req>>

PodsChange(n) ==
  /\ CanChange("pods") /\ podPub' = [podPub EXCEPT ![n] = @ + 1]
  /\ UNCHANGED <<svcs, byName, svcLatest, svcGen, svcPub, mons, rejected, monGen, monPub, ownerPub, writing, cacheVars, runs, req>>

\* Changes.Bump, after the informer's store holds the new object.
OwnersChange ==
  /\ CanChange("owners") /\ ownerPub' = ownerPub + 1
  /\ UNCHANGED <<svcs, byName, svcLatest, svcGen, svcPub, mons, rejected, monGen, monPub, podPub, writing, cacheVars, runs, req>>

-----------------------------------------------------------------------------
(* A request *)

Go(r, pc) == req' = [req EXCEPT ![r].pc = pc]
Step(r, pc, local) == req' = [req EXCEPT ![r] = [local EXCEPT !.pc = pc]]

\* The request arrives with the tag of a document some poll was answered with.
Begin(r) ==
  /\ req[r].pc \in {"idle", "answered"} /\ runs[r] > 0
  /\ runs' = [runs EXCEPT ![r] = @ - 1]
  /\ \E tag \in {NoDoc} \cup {req[q].doc : q \in {x \in TargetRequests : req[x].pc = "answered"
                                                  /\ RequestNode[x] = RequestNode[r]}} :
       Step(r, IF r \in AuthRequests THEN "auth" ELSE IF tag = NoDoc THEN "sample2" ELSE "sample1",
            [NoRun EXCEPT !.tag = tag,
               !.since = [pods |-> podPub[RequestNode[r]], owners |-> ownerPub, services |-> svcPub,
                          monitors |-> monPub, joinedSvcs |-> svcPub, podMonitors |-> monPub]])
  /\ UNCHANGED <<indexVars, cacheVars>>

NextSample == [pods |-> "owners", owners |-> "services", services |-> "monitors", monitors |-> "done"]
GenerationOf(s, n) == CASE s = "pods" -> podPub[n] [] s = "owners" -> ownerPub
                        [] s = "services" -> svcGen [] s = "monitors" -> monGen

\* targetsValidity: four generations, read one after the other.
Sample(r) ==
  LET s == req[r].src
      last == NextSample[s] = "done"
  IN /\ req[r].pc \in {"sample1", "sample2"}
     /\ Step(r, IF ~last THEN req[r].pc ELSE IF req[r].pc = "sample1" THEN "probe" ELSE "pods",
             [req[r] EXCEPT !.at[s] = GenerationOf(s, RequestNode[r]), !.src = IF last THEN "pods" ELSE NextSample[s]])
     /\ UNCHANGED <<indexVars, cacheVars, runs>>

Answer(r, doc) == Step(r, "answered", [req[r] EXCEPT !.doc = doc])

\* nodeTargetsNotModified: 304 when the memo holds the request's tag and was
\* built from the generations just read.
Probe(r) ==
  LET e == etags[RequestNode[r]]
  IN /\ req[r].pc = "probe"
     /\ IF e # NoDoc /\ e.doc = req[r].tag /\ e.valid = req[r].at
        THEN Answer(r, e.doc) ELSE Go(r, "sample2")
     /\ UNCHANGED <<indexVars, cacheVars, runs>>

ReadPods(r) ==
  /\ req[r].pc = "pods"
  /\ Step(r, "joinGen", [req[r] EXCEPT !.doc.pods = podPub[RequestNode[r]]])
  /\ UNCHANGED <<indexVars, cacheVars, runs>>

\* monitoredServices: the generations are read before the mutex is taken.
JoinGenerations(r) ==
  /\ req[r].pc = "joinGen"
  /\ Step(r, "join", [req[r] EXCEPT !.gen = monGen, !.doc.joinedSvcs = svcGen])
  /\ UNCHANGED <<indexVars, cacheVars, runs>>

\* The join is rebuilt when it is older than either generation. It reads the
\* monitors, then the Services, under monMu.
JoinCached(r) ==
  /\ req[r].pc = "join" /\ joinHolder = NoRequest
  /\ joined.valid /\ joined.monGen >= req[r].gen /\ joined.svcGen >= req[r].doc.joinedSvcs
  /\ Step(r, "podMonGen", [req[r] EXCEPT !.doc.monitors = joined.mon, !.doc.joinedSvcs = joined.svc])
  /\ UNCHANGED <<indexVars, cacheVars, runs>>

JoinMonitors(r) ==
  /\ req[r].pc = "join" /\ joinHolder = NoRequest /\ writing # "monitors"
  /\ ~joined.valid \/ joined.monGen < req[r].gen \/ joined.svcGen < req[r].doc.joinedSvcs
  /\ joinHolder' = r
  /\ Step(r, "joinSvcs", [req[r] EXCEPT !.doc.monitors = monPub])
  /\ UNCHANGED <<indexVars, sorted, sortedGen, joined, podMons, authRefs, etags, runs>>

Larger(a, b) == IF a > b THEN a ELSE b

JoinServices(r) ==
  /\ req[r].pc = "joinSvcs" /\ writing # "services"
  /\ joinHolder' = NoRequest
  /\ joined' = [mon |-> req[r].doc.monitors, svc |-> svcPub, valid |-> TRUE,
                monGen |-> Larger(joined.monGen, req[r].gen),
                svcGen |-> Larger(joined.svcGen, req[r].doc.joinedSvcs)]
  /\ Step(r, "podMonGen", [req[r] EXCEPT !.doc.joinedSvcs = svcPub])
  /\ UNCHANGED <<indexVars, sorted, sortedGen, podMons, authRefs, etags, runs>>

\* allPodMonitors, likewise; one read under pmMu.
PodMonitorsGeneration(r) ==
  /\ req[r].pc = "podMonGen"
  /\ Step(r, "podMons", [req[r] EXCEPT !.gen = monGen])
  /\ UNCHANGED <<indexVars, cacheVars, runs>>

PodMonitorsList(r) ==
  LET hit == podMons.valid /\ podMons.gen >= req[r].gen
  IN /\ req[r].pc = "podMons" /\ (hit \/ writing # "monitors")
     /\ podMons' = IF hit THEN podMons
                   ELSE [mon |-> monPub, gen |-> Larger(podMons.gen, req[r].gen), valid |-> TRUE]
     /\ Step(r, "inNsGen", [req[r] EXCEPT !.doc.podMonitors = podMons'.mon])
     /\ UNCHANGED <<indexVars, sorted, sortedGen, joined, authRefs, joinHolder, etags, runs>>

\* InNamespaces: the generation first, then the memo under sortMu, then the
\* index under its own lock, then the memo again if it is still that generation.
InNamespacesGeneration(r) ==
  /\ req[r].pc = "inNsGen"
  /\ Step(r, "inNsMemo", [req[r] EXCEPT !.gen = svcGen])
  /\ UNCHANGED <<indexVars, cacheVars, runs>>

InNamespacesMemo(r) ==
  LET newer == req[r].gen > sortedGen
      usable == req[r].gen >= sortedGen
      memo  == IF newer THEN -1 ELSE sorted
  IN /\ req[r].pc = "inNsMemo"
     /\ sorted' = memo /\ sortedGen' = Larger(sortedGen, req[r].gen)
     /\ IF usable /\ memo # -1
        THEN Step(r, "owners", [req[r] EXCEPT !.doc.services = memo])
        ELSE Step(r, "inNsBuild", [req[r] EXCEPT !.usable = usable])
     /\ UNCHANGED <<indexVars, joined, podMons, authRefs, joinHolder, etags, runs>>

InNamespacesBuild(r) ==
  /\ req[r].pc = "inNsBuild" /\ writing # "services"
  /\ Step(r, IF req[r].usable THEN "inNsInstall" ELSE "owners", [req[r] EXCEPT !.doc.services = svcPub])
  /\ UNCHANGED <<indexVars, cacheVars, runs>>

InNamespacesInstall(r) ==
  /\ req[r].pc = "inNsInstall"
  /\ sorted' = IF sortedGen = req[r].gen THEN req[r].doc.services ELSE sorted
  /\ Go(r, "owners")
  /\ UNCHANGED <<indexVars, sortedGen, joined, podMons, authRefs, joinHolder, etags, runs>>

\* enrichCached, pod by pod after the Services are known.
ReadOwners(r) ==
  /\ req[r].pc = "owners"
  /\ Step(r, "remember", [req[r] EXCEPT !.doc.owners = ownerPub])
  /\ UNCHANGED <<indexVars, cacheVars, runs>>

\* nodeTargetsUnusable: an entry whose generations have been overtaken.
Unusable(n, e, cur) ==
  \/ e.valid.owners < cur.owners \/ e.valid.services < cur.services \/ e.valid.monitors < cur.monitors
  \/ e.valid.pods < podPub[n]

\* rememberNodeTargets: a new node evicts what is unusable when the memo is
\* full, and is left out when that frees nothing.
Remember(r) ==
  LET n     == RequestNode[r]
      entry == [doc |-> req[r].doc, valid |-> req[r].at]
      held(t) == {x \in TargetNodes : t[x] # NoDoc}
      full  == etags[n] = NoDoc /\ Cardinality(held(etags)) >= MaxNodeTargetETags
      swept == IF ~full THEN etags
               ELSE [x \in TargetNodes |-> IF etags[x] # NoDoc /\ Unusable(x, etags[x], req[r].at)
                                           THEN NoDoc ELSE etags[x]]
  IN /\ req[r].pc = "remember"
     /\ etags' = IF swept[n] = NoDoc /\ Cardinality(held(swept)) >= MaxNodeTargetETags
                 THEN swept ELSE [swept EXCEPT ![n] = entry]
     /\ Answer(r, req[r].doc)
     /\ UNCHANGED <<indexVars, sorted, sortedGen, joined, podMons, authRefs, joinHolder, runs>>

\* AuthSecretRefs, for a request of a scrape credential.
AuthGeneration(r) ==
  /\ req[r].pc = "auth"
  /\ Step(r, "authRefs", [req[r] EXCEPT !.gen = monGen])
  /\ UNCHANGED <<indexVars, cacheVars, runs>>

\* Mutant of AuthSecretRefs: the memo is served whatever its generation.
AuthSecretRefsStale(r) ==
  LET hit == authRefs.valid
  IN /\ req[r].pc = "authRefs" /\ (hit \/ writing # "monitors")
     /\ authRefs' = IF hit THEN authRefs ELSE [mon |-> monPub, gen |-> req[r].gen, valid |-> TRUE]
     /\ Answer(r, [req[r].since EXCEPT !.monitors = authRefs'.mon])
     /\ UNCHANGED <<indexVars, sorted, sortedGen, joined, podMons, joinHolder, etags, runs>>

AuthSecretRefs(r) ==
  LET hit == authRefs.valid /\ authRefs.gen = req[r].gen
  IN /\ req[r].pc = "authRefs" /\ (hit \/ writing # "monitors")
     /\ authRefs' = IF hit THEN authRefs ELSE [mon |-> monPub, gen |-> req[r].gen, valid |-> TRUE]
     /\ Answer(r, [req[r].since EXCEPT !.monitors = authRefs'.mon])
     /\ UNCHANGED <<indexVars, sorted, sortedGen, joined, podMons, joinHolder, etags, runs>>

RequestStep(r) ==
  \/ Begin(r)
  \/ Sample(r)
  \/ Probe(r) \/ ReadPods(r) \/ JoinGenerations(r) \/ JoinCached(r) \/ JoinMonitors(r) \/ JoinServices(r)
  \/ PodMonitorsGeneration(r) \/ PodMonitorsList(r)
  \/ InNamespacesGeneration(r) \/ InNamespacesMemo(r) \/ InNamespacesBuild(r) \/ InNamespacesInstall(r)
  \/ ReadOwners(r) \/ Remember(r) \/ AuthGeneration(r) \/ AuthSecretRefs(r)

DiscoveryNext ==
  \/ \E u \in SvcUids : (\E v \in {svcs[u], svcs[u] + 1} : UpsertService(u, v)) \/ DeleteService(u)
  \/ \E m \in MonitorKeys : (\E v \in {mons[m], mons[m] + 1}, ok \in BOOLEAN : UpsertMonitor(m, v, ok)) \/ DeleteMonitor(m)
  \/ Publish \/ OwnersChange \/ (\E n \in TargetNodes : PodsChange(n))
  \/ \E r \in TargetRequests : RequestStep(r)

DiscoverySpec == DiscoveryInit /\ [][DiscoveryNext]_discoveryVars

-----------------------------------------------------------------------------
\* An answer, built or 304, reflects every change of every source that was
\* published before the request began: no cache and no remembered tag brings
\* back an older Service list, join, PodMonitor list, credential reference, pod
\* or owner (httpcache.go:371, nodetargets.go:439, services.go:369).
AnswerIsFresh ==
  \A r \in TargetRequests : req[r].pc = "answered" =>
    \A s \in DOMAIN NoDoc : req[r].doc[s] >= req[r].since[s]

\* The Service index holds, for each name, the Service last seen under it and
\* no other: neither a predecessor whose delete never came nor a successor
\* removed by its predecessor's late delete (services.go:208).
LatestServiceHeld ==
  /\ \A u \in SvcUids : svcs[u] # 0 <=> svcLatest[SvcName[u]] = u
  /\ \A u \in SvcUids : svcs[u] # 0 => byName[SvcName[u]] = u

\* What a node is answered is current (nodeTargets, Index.Upsert).
AnswersCurrent == AnswerIsFresh /\ LatestServiceHeld
=============================================================================
