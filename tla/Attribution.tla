----------------------------- MODULE Attribution -----------------------------
(***************************************************************************)
(* Which pod and container a kubelet row belongs to (promscrape: cadvisor  *)
(* identities, the metadata cache shared by concurrent scrapes, and the    *)
(* share of a scrape's deadline its lookups may use).  One pod name is     *)
(* watched: its containers restart and the pod is recreated while          *)
(* documents about it sit in the cache.  A container id is the index of    *)
(* its incarnation in world.                                               *)
(***************************************************************************)
EXTENDS Integers, Sequences, FiniteSets

CONSTANTS
  Scrapers,   \* scrapes that may run at once (cadvisor, summary, split targets)
  Shapes,     \* per scrape, what its rows' labels say: sets, see IdentityOf
  CacheTTL,   \* podMetaCacheTTL
  Window,     \* incarnationWindow
  Limit,      \* a scrape's lookup allowance: half its budget
  Lag,        \* how far the metadata service may be behind the cluster
  Mirrored,   \* uids of static pods, whose API object is a mirror with a uid of its own
  MaxCache, LowWater, SweepEvery,   \* podCacheMaxEntries and its companions
  MaxWorld, MaxTime, MaxRows        \* bounds: incarnations, time, rows of a scrape

\* Nothing is assumed of the window beside the lifetime of a cached document: a
\* lookup may take longer than the slack between them (5s in the code, against an
\* allowance of half the scrape's timeout).
ASSUME AttributionAssumption ==
  /\ CacheTTL \in Nat \ {0} /\ Limit \in Nat \ {0} /\ Lag \in Nat /\ Window \in Nat
  /\ LowWater \in Nat /\ MaxCache \in Nat /\ LowWater <= MaxCache

VARIABLES
  clock,
  world,     \* external: incarnations of the container, oldest first: [uid, api, start],
             \* the uid the kubelet reports and the one of the API server's object
  cache,     \* Scraper.podCache: key -> [doc, fetched, answered]
  swept,     \* Scraper.cacheSwept
  rows       \* per scrape: the row being attributed and the lookup allowance

attrVars == <<clock, world, cache, swept, rows>>

\* A document: its pod's uid and the static pod it is the mirror of, the container's
\* id, start and state, and for how long it was out of date when it arrived.
None == [uid |-> 0, mirrors |-> 0, id |-> 0, started |-> 0, state |-> "none", behind |-> 0]   \* no document

Fresh == [pc |-> "row", n |-> 0, shape |-> {}, rec |-> 0, created |-> 0, began |-> 0,
          doc |-> None, ctr |-> FALSE, resolved |-> FALSE, spent |-> 0, shed |-> {}, sheds |-> 0]

\* External: the uid of the API server's object for a pod.
Api(uid) == IF uid \in Mirrored THEN -uid ELSE uid

AttributionInit ==
  /\ clock = 1 /\ world = << [uid |-> 1, api |-> Api(1), start |-> 1] >>
  /\ cache = [k \in {} |-> None] /\ swept = 0
  /\ rows = [s \in Scrapers |-> Fresh]

-----------------------------------------------------------------------------
(* Identities.  A shape holds the labels and path parts a row has: "pod" for *)
(* both namespace and pod, "container", "POD" for container="POD", "uid" and *)
(* "id" from the cgroup path, "podContainer" when that path is a child of    *)
(* the pod's, "pause" for a sandbox image, "dated" for a creation time.      *)

IsSandbox(sh) ==
  /\ "pod" \in sh
  /\ \/ "POD" \in sh
     \/ /\ "container" \notin sh /\ "id" \in sh
        /\ "podContainer" \in sh \/ ("uid" \notin sh /\ "pause" \in sh)

\* identityOf: a sandbox folds into its pod.
IdentityOf(sh) == IF IsSandbox(sh) THEN sh \ {"id", "pause"} ELSE sh

\* lookupContainerID: an id from a path nothing else vouches for is not asked for.
LookupContainerID(id) == "id" \in id /\ id \cap {"vouched", "container", "pod"} # {}

\* appendKey, and objectShed.key.
IdentKey(id, r) == <<id \cap {"pod", "container", "uid", "id"}, r>>

-----------------------------------------------------------------------------
(* The cache.                                                               *)

Key(s) == LET r == rows[s]
          IN  IF r.pc = "id" THEN <<"c", r.rec>>
              ELSE <<"n", IF "uid" \in IdentityOf(r.shape) THEN world[r.rec].uid ELSE 0>>

Expired(e) == clock - e.fetched >= CacheTTL

\* sweepExpiredLocked
Swept(c) == [k \in {j \in DOMAIN c : ~Expired(c[j])} |-> c[k]]

\* evictCacheLocked: expired entries once in a while; over the cap, arbitrary
\* others down to the low-water mark.
Evictions(c) ==
  IF Cardinality(DOMAIN c) <= MaxCache
  THEN {IF clock - swept < SweepEvery THEN c ELSE Swept(c)}
  ELSE LET live == Swept(c)
       IN  IF Cardinality(DOMAIN live) <= LowWater THEN {live}
           ELSE {[k \in keep |-> live[k]] : keep \in {x \in SUBSET DOMAIN live : Cardinality(x) = LowWater}}

CachePut(k, e) ==
  LET c == [j \in DOMAIN cache \cup {k} |-> IF j = k THEN e ELSE cache[j]]
  IN  /\ cache' \in Evictions(c)
      /\ swept' = IF Cardinality(DOMAIN c) <= MaxCache /\ clock - swept < SweepEvery THEN swept ELSE clock

CacheDrop(k) == cache' = [j \in DOMAIN cache \ {k} |-> cache[j]]

-----------------------------------------------------------------------------
(* What the answers mean.                                                   *)

\* podAnswersFor: the document's pod is the one the row's path names, or (isMirrorOf)
\* the mirror of that static pod.
PodAnswersFor(doc, r) ==
  "uid" \in IdentityOf(r.shape) => doc.uid = world[r.rec].uid \/ doc.mirrors = world[r.rec].uid

\* namesEarlierIncarnation: waiting, or terminated without a start, vouches for no
\* started container; no state at all says nothing either way.
NamesEarlier(doc, created) ==
  doc.id # 0 /\ (IF doc.started # 0 THEN doc.started < created ELSE doc.state = "waiting")

Done(r, doc, ctr, ok) == [r EXCEPT !.pc = "done", !.doc = doc, !.ctr = ctr, !.resolved = ok]

\* resolveContextCreated: how a row goes on with the document a lookup or the
\* cache gave it, or None.
After(r, doc) ==
  CASE r.pc = "id"      -> IF doc # None THEN Done(r, doc, TRUE, TRUE)
                           ELSE IF "pod" \in IdentityOf(r.shape) THEN [r EXCEPT !.pc = "podOnly"]
                           ELSE Done(r, None, FALSE, FALSE)
    [] r.pc = "podOnly" -> Done(r, IF PodAnswersFor(doc, r) THEN doc ELSE None, FALSE, FALSE)
    [] r.pc = "pod"     -> IF doc = None \/ ~PodAnswersFor(doc, r) THEN Done(r, None, FALSE, FALSE)
                           ELSE IF "container" \in IdentityOf(r.shape)
                                THEN [r EXCEPT !.pc = "check", !.doc = doc]
                           ELSE Done(r, doc, FALSE, TRUE)
    [] r.pc = "again"   -> IF doc = None \/ ~PodAnswersFor(doc, r) THEN Done(r, r.doc, FALSE, TRUE)
                           ELSE IF NamesEarlier(doc, r.created) THEN [r EXCEPT !.pc = "drop", !.doc = doc]
                           ELSE Done(r, doc, doc.id # 0, TRUE)

-----------------------------------------------------------------------------
\* A row of the body: its creation time is that of the incarnation it is about.
Row(s, sh) ==
  /\ rows[s].pc \in {"row", "done"} /\ rows[s].n < MaxRows
  /\ LET id == IdentityOf(sh)
         r  == [rows[s] EXCEPT !.n = @ + 1, !.shape = sh, !.rec = Len(world), !.doc = None, !.ctr = FALSE,
                               !.created = IF "dated" \in sh THEN world[Len(world)].start ELSE 0]
     IN  rows' = [rows EXCEPT ![s] =
                    IF LookupContainerID(id) THEN [r EXCEPT !.pc = "id"]
                    ELSE IF "pod" \in id THEN [r EXCEPT !.pc = "pod"]
                    ELSE Done(r, None, FALSE, FALSE)]
  /\ UNCHANGED <<clock, world, cache, swept>>

\* cacheGet
Cached(s) ==
  /\ rows[s].pc \in {"id", "pod", "podOnly", "again"}
  /\ Key(s) \in DOMAIN cache /\ ~Expired(cache[Key(s)])
  /\ rows' = [rows EXCEPT ![s] = After(rows[s], cache[Key(s)].doc)]
  /\ UNCHANGED <<clock, world, cache, swept>>

Missed(s) ==
  /\ rows[s].pc \in {"id", "pod", "podOnly", "again"}
  /\ Key(s) \in DOMAIN cache => Expired(cache[Key(s)])

Left(s) == Limit - rows[s].spent

\* metaLookup refuses: the object is exported with the identity of its labels,
\* and is counted once however many lookups it still asks for.
Shed(s) ==
  /\ Missed(s) /\ Left(s) <= 0
  /\ LET r   == rows[s]
         key == IdentKey(IdentityOf(r.shape), r.rec)
     IN  rows' = [rows EXCEPT ![s] = After([r EXCEPT !.shed = @ \cup {key},
                                                     !.sheds = IF key \in r.shed THEN @ ELSE @ + 1], None)]
  /\ UNCHANGED <<clock, world, cache, swept>>

Asking == [id |-> "id?", pod |-> "pod?", podOnly |-> "podOnly?", again |-> "again?"]

Ask(s) ==
  /\ Missed(s) /\ Left(s) > 0
  /\ rows' = [rows EXCEPT ![s].began = clock, ![s].pc = Asking[@]]
  /\ UNCHANGED <<clock, world, cache, swept>>

Waiting(s) == rows[s].pc \in {"id?", "pod?", "podOnly?", "again?"}
Asker(s) == [rows[s] EXCEPT !.spent = @ + (clock - rows[s].began), !.began = 0,
               !.pc = CASE @ = "id?" -> "id" [] @ = "pod?" -> "pod" [] @ = "podOnly?" -> "podOnly" [] OTHER -> "again"]

\* External: the service knows the first n incarnations, and may have missed what
\* happened while it was asked or Lag before; a container that does not run, or whose
\* status has no state, has no start time.
Knows(n, began) == n < Len(world) => world[n + 1].start >= began - Lag
Document(i, st) ==
  [uid |-> world[i].api, mirrors |-> IF world[i].api < 0 THEN world[i].uid ELSE 0, id |-> i,
   started |-> IF st = "running" THEN world[i].start ELSE 0, state |-> st,
   behind |-> IF i < Len(world) THEN clock - world[i + 1].start ELSE 0]

Told(r, n, st) ==
  LET i == IF r.pc = "id" THEN r.rec ELSE n
  IN  IF i \in 1..n THEN Document(i, st) ELSE None
Answers(r, began) ==
  {None} \cup {Told(r, n, st) : n \in {m \in 0..Len(world) : Knows(m, began)}, st \in {"running", "waiting", "none"}}

\* podMeta and containerMeta: an answer, or an error other than the deadline's
\* own, is cached under the time it arrived.
Answer(s) ==
  /\ Waiting(s)
  /\ \E doc \in Answers(Asker(s), rows[s].began) :
       LET r == Asker(s)
           k == IF r.pc = "id" THEN <<"c", r.rec>>
                ELSE <<"n", IF "uid" \in IdentityOf(r.shape) THEN world[r.rec].uid ELSE 0>>
       IN  /\ CachePut(k, [doc |-> doc, fetched |-> clock])
           /\ rows' = [rows EXCEPT ![s] = After(r, doc)]
  /\ UNCHANGED <<clock, world>>

\* The deadline of the lookup: nothing is cached.
LookupExpires(s) ==
  /\ Waiting(s) /\ clock - rows[s].began >= Left(s)
  /\ rows' = [rows EXCEPT ![s] = After(Asker(s), None)]
  /\ UNCHANGED <<clock, world, cache, swept>>

\* Mutant: inside the cache's lifetime only.
InWindowTTL(created) == created # 0 /\ clock - created < CacheTTL

\* containerIncarnation looks only so long after the creation.
InWindow(created) == created # 0 /\ clock - created < Window

CheckIncarnation(s) ==
  /\ rows[s].pc = "check"
  /\ LET r == rows[s]
         k == <<"n", IF "uid" \in IdentityOf(r.shape) THEN world[r.rec].uid ELSE 0>>
     IN  IF ~InWindow(r.created) \/ ~NamesEarlier(r.doc, r.created)
         THEN rows' = [rows EXCEPT ![s] = Done(r, r.doc, r.doc.id # 0, TRUE)] /\ UNCHANGED cache
         ELSE /\ CacheDrop(k)
              /\ rows' = [rows EXCEPT ![s] =
                            IF k \in DOMAIN cache /\ cache[k].fetched < r.created THEN [r EXCEPT !.pc = "again"]
                            ELSE Done(r, r.doc, FALSE, TRUE)]
  /\ UNCHANGED <<clock, world, swept>>

\* The fresh document is older still: the match is withheld, the entry dropped.
DropAgain(s) ==
  /\ rows[s].pc = "drop"
  /\ CacheDrop(<<"n", IF "uid" \in IdentityOf(rows[s].shape) THEN world[rows[s].rec].uid ELSE 0>>)
  /\ rows' = [rows EXCEPT ![s] = Done(rows[s], rows[s].doc, FALSE, TRUE)]
  /\ UNCHANGED <<clock, world, swept>>

\* scrapeContext: the next scrape has an allowance of its own.
NextScrape(s) ==
  /\ rows[s].pc = "done"
  /\ rows' = [rows EXCEPT ![s] = Fresh]
  /\ UNCHANGED <<clock, world, cache, swept>>

-----------------------------------------------------------------------------
\* External: the container restarts, or its pod is recreated.
Restart(new) ==
  /\ Len(world) < MaxWorld /\ world[Len(world)].start < clock
  /\ LET uid == world[Len(world)].uid + new
     IN  world' = Append(world, [uid |-> uid, api |-> Api(uid), start |-> clock])
  /\ UNCHANGED <<clock, cache, swept, rows>>

AttributionTick ==
  /\ clock < MaxTime /\ clock' = clock + 1
  /\ \A s \in Scrapers : Waiting(s) => clock - rows[s].began < Left(s)
  /\ \A s \in Scrapers : rows[s].pc \in {"row", "done"} \/ Waiting(s)
  /\ UNCHANGED <<world, cache, swept, rows>>

AttributionNext ==
  \/ \E s \in Scrapers : \/ \E sh \in Shapes[s] : Row(s, sh)
                         \/ Cached(s) \/ Shed(s) \/ Ask(s) \/ Answer(s) \/ LookupExpires(s)
                         \/ CheckIncarnation(s) \/ DropAgain(s) \/ NextScrape(s)
  \/ \E new \in {0, 1} : Restart(new)
  \/ AttributionTick

AttributionSpec == AttributionInit /\ [][AttributionNext]_attrVars

-----------------------------------------------------------------------------
(* A row is never exported under another's identity, however stale the        *)
(* cache, whichever scrape filled it, and whatever restarted meanwhile: a row *)
(* whose path names a pod is given that pod, a static pod by its mirror; one  *)
(* looked up by container id is given that container; and a container matched *)
(* by name is no earlier incarnation than the one the row says was created,   *)
(* unless its document has no state, or was out of date when it arrived by    *)
(* more than the window's slack over the lifetime of a cached document: the   *)
(* code then stops looking before the document expires.  A scrape's lookups   *)
(* together stay within their allowance, and each object it could not look up *)
(* counts once.                                                               *)
TooLate(doc) == doc.behind > Window - CacheTTL

AttributionTrue ==
  \A s \in Scrapers :
    LET r == rows[s]
        id == IdentityOf(r.shape)
    IN  /\ r.pc = "done" /\ r.doc # None /\ "uid" \in id => world[r.doc.id].uid = world[r.rec].uid
        /\ r.pc = "done" /\ r.ctr /\ LookupContainerID(id) => r.doc.id = r.rec
        /\ r.pc = "done" /\ r.ctr /\ r.created # 0 /\ r.doc.state # "none" /\ ~TooLate(r.doc)
             => world[r.doc.id].start >= r.created
        /\ r.spent <= Limit /\ r.sheds = Cardinality(r.shed)
=============================================================================
