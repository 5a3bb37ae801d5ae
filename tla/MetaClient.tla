----------------------------- MODULE MetaClient -----------------------------
(***************************************************************************)
(* The metadata client's response cache (pkg/metaclient).  A lookup is     *)
(* answered from the cache while its entry is fresh; otherwise it asks the *)
(* server, with the entry's tag when it has one.  Responses return in any  *)
(* order, each judged against the entry its own request began with.  An    *)
(* entry is a decoded object: two entries of one version are two objects.  *)
(* A key names one type of object, so the type check never fails here.     *)
(***************************************************************************)
EXTENDS Integers, FiniteSets

CONSTANTS
    Lookups,         \* goroutines
    MetaKeys,        \* URLs
    MaxAge,          \* max-age of a cacheable response
    MaxCacheEntries, EvictLowWater,
    CacheMaxIdle, CacheSweepEvery, StampGranularity,
    MetaCalls,       \* bound: goroutine -> lookups it makes
    MetaChanges,     \* bound: changes of the objects
    MetaMaxTime      \* bound: the clock

ASSUME MetaAssumption ==
  MaxAge \in Nat \ {0} /\ MaxCacheEntries \in Nat /\ EvictLowWater \in 0..MaxCacheEntries

None == [obj |-> 0, ver |-> 0, exp |-> 0, used |-> 0]

VARIABLES
    metaClock,
    current,     \* key -> the server's version
    movedOn,     \* history: <<key, version>> -> when the server replaced it
    metaCache,   \* key -> [obj, ver, exp, used]
    lastSweep, objects,
    lookup       \* goroutine -> [pc, key, entry, at, resp, calls]

metaVars == <<metaClock, current, movedOn, metaCache, lastSweep, objects, lookup>>

Cached == DOMAIN metaCache
Idle == [pc |-> "idle", key |-> 0, entry |-> None, at |-> 0, resp |-> << >>, calls |-> 0]

MetaInit ==
  /\ metaClock = 0 /\ current = [k \in MetaKeys |-> 1] /\ movedOn = << >>
  /\ metaCache = << >> /\ lastSweep = 0 /\ objects = 0
  /\ lookup = [l \in Lookups |-> Idle]

With1(f, k, e) == [j \in DOMAIN f \cup {k} |-> IF j = k THEN e ELSE f[j]]
Dropped1(f, k) == [j \in DOMAIN f \ {k} |-> f[j]]
-----------------------------------------------------------------------------
\* get, answered by a fresh entry; its use is stamped, now and then.
GetCached(l, k) ==
  LET e == metaCache[k]
      stamped == metaClock - e.used >= StampGranularity
  IN /\ lookup[l].pc = "idle" /\ lookup[l].calls < MetaCalls[l]
     /\ k \in Cached /\ metaClock < e.exp
     /\ metaCache' = IF stamped THEN [metaCache EXCEPT ![k].used = metaClock] ELSE metaCache
     /\ lookup' = [lookup EXCEPT ![l].calls = @ + 1]
     /\ UNCHANGED <<metaClock, current, movedOn, lastSweep, objects>>

\* The request begins, with the entry's tag when there is one.
GetFetches(l, k) ==
  LET e == IF k \in Cached THEN metaCache[k] ELSE None
  IN /\ lookup[l].pc = "idle" /\ lookup[l].calls < MetaCalls[l]
     /\ ~(k \in Cached /\ metaClock < e.exp)
     /\ metaCache' = IF k \in Cached /\ metaClock - e.used >= StampGranularity
                       THEN [metaCache EXCEPT ![k].used = metaClock] ELSE metaCache
     /\ lookup' = [lookup EXCEPT ![l] =
          [pc |-> "sent", key |-> k, entry |-> e, at |-> metaClock, resp |-> << >>, calls |-> @.calls + 1]]
     /\ UNCHANGED <<metaClock, current, movedOn, lastSweep, objects>>

\* The server answers at some moment, with or without a lifetime for the answer.
ServerAnswers(l, age) ==
  LET q == lookup[l]
      same == q.entry # None /\ q.entry.ver = current[q.key]
  IN /\ q.pc = "sent"
     /\ lookup' = [lookup EXCEPT ![l] = [@ EXCEPT !.pc = "answered",
          !.resp = [status |-> IF same THEN 304 ELSE 200, ver |-> current[q.key], age |-> age]]]
     /\ UNCHANGED <<metaClock, current, movedOn, metaCache, lastSweep, objects>>

\* The lookup returns, with an object or an error.
Returns(l) == lookup' = [lookup EXCEPT ![l] = [Idle EXCEPT !.calls = lookup[l].calls]]

\* A transport error, or a status without an object: nothing cached is touched.
GetFails(l) ==
  /\ lookup[l].pc = "sent"
  /\ Returns(l)
  /\ UNCHANGED <<metaClock, current, movedOn, metaCache, lastSweep, objects>>

\* Mutant of SameEntry: whatever is cached under the key is refreshed.
SameEntryAny(q) == q.key \in Cached

\* The entry the request began with is still the one in the cache.
SameEntry(q) == q.key \in Cached /\ metaCache[q.key].obj = q.entry.obj

\* refreshEntry: a lifetime that counts from the request, or the entry goes.
RefreshEntry(q) ==
  IF ~SameEntry(q) THEN metaCache
  ELSE IF q.resp.age = 0 THEN Dropped1(metaCache, q.key)
  ELSE [metaCache EXCEPT ![q.key].used = metaClock, ![q.key].exp = q.at + q.resp.age]

NotModified(l) ==
  LET q == lookup[l] IN
  /\ q.pc = "answered" /\ q.resp.status = 304
  /\ metaCache' = RefreshEntry(q) /\ Returns(l)
  /\ UNCHANGED <<metaClock, current, movedOn, lastSweep, objects>>

\* A response that may not be kept drops the entry it supersedes, before its body
\* is read; the body may still turn out unreadable.
Uncacheable(l) ==
  LET q == lookup[l] IN
  /\ q.pc = "answered" /\ q.resp.status = 200 /\ q.resp.age = 0
  /\ metaCache' = RefreshEntry(q) /\ Returns(l)
  /\ UNCHANGED <<metaClock, current, movedOn, lastSweep, objects>>

Undecodable(l) ==
  /\ lookup[l].pc = "answered" /\ lookup[l].resp.status = 200 /\ lookup[l].resp.age > 0
  /\ Returns(l)
  /\ UNCHANGED <<metaClock, current, movedOn, metaCache, lastSweep, objects>>

\* evictLocked: idle entries now and then, and any entries above the cap.
Evicted(c) ==
  LET over == Cardinality(DOMAIN c) > MaxCacheEntries
      due == over \/ metaClock - lastSweep >= CacheSweepEvery
      kept == {k \in DOMAIN c : metaClock - c[k].used <= CacheMaxIdle}
      low == IF Cardinality(kept) <= EvictLowWater THEN {kept}
             ELSE {S \in SUBSET kept : Cardinality(S) = EvictLowWater}
  IN {[k \in S |-> c[k]] : S \in IF ~due THEN {DOMAIN c} ELSE IF over THEN low ELSE {kept}}

SweepAt(c) ==
  IF Cardinality(DOMAIN c) > MaxCacheEntries \/ metaClock - lastSweep >= CacheSweepEvery
    THEN metaClock ELSE lastSweep

\* A cacheable response becomes the entry, whatever is there.
Fetched(l) ==
  LET q == lookup[l]
      e == [obj |-> objects + 1, ver |-> q.resp.ver, exp |-> q.at + q.resp.age, used |-> metaClock]
      c == With1(metaCache, q.key, e)
  IN /\ q.pc = "answered" /\ q.resp.status = 200 /\ q.resp.age > 0
     /\ metaCache' \in Evicted(c) /\ lastSweep' = SweepAt(c) /\ objects' = objects + 1
     /\ Returns(l)
     /\ UNCHANGED <<metaClock, current, movedOn>>

\* The object changes at the server.
ObjectChanges(k) ==
  /\ current[k] <= MetaChanges
  /\ current' = [current EXCEPT ![k] = @ + 1]
  /\ movedOn' = With1(movedOn, <<k, current[k]>>, metaClock)
  /\ UNCHANGED <<metaClock, metaCache, lastSweep, objects, lookup>>

MetaTick ==
  /\ metaClock < MetaMaxTime /\ metaClock' = metaClock + 1
  /\ UNCHANGED <<current, movedOn, metaCache, lastSweep, objects, lookup>>

MetaNext ==
  \/ \E l \in Lookups :
       \/ \E k \in MetaKeys : GetCached(l, k) \/ GetFetches(l, k)
       \/ \E age \in {0, MaxAge} : ServerAnswers(l, age)
       \/ GetFails(l) \/ NotModified(l) \/ Uncacheable(l) \/ Undecodable(l) \/ Fetched(l)
  \/ \E k \in MetaKeys : ObjectChanges(k)
  \/ MetaTick

MetaSpec == MetaInit /\ [][MetaNext]_metaVars
-----------------------------------------------------------------------------
\* What the cache may still answer with was the server's object less than the
\* entry's lifetime ago, however late and in whatever order the responses of
\* concurrent lookups came; and the cache is never over its cap.
CacheNeverStale ==
  /\ Cardinality(Cached) <= MaxCacheEntries
  /\ \A k \in Cached :
       (metaClock < metaCache[k].exp /\ metaCache[k].ver # current[k])
       => movedOn[<<k, metaCache[k].ver>>] > metaClock - MaxAge
=============================================================================
