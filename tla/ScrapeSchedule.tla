--------------------------- MODULE ScrapeSchedule ---------------------------
(***************************************************************************)
(* The scrape loop (promscrape: Run, cycle, dueNow, fetchTargets and the   *)
(* published status): each cycle decides which of the kubelet's endpoints  *)
(* and of the targets the metadata service lists are due, scrapes them     *)
(* concurrently, and carries the schedule over to the next cycle, through  *)
(* outages of the metadata service and changes of the list.  Time is a     *)
(* number of ticks; the ticker of Run drops the ticks it cannot deliver.   *)
(***************************************************************************)
EXTENDS Integers, FiniteSets

CONSTANTS
  Kubelet,      \* the kubelet pipelines that are enabled (kubeletDueKeys)
  Targets,      \* schedule keys of discovered targets
  Offers,       \* what the metadata service may answer: functions from a set of
                \* targets to their interval (0 none, -1 invalid)
  Hooked,       \* targets the transforms file's hook drops
  Failing,      \* endpoints whose scrapes fail
  Interval,     \* cfg.Interval
  Timeout,      \* cfg.Timeout
  EarlyDiv,     \* the part of an interval a tick may be early by: 10
  MinTick,      \* the second tickInterval never goes below
  MaxStale,     \* maxStaleTargetList
  Concurrency,
  MaxChanges,   \* bound: changes of the served list
  Horizon       \* bound: time

Keys == Kubelet \cup Targets

ASSUME ScheduleAssumption ==
  /\ Kubelet \cap Targets = {} /\ Interval \in Nat \ {0} /\ EarlyDiv \in Nat \ {0} /\ Timeout \in Nat \ {0} /\ Concurrency \in Nat \ {0}
  /\ \A o \in Offers : DOMAIN o \subseteq Targets /\ \A t \in DOMAIN o : o[t] \in Int

VARIABLES
  now,
  served,              \* external: the list the metadata service would answer
  changes,
  due, targetIntervals,\* Scraper.due, .targetIntervals
  lastGood, lastGoodAt,\* lastGoodTargets, lastGoodAt (-1 never)
  fetchFail,           \* targetFetchState
  nextTick, tick,      \* the ticker of Run
  cpc,                 \* step of the cycle
  newDue, queue,       \* the cycle's due map; keys still to be spawned
  list, listOK,        \* the cycle's target list, targetsOK
  running,             \* scrapes in flight: key -> deadline
  outcomes, status,    \* outcomes of the cycle, published CycleStatus
  stopping,            \* the context is done
  hist                 \* history: key -> scrapes since it was first scheduled

schedVars == <<now, served, changes, due, targetIntervals, lastGood, lastGoodAt, fetchFail, nextTick,
               tick, cpc, newDue, queue, list, listOK, running, outcomes, status, stopping, hist>>

Empty == [k \in {} |-> 0]
Over(f, g) == [k \in DOMAIN f \cup DOMAIN g |-> IF k \in DOMAIN g THEN g[k] ELSE f[k]]
MinOf(a, b) == IF a <= b THEN a ELSE b

ScheduleInit ==
  /\ now = 0 /\ served \in Offers /\ changes = 0
  /\ due = Empty /\ targetIntervals = Empty
  /\ lastGood = Empty /\ lastGoodAt = -1
  /\ fetchFail = [failing |-> FALSE, reusing |-> FALSE]
  /\ nextTick = 0 /\ tick = Interval
  /\ cpc = "wait" /\ newDue = Empty /\ queue = {} /\ list = Empty /\ listOK = FALSE
  /\ running = Empty /\ outcomes = Empty /\ status = Empty
  /\ stopping = FALSE /\ hist = Empty

-----------------------------------------------------------------------------
\* targetInterval: an absent or invalid interval is the agent's own.
IntervalOf(k, offer) == IF k \in DOMAIN offer /\ offer[k] > 0 THEN offer[k] ELSE Interval

\* targetTimeout, kubeletTimeout: never beyond the interval of either.
TimeoutOf(k, offer) == MinOf(Timeout, MinOf(IntervalOf(k, offer), Interval))

\* dueNow: whether key k is due at t, and the time it is due at next.  A tick
\* a small part of the interval early counts; a cadence that fell a whole interval
\* behind starts over; an interval that shrank applies at once.
DueNow(t, k, iv) ==
  LET known == k \in DOMAIN due
      next  == due[k]
  IN  IF known /\ t + iv \div EarlyDiv < next THEN [scrape |-> FALSE, at |-> MinOf(next, t + iv)]
      ELSE [scrape |-> TRUE, at |-> IF known /\ next + iv > t THEN next + iv ELSE t + iv]

\* tickInterval: the shortest interval in use, no shorter than a second.
TickInterval(ivs) ==
  LET short == {ivs[k] : k \in {j \in DOMAIN ivs : 0 < ivs[j] /\ ivs[j] < Interval}} \cup {Interval}
      least == CHOOSE x \in short : \A y \in short : x <= y
  IN  IF least < MinTick THEN MinTick ELSE least

Decided(keys, t, offer) == [k \in keys |-> DueNow(t, k, IntervalOf(k, offer))]
NextDue(dec)  == [k \in DOMAIN dec |-> dec[k].at]
DueKeys(dec)  == {k \in DOMAIN dec : dec[k].scrape}

\* History: a key's count starts over when its interval changes: with a scrape, from
\* the time that was due; between two scrapes, from now.
CountRestarted(k, iv, scrape) ==
  IF scrape THEN [first |-> IF k \in DOMAIN due THEN MinOf(now, due[k]) ELSE now, last |-> now, n |-> 1, iv |-> iv]
  ELSE [first |-> now, last |-> now, n |-> 0, iv |-> iv]

\* History: what was decided now.
Note(h, dec, offer) ==
  [k \in DOMAIN h \cup DueKeys(dec) |->
     IF k \notin DOMAIN dec THEN h[k]
     ELSE IF k \notin DOMAIN h \/ h[k].iv # IntervalOf(k, offer) THEN CountRestarted(k, IntervalOf(k, offer), dec[k].scrape)
     ELSE IF dec[k].scrape THEN [h[k] EXCEPT !.n = @ + 1, !.last = now] ELSE h[k]]

-----------------------------------------------------------------------------
\* Run: a tick starts a cycle, which begins with the kubelet's endpoints.
BeginCycle ==
  /\ cpc = "wait" /\ now >= nextTick /\ ~stopping
  /\ LET dec == Decided(Kubelet, now, Empty)
     IN  /\ newDue' = NextDue(dec) /\ queue' = DueKeys(dec)
         /\ hist' = Note(hist, dec, Empty)
  /\ nextTick' = nextTick + tick * ((now - nextTick) \div tick + 1)
  /\ cpc' = "kubelet" /\ outcomes' = Empty /\ list' = Empty /\ listOK' = FALSE
  /\ UNCHANGED <<now, served, changes, due, targetIntervals, lastGood, lastGoodAt, fetchFail, tick,
                 running, status, stopping>>

\* spawn: a slot of the semaphore, or nothing once the context is done.
Spawn(k) ==
  /\ cpc \in {"kubelet", "targets"} /\ k \in queue /\ ~stopping
  /\ Cardinality(DOMAIN running) < Concurrency
  /\ queue' = queue \ {k}
  /\ running' = Over(running, [j \in {k} |-> now + TimeoutOf(k, list)])
  /\ UNCHANGED <<now, served, changes, due, targetIntervals, lastGood, lastGoodAt, fetchFail, nextTick,
                 tick, cpc, newDue, list, listOK, outcomes, status, stopping, hist>>

SpawnRefused ==
  /\ cpc \in {"kubelet", "targets"} /\ queue # {} /\ stopping
  /\ queue' = {}
  /\ UNCHANGED <<now, served, changes, due, targetIntervals, lastGood, lastGoodAt, fetchFail, nextTick,
                 tick, cpc, newDue, list, listOK, running, outcomes, status, stopping, hist>>

\* The scrape returns; its own deadline makes it.
ScrapeEnds(k) ==
  /\ k \in DOMAIN running
  /\ running' = [j \in DOMAIN running \ {k} |-> running[j]]
  /\ outcomes' = Over(outcomes, [j \in {k} |-> IF k \in Failing THEN "down" ELSE "up"])
  /\ UNCHANGED <<now, served, changes, due, targetIntervals, lastGood, lastGoodAt, fetchFail, nextTick,
                 tick, cpc, newDue, queue, list, listOK, status, stopping, hist>>

-----------------------------------------------------------------------------
(* fetchTargets.                                                            *)

ApplyHook(offer) == [t \in DOMAIN offer \ Hooked |-> offer[t]]

\* The targets of the cycle: due ones are queued, all get their next due time.
UseList(offer) ==
  LET dec == Decided(DOMAIN offer, now, offer)
  IN  /\ list' = offer /\ listOK' = TRUE
      /\ newDue' = Over(newDue, NextDue(dec)) /\ queue' = DueKeys(dec)
      /\ hist' = Note(hist, dec, offer)

FetchOK ==
  /\ cpc = "kubelet" /\ queue = {} /\ ~stopping
  /\ lastGood' = served /\ lastGoodAt' = now
  /\ fetchFail' = [failing |-> FALSE, reusing |-> FALSE]
  /\ UseList(ApplyHook(served))
  /\ cpc' = "targets"
  /\ UNCHANGED <<now, served, changes, due, targetIntervals, nextTick, tick, running, outcomes, status, stopping>>

\* The last good list stands in, for so long.
FetchFails ==
  /\ cpc = "kubelet" /\ queue = {}
  /\ LET reuse == ~stopping /\ lastGoodAt >= 0 /\ now - lastGoodAt < MaxStale
     IN  /\ fetchFail' = IF stopping THEN fetchFail ELSE [failing |-> TRUE, reusing |-> reuse]
         /\ IF reuse THEN UseList(ApplyHook(lastGood))
            ELSE list' = Empty /\ listOK' = FALSE /\ UNCHANGED <<newDue, queue, hist>>
  /\ cpc' = "targets"
  /\ UNCHANGED <<now, served, changes, due, targetIntervals, lastGood, lastGoodAt, nextTick, tick,
                 running, outcomes, status, stopping>>

-----------------------------------------------------------------------------
\* Mutant: a cycle without a list replaces the schedule too.
ScheduleAfterAlways(nd, ok) == nd

\* setSchedule, or setKubeletSchedule when there is no list: the targets' due
\* times survive the outage.
ScheduleAfter(nd, ok) ==
  IF ok THEN nd ELSE Over(due, [k \in DOMAIN nd \cap Kubelet |-> nd[k]])

SetSchedule ==
  /\ cpc = "targets" /\ queue = {}
  /\ due' = ScheduleAfter(newDue, listOK)
  /\ targetIntervals' = IF listOK THEN [t \in {u \in DOMAIN list : list[u] # 0} |-> IntervalOf(t, list)]
                        ELSE targetIntervals
  /\ hist' = IF listOK THEN [k \in DOMAIN hist \cap (Kubelet \cup DOMAIN list) |-> hist[k]] ELSE hist
  /\ cpc' = "join"
  /\ UNCHANGED <<now, served, changes, lastGood, lastGoodAt, fetchFail, nextTick, tick, newDue, queue,
                 list, listOK, running, outcomes, status, stopping>>

\* publishStatus: this cycle's outcomes, the last ones of listed targets that
\* were not due, and, without a list or for a pipeline, those of the rest.
StatusAfter ==
  LET kept == {k \in DOMAIN status \ (DOMAIN outcomes \cup DOMAIN list) : k \in Kubelet \/ ~listOK}
      old  == {k \in DOMAIN list \ DOMAIN outcomes : k \in DOMAIN status}
  IN  [k \in DOMAIN outcomes \cup DOMAIN list \cup kept |->
         IF k \in DOMAIN outcomes THEN outcomes[k]
         ELSE IF k \in old \cup kept THEN status[k] ELSE "pending"]

\* wg.Wait, the status, the health export, and the ticker's new period.
EndCycle ==
  /\ cpc = "join" /\ running = Empty
  /\ status' = StatusAfter
  /\ LET want == TickInterval(targetIntervals)
     IN  /\ tick' = want
         /\ nextTick' = IF want # tick THEN now + want ELSE nextTick
  /\ cpc' = IF stopping THEN "stopped" ELSE "wait"
  /\ UNCHANGED <<now, served, changes, due, targetIntervals, lastGood, lastGoodAt, fetchFail, newDue,
                 queue, list, listOK, running, outcomes, stopping, hist>>

StopWaiting ==
  /\ cpc = "wait" /\ stopping /\ cpc' = "stopped"
  /\ UNCHANGED <<now, served, changes, due, targetIntervals, lastGood, lastGoodAt, fetchFail, nextTick,
                 tick, newDue, queue, list, listOK, running, outcomes, status, stopping, hist>>

-----------------------------------------------------------------------------
\* Time passes where the loop waits: for a tick (which it overshoots by at most
\* one unit), for the metadata service, for a slot, and for its scrapes, which
\* do not outlive their deadline.
Pass ==
  /\ now < Horizon
  /\ \/ cpc = "wait" \/ (cpc = "kubelet" /\ queue = {}) \/ (cpc = "join" /\ running # Empty)
     \/ Cardinality(DOMAIN running) = Concurrency
  /\ cpc # "stopped"
  /\ \A k \in DOMAIN running : now < running[k]
  /\ cpc = "wait" => now <= nextTick
  /\ now' = now + 1
  /\ UNCHANGED <<served, changes, due, targetIntervals, lastGood, lastGoodAt, fetchFail, nextTick, tick,
                 cpc, newDue, queue, list, listOK, running, outcomes, status, stopping, hist>>

ServedChanges ==
  /\ changes < MaxChanges /\ changes' = changes + 1
  /\ served' \in Offers \ {served}
  /\ UNCHANGED <<now, due, targetIntervals, lastGood, lastGoodAt, fetchFail, nextTick, tick, cpc, newDue,
                 queue, list, listOK, running, outcomes, status, stopping, hist>>

Shutdown ==
  /\ ~stopping /\ stopping' = TRUE
  /\ UNCHANGED <<now, served, changes, due, targetIntervals, lastGood, lastGoodAt, fetchFail, nextTick,
                 tick, cpc, newDue, queue, list, listOK, running, outcomes, status, hist>>

ScheduleNext ==
  \/ BeginCycle \/ SpawnRefused \/ FetchOK \/ FetchFails \/ SetSchedule \/ EndCycle \/ StopWaiting
  \/ Pass \/ ServedChanges \/ Shutdown
  \/ \E k \in Keys : Spawn(k) \/ ScrapeEnds(k)

ScheduleSpec == ScheduleInit /\ [][ScheduleNext]_schedVars

-----------------------------------------------------------------------------
(* Every endpoint keeps its cadence.  Since it was first listed, or its       *)
(* interval last changed, none is scraped more often than its interval less   *)
(* the early allowance, not even by the cycle that follows an outage of the   *)
(* metadata service; and at the end of a cycle that had a list, each listed   *)
(* target was scraped and is due again within its interval, whatever interval *)
(* it had before.                                                             *)
Cadence ==
  /\ \A k \in DOMAIN hist : (hist[k].n - 1) * (hist[k].iv - hist[k].iv \div EarlyDiv) <= hist[k].last - hist[k].first
  /\ cpc = "join" /\ listOK /\ ~stopping => \A k \in DOMAIN list :
       k \in DOMAIN hist /\ due[k] <= now + IntervalOf(k, list) + IntervalOf(k, list) \div EarlyDiv
=============================================================================
