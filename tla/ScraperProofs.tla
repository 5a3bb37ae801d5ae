---------------------------- MODULE ScraperProofs ----------------------------
(***************************************************************************)
(* For any endpoints, intervals, lists and outages of the metadata         *)
(* service: every endpoint keeps its cadence.  For any number of           *)
(* concurrent scrapes, secrets and outages: the credentials of a request   *)
(* are bounded in age, and no client is left unclosed.  For any rows,      *)
(* restarts and cached documents: no row is given another's identity.      *)
(* For any containers, caps, reads and churn: the sampler's bookkeeping is *)
(* sound and its pending containers take turns.  For any bodies, limits,   *)
(* breaks and failed exports: a scrape answers for every sample it read.   *)
(***************************************************************************)
EXTENDS ScrapeSchedule, ScrapeAuth, Attribution, CgroupStats, ScrapeSession, FiniteSetTheorems, SequenceTheorems,
        WellFoundedInduction, NaturalsInduction, TLAPS

-----------------------------------------------------------------------------
(* The schedule.  What a key may be scraped early by, and what is left of    *)
(* its interval.                                                             *)

Early(iv) == iv \div EarlyDiv
Least(iv) == iv - Early(iv)

Counts == [first : Int, last : Int, n : Nat, iv : Nat \ {0}]

\* The scrapes counted in h kept their distance, and so will the next one, due at d.
KeptDistance(h, d, t) ==
  /\ h \in Counts /\ d \in Int /\ h.last <= t
  /\ (h.n - 1) * Least(h.iv) <= h.last - h.first
  /\ h.n * Least(h.iv) <= d - Early(h.iv) - h.first

LEMMA EarlyFacts ==
  ASSUME NEW iv \in Nat
  PROVE  Early(iv) \in Nat /\ Early(iv) <= iv /\ Least(iv) \in Nat
<1>1. EarlyDiv \in Nat \ {0}
  BY ScheduleAssumption
<1>2. iv \div EarlyDiv \in Int /\ iv \div EarlyDiv >= 0 /\ iv \div EarlyDiv <= iv
  BY <1>1
<1> QED BY <1>2 DEF Early, Least

LEMMA OneMore == ASSUME NEW n \in Nat, NEW s \in Nat PROVE (n + 1) * s = n * s + s /\ n * s \in Nat /\ (n - 1) * s = n * s - s
OBVIOUS

LEMMA DecisionFacts ==
  ASSUME NEW k, NEW iv \in Nat \ {0}, now \in Int, k \in DOMAIN due => due[k] \in Int
  PROVE  LET d == DueNow(now, k, iv)
         IN  /\ d.at \in Int /\ d.scrape \in BOOLEAN /\ d.at <= now + iv + Early(iv)
             /\ ~d.scrape => k \in DOMAIN due
BY EarlyFacts DEF DueNow, MinOf, Early

LEMMA OneMoreCounted ==
  ASSUME NEW h \in Counts, NEW t \in Int
  PROVE  LET g == [h EXCEPT !.n = @ + 1, !.last = t]
         IN  g \in Counts /\ g.n = h.n + 1 /\ g.last = t /\ g.first = h.first /\ g.iv = h.iv
<1> PICK m \in Nat : m = h.n + 1
  BY DEF Counts
<1> PICK g : g = [h EXCEPT !.n = m, !.last = t]
  OBVIOUS
<1>1. g \in Counts /\ g.n = m /\ g.last = t /\ g.first = h.first /\ g.iv = h.iv
  BY DEF Counts
<1> QED BY <1>1

\* The count goes on: the key had interval iv before.
LEMMA CountGoesOn ==
  ASSUME NEW k \in DOMAIN due, NEW h \in Counts, now \in Int, KeptDistance(h, due[k], now)
  PROVE  LET d == DueNow(now, k, h.iv)
         IN  KeptDistance(IF d.scrape THEN [h EXCEPT !.n = @ + 1, !.last = now] ELSE h, d.at, now)
<1> PICK s : s = Least(h.iv)
  OBVIOUS
<1> PICK x : x = h.n * s
  OBVIOUS
<1>1. /\ s \in Nat /\ Early(h.iv) \in Nat /\ Early(h.iv) <= h.iv /\ s = h.iv - Early(h.iv) /\ x \in Nat
      /\ (h.n + 1) * s = x + s /\ (h.n - 1) * s = x - s
      /\ h.n \in Nat /\ h.iv \in Nat \ {0} /\ h.first \in Int /\ h.last \in Int
  BY EarlyFacts, OneMore DEF Counts, Least
<1>2. due[k] \in Int /\ h.last <= now /\ x - s <= h.last - h.first /\ x <= due[k] - Early(h.iv) - h.first
  BY <1>1 DEF KeptDistance
<1> DEFINE d == DueNow(now, k, h.iv)
<1>3. CASE now + Early(h.iv) < due[k]
  <2>1. ~d.scrape /\ d.at = MinOf(due[k], now + h.iv)
    BY <1>3 DEF DueNow, Early
  <2>2. d.at \in Int /\ x <= d.at - Early(h.iv) - h.first
    BY <1>1, <1>2, <2>1 DEF MinOf
  <2> QED BY <1>1, <1>2, <2>1, <2>2 DEF KeptDistance
<1>4. CASE ~(now + Early(h.iv) < due[k])
  <2>1. d.scrape /\ d.at = IF due[k] + h.iv > now THEN due[k] + h.iv ELSE now + h.iv
    BY <1>4 DEF DueNow, Early
  <2>2. d.at \in Int /\ x + s <= d.at - Early(h.iv) - h.first /\ x <= now - h.first
    BY <1>1, <1>2, <1>4, <2>1
  <2> PICK g : g = [h EXCEPT !.n = @ + 1, !.last = now]
    OBVIOUS
  <2>3. g \in Counts /\ g.n = h.n + 1 /\ g.last = now /\ g.first = h.first /\ g.iv = h.iv
    BY OneMoreCounted
  <2>4. KeptDistance(g, d.at, now)
    <3>1. (g.n - 1) * Least(g.iv) = x /\ g.n * Least(g.iv) = x + s
      <4>1. g.n - 1 = h.n
        BY <1>1, <2>3
      <4> QED BY <1>1, <2>3, <4>1
    <3> QED BY <1>1, <2>2, <2>3, <3>1 DEF KeptDistance
  <2> QED BY <2>1, <2>4
<1> QED BY <1>3, <1>4

\* The count starts over.
LEMMA CountStarts ==
  ASSUME NEW k, NEW iv \in Nat \ {0}, now \in Int, k \in DOMAIN due => due[k] \in Int
  PROVE  LET d == DueNow(now, k, iv) IN KeptDistance(CountRestarted(k, iv, d.scrape), d.at, now)
<1> DEFINE d == DueNow(now, k, iv)
<1>1. Early(iv) \in Nat /\ Early(iv) <= iv /\ Least(iv) \in Nat /\ Least(iv) = iv - Early(iv)
  BY EarlyFacts DEF Least
<1>2. /\ 0 * Least(iv) = 0 /\ 1 * Least(iv) = Least(iv) /\ (1 - 1) * Least(iv) = 0 /\ (0 - 1) * Least(iv) = 0 - Least(iv)
  BY <1>1
<1>3. CASE k \in DOMAIN due /\ now + Early(iv) < due[k]
  <2>1. ~d.scrape /\ d.at = MinOf(due[k], now + iv)
    BY <1>3 DEF DueNow, Early
  <2>2. d.at \in Int /\ d.at >= now + Early(iv)
    BY <1>1, <1>3, <2>1 DEF MinOf
  <2> PICK g : g = [first |-> now, last |-> now, n |-> 0, iv |-> iv]
    OBVIOUS
  <2>3. g = CountRestarted(k, iv, d.scrape)
    BY <2>1 DEF CountRestarted
  <2>4. g \in Counts /\ g.first = now /\ g.last = now /\ g.n = 0 /\ g.iv = iv
    BY <1>1 DEF Counts
  <2>5. KeptDistance(g, d.at, now)
    BY <1>1, <1>2, <2>2, <2>4 DEF KeptDistance
  <2> QED BY <2>3, <2>5
<1>4. CASE ~(k \in DOMAIN due /\ now + Early(iv) < due[k])
  <2> PICK f : f = IF k \in DOMAIN due THEN MinOf(now, due[k]) ELSE now
    OBVIOUS
  <2>1. d.scrape /\ d.at \in Int /\ f \in Int /\ f <= now /\ d.at >= f + iv
    BY <1>1, <1>4 DEF DueNow, Early, MinOf
  <2> PICK g : g = [first |-> f, last |-> now, n |-> 1, iv |-> iv]
    OBVIOUS
  <2>3. g = CountRestarted(k, iv, d.scrape)
    BY <2>1 DEF CountRestarted
  <2>4. g \in Counts /\ g.first = f /\ g.last = now /\ g.n = 1 /\ g.iv = iv
    BY <2>1 DEF Counts
  <2>5. KeptDistance(g, d.at, now)
    BY <1>1, <1>2, <2>1, <2>4 DEF KeptDistance
  <2> QED BY <2>3, <2>5
<1> QED BY <1>3, <1>4

-----------------------------------------------------------------------------
(* A cycle.                                                                  *)

Deciding == cpc \in {"kubelet", "targets"}

\* When key k is due next, as this cycle has decided or as the schedule says.
DueAt(k) == IF Deciding /\ k \in DOMAIN newDue THEN newDue[k] ELSE due[k]

Listed(o) == DOMAIN o \subseteq Targets /\ \A t \in DOMAIN o : o[t] \in Int

CycleInv ==
  /\ now \in Int /\ Listed(served) /\ Listed(lastGood) /\ Listed(list)
  /\ \A k \in DOMAIN due : due[k] \in Int
  /\ cpc = "kubelet" => DOMAIN newDue = Kubelet /\ list = Empty /\ ~listOK
  /\ cpc = "targets" => DOMAIN newDue = Kubelet \cup DOMAIN list /\ (~listOK => list = Empty)
  /\ DOMAIN hist = DOMAIN due \cup (IF Deciding THEN DOMAIN newDue ELSE {})

\* Each key keeps its distance, and a listed one is due within its interval.
DistanceInv ==
  /\ \A k \in DOMAIN hist : KeptDistance(hist[k], DueAt(k), now)
  /\ cpc \in {"targets", "join"} /\ listOK => \A k \in DOMAIN list :
       /\ k \in DOMAIN hist
       /\ DueAt(k) <= now + IntervalOf(k, list) + IntervalOf(k, list) \div EarlyDiv

ScheduleInv == CycleInv /\ DistanceInv

LEMMA IntervalFacts == ASSUME NEW o, Listed(o), NEW k PROVE IntervalOf(k, o) \in Nat \ {0}
BY ScheduleAssumption DEF Listed, IntervalOf

LEMMA EmptyListed == Listed(Empty) /\ DOMAIN Empty = {}
BY DEF Listed, Empty

\* What a cycle notes of the keys it decides is in order with the due times it decides.
LEMMA NotedInOrder ==
  ASSUME NEW o, Listed(o), NEW keys, now \in Int, \A k \in DOMAIN due : due[k] \in Int,
         \A k \in keys \cap DOMAIN hist : k \in DOMAIN due /\ KeptDistance(hist[k], due[k], now),
         keys \cap DOMAIN due \subseteq DOMAIN hist
  PROVE  LET dec == Decided(keys, now, o)
             h   == Note(hist, dec, o)
         IN  /\ DOMAIN dec = keys /\ DOMAIN NextDue(dec) = keys /\ DOMAIN h = DOMAIN hist \cup keys
             /\ \A k \in keys : /\ KeptDistance(h[k], NextDue(dec)[k], now)
                                /\ NextDue(dec)[k] <= now + IntervalOf(k, o) + IntervalOf(k, o) \div EarlyDiv
             /\ \A k \in DOMAIN hist \ keys : h[k] = hist[k]
<1> DEFINE dec == Decided(keys, now, o)
           h   == Note(hist, dec, o)
<1>1. DOMAIN dec = keys /\ \A k \in keys : dec[k] = DueNow(now, k, IntervalOf(k, o))
  BY DEF Decided
<1>2. \A k \in keys : /\ dec[k].at \in Int /\ dec[k].scrape \in BOOLEAN
                      /\ dec[k].at <= now + IntervalOf(k, o) + IntervalOf(k, o) \div EarlyDiv
                      /\ ~dec[k].scrape => k \in DOMAIN due
  BY <1>1, DecisionFacts, IntervalFacts DEF Early
<1> HIDE DEF dec
<1>3. DOMAIN NextDue(dec) = keys /\ \A k \in keys : NextDue(dec)[k] = dec[k].at
  BY <1>1 DEF NextDue
<1>4. DOMAIN h = DOMAIN hist \cup keys
  BY <1>1, <1>2 DEF Note, DueKeys
<1>5. \A k \in DOMAIN hist \ keys : h[k] = hist[k]
  BY <1>1 DEF Note
<1>6. ASSUME NEW k \in keys PROVE KeptDistance(h[k], dec[k].at, now)
  <2> PICK iv \in Nat \ {0} : iv = IntervalOf(k, o)
    BY IntervalFacts
  <2> DEFINE d == DueNow(now, k, iv)
  <2>1. dec[k] = d
    BY <1>1, <1>6
  <2>2. h[k] = IF k \notin DOMAIN hist \/ hist[k].iv # iv THEN CountRestarted(k, iv, dec[k].scrape)
               ELSE IF dec[k].scrape THEN [hist[k] EXCEPT !.n = @ + 1, !.last = now] ELSE hist[k]
    BY <1>1, <1>4, <1>6 DEF Note, DueKeys
  <2>3. CASE k \notin DOMAIN hist \/ hist[k].iv # iv
    BY <2>1, <2>2, <2>3, CountStarts
  <2>4. CASE k \in DOMAIN hist /\ hist[k].iv = iv
    <3>1. k \in DOMAIN due /\ KeptDistance(hist[k], due[k], now) /\ hist[k] \in Counts
      BY <1>6, <2>4 DEF KeptDistance
    <3>2. h[k] = IF d.scrape THEN [hist[k] EXCEPT !.n = @ + 1, !.last = now] ELSE hist[k]
      BY <2>1, <2>2, <2>4
    <3>3. d = DueNow(now, k, hist[k].iv)
      BY <2>4
    <3>4. now \in Int
      BY <1>1
    <3> HIDE DEF d
    <3>5. KeptDistance(IF d.scrape THEN [hist[k] EXCEPT !.n = @ + 1, !.last = now] ELSE hist[k], d.at, now)
      BY <3>1, <3>3, <3>4, CountGoesOn
    <3> QED BY <2>1, <3>2, <3>5
  <2> QED BY <2>3, <2>4
<1> QED BY <1>1, <1>2, <1>3, <1>4, <1>5, <1>6 DEF dec

LEMMA LaterStillKept ==
  ASSUME NEW h, NEW d, NEW t \in Int, NEW u \in Int, t <= u, KeptDistance(h, d, t)
  PROVE  KeptDistance(h, d, u)
BY DEF KeptDistance, Counts

LEMMA ScheduleStarts == ScheduleInit => ScheduleInv
<1> SUFFICES ASSUME ScheduleInit PROVE ScheduleInv
  OBVIOUS
<1>1. CycleInv
  BY EmptyListed, ScheduleAssumption DEF ScheduleInit, CycleInv, Listed, Deciding
<1>2. DistanceInv
  BY EmptyListed DEF ScheduleInit, DistanceInv
<1> QED BY <1>1, <1>2 DEF ScheduleInv

\* A step that decides nothing.
LEMMA QuietStep ==
  ASSUME ScheduleInv, UNCHANGED <<due, newDue, list, listOK, hist, lastGood, cpc>>,
         now' \in {now, now + 1}, Listed(served')
  PROVE  ScheduleInv'
<1>1. CycleInv'
  BY DEF ScheduleInv, CycleInv, Listed, Deciding
<1>2. now \in Int /\ now' \in Int /\ now <= now' /\ \A k : DueAt(k)' = DueAt(k)
  BY DEF ScheduleInv, CycleInv, DueAt, Deciding
<1>3. \A k \in DOMAIN hist' : KeptDistance(hist'[k], DueAt(k)', now')
  BY <1>2, LaterStillKept DEF ScheduleInv, DistanceInv
<1>4. ASSUME cpc' \in {"targets", "join"}, listOK', NEW k \in DOMAIN list'
      PROVE  /\ k \in DOMAIN hist'
             /\ DueAt(k)' <= now' + IntervalOf(k, list') + IntervalOf(k, list') \div EarlyDiv
  <2>1. k \in DOMAIN hist /\ DueAt(k) <= now + IntervalOf(k, list) + IntervalOf(k, list) \div EarlyDiv
    BY <1>4 DEF ScheduleInv, DistanceInv
  <2>2. DueAt(k) \in Int
    BY <2>1 DEF ScheduleInv, DistanceInv, KeptDistance
  <2>3. IntervalOf(k, list) \in Nat /\ IntervalOf(k, list) \div EarlyDiv \in Nat
    BY IntervalFacts, EarlyFacts DEF ScheduleInv, CycleInv, Early
  <2> QED BY <1>2, <2>1, <2>2, <2>3
<1> QED BY <1>1, <1>3, <1>4 DEF ScheduleInv, DistanceInv

\* The cycle is over.
LEMMA IdleStep ==
  ASSUME ScheduleInv, UNCHANGED <<now, served, due, newDue, list, listOK, hist, lastGood>>,
         ~Deciding, cpc' \in {"wait", "stopped"}
  PROVE  ScheduleInv'
<1>1. CycleInv'
  BY DEF ScheduleInv, CycleInv, Listed, Deciding
<1>2. \A k : DueAt(k)' = DueAt(k)
  BY DEF DueAt, Deciding
<1>3. DistanceInv'
  BY <1>2 DEF ScheduleInv, DistanceInv
<1> QED BY <1>1, <1>3 DEF ScheduleInv

LEMMA BeginKeepsSchedule == ASSUME ScheduleInv, BeginCycle PROVE ScheduleInv'
<1> DEFINE dec == Decided(Kubelet, now, Empty)
<1>1. /\ cpc = "wait" /\ cpc' = "kubelet" /\ newDue' = NextDue(dec) /\ hist' = Note(hist, dec, Empty)
      /\ list' = Empty /\ listOK' = FALSE /\ UNCHANGED <<now, served, due, lastGood>>
  BY DEF BeginCycle
<1>2. /\ now \in Int /\ DOMAIN hist = DOMAIN due /\ \A k \in DOMAIN due : due[k] \in Int
      /\ \A k \in DOMAIN hist : KeptDistance(hist[k], due[k], now)
  BY <1>1 DEF ScheduleInv, CycleInv, DistanceInv, DueAt, Deciding
<1>3. /\ DOMAIN newDue' = Kubelet /\ DOMAIN hist' = DOMAIN hist \cup Kubelet
      /\ \A k \in Kubelet : KeptDistance(hist'[k], newDue'[k], now)
      /\ \A k \in DOMAIN hist \ Kubelet : hist'[k] = hist[k]
  <2>1. /\ \A k \in Kubelet \cap DOMAIN hist : k \in DOMAIN due /\ KeptDistance(hist[k], due[k], now)
        /\ Kubelet \cap DOMAIN due \subseteq DOMAIN hist
    BY <1>2
  <2>2. /\ DOMAIN NextDue(dec) = Kubelet /\ DOMAIN Note(hist, dec, Empty) = DOMAIN hist \cup Kubelet
        /\ \A k \in Kubelet :
             /\ KeptDistance(Note(hist, dec, Empty)[k], NextDue(dec)[k], now)
             /\ NextDue(dec)[k] <= now + IntervalOf(k, Empty) + IntervalOf(k, Empty) \div EarlyDiv
        /\ \A k \in DOMAIN hist \ Kubelet : Note(hist, dec, Empty)[k] = hist[k]
    BY <1>2, <2>1, NotedInOrder, EmptyListed
  <2> HIDE DEF dec
  <2> QED BY <1>1, <2>2
<1>4. CycleInv'
  BY <1>1, <1>2, <1>3, EmptyListed DEF ScheduleInv, CycleInv, Listed, Deciding
<1>5. \A k : DueAt(k)' = IF k \in Kubelet THEN newDue'[k] ELSE due[k]
  BY <1>1, <1>3 DEF DueAt, Deciding
<1>6. DistanceInv'
  BY <1>1, <1>2, <1>3, <1>5 DEF DistanceInv
<1> QED BY <1>4, <1>6 DEF ScheduleInv

LEMMA UseListKeepsSchedule ==
  ASSUME ScheduleInv, NEW o, Listed(o), UseList(o), cpc = "kubelet", cpc' = "targets",
         UNCHANGED <<now, served, due>>, Listed(lastGood')
  PROVE  ScheduleInv'
<1> DEFINE dec == Decided(DOMAIN o, now, o)
<1>1. /\ list' = o /\ listOK' = TRUE /\ newDue' = Over(newDue, NextDue(dec)) /\ hist' = Note(hist, dec, o)
  BY DEF UseList
<1>2. /\ now \in Int /\ DOMAIN newDue = Kubelet /\ DOMAIN hist = DOMAIN due \cup Kubelet
      /\ (\A k \in DOMAIN due : due[k] \in Int) /\ DOMAIN o \cap Kubelet = {}
  BY ScheduleAssumption DEF ScheduleInv, CycleInv, Deciding, Listed
<1>3. /\ \A k \in DOMAIN hist \ Kubelet : KeptDistance(hist[k], due[k], now)
      /\ \A k \in Kubelet : KeptDistance(hist[k], newDue[k], now)
  BY <1>2 DEF ScheduleInv, DistanceInv, DueAt, Deciding
<1>4. /\ DOMAIN NextDue(dec) = DOMAIN o /\ DOMAIN hist' = DOMAIN hist \cup DOMAIN o
      /\ \A k \in DOMAIN o :
           /\ KeptDistance(hist'[k], NextDue(dec)[k], now)
           /\ NextDue(dec)[k] <= now + IntervalOf(k, o) + IntervalOf(k, o) \div EarlyDiv
      /\ \A k \in DOMAIN hist \ DOMAIN o : hist'[k] = hist[k]
  <2>1. /\ \A k \in DOMAIN o \cap DOMAIN hist : k \in DOMAIN due /\ KeptDistance(hist[k], due[k], now)
        /\ DOMAIN o \cap DOMAIN due \subseteq DOMAIN hist
    BY <1>2, <1>3
  <2>2. /\ DOMAIN NextDue(dec) = DOMAIN o /\ DOMAIN Note(hist, dec, o) = DOMAIN hist \cup DOMAIN o
        /\ \A k \in DOMAIN o :
             /\ KeptDistance(Note(hist, dec, o)[k], NextDue(dec)[k], now)
             /\ NextDue(dec)[k] <= now + IntervalOf(k, o) + IntervalOf(k, o) \div EarlyDiv
        /\ \A k \in DOMAIN hist \ DOMAIN o : Note(hist, dec, o)[k] = hist[k]
    BY <1>2, <2>1, NotedInOrder, EmptyListed
  <2> HIDE DEF dec
  <2> QED BY <1>1, <2>2
<1> HIDE DEF dec
<1>5. /\ DOMAIN newDue' = Kubelet \cup DOMAIN o
      /\ \A k \in DOMAIN o : newDue'[k] = NextDue(dec)[k]
      /\ \A k \in Kubelet : newDue'[k] = newDue[k]
  BY <1>1, <1>2, <1>4 DEF Over
<1>6. CycleInv'
  BY <1>1, <1>2, <1>4, <1>5 DEF ScheduleInv, CycleInv, Listed, Deciding
<1>7. \A k : DueAt(k)' = IF k \in DOMAIN newDue' THEN newDue'[k] ELSE due[k]
  BY DEF DueAt, Deciding
<1>8. \A k \in DOMAIN hist' : KeptDistance(hist'[k], DueAt(k)', now')
  BY <1>2, <1>3, <1>4, <1>5, <1>7
<1>9. \A k \in DOMAIN o : k \in DOMAIN hist' /\ DueAt(k)' <= now' + IntervalOf(k, o) + IntervalOf(k, o) \div EarlyDiv
  BY <1>4, <1>5, <1>7
<1>10. DistanceInv'
  BY <1>1, <1>8, <1>9 DEF DistanceInv
<1> QED BY <1>6, <1>10 DEF ScheduleInv

LEMMA HookListed == ASSUME NEW o, Listed(o) PROVE Listed(ApplyHook(o))
BY DEF Listed, ApplyHook

LEMMA FetchKeepsSchedule == ASSUME ScheduleInv, FetchOK \/ FetchFails PROVE ScheduleInv'
<1>1. Listed(served) /\ Listed(lastGood) /\ cpc = "kubelet" /\ cpc' = "targets" /\ UNCHANGED <<now, served, due>>
  BY DEF FetchOK, FetchFails, ScheduleInv, CycleInv
<1>2. CASE FetchOK
  <2>1. UseList(ApplyHook(served)) /\ lastGood' = served
    BY <1>2 DEF FetchOK
  <2> QED BY <1>1, <2>1, HookListed, UseListKeepsSchedule
<1>3. CASE FetchFails /\ UseList(ApplyHook(lastGood))
  <2>1. lastGood' = lastGood
    BY <1>3 DEF FetchFails
  <2> QED BY <1>1, <1>3, <2>1, HookListed, UseListKeepsSchedule
<1>4. CASE list' = Empty /\ listOK' = FALSE /\ UNCHANGED <<newDue, hist, lastGood>>
  <2>1. CycleInv'
    BY <1>1, <1>4, EmptyListed DEF ScheduleInv, CycleInv, Listed, Deciding
  <2>2. \A k : DueAt(k)' = DueAt(k)
    BY <1>1, <1>4 DEF DueAt, Deciding
  <2>3. DistanceInv'
    BY <1>1, <1>4, <2>2 DEF ScheduleInv, DistanceInv
  <2> QED BY <2>1, <2>3 DEF ScheduleInv
<1> QED BY <1>2, <1>3, <1>4 DEF FetchFails

LEMMA SetKeepsSchedule == ASSUME ScheduleInv, SetSchedule PROVE ScheduleInv'
<1>1. /\ cpc = "targets" /\ cpc' = "join" /\ due' = ScheduleAfter(newDue, listOK)
      /\ hist' = IF listOK THEN [k \in DOMAIN hist \cap (Kubelet \cup DOMAIN list) |-> hist[k]] ELSE hist
      /\ UNCHANGED <<now, served, lastGood, newDue, list, listOK>>
  BY DEF SetSchedule
<1>2. /\ DOMAIN newDue = Kubelet \cup DOMAIN list /\ (~listOK => DOMAIN list = {})
      /\ DOMAIN hist = DOMAIN due \cup DOMAIN newDue
  BY <1>1, EmptyListed DEF ScheduleInv, CycleInv, Deciding
<1>3. \A k \in DOMAIN hist : KeptDistance(hist[k], IF k \in DOMAIN newDue THEN newDue[k] ELSE due[k], now)
  BY <1>1 DEF ScheduleInv, DistanceInv, DueAt, Deciding
<1>4. /\ DOMAIN hist' = DOMAIN due' /\ DOMAIN hist' \subseteq DOMAIN hist
      /\ \A k \in DOMAIN hist' : hist'[k] = hist[k]
      /\ \A k \in DOMAIN due' : due'[k] = IF k \in DOMAIN newDue THEN newDue[k] ELSE due[k]
  <2>1. CASE listOK
    BY <1>1, <1>2, <2>1 DEF ScheduleAfter
  <2>2. CASE ~listOK
    <3>1. /\ DOMAIN due' = DOMAIN due \cup DOMAIN newDue
          /\ \A k \in DOMAIN due' : due'[k] = IF k \in DOMAIN newDue THEN newDue[k] ELSE due[k]
      BY <1>1, <1>2, <2>2 DEF ScheduleAfter, Over
    <3> QED BY <1>1, <1>2, <2>2, <3>1
  <2> QED BY <2>1, <2>2
<1>5. \A k \in DOMAIN hist' : KeptDistance(hist'[k], due'[k], now)
  BY <1>3, <1>4
<1>6. \A k \in DOMAIN due' : due'[k] \in Int
  BY <1>4, <1>5 DEF KeptDistance
<1>7. CycleInv'
  BY <1>1, <1>4, <1>6 DEF ScheduleInv, CycleInv, Listed, Deciding
<1>8. \A k : DueAt(k)' = due'[k]
  BY <1>1 DEF DueAt, Deciding
<1>9. ASSUME listOK, NEW k \in DOMAIN list
      PROVE  k \in DOMAIN hist' /\ due'[k] <= now + IntervalOf(k, list) + IntervalOf(k, list) \div EarlyDiv
  <2>1. k \in DOMAIN hist /\ newDue[k] <= now + IntervalOf(k, list) + IntervalOf(k, list) \div EarlyDiv
    BY <1>1, <1>2, <1>9 DEF ScheduleInv, DistanceInv, DueAt, Deciding
  <2>2. k \in DOMAIN hist'
    BY <1>1, <1>9, <2>1
  <2> QED BY <1>2, <1>4, <2>1, <2>2
<1>10. DistanceInv'
  BY <1>1, <1>5, <1>8, <1>9 DEF DistanceInv
<1> QED BY <1>7, <1>10 DEF ScheduleInv

LEMMA ScheduleKeeps == ScheduleInv /\ [ScheduleNext]_schedVars => ScheduleInv'
<1> SUFFICES ASSUME ScheduleInv, [ScheduleNext]_schedVars PROVE ScheduleInv'
  OBVIOUS
<1>1. Listed(served) /\ \A o \in Offers : Listed(o)
  BY ScheduleAssumption DEF ScheduleInv, CycleInv, Listed
<1>2. CASE \/ UNCHANGED schedVars \/ SpawnRefused \/ Pass \/ ServedChanges \/ Shutdown
           \/ \E k \in Keys : Spawn(k) \/ ScrapeEnds(k)
  <2>1. UNCHANGED <<due, newDue, list, listOK, hist, lastGood, cpc>> /\ now' \in {now, now + 1}
    BY <1>2 DEF schedVars, SpawnRefused, Pass, ServedChanges, Shutdown, Spawn, ScrapeEnds
  <2>2. served' = served \/ served' \in Offers
    BY <1>2 DEF schedVars, SpawnRefused, Pass, ServedChanges, Shutdown, Spawn, ScrapeEnds
  <2> QED BY <1>1, <2>1, <2>2, QuietStep
<1>3. CASE EndCycle \/ StopWaiting
  <2>1. UNCHANGED <<now, served, due, newDue, list, listOK, hist, lastGood>> /\ ~Deciding /\ cpc' \in {"wait", "stopped"}
    BY <1>3 DEF EndCycle, StopWaiting, Deciding
  <2> QED BY <2>1, IdleStep
<1> QED BY <1>2, <1>3, BeginKeepsSchedule, FetchKeepsSchedule, SetKeepsSchedule DEF ScheduleNext

\* For any endpoints, intervals, changes of the list, failed fetches and delays: none is
\* scraped more often than its interval allows, and each listed one is due again within
\* its interval (dueNow, setSchedule, setKubeletSchedule, fetchTargets).
THEOREM CadenceAlwaysKept == ScheduleSpec => []Cadence
<1>1. ScheduleInv => Cadence
  BY DEF ScheduleInv, DistanceInv, CycleInv, KeptDistance, Least, Early, Cadence, DueAt, Deciding
<1> QED BY <1>1, ScheduleStarts, ScheduleKeeps, PTL DEF ScheduleSpec

-----------------------------------------------------------------------------
(* The credentials.                                                          *)

TargetType == [header : Seq(Refs), tls : Seq(Refs), name : ServerNames \cup {"none"}]
CredEntry == [token : Int, fetched : Int, used : Int, asked : Int]
ClientEntry == [client : Int, used : Int]
ScrapePcs == {"idle", "resolve", "fetch", "asked", "client", "build", "close", "done"}
ScrapeType == [pc : ScrapePcs, target : TargetType, retained : CredEntry, reply : Int, asked : Int,
               got : Seq(Int), client : Int, retired : SUBSET Int, oldest : Int, age : Int]

\* How old the credentials may be once n of them are there.
Within(n) == StaleGrace + Latency * n

\* A cached value was asked for at most a request before it was fetched.
EntryAged(e, t) == e \in CredEntry /\ e.asked <= e.fetched /\ e.fetched <= e.asked + Latency /\ e.fetched <= t

\* A scrape's credentials are no older than the lookups so far allow; time passes only
\* while it asks for one.
ScrapeAged(s, t) ==
  /\ s \in ScrapeType /\ s.age < Within(Len(Needs(s.target)))
  /\ s.pc # "close" => s.retired = {}
  /\ s.pc \in {"resolve", "fetch", "asked"} => Len(s.got) < Len(Needs(s.target))
  /\ s.pc \in {"client", "build"} => Len(s.got) = Len(Needs(s.target))
  /\ s.pc \in {"resolve", "fetch", "client", "build"} => t - s.oldest < Within(Len(s.got))
  /\ s.pc = "asked" => s.asked <= t /\ t <= s.asked + Latency /\ s.asked - s.oldest < Within(Len(s.got))

MaterialOf(s) == <<s.target.name, SubSeq(s.got, Len(s.target.header) + 1, Len(s.got))>>
InUse(s) == s.pc \in {"close", "done"} /\ OwnClient(s.target)
CachedFor(s, tl) == MaterialOf(s) \in DOMAIN tl /\ tl[MaterialOf(s)].client = s.client
Retiring(sc) == UNION {sc[q].retired : q \in AuthScrapes}

ClientsHeld == \A p \in AuthScrapes : InUse(scr[p]) => scr[p].client \in closed \cup Retiring(scr) \/ CachedFor(scr[p], tlsClients)

AuthCacheInv ==
  /\ IsFiniteSet(DOMAIN authCache) /\ Cardinality(DOMAIN authCache) <= MaxAuth
  /\ \A r \in DOMAIN authCache : EntryAged(authCache[r], time)

ClientsInv ==
  /\ IsFiniteSet(DOMAIN tlsClients) /\ Cardinality(DOMAIN tlsClients) <= MaxTLS
  /\ \A k \in DOMAIN tlsClients : tlsClients[k] \in ClientEntry

ScrapesInv == scr = [p \in AuthScrapes |-> scr[p]] /\ \A p \in AuthScrapes : ScrapeAged(scr[p], time)

AuthInv ==
  /\ time \in Int /\ version \in Int /\ made \in Int /\ undone = FALSE /\ secret \in [Refs -> Int]
  /\ AuthCacheInv /\ ClientsInv /\ ScrapesInv /\ ClientsHeld

LEMMA LimitFacts ==
  /\ AuthTTL \in Nat \ {0} /\ IdleRelease \in Nat /\ StaleGrace \in Nat /\ TLSIdle \in Nat /\ Latency \in Nat
  /\ StaleGrace >= AuthTTL /\ MaxAuth \in Nat \ {0} /\ MaxTLS \in Nat \ {0} /\ StaleGrace > 0
BY AuthAssumption

LEMMA WithinFacts ==
  ASSUME NEW n \in Nat
  PROVE  Within(n) \in Nat /\ Within(n) >= StaleGrace /\ Within(n + 1) = Within(n) + Latency
<1>1. Latency \in Nat /\ StaleGrace \in Nat
  BY LimitFacts
<1>2. Latency * n \in Nat /\ Latency * (n + 1) = Latency * n + Latency
  BY <1>1
<1> QED BY <1>1, <1>2 DEF Within

LEMMA NeedsFacts == ASSUME NEW t \in TargetType PROVE Needs(t) \in Seq(Refs) /\ Len(Needs(t)) \in Nat
<1>1. t.header \in Seq(Refs) /\ t.tls \in Seq(Refs)
  BY DEF TargetType
<1>2. Needs(t) \in Seq(Refs)
  BY <1>1, ConcatProperties DEF Needs
<1> QED BY <1>2, LenProperties

LEMMA RestingFacts ==
  /\ Resting \in ScrapeType /\ Resting.pc = "idle" /\ Resting.retired = {} /\ Resting.age = 0
  /\ \A t \in Int : ScrapeAged(Resting, t)
<1>1. [header |-> << >>, tls |-> << >>, name |-> "none"] \in TargetType
  BY DEF TargetType
<1>2. NoEntry \in CredEntry
  BY DEF NoEntry, CredEntry
<1> PICK t : t = [header |-> << >>, tls |-> << >>, name |-> "none"]
  OBVIOUS
<1>21. t \in TargetType /\ "idle" \in ScrapePcs /\ << >> \in Seq(Int)
  BY <1>1 DEF ScrapePcs
<1>22. Resting = [pc |-> "idle", target |-> t, retained |-> NoEntry, reply |-> 0, asked |-> 0, got |-> << >>,
                  client |-> 0, retired |-> {}, oldest |-> 0, age |-> 0]
  BY DEF Resting, SharedClient
<1>3. /\ Resting \in ScrapeType /\ Resting.pc = "idle" /\ Resting.retired = {} /\ Resting.age = 0
  BY <1>2, <1>21, <1>22 DEF ScrapeType
<1>4. Len(Needs(Resting.target)) \in Nat
  BY <1>3, NeedsFacts DEF ScrapeType
<1>5. 0 < Within(Len(Needs(Resting.target)))
  BY <1>4, WithinFacts, LimitFacts
<1> QED BY <1>3, <1>5 DEF ScrapeAged

LEMMA AuthStarts == AuthInit => AuthInv
<1> SUFFICES ASSUME AuthInit PROVE AuthInv
  OBVIOUS
<1>1. /\ time = 0 /\ secret = [r \in Refs |-> 1] /\ DOMAIN authCache = {} /\ DOMAIN tlsClients = {}
      /\ made = 0 /\ version = 1 /\ scr = [p \in AuthScrapes |-> Resting] /\ undone = FALSE
  BY DEF AuthInit
<1>2. IsFiniteSet({}) /\ Cardinality({}) = 0
  BY FS_EmptySet
<1>3. AuthCacheInv /\ ClientsInv
  BY <1>1, <1>2, LimitFacts DEF AuthCacheInv, ClientsInv
<1>4. ScrapesInv
  BY <1>1, RestingFacts DEF ScrapesInv
<1>5. ClientsHeld
  BY <1>1, RestingFacts DEF ClientsHeld, InUse
<1> QED BY <1>1, <1>3, <1>4, <1>5 DEF AuthInv

\* One scrape moves on, and what it held or retires is accounted for.
LEMMA ScrapeMoves ==
  ASSUME AuthInv, NEW p \in AuthScrapes, NEW q, scr' = [scr EXCEPT ![p] = q], ScrapeAged(q, time),
         UNCHANGED <<time, secret, version>>, made' \in Int, undone' = FALSE, AuthCacheInv', ClientsInv',
         closed \subseteq closed', scr[p].retired \subseteq closed',
         \A k \in DOMAIN tlsClients :
           \/ k \in DOMAIN tlsClients' /\ tlsClients'[k].client = tlsClients[k].client
           \/ tlsClients[k].client \in q.retired,
         InUse(q) => \/ CachedFor(q, tlsClients')
                     \/ /\ InUse(scr[p]) /\ q.client = scr[p].client /\ q.got = scr[p].got /\ q.target = scr[p].target
  PROVE  AuthInv'
<1>1. scr = [x \in AuthScrapes |-> scr[x]] /\ \A x \in AuthScrapes : scr'[x] = IF x = p THEN q ELSE scr[x]
  BY DEF AuthInv, ScrapesInv
<1>2. ScrapesInv'
  BY <1>1 DEF AuthInv, ScrapesInv
<1>3. closed \cup Retiring(scr) \subseteq closed' \cup Retiring(scr')
  BY <1>1 DEF Retiring
<1>4. \A s : CachedFor(s, tlsClients) => CachedFor(s, tlsClients') \/ s.client \in q.retired
  BY DEF CachedFor
<1>5. q.retired \subseteq Retiring(scr')
  BY <1>1 DEF Retiring
<1>6. ASSUME NEW s, s.client \in closed \cup Retiring(scr) \/ CachedFor(s, tlsClients)
      PROVE  s.client \in closed' \cup Retiring(scr') \/ CachedFor(s, tlsClients')
  BY <1>3, <1>4, <1>5, <1>6
<1>7. ASSUME NEW x \in AuthScrapes, InUse(scr'[x])
      PROVE  scr'[x].client \in closed' \cup Retiring(scr') \/ CachedFor(scr'[x], tlsClients')
  <2>1. CASE x # p
    <3>1. scr'[x] = scr[x] /\ InUse(scr[x])
      BY <1>1, <1>7, <2>1
    <3> QED BY <1>6, <3>1 DEF AuthInv, ClientsHeld
  <2>2. CASE x = p /\ ~CachedFor(q, tlsClients')
    <3>1. InUse(scr[p]) /\ q.client = scr[p].client /\ q.got = scr[p].got /\ q.target = scr[p].target /\ scr'[p] = q
      BY <1>1, <1>7, <2>2
    <3>2. scr[p].client \in closed' \cup Retiring(scr') \/ CachedFor(scr[p], tlsClients')
      BY <1>6, <3>1 DEF AuthInv, ClientsHeld
    <3> QED BY <2>2, <3>1, <3>2 DEF CachedFor, MaterialOf
  <2> QED BY <1>1, <2>1, <2>2
<1>8. ClientsHeld'
  <2>1. \A x \in AuthScrapes : InUse(scr[x])' <=> InUse(scr'[x])
    BY DEF InUse
  <2>2. \A x \in AuthScrapes : CachedFor(scr[x], tlsClients)' <=> CachedFor(scr'[x], tlsClients')
    BY DEF CachedFor, MaterialOf
  <2> QED BY <1>7, <2>1, <2>2 DEF ClientsHeld
<1> QED BY <1>2, <1>8 DEF AuthInv

LEMMA ScrapeFacts ==
  ASSUME AuthInv, NEW p \in AuthScrapes
  PROVE  /\ scr[p] \in ScrapeType /\ ScrapeAged(scr[p], time) /\ time \in Int /\ scr[p].age \in Int
         /\ scr[p].oldest \in Int /\ scr[p].asked \in Int /\ scr[p].got \in Seq(Int) /\ Len(scr[p].got) \in Nat
         /\ scr[p].target \in TargetType /\ Len(Needs(scr[p].target)) \in Nat /\ scr[p].retired \in SUBSET Int
         /\ scr[p].reply \in Int /\ scr[p].retained \in CredEntry /\ scr[p].client \in Int
<1>1. scr[p] \in ScrapeType /\ ScrapeAged(scr[p], time) /\ time \in Int
  BY DEF AuthInv, ScrapesInv, ScrapeAged
<1>2. /\ scr[p].age \in Int /\ scr[p].oldest \in Int /\ scr[p].asked \in Int /\ scr[p].got \in Seq(Int)
      /\ scr[p].target \in TargetType /\ scr[p].retired \in SUBSET Int
      /\ scr[p].reply \in Int /\ scr[p].retained \in CredEntry /\ scr[p].client \in Int
  BY <1>1 DEF ScrapeType
<1> QED BY <1>1, <1>2, NeedsFacts, LenProperties

\* A scrape moves on without a client, or gives up; the cached values are aged.
LEMMA ScrapeGoesOn ==
  ASSUME AuthInv, NEW p \in AuthScrapes, NEW q, scr' = [scr EXCEPT ![p] = q], ScrapeAged(q, time), ~InUse(q),
         scr[p].pc # "close", UNCHANGED <<time, secret, version, tlsClients, made, closed, undone>>, AuthCacheInv'
  PROVE  AuthInv'
<1>1. scr[p].retired = {}
  BY ScrapeFacts DEF ScrapeAged
<1>2. ClientsInv' /\ made' \in Int /\ undone' = FALSE
  BY DEF AuthInv, ClientsInv
<1> QED BY <1>1, <1>2, ScrapeMoves

LEMMA CacheUnchanged == ASSUME AuthInv, UNCHANGED <<time, authCache>> PROVE AuthCacheInv'
BY DEF AuthInv, AuthCacheInv, EntryAged

\* The next credential, or the client.
LEMMA ProceedFacts ==
  ASSUME NEW x \in ScrapeType
  PROVE  LET y == Proceed(x)
         IN  /\ y \in ScrapeType /\ y.target = x.target /\ y.got = x.got /\ y.retired = x.retired /\ y.age = x.age
             /\ y.oldest = x.oldest
             /\ y.pc = IF Len(x.got) < Len(Needs(x.target)) THEN "resolve" ELSE "client"
<1> PICK c \in {"resolve", "client"} : c = IF Len(x.got) < Len(Needs(x.target)) THEN "resolve" ELSE "client"
  OBVIOUS
<1> PICK y : y = [x EXCEPT !.pc = c]
  OBVIOUS
<1>1. y = Proceed(x)
  BY DEF Proceed
<1>2. /\ y \in ScrapeType /\ y.target = x.target /\ y.got = x.got /\ y.retired = x.retired /\ y.age = x.age
      /\ y.oldest = x.oldest /\ y.pc = c
  BY DEF ScrapeType, ScrapePcs
<1> QED BY <1>1, <1>2

LEMMA ProceedAged ==
  ASSUME NEW x \in ScrapeType, NEW t \in Int, x.retired = {}, x.age < Within(Len(Needs(x.target))),
         Len(x.got) <= Len(Needs(x.target)), t - x.oldest < Within(Len(x.got))
  PROVE  ScrapeAged(Proceed(x), t) /\ ~InUse(Proceed(x))
<1> PICK y : y = Proceed(x)
  OBVIOUS
<1>1. /\ y \in ScrapeType /\ y.target = x.target /\ y.got = x.got /\ y.retired = {} /\ y.age = x.age
      /\ y.oldest = x.oldest
      /\ y.pc = IF Len(x.got) < Len(Needs(x.target)) THEN "resolve" ELSE "client"
  BY ProceedFacts
<1>2. Len(x.got) \in Nat /\ Len(Needs(x.target)) \in Nat
  BY NeedsFacts, LenProperties DEF ScrapeType
<1>3. ScrapeAged(y, t)
  BY <1>1, <1>2 DEF ScrapeAged
<1>4. ~InUse(y)
  BY <1>1 DEF InUse
<1> QED BY <1>3, <1>4

\* A credential that is young enough is added.
LEMMA ResolvedAged ==
  ASSUME AuthInv, NEW p \in AuthScrapes, scr[p].pc \in {"resolve", "asked"},
         NEW e, EntryAged(e, time), time - e.fetched < StaleGrace
  PROVE  ScrapeAged(Resolved(p, e), time) /\ ~InUse(Resolved(p, e))
<1>1. /\ scr[p] \in ScrapeType /\ time \in Int /\ scr[p].age \in Int /\ scr[p].oldest \in Int /\ scr[p].asked \in Int
      /\ scr[p].got \in Seq(Int) /\ Len(scr[p].got) \in Nat /\ scr[p].age < Within(Len(Needs(scr[p].target)))
      /\ Len(Needs(scr[p].target)) \in Nat /\ scr[p].retired = {} /\ Len(scr[p].got) < Len(Needs(scr[p].target))
  BY ScrapeFacts DEF ScrapeAged
<1>2. e \in CredEntry /\ e.token \in Int /\ e.asked \in Int /\ e.fetched \in Int
      /\ e.fetched <= e.asked + Latency /\ e.asked <= e.fetched /\ e.fetched <= time
  BY DEF EntryAged, CredEntry
<1> PICK w \in Nat : w = Within(Len(scr[p].got))
  BY <1>1, WithinFacts
<1>3. w >= StaleGrace /\ Within(Len(scr[p].got) + 1) = w + Latency /\ Latency \in Nat /\ StaleGrace \in Nat
  BY <1>1, WithinFacts, LimitFacts
<1>4. time - scr[p].oldest < w + Latency
  <2>1. \/ time - scr[p].oldest < w
        \/ time <= scr[p].asked + Latency /\ scr[p].asked - scr[p].oldest < w
    BY ScrapeFacts DEF ScrapeAged
  <2>2. CASE time - scr[p].oldest < w
    BY <1>1, <1>3, <2>2
  <2>3. CASE time <= scr[p].asked + Latency /\ scr[p].asked - scr[p].oldest < w
    <3> PICK a \in Int : a = scr[p].asked
      BY <1>1
    <3> PICK b \in Int : b = scr[p].oldest
      BY <1>1
    <3>1. time <= a + Latency /\ a - b < w
      BY <2>3
    <3>2. time \in Int /\ Latency \in Int
      BY <1>1, <1>3
    <3> PICK u \in Int : u = time
      BY <3>2
    <3> PICK l \in Int : l = Latency
      BY <3>2
    <3>3. u <= a + l /\ a - b < w
      BY <3>1
    <3>4. u - b < w + l
      BY ONLY <3>3, a \in Int, b \in Int, u \in Int, l \in Int, w \in Nat
    <3> QED BY <3>4
  <2> QED BY <2>1, <2>2, <2>3
<1> PICK o : o = IF e.asked < scr[p].oldest THEN e.asked ELSE scr[p].oldest
  OBVIOUS
<1>5. o \in Int /\ time - o < w + Latency
  <2>1. CASE e.asked < scr[p].oldest
    <3>1. o = e.asked
      BY <2>1
    <3>2. e.asked \in Int /\ time - e.asked < w + Latency
      BY <1>1, <1>2, <1>3
    <3> QED BY <3>1, <3>2
  <2>2. CASE ~(e.asked < scr[p].oldest)
    <3>1. o = scr[p].oldest
      BY <2>2
    <3> QED BY <1>1, <1>4, <3>1
  <2> QED BY <2>1, <2>2
<1> PICK g : g = Append(scr[p].got, e.token)
  OBVIOUS
<1>6. g \in Seq(Int) /\ Len(g) = Len(scr[p].got) + 1
  BY <1>1, <1>2, AppendProperties
<1> PICK x : x = [scr[p] EXCEPT !.got = g, !.retained = NoEntry, !.reply = 0, !.asked = 0, !.oldest = o]
  OBVIOUS
<1>7. Resolved(p, e) = Proceed(x)
  BY DEF Resolved
<1>8. /\ x \in ScrapeType /\ x.got = g /\ x.oldest = o /\ x.target = scr[p].target /\ x.retired = scr[p].retired
      /\ x.age = scr[p].age
  <2>1. NoEntry \in CredEntry
    BY DEF NoEntry, CredEntry
  <2>2. PICK z \in Int : z = 0
    OBVIOUS
  <2>3. x = [scr[p] EXCEPT !.got = g, !.retained = NoEntry, !.reply = z, !.asked = z, !.oldest = o]
    BY <2>2
  <2>4. z \in Int /\ scr[p] \in ScrapeType /\ g \in Seq(Int) /\ o \in Int
    BY <1>1, <1>5, <1>6
  <2> QED BY ONLY <2>1, <2>3, <2>4 DEF ScrapeType
<1>9. /\ x.retired = {} /\ x.age < Within(Len(Needs(x.target))) /\ Len(x.got) <= Len(Needs(x.target))
      /\ time - x.oldest < Within(Len(x.got))
  BY <1>1, <1>3, <1>5, <1>6, <1>8
<1> QED BY <1>1, <1>7, <1>8, <1>9, ProceedAged

-----------------------------------------------------------------------------
(* The steps of a scrape.                                                    *)

LEMMA ScrapeEndsKeeps ==
  ASSUME AuthInv, NEW p \in AuthScrapes, ScrapeFails(p), scr[p].pc # "close",
         UNCHANGED <<time, secret, version, tlsClients, made, closed, undone>>, AuthCacheInv'
  PROVE  AuthInv'
<1>1. scr' = [scr EXCEPT ![p] = Resting]
  BY DEF ScrapeFails
<1>2. ScrapeAged(Resting, time) /\ ~InUse(Resting)
  BY RestingFacts DEF AuthInv, InUse
<1> QED BY <1>1, <1>2, ScrapeGoesOn

LEMMA BeginsKeeps == ASSUME AuthInv, NEW p \in AuthScrapes, NEW t \in AuthTargets, ScrapeBegins(p, t) PROVE AuthInv'
<1>1. t \in TargetType /\ time \in Int
  BY AuthAssumption DEF TargetType, AuthInv
<1> PICK x : x = [Resting EXCEPT !.target = t, !.oldest = time]
  OBVIOUS
<1>2. x \in ScrapeType /\ x.target = t /\ x.oldest = time /\ x.got = Resting.got /\ x.retired = {} /\ x.age = 0
  BY <1>1, RestingFacts DEF ScrapeType
<1>3. Resting.got = << >>
  BY DEF Resting
<1>4. Len(x.got) = 0 /\ Len(Needs(x.target)) \in Nat
  BY <1>1, <1>2, <1>3, NeedsFacts
<1>5. 0 < Within(0) /\ 0 < Within(Len(Needs(x.target))) /\ time - x.oldest = 0
  BY <1>1, <1>2, <1>4, WithinFacts, LimitFacts
<1>6. ScrapeAged(Proceed(x), time) /\ ~InUse(Proceed(x))
  <2>1. /\ x.age < Within(Len(Needs(x.target))) /\ Len(x.got) <= Len(Needs(x.target))
        /\ time - x.oldest < Within(Len(x.got))
    BY <1>2, <1>4, <1>5
  <2> QED BY <1>1, <1>2, <2>1, ProceedAged
<1>7. AuthCacheInv' /\ scr[p].pc # "close" /\ scr' = [scr EXCEPT ![p] = Proceed(x)]
  BY CacheUnchanged DEF ScrapeBegins
<1> QED BY <1>6, <1>7, ScrapeGoesOn DEF ScrapeBegins

\* What a sweep leaves is within the grace.
LEMMA SweptFacts ==
  ASSUME AuthInv, NEW c, c = SweepAuth(authCache)
  PROVE  /\ IsFiniteSet(DOMAIN c) /\ Cardinality(DOMAIN c) \in Nat /\ Cardinality(DOMAIN c) <= MaxAuth
         /\ \A r \in DOMAIN c : EntryAged(c[r], time) /\ time - c[r].fetched < StaleGrace
<1>1. /\ DOMAIN c \subseteq DOMAIN authCache
      /\ \A r \in DOMAIN c : c[r] = authCache[r] /\ time - authCache[r].fetched < StaleGrace
  BY DEF SweepAuth
<1>2. IsFiniteSet(DOMAIN authCache) /\ Cardinality(DOMAIN authCache) <= MaxAuth
  BY DEF AuthInv, AuthCacheInv
<1>3. /\ IsFiniteSet(DOMAIN c) /\ Cardinality(DOMAIN c) <= Cardinality(DOMAIN authCache)
      /\ Cardinality(DOMAIN c) \in Nat /\ Cardinality(DOMAIN authCache) \in Nat
  BY <1>1, <1>2, FS_Subset, FS_CardinalityType
<1>4. Cardinality(DOMAIN c) <= MaxAuth
  BY <1>2, <1>3, LimitFacts
<1> QED BY <1>1, <1>3, <1>4 DEF AuthInv, AuthCacheInv

LEMMA UsedNow == ASSUME NEW t \in Int, NEW e, EntryAged(e, t) PROVE LET f == [e EXCEPT !.used = t] IN EntryAged(f, t) /\ f.fetched = e.fetched
BY DEF EntryAged, CredEntry

LEMMA TokenKeeps == ASSUME AuthInv, NEW p \in AuthScrapes, AuthToken(p) PROVE AuthInv'
<1> PICK c : c = SweepAuth(authCache)
  OBVIOUS
<1> PICK r : r = Ref(p)
  OBVIOUS
<1> PICK e : e = [c[r] EXCEPT !.used = time]
  OBVIOUS
<1>1. /\ scr[p].pc = "resolve" /\ authCache' = IF r \in DOMAIN c THEN [c EXCEPT ![r] = e] ELSE c
      /\ scr' = [scr EXCEPT ![p] = IF r \in DOMAIN c /\ time - e.fetched < AuthTTL THEN Resolved(p, e)
                                   ELSE [@ EXCEPT !.pc = "fetch", !.retained = IF r \in DOMAIN c THEN e ELSE NoEntry]]
      /\ UNCHANGED <<time, secret, version, tlsClients, made, closed, undone>>
  BY DEF AuthToken
<1>2. /\ IsFiniteSet(DOMAIN c) /\ Cardinality(DOMAIN c) <= MaxAuth /\ time \in Int
      /\ \A x \in DOMAIN c : EntryAged(c[x], time) /\ time - c[x].fetched < StaleGrace
  BY SweptFacts DEF AuthInv
<1>3. r \in DOMAIN c => EntryAged(e, time) /\ e.fetched = c[r].fetched
  BY <1>2, UsedNow
<1>4. DOMAIN authCache' = DOMAIN c /\ \A x \in DOMAIN c : EntryAged(authCache'[x], time)
  <2>1. CASE r \in DOMAIN c
    <3>1. DOMAIN authCache' = DOMAIN c /\ \A x \in DOMAIN c : authCache'[x] = IF x = r THEN e ELSE c[x]
      BY <1>1, <2>1 DEF SweepAuth
    <3> QED BY <1>2, <1>3, <2>1, <3>1
  <2>2. CASE r \notin DOMAIN c
    BY <1>1, <1>2, <2>2
  <2> QED BY <2>1, <2>2
<1>5. AuthCacheInv'
  BY <1>1, <1>2, <1>4 DEF AuthCacheInv, EntryAged
<1>6. CASE r \in DOMAIN c /\ time - e.fetched < AuthTTL
  <2>1. time - e.fetched < StaleGrace
    BY <1>2, <1>3, <1>6
  <2>2. ScrapeAged(Resolved(p, e), time) /\ ~InUse(Resolved(p, e))
    BY <1>1, <1>3, <1>6, <2>1, ResolvedAged
  <2>3. scr' = [scr EXCEPT ![p] = Resolved(p, e)]
    BY <1>1, <1>6
  <2> QED BY <1>1, <1>5, <2>2, <2>3, ScrapeGoesOn
<1>7. CASE ~(r \in DOMAIN c /\ time - e.fetched < AuthTTL)
  <2> PICK f : f = IF r \in DOMAIN c THEN e ELSE NoEntry
    OBVIOUS
  <2>1. f \in CredEntry
    BY <1>3 DEF EntryAged, NoEntry, CredEntry
  <2> PICK q : q = [scr[p] EXCEPT !.pc = "fetch", !.retained = f]
    OBVIOUS
  <2>2. scr' = [scr EXCEPT ![p] = q]
    BY <1>1, <1>7
  <2>3. /\ q \in ScrapeType /\ q.pc = "fetch" /\ q.target = scr[p].target /\ q.got = scr[p].got
        /\ q.retired = scr[p].retired /\ q.age = scr[p].age /\ q.oldest = scr[p].oldest
    BY <2>1, ScrapeFacts DEF ScrapeType, ScrapePcs
  <2>4. ScrapeAged(q, time) /\ ~InUse(q)
    BY <1>1, <2>3, ScrapeFacts DEF ScrapeAged, InUse
  <2> QED BY <1>1, <1>5, <2>2, <2>4, ScrapeGoesOn
<1> QED BY <1>6, <1>7

LEMMA AnswerKeeps == ASSUME AuthInv, NEW p \in AuthScrapes, ScrapeAuthAnswer(p) PROVE AuthInv'
<1>1. scr[p].pc = "fetch" /\ UNCHANGED <<time, secret, version, authCache, tlsClients, made, closed, undone>>
  BY DEF ScrapeAuthAnswer
<1>2. Ref(p) \in Refs
  <2>1. Needs(scr[p].target) \in Seq(Refs) /\ Len(scr[p].got) + 1 \in 1..Len(Needs(scr[p].target))
    BY <1>1, ScrapeFacts, NeedsFacts DEF ScrapeAged
  <2> QED BY <2>1, ElementOfSeq DEF Ref
<1>3. PICK v \in {secret[Ref(p)], -1} : scr' = [scr EXCEPT ![p].pc = "asked", ![p].reply = v, ![p].asked = time]
  BY DEF ScrapeAuthAnswer
<1>0. v \in Int
  BY <1>2 DEF AuthInv
<1> PICK q : q = [scr[p] EXCEPT !.pc = "asked", !.reply = v, !.asked = time]
  OBVIOUS
<1>4. scr' = [scr EXCEPT ![p] = q]
  BY <1>3 DEF AuthInv, ScrapesInv
<1>5. /\ q \in ScrapeType /\ q.pc = "asked" /\ q.target = scr[p].target /\ q.got = scr[p].got /\ q.asked = time
      /\ q.retired = scr[p].retired /\ q.age = scr[p].age /\ q.oldest = scr[p].oldest
  BY <1>0, ScrapeFacts DEF ScrapeType, ScrapePcs
<1>6. ScrapeAged(q, time) /\ ~InUse(q)
  <2>1. /\ time \in Int /\ Latency \in Nat /\ time - scr[p].oldest < Within(Len(scr[p].got))
        /\ scr[p].age < Within(Len(Needs(scr[p].target))) /\ scr[p].retired = {}
        /\ Len(scr[p].got) < Len(Needs(scr[p].target))
    BY <1>1, ScrapeFacts, LimitFacts DEF ScrapeAged
  <2>2. q.asked <= time /\ time <= q.asked + Latency /\ q.asked - q.oldest < Within(Len(q.got))
    BY <1>5, <2>1
  <2> QED BY <1>5, <2>1, <2>2 DEF ScrapeAged, InUse
<1> QED BY <1>1, <1>4, <1>6, CacheUnchanged, ScrapeGoesOn

LEMMA GivesUpKeeps == ASSUME AuthInv, NEW p \in AuthScrapes, GivesUp(p) \/ BadMaterial(p) PROVE AuthInv'
<1>1. scr[p].pc # "close" /\ ScrapeFails(p) /\ UNCHANGED <<time, secret, version, authCache, tlsClients, made, closed, undone>>
  BY DEF GivesUp, BadMaterial
<1> QED BY <1>1, CacheUnchanged, ScrapeEndsKeeps

LEMMA RefusedKeeps == ASSUME AuthInv, NEW p \in AuthScrapes, Refused(p) PROVE AuthInv'
<1>1. /\ scr[p].pc # "close" /\ ScrapeFails(p) /\ UNCHANGED <<time, secret, version, tlsClients, made, closed>>
  BY DEF Refused
<1> PICK r : r = Ref(p)
  OBVIOUS
<1>2. /\ DOMAIN authCache' \subseteq DOMAIN authCache /\ \A x \in DOMAIN authCache' : authCache'[x] = authCache[x]
  BY DEF Refused
<1>3. undone' = FALSE
  <2>1. undone = FALSE
    BY DEF AuthInv
  <2>2. undone' = (undone \/ (/\ r \in DOMAIN authCache /\ StillRetained(p)
                              /\ authCache[r].fetched > scr[p].retained.fetched))
    BY DEF Refused
  <2>3. ASSUME r \in DOMAIN authCache, StillRetained(p) PROVE ~(authCache[r].fetched > scr[p].retained.fetched)
    <3>1. authCache[r].fetched = scr[p].retained.fetched
      BY <2>3 DEF StillRetained
    <3>2. authCache[r].fetched \in Int
      BY <2>3 DEF AuthInv, AuthCacheInv, EntryAged, CredEntry
    <3> QED BY <3>1, <3>2
  <2> QED BY <2>1, <2>2, <2>3
<1>4. AuthCacheInv'
  <2>1. IsFiniteSet(DOMAIN authCache) /\ Cardinality(DOMAIN authCache) <= MaxAuth
    BY DEF AuthInv, AuthCacheInv
  <2>2. /\ IsFiniteSet(DOMAIN authCache') /\ Cardinality(DOMAIN authCache') <= Cardinality(DOMAIN authCache)
        /\ Cardinality(DOMAIN authCache') \in Nat /\ Cardinality(DOMAIN authCache) \in Nat
    BY <1>2, <2>1, FS_Subset, FS_CardinalityType
  <2>3. Cardinality(DOMAIN authCache') <= MaxAuth
    BY <2>1, <2>2, LimitFacts
  <2> QED BY <1>1, <1>2, <2>2, <2>3 DEF AuthInv, AuthCacheInv, EntryAged
<1>5. UNCHANGED undone
  BY <1>3 DEF AuthInv
<1> QED BY <1>1, <1>4, <1>5, ScrapeEndsKeeps

LEMMA UnansweredKeeps == ASSUME AuthInv, NEW p \in AuthScrapes, Unanswered(p) PROVE AuthInv'
<1> PICK c : c = SweepAuth(authCache)
  OBVIOUS
<1>1. /\ scr[p].pc = "asked" /\ authCache' = c
      /\ IF Ref(p) \in DOMAIN c THEN scr' = [scr EXCEPT ![p] = Resolved(p, c[Ref(p)])] ELSE ScrapeFails(p)
      /\ UNCHANGED <<time, secret, version, tlsClients, made, closed, undone>>
  BY DEF Unanswered
<1>2. /\ IsFiniteSet(DOMAIN c) /\ Cardinality(DOMAIN c) <= MaxAuth
      /\ \A x \in DOMAIN c : EntryAged(c[x], time) /\ time - c[x].fetched < StaleGrace
  BY SweptFacts
<1>3. AuthCacheInv'
  BY <1>1, <1>2 DEF AuthCacheInv, EntryAged
<1>4. CASE Ref(p) \in DOMAIN c
  <2>1. ScrapeAged(Resolved(p, c[Ref(p)]), time) /\ ~InUse(Resolved(p, c[Ref(p)]))
    BY <1>1, <1>2, <1>4, ResolvedAged
  <2> QED BY <1>1, <1>3, <1>4, <2>1, ScrapeGoesOn
<1>5. CASE Ref(p) \notin DOMAIN c
  BY <1>1, <1>3, <1>5, ScrapeEndsKeeps
<1> QED BY <1>4, <1>5

LEMMA FetchedKeeps == ASSUME AuthInv, NEW p \in AuthScrapes, Fetched(p) PROVE AuthInv'
<1> PICK c : c = SweepAuth(authCache)
  OBVIOUS
<1> PICK r : r = Ref(p)
  OBVIOUS
<1> PICK e : e = [token |-> scr[p].reply, fetched |-> time, used |-> time, asked |-> scr[p].asked]
  OBVIOUS
<1>1. PICK keep \in SUBSET DOMAIN c :
        /\ IF Cardinality(DOMAIN c) >= MaxAuth THEN Cardinality(keep) = MaxAuth - 1 ELSE keep = DOMAIN c
        /\ authCache' = [x \in keep \cup {r} |-> IF x = r THEN e ELSE c[x]]
  BY DEF Fetched
<1>2. /\ scr[p].pc = "asked" /\ scr' = [scr EXCEPT ![p] = Resolved(p, e)]
      /\ UNCHANGED <<time, secret, version, tlsClients, made, closed, undone>>
  BY DEF Fetched
<1>3. /\ IsFiniteSet(DOMAIN c) /\ Cardinality(DOMAIN c) <= MaxAuth /\ Cardinality(DOMAIN c) \in Nat
      /\ \A x \in DOMAIN c : EntryAged(c[x], time) /\ time - c[x].fetched < StaleGrace
  BY SweptFacts
<1>4. EntryAged(e, time) /\ time - e.fetched < StaleGrace
  <2>1. time \in Int /\ scr[p].asked \in Int /\ scr[p].reply \in Int /\ scr[p].asked <= time /\ time <= scr[p].asked + Latency
    BY <1>2, ScrapeFacts DEF ScrapeAged
  <2>2. e \in CredEntry /\ e.fetched = time /\ e.asked = scr[p].asked
    BY <2>1 DEF CredEntry
  <2> QED BY <2>1, <2>2, LimitFacts DEF EntryAged
<1>5. IsFiniteSet(keep \cup {r}) /\ Cardinality(keep \cup {r}) <= MaxAuth
  <2>1. IsFiniteSet(keep) /\ Cardinality(keep) \in Nat
    BY <1>3, FS_Subset, FS_CardinalityType
  <2>2. Cardinality(keep) <= MaxAuth - 1
    BY <1>1, <1>3, LimitFacts
  <2>3. IsFiniteSet(keep \cup {r}) /\ Cardinality(keep \cup {r}) <= Cardinality(keep) + 1 /\ Cardinality(keep \cup {r}) \in Nat
    <3>1. IsFiniteSet(keep \cup {r}) /\ Cardinality(keep \cup {r}) = IF r \in keep THEN Cardinality(keep) ELSE Cardinality(keep) + 1
      BY <2>1, FS_AddElement
    <3> QED BY <2>1, <3>1
  <2> QED BY <2>1, <2>2, <2>3, LimitFacts
<1>6. AuthCacheInv'
  <2>1. DOMAIN authCache' = keep \cup {r} /\ \A x \in DOMAIN authCache' : EntryAged(authCache'[x], time)
    BY <1>1, <1>3, <1>4
  <2> QED BY <1>2, <1>5, <2>1 DEF AuthCacheInv, EntryAged
<1>7. ScrapeAged(Resolved(p, e), time) /\ ~InUse(Resolved(p, e))
  BY <1>2, <1>4, ResolvedAged
<1> QED BY <1>2, <1>6, <1>7, ScrapeGoesOn

\* The scrape sends its request: its credentials are all there.
LEMMA RequestsAged ==
  ASSUME AuthInv, NEW p \in AuthScrapes, scr[p].pc \in {"client", "build"}, NEW c \in Int, NEW q, q = Requests(p, c)
  PROVE  /\ ScrapeAged(q, time) /\ q \in ScrapeType /\ q.pc = "done" /\ q.client = c /\ q.got = scr[p].got
         /\ q.target = scr[p].target /\ q.retired = {} /\ MaterialOf(q) = Material(p) /\ q.age < Within(Len(Needs(q.target)))
<1>1. /\ time \in Int /\ scr[p].oldest \in Int /\ scr[p].retired = {}
      /\ time - scr[p].oldest < Within(Len(Needs(scr[p].target)))
  BY ScrapeFacts DEF ScrapeAged
<1> PICK a \in Int : a = time - scr[p].oldest
  BY <1>1
<1>2. q = [scr[p] EXCEPT !.pc = "done", !.client = c, !.age = a]
  BY DEF Requests
<1>3. /\ q \in ScrapeType /\ q.pc = "done" /\ q.client = c /\ q.age = a /\ q.got = scr[p].got
      /\ q.target = scr[p].target /\ q.retired = scr[p].retired
  BY <1>2, ScrapeFacts DEF ScrapeType, ScrapePcs
<1>4. ScrapeAged(q, time)
  BY <1>1, <1>3 DEF ScrapeAged
<1> QED BY <1>1, <1>3, <1>4 DEF MaterialOf, Material

LEMMA UseClientKeeps ==
  ASSUME AuthInv, NEW p \in AuthScrapes, scr[p].pc \in {"client", "build"}, TLSHit(p), UseClient(p), made' \in Int,
         UNCHANGED <<time, secret, version, authCache, closed, undone>>
  PROVE  AuthInv'
<1> PICK k : k = Material(p)
  OBVIOUS
<1> PICK c : c = tlsClients[k].client
  OBVIOUS
<1> PICK q : q = Requests(p, c)
  OBVIOUS
<1>1. k \in DOMAIN tlsClients /\ tlsClients' = [tlsClients EXCEPT ![k].used = time] /\ scr' = [scr EXCEPT ![p] = q]
  BY DEF TLSHit, UseClient
<1>2. \A x \in DOMAIN tlsClients : tlsClients[x] \in ClientEntry
  BY DEF AuthInv, ClientsInv
<1>3. c \in Int /\ time \in Int
  BY <1>1, <1>2 DEF ClientEntry, AuthInv
<1>4. /\ DOMAIN tlsClients' = DOMAIN tlsClients
      /\ \A x \in DOMAIN tlsClients : tlsClients'[x] \in ClientEntry /\ tlsClients'[x].client = tlsClients[x].client
  <2>1. ASSUME NEW x \in DOMAIN tlsClients
        PROVE  tlsClients'[x] = IF x = k THEN [tlsClients[x] EXCEPT !.used = time] ELSE tlsClients[x]
    BY <1>1, <2>1
  <2>2. ASSUME NEW x \in DOMAIN tlsClients
        PROVE  tlsClients'[x] \in ClientEntry /\ tlsClients'[x].client = tlsClients[x].client
    BY <1>2, <1>3, <2>1, <2>2 DEF ClientEntry
  <2> QED BY <1>1, <2>2
<1>5. ClientsInv' /\ AuthCacheInv' /\ undone' = FALSE
  BY <1>4, CacheUnchanged DEF AuthInv, ClientsInv
<1>6. /\ ScrapeAged(q, time) /\ CachedFor(q, tlsClients')
  BY <1>1, <1>3, <1>4, RequestsAged DEF CachedFor
<1>7. scr[p].retired \subseteq closed'
  BY ScrapeFacts DEF ScrapeAged
<1> QED BY <1>1, <1>4, <1>5, <1>6, <1>7, ScrapeMoves

LEMMA ClientForKeeps == ASSUME AuthInv, NEW p \in AuthScrapes, ClientFor(p) PROVE AuthInv'
<1>1. scr[p].pc = "client" /\ UNCHANGED <<time, secret, version, authCache, made, closed, undone>>
  BY DEF ClientFor
<1>2. CASE ~OwnClient(scr[p].target) /\ scr' = [scr EXCEPT ![p] = Requests(p, SharedClient)] /\ UNCHANGED tlsClients
  <2> PICK q : q = Requests(p, SharedClient)
    OBVIOUS
  <2>1. SharedClient \in Int
    BY DEF SharedClient
  <2>2. ScrapeAged(q, time) /\ q.target = scr[p].target
    BY <1>1, <2>1, RequestsAged
  <2>3. ~InUse(q)
    BY <1>2, <2>2 DEF InUse
  <2> QED BY <1>1, <1>2, <2>2, <2>3, CacheUnchanged, ScrapeGoesOn
<1>3. CASE TLSHit(p) /\ UseClient(p)
  <2>1. made' \in Int
    BY <1>1 DEF AuthInv
  <2> QED BY <1>1, <1>3, <2>1, UseClientKeeps
<1>4. CASE scr' = [scr EXCEPT ![p].pc = "build"] /\ UNCHANGED tlsClients
  <2> PICK q : q = [scr[p] EXCEPT !.pc = "build"]
    OBVIOUS
  <2>1. scr' = [scr EXCEPT ![p] = q]
    BY <1>4 DEF AuthInv, ScrapesInv
  <2>2. /\ q \in ScrapeType /\ q.pc = "build" /\ q.target = scr[p].target /\ q.got = scr[p].got
        /\ q.retired = scr[p].retired /\ q.age = scr[p].age /\ q.oldest = scr[p].oldest
    BY ScrapeFacts DEF ScrapeType, ScrapePcs
  <2>3. ScrapeAged(q, time) /\ ~InUse(q)
    BY <1>1, <2>2, ScrapeFacts DEF ScrapeAged, InUse
  <2> QED BY <1>1, <1>4, <2>1, <2>3, CacheUnchanged, ScrapeGoesOn
<1> QED BY <1>2, <1>3, <1>4 DEF ClientFor

LEMMA InsertKeeps == ASSUME AuthInv, NEW p \in AuthScrapes, InsertClient(p) PROVE AuthInv'
<1>1. scr[p].pc = "build" /\ made' = made + 1 /\ made \in Int /\ UNCHANGED <<time, secret, version, authCache, closed, undone>>
  BY DEF InsertClient, AuthInv
<1>2. CASE TLSHit(p)
  <2>1. UseClient(p) /\ made' \in Int
    BY <1>1, <1>2 DEF InsertClient
  <2> QED BY <1>1, <1>2, <2>1, UseClientKeeps
<1>3. CASE ~TLSHit(p)
  <2> PICK k : k = Material(p)
    OBVIOUS
  <2> PICK live : live = DOMAIN tlsClients \ IdleClients
    OBVIOUS
  <2>1. PICK victims \in SUBSET live :
          /\ Cardinality(victims) = (IF Cardinality(live) >= MaxTLS THEN 1 ELSE 0)
          /\ tlsClients' = [x \in (live \ victims) \cup {k} |->
                              IF x = k THEN [client |-> made + 1, used |-> time] ELSE tlsClients[x]]
          /\ scr' = [scr EXCEPT ![p] = [Requests(p, made + 1) EXCEPT !.pc = "close",
                           !.retired = {tlsClients[x].client : x \in IdleClients \cup victims}]]
    BY <1>3 DEF InsertClient
  <2> PICK left : left = (live \ victims) \cup {k}
    OBVIOUS
  <2>2. k \notin DOMAIN tlsClients /\ live \subseteq DOMAIN tlsClients /\ IdleClients \subseteq DOMAIN tlsClients
    BY <1>3 DEF TLSHit, IdleClients
  <2>3. \A x \in DOMAIN tlsClients : tlsClients[x] \in ClientEntry /\ tlsClients[x].client \in Int
    BY DEF AuthInv, ClientsInv, ClientEntry
  <2>4. DOMAIN tlsClients' = left /\ \A x \in left : tlsClients'[x] = IF x = k THEN [client |-> made + 1, used |-> time] ELSE tlsClients[x]
    BY <2>1
  <2>5. IsFiniteSet(left) /\ Cardinality(left) <= MaxTLS
    <3>1. IsFiniteSet(DOMAIN tlsClients) /\ Cardinality(DOMAIN tlsClients) <= MaxTLS /\ MaxTLS \in Nat \ {0}
      BY LimitFacts DEF AuthInv, ClientsInv
    <3>2. /\ IsFiniteSet(live) /\ Cardinality(live) \in Nat /\ Cardinality(live) <= Cardinality(DOMAIN tlsClients)
          /\ Cardinality(DOMAIN tlsClients) \in Nat
      BY <2>2, <3>1, FS_Subset, FS_CardinalityType
    <3>3. IsFiniteSet(victims) /\ Cardinality(victims) \in Nat
      BY <3>2, FS_Subset, FS_CardinalityType
    <3>4. /\ IsFiniteSet(live \ victims) /\ Cardinality(live \ victims) \in Nat
          /\ Cardinality(live \ victims) = Cardinality(live) - Cardinality(live \cap victims)
      BY <3>2, FS_Difference, FS_CardinalityType
    <3>5. live \cap victims = victims
      OBVIOUS
    <3>6. Cardinality(live \ victims) <= MaxTLS - 1
      <4> PICK n \in Nat : n = Cardinality(live)
        BY <3>2
      <4> PICK m \in Nat : m = Cardinality(DOMAIN tlsClients)
        BY <3>2
      <4> PICK v \in Nat : v = Cardinality(victims)
        BY <3>3
      <4>1. v = (IF n >= MaxTLS THEN 1 ELSE 0) /\ n <= m /\ m <= MaxTLS
        BY <2>1, <3>1, <3>2
      <4>2. Cardinality(live \ victims) = n - v
        BY <3>4, <3>5
      <4> QED BY <3>1, <4>1, <4>2
    <3>7. k \notin live \ victims
      BY <2>2
    <3>8. IsFiniteSet(left) /\ Cardinality(left) = Cardinality(live \ victims) + 1
      BY <3>4, <3>7, FS_AddElement
    <3> QED BY <3>1, <3>4, <3>6, <3>8
  <2>6. ClientsInv'
    <3>1. [client |-> made + 1, used |-> time] \in ClientEntry
      BY <1>1 DEF AuthInv, ClientEntry
    <3>2. \A x \in DOMAIN tlsClients' : tlsClients'[x] \in ClientEntry
      BY <2>2, <2>3, <2>4, <3>1
    <3> QED BY <2>4, <2>5, <3>2 DEF ClientsInv
  <2> PICK gone : gone = {tlsClients[x].client : x \in IdleClients \cup victims}
    OBVIOUS
  <2>7. gone \in SUBSET Int
    BY <2>2, <2>3
  <2> PICK r : r = Requests(p, made + 1)
    OBVIOUS
  <2> PICK q : q = [r EXCEPT !.pc = "close", !.retired = gone]
    OBVIOUS
  <2>8. /\ r \in ScrapeType /\ r.client = made + 1 /\ r.target = scr[p].target /\ MaterialOf(r) = k
        /\ r.age < Within(Len(Needs(r.target)))
    <3>1. made + 1 \in Int
      BY <1>1
    <3> QED BY <1>1, <3>1, RequestsAged
  <2>9. /\ q \in ScrapeType /\ q.pc = "close" /\ q.retired = gone /\ q.client = r.client /\ q.target = r.target
        /\ q.got = r.got /\ q.age = r.age
    BY <2>7, <2>8 DEF ScrapeType, ScrapePcs
  <2>10. ScrapeAged(q, time)
    BY <2>8, <2>9 DEF ScrapeAged
  <2>11. CachedFor(q, tlsClients')
    <3>1. MaterialOf(q) = k
      BY <2>8, <2>9 DEF MaterialOf
    <3>2. k \in left
      OBVIOUS
    <3>3. tlsClients'[k].client = made + 1
      BY <2>4, <3>2
    <3> QED BY <2>4, <2>8, <2>9, <3>1, <3>2, <3>3 DEF CachedFor
  <2>12. ASSUME NEW x \in DOMAIN tlsClients
         PROVE  \/ x \in DOMAIN tlsClients' /\ tlsClients'[x].client = tlsClients[x].client
                \/ tlsClients[x].client \in q.retired
    <3>1. CASE x \in IdleClients \cup victims
      BY <2>9, <3>1
    <3>2. CASE x \notin IdleClients \cup victims
      BY <2>2, <2>4, <2>12, <3>2
    <3> QED BY <3>1, <3>2
  <2>13. scr[p].retired \subseteq closed' /\ made' \in Int /\ undone' = FALSE
    <3>1. scr[p].retired = {}
      BY <1>1, ScrapeFacts DEF ScrapeAged
    <3>2. made' \in Int
      BY <1>1
    <3> QED BY <1>1, <3>1, <3>2 DEF AuthInv
  <2>14. scr' = [scr EXCEPT ![p] = q]
    BY <2>1
  <2> QED BY <1>1, <2>6, <2>10, <2>11, <2>12, <2>13, <2>14, CacheUnchanged, ScrapeMoves
<1> QED BY <1>2, <1>3

LEMMA CloseKeeps == ASSUME AuthInv, NEW p \in AuthScrapes, CloseRetired(p) PROVE AuthInv'
<1>1. /\ scr[p].pc = "close" /\ closed' = closed \cup scr[p].retired
      /\ scr' = [scr EXCEPT ![p].pc = "done", ![p].retired = {}]
      /\ UNCHANGED <<time, secret, version, authCache, tlsClients, made, undone>>
  BY DEF CloseRetired
<1> PICK q : q = [scr[p] EXCEPT !.pc = "done", !.retired = {}]
  OBVIOUS
<1>2. scr' = [scr EXCEPT ![p] = q]
  BY <1>1 DEF AuthInv, ScrapesInv
<1>3. /\ q \in ScrapeType /\ q.pc = "done" /\ q.retired = {} /\ q.client = scr[p].client /\ q.target = scr[p].target
      /\ q.got = scr[p].got /\ q.age = scr[p].age
  BY ScrapeFacts DEF ScrapeType, ScrapePcs
<1>4. ScrapeAged(q, time) /\ (InUse(q) => InUse(scr[p]))
  BY <1>1, <1>3, ScrapeFacts DEF ScrapeAged, InUse
<1>5. ClientsInv' /\ made' \in Int /\ undone' = FALSE
  BY <1>1 DEF AuthInv, ClientsInv
<1> QED BY <1>1, <1>2, <1>3, <1>4, <1>5, CacheUnchanged, ScrapeMoves

LEMMA DoneKeeps == ASSUME AuthInv, NEW p \in AuthScrapes, AuthScrapeEnds(p) PROVE AuthInv'
BY CacheUnchanged, ScrapeEndsKeeps DEF AuthScrapeEnds

LEMMA SweepsKeep == ASSUME AuthInv, CycleSweeps PROVE AuthInv'
<1>1. /\ \A p \in AuthScrapes : scr[p].pc = "idle"
      /\ authCache' = SweepAuth(authCache) /\ tlsClients' = [k \in DOMAIN tlsClients \ IdleClients |-> tlsClients[k]]
      /\ UNCHANGED <<time, secret, version, made, scr, undone>>
  BY DEF CycleSweeps
<1>2. AuthCacheInv'
  BY <1>1, SweptFacts DEF AuthCacheInv, EntryAged
<1>3. ClientsInv'
  <2>1. IsFiniteSet(DOMAIN tlsClients) /\ Cardinality(DOMAIN tlsClients) <= MaxTLS /\ MaxTLS \in Nat
    BY LimitFacts DEF AuthInv, ClientsInv
  <2>2. DOMAIN tlsClients' \subseteq DOMAIN tlsClients /\ \A k \in DOMAIN tlsClients' : tlsClients'[k] = tlsClients[k]
    BY <1>1
  <2>3. /\ IsFiniteSet(DOMAIN tlsClients') /\ Cardinality(DOMAIN tlsClients') <= Cardinality(DOMAIN tlsClients)
        /\ Cardinality(DOMAIN tlsClients') \in Nat /\ Cardinality(DOMAIN tlsClients) \in Nat
    BY <2>1, <2>2, FS_Subset, FS_CardinalityType
  <2>4. Cardinality(DOMAIN tlsClients') <= MaxTLS
    BY <2>1, <2>3
  <2> QED BY <2>2, <2>3, <2>4 DEF AuthInv, ClientsInv
<1>4. ScrapesInv'
  BY <1>1 DEF AuthInv, ScrapesInv, ScrapeAged
<1>5. ClientsHeld'
  <2>1. \A p \in AuthScrapes : ~InUse(scr[p])'
    BY <1>1 DEF InUse
  <2> QED BY <2>1 DEF ClientsHeld
<1> QED BY <1>1, <1>2, <1>3, <1>4, <1>5 DEF AuthInv

LEMMA TickKeeps == ASSUME AuthInv, AuthTick PROVE AuthInv'
<1>1. /\ time' = time + 1 /\ time \in Int /\ UNCHANGED <<secret, version, authCache, tlsClients, made, closed, scr, undone>>
      /\ \A p \in AuthScrapes : \/ scr[p].pc \in {"idle", "done"}
                                \/ scr[p].pc = "asked" /\ time - scr[p].asked < Latency
  BY DEF AuthTick, AuthInv
<1>2. ASSUME NEW p \in AuthScrapes PROVE ScrapeAged(scr[p], time + 1)
  <2>1. scr[p].pc = "asked" => scr[p].asked <= time + 1 /\ time + 1 <= scr[p].asked + Latency
    <3>1. scr[p].asked \in Int /\ Latency \in Nat /\ (scr[p].pc = "asked" => scr[p].asked <= time /\ time - scr[p].asked < Latency)
      BY <1>1, <1>2, ScrapeFacts, LimitFacts DEF ScrapeAged
    <3> QED BY <1>1, <3>1
  <2>2. scr[p].pc \in {"idle", "done", "asked"}
    BY <1>1, <1>2
  <2> QED BY <2>1, <2>2, ScrapeFacts DEF ScrapeAged
<1>3. ScrapesInv'
  BY <1>1, <1>2 DEF AuthInv, ScrapesInv
<1>4. \A r \in DOMAIN authCache : EntryAged(authCache[r], time + 1)
  BY <1>1 DEF AuthInv, AuthCacheInv, EntryAged, CredEntry
<1>5. AuthCacheInv' /\ ClientsInv'
  BY <1>1, <1>4 DEF AuthInv, AuthCacheInv, ClientsInv
<1>6. ClientsHeld'
  BY <1>1 DEF AuthInv, ClientsHeld, InUse, CachedFor, Retiring
<1> QED BY <1>1, <1>3, <1>5, <1>6 DEF AuthInv

LEMMA ChangeKeeps == ASSUME AuthInv, NEW r \in Refs, SecretChanges(r) PROVE AuthInv'
<1>1. UNCHANGED <<time, authCache, tlsClients, made, closed, scr, undone>>
  BY DEF SecretChanges
<1>2. secret' \in [Refs -> Int] /\ version' \in Int
  BY DEF SecretChanges, AuthInv
<1>3. AuthCacheInv' /\ ClientsInv' /\ ScrapesInv' /\ ClientsHeld'
  BY <1>1 DEF AuthInv, AuthCacheInv, EntryAged, ClientsInv, ScrapesInv, ScrapeAged, ClientsHeld, InUse, CachedFor, Retiring
<1> QED BY <1>1, <1>2, <1>3 DEF AuthInv

LEMMA AuthKeeps == AuthInv /\ [AuthNext]_authVars => AuthInv'
<1> SUFFICES ASSUME AuthInv, [AuthNext]_authVars PROVE AuthInv'
  OBVIOUS
<1>1. CASE UNCHANGED authVars
  BY <1>1 DEF authVars, AuthInv, AuthCacheInv, EntryAged, ClientsInv, ScrapesInv, ScrapeAged, ClientsHeld, InUse, CachedFor, Retiring
<1>2. ASSUME AuthNext PROVE AuthInv'
  BY <1>2, BeginsKeeps, TokenKeeps, AnswerKeeps, GivesUpKeeps, RefusedKeeps, UnansweredKeeps, FetchedKeeps,
     ClientForKeeps, InsertKeeps, CloseKeeps, DoneKeeps, SweepsKeep, TickKeeps, ChangeKeeps DEF AuthNext
<1> QED BY <1>1, <1>2

\* For any number of concurrent scrapes, secrets, changes and outages: a request goes out
\* with credentials within the outage grace and its own lookups, a refusal removes no
\* newer value, both tables stay within their bounds, and a client in use is the cached
\* one or is closed or about to be (authToken, applyAuth, clientFor).
THEOREM CredentialsAlwaysBounded == AuthSpec => []CredentialsBounded
<1>1. AuthInv => CredentialsBounded
  <2> SUFFICES ASSUME AuthInv PROVE CredentialsBounded
    OBVIOUS
  <2>1. \A p \in AuthScrapes : scr[p].age < StaleGrace + Latency * Len(Needs(scr[p].target))
    BY ScrapeFacts DEF ScrapeAged, Within
  <2>2. ~undone /\ Cardinality(DOMAIN authCache) <= MaxAuth /\ Cardinality(DOMAIN tlsClients) <= MaxTLS
    BY DEF AuthInv, AuthCacheInv, ClientsInv
  <2>3. \A p \in AuthScrapes : scr[p].pc \in {"close", "done"} /\ OwnClient(scr[p].target) =>
          \/ scr[p].client \in closed \cup UNION {scr[q].retired : q \in AuthScrapes}
          \/ Material(p) \in DOMAIN tlsClients /\ tlsClients[Material(p)].client = scr[p].client
    BY DEF AuthInv, ClientsHeld, InUse, CachedFor, MaterialOf, Material, Retiring
  <2> QED BY <2>1, <2>2, <2>3 DEF CredentialsBounded
<1> QED BY <1>1, AuthStarts, AuthKeeps, PTL DEF AuthSpec

-----------------------------------------------------------------------------
(* Attribution.                                                              *)

DocStates == {"running", "waiting", "none"}
DocType == [uid : Int, mirrors : Int, id : Int, started : Int, state : DocStates, behind : Int]
Incarnation == [uid : Int, api : Int, start : Int]
Labels == UNION {UNION Shapes[s] : s \in Scrapers}
AskPcs == {"id", "pod", "podOnly", "again"}
WaitPcs == {"id?", "pod?", "podOnly?", "again?"}
ByName == {"pod", "pod?", "check", "again", "again?", "drop"}
RowType ==
  [pc : AskPcs \cup WaitPcs \cup {"row", "check", "drop", "done"}, n : Int, shape : SUBSET Labels, rec : Int,
   created : Int, began : Int, doc : DocType, ctr : BOOLEAN, resolved : BOOLEAN,
   spent : Int, shed : SUBSET ((SUBSET Labels) \X Int), sheds : Int]

\* A document is about an incarnation, by its pod's own uid or as its mirror, and
\* what came after began no earlier than a, less what it was behind.
DocOf(d, w) ==
  d \in DocType /\ (d # None => /\ d.id \in 1..Len(w) /\ 0 <= d.behind
                                /\ d.uid = w[d.id].uid \/ d.uid < 0
                                /\ d.mirrors = w[d.id].uid \/ d.mirrors = 0
                                /\ d.started = IF d.state = "running" THEN w[d.id].start ELSE 0)
NewestAt(d, w, a) == d = None \/ \A i \in 1..Len(w) : d.id < i => w[i].start >= a - d.behind

\* When what a row goes on with arrived.
Horizons(t) == t - CacheTTL + 1

RightPod(d, r, w) == "uid" \in IdentityOf(r.shape) => w[d.id].uid = w[r.rec].uid
RightContainer(r, w) ==
  /\ LookupContainerID(IdentityOf(r.shape)) => r.doc.id = r.rec
  /\ r.created # 0 /\ r.doc.state # "none" /\ ~TooLate(r.doc) => w[r.doc.id].start >= r.created

RowBase(r, w) ==
  /\ r \in RowType
  /\ r.pc # "row" => r.rec \in 1..Len(w) /\ (r.created = 0 \/ r.created = w[r.rec].start)
  /\ 0 <= r.spent /\ r.spent <= Limit /\ IsFiniteSet(r.shed) /\ r.sheds = Cardinality(r.shed)
  /\ r.pc \in ByName => ~LookupContainerID(IdentityOf(r.shape))
  /\ r.pc \in {"check", "again", "again?", "drop"} => r.doc # None /\ r.doc.id \in 1..Len(w) /\ RightPod(r.doc, r, w)

RowDone(r, w) ==
  r.pc = "done" => /\ r.doc # None => r.doc.id \in 1..Len(w) /\ RightPod(r.doc, r, w)
                   /\ r.ctr => r.doc.id \in 1..Len(w) /\ RightContainer(r, w)

RowAsks(r, w, t) == r.pc \in WaitPcs => r.began <= t /\ t - r.began <= Limit - r.spent

RowSound(r, w, t) ==
  /\ RowBase(r, w) /\ RowDone(r, w) /\ RowAsks(r, w, t)
  /\ r.pc = "check" => DocOf(r.doc, w) /\ NewestAt(r.doc, w, Horizons(t))

WorldInv ==
  /\ clock \in Int /\ world \in Seq(Incarnation) /\ Len(world) >= 1
  /\ \A i \in 1..Len(world) : 1 <= world[i].start /\ world[i].start <= clock
  /\ \A i \in 1..Len(world) : 1 <= world[i].uid /\ (world[i].api = world[i].uid \/ world[i].api < 0)
  /\ \A i, j \in 1..Len(world) : i <= j => world[i].start <= world[j].start

EntrySound(k, e, w, t) ==
  /\ e.fetched \in Int /\ e.fetched <= t /\ DocOf(e.doc, w)
  /\ k[1] = "c" => e.doc = None \/ e.doc.id = k[2]
  /\ NewestAt(e.doc, w, e.fetched)

AttributionInv ==
  /\ WorldInv
  /\ \A k \in DOMAIN cache : EntrySound(k, cache[k], world, clock)
  /\ rows \in [Scrapers -> RowType] /\ \A s \in Scrapers : RowSound(rows[s], world, clock)

LEMMA AttrLimits ==
  CacheTTL \in Int /\ CacheTTL >= 1 /\ Limit \in Int /\ Limit >= 1 /\ Lag \in Int /\ Lag >= 0
  /\ Window \in Int
BY AttributionAssumption

LEMMA StartFacts ==
  ASSUME WorldInv
  PROVE  /\ clock \in Int /\ Len(world) \in Nat \ {0}
         /\ \A i \in 1..Len(world) : world[i] \in Incarnation /\ world[i].start \in Int /\ world[i].uid \in Int
                                      /\ world[i].api \in Int
<1>1. clock \in Int /\ Len(world) \in Nat \ {0}
  BY LenProperties DEF WorldInv
<1>2. \A i \in 1..Len(world) : world[i] \in Incarnation
  BY ElementOfSeq DEF WorldInv
<1> QED BY <1>1, <1>2 DEF Incarnation

LEMMA NoneType == None \in DocType /\ None.id = 0 /\ None.uid = 0
BY DEF None, DocType, DocStates

LEMMA DoneFacts ==
  ASSUME NEW r \in RowType, NEW d \in DocType, NEW c \in BOOLEAN, NEW ok \in BOOLEAN
  PROVE  LET y == Done(r, d, c, ok)
         IN  /\ y \in RowType /\ y.pc = "done" /\ y.doc = d /\ y.ctr = c /\ y.shape = r.shape /\ y.rec = r.rec
             /\ y.created = r.created /\ y.spent = r.spent /\ y.shed = r.shed /\ y.sheds = r.sheds
BY DEF Done, RowType

\* A row that is done says the truth if its document does.
LEMMA DoneSound ==
  ASSUME NEW w, NEW t, NEW r, RowBase(r, w), r.pc # "row", NEW d \in DocType, NEW c \in BOOLEAN, NEW ok \in BOOLEAN,
         d # None => d.id \in 1..Len(w) /\ RightPod(d, r, w),
         c => /\ d.id \in 1..Len(w)
              /\ LookupContainerID(IdentityOf(r.shape)) => d.id = r.rec
              /\ r.created # 0 /\ d.state # "none" /\ ~TooLate(d) => w[d.id].start >= r.created
  PROVE  RowSound(Done(r, d, c, ok), w, t)
<1> PICK y : y = Done(r, d, c, ok)
  OBVIOUS
<1>1. /\ y \in RowType /\ y.pc = "done" /\ y.doc = d /\ y.ctr = c /\ y.shape = r.shape /\ y.rec = r.rec
      /\ y.created = r.created /\ y.spent = r.spent /\ y.shed = r.shed /\ y.sheds = r.sheds
  BY DoneFacts DEF RowBase
<1>2. RowBase(y, w)
  BY <1>1 DEF RowBase, ByName
<1>3. RowDone(y, w)
  BY <1>1 DEF RowDone, RightPod, RightContainer
<1>4. RowAsks(y, w, t)
  BY <1>1 DEF RowAsks, WaitPcs
<1> QED BY <1>1, <1>2, <1>3, <1>4 DEF RowSound

\* A document that names no earlier incarnation began no earlier than the row's.
LEMMA NotEarlier ==
  ASSUME WorldInv, NEW d, DocOf(d, world), d # None, NEW c \in Int, ~NamesEarlier(d, c)
  PROVE  d.id # 0 /\ (d.state # "none" => world[d.id].start >= c)
<1>1. /\ d.id \in 1..Len(world) /\ d.started = IF d.state = "running" THEN world[d.id].start ELSE 0
      /\ d.state \in DocStates
  BY DEF DocOf, DocType
<1>2. Len(world) \in Nat /\ d.id # 0 /\ world[d.id].start >= 1
  BY <1>1, LenProperties DEF WorldInv
<1>3. world[d.id] \in Incarnation
  BY <1>1, ElementOfSeq DEF WorldInv
<1>4. world[d.id].start \in Int
  BY <1>3 DEF Incarnation
<1> QED BY <1>1, <1>2, <1>4 DEF NamesEarlier, DocStates

\* What a row that asks may be given.
Usable(r, d) ==
  /\ DocOf(d, world)
  /\ r.pc = "id" => d = None \/ d.id = r.rec
  /\ NewestAt(d, world, Horizons(clock))

LEMMA AfterSound ==
  ASSUME WorldInv, NEW r, RowBase(r, world), r.pc \in AskPcs, NEW d, Usable(r, d)
  PROVE  RowSound(After(r, d), world, clock)
<1>1. r \in RowType /\ r.pc # "row" /\ r.rec \in 1..Len(world) /\ d \in DocType /\ r.doc \in DocType /\ r.created \in Int
  BY DEF RowBase, AskPcs, Usable, DocOf, RowType
<1>2. d # None /\ PodAnswersFor(d, r) => d.id \in 1..Len(world) /\ RightPod(d, r, world)
  <2> SUFFICES ASSUME d # None, PodAnswersFor(d, r) PROVE d.id \in 1..Len(world) /\ RightPod(d, r, world)
    OBVIOUS
  <2>1. /\ d.id \in 1..Len(world) /\ (d.uid = world[d.id].uid \/ d.uid < 0)
        /\ (d.mirrors = world[d.id].uid \/ d.mirrors = 0)
    BY DEF Usable, DocOf
  <2>2. world[r.rec].uid \in Int /\ 1 <= world[r.rec].uid
    BY <1>1, StartFacts DEF WorldInv
  <2> QED BY <2>1, <2>2 DEF PodAnswersFor, RightPod
<1>3. TRUE \in BOOLEAN /\ FALSE \in BOOLEAN
  OBVIOUS
<1>4. CASE r.pc = "id"
  <2>1. After(r, d) = IF d # None THEN Done(r, d, TRUE, TRUE)
                      ELSE IF "pod" \in IdentityOf(r.shape) THEN [r EXCEPT !.pc = "podOnly"]
                      ELSE Done(r, None, FALSE, FALSE)
    BY <1>4 DEF After
  <2>2. CASE d # None
    <3>1. d.id = r.rec
      BY <1>4, <2>2 DEF Usable
    <3>2. RightPod(d, r, world)
      BY <3>1 DEF RightPod
    <3>3. r.created # 0 => world[d.id].start >= r.created
      BY <1>1, <3>1, StartFacts DEF RowBase
    <3> QED BY <1>1, <2>1, <2>2, <3>1, <3>2, <3>3, DoneSound
  <2>3. CASE d = None /\ "pod" \in IdentityOf(r.shape)
    <3> PICK y : y = [r EXCEPT !.pc = "podOnly"]
      OBVIOUS
    <3>1. /\ y \in RowType /\ y.pc = "podOnly" /\ y.doc = r.doc /\ y.shape = r.shape /\ y.rec = r.rec
          /\ y.created = r.created /\ y.spent = r.spent /\ y.shed = r.shed /\ y.sheds = r.sheds
      BY <1>1 DEF RowType, AskPcs
    <3>2. RowSound(y, world, clock)
      BY <1>1, <3>1 DEF RowSound, RowBase, RowDone, RowAsks, WaitPcs, ByName
    <3> QED BY <2>1, <2>3, <3>2
  <2>4. CASE d = None /\ "pod" \notin IdentityOf(r.shape)
    BY <1>1, <2>1, <2>4, DoneSound, NoneType
  <2> QED BY <2>2, <2>3, <2>4
<1>5. CASE r.pc = "podOnly"
  <2> PICK x : x = IF PodAnswersFor(d, r) THEN d ELSE None
    OBVIOUS
  <2>1. After(r, d) = Done(r, x, FALSE, FALSE)
    BY <1>5 DEF After
  <2>2. x \in DocType /\ (x # None => x.id \in 1..Len(world) /\ RightPod(x, r, world))
    BY <1>1, <1>2, NoneType
  <2> QED BY <1>1, <2>1, <2>2, DoneSound
<1>6. CASE r.pc = "pod"
  <2>1. After(r, d) = IF d = None \/ ~PodAnswersFor(d, r) THEN Done(r, None, FALSE, FALSE)
                      ELSE IF "container" \in IdentityOf(r.shape) THEN [r EXCEPT !.pc = "check", !.doc = d]
                      ELSE Done(r, d, FALSE, TRUE)
    BY <1>6 DEF After
  <2>2. CASE d = None \/ ~PodAnswersFor(d, r)
    BY <1>1, <2>1, <2>2, DoneSound, NoneType
  <2>3. CASE d # None /\ PodAnswersFor(d, r) /\ "container" \in IdentityOf(r.shape)
    <3> PICK y : y = [r EXCEPT !.pc = "check", !.doc = d]
      OBVIOUS
    <3>1. /\ y \in RowType /\ y.pc = "check" /\ y.doc = d /\ y.shape = r.shape /\ y.rec = r.rec
          /\ y.created = r.created /\ y.spent = r.spent /\ y.shed = r.shed /\ y.sheds = r.sheds
      BY <1>1 DEF RowType, AskPcs
    <3>2. RowBase(y, world)
      BY <1>1, <1>2, <1>6, <2>3, <3>1 DEF RowBase, RightPod, ByName
    <3>3. RowSound(y, world, clock)
      BY <1>6, <3>1, <3>2 DEF RowSound, RowDone, RowAsks, WaitPcs, Usable
    <3> QED BY <2>1, <2>3, <3>3
  <2>4. CASE d # None /\ PodAnswersFor(d, r) /\ "container" \notin IdentityOf(r.shape)
    BY <1>1, <1>2, <2>1, <2>4, DoneSound
  <2> QED BY <2>2, <2>3, <2>4
<1>7. CASE r.pc = "again"
  <2>1. After(r, d) = IF d = None \/ ~PodAnswersFor(d, r) THEN Done(r, r.doc, FALSE, TRUE)
                      ELSE IF NamesEarlier(d, r.created) THEN [r EXCEPT !.pc = "drop", !.doc = d]
                      ELSE Done(r, d, d.id # 0, TRUE)
    BY <1>7 DEF After
  <2>2. r.doc.id \in 1..Len(world) /\ RightPod(r.doc, r, world) /\ ~LookupContainerID(IdentityOf(r.shape))
    BY <1>7 DEF RowBase, ByName
  <2>3. CASE d = None \/ ~PodAnswersFor(d, r)
    BY <1>1, <2>1, <2>2, <2>3, DoneSound
  <2>4. CASE d # None /\ PodAnswersFor(d, r) /\ NamesEarlier(d, r.created)
    <3> PICK y : y = [r EXCEPT !.pc = "drop", !.doc = d]
      OBVIOUS
    <3>1. /\ y \in RowType /\ y.pc = "drop" /\ y.doc = d /\ y.shape = r.shape /\ y.rec = r.rec
          /\ y.created = r.created /\ y.spent = r.spent /\ y.shed = r.shed /\ y.sheds = r.sheds
      BY <1>1 DEF RowType, AskPcs
    <3>2. RowBase(y, world)
      BY <1>1, <1>2, <1>7, <2>4, <3>1 DEF RowBase, RightPod, ByName
    <3>3. RowSound(y, world, clock)
      BY <3>1, <3>2 DEF RowSound, RowDone, RowAsks, WaitPcs
    <3> QED BY <2>1, <2>4, <3>3
  <2>5. CASE d # None /\ PodAnswersFor(d, r) /\ ~NamesEarlier(d, r.created)
    <3>1. d.state # "none" => world[d.id].start >= r.created
      BY <1>1, <2>5, NotEarlier DEF Usable
    <3>2. (d.id # 0) \in BOOLEAN
      OBVIOUS
    <3>3. d.id \in 1..Len(world)
      BY <2>5 DEF Usable, DocOf
    <3> QED BY <1>1, <1>2, <2>1, <2>2, <2>5, <3>1, <3>2, <3>3, DoneSound
  <2> QED BY <2>3, <2>4, <2>5
<1> QED BY <1>4, <1>5, <1>6, <1>7 DEF AskPcs

\* The lookup a row was waiting for is over.
LEMMA AskerSound ==
  ASSUME WorldInv, NEW s \in Scrapers, RowSound(rows[s], world, clock), Waiting(s)
  PROVE  LET r == Asker(s)
         IN  /\ RowBase(r, world) /\ r.pc \in AskPcs /\ r.rec = rows[s].rec /\ r.shape = rows[s].shape
             /\ (r.pc = "id") = (rows[s].pc = "id?")
<1> PICK x : x = rows[s]
  OBVIOUS
<1>1. /\ x \in RowType /\ x.pc \in WaitPcs /\ x.spent \in Int /\ x.began \in Int /\ x.began <= clock /\ 0 <= x.spent
      /\ clock - x.began <= Limit - x.spent /\ x.rec \in 1..Len(world) /\ (x.created = 0 \/ x.created = world[x.rec].start)
      /\ IsFiniteSet(x.shed) /\ x.sheds = Cardinality(x.shed)
  BY DEF RowSound, RowBase, RowAsks, Waiting, WaitPcs, RowType
<1>2. clock \in Int
  BY DEF WorldInv
<1> PICK m \in Int : m = x.spent + (clock - x.began)
  BY <1>1, <1>2
<1>3. 0 <= m /\ m <= Limit
  <2> PICK b \in Int : b = x.began
    BY <1>1
  <2> PICK p \in Int : p = x.spent
    BY <1>1
  <2>1. m = p + (clock - b) /\ b <= clock /\ 0 <= p /\ clock - b <= Limit - p
    BY <1>1
  <2> QED BY ONLY <1>2, <2>1, b \in Int, p \in Int, m \in Int, AttrLimits
<1> PICK q \in AskPcs : q = CASE x.pc = "id?" -> "id" [] x.pc = "pod?" -> "pod" [] x.pc = "podOnly?" -> "podOnly" [] OTHER -> "again"
  BY <1>1 DEF WaitPcs, AskPcs
<1> PICK z \in Int : z = 0
  OBVIOUS
<1> PICK y : y = [x EXCEPT !.spent = m, !.began = z, !.pc = q]
  OBVIOUS
<1>4. y = Asker(s)
  BY DEF Asker
<1>5. /\ y \in RowType /\ y.pc = q /\ y.doc = x.doc /\ y.shape = x.shape /\ y.rec = x.rec
      /\ y.created = x.created /\ y.spent = m /\ y.shed = x.shed /\ y.sheds = x.sheds
  BY <1>1, NoneType DEF RowType
<1>6. /\ (q = "id") = (x.pc = "id?") /\ (q = "pod") = (x.pc = "pod?") /\ (q = "again") = (x.pc = "again?")
      /\ q \notin {"check", "again?", "drop", "pod?", "row"}
  BY <1>1 DEF WaitPcs, AskPcs
<1>7. q \in ByName => x.pc \in ByName
  BY <1>1, <1>6 DEF ByName, AskPcs
<1>8. RowBase(y, world)
  BY <1>1, <1>3, <1>5, <1>6, <1>7 DEF RowBase, RowSound, RightPod
<1> QED BY <1>4, <1>5, <1>6, <1>8

\* What it is told is about the incarnation asked for, and is out of date by as much
\* as it says.
LEMMA ToldFresh ==
  ASSUME WorldInv, NEW r, NEW n \in 0..Len(world), NEW st \in DocStates, NEW d \in {Told(r, n, st), None}
  PROVE  /\ DocOf(d, world) /\ NewestAt(d, world, clock)
         /\ r.pc = "id" => d = None \/ d.id = r.rec
<1>1. CASE d = None
  BY <1>1, NoneType DEF DocOf, NewestAt
<1>2. CASE d # None
  <2> PICK i : i = IF r.pc = "id" THEN r.rec ELSE n
    OBVIOUS
  <2>1. i \in 1..n /\ d = Document(i, st)
    BY <1>2 DEF Told
  <2>2. Len(world) \in Nat /\ clock \in Int /\ i \in 1..Len(world)
    BY <2>1, StartFacts
  <2> PICK u \in Int : u = world[i].uid
    BY <2>2, StartFacts
  <2> PICK a \in Int : a = world[i].api
    BY <2>2, StartFacts
  <2> PICK b \in Int : b = world[i].start
    BY <2>2, StartFacts
  <2>21. i < Len(world) => i + 1 \in 1..Len(world)
    BY <2>2
  <2>22. i < Len(world) => world[i + 1].start \in Int /\ world[i + 1].start <= clock
    BY <2>21, StartFacts DEF WorldInv
  <2> PICK m \in Int : m = IF i < Len(world) THEN clock - world[i + 1].start ELSE 0
    BY <2>2, <2>22
  <2> PICK g \in Int : g = IF st = "running" THEN b ELSE 0
    OBVIOUS
  <2> PICK h \in Int : h = IF a < 0 THEN u ELSE 0
    OBVIOUS
  <2>3. d = [uid |-> a, mirrors |-> h, id |-> i, started |-> g, state |-> st, behind |-> m]
    BY <2>1 DEF Document
  <2>4. /\ d.uid = a /\ d.mirrors = h /\ d.id = i /\ d.started = g /\ d.state = st /\ d.behind = m
        /\ i \in Int
    BY <2>2, <2>3
  <2>5. d \in DocType
    BY <2>3, <2>4 DEF DocType
  <2>6. i < Len(world) => i + 1 \in 1..Len(world) /\ world[i + 1].start \in Int /\ world[i + 1].start <= clock
    BY <2>21, <2>22
  <2>7. 0 <= m
    BY <2>2, <2>6
  <2>8. (a = u \/ a < 0) /\ (h = u \/ h = 0) /\ g = IF st = "running" THEN world[i].start ELSE 0
    BY <2>2 DEF WorldInv
  <2>9. DocOf(d, world)
    BY <2>2, <2>4, <2>5, <2>7, <2>8 DEF DocOf
  <2>10. ASSUME NEW j \in 1..Len(world), i < j PROVE world[j].start >= clock - m
    <3>1. i < Len(world) /\ m = clock - world[i + 1].start /\ i + 1 <= j
      BY <2>2, <2>10
    <3>2. world[i + 1].start <= world[j].start
      BY <2>6, <3>1 DEF WorldInv
    <3>3. world[j].start \in Int
      BY StartFacts
    <3> PICK x \in Int : x = world[i + 1].start
      BY <2>6, <3>1
    <3>4. m = clock - x /\ x <= world[j].start
      BY <3>1, <3>2
    <3> QED BY ONLY <2>2, <3>3, <3>4, x \in Int, m \in Int
  <2>11. NewestAt(d, world, clock)
    BY <2>4, <2>10 DEF NewestAt
  <2> QED BY <2>4, <2>9, <2>11
<1> QED BY <1>1, <1>2

\* What is new enough for a later time is new enough for an earlier one.
LEMMA NewestSince ==
  ASSUME WorldInv, NEW d, DocOf(d, world), NEW a \in Int, NEW b \in Int, b <= a, NewestAt(d, world, a)
  PROVE  NewestAt(d, world, b)
<1>1. CASE d = None
  BY <1>1 DEF NewestAt
<1>2. CASE d # None
  <2> PICK m \in Int : m = d.behind
    BY DEF DocOf, DocType
  <2> SUFFICES ASSUME NEW i \in 1..Len(world), d.id < i PROVE world[i].start >= b - m
    BY DEF NewestAt
  <2>1. world[i].start >= a - m
    BY <1>2 DEF NewestAt
  <2>2. world[i].start \in Int
    BY StartFacts
  <2> QED BY <2>1, <2>2
<1> QED BY <1>1, <1>2

LEMMA RowSet ==
  ASSUME AttributionInv, NEW s \in Scrapers, NEW y, RowSound(y, world, clock),
         rows' = [rows EXCEPT ![s] = y], world' = world, clock' = clock,
         \A k \in DOMAIN cache' : EntrySound(k, cache'[k], world, clock)
  PROVE  AttributionInv'
<1>1. y \in RowType
  BY DEF RowSound, RowBase
<1>2. rows' \in [Scrapers -> RowType] /\ rows'[s] = y /\ \A q \in Scrapers \ {s} : rows'[q] = rows[q]
  BY <1>1 DEF AttributionInv
<1>3. \A q \in Scrapers : RowSound(rows'[q], world, clock)
  BY <1>2 DEF AttributionInv
<1>4. WorldInv'
  BY DEF AttributionInv, WorldInv
<1>5. \A q \in Scrapers : RowSound(rows'[q], world', clock')
  BY <1>3
<1>6. \A k \in DOMAIN cache' : EntrySound(k, cache'[k], world', clock')
  OBVIOUS
<1> QED BY <1>2, <1>4, <1>5, <1>6 DEF AttributionInv

LEMMA CacheKept ==
  ASSUME AttributionInv, cache' = cache
  PROVE  \A k \in DOMAIN cache' : EntrySound(k, cache'[k], world, clock)
BY DEF AttributionInv

LEMMA EvictionsKeep ==
  ASSUME NEW c, NEW b \in Evictions(c)
  PROVE  DOMAIN b \subseteq DOMAIN c /\ \A k \in DOMAIN b : b[k] = c[k]
<1>1. DOMAIN Swept(c) \subseteq DOMAIN c /\ \A k \in DOMAIN Swept(c) : Swept(c)[k] = c[k]
  BY DEF Swept
<1>2. CASE b = c
  BY <1>2
<1>3. CASE b = Swept(c)
  BY <1>1, <1>3
<1>4. CASE \E keep \in SUBSET DOMAIN Swept(c) : b = [k \in keep |-> Swept(c)[k]]
  BY <1>1, <1>4
<1>5. b = c \/ b = Swept(c) \/ \E keep \in SUBSET DOMAIN Swept(c) : b = [k \in keep |-> Swept(c)[k]]
  BY DEF Evictions
<1> QED BY <1>2, <1>3, <1>4, <1>5

LEMMA PutSound ==
  ASSUME AttributionInv, NEW k, NEW e, EntrySound(k, e, world, clock), CachePut(k, e)
  PROVE  \A j \in DOMAIN cache' : EntrySound(j, cache'[j], world, clock)
<1> PICK c : c = [j \in DOMAIN cache \cup {k} |-> IF j = k THEN e ELSE cache[j]]
  OBVIOUS
<1>1. cache' \in Evictions(c)
  BY DEF CachePut
<1>2. \A j \in DOMAIN c : EntrySound(j, c[j], world, clock)
  BY DEF AttributionInv
<1> QED BY <1>1, <1>2, EvictionsKeep

LEMMA DropSound ==
  ASSUME AttributionInv, NEW k, CacheDrop(k)
  PROVE  \A j \in DOMAIN cache' : EntrySound(j, cache'[j], world, clock)
BY DEF CacheDrop, AttributionInv

-----------------------------------------------------------------------------
LEMMA AfterUsed ==
  ASSUME AttributionInv, NEW s \in Scrapers, NEW r, RowBase(r, world), r.pc \in AskPcs, NEW d, Usable(r, d),
         rows' = [rows EXCEPT ![s] = After(r, d)], world' = world, clock' = clock, cache' = cache
  PROVE  AttributionInv'
<1>1. RowSound(After(r, d), world, clock)
  BY AfterSound DEF AttributionInv
<1> QED BY <1>1, RowSet, CacheKept

LEMMA RowKeeps == ASSUME AttributionInv, NEW s \in Scrapers, NEW sh \in Shapes[s], Row(s, sh) PROVE AttributionInv'
<1>1. WorldInv /\ rows[s] \in RowType /\ RowBase(rows[s], world)
  BY DEF AttributionInv, RowSound
<1>2. sh \in SUBSET Labels
  BY DEF Labels
<1> PICK id : id = IdentityOf(sh)
  OBVIOUS
<1> PICK m \in Int : m = rows[s].n + 1
  BY <1>1 DEF RowType
<1> PICK l \in 1..Len(world) : l = Len(world)
  BY <1>1, StartFacts
<1> PICK c \in Int : c = IF "dated" \in sh THEN world[Len(world)].start ELSE 0
  BY <1>1, StartFacts
<1> PICK r : r = [rows[s] EXCEPT !.n = m, !.shape = sh, !.rec = l, !.doc = None, !.ctr = FALSE, !.created = c]
  OBVIOUS
<1>3. l \in Int /\ FALSE \in BOOLEAN /\ TRUE \in BOOLEAN
  BY <1>1, StartFacts
<1>4. /\ r \in RowType /\ r.shape = sh /\ r.rec = l /\ r.created = c /\ r.doc = None /\ r.pc = rows[s].pc
      /\ r.spent = rows[s].spent /\ r.shed = rows[s].shed /\ r.sheds = rows[s].sheds
  BY <1>1, <1>2, <1>3, NoneType DEF RowType
<1>5. c = 0 \/ c = world[l].start
  OBVIOUS
<1> PICK y : y = IF LookupContainerID(id) THEN [r EXCEPT !.pc = "id"]
                 ELSE IF "pod" \in id THEN [r EXCEPT !.pc = "pod"]
                 ELSE Done(r, None, FALSE, FALSE)
  OBVIOUS
<1>6. rows' = [rows EXCEPT ![s] = y] /\ world' = world /\ clock' = clock /\ cache' = cache
  BY DEF Row
<1>7. ASSUME NEW pc \in {"id", "pod"}, pc = "pod" => ~LookupContainerID(id), y = [r EXCEPT !.pc = pc]
      PROVE  RowSound(y, world, clock)
  <2>1. /\ y \in RowType /\ y.shape = sh /\ y.rec = l /\ y.created = c /\ y.doc = None /\ y.pc = pc
        /\ y.spent = rows[s].spent /\ y.shed = rows[s].shed /\ y.sheds = rows[s].sheds
    <3>1. r \in RowType
      BY <1>4
    <3>2. /\ y \in RowType /\ y.shape = r.shape /\ y.rec = r.rec /\ y.created = r.created /\ y.doc = r.doc /\ y.pc = pc
          /\ y.spent = r.spent /\ y.shed = r.shed /\ y.sheds = r.sheds
      BY ONLY <3>1, <1>7 DEF RowType, AskPcs
    <3> QED BY <1>4, <3>2
  <2>2. RowBase(y, world)
    BY <1>1, <1>5, <1>7, <2>1 DEF RowBase, ByName
  <2> QED BY <1>7, <2>1, <2>2 DEF RowSound, RowDone, RowAsks, WaitPcs
<1>8. RowSound(y, world, clock) => AttributionInv'
  BY <1>6, RowSet, CacheKept
<1>9. CASE LookupContainerID(id)
  BY <1>7, <1>8, <1>9
<1>10. CASE ~LookupContainerID(id) /\ "pod" \in id
  BY <1>7, <1>8, <1>10
<1>11. CASE ~LookupContainerID(id) /\ "pod" \notin id
  <2>1. rows[s].pc \in {"row", "done"}
    BY DEF Row
  <2> PICK x : x = [r EXCEPT !.pc = "done"]
    OBVIOUS
  <2>2. /\ x \in RowType /\ x.shape = sh /\ x.rec = l /\ x.created = c /\ x.doc = None /\ x.pc = "done"
        /\ x.spent = rows[s].spent /\ x.shed = rows[s].shed /\ x.sheds = rows[s].sheds
    <3>1. r \in RowType /\ x = [r EXCEPT !.pc = "done"]
      BY <1>4
    <3>2. /\ x \in RowType /\ x.shape = r.shape /\ x.rec = r.rec /\ x.created = r.created /\ x.doc = r.doc /\ x.pc = "done"
          /\ x.spent = r.spent /\ x.shed = r.shed /\ x.sheds = r.sheds
      BY ONLY <3>1 DEF RowType
    <3> QED BY <1>4, <3>2
  <2>3. RowBase(x, world)
    BY <1>1, <1>5, <2>2 DEF RowBase, ByName
  <2>4. y = Done(x, None, FALSE, FALSE)
    BY <1>4, <1>11 DEF Done, RowType
  <2>5. RowSound(Done(x, None, FALSE, FALSE), world, clock)
    BY <1>3, <2>2, <2>3, DoneSound, NoneType
  <2> QED BY <1>8, <2>4, <2>5
<1> QED BY <1>9, <1>10, <1>11

LEMMA CachedKeeps == ASSUME AttributionInv, NEW s \in Scrapers, Cached(s) PROVE AttributionInv'
<1> PICK r : r = rows[s]
  OBVIOUS
<1> PICK k : k = Key(s)
  OBVIOUS
<1>1. /\ WorldInv /\ RowBase(r, world) /\ r.pc \in AskPcs /\ k \in DOMAIN cache /\ ~Expired(cache[k])
      /\ EntrySound(k, cache[k], world, clock)
  BY DEF AttributionInv, Cached, RowSound, AskPcs
<1> PICK d : d = cache[k].doc
  OBVIOUS
<1> PICK f \in Int : f = cache[k].fetched
  BY <1>1 DEF EntrySound
<1>2. clock - f < CacheTTL
  BY <1>1, StartFacts, AttrLimits DEF Expired
<1>3. DocOf(d, world)
  BY <1>1 DEF EntrySound
<1>4. NewestAt(d, world, Horizons(clock))
  <2>1. NewestAt(d, world, f)
    BY <1>1 DEF EntrySound
  <2>2. clock \in Int /\ Horizons(clock) \in Int /\ Horizons(clock) <= f
    <3>1. clock \in Int
      BY <1>1, StartFacts
    <3> QED BY ONLY <1>2, <3>1, f \in Int, AttrLimits DEF Horizons
  <2> QED BY <1>1, <1>3, <2>1, <2>2, NewestSince
<1>5. r.pc = "id" => d = None \/ d.id = r.rec
  <2>1. r.pc = "id" => k[1] = "c" /\ k[2] = r.rec
    BY DEF Key
  <2> QED BY <1>1, <2>1 DEF EntrySound
<1>6. Usable(r, d)
  BY <1>3, <1>4, <1>5 DEF Usable
<1> QED BY <1>1, <1>6, AfterUsed DEF Cached

LEMMA ShedKeeps == ASSUME AttributionInv, NEW s \in Scrapers, Shed(s) PROVE AttributionInv'
<1> PICK r : r = rows[s]
  OBVIOUS
<1>1. WorldInv /\ RowBase(r, world) /\ r.pc \in AskPcs /\ r \in RowType
  BY DEF AttributionInv, Shed, Missed, RowSound, RowBase, AskPcs
<1> PICK key : key = IdentKey(IdentityOf(r.shape), r.rec)
  OBVIOUS
<1>2. key \in (SUBSET Labels) \X Int
  <2>1. IdentityOf(r.shape) \subseteq r.shape
    BY DEF IdentityOf
  <2>2. IdentityOf(r.shape) \cap {"pod", "container", "uid", "id"} \in SUBSET Labels
    BY <1>1, <2>1 DEF RowType
  <2> QED BY <1>1, <2>2 DEF IdentKey, RowType
<1> PICK sd : sd = r.shed \cup {key}
  OBVIOUS
<1> PICK m : m = IF key \in r.shed THEN r.sheds ELSE r.sheds + 1
  OBVIOUS
<1>3. IsFiniteSet(r.shed) /\ r.sheds = Cardinality(r.shed) /\ r.sheds \in Int
  BY <1>1 DEF RowBase, RowType
<1>4. IsFiniteSet(sd) /\ m = Cardinality(sd) /\ m \in Int
  BY <1>3, FS_AddElement
<1>5. sd \in SUBSET ((SUBSET Labels) \X Int)
  BY <1>1, <1>2 DEF RowType
<1> PICK y : y = [r EXCEPT !.shed = sd, !.sheds = m]
  OBVIOUS
<1>6. /\ y \in RowType /\ y.shape = r.shape /\ y.rec = r.rec /\ y.created = r.created /\ y.doc = r.doc /\ y.pc = r.pc
      /\ y.spent = r.spent /\ y.shed = sd /\ y.sheds = m
  BY <1>1, <1>4, <1>5 DEF RowType
<1>7. RowBase(y, world)
  BY <1>1, <1>4, <1>6 DEF RowBase, RightPod
<1>8. Usable(y, None)
  BY NoneType DEF Usable, DocOf, NewestAt
<1>9. RowSound(After(y, None), world, clock)
  BY <1>1, <1>6, <1>7, <1>8, AfterSound
<1>10. rows' = [rows EXCEPT ![s] = After(y, None)]
  BY DEF Shed
<1>11. world' = world /\ clock' = clock /\ cache' = cache
  BY DEF Shed
<1> QED BY <1>9, <1>10, <1>11, RowSet, CacheKept

LEMMA AskKeeps == ASSUME AttributionInv, NEW s \in Scrapers, Ask(s) PROVE AttributionInv'
<1> PICK r : r = rows[s]
  OBVIOUS
<1>1. /\ WorldInv /\ RowBase(r, world) /\ r.pc \in AskPcs /\ r \in RowType /\ rows \in [Scrapers -> RowType]
      /\ r.spent \in Int /\ r.rec \in 1..Len(world)
  BY DEF AttributionInv, Ask, Missed, RowSound, RowBase, RowType, AskPcs
<1>2. Limit - r.spent > 0
  BY DEF Ask, Left
<1> PICK q : q = Asking[r.pc]
  OBVIOUS
<1> PICK c \in Int : c = clock
  BY <1>1, StartFacts
<1> PICK y : y = [r EXCEPT !.began = c, !.pc = q]
  OBVIOUS
<1>4. rows' = [rows EXCEPT ![s] = y]
  BY <1>1 DEF Ask, RowType
<1>5. /\ q \in WaitPcs /\ (q = "id?") = (r.pc = "id") /\ (q = "pod?") = (r.pc = "pod") /\ (q = "again?") = (r.pc = "again")
      /\ q \notin {"check", "again", "drop", "pod", "row", "done"}
  BY <1>1 DEF Asking, AskPcs, WaitPcs
<1>10. /\ y \in RowType /\ y.pc = q /\ y.began = c /\ y.shape = r.shape /\ y.rec = r.rec
       /\ y.created = r.created /\ y.doc = r.doc /\ y.spent = r.spent /\ y.shed = r.shed /\ y.sheds = r.sheds
  BY <1>1, <1>5 DEF RowType
<1>11. RowBase(y, world)
  <2>1. q \in ByName => r.pc \in ByName
    BY <1>5 DEF ByName, WaitPcs
  <2> QED BY <1>1, <1>5, <1>10, <2>1 DEF RowBase, RightPod, AskPcs
<1>12. RowAsks(y, world, clock)
  BY <1>1, <1>2, <1>5, <1>10, AttrLimits DEF RowAsks
<1>13. RowSound(y, world, clock)
  BY <1>5, <1>10, <1>11, <1>12 DEF RowSound, RowDone, WaitPcs
<1>14. world' = world /\ clock' = clock /\ cache' = cache
  BY DEF Ask
<1> QED BY <1>4, <1>13, <1>14, RowSet, CacheKept

LEMMA LookupAnswerKeeps == ASSUME AttributionInv, NEW s \in Scrapers, Answer(s) PROVE AttributionInv'
<1>1. WorldInv /\ RowSound(rows[s], world, clock) /\ Waiting(s)
  BY DEF AttributionInv, Answer
<1> PICK r : r = Asker(s)
  OBVIOUS
<1>2. RowBase(r, world) /\ r.pc \in AskPcs /\ r.rec = rows[s].rec /\ (r.pc = "id") = (rows[s].pc = "id?")
  BY <1>1, AskerSound
<1> PICK k : k = IF r.pc = "id" THEN <<"c", r.rec>> ELSE <<"n", IF "uid" \in IdentityOf(r.shape) THEN world[r.rec].uid ELSE 0>>
  OBVIOUS
<1>31. PICK d \in Answers(r, rows[s].began) :
        CachePut(k, [doc |-> d, fetched |-> clock]) /\ rows' = [rows EXCEPT ![s] = After(r, d)]
  BY DEF Answer
<1>3. \E n \in 0..Len(world), st \in DocStates : d \in {Told(r, n, st), None}
  <2>1. CASE d = None
    <3>1. 0 \in 0..Len(world) /\ "running" \in DocStates
      BY <1>1, StartFacts DEF DocStates
    <3> QED BY <2>1, <3>1
  <2>2. CASE d # None
    BY <2>2 DEF Answers, DocStates
  <2> QED BY <2>1, <2>2
<1>4. /\ DocOf(d, world) /\ NewestAt(d, world, clock)
      /\ r.pc = "id" => d = None \/ d.id = r.rec
  BY <1>1, <1>3, ToldFresh
<1>6. clock \in Int
  BY <1>1, StartFacts
<1>61. NewestAt(d, world, Horizons(clock))
  <2>1. Horizons(clock) \in Int /\ Horizons(clock) <= clock
    BY ONLY <1>6, AttrLimits DEF Horizons
  <2> QED BY <1>1, <1>4, <1>6, <2>1, NewestSince
<1>62. Usable(r, d)
  BY <1>4, <1>61 DEF Usable
<1>5. RowSound(After(r, d), world, clock)
  BY <1>1, <1>2, <1>62, AfterSound
<1>7. EntrySound(k, [doc |-> d, fetched |-> clock], world, clock)
  <2> PICK e : e = [doc |-> d, fetched |-> clock]
    OBVIOUS
  <2>1. e.doc = d /\ e.fetched = clock
    OBVIOUS
  <2>2. k[1] = "c" => r.pc = "id" /\ k[2] = r.rec
    OBVIOUS
  <2> QED BY <1>4, <1>6, <2>1, <2>2 DEF EntrySound
<1>8. \A j \in DOMAIN cache' : EntrySound(j, cache'[j], world, clock)
  BY <1>31, <1>7, PutSound
<1>9. world' = world /\ clock' = clock
  BY DEF Answer
<1> QED BY <1>31, <1>5, <1>8, <1>9, RowSet

LEMMA ExpiresKeeps == ASSUME AttributionInv, NEW s \in Scrapers, LookupExpires(s) PROVE AttributionInv'
<1>1. WorldInv /\ RowSound(rows[s], world, clock) /\ Waiting(s)
  BY DEF AttributionInv, LookupExpires
<1>2. RowBase(Asker(s), world) /\ Asker(s).pc \in AskPcs
  BY <1>1, AskerSound
<1>3. Usable(Asker(s), None)
  BY NoneType DEF Usable, DocOf, NewestAt
<1> QED BY <1>2, <1>3, AfterUsed DEF LookupExpires

\* Out of the window, a document of an earlier incarnation that is still in the cache
\* was out of date by more than the slack when it arrived; within it, the start times
\* are compared.
LEMMA MatchedLate ==
  ASSUME WorldInv, NEW r, RowBase(r, world), r.pc = "check", DocOf(r.doc, world),
         NewestAt(r.doc, world, Horizons(clock)), ~InWindow(r.created) \/ ~NamesEarlier(r.doc, r.created)
  PROVE  r.created # 0 /\ r.doc.state # "none" /\ ~TooLate(r.doc) => world[r.doc.id].start >= r.created
<1>1. /\ r.doc # None /\ r.rec \in 1..Len(world) /\ (r.created = 0 \/ r.created = world[r.rec].start) /\ r.created \in Int
      /\ r.doc.id \in 1..Len(world) /\ r.doc.behind \in Int /\ r.doc.id \in Int
  BY DEF RowBase, RowType, DocOf, DocType
<1>2. CASE ~NamesEarlier(r.doc, r.created)
  BY <1>1, <1>2, NotEarlier
<1>3. CASE ~InWindow(r.created) /\ r.created # 0 /\ ~TooLate(r.doc)
  <2> PICK m \in Int : m = r.doc.behind
    BY <1>1
  <2> PICK c \in Int : c = r.created
    BY <1>1
  <2>1. clock \in Int /\ ~(clock - c < Window) /\ c = world[r.rec].start /\ ~(m > Window - CacheTTL)
    BY <1>1, <1>3, StartFacts DEF InWindow, TooLate
  <2>2. ~(c >= clock - CacheTTL + 1 - m)
    BY ONLY <2>1, AttrLimits, c \in Int, m \in Int
  <2> PICK d : d = r.doc
    OBVIOUS
  <2> PICK n : n = r.rec
    OBVIOUS
  <2>22. d # None /\ NewestAt(d, world, Horizons(clock)) /\ n \in 1..Len(world) /\ d.behind = m /\ world[n].start = c
    BY <1>1, <2>1
  <2>23. d.id < n => c >= Horizons(clock) - m
    BY ONLY <2>22 DEF NewestAt
  <2>3. ~(d.id < n)
    BY ONLY <2>1, <2>2, <2>23, AttrLimits, c \in Int, m \in Int DEF Horizons
  <2>4. r.rec <= r.doc.id
    BY <1>1, <2>3, StartFacts
  <2> QED BY <1>1, <2>1, <2>4, StartFacts DEF WorldInv
<1> QED BY <1>2, <1>3

LEMMA CheckKeeps == ASSUME AttributionInv, NEW s \in Scrapers, CheckIncarnation(s) PROVE AttributionInv'
<1> PICK r : r = rows[s]
  OBVIOUS
<1>1. /\ WorldInv /\ RowBase(r, world) /\ r.pc = "check" /\ DocOf(r.doc, world) /\ NewestAt(r.doc, world, Horizons(clock))
      /\ r \in RowType /\ r.doc \in DocType
  BY DEF AttributionInv, CheckIncarnation, RowSound, DocOf, RowBase
<1>2. r.doc # None /\ r.doc.id \in 1..Len(world) /\ RightPod(r.doc, r, world) /\ ~LookupContainerID(IdentityOf(r.shape))
  BY <1>1 DEF RowBase, ByName
<1> PICK k : k = <<"n", IF "uid" \in IdentityOf(r.shape) THEN world[r.rec].uid ELSE 0>>
  OBVIOUS
<1>3. TRUE \in BOOLEAN /\ FALSE \in BOOLEAN /\ (r.doc.id # 0) \in BOOLEAN /\ world' = world /\ clock' = clock
  BY DEF CheckIncarnation
<1>4. CASE ~InWindow(r.created) \/ ~NamesEarlier(r.doc, r.created)
  <2>1. r.created # 0 /\ r.doc.state # "none" /\ ~TooLate(r.doc) => world[r.doc.id].start >= r.created
    BY <1>1, <1>4, MatchedLate
  <2>2. RowSound(Done(r, r.doc, r.doc.id # 0, TRUE), world, clock)
    <3>1. r.doc.id \in 1..Len(world)
      BY <1>2
    <3> QED BY <1>1, <1>2, <1>3, <2>1, <3>1, DoneSound
  <2>3. rows' = [rows EXCEPT ![s] = Done(r, r.doc, r.doc.id # 0, TRUE)] /\ cache' = cache
    BY <1>4 DEF CheckIncarnation
  <2> QED BY <1>3, <2>2, <2>3, RowSet, CacheKept
<1>5. CASE ~(~InWindow(r.created) \/ ~NamesEarlier(r.doc, r.created))
  <2> PICK y : y = IF k \in DOMAIN cache /\ cache[k].fetched < r.created THEN [r EXCEPT !.pc = "again"]
                   ELSE Done(r, r.doc, FALSE, TRUE)
    OBVIOUS
  <2>1. CacheDrop(k) /\ rows' = [rows EXCEPT ![s] = y]
    BY <1>5 DEF CheckIncarnation
  <2>2. RowSound(Done(r, r.doc, FALSE, TRUE), world, clock)
    BY <1>1, <1>2, <1>3, DoneSound
  <2>3. RowSound([r EXCEPT !.pc = "again"], world, clock)
    <3> PICK x : x = [r EXCEPT !.pc = "again"]
      OBVIOUS
    <3>1. /\ x \in RowType /\ x.pc = "again" /\ x.shape = r.shape /\ x.rec = r.rec /\ x.created = r.created
          /\ x.doc = r.doc /\ x.spent = r.spent /\ x.shed = r.shed /\ x.sheds = r.sheds
      BY <1>1 DEF RowType, AskPcs
    <3>2. RowBase(x, world)
      BY <1>1, <3>1 DEF RowBase, RightPod, ByName
    <3> QED BY <3>1, <3>2 DEF RowSound, RowDone, RowAsks, WaitPcs
  <2>4. RowSound(y, world, clock)
    BY <2>2, <2>3
  <2> QED BY <1>3, <2>1, <2>4, RowSet, DropSound
<1> QED BY <1>4, <1>5

LEMMA DropAgainKeeps == ASSUME AttributionInv, NEW s \in Scrapers, DropAgain(s) PROVE AttributionInv'
<1> PICK r : r = rows[s]
  OBVIOUS
<1>1. RowBase(r, world) /\ r.pc = "drop" /\ r.doc \in DocType /\ r.doc.id \in 1..Len(world) /\ RightPod(r.doc, r, world)
  BY DEF AttributionInv, DropAgain, RowSound, RowBase, RowType
<1>2. TRUE \in BOOLEAN /\ FALSE \in BOOLEAN
  OBVIOUS
<1>3. RowSound(Done(r, r.doc, FALSE, TRUE), world, clock)
  BY <1>1, <1>2, DoneSound
<1>4. rows' = [rows EXCEPT ![s] = Done(r, r.doc, FALSE, TRUE)] /\ world' = world /\ clock' = clock
  BY DEF DropAgain
<1>5. \A j \in DOMAIN cache' : EntrySound(j, cache'[j], world, clock)
  BY DropSound DEF DropAgain
<1> QED BY <1>3, <1>4, <1>5, RowSet

LEMMA FreshSound == \A w, t : RowSound(Fresh, w, t)
<1>1. Fresh \in RowType /\ Fresh.pc = "row" /\ Fresh.spent = 0 /\ Fresh.shed = {} /\ Fresh.sheds = 0
  BY NoneType DEF Fresh, RowType
<1>2. IsFiniteSet({}) /\ Cardinality({}) = 0
  BY FS_EmptySet
<1>3. \A w : RowBase(Fresh, w)
  BY <1>1, <1>2, AttrLimits DEF RowBase, ByName
<1> QED BY <1>1, <1>3 DEF RowSound, RowDone, RowAsks, WaitPcs

LEMMA NextScrapeKeeps == ASSUME AttributionInv, NEW s \in Scrapers, NextScrape(s) PROVE AttributionInv'
BY FreshSound, RowSet, CacheKept DEF NextScrape

\* A new incarnation changes nothing about what was said of the earlier ones.
LEMMA DocGrows ==
  ASSUME NEW w \in Seq(Incarnation), NEW v, NEW e \in Incarnation, v = Append(w, e), NEW d, DocOf(d, w)
  PROVE  DocOf(d, v)
<1>1. Len(w) \in Nat /\ Len(v) = Len(w) + 1 /\ \A i \in 1..Len(w) : v[i] = w[i] /\ i \in 1..Len(v)
  BY LenProperties, AppendProperties
<1> QED BY <1>1 DEF DocOf

LEMMA NewestGrows ==
  ASSUME NEW w \in Seq(Incarnation), NEW v, NEW t \in Int, NEW e \in Incarnation, e.start = t, v = Append(w, e),
         NEW d, DocOf(d, w), NEW a \in Int, a <= t, NewestAt(d, w, a)
  PROVE  NewestAt(d, v, a)
<1>1. Len(w) \in Nat /\ Len(v) = Len(w) + 1 /\ \A i \in 1..Len(w) : v[i] = w[i] /\ i \in 1..Len(v)
  BY LenProperties, AppendProperties
<1>3. v[Len(w) + 1].start = t
  BY AppendProperties
<1>4. CASE d = None
  BY <1>4 DEF NewestAt
<1>5. CASE d # None
  <2> PICK m \in Int : m = d.behind
    BY DEF DocOf, DocType
  <2> SUFFICES ASSUME NEW i \in 1..Len(v), d.id < i PROVE v[i].start >= a - m
    BY DEF NewestAt
  <2>1. 0 <= m
    BY <1>5 DEF DocOf
  <2>2. CASE i = Len(w) + 1
    BY <1>3, <2>1, <2>2
  <2>3. CASE i \in 1..Len(w)
    BY <1>1, <1>5, <2>3 DEF NewestAt
  <2> QED BY <1>1, <2>2, <2>3
<1> QED BY <1>4, <1>5

LEMMA RestartKeeps == ASSUME AttributionInv, NEW new \in {0, 1}, Restart(new) PROVE AttributionInv'
<1>1. WorldInv /\ world \in Seq(Incarnation) /\ Len(world) \in Nat \ {0} /\ clock \in Int /\ Len(world) \in 1..Len(world)
  BY StartFacts DEF AttributionInv, WorldInv
<1> PICK l : l = world[Len(world)]
  OBVIOUS
<1>l. l.uid \in Int /\ l.api \in Int /\ 1 <= l.uid /\ (l.api = l.uid \/ l.api < 0)
  BY <1>1, StartFacts DEF WorldInv
<1> PICK u \in Int : u = l.uid + new
  BY <1>l
<1> PICK a \in Int : a = Api(u)
  BY <1>l DEF Api
<1>u. 1 <= u /\ (a = u \/ a < 0)
  BY <1>l DEF Api
<1> PICK v : v = world'
  OBVIOUS
<1>2. v = Append(world, [uid |-> u, api |-> a, start |-> clock])
  BY DEF Restart
<1>3. /\ clock' = clock /\ cache' = cache /\ rows' = rows
  BY DEF Restart
<1> PICK e \in Incarnation : e = [uid |-> u, api |-> a, start |-> clock]
  BY <1>1 DEF Incarnation
<1>4. /\ v \in Seq(Incarnation) /\ Len(v) = Len(world) + 1 /\ \A i \in 1..Len(world) : v[i] = world[i]
      /\ v[Len(world) + 1] = e
  BY <1>1, <1>2, AppendProperties
<1>5. e.start = clock /\ e.uid = u /\ e.api = a /\ v = Append(world, e)
  BY <1>2
<1>6. WorldInv'
  <2>1. \A i \in 1..Len(v) : i \in 1..Len(world) \/ i = Len(world) + 1
    BY <1>1, <1>4
  <2>2. \A i \in 1..Len(v) : 1 <= v[i].start /\ v[i].start <= clock
    <3>1. 1 <= world[Len(world)].start /\ world[Len(world)].start < clock /\ world[Len(world)].start \in Int
      BY <1>1, StartFacts DEF WorldInv, Restart
    <3>2. 1 <= clock
      BY <1>1, <3>1
    <3> QED BY <1>1, <1>4, <1>5, <2>1, <3>2 DEF WorldInv
  <2>3. \A i, j \in 1..Len(v) : i <= j => v[i].start <= v[j].start
    <3> SUFFICES ASSUME NEW i \in 1..Len(v), NEW j \in 1..Len(v), i <= j PROVE v[i].start <= v[j].start
      OBVIOUS
    <3>1. CASE j = Len(world) + 1
      BY <1>4, <1>5, <2>2, <3>1
    <3>2. CASE j \in 1..Len(world)
      <4>1. i \in 1..Len(world)
        BY <1>1, <2>1, <3>2
      <4> QED BY <1>1, <1>4, <3>2, <4>1 DEF WorldInv
    <3> QED BY <2>1, <3>1, <3>2
  <2>4. v \in Seq(Incarnation) /\ Len(v) >= 1
    BY <1>1, <1>4
  <2>5. \A i \in 1..Len(v) : 1 <= v[i].uid /\ (v[i].api = v[i].uid \/ v[i].api < 0)
    BY <1>1, <1>4, <1>5, <1>u, <2>1 DEF WorldInv
  <2> QED BY <1>1, <1>3, <2>2, <2>3, <2>4, <2>5 DEF WorldInv
<1>7. \A d : /\ DocOf(d, world) => DocOf(d, v)
             /\ \A b \in Int : b <= clock /\ DocOf(d, world) /\ NewestAt(d, world, b) => NewestAt(d, v, b)
  <2> TAKE d
  <2>1. ASSUME DocOf(d, world) PROVE DocOf(d, v)
    BY <1>1, <1>5, <2>1, DocGrows
  <2>2. ASSUME NEW b \in Int, b <= clock, DocOf(d, world), NewestAt(d, world, b) PROVE NewestAt(d, v, b)
    BY <1>1, <1>5, <2>2, NewestGrows
  <2> QED BY <2>1, <2>2
<1>8. ASSUME NEW k \in DOMAIN cache PROVE EntrySound(k, cache[k], v, clock)
  <2>1. EntrySound(k, cache[k], world, clock)
    BY <1>8 DEF AttributionInv
  <2> PICK f \in Int : f = cache[k].fetched
    BY <2>1 DEF EntrySound
  <2>2. f <= clock
    BY <2>1 DEF EntrySound
  <2> QED BY <1>7, <2>1, <2>2 DEF EntrySound
<1>9. ASSUME NEW s \in Scrapers PROVE RowSound(rows[s], v, clock)
  <2> PICK r : r = rows[s]
    OBVIOUS
  <2>1. RowSound(r, world, clock) /\ r \in RowType
    BY DEF AttributionInv, RowSound, RowBase
  <2>2. r.pc # "row" => r.rec \in 1..Len(world) /\ r.rec \in 1..Len(v) /\ v[r.rec] = world[r.rec]
    BY <1>1, <1>4, <2>1 DEF RowSound, RowBase
  <2>21. \A i \in 1..Len(world) : i \in 1..Len(v) /\ v[i] = world[i]
    BY <1>1, <1>4
  <2>3. RowBase(r, v)
    BY <2>1, <2>2, <2>21 DEF RowSound, RowBase, RightPod
  <2>4. RowDone(r, v)
    <3> SUFFICES ASSUME r.pc = "done" PROVE /\ r.doc # None => r.doc.id \in 1..Len(v) /\ RightPod(r.doc, r, v)
                                            /\ r.ctr => r.doc.id \in 1..Len(v) /\ RightContainer(r, v)
      BY DEF RowDone
    <3>1. r.doc # None => r.doc.id \in 1..Len(v) /\ RightPod(r.doc, r, v)
      BY <2>1, <2>2, <2>21 DEF RowSound, RowDone, RightPod
    <3>2. r.ctr => r.doc.id \in 1..Len(world) /\ r.doc.id \in 1..Len(v)
      BY <1>1, <1>4, <2>1 DEF RowSound, RowDone
    <3> QED BY <1>4, <2>1, <3>1, <3>2 DEF RowSound, RowDone, RightContainer
  <2>5. RowAsks(r, v, clock)
    BY <2>1 DEF RowSound, RowAsks
  <2>6. r.pc = "check" => DocOf(r.doc, v) /\ NewestAt(r.doc, v, Horizons(clock))
    <3>1. Horizons(clock) \in Int /\ Horizons(clock) <= clock
      BY <1>1, AttrLimits DEF Horizons
    <3> QED BY <1>7, <2>1, <3>1 DEF RowSound
  <2> QED BY <2>3, <2>4, <2>5, <2>6 DEF RowSound
<1>10. \A s \in Scrapers : RowSound(rows'[s], world', clock')
  BY <1>3, <1>9
<1>11. \A k \in DOMAIN cache' : EntrySound(k, cache'[k], world', clock')
  BY <1>3, <1>8
<1>12. rows' \in [Scrapers -> RowType]
  BY <1>3 DEF AttributionInv
<1> QED BY <1>6, <1>10, <1>11, <1>12 DEF AttributionInv

LEMMA AttributionTickKeeps == ASSUME AttributionInv, AttributionTick PROVE AttributionInv'
<1>1. WorldInv /\ clock \in Int /\ clock' = clock + 1 /\ world' = world /\ cache' = cache /\ rows' = rows
  BY StartFacts DEF AttributionInv, AttributionTick
<1>2. WorldInv'
  <2>1. \A i \in 1..Len(world) : 1 <= world[i].start /\ world[i].start <= clock + 1
    BY <1>1, StartFacts DEF WorldInv
  <2> QED BY <1>1, <2>1 DEF WorldInv
<1>3. \A k \in DOMAIN cache : EntrySound(k, cache[k], world, clock + 1)
  BY <1>1 DEF AttributionInv, EntrySound
<1>4. ASSUME NEW s \in Scrapers PROVE RowSound(rows[s], world, clock + 1)
  <2> PICK r : r = rows[s]
    OBVIOUS
  <2>1. RowSound(r, world, clock) /\ r \in RowType /\ r.began \in Int /\ r.spent \in Int
    BY DEF AttributionInv, RowSound, RowBase, RowType
  <2>2. r.pc \in {"row", "done"} \/ (r.pc \in WaitPcs /\ clock - r.began < Limit - r.spent)
    BY <1>4 DEF AttributionTick, Waiting, WaitPcs, Left
  <2>3. RowAsks(r, world, clock + 1)
    BY <1>1, <2>1, <2>2, AttrLimits DEF RowSound, RowAsks, WaitPcs
  <2>4. r.pc # "check"
    BY <2>2 DEF WaitPcs
  <2> QED BY <2>1, <2>3, <2>4 DEF RowSound
<1>5. rows' \in [Scrapers -> RowType]
  BY <1>1 DEF AttributionInv
<1> QED BY <1>1, <1>2, <1>3, <1>4, <1>5 DEF AttributionInv

LEMMA AttributionStarts == AttributionInit => AttributionInv
<1> SUFFICES ASSUME AttributionInit PROVE AttributionInv
  OBVIOUS
<1>1. clock = 1 /\ rows = [s \in Scrapers |-> Fresh] /\ DOMAIN cache = {}
  BY DEF AttributionInit
<1>11. PICK a \in {1, -1} : world = << [uid |-> 1, api |-> a, start |-> 1] >>
  BY DEF AttributionInit, Api
<1>2. /\ world \in Seq(Incarnation) /\ Len(world) = 1 /\ world[1].start = 1 /\ world[1].uid = 1
      /\ world[1].api \in {1, -1}
  BY <1>11 DEF Incarnation
<1>3. WorldInv
  BY <1>1, <1>2 DEF WorldInv
<1>4. \A s \in Scrapers : RowSound(rows[s], world, clock) /\ rows[s] = Fresh
  BY <1>1, FreshSound
<1>5. Fresh \in RowType
  BY FreshSound DEF RowSound, RowBase
<1>6. rows \in [Scrapers -> RowType]
  BY <1>1, <1>5
<1> QED BY <1>1, <1>3, <1>4, <1>6 DEF AttributionInv

LEMMA AttributionKeeps == AttributionInv /\ [AttributionNext]_attrVars => AttributionInv'
<1> SUFFICES ASSUME AttributionInv, [AttributionNext]_attrVars PROVE AttributionInv'
  OBVIOUS
<1>1. CASE UNCHANGED attrVars
  BY <1>1 DEF AttributionInv, WorldInv, attrVars
<1>2. ASSUME NEW s \in Scrapers, NEW sh \in Shapes[s], Row(s, sh) PROVE AttributionInv'
  BY <1>2, RowKeeps
<1>3. ASSUME NEW s \in Scrapers, \/ Cached(s) \/ Shed(s) \/ Ask(s) \/ Answer(s) \/ LookupExpires(s)
                                 \/ CheckIncarnation(s) \/ DropAgain(s) \/ NextScrape(s)
      PROVE  AttributionInv'
  BY <1>3, CachedKeeps, ShedKeeps, AskKeeps, LookupAnswerKeeps, ExpiresKeeps, CheckKeeps, DropAgainKeeps, NextScrapeKeeps
<1>4. CASE \E new \in {0, 1} : Restart(new)
  BY <1>4, RestartKeeps
<1>5. CASE AttributionTick
  BY <1>5, AttributionTickKeeps
<1> QED BY <1>1, <1>2, <1>3, <1>4, <1>5 DEF AttributionNext

\* For any number of scrapes, shapes of rows, restarts, lookups and evictions, and any
\* window, lifetime of a cached document, allowance and lag: a row is exported under the
\* pod it is about or under none; under a container's earlier incarnation only by a
\* document that has no state, or that was out of date on arrival by more than the window
\* exceeds the lifetime; a scrape's lookups stay within their allowance and each object it
\* could not look up counts once
\* (identityOf, resolveContextCreated, containerIncarnation, podMeta, metaLookup).
THEOREM AttributionAlwaysTrue == AttributionSpec => []AttributionTrue
<1>1. AttributionInv => AttributionTrue
  <2> SUFFICES ASSUME AttributionInv, NEW s \in Scrapers
               PROVE  LET r  == rows[s]
                          id == IdentityOf(r.shape)
                      IN  /\ r.pc = "done" /\ r.doc # None /\ "uid" \in id => world[r.doc.id].uid = world[r.rec].uid
                          /\ r.pc = "done" /\ r.ctr /\ LookupContainerID(id) => r.doc.id = r.rec
                          /\ r.pc = "done" /\ r.ctr /\ r.created # 0 /\ r.doc.state # "none" /\ ~TooLate(r.doc)
                               => world[r.doc.id].start >= r.created
                          /\ r.spent <= Limit /\ r.sheds = Cardinality(r.shed)
    BY DEF AttributionTrue
  <2>1. RowBase(rows[s], world) /\ RowDone(rows[s], world)
    BY DEF AttributionInv, RowSound
  <2> QED BY <2>1 DEF RowBase, RowDone, RightPod, RightContainer
<1> QED BY <1>1, AttributionStarts, AttributionKeeps, PTL DEF AttributionSpec

-----------------------------------------------------------------------------
(* The container sampler.                                                    *)

HeldType == [ok : BOOLEAN, n : Int]
ContainerType ==
  [dir : Dirs, open : BOOLEAN, gone : BOOLEAN, prevDir : {0} \cup Dirs, cpu : Int, mem : Int,
   heldCPU : HeldType, heldMem : HeldType, tried : BOOLEAN, readOK : BOOLEAN, dead : Int,
   described : BOOLEAN, atShutdown : BOOLEAN]
PendingType ==
  [dir : Dirs, firstFail : Int, lastTry : Int, nextTry : Int, gaveUp : BOOLEAN, unreadable : BOOLEAN]

\* Descriptors are held until it is gone, and the last reading is of its own directory.
ContainerOK(c) == c \in ContainerType /\ c.open = ~c.gone /\ c.prevDir \in {0, c.dir}

SamplerTypes ==
  /\ hierarchy \in [ContainerIds -> SUBSET Dirs] /\ found \in [ContainerIds -> {0} \cup Dirs]
  /\ DOMAIN tracked = ContainerIds /\ pass \in Int /\ pass >= 0
  /\ pendingIds \in [ContainerIds -> PendingType \cup {NoPending}]
  /\ DOMAIN over = ContainerIds

HomeInv ==
  /\ \A i \in ContainerIds : tracked[i] = NoContainer \/ ContainerOK(tracked[i])
  /\ \A i \in ContainerIds : tracked[i] = NoContainer \/ pendingIds[i] = NoPending
  /\ Cardinality(Live) <= MaxTracked /\ ~mixed

\* Whoever was offered while i waited stands behind it now.
TurnOf(i, p, v, t) ==
  /\ p[i] = NoPending => v[i] = {}
  /\ p[i] # NoPending => p[i].lastTry <= t /\ (v[i] # {} => p[i].lastTry < t)
  /\ p[i] # NoPending => \A j \in v[i] \cap ContainerIds : p[j] # NoPending => p[i].lastTry < p[j].lastTry

\* What is due in a pass was not tried in it.
TodoInv ==
  /\ phase # "resolving" => DOMAIN todo = {}
  /\ \A i \in DOMAIN todo : /\ i \in ContainerIds /\ pendingIds[i] # NoPending
                            /\ todo[i] = pendingIds[i].lastTry /\ todo[i] < pass
  /\ phase \in {"walked", "reconciled"} => \A i \in DueIds : pendingIds[i].lastTry < pass

TurnInv == TodoInv /\ ~overtaken /\ \A i \in ContainerIds : TurnOf(i, pendingIds, over, pass)

SamplerInv == SamplerTypes /\ HomeInv /\ TurnInv

LEMMA ContainerFacts ==
  ASSUME NEW c, ContainerOK(c)
  PROVE  c # NoContainer /\ c.gone \in BOOLEAN /\ c.open = ~c.gone
BY DEF ContainerOK, ContainerType, NoContainer, Dirs

LEMMA PendingFacts ==
  ASSUME NEW p \in PendingType
  PROVE  /\ p # NoPending /\ p.lastTry \in Int /\ p.nextTry \in Int /\ p.firstFail \in Int /\ p.gaveUp \in BOOLEAN
         /\ p.dir \in Dirs /\ p.unreadable \in BOOLEAN
BY DEF PendingType, NoPending, Dirs

LEMMA MarkGoneOK ==
  ASSUME NEW c, ContainerOK(c)
  PROVE  ContainerOK(MarkGone(c)) /\ MarkGone(c).gone
BY DEF ContainerOK, ContainerType, MarkGone

LEMMA ShutOK ==
  ASSUME NEW c, ContainerOK(c), NEW b \in BOOLEAN
  PROVE  LET y == [MarkGone(c) EXCEPT !.atShutdown = b] IN ContainerOK(y) /\ y.gone
<1> PICK m : m = MarkGone(c)
  OBVIOUS
<1>1. ContainerOK(m) /\ m.gone
  BY MarkGoneOK
<1> PICK y : y = [m EXCEPT !.atShutdown = b]
  OBVIOUS
<1>2. ContainerOK(y) /\ y.gone
  BY <1>1 DEF ContainerOK, ContainerType
<1> QED BY <1>2

LEMMA NotHeldType == NotHeld \in HeldType
<1>1. 0 \in Int /\ FALSE \in BOOLEAN
  OBVIOUS
<1> QED BY <1>1 DEF NotHeld, HeldType

LEMMA RepointedOK ==
  ASSUME NEW c, ContainerOK(c), ~c.gone, NEW d \in Dirs
  PROVE  ContainerOK(Repointed(c, d)) /\ ~Repointed(c, d).gone
<1> PICK z \in Int : z = 0
  OBVIOUS
<1> PICK h \in HeldType : h = NotHeld
  BY NotHeldType
<1> PICK y : y = [c EXCEPT !.dir = d, !.open = TRUE, !.cpu = z, !.mem = z, !.heldCPU = h, !.heldMem = h, !.prevDir = z]
  OBVIOUS
<1>1. y = Repointed(c, d)
  BY DEF Repointed
<1>2. c \in ContainerType /\ z \in {0} \cup Dirs /\ TRUE \in BOOLEAN
  BY DEF ContainerOK
<1>3. y \in ContainerType /\ y.open = TRUE /\ y.gone = c.gone /\ y.prevDir = z
  BY <1>2 DEF ContainerType
<1> QED BY <1>1, <1>3 DEF ContainerOK

LEMMA NewContainerOK ==
  ASSUME NEW d \in Dirs
  PROVE  ContainerOK(NewContainer(d)) /\ ~NewContainer(d).gone
<1> PICK h \in HeldType : h = NotHeld
  BY NotHeldType
<1> PICK z \in Int : z = 0
  OBVIOUS
<1> PICK y : y = [dir |-> d, open |-> TRUE, gone |-> FALSE, prevDir |-> z, cpu |-> z, mem |-> z,
                  heldCPU |-> h, heldMem |-> h, tried |-> FALSE, readOK |-> FALSE, dead |-> z,
                  described |-> FALSE, atShutdown |-> FALSE]
  OBVIOUS
<1>1. y = NewContainer(d)
  BY DEF NewContainer
<1>2. z \in {0} \cup Dirs
  OBVIOUS
<1>3. y \in ContainerType
  BY <1>2 DEF ContainerType
<1>4. y.open = TRUE /\ y.gone = FALSE /\ y.prevDir = z
  OBVIOUS
<1> QED BY <1>1, <1>3, <1>4 DEF ContainerOK

LEMMA SampleOneOK ==
  ASSUME NEW c, ContainerOK(c), NEW r \in {"later", "soon", "reset", "error"}, NEW m \in BOOLEAN
  PROVE  LET y == SampleOne(c, r, m) IN ContainerOK(y) /\ y.gone = c.gone
<1>1. c \in ContainerType /\ c.cpu \in Int /\ c.mem \in Int /\ c.readOK \in BOOLEAN /\ c.dir \in Dirs /\ c.prevDir \in {0} \cup Dirs
  BY DEF ContainerOK, ContainerType
<1> PICK a \in Int : a = IF r = "later" /\ c.prevDir # 0 THEN UpTo2(c.cpu) ELSE c.cpu
  BY <1>1 DEF UpTo2
<1> PICK b \in Int : b = IF m THEN UpTo2(c.mem) ELSE c.mem
  BY <1>1 DEF UpTo2
<1> PICK o \in BOOLEAN : o = (c.readOK \/ r # "error" \/ m)
  OBVIOUS
<1> PICK d \in {c.prevDir, c.dir} : d = IF r = "error" \/ (r = "soon" /\ c.prevDir # 0) THEN c.prevDir ELSE c.dir
  OBVIOUS
<1> PICK y : y = [c EXCEPT !.tried = TRUE, !.readOK = o, !.cpu = a, !.prevDir = d, !.mem = b]
  OBVIOUS
<1>2. y = SampleOne(c, r, m)
  BY DEF SampleOne
<1>3. d \in {0} \cup Dirs /\ TRUE \in BOOLEAN /\ o \in BOOLEAN /\ a \in Int /\ b \in Int
  BY <1>1
<1>4. y \in ContainerType /\ y.open = c.open /\ y.gone = c.gone /\ y.prevDir = d /\ y.dir = c.dir
  <2>1. c \in ContainerType /\ y = [c EXCEPT !.tried = TRUE, !.readOK = o, !.cpu = a, !.prevDir = d, !.mem = b]
    BY <1>1
  <2> QED BY ONLY <1>3, <2>1 DEF ContainerType
<1> QED BY <1>2, <1>4 DEF ContainerOK

LEMMA FinishType ==
  ASSUME NEW n \in Int, NEW h \in HeldType
  PROVE  Finish(n, h).h \in HeldType /\ Finish(n, h).emit \in BOOLEAN
<1>1. h.n + 1 \in Int /\ NotHeld \in HeldType
  BY DEF HeldType, NotHeld
<1>2. [ok |-> TRUE, n |-> 0] \in HeldType /\ [ok |-> TRUE, n |-> h.n + 1] \in HeldType
  BY <1>1 DEF HeldType
<1> QED BY <1>1, <1>2 DEF Finish

LEMMA EndWindowOK ==
  ASSUME NEW c, ContainerOK(c)
  PROVE  ContainerOK(EndWindow(c)) /\ EndWindow(c).gone = c.gone
<1>1. /\ c \in ContainerType /\ c.cpu \in Int /\ c.mem \in Int /\ c.readOK \in BOOLEAN /\ c.tried \in BOOLEAN
      /\ c.heldCPU \in HeldType /\ c.heldMem \in HeldType /\ c.described \in BOOLEAN /\ c.dead \in Int
  BY DEF ContainerOK, ContainerType
<1> PICK a : a = Finish(c.cpu, c.heldCPU)
  OBVIOUS
<1> PICK b : b = Finish(c.mem, c.heldMem)
  OBVIOUS
<1>2. a.h \in HeldType /\ b.h \in HeldType /\ a.emit \in BOOLEAN /\ b.emit \in BOOLEAN
  BY <1>1, FinishType
<1> PICK g \in HeldType : g = a.h
  BY <1>2
<1> PICK h \in HeldType : h = b.h
  BY <1>2
<1> PICK e \in BOOLEAN : e = (c.described \/ a.emit \/ b.emit)
  OBVIOUS
<1> PICK z \in Int : z = 0
  OBVIOUS
<1> PICK w \in Int : w = DeadWindows(c)
  BY <1>1 DEF DeadWindows
<1> PICK y : y = [c EXCEPT !.heldCPU = g, !.heldMem = h, !.described = e, !.cpu = z, !.mem = z, !.tried = FALSE,
                           !.readOK = FALSE, !.dead = w]
  OBVIOUS
<1>3. y = EndWindow(c)
  BY DEF EndWindow
<1>4. FALSE \in BOOLEAN
  OBVIOUS
<1>5. y \in ContainerType /\ y.open = c.open /\ y.gone = c.gone /\ y.prevDir = c.prevDir /\ y.dir = c.dir
  <2>1. y = [c EXCEPT !.heldCPU = g, !.heldMem = h, !.described = e, !.cpu = z, !.mem = z, !.tried = FALSE,
                      !.readOK = FALSE, !.dead = w]
    OBVIOUS
  <2>2. c \in ContainerType
    BY <1>1
  <2> QED BY ONLY <1>4, <2>1, <2>2, g \in HeldType, h \in HeldType, e \in BOOLEAN, z \in Int, w \in Int DEF ContainerType
<1> QED BY <1>3, <1>5 DEF ContainerOK

\* No step but track adds to what is live.
LEMMA LiveKept ==
  ASSUME SamplerInv, Live' \subseteq Live
  PROVE  Cardinality(Live') <= MaxTracked
<1>1. IsFiniteSet(Live)
  <2>1. Live \subseteq ContainerIds /\ IsFiniteSet(ContainerIds)
    BY CgAssumption DEF Live, Tracked
  <2> QED BY <2>1, FS_Subset
<1>2. Cardinality(Live') <= Cardinality(Live) /\ Cardinality(Live') \in Nat /\ Cardinality(Live) \in Nat
  BY <1>1, FS_Subset, FS_CardinalityType
<1> QED BY <1>2, CgAssumption DEF SamplerInv, HomeInv

\* Steps that leave the pending set and the turns alone.
LEMMA TurnsKept ==
  ASSUME SamplerInv, UNCHANGED <<pendingIds, loopVars>>
  PROVE  TurnInv'
BY DEF SamplerInv, TurnInv, TodoInv, TurnOf, loopVars, DueIds, Pending, Due

LEMMA HierarchyKeeps ==
  ASSUME SamplerInv, NEW i \in ContainerIds, (\E d \in Dirs : DirAppears(i, d)) \/ ContainerExits(i)
  PROVE  SamplerInv'
<1>1. /\ UNCHANGED <<tracked, pendingIds, loopVars, mixed>> /\ hierarchy' \in [ContainerIds -> SUBSET Dirs]
  BY DEF DirAppears, ContainerExits, SamplerInv, SamplerTypes
<1>2. SamplerTypes'
  BY <1>1 DEF SamplerInv, SamplerTypes, loopVars
<1>3. HomeInv'
  BY <1>1 DEF SamplerInv, HomeInv, Live, Tracked
<1>4. TurnInv'
  BY <1>1, TurnsKept
<1> QED BY <1>2, <1>3, <1>4 DEF SamplerInv

LEMMA BestType == ASSUME NEW h \in SUBSET Dirs PROVE Best(h) \in {0} \cup Dirs
BY DEF Best, Dirs

LEMMA WalkKeeps == ASSUME SamplerInv, CgWalk PROVE SamplerInv'
<1>1. /\ UNCHANGED <<hierarchy, tracked, pendingIds, todo, over, overtaken, mixed>> /\ phase = "idle" /\ pass' = pass + 1
      /\ phase' \in {"idle", "walked"}
  BY DEF CgWalk
<1>2. found' \in [ContainerIds -> {0} \cup Dirs]
  <2>1. \A i \in ContainerIds : Best(hierarchy[i]) \in {0} \cup Dirs
    BY BestType DEF SamplerInv, SamplerTypes
  <2> QED BY <2>1 DEF CgWalk, SamplerInv, SamplerTypes
<1>3. SamplerTypes'
  BY <1>1, <1>2 DEF SamplerInv, SamplerTypes
<1>4. HomeInv'
  BY <1>1 DEF SamplerInv, HomeInv, Live, Tracked
<1>5. \A i \in ContainerIds : pendingIds[i] # NoPending => pendingIds[i].lastTry \in Int /\ pendingIds[i].lastTry < pass + 1
  <2> TAKE i \in ContainerIds
  <2>1. pendingIds[i] # NoPending => pendingIds[i] \in PendingType /\ pendingIds[i].lastTry <= pass /\ pass \in Int
    BY DEF SamplerInv, SamplerTypes, TurnInv, TurnOf
  <2> QED BY <2>1, PendingFacts
<1>6. TodoInv'
  <2>1. DOMAIN todo = {}
    BY <1>1 DEF SamplerInv, TurnInv, TodoInv
  <2>2. \A i \in DueIds' : i \in ContainerIds /\ pendingIds[i] # NoPending
    BY <1>1 DEF DueIds, Pending
  <2> QED BY <1>1, <1>5, <2>1, <2>2 DEF TodoInv
<1>7. \A i \in ContainerIds : TurnOf(i, pendingIds', over', pass')
  <2> TAKE i \in ContainerIds
  <2>1. TurnOf(i, pendingIds, over, pass) /\ pass \in Int
    BY DEF SamplerInv, TurnInv, SamplerTypes
  <2> QED BY <1>1, <1>5, <2>1 DEF TurnOf
<1>8. TurnInv'
  BY <1>1, <1>6, <1>7 DEF SamplerInv, TurnInv
<1> QED BY <1>3, <1>4, <1>8 DEF SamplerInv

LEMMA ReconcileKeeps == ASSUME SamplerInv, NEW opens \in BOOLEAN, Reconcile(opens) PROVE SamplerInv'
<1>1. /\ UNCHANGED <<hierarchy, found, todo, pass, overtaken, mixed>> /\ phase = "walked" /\ phase' = "reconciled"
      /\ over' = [i \in ContainerIds |-> IF pendingIds'[i] = NoPending THEN {} ELSE over[i] \ Admitted]
  BY DEF Reconcile
<1>2. DOMAIN tracked' = ContainerIds /\ DOMAIN pendingIds' = ContainerIds /\ DOMAIN over' = ContainerIds
  BY <1>1 DEF Reconcile
<1>3. Admitted \subseteq NewlyFound
  BY DEF Admitted
<1>4. ASSUME NEW i \in ContainerIds
      PROVE  /\ tracked'[i] = NoContainer \/ ContainerOK(tracked'[i])
             /\ (tracked'[i] = NoContainer) = (tracked[i] = NoContainer)
             /\ tracked[i] # NoContainer /\ tracked[i].gone => tracked'[i].gone
  <2>1. tracked[i] = NoContainer \/ ContainerOK(tracked[i])
    BY DEF SamplerInv, HomeInv
  <2>2. CASE ~AlreadyKnown(i)
    BY <1>4, <2>1, <2>2 DEF Reconcile, AlreadyKnown
  <2>3. CASE AlreadyKnown(i)
    <3>1. ContainerOK(tracked[i]) /\ tracked[i] # NoContainer /\ tracked[i].gone \in BOOLEAN
      BY <2>1, <2>3, ContainerFacts DEF AlreadyKnown
    <3>2. ContainerOK(MarkGone(tracked[i])) /\ MarkGone(tracked[i]) # NoContainer /\ MarkGone(tracked[i]).gone
      BY <3>1, MarkGoneOK, ContainerFacts
    <3>3. ~tracked[i].gone /\ Improves(tracked[i].dir, i)
            => ContainerOK(Repointed(tracked[i], found[i])) /\ Repointed(tracked[i], found[i]) # NoContainer
      BY <3>1, RepointedOK, ContainerFacts DEF Improves, SamplerInv, SamplerTypes
    <3>4. tracked'[i] = IF complete /\ found[i] = 0 THEN MarkGone(tracked[i])
                        ELSE IF ~tracked[i].gone /\ Improves(tracked[i].dir, i) /\ opens THEN Repointed(tracked[i], found[i])
                        ELSE tracked[i]
      BY <1>4, <2>3 DEF Reconcile
    <3> QED BY <3>1, <3>2, <3>3, <3>4
  <2> QED BY <2>2, <2>3
<1>5. ASSUME NEW i \in ContainerIds
      PROVE  \/ i \in Admitted /\ pendingIds'[i] \in PendingType /\ pendingIds'[i].lastTry = -1 /\ pendingIds[i] = NoPending
                 /\ tracked[i] = NoContainer
             \/ pendingIds'[i] = NoPending
             \/ /\ i \notin Admitted /\ pendingIds[i] \in PendingType /\ pendingIds'[i] \in PendingType
                /\ pendingIds'[i].lastTry = pendingIds[i].lastTry /\ pendingIds'[i].gaveUp = pendingIds[i].gaveUp
                /\ pendingIds'[i].nextTry = pendingIds[i].nextTry
  <2>1. pendingIds[i] = NoPending \/ pendingIds[i] \in PendingType
    BY DEF SamplerInv, SamplerTypes
  <2>2. CASE i \in Admitted
    <3>1. pendingIds[i] = NoPending /\ tracked[i] = NoContainer /\ found[i] \in Dirs
      BY <1>3, <2>2 DEF NewlyFound, AlreadyKnown, SamplerInv, SamplerTypes
    <3>2. pendingIds'[i] = NewPending(found[i])
      BY <1>5, <2>2 DEF Reconcile
    <3>3. NewPending(found[i]) \in PendingType /\ NewPending(found[i]).lastTry = -1
      BY <3>1 DEF NewPending, PendingType
    <3> QED BY <2>2, <3>1, <3>2, <3>3
  <2>3. CASE i \notin Admitted
    <3>1. pendingIds'[i] = IF pendingIds[i] = NoPending \/ (complete /\ found[i] = 0) THEN NoPending
                           ELSE IF Improves(pendingIds[i].dir, i) THEN [pendingIds[i] EXCEPT !.dir = found[i]]
                           ELSE pendingIds[i]
      BY <1>5, <2>3 DEF Reconcile
    <3> PICK p : p = pendingIds[i]
      OBVIOUS
    <3>2. ASSUME p \in PendingType, found[i] \in Dirs, NEW q, q = [p EXCEPT !.dir = found[i]]
          PROVE  q \in PendingType /\ q.lastTry = p.lastTry /\ q.gaveUp = p.gaveUp /\ q.nextTry = p.nextTry
      BY <3>2 DEF PendingType
    <3>3. Improves(p.dir, i) => found[i] \in Dirs
      BY DEF Improves, SamplerInv, SamplerTypes
    <3> QED BY <2>1, <2>3, <3>1, <3>2, <3>3
  <2> QED BY <2>2, <2>3
<1>6. SamplerTypes'
  <2>1. \A i \in ContainerIds : pendingIds'[i] \in PendingType \cup {NoPending}
    BY <1>5
  <2>2. pendingIds' = [i \in ContainerIds |-> pendingIds'[i]]
    BY DEF Reconcile
  <2>3. pendingIds' \in [ContainerIds -> PendingType \cup {NoPending}]
    BY <2>1, <2>2
  <2> QED BY <1>1, <1>2, <2>3 DEF SamplerInv, SamplerTypes
<1>7. HomeInv'
  <2>1. Live' \subseteq Live
    BY <1>4 DEF Live, Tracked
  <2>2. \A i \in ContainerIds : tracked'[i] = NoContainer \/ pendingIds'[i] = NoPending
    <3> TAKE i \in ContainerIds
    <3>1. tracked[i] = NoContainer \/ pendingIds[i] = NoPending
      BY DEF SamplerInv, HomeInv
    <3> QED BY <1>4, <1>5, <3>1, PendingFacts
  <2> QED BY <1>1, <1>4, <2>1, <2>2, LiveKept DEF HomeInv, SamplerInv
<1>8. TodoInv'
  <2>1. DOMAIN todo = {} /\ pass \in Int /\ pass >= 0
    BY <1>1 DEF SamplerInv, TurnInv, TodoInv, SamplerTypes
  <2>2. ASSUME NEW i \in DueIds' PROVE pendingIds'[i].lastTry < pass
    <3>1. i \in ContainerIds /\ pendingIds'[i] # NoPending /\ (~pendingIds'[i].gaveUp \/ pass >= pendingIds'[i].nextTry)
      BY <1>1, <2>2 DEF DueIds, Pending, Due
    <3>2. CASE pendingIds'[i].lastTry = -1
      BY <2>1, <3>2
    <3>3. CASE pendingIds'[i].lastTry # -1
      <4>1. i \in DueIds /\ pendingIds'[i].lastTry = pendingIds[i].lastTry
        BY <1>5, <3>1, <3>3, PendingFacts DEF DueIds, Pending, Due
      <4> QED BY <1>1, <4>1 DEF SamplerInv, TurnInv, TodoInv
    <3> QED BY <3>2, <3>3
  <2> QED BY <1>1, <2>1, <2>2 DEF TodoInv
<1>9. ASSUME NEW i \in ContainerIds PROVE TurnOf(i, pendingIds', over', pass)
  <2>1. TurnOf(i, pendingIds, over, pass) /\ pass \in Int /\ pass >= 0
    BY DEF SamplerInv, TurnInv, SamplerTypes
  <2>2. over'[i] = IF pendingIds'[i] = NoPending THEN {} ELSE over[i] \ Admitted
    BY <1>1
  <2>3. CASE pendingIds'[i] = NoPending
    BY <2>2, <2>3 DEF TurnOf
  <2>4. CASE pendingIds'[i] # NoPending /\ i \in Admitted
    <3>1. pendingIds[i] = NoPending /\ pendingIds'[i].lastTry = -1
      BY <1>5, <2>4
    <3>2. over'[i] = {}
      BY <2>1, <2>2, <3>1 DEF TurnOf
    <3> QED BY <2>1, <2>4, <3>1, <3>2 DEF TurnOf
  <2>5. CASE pendingIds'[i] # NoPending /\ i \notin Admitted
    <3>1. pendingIds[i] # NoPending /\ pendingIds'[i].lastTry = pendingIds[i].lastTry
      BY <1>5, <2>5, PendingFacts
    <3>2. ASSUME NEW j \in over'[i] \cap ContainerIds, pendingIds'[j] # NoPending
          PROVE  pendingIds'[i].lastTry < pendingIds'[j].lastTry
      <4>1. j \in over[i] \cap ContainerIds /\ j \notin Admitted
        BY <2>2, <2>5, <3>2
      <4>2. pendingIds[j] # NoPending /\ pendingIds'[j].lastTry = pendingIds[j].lastTry
        BY <1>5, <3>2, <4>1, PendingFacts
      <4> QED BY <2>1, <3>1, <4>1, <4>2 DEF TurnOf
    <3>3. over'[i] # {} => over[i] # {}
      BY <2>2
    <3> QED BY <2>1, <2>5, <3>1, <3>2, <3>3 DEF TurnOf
  <2> QED BY <2>3, <2>4, <2>5
<1>10. TurnInv'
  BY <1>1, <1>8, <1>9 DEF SamplerInv, TurnInv
<1> QED BY <1>6, <1>7, <1>10 DEF SamplerInv

LEMMA TakeTodoKeeps == ASSUME SamplerInv, TakeTodo PROVE SamplerInv'
<1>1. /\ UNCHANGED <<hierarchy, found, tracked, pendingIds, pass, over, overtaken, mixed>>
      /\ phase = "reconciled" /\ phase' = "resolving" /\ todo' = [i \in DueIds |-> pendingIds[i].lastTry]
  BY DEF TakeTodo
<1>2. SamplerTypes' /\ HomeInv'
  BY <1>1 DEF SamplerInv, SamplerTypes, HomeInv, Live, Tracked
<1>3. TodoInv'
  <2>1. \A i \in DueIds : i \in ContainerIds /\ pendingIds[i] # NoPending /\ pendingIds[i].lastTry < pass
    BY <1>1 DEF SamplerInv, TurnInv, TodoInv, DueIds, Pending
  <2> QED BY <1>1, <2>1 DEF TodoInv
<1>4. TurnInv'
  BY <1>1, <1>3 DEF SamplerInv, TurnInv
<1> QED BY <1>2, <1>4 DEF SamplerInv

LEMMA EndPassKeeps == ASSUME SamplerInv, EndPass PROVE SamplerInv'
<1>1. /\ UNCHANGED <<hierarchy, found, tracked, pendingIds, pass, over, overtaken, mixed>>
      /\ phase' = "idle" /\ DOMAIN todo' = {}
  BY DEF EndPass, Nothing
<1>2. SamplerTypes' /\ HomeInv'
  BY <1>1 DEF SamplerInv, SamplerTypes, HomeInv, Live, Tracked
<1>3. TurnInv'
  BY <1>1 DEF SamplerInv, TurnInv, TodoInv
<1> QED BY <1>2, <1>3 DEF SamplerInv

LEMMA FailedFacts ==
  ASSUME pass \in Int, NEW p \in PendingType, NEW a \in BOOLEAN
  PROVE  Failed(p, a) \in PendingType /\ Failed(p, a).lastTry = pass
<1>1. p.firstFail \in Int /\ p.gaveUp \in BOOLEAN /\ p.nextTry \in Int
  BY PendingFacts
<1> PICK f \in Int : f = IF a /\ p.firstFail = -1 THEN pass ELSE p.firstFail
  BY <1>1
<1> PICK q \in BOOLEAN : q = (p.gaveUp \/ (a /\ pass - f >= MaxUnresolvedAge))
  OBVIOUS
<1> PICK n \in Int : n = IF ~q THEN p.nextTry ELSE IF a THEN pass + AbandonRetryEvery ELSE pass + ReconsiderEvery
  BY <1>1, CgAssumption
<1> PICK y : y = [p EXCEPT !.lastTry = pass, !.unreadable = FALSE, !.firstFail = f, !.gaveUp = q, !.nextTry = n]
  OBVIOUS
<1>2. y = Failed(p, a)
  BY DEF Failed
<1>3. y \in PendingType /\ y.lastTry = pass
  BY DEF PendingType
<1> QED BY <1>2, <1>3

\* A lookup ends with the container tracked, or tried in this pass.
LEMMA ResolveOutcome ==
  ASSUME SamplerInv, NEW i \in DOMAIN todo, NEW o, Resolve(i, o)
  PROVE  /\ \A j \in ContainerIds \ {i} : tracked'[j] = tracked[j] /\ pendingIds'[j] = pendingIds[j]
         /\ DOMAIN tracked' = ContainerIds /\ DOMAIN pendingIds' = ContainerIds
         /\ \/ /\ pendingIds'[i] = NoPending /\ ContainerOK(tracked'[i])
               /\ Cardinality(Live) < MaxTracked
            \/ /\ pendingIds'[i] \in PendingType /\ pendingIds'[i].lastTry = pass /\ tracked'[i] = tracked[i]
<1>1. /\ i \in ContainerIds /\ pendingIds[i] # NoPending /\ pendingIds[i] \in PendingType /\ pass \in Int
      /\ DOMAIN tracked = ContainerIds /\ DOMAIN pendingIds = ContainerIds
  BY DEF SamplerInv, SamplerTypes, TurnInv, TodoInv
<1>2. CASE o \notin {"resolved", "unreadable"}
  <2>1. pendingIds' = [pendingIds EXCEPT ![i] = Failed(pendingIds[i], o = "unknown")] /\ tracked' = tracked
    BY <1>1, <1>2 DEF Resolve
  <2>2. (o = "unknown") \in BOOLEAN
    OBVIOUS
  <2>3. Failed(pendingIds[i], o = "unknown") \in PendingType /\ Failed(pendingIds[i], o = "unknown").lastTry = pass
    BY <1>1, <2>2, FailedFacts
  <2> QED BY <1>1, <2>1, <2>3
<1>3. CASE o \in {"resolved", "unreadable"}
  <2>1. TrackedOf(i, o = "resolved")
    BY <1>1, <1>3 DEF Resolve
  <2>2. CASE Cardinality(Live) < MaxTracked /\ o = "resolved"
    <3>1. /\ tracked' = [tracked EXCEPT ![i] = NewContainer(pendingIds[i].dir)]
          /\ pendingIds' = [pendingIds EXCEPT ![i] = NoPending]
      BY <2>1, <2>2 DEF TrackedOf
    <3>2. ContainerOK(NewContainer(pendingIds[i].dir))
      BY <1>1, PendingFacts, NewContainerOK
    <3> QED BY <1>1, <2>2, <3>1, <3>2
  <2>3. CASE ~(Cardinality(Live) < MaxTracked /\ o = "resolved")
    <3> PICK p \in PendingType : p = pendingIds[i]
      BY <1>1
    <3> PICK c : c = (Cardinality(Live) >= MaxTracked)
      OBVIOUS
    <3> PICK w \in Int : w = IF c THEN ReconsiderEvery ELSE AbandonRetryEvery
      BY CgAssumption
    <3> PICK u \in BOOLEAN : u = IF c THEN p.unreadable ELSE TRUE
      BY PendingFacts
    <3> PICK n \in Int : n = IF p.gaveUp THEN pass + w ELSE p.nextTry
      BY <1>1, PendingFacts
    <3> PICK y : y = [p EXCEPT !.lastTry = pass, !.unreadable = u, !.nextTry = n]
      OBVIOUS
    <3>1. /\ pendingIds' = [pendingIds EXCEPT ![i].lastTry = pass,
                              ![i].unreadable = IF Cardinality(Live) >= MaxTracked THEN @ ELSE TRUE,
                              ![i].nextTry = IF pendingIds[i].gaveUp
                                             THEN pass + (IF Cardinality(Live) >= MaxTracked THEN ReconsiderEvery ELSE AbandonRetryEvery)
                                             ELSE @]
          /\ tracked' = tracked
      BY <2>1, <2>3 DEF TrackedOf
    <3>2. pendingIds' = [pendingIds EXCEPT ![i] = y]
      BY <1>1, <3>1
    <3>3. y \in PendingType /\ y.lastTry = pass
      BY <1>1 DEF PendingType
    <3> QED BY <1>1, <3>1, <3>2, <3>3
  <2> QED BY <2>2, <2>3
<1> QED BY <1>2, <1>3

LEMMA ResolveKeeps == ASSUME SamplerInv, NEW i \in DOMAIN todo, NEW o, Resolve(i, o) PROVE SamplerInv'
<1>1. /\ UNCHANGED <<hierarchy, phase, found, pass, mixed>> /\ phase = "resolving"
      /\ todo' = [j \in DOMAIN todo \ {i} |-> todo[j]]
      /\ over' = [j \in ContainerIds |-> IF j = i THEN {} ELSE IF j \in DOMAIN todo \ {i} THEN over[j] \cup {i} ELSE over[j]]
      /\ overtaken' = (overtaken \/ \E j \in DOMAIN todo \ {i} : i \in over[j])
      /\ \A j \in DOMAIN todo \ {i} : OfferedBefore(i, j)
  BY DEF Resolve
<1>2. /\ i \in ContainerIds /\ pendingIds[i] # NoPending /\ pass \in Int
      /\ \A j \in DOMAIN todo : /\ j \in ContainerIds /\ pendingIds[j] # NoPending /\ pendingIds[j] \in PendingType
                                /\ todo[j] = pendingIds[j].lastTry /\ todo[j] < pass /\ todo[j] \in Int
  <2>1. \A j \in DOMAIN todo : /\ j \in ContainerIds /\ pendingIds[j] # NoPending
                               /\ todo[j] = pendingIds[j].lastTry /\ todo[j] < pass
    BY DEF SamplerInv, TurnInv, TodoInv
  <2>2. \A j \in DOMAIN todo : pendingIds[j] \in PendingType
    BY <2>1 DEF SamplerInv, SamplerTypes
  <2>3. pass \in Int
    BY DEF SamplerInv, SamplerTypes
  <2> QED BY <2>1, <2>2, <2>3, PendingFacts
<1>3. /\ \A j \in ContainerIds \ {i} : tracked'[j] = tracked[j] /\ pendingIds'[j] = pendingIds[j]
      /\ DOMAIN tracked' = ContainerIds /\ DOMAIN pendingIds' = ContainerIds
      /\ \/ /\ pendingIds'[i] = NoPending /\ ContainerOK(tracked'[i])
            /\ Cardinality(Live) < MaxTracked
         \/ /\ pendingIds'[i] \in PendingType /\ pendingIds'[i].lastTry = pass /\ tracked'[i] = tracked[i]
  BY ResolveOutcome
<1>4. SamplerTypes'
  <2>1. \A j \in ContainerIds : pendingIds'[j] \in PendingType \cup {NoPending}
    BY <1>3 DEF SamplerInv, SamplerTypes
  <2>2. pendingIds' \in [ContainerIds -> PendingType \cup {NoPending}]
    <3>1. pendingIds' = [j \in ContainerIds |-> pendingIds'[j]]
      BY <1>2, <1>3 DEF Resolve, TrackedOf, SamplerInv, SamplerTypes
    <3> QED BY <2>1, <3>1
  <2>3. DOMAIN over' = ContainerIds
    BY <1>1
  <2> QED BY <1>1, <1>3, <2>2, <2>3 DEF SamplerInv, SamplerTypes
<1>5. HomeInv'
  <2>1. \A j \in ContainerIds : tracked'[j] = NoContainer \/ ContainerOK(tracked'[j])
    BY <1>3 DEF SamplerInv, HomeInv
  <2>2. \A j \in ContainerIds : tracked'[j] = NoContainer \/ pendingIds'[j] = NoPending
    BY <1>2, <1>3 DEF SamplerInv, HomeInv
  <2>3. Cardinality(Live') <= MaxTracked
    <3>1. CASE tracked'[i] = tracked[i]
      <4>1. Live' \subseteq Live
        BY <1>2, <1>3, <3>1 DEF Live, Tracked
      <4> QED BY <4>1, LiveKept
    <3>2. CASE Cardinality(Live) < MaxTracked
      <4>1. Live' \subseteq Live \cup {i}
        BY <1>3 DEF Live, Tracked
      <4>2. IsFiniteSet(Live)
        <5>1. Live \subseteq ContainerIds
          BY DEF Live, Tracked
        <5> QED BY <5>1, FS_Subset, CgAssumption
      <4>3. /\ IsFiniteSet(Live \cup {i}) /\ Cardinality(Live \cup {i}) \in Nat /\ Cardinality(Live) \in Nat
            /\ Cardinality(Live \cup {i}) <= Cardinality(Live) + 1
        <5>1. IsFiniteSet(Live \cup {i}) /\ Cardinality(Live) \in Nat
          BY <4>2, FS_AddElement, FS_CardinalityType
        <5>2. Cardinality(Live \cup {i}) = IF i \in Live THEN Cardinality(Live) ELSE Cardinality(Live) + 1
          BY <4>2, FS_AddElement
        <5> QED BY <5>1, <5>2
      <4>4. Cardinality(Live') <= Cardinality(Live \cup {i}) /\ Cardinality(Live') \in Nat
        BY <4>1, <4>3, FS_Subset, FS_CardinalityType
      <4> QED BY <3>2, <4>3, <4>4, CgAssumption
    <3> QED BY <1>3, <3>1, <3>2
  <2> QED BY <1>1, <2>1, <2>2, <2>3 DEF SamplerInv, HomeInv
<1>6. TodoInv'
  <2>1. \A j \in DOMAIN todo' : j \in DOMAIN todo /\ j # i /\ todo'[j] = todo[j] /\ pendingIds'[j] = pendingIds[j]
    BY <1>1, <1>2, <1>3
  <2> QED BY <1>1, <1>2, <2>1 DEF TodoInv
<1>7. ~overtaken'
  <2>1. ASSUME NEW j \in DOMAIN todo \ {i}, i \in over[j] PROVE FALSE
    <3>1. TurnOf(j, pendingIds, over, pass)
      BY <1>2 DEF SamplerInv, TurnInv
    <3>2. todo[j] < todo[i]
      BY <1>2, <2>1, <3>1 DEF TurnOf
    <3>3. todo[i] < todo[j] \/ todo[i] = todo[j]
      BY <1>1 DEF OfferedBefore
    <3> QED BY <1>2, <3>2, <3>3
  <2> QED BY <1>1, <2>1 DEF SamplerInv, TurnInv
<1>8. ASSUME NEW k \in ContainerIds PROVE TurnOf(k, pendingIds', over', pass)
  <2>1. TurnOf(k, pendingIds, over, pass)
    BY DEF SamplerInv, TurnInv
  <2>2. CASE k = i
    <3>1. over'[k] = {}
      BY <1>1, <2>2
    <3> QED BY <1>2, <1>3, <2>2, <3>1 DEF TurnOf
  <2>3. CASE k # i
    <3>1. pendingIds'[k] = pendingIds[k] /\ over'[k] = IF k \in DOMAIN todo \ {i} THEN over[k] \cup {i} ELSE over[k]
      BY <1>1, <1>3, <2>3
    <3>2. pendingIds[k] = NoPending => over'[k] = {}
      BY <1>2, <2>1, <3>1 DEF TurnOf
    <3>3. ASSUME pendingIds[k] # NoPending
          PROVE  pendingIds[k].lastTry <= pass /\ (over'[k] # {} => pendingIds[k].lastTry < pass)
      BY <1>2, <2>1, <3>1, <3>3 DEF TurnOf
    <3>4. ASSUME pendingIds[k] # NoPending, NEW j \in over'[k] \cap ContainerIds, pendingIds'[j] # NoPending
          PROVE  pendingIds[k].lastTry < pendingIds'[j].lastTry
      <4>1. CASE j = i
        BY <1>3, <3>3, <3>4, <4>1
      <4>2. CASE j # i
        BY <1>3, <2>1, <3>1, <3>4, <4>2 DEF TurnOf
      <4> QED BY <4>1, <4>2
    <3> QED BY <3>1, <3>2, <3>3, <3>4 DEF TurnOf
  <2> QED BY <2>2, <2>3
<1>9. TurnInv'
  BY <1>1, <1>6, <1>7, <1>8 DEF TurnInv
<1> QED BY <1>4, <1>5, <1>9 DEF SamplerInv

LEMMA SampleKeeps == ASSUME SamplerInv, NEW r \in SampleReads, Sample(r[1], r[2]) PROVE SamplerInv'
<1>1. UNCHANGED <<hierarchy, pendingIds, loopVars>>
  BY DEF Sample
<1>2. r[1] \in {"later", "soon", "reset", "error"} /\ r[2] \in BOOLEAN
  BY CgAssumption
<1>3. ASSUME NEW i \in ContainerIds
      PROVE  /\ tracked'[i] = NoContainer \/ ContainerOK(tracked'[i])
             /\ (tracked'[i] = NoContainer) = (tracked[i] = NoContainer)
             /\ tracked[i] # NoContainer => tracked'[i].gone = tracked[i].gone
  <2>1. tracked[i] = NoContainer \/ ContainerOK(tracked[i])
    BY DEF SamplerInv, HomeInv
  <2>2. tracked'[i] = tracked[i] \/ (ContainerOK(tracked[i]) /\ \E a \in {"later", "soon", "reset", "error"}, m \in BOOLEAN :
                                       tracked'[i] = SampleOne(tracked[i], a, m))
    BY <1>2, <1>3, <2>1 DEF Sample, Tracked
  <2>3. CASE tracked'[i] = tracked[i]
    BY <2>1, <2>3
  <2>4. ASSUME ContainerOK(tracked[i]), NEW a \in {"later", "soon", "reset", "error"}, NEW m \in BOOLEAN,
               tracked'[i] = SampleOne(tracked[i], a, m)
        PROVE  /\ ContainerOK(tracked'[i]) /\ tracked'[i].gone = tracked[i].gone
               /\ tracked'[i] # NoContainer /\ tracked[i] # NoContainer
    <3>1. ContainerOK(SampleOne(tracked[i], a, m)) /\ SampleOne(tracked[i], a, m).gone = tracked[i].gone
      BY <2>4, SampleOneOK
    <3>2. ContainerOK(tracked'[i]) /\ tracked'[i].gone = tracked[i].gone
      BY <2>4, <3>1
    <3> QED BY <2>4, <3>2, ContainerFacts
  <2> QED BY <2>2, <2>3, <2>4
<1>4. SamplerTypes'
  BY <1>1 DEF Sample, SamplerInv, SamplerTypes, loopVars
<1>5. ~mixed'
  <2>1. \A i \in Tracked : tracked[i].prevDir \in {0, tracked[i].dir}
    BY DEF SamplerInv, HomeInv, ContainerOK, Tracked
  <2> QED BY <2>1 DEF Sample, SamplerInv, HomeInv
<1>6. HomeInv'
  <2>1. Live' \subseteq Live
    BY <1>3 DEF Live, Tracked
  <2> QED BY <1>1, <1>3, <1>5, <2>1, LiveKept DEF SamplerInv, HomeInv
<1> QED BY <1>1, <1>4, <1>6, TurnsKept DEF SamplerInv

LEMMA ExportKeeps == ASSUME SamplerInv, ExportWindow PROVE SamplerInv'
<1>1. UNCHANGED <<hierarchy, loopVars, mixed>> /\ pass \in Int
  BY DEF ExportWindow, SamplerInv, SamplerTypes
<1> DEFINE Retired(i) == i \in Tracked /\ ~tracked[i].gone /\ Retires(tracked[i])
<1>2. ASSUME NEW i \in ContainerIds
      PROVE  /\ tracked'[i] = NoContainer \/ (ContainerOK(tracked'[i]) /\ tracked[i] # NoContainer /\ tracked'[i].gone = tracked[i].gone)
             /\ Retired(i) => tracked'[i] = NoContainer
  <2>1. tracked'[i] = Snapshot(tracked[i])
    BY <1>2 DEF ExportWindow
  <2>2. tracked[i] = NoContainer \/ ContainerOK(tracked[i])
    BY DEF SamplerInv, HomeInv
  <2>3. Retired(i) => tracked'[i] = NoContainer
    BY <2>1 DEF Snapshot
  <2>4. tracked'[i] = NoContainer \/ (tracked[i] # NoContainer /\ tracked'[i] = EndWindow(tracked[i]))
    BY <2>1 DEF Snapshot
  <2>5. CASE tracked[i] # NoContainer /\ tracked'[i] = EndWindow(tracked[i])
    <3>1. ContainerOK(EndWindow(tracked[i])) /\ EndWindow(tracked[i]).gone = tracked[i].gone
      BY <2>2, <2>5, EndWindowOK
    <3> QED BY <2>3, <2>5, <3>1
  <2> QED BY <2>3, <2>4, <2>5
<1>3. ASSUME NEW i \in ContainerIds
      PROVE  \/ pendingIds'[i] = pendingIds[i] /\ ~Retired(i)
             \/ /\ pendingIds[i] = NoPending /\ pendingIds'[i] \in PendingType /\ pendingIds'[i].lastTry = pass
                /\ pendingIds'[i].gaveUp /\ pendingIds'[i].nextTry > pass /\ Retired(i)
  <2>1. pendingIds'[i] = IF Retired(i) THEN Quarantined(tracked[i]) ELSE pendingIds[i]
    BY <1>3 DEF ExportWindow
  <2>2. CASE ~Retired(i)
    BY <2>1, <2>2
  <2>3. CASE Retired(i)
    <3>1. tracked[i] # NoContainer
      BY <2>3 DEF Tracked
    <3>2. ContainerOK(tracked[i]) /\ pendingIds[i] = NoPending
      BY <3>1 DEF SamplerInv, HomeInv
    <3> PICK d \in Dirs : d = tracked[i].dir
      BY <3>2 DEF ContainerOK, ContainerType
    <3> PICK n \in Int : n = pass + AbandonRetryEvery
      BY <1>1, CgAssumption
    <3>3. n > pass
      BY <1>1, CgAssumption
    <3> PICK y : y = [dir |-> d, firstFail |-> pass, lastTry |-> pass, nextTry |-> n, gaveUp |-> TRUE, unreadable |-> TRUE]
      OBVIOUS
    <3>4. y = Quarantined(tracked[i])
      BY DEF Quarantined
    <3>5. y \in PendingType /\ y.lastTry = pass /\ y.gaveUp /\ y.nextTry = n
      BY <1>1 DEF PendingType
    <3> QED BY <2>1, <2>3, <3>2, <3>3, <3>4, <3>5
  <2> QED BY <2>2, <2>3
<1>4. SamplerTypes'
  <2>1. pendingIds' = [i \in ContainerIds |-> pendingIds'[i]] /\ DOMAIN tracked' = ContainerIds
    BY DEF ExportWindow
  <2>2. \A i \in ContainerIds : pendingIds'[i] \in PendingType \cup {NoPending}
    BY <1>3 DEF SamplerInv, SamplerTypes
  <2>3. pendingIds' \in [ContainerIds -> PendingType \cup {NoPending}]
    BY <2>1, <2>2
  <2> QED BY <1>1, <2>1, <2>3 DEF SamplerInv, SamplerTypes, loopVars
<1>5. HomeInv'
  <2>1. Live' \subseteq Live
    BY <1>2 DEF Live, Tracked
  <2>2. \A i \in ContainerIds : tracked'[i] = NoContainer \/ pendingIds'[i] = NoPending
    <3> TAKE i \in ContainerIds
    <3>1. tracked[i] = NoContainer \/ pendingIds[i] = NoPending
      BY DEF SamplerInv, HomeInv
    <3> QED BY <1>2, <1>3, <3>1
  <2> QED BY <1>1, <1>2, <2>1, <2>2, LiveKept DEF SamplerInv, HomeInv
<1>6. TodoInv'
  <2>1. UNCHANGED <<phase, todo, pass>>
    BY <1>1 DEF loopVars
  <2>2. \A i \in DOMAIN todo : i \in ContainerIds /\ pendingIds'[i] = pendingIds[i]
    BY <1>3 DEF SamplerInv, TurnInv, TodoInv
  <2>3. DueIds' \subseteq DueIds /\ \A i \in DueIds' : pendingIds'[i] = pendingIds[i]
    <3> SUFFICES ASSUME NEW i \in DueIds' PROVE i \in DueIds /\ pendingIds'[i] = pendingIds[i]
      OBVIOUS
    <3>1. i \in ContainerIds /\ pendingIds'[i] # NoPending /\ (~pendingIds'[i].gaveUp \/ pass >= pendingIds'[i].nextTry)
      BY <2>1 DEF DueIds, Pending, Due
    <3>2. pendingIds'[i] = pendingIds[i]
      <4>1. CASE pendingIds'[i] \in PendingType /\ pendingIds'[i].gaveUp /\ pendingIds'[i].nextTry > pass
        <5>1. pendingIds'[i].nextTry \in Int
          BY <4>1, PendingFacts
        <5> QED BY <1>1, <3>1, <4>1, <5>1
      <4> QED BY <1>3, <3>1, <4>1
    <3> QED BY <3>1, <3>2 DEF DueIds, Pending, Due
  <2> QED BY <2>1, <2>2, <2>3 DEF SamplerInv, TurnInv, TodoInv
<1>7. ASSUME NEW k \in ContainerIds PROVE TurnOf(k, pendingIds', over, pass)
  <2>1. TurnOf(k, pendingIds, over, pass)
    BY DEF SamplerInv, TurnInv
  <2>2. CASE pendingIds'[k] # pendingIds[k]
    <3>1. pendingIds[k] = NoPending /\ pendingIds'[k] \in PendingType /\ pendingIds'[k].lastTry = pass
      BY <1>3, <2>2
    <3>2. over[k] = {}
      BY <2>1, <3>1 DEF TurnOf
    <3> QED BY <1>1, <3>1, <3>2, PendingFacts DEF TurnOf
  <2>3. CASE pendingIds'[k] = pendingIds[k]
    <3>1. ASSUME pendingIds[k] # NoPending, NEW j \in over[k] \cap ContainerIds, pendingIds'[j] # NoPending
          PROVE  pendingIds[k].lastTry < pendingIds'[j].lastTry
      <4>1. CASE pendingIds'[j] = pendingIds[j]
        BY <2>1, <3>1, <4>1 DEF TurnOf
      <4>2. CASE pendingIds'[j] # pendingIds[j]
        <5>1. pendingIds'[j].lastTry = pass
          BY <1>3, <3>1, <4>2
        <5> QED BY <2>1, <3>1, <5>1 DEF TurnOf
      <4> QED BY <4>1, <4>2
    <3> QED BY <2>1, <2>3, <3>1 DEF TurnOf
  <2> QED BY <2>2, <2>3
<1>8. TurnInv'
  BY <1>1, <1>6, <1>7 DEF SamplerInv, TurnInv, loopVars
<1> QED BY <1>4, <1>5, <1>8 DEF SamplerInv

LEMMA StopKeeps == ASSUME SamplerInv, Stop PROVE SamplerInv'
<1>1. UNCHANGED <<hierarchy, pendingIds, loopVars, mixed>>
  BY DEF Stop
<1>2. ASSUME NEW i \in ContainerIds
      PROVE  \/ tracked'[i] = NoContainer
             \/ ContainerOK(tracked'[i]) /\ tracked[i] # NoContainer /\ tracked'[i].gone
  <2>1. tracked'[i] = IF i \in Tracked THEN [MarkGone(tracked[i]) EXCEPT !.atShutdown = ~tracked[i].gone] ELSE NoContainer
    BY <1>2 DEF Stop
  <2>2. CASE i \in Tracked
    <3>1. tracked[i] # NoContainer /\ ContainerOK(tracked[i])
      BY <2>2 DEF Tracked, SamplerInv, HomeInv
    <3> PICK b \in BOOLEAN : b = ~tracked[i].gone
      OBVIOUS
    <3>2. tracked'[i] = [MarkGone(tracked[i]) EXCEPT !.atShutdown = b]
      BY <2>1, <2>2
    <3> QED BY <3>1, <3>2, ShutOK
  <2> QED BY <2>1, <2>2
<1>3. SamplerTypes'
  BY <1>1 DEF Stop, SamplerInv, SamplerTypes, loopVars
<1>4. HomeInv'
  <2>1. Live' \subseteq Live
    BY <1>2 DEF Live, Tracked
  <2> QED BY <1>1, <1>2, <2>1, LiveKept DEF SamplerInv, HomeInv
<1> QED BY <1>1, <1>3, <1>4, TurnsKept DEF SamplerInv

LEMMA SamplerStarts == CgInit => SamplerInv
<1> SUFFICES ASSUME CgInit PROVE SamplerInv
  OBVIOUS
<1>1. SamplerTypes
  BY DEF CgInit, SamplerTypes
<1>2. HomeInv
  <2>1. Live = {}
    BY DEF CgInit, Live, Tracked
  <2>2. Cardinality(Live) <= MaxTracked
    BY <2>1, FS_EmptySet, CgAssumption
  <2> QED BY <2>2 DEF CgInit, HomeInv
<1>3. TurnInv
  BY DEF CgInit, TurnInv, TodoInv, TurnOf, Nothing
<1> QED BY <1>1, <1>2, <1>3 DEF SamplerInv

LEMMA SamplerKeeps == SamplerInv /\ [CgNext]_cgVars => SamplerInv'
<1> SUFFICES ASSUME SamplerInv, [CgNext]_cgVars PROVE SamplerInv'
  OBVIOUS
<1>1. CASE UNCHANGED cgVars
  BY <1>1, TurnsKept DEF SamplerInv, SamplerTypes, HomeInv, Live, Tracked, cgVars, loopVars
<1>2. ASSUME NEW i \in ContainerIds, (\E d \in Dirs : DirAppears(i, d)) \/ ContainerExits(i) PROVE SamplerInv'
  BY <1>2, HierarchyKeeps
<1>3. CASE CgWalk \/ (\E o \in BOOLEAN : Reconcile(o)) \/ TakeTodo \/ EndPass
  BY <1>3, WalkKeeps, ReconcileKeeps, TakeTodoKeeps, EndPassKeeps
<1>4. ASSUME NEW i \in DOMAIN todo, NEW o, Resolve(i, o) PROVE SamplerInv'
  BY <1>4, ResolveKeeps
<1>5. ASSUME NEW r \in SampleReads, Sample(r[1], r[2]) PROVE SamplerInv'
  BY <1>5, SampleKeeps
<1>6. CASE ExportWindow \/ Stop
  BY <1>6, ExportKeeps, StopKeeps
<1> QED BY <1>1, <1>2, <1>3, <1>4, <1>5, <1>6 DEF CgNext

\* For any containers, caps, budgets, lookups and exports: a container has one home, holds
\* its descriptors while it is live and no more than the cap allows, no rate is taken
\* across two cgroups, and the order of the lookups rotates (reconcile, repointLocked,
\* resolvePending, track, snapshot).
THEOREM SamplerAlwaysSound == CgSpec => []SamplerSound
<1>1. SamplerInv => SamplerSound
  <2> SUFFICES ASSUME SamplerInv PROVE SamplerSound
    OBVIOUS
  <2>1. Tracked \cap Pending = {}
    BY DEF SamplerInv, HomeInv, Tracked, Pending
  <2>2. \A i \in Tracked : tracked[i].open <=> ~tracked[i].gone
    BY ContainerFacts DEF SamplerInv, HomeInv, Tracked
  <2> QED BY <2>1, <2>2 DEF SamplerSound, OneHome, RatesOfOneCgroup, NobodyStarves, SamplerInv, HomeInv, TurnInv
<1> QED BY <1>1, SamplerStarts, SamplerKeeps, PTL DEF CgSpec

-----------------------------------------------------------------------------
(* One scrape.  Where a sample that was read may be, and that it is nowhere  *)
(* twice.                                                                    *)

\* The samples of the accumulators that are still to be flushed.
Open == UNION {accs[order[j]] : j \in DOMAIN order}

\* No sample is in two points of a chunk.
Apart(ps) == \A m, n \in 1..Len(ps) : m # n => ps[m] \cap ps[n] = {}

\* The body, and how much of it was read.
BodyInv ==
  /\ Len(body) \in Nat /\ DOMAIN body = 1..Len(body) /\ pos \in 0..Len(body)
  /\ \A i \in 1..Len(body) : body[i].part \in Component \cup {"num", "native"}
  /\ mode = "text" => \A i \in 1..Len(body) : body[i].part # "native"
  /\ \A i, j \in 1..Len(body) : body[i].part = "native" /\ body[j].fam = body[i].fam => body[j].part = "native"

\* The steps: an export that failed is the last one, a scrape that goes on has not failed,
\* and one that ends without a failure has read everything.
StepInv ==
  /\ spc \in {"read", "full", "flush", "chunk", "abort", "last", "done"} /\ after \in {"none", "read", "chunk", "last"}
  /\ exportFailed \in BOOLEAN /\ flushErr \in BOOLEAN /\ ctxDone \in BOOLEAN
  /\ mode \in {"text", "proto", "summary"}
  /\ exportFailed = (lostChunks # <<>>) /\ Len(lostChunks) <= 1
  /\ exportFailed => failure # "none" /\ (spc \in {"abort", "done"} \/ (spc = "flush" /\ flushErr))
  /\ spc = "flush" => after # "none" /\ (flushErr => exportFailed)
  /\ spc \in {"read", "full", "chunk"} \/ (spc = "flush" /\ after # "last" /\ ~flushErr) => failure = "none"
  /\ spc = "full" => Full(points)
  /\ failure = "none" /\ (spc \in {"last", "done"} \/ (spc = "flush" /\ after = "last")) => pos = Len(body)
  /\ spc = "abort" => failure # "none"
  /\ spc \in {"chunk", "last"} => order = <<>>
  /\ spc = "done" => (failure # "none" /\ ~Salvage) \/ (points = <<>> /\ order = <<>>)

\* The chunks: no sample twice, in them or in what is still to be put into one.
PlaceInv ==
  /\ points \in Seq(SUBSET Nat) /\ chunks \in Seq(Seq(SUBSET Nat)) /\ lostChunks \in Seq(Seq(SUBSET Nat))
  /\ ~SentTwice /\ Apart(points)
  /\ InPoints(chunks) \cap InChunk(points) = {}
  /\ Open \cap (InPoints(chunks) \cup InChunk(points)) = {}
  /\ (InPoints(chunks) \cup InChunk(points)) \cap DOMAIN droppedBy = {}
  /\ InPoints(chunks) \cup InChunk(points) \cup DOMAIN droppedBy \subseteq 1..pos
  /\ \A c \in DOMAIN chunks : chunks[c] # <<>> /\ (mode = "text" => Len(chunks[c]) <= BatchPoints)
  /\ mode = "text" /\ ~exportFailed => Len(points) < BatchPoints

\* The accumulators: each has its place in the order until it is flushed, and is paid for.
AccInv ==
  /\ order \in Seq(DOMAIN accs) /\ accs \in [DOMAIN accs -> SUBSET Nat]
  /\ \A i, j \in 1..Len(order) : order[i] = order[j] => i = j
  /\ spc # "flush" => \A k \in DOMAIN accs : \E j \in 1..Len(order) : order[j] = k
  /\ \A k, l \in DOMAIN accs : k # l => accs[k] \cap accs[l] = {}
  /\ \A k \in DOMAIN accs : accs[k] \subseteq 1..pos /\ accs[k] \cap DOMAIN droppedBy = {}
  /\ accBytes \in Nat /\ accBytes <= MaxFamilyAcc
  /\ IsFiniteSet(Retained) /\ Cardinality(Retained) <= accBytes

\* Every sample that was read is somewhere, but for the one that went over the limit.
ReadInv ==
  \A i \in 1..pos : \/ i \in DOMAIN droppedBy \cup InPoints(chunks) \cup InPoints(lostChunks)
                    \/ i \in InChunk(points) \cup Open
                    \/ failure = "limit" /\ i = pos

\* Together they are kept by every step of a scrape.
SesInv == BodyInv /\ StepInv /\ PlaceInv /\ AccInv /\ ReadInv

\* A chunk, and a list of them, sample by sample.
LEMMA ChunkIs ==
  ASSUME NEW ps \in Seq(SUBSET Nat)
  PROVE  /\ \A x : x \in InChunk(ps) <=> \E n \in 1..Len(ps) : x \in ps[n]
         /\ \A n \in 1..Len(ps) : ps[n] \in SUBSET Nat
         /\ Len(ps) \in Nat /\ DOMAIN ps = 1..Len(ps)
<1>1. Len(ps) \in Nat /\ DOMAIN ps = 1..Len(ps)
  OBVIOUS
<1>2. \A n \in 1..Len(ps) : ps[n] \in SUBSET Nat
  OBVIOUS
<1> QED BY <1>1, <1>2 DEF InChunk

\* A list of chunks, sample by sample.
LEMMA ChunksAre ==
  ASSUME NEW cs \in Seq(Seq(SUBSET Nat))
  PROVE  /\ \A x : x \in InPoints(cs) <=> \E c \in 1..Len(cs) : x \in InChunk(cs[c])
         /\ \A c \in 1..Len(cs) : cs[c] \in Seq(SUBSET Nat)
         /\ Len(cs) \in Nat /\ DOMAIN cs = 1..Len(cs)
<1>1. Len(cs) \in Nat /\ DOMAIN cs = 1..Len(cs)
  OBVIOUS
<1>2. \A c \in 1..Len(cs) : cs[c] \in Seq(SUBSET Nat)
  OBVIOUS
<1> QED BY <1>1, <1>2 DEF InPoints

\* A point joins a chunk.
LEMMA PointAdded ==
  ASSUME NEW ps \in Seq(SUBSET Nat), NEW X \in SUBSET Nat
  PROVE  /\ Append(ps, X) \in Seq(SUBSET Nat) /\ Len(Append(ps, X)) = Len(ps) + 1 /\ Append(ps, X) # <<>>
         /\ \A x : x \in InChunk(Append(ps, X)) <=> x \in InChunk(ps) \cup X
         /\ Apart(ps) /\ X \cap InChunk(ps) = {} => Apart(Append(ps, X))
<1> DEFINE q == Append(ps, X)
<1>1. /\ q \in Seq(SUBSET Nat) /\ Len(q) = Len(ps) + 1 /\ Len(ps) \in Nat
      /\ \A n \in 1..Len(ps) : q[n] = ps[n]
      /\ q[Len(ps) + 1] = X
  BY AppendProperties
<1> HIDE DEF q
<1>2. q # <<>>
  BY <1>1
<1>3. \A n \in 1..Len(q) : n \in 1..Len(ps) \/ n = Len(ps) + 1
  BY <1>1
<1>4. \A n \in 1..Len(ps) : n \in 1..Len(q) /\ Len(ps) + 1 \in 1..Len(q) /\ n # Len(ps) + 1
  BY <1>1
<1>5. Len(ps) + 1 \in 1..Len(q)
  BY <1>1
<1>6. \A x : x \in InChunk(q) <=> x \in InChunk(ps) \cup X
  BY <1>1, <1>3, <1>4, <1>5, ChunkIs
<1>7. ASSUME Apart(ps), X \cap InChunk(ps) = {} PROVE Apart(q)
  <2>1. \A n \in 1..Len(ps) : ps[n] \cap X = {}
    BY <1>7, ChunkIs
  <2> SUFFICES ASSUME NEW m \in 1..Len(q), NEW n \in 1..Len(q), m # n PROVE q[m] \cap q[n] = {}
    BY DEF Apart
  <2>2. CASE m \in 1..Len(ps) /\ n \in 1..Len(ps)
    BY <1>1, <1>7, <2>2 DEF Apart
  <2>3. CASE m \in 1..Len(ps) /\ n = Len(ps) + 1
    BY <1>1, <2>1, <2>3
  <2>4. CASE n \in 1..Len(ps) /\ m = Len(ps) + 1
    BY <1>1, <2>1, <2>4
  <2> QED BY <1>3, <2>2, <2>3, <2>4
<1> QED BY <1>1, <1>2, <1>6, <1>7 DEF q

\* A chunk joins a list of them.
LEMMA ChunkAdded ==
  ASSUME NEW cs \in Seq(Seq(SUBSET Nat)), NEW ps \in Seq(SUBSET Nat)
  PROVE  /\ Append(cs, ps) \in Seq(Seq(SUBSET Nat)) /\ Len(Append(cs, ps)) = Len(cs) + 1 /\ Append(cs, ps) # <<>>
         /\ \A x : x \in InPoints(Append(cs, ps)) <=> x \in InPoints(cs) \cup InChunk(ps)
         /\ \A c \in 1..Len(Append(cs, ps)) :
              \/ c \in 1..Len(cs) /\ Append(cs, ps)[c] = cs[c]
              \/ c = Len(cs) + 1 /\ Append(cs, ps)[c] = ps
<1> DEFINE q == Append(cs, ps)
<1>1. /\ q \in Seq(Seq(SUBSET Nat)) /\ Len(q) = Len(cs) + 1 /\ Len(cs) \in Nat
      /\ \A n \in 1..Len(cs) : q[n] = cs[n]
      /\ q[Len(cs) + 1] = ps
  BY AppendProperties
<1> HIDE DEF q
<1>2. q # <<>>
  BY <1>1
<1>3. \A n \in 1..Len(q) : n \in 1..Len(cs) \/ n = Len(cs) + 1
  BY <1>1
<1>4. \A n \in 1..Len(cs) : n \in 1..Len(q)
  BY <1>1
<1>5. Len(cs) + 1 \in 1..Len(q)
  BY <1>1
<1>6. \A x : x \in InPoints(q) <=> x \in InPoints(cs) \cup InChunk(ps)
  BY <1>1, <1>3, <1>4, <1>5, ChunksAre
<1> QED BY <1>1, <1>2, <1>3, <1>6 DEF q

\* The chunks accepted so far: none empty, none too long, no sample in two points.
Chunked(cs, m) ==
  /\ cs \in Seq(Seq(SUBSET Nat))
  /\ ~ \E c, d \in DOMAIN cs : \E p \in DOMAIN cs[c], q \in DOMAIN cs[d] :
         <<c, p>> # <<d, q>> /\ cs[c][p] \cap cs[d][q] # {}
  /\ \A c \in DOMAIN cs : cs[c] # <<>> /\ (m = "text" => Len(cs[c]) <= BatchPoints)

\* A chunk of new samples is accepted.
LEMMA ChunkedMore ==
  ASSUME NEW cs, NEW m, Chunked(cs, m), NEW ps \in Seq(SUBSET Nat), Apart(ps), ps # <<>>,
         m = "text" => Len(ps) <= BatchPoints, InPoints(cs) \cap InChunk(ps) = {}
  PROVE  Chunked(Append(cs, ps), m)
<1> DEFINE q == Append(cs, ps)
<1>0. cs \in Seq(Seq(SUBSET Nat)) /\ Len(cs) \in Nat /\ DOMAIN cs = 1..Len(cs)
  BY ChunksAre DEF Chunked
<1>1. q \in Seq(Seq(SUBSET Nat)) /\ \A c \in 1..Len(q) :
        (c \in 1..Len(cs) /\ q[c] = cs[c]) \/ (c = Len(cs) + 1 /\ q[c] = ps)
  BY <1>0, ChunkAdded
<1> HIDE DEF q
<1>2. DOMAIN q = 1..Len(q) /\ DOMAIN ps = 1..Len(ps)
  BY <1>1, ChunkIs
<1>3. \A c \in DOMAIN q : q[c] # <<>> /\ (m = "text" => Len(q[c]) <= BatchPoints)
  BY <1>0, <1>1, <1>2 DEF Chunked
<1>4. ASSUME NEW c \in 1..Len(cs), NEW a \in DOMAIN cs[c], NEW b \in DOMAIN ps PROVE cs[c][a] \cap ps[b] = {}
  <2>1. cs[c] \in Seq(SUBSET Nat)
    BY <1>0, ChunksAre
  <2>2. \A x \in cs[c][a] : x \in InPoints(cs)
    <3>1. DOMAIN cs[c] = 1..Len(cs[c]) /\ \A x : x \in InChunk(cs[c]) <=> \E n \in 1..Len(cs[c]) : x \in cs[c][n]
      BY ONLY <2>1, ChunkIs
    <3>2. \A x \in cs[c][a] : x \in InChunk(cs[c])
      BY <3>1
    <3>3. \A x : x \in InPoints(cs) <=> \E d \in 1..Len(cs) : x \in InChunk(cs[d])
      BY ONLY <1>0, ChunksAre
    <3> QED BY <3>2, <3>3
  <2>3. \A x \in ps[b] : x \in InChunk(ps)
    BY <1>2, ChunkIs
  <2> QED BY <2>2, <2>3
<1>5. ASSUME NEW c \in DOMAIN q, NEW d \in DOMAIN q, NEW a \in DOMAIN q[c], NEW b \in DOMAIN q[d], <<c, a>> # <<d, b>>
      PROVE  q[c][a] \cap q[d][b] = {}
  <2>1. CASE c \in 1..Len(cs) /\ d \in 1..Len(cs)
    <3>1. q[c] = cs[c] /\ q[d] = cs[d]
      BY <2>1, <1>0, <1>1, <1>2
    <3> QED BY <3>1, <2>1, <1>0, <1>5 DEF Chunked
  <2>2. CASE c \in 1..Len(cs) /\ d = Len(cs) + 1
    <3>1. q[c] = cs[c] /\ q[d] = ps
      BY <2>2, <1>0, <1>1, <1>2
    <3> QED BY <3>1, <2>2, <1>4
  <2>3. CASE d \in 1..Len(cs) /\ c = Len(cs) + 1
    <3>1. q[d] = cs[d] /\ q[c] = ps
      BY <2>3, <1>0, <1>1, <1>2
    <3> QED BY <3>1, <2>3, <1>4
  <2>4. CASE c = Len(cs) + 1 /\ d = Len(cs) + 1
    <3>1. q[d] = ps /\ q[c] = ps /\ a # b
      BY <2>4, <1>0, <1>1, <1>2, <1>5
    <3> QED BY <3>1, <1>2 DEF Apart
  <2> QED BY <1>1, <1>2, <2>1, <2>2, <2>3, <2>4
<1>6. Chunked(q, m)
  BY <1>1, <1>3, <1>5 DEF Chunked
<1> QED BY <1>6 DEF q

\* The invariant says so of the chunks.
LEMMA ChunkedIs == PlaceInv => Chunked(chunks, mode)
BY DEF PlaceInv, Chunked, SentTwice

\* A chunk that was taken.
LEMMA EmptyChunk == <<>> \in Seq(SUBSET Nat) /\ InChunk(<<>>) = {} /\ Apart(<<>>) /\ Len(<<>>) = 0
<1>1. <<>> \in Seq(SUBSET Nat) /\ Len(<<>>) = 0
  OBVIOUS
<1> PICK e \in Seq(SUBSET Nat) : e = <<>> /\ Len(e) = 0
  BY <1>1
<1>2. ASSUME NEW x, x \in InChunk(e) PROVE FALSE
  <2>1. \E n \in 1..Len(e) : x \in e[n]
    BY <1>2, ChunkIs
  <2>2. 1..Len(e) = {}
    OBVIOUS
  <2> QED BY <2>1, <2>2
<1>3. Apart(<<>>)
  BY <1>1 DEF Apart
<1> QED BY <1>1, <1>2, <1>3

\* What a chunk ps that is exported, or kept for later, becomes.
Moved(ps, goOn, onFailure) ==
  /\ points' \in Seq(SUBSET Nat) /\ lostChunks' \in Seq(Seq(SUBSET Nat)) /\ Chunked(chunks', mode)
  /\ Apart(points') /\ InPoints(chunks') \cap InChunk(points') = {}
  /\ InPoints(chunks') \cup InChunk(points') \subseteq InPoints(chunks) \cup InChunk(ps)
  /\ InPoints(chunks) \cup InPoints(lostChunks) \cup InChunk(ps)
       \subseteq InPoints(chunks') \cup InPoints(lostChunks') \cup InChunk(points')
  /\ mode = "text" /\ ~exportFailed' => Len(points') < BatchPoints
  /\ \/ spc' = goOn /\ UNCHANGED <<lostChunks, exportFailed, failure>>
     \/ /\ spc' = onFailure /\ exportFailed' = TRUE /\ lostChunks' # <<>> /\ Len(lostChunks') <= 1
        /\ failure' = IF failure = "none" THEN "export" ELSE failure

\* An export, accepted or failed.
LEMMA ExportMoves ==
  ASSUME SesInv, ~exportFailed, NEW ps \in Seq(SUBSET Nat), Apart(ps), ps # <<>>, NEW goOn, NEW onFailure,
         mode = "text" => Len(ps) <= BatchPoints, InPoints(chunks) \cap InChunk(ps) = {},
         Export(ps, goOn, onFailure)
  PROVE  Moved(ps, goOn, onFailure) /\ points' = <<>>
<1>1. /\ Chunked(chunks, mode) /\ lostChunks = <<>> /\ lostChunks \in Seq(Seq(SUBSET Nat))
      /\ chunks \in Seq(Seq(SUBSET Nat)) /\ BatchPoints \in Nat /\ BatchPoints > 0
  <2>1. lostChunks = <<>>
    BY DEF SesInv, StepInv
  <2>2. Chunked(chunks, mode) /\ lostChunks \in Seq(Seq(SUBSET Nat)) /\ chunks \in Seq(Seq(SUBSET Nat))
    BY ChunkedIs DEF SesInv, PlaceInv
  <2>3. BatchPoints \in Nat /\ BatchPoints > 0
    BY SessionAssumption
  <2> QED BY <2>1, <2>2, <2>3
<1>2. points' = <<>> /\ points' \in Seq(SUBSET Nat) /\ Apart(points') /\ InChunk(points') = {} /\ Len(points') < BatchPoints
  BY <1>1, EmptyChunk DEF Export
<1>3. CASE chunks' = Append(chunks, ps) /\ spc' = goOn /\ UNCHANGED <<lostChunks, exportFailed, failure>>
  <2>1. Chunked(chunks', mode)
    BY <1>1, <1>3, ChunkedMore
  <2>2. \A x : x \in InPoints(chunks') <=> x \in InPoints(chunks) \cup InChunk(ps)
    BY <1>1, <1>3, ChunkAdded
  <2> QED BY <1>1, <1>2, <1>3, <2>1, <2>2 DEF Moved
<1>4. CASE /\ lostChunks' = Append(lostChunks, ps) /\ spc' = onFailure /\ exportFailed' = TRUE /\ UNCHANGED chunks
           /\ failure' = IF failure = "none" THEN "export" ELSE failure
  <2>1. /\ lostChunks' \in Seq(Seq(SUBSET Nat)) /\ lostChunks' # <<>> /\ Len(lostChunks') <= 1
        /\ \A x : x \in InPoints(lostChunks') <=> x \in InPoints(lostChunks) \cup InChunk(ps)
    <3>1. Len(lostChunks) = 0
      BY <1>1
    <3>2. Len(Append(lostChunks, ps)) = 1
      BY <1>1, <3>1, ChunkAdded
    <3>3. /\ Append(lostChunks, ps) \in Seq(Seq(SUBSET Nat)) /\ Append(lostChunks, ps) # <<>>
          /\ \A x : x \in InPoints(Append(lostChunks, ps)) <=> x \in InPoints(lostChunks) \cup InChunk(ps)
      BY <1>1, ChunkAdded
    <3>4. lostChunks' = Append(lostChunks, ps)
      BY <1>4
    <3> QED BY <3>2, <3>3, <3>4
  <2>2. chunks' = chunks
    BY <1>4
  <2> QED BY <1>1, <1>2, <1>4, <2>1, <2>2 DEF Moved
<1> QED BY <1>2, <1>3, <1>4 DEF Export

\* An export, or none while the chunk is not full.
LEMMA CheckMoves ==
  ASSUME SesInv, ~exportFailed, NEW ps \in Seq(SUBSET Nat), Apart(ps), ps # <<>>, NEW goOn, NEW onFailure,
         mode = "text" => Len(ps) <= BatchPoints, InPoints(chunks) \cap InChunk(ps) = {},
         Check(ps, goOn, onFailure)
  PROVE  Moved(ps, goOn, onFailure)
<1>1. CASE Full(ps) /\ mode # "summary"
  BY <1>1, ExportMoves DEF Check
<1>2. CASE ~(Full(ps) /\ mode # "summary")
  <2>1. points' = ps /\ spc' = goOn /\ UNCHANGED <<chunks, lostChunks, exportFailed, failure>>
    BY <1>2 DEF Check
  <2>2. Chunked(chunks, mode) /\ lostChunks \in Seq(Seq(SUBSET Nat)) /\ BatchPoints \in Nat /\ Len(ps) \in Nat
    BY ChunkedIs, ChunkIs, SessionAssumption DEF SesInv, PlaceInv
  <2>3. mode = "text" => Len(ps) < BatchPoints
    BY <1>2, <2>2 DEF Full
  <2> QED BY <2>1, <2>2, <2>3 DEF Moved
<1> QED BY <1>1, <1>2

\* The accumulators that are open, one by one.
LEMMA OpenIs ==
  /\ \A x : x \in Open <=> \E j \in DOMAIN order : x \in accs[order[j]]
  /\ \A x : x \in Open' <=> \E j \in DOMAIN order' : x \in accs'[order'[j]]
BY DEF Open

\* The types the steps use.
LEMMA SessionTypes ==
  ASSUME SesInv
  PROVE  /\ pos \in Nat /\ Len(body) \in Nat /\ pos <= Len(body) /\ order \in Seq(DOMAIN accs) /\ DOMAIN order = 1..Len(order)
         /\ points \in Seq(SUBSET Nat) /\ chunks \in Seq(Seq(SUBSET Nat)) /\ lostChunks \in Seq(Seq(SUBSET Nat))
         /\ BatchPoints \in Nat /\ BatchPoints > 0 /\ Len(points) \in Nat /\ MaxFamilyAcc \in Nat /\ Len(order) \in Nat
         /\ accs \in [DOMAIN accs -> SUBSET Nat]
         /\ \A j \in 1..Len(order) : order[j] \in DOMAIN accs
<1>1. pos \in Nat /\ Len(body) \in Nat /\ pos <= Len(body)
  BY DEF SesInv, BodyInv
<1>2. order \in Seq(DOMAIN accs)
  BY DEF SesInv, AccInv
<1>3. points \in Seq(SUBSET Nat)
  BY DEF SesInv, PlaceInv
<1>4. chunks \in Seq(Seq(SUBSET Nat)) /\ lostChunks \in Seq(Seq(SUBSET Nat))
  BY DEF SesInv, PlaceInv
<1>5. BatchPoints \in Nat /\ BatchPoints > 0 /\ MaxFamilyAcc \in Nat
  BY SessionAssumption
<1>6. DOMAIN order = 1..Len(order) /\ Len(order) \in Nat /\ \A j \in 1..Len(order) : order[j] \in DOMAIN accs
  BY <1>2
<1>7. accs \in [DOMAIN accs -> SUBSET Nat]
  BY DEF SesInv, AccInv
<1> QED BY <1>1, <1>2, <1>3, <1>4, <1>5, <1>6, <1>7, ChunkIs

\* A step that leaves chunks and accumulators alone.
LEMMA QuietKeeps ==
  ASSUME SesInv, UNCHANGED <<body, mode, pos, order, accs, accBytes, points, chunks, lostChunks, droppedBy, exportFailed>>,
         spc' = "flush" \/ spc # "flush", failure' = failure \/ failure = "none"
  PROVE  BodyInv' /\ PlaceInv' /\ AccInv' /\ ReadInv'
<1>1. Open' = Open /\ Retained' = Retained
  BY DEF Open, Retained
<1>2. BodyInv'
  BY DEF SesInv, BodyInv
<1>3. PlaceInv'
  BY <1>1 DEF SesInv, PlaceInv, SentTwice
<1>4. AccInv'
  BY <1>1 DEF SesInv, AccInv
<1>5. ReadInv'
  BY <1>1 DEF SesInv, ReadInv
<1> QED BY <1>2, <1>3, <1>4, <1>5

\* A step that puts points into chunks.
LEMMA MovedKeeps ==
  ASSUME SesInv, NEW ps, NEW goOn, NEW onFailure, Moved(ps, goOn, onFailure), UNCHANGED <<body, mode, droppedBy>>,
         pos' \in {pos, pos + 1}, pos' <= Len(body), pos' = pos \/ failure = "none",
         InChunk(ps) \subseteq 1..pos', InChunk(ps) \cap DOMAIN droppedBy = {},
         Open' \cap (InPoints(chunks) \cup InChunk(ps)) = {},
         InChunk(points) \cup Open \cup {i \in 1..pos' : i > pos} \subseteq InChunk(ps) \cup Open'
  PROVE  BodyInv' /\ PlaceInv' /\ ReadInv'
<1>1. pos \in Nat /\ pos' \in Nat /\ pos <= pos' /\ Len(body) \in Nat
  BY SessionTypes
<1>2. BodyInv'
  BY <1>1 DEF SesInv, BodyInv
<1>3. InPoints(chunks) \cup DOMAIN droppedBy \subseteq 1..pos' /\ InPoints(chunks) \cap DOMAIN droppedBy = {}
  <2>1. InPoints(chunks) \cup DOMAIN droppedBy \subseteq 1..pos /\ InPoints(chunks) \cap DOMAIN droppedBy = {}
    BY DEF SesInv, PlaceInv
  <2>2. 1..pos \subseteq 1..pos'
    BY <1>1
  <2> QED BY <2>1, <2>2
<1>4. /\ points' \in Seq(SUBSET Nat) /\ lostChunks' \in Seq(Seq(SUBSET Nat)) /\ Chunked(chunks', mode)
      /\ Apart(points') /\ InPoints(chunks') \cap InChunk(points') = {}
      /\ InPoints(chunks') \cup InChunk(points') \subseteq InPoints(chunks) \cup InChunk(ps)
      /\ mode = "text" /\ ~exportFailed' => Len(points') < BatchPoints
  BY DEF Moved
<1>5. PlaceInv'
  <2>1. /\ chunks' \in Seq(Seq(SUBSET Nat)) /\ ~SentTwice'
        /\ \A c \in DOMAIN chunks' : chunks'[c] # <<>> /\ (mode = "text" => Len(chunks'[c]) <= BatchPoints)
    BY <1>4 DEF Chunked, SentTwice
  <2>2. (InPoints(chunks') \cup InChunk(points')) \cap DOMAIN droppedBy = {}
    BY <1>3, <1>4
  <2>3. InPoints(chunks') \cup InChunk(points') \cup DOMAIN droppedBy \subseteq 1..pos'
    BY <1>3, <1>4
  <2>4. Open' \cap (InPoints(chunks') \cup InChunk(points')) = {}
    BY <1>4
  <2> QED BY <1>4, <2>1, <2>2, <2>3, <2>4 DEF PlaceInv
<1>6. ReadInv'
  <2>1. \A i \in 1..pos' : i \in 1..pos \/ i \in {j \in 1..pos' : j > pos}
    BY <1>1
  <2>2. failure = "limit" => pos' = pos /\ failure' = "limit"
    BY DEF Moved
  <2>3. InPoints(chunks) \cup InPoints(lostChunks) \cup InChunk(ps)
          \subseteq InPoints(chunks') \cup InPoints(lostChunks') \cup InChunk(points')
    BY DEF Moved
  <2> SUFFICES ASSUME NEW i \in 1..pos'
               PROVE  \/ i \in DOMAIN droppedBy \cup InPoints(chunks') \cup InPoints(lostChunks')
                      \/ i \in InChunk(points') \cup Open'
                      \/ failure' = "limit" /\ i = pos'
    BY DEF ReadInv
  <2>4. \/ i \in InPoints(chunks) \cup InPoints(lostChunks) \cup InChunk(ps) \cup Open' \cup DOMAIN droppedBy
        \/ failure = "limit" /\ i = pos
    <3>1. CASE i \in {j \in 1..pos' : j > pos}
      BY <3>1
    <3>2. CASE i \in 1..pos
      BY <3>2 DEF SesInv, ReadInv
    <3> QED BY <2>1, <3>1, <3>2
  <2> QED BY <2>2, <2>3, <2>4
<1> QED BY <1>2, <1>5, <1>6

\* A step that leaves the accumulators alone.
LEMMA AccSame ==
  ASSUME SesInv, UNCHANGED <<body, order, accs, accBytes, droppedBy>>, pos' \in Nat, pos <= pos', spc' = "flush" \/ spc # "flush"
  PROVE  AccInv' /\ Open' = Open
<1>1. Open' = Open /\ Retained' = Retained
  BY DEF Open, Retained
<1>2. 1..pos \subseteq 1..pos'
  BY SessionTypes
<1>3. \A k \in DOMAIN accs : accs[k] \subseteq 1..pos' /\ accs[k] \cap DOMAIN droppedBy = {}
  BY <1>2 DEF SesInv, AccInv
<1>4. AccInv'
  BY <1>1, <1>3 DEF SesInv, AccInv
<1> QED BY <1>1, <1>4

\* The initial states satisfy the invariant.
LEMMA SessionStarts == SessionInit => SesInv
<1> SUFFICES ASSUME SessionInit PROVE SesInv
  OBVIOUS
<1>1. Len(body) \in Nat /\ DOMAIN body = 1..Len(body)
  BY SessionAssumption DEF SessionInit
<1>2. BodyInv
  <2>1. body \in Expositions /\ pos = 0
    BY DEF SessionInit
  <2>2. /\ \A i \in DOMAIN body : body[i].part \in Component \cup {"num", "native"}
        /\ \A i, j \in DOMAIN body : body[i].part = "native" /\ body[j].fam = body[i].fam => body[j].part = "native"
    BY <2>1, SessionAssumption
  <2>4. mode = "text" => \A i \in DOMAIN body : body[i].part # "native"
    BY DEF SessionInit
  <2>3. pos \in 0..Len(body)
    BY <1>1, <2>1
  <2> QED BY <1>1, <2>2, <2>3, <2>4 DEF BodyInv
<1>3. points = <<>> /\ chunks = <<>> /\ lostChunks = <<>> /\ order = <<>> /\ pos = 0 /\ accs = [k \in {} |-> {}] /\ droppedBy = [i \in {} |-> ""]
  BY DEF SessionInit
<1>4. Len(order) = 0 /\ DOMAIN order = {} /\ DOMAIN accs = {} /\ DOMAIN droppedBy = {} /\ Len(lostChunks) = 0 /\ DOMAIN chunks = {}
  BY <1>3
<1>5. StepInv
  <2>1. /\ spc = "read" /\ after = "none" /\ flushErr = FALSE /\ failure = "none" /\ exportFailed = FALSE /\ ctxDone = FALSE
        /\ mode \in {"text", "proto", "summary"}
    BY DEF SessionInit
  <2>2. exportFailed = (lostChunks # <<>>)
    BY <1>3, <2>1
  <2>3. Len(lostChunks) <= 1
    BY <1>4
  <2>4. exportFailed \in BOOLEAN /\ flushErr \in BOOLEAN /\ ctxDone \in BOOLEAN /\ ~exportFailed
    BY <2>1
  <2> HIDE <1>3, <1>4
  <2> QED BY <2>1, <2>2, <2>3, <2>4 DEF StepInv
<1>6. InPoints(chunks) = {} /\ InChunk(points) = {} /\ Open = {}
  BY <1>3, <1>4, EmptyChunk, OpenIs DEF InPoints
<1>7. PlaceInv
  <2>1. points \in Seq(SUBSET Nat) /\ Apart(points) /\ Len(points) = 0
    BY <1>3, EmptyChunk
  <2>2. chunks \in Seq(Seq(SUBSET Nat)) /\ lostChunks \in Seq(Seq(SUBSET Nat))
    BY <1>3
  <2>3. BatchPoints \in Nat /\ BatchPoints > 0
    BY SessionAssumption
  <2> QED BY <1>4, <1>6, <2>1, <2>2, <2>3 DEF PlaceInv, SentTwice
<1>8. AccInv
  <2>1. Retained = {}
    BY <1>4 DEF Retained
  <2>2. IsFiniteSet(Retained) /\ Cardinality(Retained) = 0 /\ accBytes = 0 /\ MaxFamilyAcc \in Nat
    BY <2>1, FS_EmptySet, SessionAssumption DEF SessionInit
  <2>3. order \in Seq(DOMAIN accs) /\ accs \in [DOMAIN accs -> SUBSET Nat]
    BY <1>3
  <2> QED BY <1>4, <2>2, <2>3 DEF AccInv
<1>9. ReadInv
  BY <1>3 DEF ReadInv
<1> QED BY <1>2, <1>5, <1>7, <1>8, <1>9 DEF SesInv

\* A flush of the open family begins.
LEMMA FlushFamilyKeeps ==
  ASSUME SesInv, ~exportFailed, NEW next \in {"read", "chunk", "last"}, FlushFamily(next),
         next # "last" => failure = "none", next = "last" /\ failure = "none" => pos = Len(body)
  PROVE  SesInv'
<1>1. /\ spc' = "flush" /\ after' = next /\ flushErr' = FALSE
      /\ UNCHANGED <<body, mode, pos, order, accs, accBytes, points, chunks, lostChunks, droppedBy, exportFailed, ctxDone, failure>>
  BY DEF FlushFamily, convVars
<1>2. BodyInv' /\ PlaceInv' /\ AccInv' /\ ReadInv'
  BY <1>1, QuietKeeps
<1>3. StepInv'
  BY <1>1 DEF SesInv, StepInv
<1> QED BY <1>2, <1>3 DEF SesInv

\* A step of ReadFails keeps the invariant.
LEMMA ReadFailsKeeps == ASSUME SesInv, ReadFails PROVE SesInv'
<1>1. /\ spc = "read" /\ spc' = "abort" /\ failure' = IF failure = "none" THEN "body" ELSE failure
      /\ UNCHANGED <<body, mode, pos, order, accs, accBytes, points, chunks, lostChunks, droppedBy, exportFailed, ctxDone, after, flushErr>>
  BY DEF ReadFails, Abort, convVars
<1>2. BodyInv' /\ PlaceInv' /\ AccInv' /\ ReadInv'
  <2>1. failure = "none"
    BY <1>1 DEF SesInv, StepInv
  <2> QED BY <1>1, <2>1, QuietKeeps
<1>3. StepInv'
  BY <1>1 DEF SesInv, StepInv
<1> QED BY <1>2, <1>3 DEF SesInv

\* A step of Deadline keeps the invariant.
LEMMA DeadlineKeeps == ASSUME SesInv, Deadline PROVE SesInv'
<1>1. /\ ctxDone' = TRUE /\ spc # "done"
      /\ UNCHANGED <<body, mode, pos, order, accs, accBytes, points, chunks, lostChunks, droppedBy, exportFailed, spc, after, flushErr, failure>>
  BY DEF Deadline, convVars
<1>2. BodyInv' /\ PlaceInv' /\ AccInv' /\ ReadInv'
  BY <1>1, QuietKeeps
<1>3. StepInv'
  BY <1>1 DEF SesInv, StepInv
<1> QED BY <1>2, <1>3 DEF SesInv

\* A step of BodyEnds keeps the invariant.
LEMMA BodyEndsKeeps == ASSUME SesInv, BodyEnds PROVE SesInv'
<1>1. spc = "read" /\ pos = Len(body) /\ FlushFamily("last")
  BY DEF BodyEnds
<1>2. ~exportFailed
  BY <1>1 DEF SesInv, StepInv
<1> QED BY <1>1, <1>2, FlushFamilyKeeps

\* A step of AbortScrape keeps the invariant.
LEMMA AbortScrapeKeeps == ASSUME SesInv, AbortScrape PROVE SesInv'
<1>1. CASE Salvage
  <2>1. spc = "abort" /\ FlushFamily("last") /\ ~exportFailed
    BY <1>1 DEF AbortScrape, Salvage
  <2>2. failure # "none"
    BY <2>1 DEF SesInv, StepInv
  <2> QED BY <2>1, <2>2, FlushFamilyKeeps
<1>2. CASE ~Salvage
  <2>1. /\ spc = "abort" /\ spc' = "done"
        /\ UNCHANGED <<body, mode, pos, order, accs, accBytes, points, chunks, lostChunks, droppedBy, exportFailed, ctxDone, after, flushErr, failure>>
    BY <1>2 DEF AbortScrape, convVars
  <2>2. BodyInv' /\ PlaceInv' /\ AccInv' /\ ReadInv'
    BY <2>1, QuietKeeps
  <2>3. StepInv'
    BY <2>1, <1>2 DEF SesInv, StepInv, Salvage
  <2> QED BY <2>2, <2>3 DEF SesInv
<1> QED BY <1>1, <1>2

\* The chunk that is being filled is exported, between two families or at the end.
LEMMA ExportPointsKeeps ==
  ASSUME SesInv, ~exportFailed, points # <<>>, NEW goOn, NEW onFailure, Export(points, goOn, onFailure),
         UNCHANGED <<body, mode, pos, order, accs, accBytes, droppedBy>>,
         spc # "flush"
  PROVE  BodyInv' /\ PlaceInv' /\ AccInv' /\ ReadInv' /\ Moved(points, goOn, onFailure) /\ points' = <<>>
<1>1. /\ points \in Seq(SUBSET Nat) /\ Apart(points) /\ InPoints(chunks) \cap InChunk(points) = {}
      /\ InChunk(points) \subseteq 1..pos /\ InChunk(points) \cap DOMAIN droppedBy = {}
      /\ Open \cap (InPoints(chunks) \cup InChunk(points)) = {}
      /\ mode = "text" => Len(points) <= BatchPoints
  BY SessionTypes DEF SesInv, PlaceInv
<1>2. Moved(points, goOn, onFailure) /\ points' = <<>>
  BY <1>1, ExportMoves
<1>3. AccInv' /\ Open' = Open
  BY AccSame, SessionTypes
<1>4. pos \in Nat /\ pos <= Len(body) /\ {i \in 1..pos : i > pos} = {}
  BY SessionTypes
<1>5. BodyInv' /\ PlaceInv' /\ ReadInv'
  BY <1>1, <1>2, <1>3, <1>4, MovedKeeps
<1> QED BY <1>2, <1>3, <1>5

\* A step of LastChunk keeps the invariant.
LEMMA LastChunkKeeps == ASSUME SesInv, LastChunk PROVE SesInv'
<1>1. spc = "last" /\ UNCHANGED <<body, mode, pos, order, accs, accBytes, droppedBy, ctxDone, after, flushErr>>
  BY DEF LastChunk, convVars
<1>2. ~exportFailed /\ order = <<>>
  BY <1>1 DEF SesInv, StepInv
<1>3. CASE points = <<>>
  <2>1. spc' = "done" /\ UNCHANGED <<points, chunks, lostChunks, exportFailed, failure>>
    BY <1>3 DEF LastChunk
  <2>2. BodyInv' /\ PlaceInv' /\ AccInv' /\ ReadInv'
    BY <1>1, <2>1, QuietKeeps
  <2>3. StepInv'
    BY <1>1, <1>2, <1>3, <2>1 DEF SesInv, StepInv
  <2> QED BY <2>2, <2>3 DEF SesInv
<1>4. CASE points # <<>>
  <2>1. Export(points, "done", "done")
    BY <1>4 DEF LastChunk
  <2>2. BodyInv' /\ PlaceInv' /\ AccInv' /\ ReadInv' /\ Moved(points, "done", "done") /\ points' = <<>>
    BY <1>1, <1>2, <1>4, <2>1, ExportPointsKeeps
  <2>3. StepInv'
    BY <1>1, <1>2, <2>2 DEF SesInv, StepInv, Moved
  <2> QED BY <2>2, <2>3 DEF SesInv
<1> QED BY <1>3, <1>4

\* A step of ChunkAfterFlush keeps the invariant.
LEMMA ChunkAfterFlushKeeps == ASSUME SesInv, ChunkAfterFlush PROVE SesInv'
<1>1. spc = "chunk" /\ UNCHANGED <<body, mode, pos, order, accs, accBytes, droppedBy, ctxDone, after, flushErr>>
  BY DEF ChunkAfterFlush, convVars
<1>2. ~exportFailed /\ failure = "none"
  BY <1>1 DEF SesInv, StepInv
<1>3. CASE points = <<>>
  <2>1. spc' = "read" /\ UNCHANGED <<points, chunks, lostChunks, exportFailed, failure>>
    BY <1>3 DEF ChunkAfterFlush
  <2>2. BodyInv' /\ PlaceInv' /\ AccInv' /\ ReadInv'
    BY <1>1, <2>1, QuietKeeps
  <2>3. StepInv'
    BY <1>1, <1>2, <2>1 DEF SesInv, StepInv
  <2> QED BY <2>2, <2>3 DEF SesInv
<1>4. CASE points # <<>>
  <2>1. Export(points, "read", "abort")
    BY <1>4 DEF ChunkAfterFlush
  <2>2. BodyInv' /\ PlaceInv' /\ AccInv' /\ ReadInv' /\ Moved(points, "read", "abort")
    BY <1>1, <1>2, <1>4, <2>1, ExportPointsKeeps
  <2>3. StepInv'
    BY <1>1, <1>2, <2>2 DEF SesInv, StepInv, Moved
  <2> QED BY <2>2, <2>3 DEF SesInv
<1> QED BY <1>3, <1>4

\* A step of FlushIfFull keeps the invariant.
LEMMA FlushIfFullKeeps == ASSUME SesInv, FlushIfFull PROVE SesInv'
<1>1. spc \in {"read", "full"} /\ Full(points)
  BY DEF FlushIfFull, FamilyEnds, SesInv, StepInv
<1>2. ~exportFailed /\ failure = "none"
  BY <1>1 DEF SesInv, StepInv
<1>3. CASE order # <<>>
  <2>1. FlushFamily("chunk")
    BY <1>3 DEF FlushIfFull
  <2> QED BY <1>2, <2>1, FlushFamilyKeeps
<1>4. CASE order = <<>>
  <2>1. /\ Export(points, "read", "abort")
        /\ UNCHANGED <<body, mode, pos, order, accs, accBytes, droppedBy, ctxDone, after, flushErr>>
    BY <1>4 DEF FlushIfFull, convVars
  <2>2. points # <<>>
    <3>1. Len(points) >= BatchPoints
      BY <1>1 DEF Full
    <3> QED BY <3>1, SessionTypes
  <2>3. BodyInv' /\ PlaceInv' /\ AccInv' /\ ReadInv' /\ Moved(points, "read", "abort")
    BY <1>1, <1>2, <2>1, <2>2, ExportPointsKeeps
  <2>4. StepInv'
    BY <1>1, <1>2, <2>1, <2>3 DEF SesInv, StepInv, Moved
  <2> QED BY <2>3, <2>4 DEF SesInv
<1> QED BY <1>3, <1>4

\* A step of FlushEnd keeps the invariant.
LEMMA FlushEndKeeps == ASSUME SesInv, FlushEnd PROVE SesInv'
<1>1. /\ spc = "flush" /\ order = <<>> /\ accs' = [k \in {} |-> {}] /\ accBytes' = 0
      /\ spc' = IF flushErr THEN IF after = "last" THEN "done" ELSE "abort" ELSE after
      /\ UNCHANGED <<body, mode, pos, order, points, chunks, lostChunks, droppedBy, exportFailed, ctxDone, after, flushErr, failure>>
  BY DEF FlushEnd
<1>2. DOMAIN order = {} /\ DOMAIN accs' = {} /\ Len(order) = 0
  BY <1>1
<1>3. Open = {} /\ Open' = {}
  BY <1>1, <1>2, OpenIs
<1>4. BodyInv'
  BY <1>1 DEF SesInv, BodyInv
<1>5. PlaceInv'
  BY <1>1, <1>3 DEF SesInv, PlaceInv, SentTwice
<1>6. AccInv'
  <2>1. Retained' = {}
    BY <1>2 DEF Retained
  <2>2. IsFiniteSet(Retained') /\ Cardinality(Retained') = 0
    BY <2>1, FS_EmptySet
  <2>3. order' \in Seq(DOMAIN accs') /\ accs' \in [DOMAIN accs' -> SUBSET Nat] /\ Len(order') = 0
    BY <1>1, <1>2
  <2>4. accBytes' \in Nat /\ accBytes' <= MaxFamilyAcc /\ accBytes' = 0
    BY <1>1, SessionTypes
  <2> QED BY <1>2, <2>2, <2>3, <2>4 DEF AccInv
<1>7. ReadInv'
  BY <1>1, <1>3 DEF SesInv, ReadInv
<1>8. StepInv'
  BY <1>1 DEF SesInv, StepInv, Salvage
<1> QED BY <1>4, <1>5, <1>6, <1>7, <1>8 DEF SesInv

\* A step of FlushOne keeps the invariant.
LEMMA FlushOneKeeps == ASSUME SesInv, FlushOne PROVE SesInv'
<1> DEFINE X == accs[Head(order)]
           ps == AddAccumulated(points, X)
<1>1. /\ spc = "flush" /\ order # <<>> /\ order' = Tail(order)
      /\ flushErr' = (flushErr \/ lostChunks' # lostChunks)
      /\ UNCHANGED <<body, mode, pos, accs, accBytes, droppedBy, ctxDone, after>>
      /\ IF flushErr THEN points' = ps /\ UNCHANGED <<chunks, lostChunks, exportFailed, failure, spc>> ELSE Check(ps, "flush", "flush")
  BY DEF FlushOne
<1>2. /\ order \in Seq(DOMAIN accs) /\ Len(order) \in Nat /\ Len(order) > 0 /\ Head(order) = order[1]
      /\ order' \in Seq(DOMAIN accs) /\ Len(order') = Len(order) - 1
      /\ \A j \in 1..Len(order') : order'[j] = order[j + 1]
  <2>1. order \in Seq(DOMAIN accs)
    BY SessionTypes
  <2> QED BY <1>1, <2>1, HeadTailProperties
<1>3. Head(order) \in DOMAIN accs /\ \A j \in 1..Len(order') : order'[j] \in DOMAIN accs /\ order'[j] # Head(order)
  BY <1>2 DEF SesInv, AccInv
<1>4. X \in SUBSET Nat /\ X \subseteq 1..pos /\ X \cap DOMAIN droppedBy = {}
  BY <1>3 DEF SesInv, AccInv
<1>5. \A x : x \in Open <=> x \in X \cup Open'
  <2>1. DOMAIN order = 1..Len(order) /\ DOMAIN order' = 1..Len(order')
    BY <1>2
  <2>2. \A j \in 1..Len(order) : j = 1 \/ (j - 1 \in 1..Len(order') /\ order'[j - 1] = order[j])
    BY <1>2
  <2>3. \A j \in 1..Len(order') : j + 1 \in 1..Len(order)
    BY <1>2
  <2>4. 1 \in 1..Len(order)
    BY <1>2
  <2>5. accs' = accs /\ X = accs[order[1]]
    BY <1>1, <1>2
  <2> HIDE DEF X, ps
  <2>6. ASSUME NEW x, x \in Open PROVE x \in X \cup Open'
    <3>1. PICK j \in 1..Len(order) : x \in accs[order[j]]
      BY <2>1, <2>6, OpenIs
    <3>2. CASE j = 1
      BY <2>5, <3>1, <3>2
    <3>3. CASE j - 1 \in 1..Len(order') /\ order'[j - 1] = order[j]
      BY <2>1, <2>5, <3>1, <3>3, OpenIs
    <3> QED BY <2>2, <3>2, <3>3
  <2>7. ASSUME NEW x, x \in X \cup Open' PROVE x \in Open
    <3>1. CASE x \in X
      BY <2>1, <2>4, <2>5, <3>1, OpenIs
    <3>2. CASE x \in Open'
      <4>1. PICK j \in 1..Len(order') : x \in accs[order'[j]]
        BY <2>1, <2>5, <3>2, OpenIs
      <4>2. order'[j] = order[j + 1] /\ j + 1 \in 1..Len(order)
        BY <1>2, <2>3
      <4> QED BY <2>1, <4>1, <4>2, OpenIs
    <3> QED BY <2>7, <3>1, <3>2
  <2> QED BY <2>6, <2>7
<1>6. X \cap Open' = {}
  <2>1. \A j \in 1..Len(order') : accs[order'[j]] \cap X = {}
    BY <1>3 DEF SesInv, AccInv
  <2>2. DOMAIN order' = 1..Len(order')
    BY <1>2
  <2> QED BY <1>1, <2>1, <2>2, OpenIs
<1>7. points \in Seq(SUBSET Nat) /\ Apart(points) /\ InPoints(chunks) \cap InChunk(points) = {}
      /\ Open \cap (InPoints(chunks) \cup InChunk(points)) = {}
      /\ InChunk(points) \subseteq 1..pos /\ InChunk(points) \cap DOMAIN droppedBy = {}
  BY DEF SesInv, PlaceInv
<1>8. /\ ps \in Seq(SUBSET Nat) /\ Len(ps) = Len(points) + 1 /\ ps # <<>> /\ Apart(ps)
      /\ \A x : x \in InChunk(ps) <=> x \in InChunk(points) \cup X
  <2>1. X \cap InChunk(points) = {}
    BY <1>5, <1>7
  <2>2. ps = Append(points, X)
    BY DEF AddAccumulated
  <2> HIDE DEF X, ps
  <2> QED BY <1>4, <1>7, <2>1, <2>2, PointAdded
<1> HIDE DEF X, ps
<1>9. InPoints(chunks) \cap InChunk(ps) = {}
  BY <1>5, <1>7, <1>8
<1>10. Moved(ps, "flush", "flush")
  <2>1. CASE flushErr
    <3>1. points' = ps /\ UNCHANGED <<chunks, lostChunks, exportFailed, failure, spc>> /\ exportFailed
      BY <1>1, <2>1 DEF SesInv, StepInv
    <3>2. Chunked(chunks, mode) /\ lostChunks \in Seq(Seq(SUBSET Nat))
      BY ChunkedIs DEF SesInv, PlaceInv
    <3> QED BY <3>1, <3>2, <1>1, <1>8, <1>9 DEF Moved
  <2>2. CASE ~flushErr
    <3>1. ~exportFailed
      BY <1>1, <2>2 DEF SesInv, StepInv
    <3>2. mode = "text" => Len(ps) <= BatchPoints
      <4>1. mode = "text" => Len(points) < BatchPoints
        BY <3>1 DEF SesInv, PlaceInv
      <4> QED BY <4>1, <1>8, SessionTypes
    <3>3. Check(ps, "flush", "flush")
      BY <1>1, <2>2
    <3> QED BY <3>1, <3>2, <3>3, <1>8, <1>9, CheckMoves
  <2> QED BY <2>1, <2>2 DEF SesInv, StepInv
<1>11. BodyInv' /\ PlaceInv' /\ ReadInv'
  <2>1. pos \in Nat /\ pos <= Len(body) /\ {i \in 1..pos : i > pos} = {}
    BY SessionTypes
  <2>2. InChunk(ps) \subseteq 1..pos /\ InChunk(ps) \cap DOMAIN droppedBy = {}
    BY <1>4, <1>7, <1>8
  <2>3. Open' \cap (InPoints(chunks) \cup InChunk(ps)) = {}
    BY <1>5, <1>6, <1>7, <1>8
  <2>4. InChunk(points) \cup Open \subseteq InChunk(ps) \cup Open'
    BY <1>5, <1>8
  <2> QED BY <1>1, <1>10, <2>1, <2>2, <2>3, <2>4, MovedKeeps
<1>12. AccInv'
  <2>1. Retained' = Retained
    BY <1>1 DEF Retained
  <2>2. \A i, j \in 1..Len(order') : order'[i] = order'[j] => i = j
    <3> SUFFICES ASSUME NEW i \in 1..Len(order'), NEW j \in 1..Len(order'), order'[i] = order'[j] PROVE i = j
      OBVIOUS
    <3>1. i + 1 \in 1..Len(order) /\ j + 1 \in 1..Len(order) /\ order[i + 1] = order[j + 1]
      BY <1>2
    <3>2. i + 1 = j + 1
      BY <3>1 DEF SesInv, AccInv
    <3> QED BY <3>2, <1>2
  <2>3. spc' = "flush"
    BY <1>1, <1>10 DEF Moved
  <2>4. order' \in Seq(DOMAIN accs')
    BY <1>1, <1>2
  <2> QED BY <1>1, <2>1, <2>2, <2>3, <2>4 DEF SesInv, AccInv
<1>13. StepInv'
  <2>1. spc' = "flush" /\ after' = after /\ mode' = mode /\ ctxDone' = ctxDone /\ pos' = pos /\ body' = body
    BY <1>1, <1>10 DEF Moved
  <2>2. CASE UNCHANGED <<lostChunks, exportFailed, failure>>
    <3>1. flushErr' = flushErr
      BY <1>1, <2>2 DEF SesInv, StepInv
    <3> QED BY <1>1, <2>1, <2>2, <3>1 DEF SesInv, StepInv
  <2>3. CASE /\ exportFailed' = TRUE /\ lostChunks' # <<>> /\ Len(lostChunks') <= 1 /\ ~flushErr
             /\ failure' = IF failure = "none" THEN "export" ELSE failure
    <3>1. flushErr' = TRUE
      BY <1>1, <2>3 DEF SesInv, StepInv
    <3> QED BY <1>1, <2>1, <2>3, <3>1 DEF SesInv, StepInv
  <2>4. flushErr => UNCHANGED <<lostChunks, exportFailed, failure>>
    BY <1>1
  <2> QED BY <1>10, <2>2, <2>3, <2>4 DEF Moved
<1> QED BY <1>11, <1>12, <1>13 DEF SesInv

\* While it reads, nothing has failed.
LEMMA ReadingIs ==
  ASSUME SesInv, spc = "read"
  PROVE  ~exportFailed /\ failure = "none" /\ lostChunks = <<>>
BY DEF SesInv, StepInv

\* The next sample is nowhere yet.
LEMMA NextIsNew ==
  ASSUME SesInv
  PROVE  /\ pos + 1 \notin InPoints(chunks) \cup InChunk(points) \cup Open \cup DOMAIN droppedBy
         /\ \A k \in DOMAIN accs : pos + 1 \notin accs[k]
<1>1. pos \in Nat /\ pos + 1 \notin 1..pos
  BY SessionTypes
<1>2. InPoints(chunks) \cup InChunk(points) \cup DOMAIN droppedBy \subseteq 1..pos
  BY DEF SesInv, PlaceInv
<1>3. \A k \in DOMAIN accs : accs[k] \subseteq 1..pos
  BY DEF SesInv, AccInv
<1>4. pos + 1 \notin Open
  <2> SUFFICES ASSUME pos + 1 \in Open PROVE FALSE
    OBVIOUS
  <2>1. PICK j \in DOMAIN order : pos + 1 \in accs[order[j]]
    BY OpenIs
  <2>2. order[j] \in DOMAIN accs
    BY SessionTypes
  <2> QED BY <1>1, <1>3, <2>1, <2>2
<1> QED BY <1>1, <1>2, <1>3, <1>4

\* The sample that is one too many.
LEMMA OverKeeps ==
  ASSUME SesInv, spc = "read", pos < Len(body), pos' = pos + 1, Abort("limit")
  PROVE  SesInv'
<1>1. /\ spc' = "abort" /\ failure' = "limit" /\ failure = "none" /\ ~exportFailed
      /\ UNCHANGED <<body, mode, order, accs, accBytes, points, chunks, lostChunks, droppedBy, exportFailed, ctxDone, after, flushErr>>
  BY ReadingIs DEF Abort, convVars
<1>2. pos \in Nat /\ pos' \in Nat /\ pos <= pos' /\ pos' <= Len(body) /\ Len(body) \in Nat /\ 1..pos \subseteq 1..pos'
      /\ \A i \in 1..pos' : i \in 1..pos \/ i = pos'
  BY SessionTypes
<1>3. AccInv' /\ Open' = Open
  BY <1>1, <1>2, AccSame
<1>4. BodyInv'
  BY <1>1, <1>2 DEF SesInv, BodyInv
<1>5. StepInv'
  BY <1>1 DEF SesInv, StepInv
<1>6. PlaceInv'
  BY <1>1, <1>2, <1>3 DEF SesInv, PlaceInv, SentTwice
<1>7. ReadInv'
  BY <1>1, <1>2, <1>3 DEF SesInv, ReadInv
<1> QED BY <1>3, <1>4, <1>5, <1>6, <1>7 DEF SesInv

\* A sample that is dropped is counted.
LEMMA DropIs ==
  ASSUME NEW i, NEW why, Drop(i, why)
  PROVE  DOMAIN droppedBy' = DOMAIN droppedBy \cup {i}
BY DEF Drop

\* What a step that reads one sample without a chunk leaves to be shown: where the sample is.
LEMMA ReadOneKeeps ==
  ASSUME SesInv, spc = "read", pos < Len(body), pos' = pos + 1,
         UNCHANGED <<body, mode, points, chunks, lostChunks, exportFailed, failure, spc, ctxDone, after, flushErr>>,
         AccInv', NEW d \in SUBSET {pos + 1}, DOMAIN droppedBy' = DOMAIN droppedBy \cup d,
         NEW o \in SUBSET {pos + 1}, \A x : x \in Open' <=> x \in Open \cup o,
         pos + 1 \in d \cup o
  PROVE  SesInv'
<1>1. pos \in Nat /\ pos' \in Nat /\ pos <= pos' /\ pos' <= Len(body) /\ Len(body) \in Nat /\ 1..pos \subseteq 1..pos'
      /\ pos' \in 1..pos' /\ \A i \in 1..pos' : i \in 1..pos \/ i = pos'
  BY SessionTypes
<1>2. BodyInv'
  BY <1>1 DEF SesInv, BodyInv
<1>3. StepInv'
  BY DEF SesInv, StepInv
<1>4. PlaceInv'
  <2>1. /\ points' \in Seq(SUBSET Nat) /\ chunks' \in Seq(Seq(SUBSET Nat)) /\ lostChunks' \in Seq(Seq(SUBSET Nat))
        /\ ~SentTwice' /\ Apart(points') /\ InPoints(chunks') \cap InChunk(points') = {}
        /\ \A c \in DOMAIN chunks' : chunks'[c] # <<>> /\ (mode' = "text" => Len(chunks'[c]) <= BatchPoints)
        /\ mode' = "text" /\ ~exportFailed' => Len(points') < BatchPoints
    BY DEF SesInv, PlaceInv, SentTwice
  <2>2. Open' \cap (InPoints(chunks) \cup InChunk(points)) = {}
    <3>1. Open \cap (InPoints(chunks) \cup InChunk(points)) = {}
      BY DEF SesInv, PlaceInv
    <3> QED BY <3>1, NextIsNew
  <2>3. (InPoints(chunks) \cup InChunk(points)) \cap DOMAIN droppedBy' = {}
    <3>1. (InPoints(chunks) \cup InChunk(points)) \cap DOMAIN droppedBy = {}
      BY DEF SesInv, PlaceInv
    <3> QED BY <3>1, NextIsNew
  <2>4. InPoints(chunks) \cup InChunk(points) \cup DOMAIN droppedBy' \subseteq 1..pos'
    <3>1. InPoints(chunks) \cup InChunk(points) \cup DOMAIN droppedBy \subseteq 1..pos
      BY DEF SesInv, PlaceInv
    <3> QED BY <3>1, <1>1
  <2> QED BY <2>1, <2>2, <2>3, <2>4 DEF PlaceInv
<1>5. ReadInv'
  <2> SUFFICES ASSUME NEW i \in 1..pos'
               PROVE  i \in DOMAIN droppedBy' \cup InPoints(chunks) \cup InPoints(lostChunks) \cup InChunk(points) \cup Open'
    BY DEF ReadInv
  <2>1. CASE i = pos'
    BY <2>1
  <2>2. CASE i \in 1..pos
    <3>1. failure = "none"
      BY ReadingIs
    <3>2. i \in DOMAIN droppedBy \cup InPoints(chunks) \cup InPoints(lostChunks) \cup InChunk(points) \cup Open
      BY <2>2, <3>1 DEF SesInv, ReadInv
    <3> QED BY <3>2
  <2> QED BY <1>1, <2>1, <2>2
<1> QED BY <1>2, <1>3, <1>4, <1>5 DEF SesInv

\* The accumulators when only droppedBy grows, by the sample that is read.
LEMMA DropKeeps ==
  ASSUME SesInv, spc = "read", pos < Len(body), pos' = pos + 1, NEW why, Drop(pos + 1, why),
         UNCHANGED <<body, mode, order, accs, accBytes, points, chunks, lostChunks, exportFailed, failure, spc, ctxDone, after, flushErr>>
  PROVE  SesInv'
<1>1. DOMAIN droppedBy' = DOMAIN droppedBy \cup {pos + 1}
  BY DropIs
<1>2. pos \in Nat /\ 1..pos \subseteq 1..pos'
  BY SessionTypes
<1>3. Open' = Open /\ Retained' = Retained
  BY DEF Open, Retained
<1>4. \A k \in DOMAIN accs : accs[k] \subseteq 1..pos' /\ accs[k] \cap DOMAIN droppedBy' = {}
  <2>1. \A k \in DOMAIN accs : accs[k] \subseteq 1..pos /\ accs[k] \cap DOMAIN droppedBy = {}
    BY DEF SesInv, AccInv
  <2> QED BY <1>1, <1>2, <2>1, NextIsNew
<1>5. AccInv'
  BY <1>3, <1>4 DEF SesInv, AccInv
<1>6. \A x : x \in Open' <=> x \in Open \cup {}
  BY <1>3
<1>7. {pos + 1} \in SUBSET {pos + 1} /\ {} \in SUBSET {pos + 1} /\ pos + 1 \in {pos + 1} \cup {}
  OBVIOUS
<1> QED BY <1>1, <1>5, <1>6, <1>7, ReadOneKeeps

\* A number becomes a point.
LEMMA NumberKeeps ==
  ASSUME SesInv, spc = "read", pos < Len(body), pos' = pos + 1, Check(AddNumber(points, pos + 1), "read", "abort"),
         UNCHANGED <<body, mode, order, accs, accBytes, droppedBy, ctxDone, after, flushErr>>
  PROVE  SesInv'
<1> DEFINE ps == AddNumber(points, pos + 1)
<1>1. ~exportFailed /\ failure = "none" /\ pos \in Nat /\ pos + 1 \in Nat /\ pos' <= Len(body) /\ pos <= pos' /\ 1..pos \subseteq 1..pos'
      /\ pos + 1 \in 1..pos' /\ {i \in 1..pos' : i > pos} = {pos + 1}
  BY SessionTypes, ReadingIs
<1>2. /\ points \in Seq(SUBSET Nat) /\ Apart(points) /\ InPoints(chunks) \cap InChunk(points) = {}
      /\ InChunk(points) \subseteq 1..pos /\ InChunk(points) \cap DOMAIN droppedBy = {}
      /\ Open \cap (InPoints(chunks) \cup InChunk(points)) = {}
      /\ mode = "text" => Len(points) < BatchPoints
  BY <1>1 DEF SesInv, PlaceInv
<1>3. /\ ps \in Seq(SUBSET Nat) /\ Len(ps) = Len(points) + 1 /\ ps # <<>> /\ Apart(ps)
      /\ \A x : x \in InChunk(ps) <=> x \in InChunk(points) \cup {pos + 1}
  <2>1. {pos + 1} \in SUBSET Nat /\ {pos + 1} \cap InChunk(points) = {}
    BY <1>1, NextIsNew
  <2>2. ps = Append(points, {pos + 1})
    BY DEF AddNumber
  <2> HIDE DEF ps
  <2> QED BY <1>2, <2>1, <2>2, PointAdded
<1>4. Check(ps, "read", "abort")
  OBVIOUS
<1> HIDE DEF ps
<1>5. InPoints(chunks) \cap InChunk(ps) = {}
  BY <1>2, <1>3, NextIsNew
<1>6. mode = "text" => Len(ps) <= BatchPoints
  BY <1>2, <1>3, SessionTypes
<1>7. Moved(ps, "read", "abort")
  BY <1>1, <1>3, <1>4, <1>5, <1>6, CheckMoves
<1>8. AccInv' /\ Open' = Open
  BY <1>1, AccSame
<1>9. BodyInv' /\ PlaceInv' /\ ReadInv'
  <2>1. InChunk(ps) \subseteq 1..pos' /\ InChunk(ps) \cap DOMAIN droppedBy = {}
    BY <1>1, <1>2, <1>3, NextIsNew
  <2>2. Open' \cap (InPoints(chunks) \cup InChunk(ps)) = {}
    BY <1>2, <1>3, <1>8, NextIsNew
  <2>3. InChunk(points) \cup Open \cup {i \in 1..pos' : i > pos} \subseteq InChunk(ps) \cup Open'
    BY <1>1, <1>3, <1>8
  <2> QED BY <1>1, <1>7, <2>1, <2>2, <2>3, MovedKeeps
<1>10. StepInv'
  <2>1. \/ spc' = "read" /\ UNCHANGED <<lostChunks, exportFailed, failure>>
        \/ /\ spc' = "abort" /\ exportFailed' = TRUE /\ lostChunks' # <<>> /\ Len(lostChunks') <= 1
           /\ failure' = "export"
    BY <1>1, <1>7 DEF Moved
  <2> QED BY <1>1, <2>1 DEF SesInv, StepInv
<1> QED BY <1>8, <1>9, <1>10 DEF SesInv

\* A native histogram becomes a point of the chunk, or is counted as malformed.
LEMMA NativeKeeps ==
  ASSUME SesInv, spc = "read", pos < Len(body), body[pos + 1].part = "native", pos' = pos + 1, AddNative(pos + 1),
         UNCHANGED <<body, mode, order, accs, accBytes, ctxDone, after, flushErr>>
  PROVE  SesInv'
<1> DEFINE ps == AddNumber(points, pos + 1)
<1>0. CASE body[pos + 1].fate = "bad"
  <2>1. Drop(pos + 1, "malformed") /\ UNCHANGED <<points, spc, chunks, lostChunks, exportFailed, failure>>
    BY <1>0 DEF AddNative
  <2> QED BY <2>1, DropKeeps
<1>1. CASE body[pos + 1].fate # "bad"
  <2>1. /\ points' = ps /\ UNCHANGED <<droppedBy, chunks, lostChunks, exportFailed, failure>>
        /\ spc' = IF Full(ps) THEN "full" ELSE "read"
    BY <1>1 DEF AddNative
  <2>2. ~exportFailed /\ failure = "none" /\ pos \in Nat /\ pos + 1 \in Nat /\ pos' <= Len(body) /\ pos <= pos' /\ 1..pos \subseteq 1..pos'
        /\ pos + 1 \in 1..pos' /\ {i \in 1..pos' : i > pos} = {pos + 1} /\ pos + 1 \in 1..Len(body)
    BY SessionTypes, ReadingIs
  <2>3. mode # "text"
    BY <2>2 DEF SesInv, BodyInv
  <2>4. /\ points \in Seq(SUBSET Nat) /\ Apart(points) /\ InPoints(chunks) \cap InChunk(points) = {}
        /\ InChunk(points) \subseteq 1..pos /\ InChunk(points) \cap DOMAIN droppedBy = {}
        /\ Open \cap (InPoints(chunks) \cup InChunk(points)) = {} /\ lostChunks \in Seq(Seq(SUBSET Nat))
    BY DEF SesInv, PlaceInv
  <2>5. /\ ps \in Seq(SUBSET Nat) /\ Apart(ps)
        /\ \A x : x \in InChunk(ps) <=> x \in InChunk(points) \cup {pos + 1}
    <3>1. {pos + 1} \in SUBSET Nat /\ {pos + 1} \cap InChunk(points) = {}
      BY <2>2, NextIsNew
    <3>2. ps = Append(points, {pos + 1})
      BY DEF AddNumber
    <3>3. points \in Seq(SUBSET Nat) /\ Apart(points) /\ InChunk(points) \in SUBSET Nat
      BY <2>4
    <3> HIDE DEF ps
    <3> QED BY ONLY <3>1, <3>2, <3>3, PointAdded
  <2> HIDE DEF ps
  <2>6. InPoints(chunks) \cap InChunk(ps) = {}
    BY <2>4, <2>5, NextIsNew
  <2>7. Moved(ps, spc', "abort")
    BY <2>1, <2>3, <2>4, <2>5, <2>6, ChunkedIs DEF SesInv, Moved
  <2>8. AccInv' /\ Open' = Open
    BY <2>1, <2>2, AccSame
  <2>9. BodyInv' /\ PlaceInv' /\ ReadInv'
    <3>1. InChunk(ps) \subseteq 1..pos' /\ InChunk(ps) \cap DOMAIN droppedBy = {}
      BY <2>2, <2>4, <2>5, NextIsNew
    <3>2. Open' \cap (InPoints(chunks) \cup InChunk(ps)) = {}
      BY <2>4, <2>5, <2>8, NextIsNew
    <3>3. InChunk(points) \cup Open \cup {i \in 1..pos' : i > pos} \subseteq InChunk(ps) \cup Open'
      BY <2>2, <2>5, <2>8
    <3> QED BY <2>1, <2>2, <2>7, <3>1, <3>2, <3>3, MovedKeeps
  <2>10. StepInv'
    <3>1. Full(points)' = Full(ps)
      BY <2>1 DEF Full
    <3> QED BY <2>1, <2>2, <3>1 DEF SesInv, StepInv
  <2> QED BY <2>8, <2>9, <2>10 DEF SesInv
<1> QED BY <1>0, <1>1

\* Every accumulator has its place in the order.
LEMMA AllOpen ==
  ASSUME NEW a, NEW o \in Seq(DOMAIN a), \A k \in DOMAIN a : \E j \in 1..Len(o) : o[j] = k
  PROVE  \A x : x \in UNION {a[o[j]] : j \in DOMAIN o} <=> \E k \in DOMAIN a : x \in a[k]
<1>1. DOMAIN o = 1..Len(o) /\ \A j \in 1..Len(o) : o[j] \in DOMAIN a
  OBVIOUS
<1> QED BY <1>1

\* A component joins the accumulator k, new or not, or is dropped against the budget.
LEMMA JoinKeeps ==
  ASSUME SesInv, spc = "read", pos < Len(body), pos' = pos + 1, NEW k, NEW Y \in SUBSET {pos + 1},
         NEW old, old = IF k \in DOMAIN accs THEN accs[k] ELSE {},
         accs' = [l \in DOMAIN accs' |-> accs'[l]], DOMAIN accs' = DOMAIN accs \cup {k}, accs'[k] = old \cup Y,
         \A l \in DOMAIN accs : l # k => accs'[l] = accs[l],
         order' = IF k \in DOMAIN accs THEN order ELSE Append(order, k),
         accBytes' \in Nat, accBytes' <= MaxFamilyAcc, accBytes <= accBytes',
         Y # {} /\ Kept(body[pos + 1]) => accBytes + 1 <= accBytes',
         DOMAIN droppedBy' = DOMAIN droppedBy \cup ({pos + 1} \ Y),
         UNCHANGED <<body, mode, points, chunks, lostChunks, exportFailed, failure, spc, ctxDone, after, flushErr>>
  PROVE  SesInv'
<1>1. pos \in Nat /\ pos + 1 \in Nat /\ 1..pos \subseteq 1..pos' /\ pos + 1 \in 1..pos'
  BY SessionTypes
<1>2. /\ order \in Seq(DOMAIN accs) /\ accs \in [DOMAIN accs -> SUBSET Nat] /\ Len(order) \in Nat
      /\ \A i, j \in 1..Len(order) : order[i] = order[j] => i = j
      /\ \A l \in DOMAIN accs : \E j \in 1..Len(order) : order[j] = l
      /\ \A l, m \in DOMAIN accs : l # m => accs[l] \cap accs[m] = {}
      /\ \A l \in DOMAIN accs : accs[l] \subseteq 1..pos /\ accs[l] \cap DOMAIN droppedBy = {}
      /\ accBytes \in Nat /\ IsFiniteSet(Retained) /\ Cardinality(Retained) <= accBytes
      /\ \A j \in 1..Len(order) : order[j] \in DOMAIN accs
  BY SessionTypes DEF SesInv, AccInv
<1>3. /\ DOMAIN accs' = DOMAIN accs \cup {k} /\ accs'[k] = old \cup Y
      /\ \A l \in DOMAIN accs : l # k => accs'[l] = accs[l]
  OBVIOUS
<1>4. \A l \in DOMAIN accs : pos + 1 \notin accs[l]
  BY NextIsNew
<1>5. old \subseteq 1..pos /\ old \cap DOMAIN droppedBy = {} /\ pos + 1 \notin old /\ old \in SUBSET Nat
      /\ \A l \in DOMAIN accs : l # k => accs[l] \cap old = {}
  BY <1>1, <1>2, <1>4
<1>6. \A l \in DOMAIN accs' : accs'[l] \in SUBSET Nat
  BY <1>1, <1>2, <1>3, <1>5
<1>7. \A l, m \in DOMAIN accs' : l # m => accs'[l] \cap accs'[m] = {}
  <2>1. \A l \in DOMAIN accs : l # k => accs'[l] \cap accs'[k] = {}
    <3> SUFFICES ASSUME NEW l \in DOMAIN accs, l # k PROVE accs'[l] \cap accs'[k] = {}
      OBVIOUS
    <3>1. accs'[l] = accs[l] /\ accs'[k] = old \cup Y /\ accs[l] \cap old = {} /\ pos + 1 \notin accs[l] /\ Y \subseteq {pos + 1}
      BY <1>3, <1>4, <1>5
    <3> QED BY ONLY <3>1
  <2>2. \A l, m \in DOMAIN accs : l # k /\ m # k /\ l # m => accs'[l] \cap accs'[m] = {}
    BY <1>2, <1>3
  <2> QED BY <1>3, <2>1, <2>2
<1>8. \A l \in DOMAIN accs' : accs'[l] \subseteq 1..pos' /\ accs'[l] \cap DOMAIN droppedBy' = {}
  <2>1. accs'[k] \subseteq 1..pos' /\ accs'[k] \cap DOMAIN droppedBy' = {}
    <3>1. \A x \in accs'[k] : x \in 1..pos' /\ x \notin DOMAIN droppedBy'
      BY <1>1, <1>3, <1>5, NextIsNew
    <3> QED BY <3>1
  <2>2. ASSUME NEW l \in DOMAIN accs, l # k PROVE accs'[l] \subseteq 1..pos' /\ accs'[l] \cap DOMAIN droppedBy' = {}
    <3>1. accs'[l] = accs[l]
      BY <1>3, <2>2
    <3>2. accs[l] \subseteq 1..pos /\ accs[l] \cap DOMAIN droppedBy = {} /\ pos + 1 \notin accs[l]
      BY <1>2, <1>4
    <3>3. DOMAIN droppedBy' = DOMAIN droppedBy \cup ({pos + 1} \ Y) /\ 1..pos \subseteq 1..pos'
      BY <1>1
    <3> QED BY ONLY <3>1, <3>2, <3>3
  <2> QED BY <1>3, <2>1, <2>2
<1>9. /\ order' \in Seq(DOMAIN accs')
      /\ \A i, j \in 1..Len(order') : order'[i] = order'[j] => i = j
      /\ \A l \in DOMAIN accs' : \E j \in 1..Len(order') : order'[j] = l
  <2>1. CASE k \in DOMAIN accs
    <3>1. order' = order /\ DOMAIN accs' = DOMAIN accs
      BY <1>3, <2>1
    <3> QED BY <1>2, <3>1
  <2>2. CASE k \notin DOMAIN accs
    <3>1. order \in Seq(DOMAIN accs') /\ k \in DOMAIN accs'
      <4>1. DOMAIN accs \subseteq DOMAIN accs' /\ k \in DOMAIN accs'
        BY <1>3
      <4>2. \A S, T : S \subseteq T => Seq(S) \subseteq Seq(T)
        OBVIOUS
      <4> QED BY <1>2, <4>1, <4>2
    <3>2. order' = Append(order, k)
      BY <2>2
    <3>3. /\ order' \in Seq(DOMAIN accs') /\ Len(order') = Len(order) + 1
          /\ \A j \in 1..Len(order) : order'[j] = order[j]
          /\ order'[Len(order) + 1] = k
      BY <3>1, <3>2, AppendProperties
    <3>4. /\ \A j \in 1..Len(order') : j \in 1..Len(order) \/ j = Len(order) + 1
          /\ \A j \in 1..Len(order) : j \in 1..Len(order')
          /\ Len(order) + 1 \in 1..Len(order')
      BY <1>2, <3>3
    <3>5. \A j \in 1..Len(order) : order'[j] # k
      <4> SUFFICES ASSUME NEW j \in 1..Len(order), order'[j] = k PROVE FALSE
        OBVIOUS
      <4>1. order[j] \in DOMAIN accs /\ order'[j] = order[j]
        BY <1>2, <3>3
      <4> QED BY ONLY <2>2, <4>1, order'[j] = k
    <3>6. \A i, j \in 1..Len(order') : order'[i] = order'[j] => i = j
      <4> SUFFICES ASSUME NEW i \in 1..Len(order'), NEW j \in 1..Len(order'), order'[i] = order'[j] PROVE i = j
        OBVIOUS
      <4>1. CASE i \in 1..Len(order) /\ j \in 1..Len(order)
        <5>1. order[i] = order[j]
          BY <3>3, <4>1
        <5> QED BY <1>2, <4>1, <5>1
      <4>2. CASE i \in 1..Len(order) /\ j = Len(order) + 1
        BY <3>3, <3>5, <4>2
      <4>3. CASE j \in 1..Len(order) /\ i = Len(order) + 1
        BY <3>3, <3>5, <4>3
      <4> QED BY <3>4, <4>1, <4>2, <4>3
    <3>7. \A l \in DOMAIN accs' : \E j \in 1..Len(order') : order'[j] = l
      BY <1>2, <1>3, <3>3, <3>4
    <3> QED BY <3>3, <3>6, <3>7
  <2> QED BY <2>1, <2>2
<1>10. /\ \A x : (\E l \in DOMAIN accs : x \in accs[l]) \/ x \in Y <=> \E l \in DOMAIN accs' : x \in accs'[l]
  BY <1>3
<1>11. \A x : x \in Open' <=> x \in Open \cup Y
  <2>1. \A x : x \in Open <=> \E l \in DOMAIN accs : x \in accs[l]
    <3>1. \A x : x \in UNION {accs[order[j]] : j \in DOMAIN order} <=> \E l \in DOMAIN accs : x \in accs[l]
      <4>1. order \in Seq(DOMAIN accs) /\ \A l \in DOMAIN accs : \E j \in 1..Len(order) : order[j] = l
        BY <1>2
      <4> QED BY ONLY <4>1, AllOpen
    <3> QED BY ONLY <3>1 DEF Open
  <2>2. \A x : x \in Open' <=> \E l \in DOMAIN accs' : x \in accs'[l]
    <3>1. \A x : x \in UNION {accs'[order'[j]] : j \in DOMAIN order'} <=> \E l \in DOMAIN accs' : x \in accs'[l]
      BY ONLY <1>9, AllOpen
    <3> QED BY ONLY <3>1 DEF Open
  <2> QED BY <1>10, <2>1, <2>2
<1>12. IsFiniteSet(Retained') /\ Cardinality(Retained') <= accBytes'
  <2>1. \A x : x \in Retained' <=> (x \in Retained \/ (x \in Y /\ Kept(body[x])))
    <3>1. \A x : x \in Retained <=> (\E l \in DOMAIN accs : x \in accs[l]) /\ Kept(body[x])
      BY ONLY TRUE DEF Retained
    <3>2. \A x : x \in Retained' <=> (\E l \in DOMAIN accs' : x \in accs'[l]) /\ Kept(body'[x])
      BY ONLY TRUE DEF Retained, Kept
    <3>3. body' = body
      OBVIOUS
    <3> QED BY ONLY <1>10, <3>1, <3>2, <3>3
  <2>2. pos + 1 \notin Retained
    BY <1>4 DEF Retained
  <2>3. CASE Y # {} /\ Kept(body[pos + 1])
    <3>1. Retained' = Retained \cup {pos + 1}
      BY <2>1, <2>3
    <3>2. IsFiniteSet(Retained') /\ Cardinality(Retained') = Cardinality(Retained) + 1
      BY <1>2, <2>2, <3>1, FS_AddElement
    <3>3. Cardinality(Retained) \in Nat
      BY <1>2, FS_CardinalityType
    <3> QED BY <1>2, <2>3, <3>2, <3>3
  <2>4. CASE ~(Y # {} /\ Kept(body[pos + 1]))
    <3>1. Retained' = Retained
      BY <2>1, <2>4
    <3>2. Cardinality(Retained) \in Nat
      BY <1>2, FS_CardinalityType
    <3> QED BY <1>2, <3>1, <3>2
  <2> QED BY <2>3, <2>4
<1>13. AccInv'
  <2>1. accs' \in [DOMAIN accs' -> SUBSET Nat]
    <3>1. accs' = [l \in DOMAIN accs' |-> accs'[l]]
      OBVIOUS
    <3> QED BY <1>6, <3>1
  <2> QED BY <2>1, <1>7, <1>8, <1>9, <1>12 DEF AccInv
<1>14. {pos + 1} \ Y \in SUBSET {pos + 1} /\ pos + 1 \in ({pos + 1} \ Y) \cup Y
  OBVIOUS
<1> QED BY <1>11, <1>13, <1>14, ReadOneKeeps

\* A sample that is converted: a number, a malformed one, a component.
LEMMA AddSampleKeeps ==
  ASSUME SesInv, spc = "read", pos < Len(body), pos' = pos + 1, AddSample(pos + 1), UNCHANGED <<body, mode, ctxDone, after, flushErr>>
  PROVE  SesInv'
<1> DEFINE s == body[pos + 1]
           k == AccKey(s)
           known == k \in DOMAIN accs
           opens == known \/ accBytes + 1 <= MaxFamilyAcc
           base == accBytes + (IF known THEN 0 ELSE 1)
           fits == opens /\ accBytes + Cost(s, known) <= MaxFamilyAcc
           old == IF k \in DOMAIN accs THEN accs[k] ELSE {}
           Y == IF fits THEN {pos + 1} ELSE {}
<1>1. CASE /\ Check(AddNumber(points, pos + 1), "read", "abort")
           /\ UNCHANGED <<order, accs, accBytes, droppedBy>>
  BY <1>1, NumberKeeps
<1>2. CASE /\ Drop(pos + 1, "malformed")
           /\ UNCHANGED <<order, accs, accBytes, points, chunks, lostChunks, exportFailed, failure, spc>>
  BY <1>2, DropKeeps
<1>3. CASE /\ accs' = IF opens THEN [x \in DOMAIN accs \cup {k} |->
                                        IF x # k THEN accs[x]
                                        ELSE (IF known THEN accs[x] ELSE {}) \cup (IF fits THEN {pos + 1} ELSE {})]
                       ELSE accs
           /\ order' = IF known \/ ~opens THEN order ELSE Append(order, k)
           /\ accBytes' = IF fits THEN accBytes + Cost(s, known) ELSE IF opens THEN base ELSE accBytes
           /\ IF fits THEN UNCHANGED droppedBy ELSE Drop(pos + 1, "accumulator")
           /\ UNCHANGED <<points, chunks, lostChunks, exportFailed, failure, spc>>
  <2>1. CASE ~opens
    <3>1. accs' = accs /\ order' = order /\ accBytes' = accBytes /\ Drop(pos + 1, "accumulator")
      BY <1>3, <2>1
    <3> QED BY <1>3, <3>1, DropKeeps
  <2>2. CASE opens
    <3>1. accs' = [x \in DOMAIN accs \cup {k} |-> IF x # k THEN accs[x] ELSE old \cup Y]
      BY <1>3, <2>2
    <3>2. order' = IF k \in DOMAIN accs THEN order ELSE Append(order, k)
      BY <1>3, <2>2
    <3>3. DOMAIN droppedBy' = DOMAIN droppedBy \cup ({pos + 1} \ Y)
      BY <1>3, DropIs
    <3>4. accBytes \in Nat /\ accBytes <= MaxFamilyAcc /\ MaxFamilyAcc \in Nat
      BY SessionTypes DEF SesInv, AccInv
    <3>5. /\ accBytes' \in Nat /\ accBytes' <= MaxFamilyAcc /\ accBytes <= accBytes'
          /\ Y # {} /\ Kept(s) => accBytes + 1 <= accBytes'
      <4>1. CASE fits
        <5>1. accBytes' = accBytes + Cost(s, known) /\ accBytes + Cost(s, known) <= MaxFamilyAcc
          BY <1>3, <4>1
        <5>2. Cost(s, known) \in Nat /\ (Kept(s) => 1 <= Cost(s, known))
          BY DEF Cost
        <5> HIDE DEF s, known, fits
        <5> PICK c \in Nat : c = Cost(s, known)
          BY <5>2
        <5> QED BY <3>4, <5>1, <5>2
      <4>2. CASE ~fits
        <5>1. accBytes' = base /\ Y = {}
          BY <1>3, <2>2, <4>2
        <5>2. base \in Nat /\ base <= MaxFamilyAcc /\ accBytes <= base
          BY <2>2, <3>4
        <5> QED BY <5>1, <5>2
      <4> QED BY <4>1, <4>2
    <3>6. Y \in SUBSET {pos + 1}
      OBVIOUS
    <3>7. old = IF k \in DOMAIN accs THEN accs[k] ELSE {}
      OBVIOUS
    <3>8. Y # {} /\ Kept(body[pos + 1]) => accBytes + 1 <= accBytes'
      BY <3>5
    <3>9. UNCHANGED <<body, mode, points, chunks, lostChunks, exportFailed, failure, spc, ctxDone, after, flushErr>>
      BY <1>3
    <3>10. /\ accs' = [l \in DOMAIN accs' |-> accs'[l]] /\ DOMAIN accs' = DOMAIN accs \cup {k} /\ accs'[k] = old \cup Y
           /\ \A l \in DOMAIN accs : l # k => accs'[l] = accs[l]
      <4> HIDE DEF k, Y, old
      <4> QED BY ONLY <3>1
    <3>11. accBytes' \in Nat /\ accBytes' <= MaxFamilyAcc /\ accBytes <= accBytes'
      BY <3>5
    <3>12. SesInv /\ spc = "read" /\ pos < Len(body) /\ pos' = pos + 1
      OBVIOUS
    <3> HIDE DEF s, k, known, opens, base, fits, old, Y
    <3> QED BY ONLY <3>10, <3>2, <3>3, <3>6, <3>7, <3>8, <3>9, <3>11, <3>12, JoinKeeps
  <2> QED BY <2>1, <2>2
<1> QED BY <1>1, <1>2, <1>3 DEF AddSample

\* A step of Accept keeps the invariant.
LEMMA AcceptKeeps == ASSUME SesInv, Accept PROVE SesInv'
<1>1. spc = "read" /\ pos < Len(body) /\ ~exportFailed /\ failure = "none"
  BY ReadingIs DEF Accept
<1>2. CASE pos' = pos + 1 /\ Abort("limit")
  BY <1>1, <1>2, OverKeeps
<1>3. CASE /\ pos' = pos + 1 /\ Drop(pos + 1, body[pos + 1].fate)
           /\ UNCHANGED <<body, mode, convVars, points, chunks, lostChunks, exportFailed, ctxDone, spc, after, flushErr, failure>>
  BY <1>1, <1>3, DropKeeps DEF convVars
<1>4. CASE FlushFamily("read")
  BY <1>1, <1>4, FlushFamilyKeeps
<1>5. CASE pos' = pos + 1 /\ AddSample(pos + 1) /\ UNCHANGED <<body, mode, ctxDone, after, flushErr>>
  BY <1>1, <1>5, AddSampleKeeps
<1>6. CASE /\ body[pos + 1].part = "native" /\ pos' = pos + 1 /\ AddNative(pos + 1)
           /\ UNCHANGED <<body, mode, convVars, ctxDone, after, flushErr>>
  BY <1>1, <1>6, NativeKeeps DEF convVars
<1> QED BY <1>2, <1>3, <1>4, <1>5, <1>6 DEF Accept

\* A step of a scrape keeps the invariant.
LEMMA SessionStep == SesInv /\ [SessionNext]_sessionVars => SesInv'
<1> SUFFICES ASSUME SesInv, [SessionNext]_sessionVars PROVE SesInv'
  OBVIOUS
<1>1. CASE UNCHANGED sessionVars
  <2>1. UNCHANGED <<body, mode, pos, order, accs, accBytes, points, chunks, lostChunks, droppedBy, exportFailed, ctxDone, spc, after, flushErr, failure>>
    BY <1>1 DEF sessionVars
  <2>2. BodyInv' /\ PlaceInv' /\ AccInv' /\ ReadInv'
    BY <2>1, QuietKeeps
  <2>3. StepInv'
    BY <2>1 DEF SesInv, StepInv, Salvage
  <2> QED BY <2>2, <2>3 DEF SesInv
<1> QED BY <1>1, AcceptKeeps, FlushOneKeeps, FlushEndKeeps, FlushIfFullKeeps, ChunkAfterFlushKeeps, ReadFailsKeeps,
           DeadlineKeeps, BodyEndsKeeps, AbortScrapeKeeps, LastChunkKeeps DEF SessionNext

-----------------------------------------------------------------------------
(* One scrape, continued: a histogram or a summary that is read in one go is *)
(* one point.                                                                *)

\* A point P of the chunk ps or of the chunks cs.
Spot(ps, cs, P) ==
  \/ \E n \in DOMAIN ps : P = ps[n]
  \/ \E c \in DOMAIN cs : \E p \in DOMAIN cs[c] : P = cs[c][p]

\* The family of the component i goes on in the next sample.
GoesOn(i) ==
  /\ body[i].part \in Component /\ i \notin DOMAIN droppedBy /\ pos < Len(body)
  /\ \A k \in i..(pos + 1) : body[k].fam = body[i].fam

\* Points and accumulators are whole, as far as was read.
PointsWhole ==
  /\ \A P : Spot(points, chunks, P) => Whole(P)
  /\ \A k \in DOMAIN accs : Whole(accs[k])
  /\ \A k \in DOMAIN accs : \A i \in accs[k] : body[i].part \in Component /\ AccKey(body[i]) = k

\* While more is read: what the next sample could belong with is in the accumulators, and
\* these are of one family; nothing it could belong with is flushed.
RunInv ==
  /\ spc = "read" => \A k \in DOMAIN accs : \A i \in accs[k] : body[i].fam = family
  /\ spc = "read" => \A i \in 1..pos : GoesOn(i) => AccKey(body[i]) \in DOMAIN accs /\ i \in accs[AccKey(body[i])]
  /\ spc \in {"full", "chunk"} \/ (spc = "flush" /\ after # "last") => \A i \in 1..pos : ~GoesOn(i)
  /\ spc = "full" => 0 < pos /\ body[pos].part = "native"

\* Together with the invariant of the chunks, they are kept by every step.
WholeInv == PointsWhole /\ RunInv

\* Points that leave in a chunk, or stay, are the ones that were there.
LEMMA CheckSpots ==
  ASSUME chunks \in Seq(Seq(SUBSET Nat)), NEW ps \in Seq(SUBSET Nat), NEW g, NEW f,
         Export(ps, g, f) \/ Check(ps, g, f), NEW P, Spot(points', chunks', P)
  PROVE  Spot(ps, chunks, P)
<1>1. CASE points' = ps /\ chunks' = chunks
  BY <1>1 DEF Spot
<1>2. CASE points' = <<>> /\ chunks' = chunks
  <2>1. ~ \E n \in DOMAIN points' : P = points'[n]
    BY <1>2
  <2> QED BY <1>2, <2>1 DEF Spot
<1>3. CASE points' = <<>> /\ chunks' = Append(chunks, ps)
  <2>1. ~ \E n \in DOMAIN points' : P = points'[n]
    BY <1>3
  <2>2. PICK c \in DOMAIN chunks' : \E p \in DOMAIN chunks'[c] : P = chunks'[c][p]
    BY <2>1 DEF Spot
  <2>3. DOMAIN chunks' = 1..Len(chunks') /\ DOMAIN chunks = 1..Len(chunks)
        /\ ((c \in 1..Len(chunks) /\ chunks'[c] = chunks[c]) \/ chunks'[c] = ps)
    <3>1. chunks' = Append(chunks, ps) /\ Append(chunks, ps) \in Seq(Seq(SUBSET Nat))
      BY <1>3, ChunkAdded
    <3>2. DOMAIN chunks' = 1..Len(chunks') /\ DOMAIN chunks = 1..Len(chunks)
      BY <3>1
    <3> QED BY <3>1, <3>2, ChunkAdded
  <2> QED BY <2>2, <2>3 DEF Spot
<1> QED BY <1>1, <1>2, <1>3 DEF Export, Check

\* A point that joins the chunk.
LEMMA AppendSpots ==
  ASSUME NEW ps \in Seq(SUBSET Nat), NEW X \in SUBSET Nat, NEW cs, NEW P, Spot(Append(ps, X), cs, P)
  PROVE  Spot(ps, cs, P) \/ P = X
<1> DEFINE q == Append(ps, X)
<1>1. /\ q \in Seq(SUBSET Nat) /\ Len(q) = Len(ps) + 1 /\ Len(ps) \in Nat
      /\ \A n \in 1..Len(ps) : q[n] = ps[n]
      /\ q[Len(ps) + 1] = X
  BY AppendProperties
<1>2. DOMAIN q = 1..Len(q) /\ DOMAIN ps = 1..Len(ps)
  BY <1>1
<1>3. Spot(q, cs, P)
  OBVIOUS
<1> HIDE DEF q
<1>4. \A n \in 1..Len(q) : n \in 1..Len(ps) \/ n = Len(ps) + 1
  BY <1>1
<1> QED BY <1>1, <1>2, <1>3, <1>4 DEF Spot

\* A point stays whole while nothing more is read.
LEMMA WholeSame ==
  ASSUME UNCHANGED <<body, pos, droppedBy>>, failure = "limit" => failure' = "limit", NEW P, Whole(P)
  PROVE  Whole(P)'
BY DEF Whole, ReadTogether, AccKey

\* A point stays whole when what is read does not belong to it.
LEMMA WholeMore ==
  ASSUME pos \in Nat, body' = body, pos' = pos + 1, failure # "limit", DOMAIN droppedBy \subseteq DOMAIN droppedBy', NEW P, Whole(P),
         \/ pos + 1 \in DOMAIN droppedBy' \/ failure' = "limit"
         \/ \A i \in P : ~ReadTogether(i, pos + 1)
  PROVE  Whole(P)'
<1>1. \A i, j : ReadTogether(i, j)' <=> ReadTogether(i, j)
  BY DEF ReadTogether, AccKey
<1>2. \A j \in 1..(pos + 1) : j \in 1..pos \/ j = pos + 1
  OBVIOUS
<1>3. ASSUME NEW i \in P, NEW j \in 1..(pos + 1), ReadTogether(i, j)
      PROVE  j \in P \/ j \in DOMAIN droppedBy' \/ (failure' = "limit" /\ j = pos + 1)
  <2>1. CASE j \in 1..pos
    BY <1>3, <2>1 DEF Whole
  <2>2. CASE j = pos + 1
    BY <1>3, <2>2
  <2> QED BY <1>2, <2>1, <2>2
<1> QED BY <1>1, <1>3 DEF Whole

\* What is in a point, or in an accumulator, was read and not dropped.
LEMMA SpotIs ==
  ASSUME SesInv, NEW P, Spot(points, chunks, P), NEW i \in P
  PROVE  i \in InPoints(chunks) \cup InChunk(points) /\ i \in 1..pos /\ i \notin DOMAIN droppedBy
<1>1. i \in InPoints(chunks) \cup InChunk(points)
  BY DEF Spot, InPoints, InChunk
<1> QED BY <1>1 DEF SesInv, PlaceInv

\* Nothing is open where no accumulator waits.
LEMMA NoneOpen ==
  ASSUME SesInv, spc # "flush", order = <<>>
  PROVE  DOMAIN accs = {}
<1>1. Len(order) = 0
  OBVIOUS
<1> QED BY <1>1 DEF SesInv, AccInv

\* The points, when nothing more is read.
LEMMA PointsKept ==
  ASSUME SesInv, WholeInv, UNCHANGED <<body, pos, droppedBy>>, failure = "limit" => failure' = "limit",
         \A P : Spot(points', chunks', P) => Spot(points, chunks, P) \/ \E k \in DOMAIN accs : P = accs[k],
         accs' = accs \/ DOMAIN accs' = {}
  PROVE  PointsWhole'
<1>1. ASSUME NEW P, Spot(points', chunks', P) PROVE Whole(P)'
  <2>1. Whole(P)
    BY <1>1 DEF WholeInv, PointsWhole
  <2> QED BY <2>1, WholeSame
<1>2. ASSUME NEW k \in DOMAIN accs' PROVE Whole(accs[k])' /\ accs'[k] = accs[k] /\ k \in DOMAIN accs
  <2>1. accs' = accs
    BY <1>2
  <2>2. k \in DOMAIN accs
    BY <1>2, <2>1
  <2> DEFINE P == accs[k]
  <2>3. Whole(P)
    BY <2>2 DEF WholeInv, PointsWhole
  <2>4. \A i \in P, j \in 1..pos : ReadTogether(i, j) => j \in P \/ j \in DOMAIN droppedBy \/ (failure = "limit" /\ j = pos)
    BY <2>3 DEF Whole
  <2>5. \A i, j : ReadTogether(i, j)' <=> ReadTogether(i, j)
    BY DEF ReadTogether, AccKey
  <2>6. accs'[k] = accs[k]
    BY <2>1
  <2> QED BY <2>2, <2>4, <2>5, <2>6 DEF Whole
<1>3. \A k \in DOMAIN accs' : \A i \in accs'[k] : body'[i].part \in Component /\ AccKey(body'[i]) = k
  BY <1>2 DEF WholeInv, PointsWhole
<1>4. \A k \in DOMAIN accs' : Whole(accs[k])' /\ accs'[k] = accs[k]
  BY <1>2
<1> QED BY <1>1, <1>3, <1>4 DEF PointsWhole

\* What goes on is a matter of what was read.
LEMMA GoesOnSame == ASSUME UNCHANGED <<body, pos, droppedBy>>, NEW i PROVE GoesOn(i)' <=> GoesOn(i)
BY DEF GoesOn

\* What goes on past the sample that was read went on before it.
LEMMA WentOn ==
  ASSUME SesInv, body' = body, pos' = pos + 1, pos < Len(body), DOMAIN droppedBy \subseteq DOMAIN droppedBy', NEW i \in 1..pos, GoesOn(i)'
  PROVE  GoesOn(i) /\ body[pos + 1].fam = body[i].fam
<1>1. pos \in Nat
  BY SessionTypes
<1>2. /\ body[i].part \in Component /\ i \notin DOMAIN droppedBy'
      /\ \A k \in i..(pos' + 1) : body[k].fam = body[i].fam
  BY DEF GoesOn
<1>3. \A k \in i..(pos + 1) : k \in i..(pos' + 1)
  BY <1>1
<1>4. pos + 1 \in i..(pos + 1)
  BY <1>1
<1> QED BY <1>2, <1>3, <1>4 DEF GoesOn

\* A flush begins, where nothing goes on or nothing more is read.
LEMMA FlushFamilyWhole ==
  ASSUME SesInv, WholeInv, NEW next, FlushFamily(next), next # "last" => \A i \in 1..pos : ~GoesOn(i)
  PROVE  WholeInv'
<1>1. /\ spc' = "flush" /\ after' = next
      /\ UNCHANGED <<body, pos, accs, points, chunks, droppedBy, failure>>
  BY DEF FlushFamily, convVars
<1>2. PointsWhole'
  BY <1>1, PointsKept
<1>3. RunInv'
  BY <1>1, GoesOnSame DEF RunInv
<1> QED BY <1>2, <1>3 DEF WholeInv

\* An export of the chunk, with no accumulator open and nothing that goes on.
LEMMA ExportWhole ==
  ASSUME SesInv, WholeInv, NEW g \in {"read", "done"}, NEW f \in {"abort", "done"}, Export(points, g, f),
         UNCHANGED <<body, pos, accs, droppedBy>>, DOMAIN accs = {},
         g = "read" => \A i \in 1..pos : ~GoesOn(i)
  PROVE  WholeInv'
<1>1. /\ spc' \in {g, f} /\ (failure = "limit" => failure' = "limit")
      /\ \A P : Spot(points', chunks', P) => Spot(points, chunks, P)
  <2>1. chunks \in Seq(Seq(SUBSET Nat)) /\ points \in Seq(SUBSET Nat)
    BY SessionTypes
  <2>2. \A P : Spot(points', chunks', P) => Spot(points, chunks, P)
    BY <2>1, CheckSpots
  <2> QED BY <2>2 DEF Export
<1>2. PointsWhole'
  BY <1>1, PointsKept
<1>3. RunInv'
  BY <1>1, GoesOnSame DEF RunInv
<1> QED BY <1>2, <1>3 DEF WholeInv

\* Where a family ends nothing goes on.
LEMMA FamilyEndsRun ==
  ASSUME SesInv, FamilyEnds, NEW i \in 1..pos
  PROVE  ~GoesOn(i)
<1> SUFFICES ASSUME GoesOn(i) PROVE FALSE
  OBVIOUS
<1>1. pos \in Nat /\ pos \in i..(pos + 1) /\ pos + 1 \in i..(pos + 1)
  BY SessionTypes
<1>2. body[pos].fam = body[i].fam /\ body[pos + 1].fam = body[i].fam /\ pos < Len(body)
  BY <1>1 DEF GoesOn
<1> QED BY <1>2 DEF FamilyEnds

\* A step of FlushIfFull keeps the points whole.
LEMMA FlushIfFullWhole == ASSUME SesInv, WholeInv, FlushIfFull PROVE WholeInv'
<1>1. \A i \in 1..pos : ~GoesOn(i)
  BY FamilyEndsRun DEF FlushIfFull, WholeInv, RunInv
<1>2. CASE order # <<>>
  <2>1. FlushFamily("chunk")
    BY <1>2 DEF FlushIfFull
  <2> QED BY <1>1, <2>1, FlushFamilyWhole
<1>3. CASE order = <<>>
  <2>1. Export(points, "read", "abort") /\ UNCHANGED <<body, pos, accs, droppedBy>>
    BY <1>3 DEF FlushIfFull, convVars
  <2>2. DOMAIN accs = {}
    <3>1. spc # "flush"
      BY DEF FlushIfFull
    <3> QED BY <1>3, <3>1, NoneOpen
  <2> QED BY <1>1, <2>1, <2>2, ExportWhole
<1> QED BY <1>2, <1>3

\* The chunk that a flush left, between two families or at the end.
LEMMA ChunkWhole == ASSUME SesInv, WholeInv, ChunkAfterFlush \/ LastChunk PROVE WholeInv'
<1>1. spc \in {"chunk", "last"} /\ UNCHANGED <<body, pos, accs, droppedBy>>
  BY DEF ChunkAfterFlush, LastChunk, convVars
<1>2. DOMAIN accs = {}
  <2>1. order = <<>> /\ spc # "flush"
    BY <1>1 DEF SesInv, StepInv
  <2> QED BY <2>1, NoneOpen
<1>3. spc = "chunk" => \A i \in 1..pos : ~GoesOn(i)
  BY DEF WholeInv, RunInv
<1>4. \/ Export(points, "read", "abort") /\ spc = "chunk"
      \/ Export(points, "done", "done")
      \/ /\ UNCHANGED <<points, chunks, failure>>
         /\ (spc' = "read" /\ spc = "chunk") \/ spc' = "done"
  BY DEF ChunkAfterFlush, LastChunk
<1>5. CASE /\ UNCHANGED <<points, chunks, failure>>
           /\ (spc' = "read" /\ spc = "chunk") \/ spc' = "done"
  <2>1. PointsWhole'
    BY <1>1, <1>5, PointsKept
  <2>2. RunInv'
    BY <1>1, <1>2, <1>3, <1>5, GoesOnSame DEF RunInv
  <2> QED BY <2>1, <2>2 DEF WholeInv
<1>6. CASE Export(points, "read", "abort") /\ spc = "chunk"
  BY <1>1, <1>2, <1>3, <1>6, ExportWhole
<1>7. CASE Export(points, "done", "done")
  BY <1>1, <1>2, <1>7, ExportWhole
<1> QED BY <1>4, <1>5, <1>6, <1>7

\* A step of FlushEnd keeps the points whole.
LEMMA FlushEndWhole == ASSUME SesInv, WholeInv, FlushEnd PROVE WholeInv'
<1>1. /\ spc = "flush" /\ accs' = [k \in {} |-> {}]
      /\ spc' \in {after, "done", "abort"} /\ UNCHANGED <<body, pos, points, chunks, droppedBy, failure>>
  BY DEF FlushEnd
<1>2. DOMAIN accs' = {}
  BY <1>1
<1>3. PointsWhole'
  BY <1>1, <1>2, PointsKept
<1>4. after \in {"none", "read", "chunk", "last"} /\ (after # "last" => \A i \in 1..pos : ~GoesOn(i))
  BY <1>1 DEF SesInv, StepInv, WholeInv, RunInv
<1>5. RunInv'
  BY <1>1, <1>2, <1>4, GoesOnSame DEF RunInv
<1> QED BY <1>3, <1>5 DEF WholeInv

\* A step of FlushOne keeps the points whole.
LEMMA FlushOneWhole == ASSUME SesInv, WholeInv, FlushOne PROVE WholeInv'
<1> DEFINE X == accs[Head(order)]
           ps == AddAccumulated(points, X)
<1>1. /\ spc = "flush" /\ order # <<>> /\ UNCHANGED <<body, pos, accs, droppedBy, after>>
      /\ IF flushErr THEN points' = ps /\ UNCHANGED <<chunks, lostChunks, exportFailed, failure, spc>> ELSE Check(ps, "flush", "flush")
  BY DEF FlushOne
<1>2. Head(order) \in DOMAIN accs /\ X \in SUBSET Nat
  <2>1. order \in Seq(DOMAIN accs) /\ accs \in [DOMAIN accs -> SUBSET Nat]
    BY SessionTypes
  <2>2. Head(order) \in DOMAIN accs
    BY <1>1, <2>1
  <2> QED BY <2>1, <2>2
<1>3. points \in Seq(SUBSET Nat) /\ chunks \in Seq(Seq(SUBSET Nat))
  BY SessionTypes
<1>4. ps = Append(points, X)
  BY DEF AddAccumulated
<1>5. ps \in Seq(SUBSET Nat)
  BY <1>2, <1>3, <1>4
<1>6. \E k \in DOMAIN accs : X = accs[k]
  BY <1>2
<1> HIDE DEF X, ps
<1>7. \A P : Spot(points', chunks', P) => Spot(ps, chunks, P)
  <2>1. CASE flushErr
    BY <1>1, <2>1
  <2>2. CASE ~flushErr
    BY <1>1, <1>3, <1>5, <2>2, CheckSpots
  <2> QED BY <2>1, <2>2
<1>8. \A P : Spot(points', chunks', P) => Spot(points, chunks, P) \/ P = X
  BY <1>2, <1>3, <1>4, <1>7, AppendSpots
<1>9. spc' = "flush" /\ (failure = "limit" => failure' = "limit")
  BY <1>1 DEF Check, Export
<1>10. PointsWhole'
  BY <1>1, <1>6, <1>8, <1>9, PointsKept
<1>11. RunInv'
  BY <1>1, <1>9, GoesOnSame DEF WholeInv, RunInv
<1> QED BY <1>10, <1>11 DEF WholeInv

\* A sample is read: what goes on past it is in the accumulators, if it is.
LEMMA ReadRun ==
  ASSUME SesInv, WholeInv, spc = "read", pos < Len(body), body' = body, pos' = pos + 1, DOMAIN droppedBy \subseteq DOMAIN droppedBy',
         \A k \in DOMAIN accs : k \in DOMAIN accs' /\ accs[k] \subseteq accs'[k],
         \/ body[pos + 1].part \notin Component \/ pos + 1 \in DOMAIN droppedBy'
         \/ AccKey(body[pos + 1]) \in DOMAIN accs' /\ pos + 1 \in accs'[AccKey(body[pos + 1])]
  PROVE  \A i \in 1..pos' : GoesOn(i)' => AccKey(body[i]) \in DOMAIN accs' /\ i \in accs'[AccKey(body[i])]
<1> SUFFICES ASSUME NEW i \in 1..pos', GoesOn(i)' PROVE AccKey(body[i]) \in DOMAIN accs' /\ i \in accs'[AccKey(body[i])]
  OBVIOUS
<1>1. i \in 1..pos \/ i = pos + 1
  BY SessionTypes
<1>2. CASE i \in 1..pos
  <2>1. GoesOn(i)
    BY <1>2, WentOn
  <2>2. AccKey(body[i]) \in DOMAIN accs /\ i \in accs[AccKey(body[i])]
    BY <1>2, <2>1 DEF WholeInv, RunInv
  <2> QED BY <2>2
<1>3. CASE i = pos + 1
  BY <1>3 DEF GoesOn
<1> QED BY <1>1, <1>2, <1>3

\* A sample is read that becomes no point: one too many, or dropped.
LEMMA SkipWhole ==
  ASSUME SesInv, WholeInv, spc = "read", pos < Len(body), pos' = pos + 1, UNCHANGED <<body, points, chunks, accs>>,
         DOMAIN droppedBy \subseteq DOMAIN droppedBy',
         \/ spc' = "read" /\ pos + 1 \in DOMAIN droppedBy' /\ (family' = family \/ DOMAIN accs = {})
         \/ spc' = "abort" /\ failure' = "limit"
  PROVE  WholeInv'
<1>1. failure # "limit" /\ pos \in Nat
  BY ReadingIs, SessionTypes
<1>2. ASSUME NEW P, Spot(points, chunks, P) PROVE Whole(P)'
  <2>1. Whole(P)
    BY <1>2 DEF WholeInv, PointsWhole
  <2> QED BY <1>1, <2>1, WholeMore
<1>3. ASSUME NEW k \in DOMAIN accs PROVE Whole(accs[k])'
  <2> PICK P : P = accs[k]
    OBVIOUS
  <2>1. Whole(P)
    BY DEF WholeInv, PointsWhole
  <2>2. Whole(P)'
    BY <1>1, <2>1, WholeMore
  <2>3. accs'[k] = P
    OBVIOUS
  <2> QED BY <2>2, <2>3 DEF Whole
<1>4. PointsWhole'
  BY <1>2, <1>3 DEF WholeInv, PointsWhole
<1>5. RunInv'
  <2>1. CASE spc' = "abort"
    BY <2>1 DEF RunInv
  <2>2. CASE spc' = "read" /\ pos + 1 \in DOMAIN droppedBy' /\ (family' = family \/ DOMAIN accs = {})
    <3>1. \A i \in 1..pos' : GoesOn(i)' => AccKey(body[i]) \in DOMAIN accs' /\ i \in accs'[AccKey(body[i])]
      BY <2>2, ReadRun
    <3> QED BY <2>2, <3>1 DEF WholeInv, RunInv
  <2> QED BY <2>1, <2>2
<1> QED BY <1>4, <1>5 DEF WholeInv

\* A sample that is a point of its own: a number, or a native histogram.
LEMMA AloneWhole ==
  ASSUME SesInv, WholeInv, spc = "read", pos < Len(body), pos' = pos + 1, UNCHANGED <<body, accs, droppedBy>>,
         body[pos + 1].part \notin Component,
         \A P : Spot(points', chunks', P) => Spot(points, chunks, P) \/ P = {pos + 1},
         \/ spc' = "abort"
         \/ spc' = "read" /\ (DOMAIN accs # {} => family' = family)
         \/ spc' = "full" /\ body[pos + 1].part = "native"
  PROVE  WholeInv'
<1>1. failure # "limit" /\ pos \in Nat /\ pos + 1 \in 1..Len(body)
  BY ReadingIs, SessionTypes
<1>2. \A i : ~ReadTogether(i, pos + 1) /\ ~ReadTogether(pos + 1, i)
  BY DEF ReadTogether
<1>3. ASSUME NEW P, Spot(points', chunks', P) PROVE Whole(P)'
  <2>1. CASE Spot(points, chunks, P)
    <3>1. Whole(P)
      BY <2>1 DEF WholeInv, PointsWhole
    <3> QED BY <1>1, <1>2, <3>1, WholeMore
  <2>2. CASE P = {pos + 1}
    <3>1. \A i \in P : \A j : ~ReadTogether(i, j)
      BY <1>2, <2>2
    <3>2. \A i \in P : \A j : ~ReadTogether(i, j)'
      BY <3>1 DEF ReadTogether, AccKey
    <3> QED BY <3>2 DEF Whole
  <2> QED BY <1>3, <2>1, <2>2
<1>4. ASSUME NEW k \in DOMAIN accs PROVE Whole(accs[k])'
  <2> PICK P : P = accs[k]
    OBVIOUS
  <2>1. Whole(P)
    BY DEF WholeInv, PointsWhole
  <2>2. Whole(P)'
    BY <1>1, <1>2, <2>1, WholeMore
  <2>3. accs'[k] = P
    OBVIOUS
  <2> QED BY <2>2, <2>3 DEF Whole
<1>5. PointsWhole'
  BY <1>3, <1>4 DEF WholeInv, PointsWhole
<1>6. RunInv'
  <2>1. CASE spc' = "abort"
    BY <2>1 DEF RunInv
  <2>2. CASE spc' = "read" /\ (DOMAIN accs # {} => family' = family)
    <3>1. \A i \in 1..pos' : GoesOn(i)' => AccKey(body[i]) \in DOMAIN accs' /\ i \in accs'[AccKey(body[i])]
      BY ReadRun
    <3>2. \A k \in DOMAIN accs' : \A i \in accs'[k] : body'[i].fam = family'
      BY <2>2 DEF WholeInv, RunInv
    <3> QED BY <2>2, <3>1, <3>2 DEF RunInv
  <2>3. CASE spc' = "full" /\ body[pos + 1].part = "native"
    <3>1. ASSUME NEW i \in 1..pos', GoesOn(i)' PROVE FALSE
      <4>1. CASE i \in 1..pos
        <5>1. body[pos + 1].fam = body[i].fam /\ body[i].part \in Component /\ i \in 1..Len(body)
          <6>1. GoesOn(i) /\ body[pos + 1].fam = body[i].fam
            BY <3>1, <4>1, WentOn
          <6>2. i \in 1..Len(body)
            BY <4>1, SessionTypes
          <6> QED BY <6>1, <6>2 DEF GoesOn
        <5>2. body[i].part = "native"
          BY <1>1, <2>3, <5>1 DEF SesInv, BodyInv
        <5> QED BY <5>1, <5>2 DEF Component
      <4>2. CASE i = pos + 1
        BY <3>1, <4>2 DEF GoesOn
      <4> QED BY <1>1, <4>1, <4>2
    <3>2. 0 < pos' /\ body'[pos'].part = "native"
      BY <1>1, <2>3
    <3> QED BY <2>3, <3>1, <3>2 DEF RunInv
  <2> QED BY <2>1, <2>2, <2>3
<1> QED BY <1>5, <1>6 DEF WholeInv

\* A component that was read joins the accumulator of its series, and nothing it belongs
\* with is elsewhere.
LEMMA JoinWhole ==
  ASSUME SesInv, WholeInv, spc = "read", pos < Len(body), pos' = pos + 1, NEW k, NEW Y \in SUBSET {pos + 1},
         body[pos + 1].part \in Component, k = AccKey(body[pos + 1]),
         NEW old, old = IF k \in DOMAIN accs THEN accs[k] ELSE {},
         DOMAIN accs' = DOMAIN accs \cup {k}, accs'[k] = old \cup Y,
         \A l \in DOMAIN accs : l # k => accs'[l] = accs[l],
         DOMAIN droppedBy' = DOMAIN droppedBy \cup ({pos + 1} \ Y),
         family' = body[pos + 1].fam, DOMAIN accs = {} \/ body[pos + 1].fam = family,
         UNCHANGED <<body, points, chunks, failure, spc>>
  PROVE  WholeInv'
<1>1. failure # "limit" /\ pos \in Nat /\ pos + 1 \in 1..Len(body)
  BY ReadingIs, SessionTypes
<1>2. \A i, j : ReadTogether(i, j)' <=> ReadTogether(i, j)
  BY DEF ReadTogether, AccKey
<1>3. ASSUME NEW i \in 1..pos, i \notin DOMAIN droppedBy, ReadTogether(i, pos + 1) \/ ReadTogether(pos + 1, i)
      PROVE  k \in DOMAIN accs /\ i \in accs[k]
  <2>1. /\ body[i].part \in Component /\ AccKey(body[i]) = k /\ body[i].fam = body[pos + 1].fam
        /\ \A m \in 1..Len(body) : i <= m /\ m <= pos + 1 => body[m].fam = body[i].fam
    <3>1. i \in 1..Len(body) /\ i <= pos + 1
      BY <1>1
    <3>2. CASE ReadTogether(i, pos + 1)
      <4>1. /\ body[i].part \in Component /\ AccKey(body[i]) = k
            /\ \A m \in 1..Len(body) : i <= m /\ m <= pos + 1 => body[m].fam = body[i].fam
        BY <3>2 DEF ReadTogether
      <4> QED BY <1>1, <3>1, <4>1
    <3>3. CASE ReadTogether(pos + 1, i)
      <4>1. /\ body[i].part \in Component /\ AccKey(body[i]) = k
            /\ \A m \in 1..Len(body) : i <= m /\ m <= pos + 1 => body[m].fam = body[pos + 1].fam
        BY <3>3 DEF ReadTogether
      <4> QED BY <1>1, <3>1, <4>1
    <3> QED BY <1>3, <3>2, <3>3
  <2>2. \A m \in i..(pos + 1) : m \in 1..Len(body) /\ i <= m /\ m <= pos + 1
    BY <1>1, SessionTypes
  <2>3. GoesOn(i)
    BY <1>3, <2>1, <2>2 DEF GoesOn
  <2> QED BY <2>1, <2>3 DEF WholeInv, RunInv
<1>4. ASSUME NEW P, Spot(points, chunks, P) PROVE Whole(P)'
  <2>1. Whole(P)
    BY <1>4 DEF WholeInv, PointsWhole
  <2>2. ASSUME NEW i \in P, ReadTogether(i, pos + 1) PROVE FALSE
    <3>1. i \in InPoints(chunks) \cup InChunk(points) /\ i \in 1..pos /\ i \notin DOMAIN droppedBy
      BY <1>4, SpotIs
    <3>2. k \in DOMAIN accs /\ i \in accs[k]
      BY <1>3, <2>2, <3>1
    <3>3. PICK j \in 1..Len(order) : order[j] = k
      BY <3>2 DEF SesInv, AccInv
    <3>4. i \in Open
      BY <3>2, <3>3, SessionTypes, OpenIs
    <3> QED BY <3>1, <3>4 DEF SesInv, PlaceInv
  <2> QED BY <1>1, <2>1, <2>2, WholeMore
<1>5. ASSUME NEW l \in DOMAIN accs, l # k PROVE Whole(accs[l])'
  <2> PICK P : P = accs[l]
    OBVIOUS
  <2>1. Whole(P)
    BY DEF WholeInv, PointsWhole
  <2>2. ASSUME NEW i \in P, ReadTogether(i, pos + 1) PROVE FALSE
    <3>1. i \in 1..pos /\ i \notin DOMAIN droppedBy
      BY DEF SesInv, AccInv
    <3>2. k \in DOMAIN accs /\ i \in accs[k]
      BY <1>3, <2>2, <3>1
    <3> QED BY <1>5, <3>2 DEF SesInv, AccInv
  <2>3. Whole(P)'
    BY <1>1, <2>1, <2>2, WholeMore
  <2>4. accs'[l] = P
    BY <1>5
  <2> QED BY <2>3, <2>4 DEF Whole
<1>6. Whole(accs[k])'
  <2>1. old \subseteq 1..pos /\ \A i \in old, j \in 1..pos : ReadTogether(i, j) => j \in old \/ j \in DOMAIN droppedBy
    <3>1. CASE k \in DOMAIN accs
      <4>1. old = accs[k] /\ Whole(accs[k]) /\ accs[k] \subseteq 1..pos
        BY <3>1 DEF WholeInv, PointsWhole, SesInv, AccInv
      <4> QED BY <1>1, <4>1 DEF Whole
    <3>2. CASE k \notin DOMAIN accs
      BY <3>2
    <3> QED BY <3>1, <3>2
  <2>2. ASSUME NEW i \in old \cup Y, NEW j \in 1..(pos + 1), ReadTogether(i, j)
        PROVE  j \in old \cup Y \/ j \in DOMAIN droppedBy'
    <3>1. j \in 1..pos \/ j = pos + 1
      BY <1>1
    <3>2. CASE j = pos + 1
      BY <3>2
    <3>3. CASE j \in 1..pos /\ i \in old
      BY <2>1, <2>2, <3>3
    <3>4. CASE j \in 1..pos /\ i = pos + 1
      BY <1>3, <2>2, <3>4
    <3> QED BY <3>1, <3>2, <3>3, <3>4
  <2>3. accs'[k] = old \cup Y /\ pos' = pos + 1
    OBVIOUS
  <2>4. \A i \in accs'[k] : \A j \in 1..pos' : ReadTogether(i, j) => j \in accs'[k] \/ j \in DOMAIN droppedBy'
    BY <2>2, <2>3
  <2> QED BY <1>2, <2>4 DEF Whole
<1>7. PointsWhole'
  <2>1. \A l \in DOMAIN accs' : Whole(accs[l])'
    BY <1>5, <1>6
  <2>2. \A l \in DOMAIN accs' : \A i \in accs'[l] : body'[i].part \in Component /\ AccKey(body'[i]) = l
    <3>1. \A i \in old : body[i].part \in Component /\ AccKey(body[i]) = k
      BY DEF WholeInv, PointsWhole
    <3>2. \A l \in DOMAIN accs : \A i \in accs[l] : body[i].part \in Component /\ AccKey(body[i]) = l
      BY DEF WholeInv, PointsWhole
    <3> QED BY <3>1, <3>2
  <2>3. \A P : Spot(points', chunks', P) => Whole(P)'
    BY <1>4
  <2> QED BY <2>1, <2>2, <2>3 DEF PointsWhole
<1>8. RunInv'
  <2>1. \A i \in 1..pos' : GoesOn(i)' => AccKey(body[i]) \in DOMAIN accs' /\ i \in accs'[AccKey(body[i])]
    <3>1. \A l \in DOMAIN accs : l \in DOMAIN accs' /\ accs[l] \subseteq accs'[l]
      OBVIOUS
    <3>2. \/ pos + 1 \in DOMAIN droppedBy'
          \/ AccKey(body[pos + 1]) \in DOMAIN accs' /\ pos + 1 \in accs'[AccKey(body[pos + 1])]
      OBVIOUS
    <3> QED BY <3>1, <3>2, ReadRun
  <2>2. \A l \in DOMAIN accs' : \A i \in accs'[l] : body'[i].fam = family'
    <3>1. \A l \in DOMAIN accs : \A i \in accs[l] : body[i].fam = body[pos + 1].fam
      BY DEF WholeInv, RunInv
    <3>2. \A i \in old : body[i].fam = body[pos + 1].fam
      BY <3>1
    <3> QED BY <3>1, <3>2
  <2> QED BY <2>1, <2>2 DEF RunInv
<1> QED BY <1>7, <1>8 DEF WholeInv

\* A sample that is converted leaves the points whole.
LEMMA AddSampleWhole ==
  ASSUME SesInv, WholeInv, spc = "read", pos < Len(body), pos' = pos + 1, AddSample(pos + 1), UNCHANGED <<body, mode, ctxDone, after, flushErr>>,
         body[pos + 1].part # "native", order = <<>> \/ body[pos + 1].fam = family
  PROVE  WholeInv'
<1> DEFINE s == body[pos + 1]
           k == AccKey(s)
           known == k \in DOMAIN accs
           opens == known \/ accBytes + 1 <= MaxFamilyAcc
           fits == opens /\ accBytes + Cost(s, known) <= MaxFamilyAcc
           old == IF k \in DOMAIN accs THEN accs[k] ELSE {}
           Y == IF fits THEN {pos + 1} ELSE {}
<1>1. family' = s.fam /\ (DOMAIN accs # {} => s.fam = family) /\ pos + 1 \in 1..Len(body)
  BY NoneOpen, SessionTypes DEF AddSample
<1>2. CASE s.part = "num" /\ Check(AddNumber(points, pos + 1), "read", "abort") /\ UNCHANGED <<order, accs, accBytes, droppedBy>>
  <2> DEFINE ps == AddNumber(points, pos + 1)
  <2>1. points \in Seq(SUBSET Nat) /\ chunks \in Seq(Seq(SUBSET Nat)) /\ {pos + 1} \in SUBSET Nat
    BY SessionTypes
  <2>2. ps = Append(points, {pos + 1}) /\ ps \in Seq(SUBSET Nat)
    BY <2>1 DEF AddNumber
  <2>3. Check(ps, "read", "abort")
    BY <1>2
  <2> HIDE DEF ps
  <2>4. \A P : Spot(points', chunks', P) => Spot(ps, chunks, P)
    BY <2>1, <2>2, <2>3, CheckSpots
  <2>5. \A P : Spot(points', chunks', P) => Spot(points, chunks, P) \/ P = {pos + 1}
    BY <2>1, <2>2, <2>4, AppendSpots
  <2>6. s.part \notin Component
    BY <1>2 DEF Component
  <2>7. spc' = "read" \/ spc' = "abort"
    BY <2>3 DEF Check, Export
  <2> QED BY <1>1, <1>2, <2>5, <2>6, <2>7, AloneWhole
<1>3. CASE /\ Drop(pos + 1, "malformed")
           /\ UNCHANGED <<order, accs, accBytes, points, chunks, lostChunks, exportFailed, failure, spc>>
  <2>1. DOMAIN droppedBy' = DOMAIN droppedBy \cup {pos + 1}
    BY <1>3, DropIs
  <2> QED BY <1>1, <1>3, <2>1, SkipWhole
<1>4. CASE /\ s.part # "num"
           /\ accs' = IF opens THEN [x \in DOMAIN accs \cup {k} |->
                                        IF x # k THEN accs[x]
                                        ELSE (IF known THEN accs[x] ELSE {}) \cup (IF fits THEN {pos + 1} ELSE {})]
                       ELSE accs
           /\ IF fits THEN UNCHANGED droppedBy ELSE Drop(pos + 1, "accumulator")
           /\ UNCHANGED <<points, chunks, lostChunks, exportFailed, failure, spc>>
  <2>1. CASE ~opens
    <3>1. accs' = accs /\ DOMAIN droppedBy' = DOMAIN droppedBy \cup {pos + 1}
      BY <1>4, <2>1, DropIs
    <3> QED BY <1>1, <1>4, <3>1, SkipWhole
  <2>2. CASE opens
    <3>1. accs' = [x \in DOMAIN accs \cup {k} |-> IF x # k THEN accs[x] ELSE old \cup Y]
      BY <1>4, <2>2
    <3>2. DOMAIN droppedBy' = DOMAIN droppedBy \cup ({pos + 1} \ Y)
      BY <1>4, DropIs
    <3>3. body[pos + 1].part \in Component
      BY <1>1, <1>4 DEF SesInv, BodyInv
    <3>4. Y \in SUBSET {pos + 1} /\ k = AccKey(body[pos + 1]) /\ old = IF k \in DOMAIN accs THEN accs[k] ELSE {}
      OBVIOUS
    <3>5. UNCHANGED <<body, points, chunks, failure, spc>>
      BY <1>4
    <3>6. /\ DOMAIN accs' = DOMAIN accs \cup {k} /\ accs'[k] = old \cup Y
          /\ \A l \in DOMAIN accs : l # k => accs'[l] = accs[l]
      <4> HIDE DEF k, Y, old
      <4> QED BY ONLY <3>1
    <3>7. family' = body[pos + 1].fam /\ (DOMAIN accs = {} \/ body[pos + 1].fam = family)
      BY <1>1
    <3>8. SesInv /\ WholeInv /\ spc = "read" /\ pos < Len(body) /\ pos' = pos + 1
      OBVIOUS
    <3> HIDE DEF s, k, known, opens, fits, old, Y
    <3> QED BY ONLY <3>2, <3>3, <3>4, <3>5, <3>6, <3>7, <3>8, JoinWhole
  <2> QED BY <2>1, <2>2
<1> QED BY <1>2, <1>3, <1>4 DEF AddSample

\* A native histogram leaves the points whole.
LEMMA NativeWhole ==
  ASSUME SesInv, WholeInv, spc = "read", pos < Len(body), body[pos + 1].part = "native", pos' = pos + 1, AddNative(pos + 1),
         UNCHANGED <<body, family, accs>>
  PROVE  WholeInv'
<1>1. CASE body[pos + 1].fate = "bad"
  <2>1. Drop(pos + 1, "malformed") /\ UNCHANGED <<points, spc, chunks>>
    BY <1>1 DEF AddNative
  <2>2. DOMAIN droppedBy' = DOMAIN droppedBy \cup {pos + 1}
    BY <2>1, DropIs
  <2> QED BY <2>1, <2>2, SkipWhole
<1>2. CASE body[pos + 1].fate # "bad"
  <2>1. points' = Append(points, {pos + 1}) /\ UNCHANGED <<droppedBy, chunks>> /\ spc' \in {"full", "read"}
    BY <1>2 DEF AddNative, AddNumber
  <2>2. points \in Seq(SUBSET Nat) /\ {pos + 1} \in SUBSET Nat
    BY SessionTypes
  <2>3. \A P : Spot(points', chunks', P) => Spot(points, chunks, P) \/ P = {pos + 1}
    BY <2>1, <2>2, AppendSpots
  <2>4. body[pos + 1].part \notin Component
    BY DEF Component
  <2> QED BY <2>1, <2>3, <2>4, AloneWhole
<1> QED BY <1>1, <1>2

\* A step of Accept keeps the points whole.
LEMMA AcceptWhole == ASSUME SesInv, WholeInv, Accept PROVE WholeInv'
<1>1. spc = "read" /\ pos < Len(body) /\ failure = "none" /\ pos \in Nat
  BY ReadingIs, SessionTypes DEF Accept
<1>2. CASE pos' = pos + 1 /\ Abort("limit")
  <2>1. spc' = "abort" /\ failure' = "limit" /\ UNCHANGED <<body, points, chunks, accs, droppedBy>>
    BY <1>1, <1>2 DEF Abort, convVars
  <2> QED BY <1>1, <1>2, <2>1, SkipWhole
<1>3. CASE /\ pos' = pos + 1 /\ Drop(pos + 1, body[pos + 1].fate)
           /\ UNCHANGED <<body, mode, convVars, points, chunks, lostChunks, exportFailed, ctxDone, spc, after, flushErr, failure>>
  <2>1. DOMAIN droppedBy' = DOMAIN droppedBy \cup {pos + 1}
    BY <1>3, DropIs
  <2> QED BY <1>1, <1>3, <2>1, SkipWhole DEF convVars
<1>4. CASE FlushFamily("read") /\ body[pos + 1].fam # family
  <2>1. ASSUME NEW i \in 1..pos, GoesOn(i) PROVE FALSE
    <3>1. AccKey(body[i]) \in DOMAIN accs /\ i \in accs[AccKey(body[i])]
      BY <1>1, <2>1 DEF WholeInv, RunInv
    <3>2. body[i].fam = family
      BY <1>1, <3>1 DEF WholeInv, RunInv
    <3>3. pos + 1 \in i..(pos + 1)
      BY <1>1
    <3>4. body[pos + 1].fam = body[i].fam
      BY <2>1, <3>3 DEF GoesOn
    <3> QED BY <1>4, <3>2, <3>4
  <2> QED BY <1>4, <2>1, FlushFamilyWhole
<1>5. CASE /\ body[pos + 1].part # "native" /\ (order = <<>> \/ body[pos + 1].fam = family)
           /\ pos' = pos + 1 /\ AddSample(pos + 1) /\ UNCHANGED <<body, mode, ctxDone, after, flushErr>>
  BY <1>1, <1>5, AddSampleWhole
<1>6. CASE /\ body[pos + 1].part = "native" /\ pos' = pos + 1 /\ AddNative(pos + 1)
           /\ UNCHANGED <<body, mode, convVars, ctxDone, after, flushErr>>
  BY <1>1, <1>6, NativeWhole DEF convVars
<1> QED BY <1>2, <1>3, <1>4, <1>5, <1>6 DEF Accept

\* The steps that move no point: the body breaks off or ends, the deadline, the salvage.
LEMMA EndsWhole == ASSUME SesInv, WholeInv, ReadFails \/ Deadline \/ BodyEnds \/ AbortScrape PROVE WholeInv'
<1>1. CASE FlushFamily("last")
  BY <1>1, FlushFamilyWhole
<1>2. CASE /\ UNCHANGED <<body, pos, family, accs, points, chunks, droppedBy, after>>
           /\ failure = "limit" => failure' = "limit"
           /\ spc' \in {"abort", "done"} \/ spc' = spc
  <2>1. PointsWhole'
    BY <1>2, PointsKept
  <2>2. RunInv'
    BY <1>2, GoesOnSame DEF WholeInv, RunInv
  <2> QED BY <2>1, <2>2 DEF WholeInv
<1>3. CASE ReadFails
  BY <1>2, <1>3 DEF ReadFails, Abort, convVars
<1>4. CASE Deadline
  BY <1>2, <1>4 DEF Deadline, convVars
<1>5. CASE BodyEnds
  BY <1>1, <1>5 DEF BodyEnds
<1>6. CASE AbortScrape
  BY <1>1, <1>2, <1>6 DEF AbortScrape, convVars
<1> QED BY <1>3, <1>4, <1>5, <1>6

\* A step of a scrape keeps the points whole.
LEMMA WholeStep == SesInv /\ WholeInv /\ [SessionNext]_sessionVars => WholeInv'
<1> SUFFICES ASSUME SesInv, WholeInv, [SessionNext]_sessionVars PROVE WholeInv'
  OBVIOUS
<1>1. CASE UNCHANGED sessionVars
  <2>1. UNCHANGED <<body, pos, family, accs, points, chunks, droppedBy, spc, after, failure>>
    BY <1>1 DEF sessionVars
  <2>2. PointsWhole'
    BY <2>1, PointsKept
  <2>3. RunInv'
    BY <2>1, GoesOnSame DEF WholeInv, RunInv
  <2> QED BY <2>2, <2>3 DEF WholeInv
<1> QED BY <1>1, AcceptWhole, FlushOneWhole, FlushEndWhole, FlushIfFullWhole, ChunkWhole, EndsWhole DEF SessionNext

\* A scrape begins with no point.
LEMMA WholeStarts == SessionInit => WholeInv
<1> SUFFICES ASSUME SessionInit PROVE WholeInv
  OBVIOUS
<1>1. points = <<>> /\ chunks = <<>> /\ pos = 0 /\ accs = [k \in {} |-> {}] /\ spc = "read"
  BY DEF SessionInit
<1>2. DOMAIN points = {} /\ DOMAIN chunks = {} /\ DOMAIN accs = {} /\ 1..pos = {}
  BY <1>1
<1>3. PointsWhole
  BY <1>2 DEF PointsWhole, Spot
<1>4. RunInv
  BY <1>1, <1>2 DEF RunInv
<1> QED BY <1>3, <1>4 DEF WholeInv

\* The invariants give the property.
LEMMA SessionGives == SesInv /\ WholeInv => ScrapeAccounted
<1> SUFFICES ASSUME SesInv, WholeInv PROVE ScrapeAccounted
  OBVIOUS
<1>1. ASSUME spc = "done", failure = "none" \/ Salvage
      PROVE  ~exportFailed /\ points = <<>> /\ order = <<>>
  BY <1>1 DEF SesInv, StepInv, Salvage
<1>2. ASSUME spc = "done", failure = "none" \/ Salvage, NEW i \in 1..pos
      PROVE  i \in InPoints(chunks) \cup DOMAIN droppedBy \/ (failure = "limit" /\ i = pos)
  <2>1. points = <<>> /\ order = <<>> /\ lostChunks = <<>>
    BY <1>1, <1>2 DEF SesInv, StepInv
  <2>2. InChunk(points) = {} /\ InPoints(lostChunks) = {} /\ Open = {}
    <3>1. DOMAIN order = {} /\ DOMAIN lostChunks = {}
      BY <2>1
    <3> QED BY <2>1, <3>1, EmptyChunk, OpenIs DEF InPoints
  <2> QED BY <2>2 DEF SesInv, ReadInv
<1>3. spc = "done" /\ failure = "none" => pos = Len(body)
  BY DEF SesInv, StepInv
<1>4. /\ ~SentTwice /\ InPoints(chunks) \cap DOMAIN droppedBy = {} /\ Len(lostChunks) <= 1
      /\ \A c \in DOMAIN chunks : chunks[c] # <<>> /\ (mode = "text" => Len(chunks[c]) <= BatchPoints)
  BY DEF SesInv, PlaceInv, StepInv
<1>5. accBytes <= MaxFamilyAcc /\ Cardinality(Retained) <= MaxFamilyAcc
  <2>1. accBytes \in Nat /\ accBytes <= MaxFamilyAcc /\ IsFiniteSet(Retained) /\ Cardinality(Retained) <= accBytes /\ MaxFamilyAcc \in Nat
    BY SessionTypes DEF SesInv, AccInv
  <2>2. Cardinality(Retained) \in Nat
    BY <2>1, FS_CardinalityType
  <2> QED BY <2>1, <2>2
<1>6. \A c \in DOMAIN chunks : \A p \in DOMAIN chunks[c] : Whole(chunks[c][p])
  BY DEF WholeInv, PointsWhole, Spot
<1> QED BY <1>2, <1>3, <1>4, <1>5, <1>6 DEF ScrapeAccounted

\* For any bodies, parsers, batch and sample limits, budgets, breaks and failed exports: a
\* finished scrape answers for every sample it read, exports none twice, cuts no histogram
\* that was read in one go, offers nothing after a failed export and keeps its accumulators
\* within their budget (scrapeSession, converter, the batchers).
THEOREM ScrapesAlwaysAccounted == SessionSpec => []ScrapeAccounted
<1>1. SessionSpec => []SesInv
  BY SessionStarts, SessionStep, PTL DEF SessionSpec
<1>2. SessionSpec => []WholeInv
  BY <1>1, WholeStarts, WholeStep, PTL DEF SessionSpec
<1> QED BY <1>1, <1>2, SessionGives, PTL
=============================================================================
