------------------------ MODULE ContainerLookupProofs ------------------------
(***************************************************************************)
(* For any number of lookups, containers and slots: no wakeup is lost and  *)
(* the budget counts exactly the blocked lookups.                          *)
(***************************************************************************)
EXTENDS ContainerLookup, FiniteSetTheorems, TLAPS

SyncParked == {r \in Requests : pc[r] = "syncpark"}

\* The inductive invariant: the properties, and that a channel taken out of
\* the table by a wake is not in it any more.
LookupInv ==
    /\ TypeOK
    /\ NoLostWakeup
    /\ BudgetExact
    /\ waiters \cap woken = {}

\* The sets the budget counts are finite.
LEMMA CountedFinite ==
    ASSUME TypeOK
    PROVE  /\ IsFiniteSet(waiters) /\ Cardinality(waiters) \in Nat
           /\ IsFiniteSet(SyncParked) /\ Cardinality(SyncParked) \in Nat
<1>1. waiters \in SUBSET Requests /\ SyncParked \in SUBSET Requests
  BY DEF TypeOK, SyncParked
<1>2. IsFiniteSet(waiters) /\ IsFiniteSet(SyncParked)
  BY <1>1, FS_Subset, LookupAssumption
<1> QED BY <1>2, FS_CardinalityType

\* The initial states satisfy the invariant.
LEMMA InitEstablishes == Init => LookupInv
<1> SUFFICES ASSUME Init PROVE LookupInv
  OBVIOUS
<1>1. TypeOK
  <2>1. pc \in [Requests -> PCs] /\ answer \in [Requests -> Answers]
    BY DEF Init, PCs, Answers
  <2>2. index \in [Ids -> {"absent", "live", "gone"}] /\ changes \in 0..MaxChanges
    BY LookupAssumption DEF Init
  <2>3. ready \in BOOLEAN /\ draining \in BOOLEAN /\ storeDraining \in BOOLEAN
    BY Zenon DEF Init
  <2>4. /\ expired \subseteq Requests /\ waiters \subseteq Requests /\ woken \subseteq Requests
        /\ nWaiters \in Nat /\ nExternal \in Nat
    BY DEF Init
  <2> QED BY <2>1, <2>2, <2>3, <2>4 DEF TypeOK
<1>2. SyncParked = {}
  BY DEF Init, SyncParked
<1>3. BudgetExact
  BY <1>2, FS_EmptySet, LookupAssumption DEF Init, BudgetExact, SyncParked
<1> QED BY <1>1, <1>3 DEF LookupInv, NoLostWakeup, Init

\* A step of r outside the budget: it neither enters nor leaves the readiness
\* park, and whoever leaves the select was woken.
LEMMA QuietStep ==
    ASSUME LookupInv, NEW r \in Requests, UNCHANGED budget,
           pc[r] # "syncpark", pc'[r] # "syncpark",
           pc' \in [Requests -> PCs], answer' \in [Requests -> Answers],
           \A x \in Requests \ {r} : pc'[x] = pc[x],
           r \in waiters => pc'[r] \in {"parked", "leaving"},
           pc'[r] = "parked" => r \in waiters \cup woken,
           UNCHANGED <<expired, phases, index, changes>>
    PROVE  LookupInv'
<1>1. SyncParked' = SyncParked
  BY DEF SyncParked
<1>2. TypeOK'
  BY DEF LookupInv, TypeOK, budget, phases
<1>3. NoLostWakeup'
  BY DEF LookupInv, NoLostWakeup, budget, phases
<1>4. waiters' = waiters /\ nWaiters' = nWaiters /\ nExternal' = nExternal
  BY DEF budget
<1>5. (\A x \in waiters : pc[x] \in {"parked", "leaving"}) /\ waiters \subseteq Requests
  BY DEF LookupInv, BudgetExact, TypeOK
<1>6. \A x \in waiters' : pc'[x] \in {"parked", "leaving"}
  BY <1>4, <1>5
<1>7. nWaiters = Cardinality(waiters) /\ nExternal = Cardinality(SyncParked)
        /\ nWaiters + nExternal <= MaxWaiters
  BY DEF LookupInv, BudgetExact, SyncParked
<1>8. nWaiters' = Cardinality(waiters') /\ nExternal' = Cardinality(SyncParked')
        /\ nWaiters' + nExternal' <= MaxWaiters
  BY <1>1, <1>4, <1>7
<1>9. BudgetExact'
  BY <1>6, <1>8 DEF BudgetExact, SyncParked
<1> QED BY <1>2, <1>3, <1>9 DEF LookupInv, budget

\* waitReady takes a slot of the budget.
LEMMA TryParkPreserves ==
    ASSUME LookupInv, NEW r \in Requests, TryPark(r) PROVE LookupInv'
<1>0. TypeOK /\ pc[r] = "trypark" /\ r \notin waiters /\ r \notin SyncParked
  BY DEF LookupInv, TryPark, BudgetExact, SyncParked
<1>1. CASE Full
  BY <1>0, <1>1, QuietStep
     DEF TryPark, Answer, TypeOK, PCs, Answers, budget
<1>2. CASE ~Full
  <2>1. /\ pc' = [pc EXCEPT ![r] = "syncpark"] /\ nExternal' = nExternal + 1
        /\ UNCHANGED <<answer, expired, waiters, woken, nWaiters, phases, index, changes>>
    BY <1>2 DEF TryPark, Goto
  <2>2. SyncParked' = SyncParked \cup {r}
    BY <1>0, <2>1 DEF SyncParked, TypeOK
  <2>3. Cardinality(SyncParked') = Cardinality(SyncParked) + 1
    BY <1>0, <2>2, CountedFinite, FS_AddElement
  <2>4. TypeOK'
    BY <1>0, <2>1 DEF TypeOK, PCs, phases
  <2>5. NoLostWakeup'
    BY <1>0, <2>1 DEF LookupInv, NoLostWakeup, TypeOK, phases
  <2>6. nWaiters' + nExternal' <= MaxWaiters
    BY <1>0, <1>2, <2>1, LookupAssumption DEF Full, TypeOK
  <2>7. \A x \in waiters' : pc'[x] \in {"parked", "leaving"}
    BY <1>0, <2>1 DEF LookupInv, BudgetExact, TypeOK
  <2>8. nWaiters = Cardinality(waiters) /\ nExternal = Cardinality(SyncParked)
    BY DEF LookupInv, BudgetExact, SyncParked
  <2>9. nWaiters' = Cardinality(waiters') /\ nExternal' = Cardinality(SyncParked')
    BY <2>1, <2>3, <2>8
  <2>10. BudgetExact'
    BY <2>6, <2>7, <2>9 DEF BudgetExact, SyncParked
  <2> QED BY <2>1, <2>4, <2>5, <2>10 DEF LookupInv
<1> QED BY <1>1, <1>2

\* waitReady gives its slot back, whatever ended the wait.
LEMMA LeaveSyncPreserves ==
    ASSUME LookupInv, NEW r \in Requests, LeaveSync(r) PROVE LookupInv'
<1>0. TypeOK /\ pc[r] = "syncpark" /\ r \notin waiters /\ r \in SyncParked
  BY DEF LookupInv, LeaveSync, BudgetExact, SyncParked
<1>1. /\ \E l \in {"lookup", "done"} : pc' = [pc EXCEPT ![r] = l]
      /\ answer' \in [Requests -> Answers]
      /\ UNCHANGED <<expired, waiters, woken, nWaiters, phases, index, changes>>
  BY <1>0 DEF LeaveSync, Goto, Answer, TypeOK, Answers
<1>2. SyncParked' = SyncParked \ {r}
  BY <1>0, <1>1 DEF SyncParked, TypeOK
<1>3. Cardinality(SyncParked') = Cardinality(SyncParked) - 1
  BY <1>0, <1>2, CountedFinite, FS_RemoveElement
<1>4. Cardinality(SyncParked') \in Nat
  <2>1. IsFiniteSet(SyncParked')
    BY <1>0, <1>2, CountedFinite, FS_RemoveElement
  <2> QED BY <2>1, FS_CardinalityType
<1>5. nExternal = Cardinality(SyncParked) /\ nWaiters = Cardinality(waiters)
        /\ nWaiters + nExternal <= MaxWaiters
  BY DEF LookupInv, BudgetExact, SyncParked
<1>6. nExternal' = nExternal - 1
  <2>1. nExternal > 0
    BY <1>3, <1>4, <1>5, <1>0, CountedFinite
  <2> QED BY <2>1 DEF LeaveSync
<1>7. TypeOK'
  BY <1>0, <1>1, <1>3, <1>4, <1>5, <1>6 DEF TypeOK, PCs, phases
<1>8. NoLostWakeup'
  BY <1>0, <1>1 DEF LookupInv, NoLostWakeup, TypeOK, phases
<1>9. \A x \in waiters' : pc'[x] \in {"parked", "leaving"}
  BY <1>0, <1>1 DEF LookupInv, BudgetExact, TypeOK
<1>10. nWaiters' = Cardinality(waiters') /\ nExternal' = Cardinality(SyncParked')
         /\ nWaiters' + nExternal' <= MaxWaiters
  BY <1>0, <1>1, <1>3, <1>5, <1>6, LookupAssumption DEF TypeOK
<1>11. BudgetExact'
  BY <1>9, <1>10 DEF BudgetExact, SyncParked
<1> QED BY <1>1, <1>7, <1>8, <1>11 DEF LookupInv

\* GetContainer parks: nothing indexed the ID since it looked.
LEMMA ParkPreserves ==
    ASSUME LookupInv, NEW r \in Requests, Park(r) PROVE LookupInv'
<1>0. TypeOK /\ pc[r] = "lock" /\ r \notin waiters
  BY DEF LookupInv, Park, BudgetExact
<1>1. CASE \E a \in Answers : Answer(r, a) /\ UNCHANGED budget
  BY <1>0, <1>1, QuietStep DEF Park, Answer, TypeOK, PCs
<1>2. CASE ~\E a \in Answers : Answer(r, a) /\ UNCHANGED budget
  <2>1. /\ index[IdOf[r]] = "absent" /\ ~storeDraining /\ ~Full
        /\ Goto(r, "parked") /\ Register(r)
        /\ UNCHANGED <<nExternal, expired, phases, index, changes>>
    BY <1>2 DEF Park, Answers, FromIndex
  <2>2. /\ pc' = [pc EXCEPT ![r] = "parked"] /\ answer' = answer
        /\ waiters' = waiters \cup {r} /\ woken' = woken \ {r} /\ nWaiters' = nWaiters + 1
    BY <2>1 DEF Goto, Register
  <2>3. SyncParked' = SyncParked
    BY <1>0, <2>2 DEF SyncParked, TypeOK
  <2>4. Cardinality(waiters') = Cardinality(waiters) + 1
    BY <1>0, <2>2, CountedFinite, FS_AddElement
  <2>5. TypeOK'
    BY <1>0, <2>1, <2>2 DEF TypeOK, PCs, phases
  <2>6. NoLostWakeup'
    BY <1>0, <2>1, <2>2 DEF LookupInv, NoLostWakeup, TypeOK, phases
  <2>7. nWaiters' + nExternal' <= MaxWaiters
    BY <1>0, <2>1, <2>2, LookupAssumption DEF Full, TypeOK
  <2>8. \A x \in waiters' : pc'[x] \in {"parked", "leaving"}
    BY <1>0, <2>2 DEF LookupInv, BudgetExact, TypeOK
  <2>9. nWaiters = Cardinality(waiters) /\ nExternal = Cardinality(SyncParked)
    BY DEF LookupInv, BudgetExact, SyncParked
  <2>10. nWaiters' = Cardinality(waiters') /\ nExternal' = Cardinality(SyncParked')
    BY <2>1, <2>2, <2>3, <2>4, <2>9
  <2>11. BudgetExact'
    BY <2>7, <2>8, <2>10 DEF BudgetExact, SyncParked
  <2> QED BY <2>2, <2>5, <2>6, <2>11 DEF LookupInv
<1> QED BY <1>1, <1>2

\* A lookup that gave up leaves the table unless a wake took it out before.
LEMMA RemoveWaiterPreserves ==
    ASSUME LookupInv, NEW r \in Requests, RemoveWaiter(r) PROVE LookupInv'
<1>0. TypeOK /\ pc[r] = "leaving"
  BY DEF LookupInv, RemoveWaiter
<1>1. /\ pc' = [pc EXCEPT ![r] = "last"] /\ answer' = answer
      /\ waiters' = waiters \ {r}
      /\ nWaiters' = IF r \in waiters THEN nWaiters - 1 ELSE nWaiters
      /\ UNCHANGED <<expired, woken, nExternal, phases, index, changes>>
  BY DEF RemoveWaiter, Goto
<1>2. SyncParked' = SyncParked
  BY <1>0, <1>1 DEF SyncParked, TypeOK
<1>3. Cardinality(waiters') = (IF r \in waiters THEN Cardinality(waiters) - 1 ELSE Cardinality(waiters))
        /\ IsFiniteSet(waiters')
  BY <1>0, <1>1, CountedFinite, FS_RemoveElement
<1>4. Cardinality(waiters') \in Nat
  BY <1>3, FS_CardinalityType
<1>5. nWaiters = Cardinality(waiters) /\ nExternal = Cardinality(SyncParked)
        /\ nWaiters + nExternal <= MaxWaiters
  BY DEF LookupInv, BudgetExact, SyncParked
<1>6. nWaiters' = Cardinality(waiters')
  BY <1>1, <1>3, <1>5
<1>7. TypeOK'
  BY <1>0, <1>1, <1>4, <1>6 DEF TypeOK, PCs, phases
<1>8. NoLostWakeup'
  BY <1>0, <1>1 DEF LookupInv, NoLostWakeup, TypeOK, phases
<1>9. \A x \in waiters' : pc'[x] \in {"parked", "leaving"}
  BY <1>0, <1>1 DEF LookupInv, BudgetExact, TypeOK
<1>10. nExternal' = Cardinality(SyncParked') /\ nWaiters' + nExternal' <= MaxWaiters
  BY <1>0, <1>1, <1>2, <1>5, LookupAssumption DEF TypeOK
<1>11. BudgetExact'
  BY <1>6, <1>9, <1>10 DEF BudgetExact, SyncParked
<1> QED BY <1>1, <1>7, <1>8, <1>11 DEF LookupInv

\* A wake of any part of the table charges back exactly what it takes out.
LEMMA WakePreserves ==
    ASSUME LookupInv, NEW W \in SUBSET waiters, WakeAll(W),
           UNCHANGED <<pc, answer, expired, nExternal>>,
           ready' \in BOOLEAN, draining' \in BOOLEAN, storeDraining' \in BOOLEAN,
           index' \in [Ids -> {"absent", "live", "gone"}], changes' \in 0..MaxChanges,
           \A r \in waiters \ W : index'[IdOf[r]] = "absent" /\ ~storeDraining'
    PROVE  LookupInv'
<1>0. TypeOK
  BY DEF LookupInv
<1>1. waiters' = waiters \ W /\ woken' = woken \cup W
        /\ nWaiters' = nWaiters - Cardinality(W)
  BY DEF WakeAll
<1>2. SyncParked' = SyncParked
  BY DEF SyncParked
<1>3. Cardinality(waiters') = Cardinality(waiters) - Cardinality(W) /\ IsFiniteSet(waiters')
  <2>1. waiters \cap W = W
    OBVIOUS
  <2>2. IsFiniteSet(waiters)
    BY <1>0, CountedFinite
  <2>3. IsFiniteSet(waiters \ W) /\ Cardinality(waiters \ W) = Cardinality(waiters) - Cardinality(waiters \cap W)
    BY <2>2, FS_Difference
  <2> QED BY <1>1, <2>1, <2>3
<1>4. Cardinality(waiters') \in Nat /\ Cardinality(W) \in Nat
  BY <1>0, <1>3, CountedFinite, FS_Subset, FS_CardinalityType
<1>5. nWaiters = Cardinality(waiters) /\ nExternal = Cardinality(SyncParked)
        /\ nWaiters + nExternal <= MaxWaiters
  BY DEF LookupInv, BudgetExact, SyncParked
<1>6. nWaiters' = Cardinality(waiters') /\ nExternal' = Cardinality(SyncParked')
        /\ nWaiters' + nExternal' <= MaxWaiters
  BY <1>0, <1>1, <1>2, <1>3, <1>4, <1>5, LookupAssumption DEF TypeOK
<1>7. TypeOK'
  BY <1>0, <1>1, <1>4, <1>6 DEF TypeOK
<1>8. NoLostWakeup'
  BY <1>0, <1>1 DEF LookupInv, NoLostWakeup, TypeOK
<1>9. \A x \in waiters' : pc'[x] \in {"parked", "leaving"}
  BY <1>1 DEF LookupInv, BudgetExact
<1>10. BudgetExact'
  BY <1>6, <1>9 DEF BudgetExact, SyncParked
<1> QED BY <1>1, <1>7, <1>8, <1>10 DEF LookupInv

\* The steps of a request that leave the budget alone.
LEMMA ReadingPreserves ==
    ASSUME LookupInv, NEW r \in Requests,
           Arrive(r) \/ Lookup(r) \/ CheckContext(r) \/ Wake(r) \/ GiveUp(r) \/ LastLookup(r)
    PROVE  LookupInv'
<1>0. /\ TypeOK /\ UNCHANGED <<budget, expired, phases, index, changes>>
      /\ pc[r] \in {"idle", "lookup", "ctxcheck", "parked", "last"}
      /\ r \in waiters => pc[r] = "parked" /\ r \notin woken
  BY DEF LookupInv, BudgetExact, Arrive, Lookup, CheckContext, Wake, GiveUp, LastLookup
<1>1. \/ \E a \in Answers : Answer(r, a) /\ pc[r] # "parked"
      \/ \E l \in {"lookup", "trypark", "ctxcheck", "lock"} :
            Goto(r, l) /\ (pc[r] = "parked" => r \in woken)
      \/ Goto(r, "leaving") /\ pc[r] = "parked"
  BY DEF Arrive, Lookup, CheckContext, Wake, GiveUp, LastLookup, FromIndex, Answers
<1>2. CASE \E a \in Answers : Answer(r, a) /\ pc[r] # "parked"
  BY <1>0, <1>2, QuietStep DEF Answer, TypeOK, PCs
<1>3. CASE \E l \in {"lookup", "trypark", "ctxcheck", "lock"} :
              Goto(r, l) /\ (pc[r] = "parked" => r \in woken)
  BY <1>0, <1>3, QuietStep DEF Goto, TypeOK, PCs
<1>4. CASE Goto(r, "leaving") /\ pc[r] = "parked"
  BY <1>0, <1>4, QuietStep DEF Goto, TypeOK, PCs
<1> QED BY <1>1, <1>2, <1>3, <1>4

\* The informer, the sweep, deadlines and shutdown.
LEMMA EnvironmentPreserves ==
    ASSUME LookupInv, Environment PROVE LookupInv'
<1>0. TypeOK /\ NoLostWakeup
  BY DEF LookupInv
<1>1. ASSUME NEW id \in Ids, IndexContainer(id) PROVE LookupInv'
  <2>1. /\ WaitersOn(id) \in SUBSET waiters
        /\ index' = [index EXCEPT ![id] = "live"] /\ changes' = changes + 1
        /\ changes < MaxChanges /\ WakeAll(WaitersOn(id))
        /\ UNCHANGED <<pc, answer, expired, nExternal, ready, draining, storeDraining>>
    BY <1>1 DEF IndexContainer, WaitersOn, phases
  <2>2. \A r \in waiters \ WaitersOn(id) : index'[IdOf[r]] = "absent" /\ ~storeDraining'
    BY <1>0, <2>1, LookupAssumption DEF NoLostWakeup, WaitersOn, TypeOK
  <2>3. index' \in [Ids -> {"absent", "live", "gone"}] /\ changes' \in 0..MaxChanges
    BY <1>0, <2>1, LookupAssumption DEF TypeOK
  <2> QED BY <1>0, <2>1, <2>2, <2>3, WakePreserves DEF TypeOK
<1>2. ASSUME DrainStore PROVE LookupInv'
  <2>1. /\ waiters \in SUBSET waiters /\ WakeAll(waiters) /\ storeDraining' = TRUE
        /\ UNCHANGED <<pc, answer, expired, nExternal, ready, draining, index, changes>>
    BY <1>2 DEF DrainStore
  <2>2. waiters \ waiters = {}
    OBVIOUS
  <2>3. ready' \in BOOLEAN /\ draining' \in BOOLEAN /\ storeDraining' \in BOOLEAN
    BY <1>0, <2>1, Zenon DEF TypeOK
  <2>4. index' \in [Ids -> {"absent", "live", "gone"}] /\ changes' \in 0..MaxChanges
    BY <1>0, <2>1 DEF TypeOK
  <2>5. \A r \in waiters \ waiters : index'[IdOf[r]] = "absent" /\ ~storeDraining'
    BY <2>2
  <2> QED BY <2>1, <2>3, <2>4, <2>5, WakePreserves
<1>3. ASSUME UNCHANGED <<pc, answer, waiters, woken, nWaiters, nExternal, storeDraining>>,
             TypeOK', \A r \in waiters : index'[IdOf[r]] = "absent"
      PROVE  LookupInv'
  <2>1. SyncParked' = SyncParked
    BY <1>3 DEF SyncParked
  <2>2. BudgetExact'
    BY <1>3, <2>1 DEF LookupInv, BudgetExact, SyncParked
  <2> QED BY <1>3, <2>2 DEF LookupInv, NoLostWakeup
<1>4. ASSUME NEW id \in Ids, Tombstone(id) \/ SweepContainer(id) PROVE LookupInv'
  <2>1. TypeOK'
    BY <1>0, <1>4, LookupAssumption DEF Tombstone, SweepContainer, TypeOK, budget, phases
  <2>2. \A r \in waiters : index'[IdOf[r]] = "absent"
    BY <1>0, <1>4, LookupAssumption DEF Tombstone, SweepContainer, NoLostWakeup, TypeOK
  <2> QED BY <1>3, <1>4, <2>1, <2>2 DEF Tombstone, SweepContainer, budget, phases
<1>5. ASSUME (\E r \in Requests : Expire(r)) \/ CachesSynced \/ Drain PROVE LookupInv'
  <2>1. TypeOK' /\ index' = index
    BY <1>0, <1>5 DEF Expire, CachesSynced, Drain, TypeOK, budget, phases
  <2> QED BY <1>0, <1>3, <1>5, <2>1
          DEF Expire, CachesSynced, Drain, budget, phases, NoLostWakeup
<1> QED BY <1>1, <1>2, <1>4, <1>5 DEF Environment

\* Every step preserves the invariant.
LEMMA NextPreserves == LookupInv /\ [Next]_vars => LookupInv'
<1> SUFFICES ASSUME LookupInv, [Next]_vars PROVE LookupInv'
  OBVIOUS
<1>1. CASE Environment
  BY <1>1, EnvironmentPreserves
<1>2. ASSUME NEW r \in Requests, Step(r) PROVE LookupInv'
  BY <1>2, TryParkPreserves, LeaveSyncPreserves, ParkPreserves, RemoveWaiterPreserves,
     ReadingPreserves DEF Step
<1>3. CASE UNCHANGED vars
  <2>1. SyncParked' = SyncParked
    BY <1>3 DEF SyncParked, vars
  <2>2. TypeOK' /\ NoLostWakeup' /\ waiters' \cap woken' = {}
    BY <1>3 DEF LookupInv, TypeOK, NoLostWakeup, vars, budget, phases
  <2>3. BudgetExact'
    BY <1>3, <2>1 DEF LookupInv, BudgetExact, SyncParked, vars, budget
  <2> QED BY <2>2, <2>3 DEF LookupInv
<1> QED BY <1>1, <1>2, <1>3 DEF Next

\* For any number of lookups, container IDs and slots: a lookup in the waiter
\* table waits for an ID the index does not have, and a lookup at its select is
\* in the table or woken (GetContainer, wakeLocked, Drain, removeWaiter).
THEOREM WakeupsNeverLost == Spec => []NoLostWakeup
<1>1. LookupInv => NoLostWakeup
  BY DEF LookupInv
<1> QED BY <1>1, InitEstablishes, NextPreserves, PTL DEF Spec

\* For any number of lookups, container IDs and slots: nWaiters and nExternal
\* count the blocked lookups and never exceed -max-blocked-lookups together.
THEOREM BudgetNeverDrifts == Spec => []BudgetExact
<1>1. LookupInv => BudgetExact
  BY DEF LookupInv
<1> QED BY <1>1, InitEstablishes, NextPreserves, PTL DEF Spec
=============================================================================
