--------------------------- MODULE ContainerLookup ---------------------------
(***************************************************************************)
(* A blocking container lookup of the metadata server: the wait for the    *)
(* initial informer sync (internal/server waitReady), the wait for one     *)
(* container ID (internal/store GetContainer), the budget both draw on and *)
(* the drain at shutdown.  Requests run concurrently with the informer,    *)
(* the sweep, their own deadlines and SIGTERM.                             *)
(***************************************************************************)
EXTENDS Integers, FiniteSets

CONSTANTS
    Requests,   \* lookups in flight
    Ids,        \* container IDs
    IdOf,       \* the ID each lookup asks for
    MaxWaiters, \* -max-blocked-lookups
    MaxChanges  \* bound: changes of the container index

ASSUME LookupAssumption ==
    /\ IsFiniteSet(Requests)
    /\ IdOf \in [Requests -> Ids]
    /\ MaxWaiters \in Nat /\ MaxChanges \in Nat

VARIABLES
    pc,         \* where each request is
    answer,     \* what it returned
    expired,    \* requests whose context is done
    waiters,    \* requests with a channel in the waiter table
    woken,      \* requests whose channel was closed
    nWaiters, nExternal,
    ready, draining,  \* closed channels of the server
    storeDraining,
    index,      \* ID -> "absent", "live" or "gone" (an expired tombstone)
    changes

budget == <<waiters, woken, nWaiters, nExternal>>
phases == <<ready, draining, storeDraining>>
vars == <<pc, answer, expired, budget, phases, index, changes>>

Answers == {"none", "found", "missing", "timeout", "shutdown", "shed", "notsynced"}
PCs == {"idle", "trypark", "syncpark", "lookup", "ctxcheck", "lock", "parked", "leaving", "last", "done"}

Answer(r, a) == pc' = [pc EXCEPT ![r] = "done"] /\ answer' = [answer EXCEPT ![r] = a]
Goto(r, l) == pc' = [pc EXCEPT ![r] = l] /\ UNCHANGED answer

\* Mutant: the readiness park ignores the store's waiters.
FullExternal == nExternal >= MaxWaiters

Full == nWaiters + nExternal >= MaxWaiters

\* What GetContainer answers from the index alone.
FromIndex(r) == IF index[IdOf[r]] = "live" THEN "found" ELSE "missing"
-----------------------------------------------------------------------------
(* The wait for the initial sync.                                          *)

\* The handler enters waitReady; a lookup with no budget left cannot block.
Arrive(r) ==
    /\ pc[r] = "idle"
    /\ IF ready THEN Goto(r, "lookup")
       ELSE IF r \in expired THEN Answer(r, "notsynced")
       ELSE Goto(r, "trypark")
    /\ UNCHANGED <<expired, budget, phases, index, changes>>

\* Store.TryPark.
TryPark(r) ==
    /\ pc[r] = "trypark"
    /\ IF Full THEN Answer(r, "shed") /\ UNCHANGED nExternal
       ELSE Goto(r, "syncpark") /\ nExternal' = nExternal + 1
    /\ UNCHANGED <<expired, waiters, woken, nWaiters, phases, index, changes>>

\* Mutant: the readiness park does not watch the drain.
LeaveSyncDeaf(r) ==
    /\ pc[r] = "syncpark"
    /\ \/ ready /\ Goto(r, "lookup")
       \/ r \in expired /\ Answer(r, "notsynced")
    /\ nExternal' = nExternal - 1
    /\ UNCHANGED <<expired, waiters, woken, nWaiters, phases, index, changes>>

\* The select of waitReady and the deferred Unpark.
LeaveSync(r) ==
    /\ pc[r] = "syncpark"
    /\ \/ ready /\ Goto(r, "lookup")
       \/ draining /\ ~ready /\ Answer(r, "shutdown")
       \/ r \in expired /\ Answer(r, "notsynced")
    /\ nExternal' = IF nExternal > 0 THEN nExternal - 1 ELSE nExternal
    /\ UNCHANGED <<expired, waiters, woken, nWaiters, phases, index, changes>>
-----------------------------------------------------------------------------
(* GetContainer.                                                           *)

\* The lookup under the read lock.
Lookup(r) ==
    /\ pc[r] = "lookup"
    /\ IF index[IdOf[r]] = "absent" THEN Goto(r, "ctxcheck") ELSE Answer(r, FromIndex(r))
    /\ UNCHANGED <<expired, budget, phases, index, changes>>

CheckContext(r) ==
    /\ pc[r] = "ctxcheck"
    /\ IF r \in expired THEN Answer(r, "timeout") ELSE Goto(r, "lock")
    /\ UNCHANGED <<expired, budget, phases, index, changes>>

\* The channel goes into the table and is charged to the budget.
Register(r) ==
    /\ waiters' = waiters \cup {r}
    /\ woken' = woken \ {r}
    /\ nWaiters' = nWaiters + 1

\* Mutant: park on the strength of the lookup under the read lock.
ParkUnchecked(r) ==
    /\ pc[r] = "lock"
    /\ IF Full THEN Answer(r, "shed") /\ UNCHANGED budget
       ELSE Goto(r, "parked") /\ Register(r) /\ UNCHANGED nExternal
    /\ UNCHANGED <<expired, phases, index, changes>>

\* Under the write lock: look again, then refuse or park.
Park(r) ==
    /\ pc[r] = "lock"
    /\ IF index[IdOf[r]] # "absent" THEN Answer(r, FromIndex(r)) /\ UNCHANGED budget
       ELSE IF storeDraining THEN Answer(r, "shutdown") /\ UNCHANGED budget
       ELSE IF Full THEN Answer(r, "shed") /\ UNCHANGED budget
       ELSE Goto(r, "parked") /\ Register(r) /\ UNCHANGED nExternal
    /\ UNCHANGED <<expired, phases, index, changes>>

\* The channel was closed: around the loop.
Wake(r) ==
    /\ pc[r] = "parked" /\ r \in woken
    /\ Goto(r, "lookup")
    /\ UNCHANGED <<expired, budget, phases, index, changes>>

\* The context ended; a closed channel may be ready at the same time.
GiveUp(r) ==
    /\ pc[r] = "parked" /\ r \in expired
    /\ Goto(r, "leaving")
    /\ UNCHANGED <<expired, budget, phases, index, changes>>

\* removeWaiter: a channel a wake already took out is not charged back again.
RemoveWaiter(r) ==
    /\ pc[r] = "leaving"
    /\ Goto(r, "last")
    /\ waiters' = waiters \ {r}
    /\ nWaiters' = IF r \in waiters THEN nWaiters - 1 ELSE nWaiters
    /\ UNCHANGED <<expired, woken, nExternal, phases, index, changes>>

LastLookup(r) ==
    /\ pc[r] = "last"
    /\ Answer(r, IF index[IdOf[r]] = "live" THEN "found" ELSE "timeout")
    /\ UNCHANGED <<expired, budget, phases, index, changes>>
-----------------------------------------------------------------------------
(* The informer, the sweep, deadlines and shutdown.                        *)

\* wakeLocked, for the channels in W.
WakeAll(W) ==
    /\ waiters' = waiters \ W
    /\ woken' = woken \cup W
    /\ nWaiters' = nWaiters - Cardinality(W)

WaitersOn(id) == {r \in waiters : IdOf[r] = id}

\* indexContainersLocked: a pod reporting id is indexed.
IndexContainer(id) ==
    /\ changes < MaxChanges
    /\ index' = [index EXCEPT ![id] = "live"]
    /\ changes' = changes + 1
    /\ WakeAll(WaitersOn(id))
    /\ UNCHANGED <<pc, answer, expired, nExternal, phases>>

\* The tombstone of id expires, then the sweep removes it.
Tombstone(id) ==
    /\ changes < MaxChanges
    /\ index[id] = "live"
    /\ index' = [index EXCEPT ![id] = "gone"]
    /\ changes' = changes + 1
    /\ UNCHANGED <<pc, answer, expired, budget, phases>>

SweepContainer(id) ==
    /\ index[id] = "gone"
    /\ index' = [index EXCEPT ![id] = "absent"]
    /\ UNCHANGED <<pc, answer, expired, budget, phases, changes>>

\* The wait budget runs out or the client leaves.
Expire(r) ==
    /\ expired' = expired \cup {r}
    /\ UNCHANGED <<pc, answer, budget, phases, index, changes>>

CachesSynced ==
    /\ ready' = TRUE
    /\ UNCHANGED <<pc, answer, expired, budget, draining, storeDraining, index, changes>>

\* Server.Drain closes its channel, then drains the store.
Drain ==
    /\ draining' = TRUE
    /\ UNCHANGED <<pc, answer, expired, budget, ready, storeDraining, index, changes>>

DrainStore ==
    /\ draining /\ ~storeDraining
    /\ storeDraining' = TRUE
    /\ WakeAll(waiters)
    /\ UNCHANGED <<pc, answer, expired, nExternal, ready, draining, index, changes>>
-----------------------------------------------------------------------------
Init ==
    /\ pc = [r \in Requests |-> "idle"]
    /\ answer = [r \in Requests |-> "none"]
    /\ expired \in SUBSET Requests      \* ?wait=0 arrives with its context done
    /\ waiters = {} /\ woken = {}
    /\ nWaiters = 0 /\ nExternal = 0
    /\ ready \in BOOLEAN /\ draining = FALSE /\ storeDraining = FALSE
    /\ index = [id \in Ids |-> "absent"]
    /\ changes = 0

Step(r) ==
    \/ Arrive(r) \/ TryPark(r) \/ LeaveSync(r) \/ Lookup(r) \/ CheckContext(r) \/ Park(r)
    \/ Wake(r) \/ GiveUp(r) \/ RemoveWaiter(r) \/ LastLookup(r)

Environment ==
    \/ \E id \in Ids : IndexContainer(id) \/ Tombstone(id) \/ SweepContainer(id)
    \/ \E r \in Requests : Expire(r)
    \/ CachesSynced \/ Drain \/ DrainStore

Next == Environment \/ \E r \in Requests : Step(r)

Spec == Init /\ [][Next]_vars

\* Goroutines run, and a drain that began goes on to the store.  No deadline
\* is assumed to fire.
FairSpec == Spec /\ WF_vars(DrainStore) /\ \A r \in Requests : WF_vars(Step(r))
-----------------------------------------------------------------------------
(* Properties.                                                             *)

\* Type invariant of the lookups.
TypeOK ==
    /\ pc \in [Requests -> PCs] /\ answer \in [Requests -> Answers]
    /\ expired \subseteq Requests /\ waiters \subseteq Requests /\ woken \subseteq Requests
    /\ nWaiters \in Nat /\ nExternal \in Nat
    /\ ready \in BOOLEAN /\ draining \in BOOLEAN /\ storeDraining \in BOOLEAN
    /\ index \in [Ids -> {"absent", "live", "gone"}]
    /\ changes \in 0..MaxChanges

\* No lost wakeup: a lookup still in the waiter table waits for an ID the
\* index does not know, in a store that is not draining; and a lookup at its
\* select is either in the table or has been woken.
NoLostWakeup ==
    /\ \A r \in waiters : index[IdOf[r]] = "absent" /\ ~storeDraining
    /\ \A r \in Requests : pc[r] = "parked" => r \in waiters \cup woken

\* The budget counts exactly the blocked lookups, whichever of wake, timeout
\* and drain released them, and is never exceeded.
BudgetExact ==
    /\ nWaiters = Cardinality(waiters)
    /\ nExternal = Cardinality({r \in Requests : pc[r] = "syncpark"})
    /\ nWaiters + nExternal <= MaxWaiters
    /\ \A r \in waiters : pc[r] \in {"parked", "leaving"}

\* A drained server holds no lookup: each one is answered, without waiting for
\* its deadline.
DrainAnswers == draining ~> \A r \in Requests : pc[r] \in {"idle", "done"}
=============================================================================
