---------------------------- MODULE CgroupStats ----------------------------
(***************************************************************************)
(* The container statistics sampler: a discovery loop that walks the       *)
(* cgroup hierarchy and resolves what it finds, a sampling loop that reads *)
(* the cgroups resolved so far, and an export loop that ends a window and  *)
(* sends it. They share the tracked and the pending containers under one   *)
(* mutex; the lookups of the discovery loop and of the export are outside. *)
(*                                                                         *)
(* A container may appear under two directories, its own scope and a       *)
(* supervisor's: a directory is named by the length of its base, and the   *)
(* shorter one is the container's own. Time is counted in discovery        *)
(* passes; a window counts its samples up to two, which is all that        *)
(* decides whether it is measured.                                         *)
(***************************************************************************)
EXTENDS Integers, Sequences, FiniteSets

CONSTANTS
  ContainerIds,         \* container ids
  IdOrder,              \* the ids in the order of strings.Compare
  MaxTracked, MaxPending, MaxHeldWindows, MaxDeadWindows,
  MaxUnresolvedAge, AbandonRetryEvery, ReconsiderEvery,   \* in passes
  SampleReads,          \* outcomes of reading the CPU counters and the memory
  CgBudgets             \* bounds: passes, samples, exports and directory changes

ASSUME CgAssumption ==
  /\ IsFiniteSet(ContainerIds) /\ MaxTracked \in Nat /\ MaxPending \in Nat
  /\ AbandonRetryEvery \in Nat \ {0} /\ ReconsiderEvery \in Nat \ {0} /\ MaxUnresolvedAge \in Nat
  /\ SampleReads \subseteq {"later", "soon", "reset", "error"} \X BOOLEAN

Dirs == {1, 2}

VARIABLES
  hierarchy,   \* id -> directories that exist
  tracked,     \* id -> container, NoContainer when absent
  pendingIds,  \* id -> pendingContainer, NoPending when absent
  phase,       \* of the discovery loop: idle, walked, reconciled, resolving
  found,       \* id -> directory the walk found, 0 if none, and whether it was complete
  complete,
  todo,        \* ids still to be resolved in this pass, with their last try
  tries,       \* lookups made in this pass
  pass,        \* the time, in discovery passes
  budget,      \* what is left of the bounds
  stopped,     \* the loops have returned: stopping, final, done
  over,        \* ghost: id -> ids that were offered while it waited for its turn
  overtaken,   \* ghost: one was offered again before another that waited since
  mixed        \* ghost: a rate was computed across two directories
cgVars == <<hierarchy, tracked, pendingIds, phase, found, complete, todo, tries, pass, budget, stopped, over, overtaken, mixed>>

Nothing     == [i \in {} |-> 0]
NoContainer == [dir |-> 0]
NoPending   == [dir |-> 0]
NotHeld     == [ok |-> FALSE, n |-> 0]
NewContainer(dir) ==
  [dir |-> dir, open |-> TRUE, gone |-> FALSE, prevDir |-> 0, cpu |-> 0, mem |-> 0,
   heldCPU |-> NotHeld, heldMem |-> NotHeld, tried |-> FALSE, readOK |-> FALSE, dead |-> 0,
   described |-> FALSE, atShutdown |-> FALSE]
NewPending(dir) == [dir |-> dir, firstFail |-> -1, lastTry |-> -1, nextTry |-> 0, gaveUp |-> FALSE, unreadable |-> FALSE]

Tracked == {i \in ContainerIds : tracked[i] # NoContainer}
Pending == {i \in ContainerIds : pendingIds[i] # NoPending}
Running == stopped = "no"

CgInit ==
  /\ hierarchy = [i \in ContainerIds |-> {}]
  /\ tracked = [i \in ContainerIds |-> NoContainer] /\ pendingIds = [i \in ContainerIds |-> NoPending]
  /\ phase = "idle" /\ found = [i \in ContainerIds |-> 0] /\ complete = TRUE
  /\ todo = Nothing /\ tries = 0 /\ pass = 0 /\ budget \in CgBudgets /\ stopped = "no"
  /\ over = [i \in ContainerIds |-> {}] /\ overtaken = FALSE /\ mixed = FALSE

loopVars == <<phase, found, complete, todo, tries, pass, over, overtaken>>

\* A directory appears; a container that exits takes all of its directories, or
\* its own scope first while the supervisor's lingers.
DirAppears(i, d) ==
  /\ budget.churn > 0 /\ budget' = [budget EXCEPT !.churn = @ - 1]
  /\ d \notin hierarchy[i]
  /\ hierarchy' = [hierarchy EXCEPT ![i] = @ \cup {d}]
  /\ UNCHANGED <<tracked, pendingIds, loopVars, stopped, mixed>>

ContainerExits(i) ==
  /\ budget.churn > 0 /\ budget' = [budget EXCEPT !.churn = @ - 1]
  /\ \E left \in {{}, hierarchy[i] \ {1}} : left # hierarchy[i] /\ hierarchy' = [hierarchy EXCEPT ![i] = left]
  /\ UNCHANGED <<tracked, pendingIds, loopVars, stopped, mixed>>

-----------------------------------------------------------------------------
(* Discovery *)

Best(ds) == IF ds = {} THEN 0 ELSE IF 1 \in ds THEN 1 ELSE 2

\* walk: what the hierarchy holds, or, when part of it could not be listed, some
\* of it. A walk that fails at the root ends the pass.
CgWalk ==
  /\ Running /\ phase = "idle" /\ budget.passes > 0
  /\ pass' = pass + 1 /\ budget' = [budget EXCEPT !.passes = @ - 1]
  /\ \/ /\ complete' = TRUE /\ phase' = "walked"
        /\ found' = [i \in ContainerIds |-> Best(hierarchy[i])]
     \/ /\ complete' = FALSE /\ phase' = "walked"
        /\ \E i \in ContainerIds : found' = [j \in ContainerIds |-> IF j = i THEN 0 ELSE Best(hierarchy[j])]
     \/ UNCHANGED <<complete, phase, found>>
  /\ UNCHANGED <<hierarchy, tracked, pendingIds, todo, tries, stopped, over, overtaken, mixed>>

\* repointLocked: what was measured belongs to the other cgroup, so it goes.
Repointed(c, dir) ==
  [c EXCEPT !.dir = dir, !.open = TRUE, !.cpu = 0, !.mem = 0,
            !.heldCPU = NotHeld, !.heldMem = NotHeld, !.prevDir = 0]

MarkGone(c) == [c EXCEPT !.open = FALSE, !.gone = TRUE]

\* Mutant of AlreadyKnown: a container that is gone no longer counts.
AlreadyKnownLive(i) == tracked[i] # NoContainer /\ ~tracked[i].gone

\* A directory found for a container that is already known is not new, not even
\* when the container is gone and waits for its last window to be sent.
AlreadyKnown(i) == tracked[i] # NoContainer

\* The place of an id in the listing.
Place(i) == CHOOSE k \in DOMAIN IdOrder : IdOrder[k] = i

\* The ids of the walk that join the pending set, in its order: the cap turns the
\* later ones away.
NewlyFound == {i \in ContainerIds : found[i] # 0 /\ ~AlreadyKnown(i) /\ pendingIds[i] = NoPending}
Admitted == {i \in NewlyFound : Cardinality(Pending) + Cardinality({j \in NewlyFound : Place(j) < Place(i)}) < MaxPending}

Improves(dir, i) == found[i] # 0 /\ found[i] < dir

\* reconcile, under the mutex. Only a complete walk retires what it did not
\* see; repointing fails when the better directory does not open.
Reconcile(opens) ==
  /\ phase = "walked" /\ phase' = "reconciled"
  /\ tracked' = [i \in ContainerIds |->
       IF ~AlreadyKnown(i) THEN tracked[i]
       ELSE IF complete /\ found[i] = 0 THEN MarkGone(tracked[i])
       ELSE IF ~tracked[i].gone /\ Improves(tracked[i].dir, i) /\ opens THEN Repointed(tracked[i], found[i])
       ELSE tracked[i]]
  /\ pendingIds' = [i \in ContainerIds |->
       IF i \in Admitted THEN NewPending(found[i])
       ELSE IF pendingIds[i] = NoPending \/ (complete /\ found[i] = 0) THEN NoPending
       ELSE IF Improves(pendingIds[i].dir, i) THEN [pendingIds[i] EXCEPT !.dir = found[i]]
       ELSE pendingIds[i]]
  /\ over' = [i \in ContainerIds |-> IF pendingIds'[i] = NoPending THEN {} ELSE over[i] \ Admitted]
  /\ UNCHANGED <<hierarchy, found, complete, todo, tries, pass, budget, stopped, overtaken, mixed>>

Due(p) == ~p.gaveUp \/ pass >= p.nextTry

DueIds == {i \in Pending : Due(pendingIds[i])}

\* resolvePending: the list is taken under the mutex, the lookups are not.
TakeTodo ==
  /\ phase = "reconciled" /\ phase' = "resolving"
  /\ todo' = [i \in DueIds |-> pendingIds[i].lastTry] /\ tries' = 0
  /\ UNCHANGED <<hierarchy, tracked, pendingIds, found, complete, pass, budget, stopped, over, overtaken, mixed>>

\* Who was tried longest ago is offered first, then the smaller id.
OfferedBefore(i, j) == todo[i] < todo[j] \/ (todo[i] = todo[j] /\ Place(i) < Place(j))

Live == {i \in Tracked : ~tracked[i].gone}

\* track: the container's identity resolved. At the cap, or when its files do
\* not open, it stays pending.
TrackedOf(i, opens) ==
  IF Cardinality(Live) < MaxTracked /\ opens
  THEN /\ tracked' = [tracked EXCEPT ![i] = NewContainer(pendingIds[i].dir)]
       /\ pendingIds' = [pendingIds EXCEPT ![i] = NoPending]
  ELSE LET capped == Cardinality(Live) >= MaxTracked
           wait   == IF capped THEN ReconsiderEvery ELSE AbandonRetryEvery
       IN /\ pendingIds' = [pendingIds EXCEPT ![i].lastTry = pass,
                              ![i].unreadable = IF capped THEN @ ELSE TRUE,
                              ![i].nextTry = IF pendingIds[i].gaveUp THEN pass + wait ELSE @]
          /\ UNCHANGED tracked

\* resolveFailed: only an answer ages the container towards being given up.
Failed(p, answered) ==
  LET first == IF answered /\ p.firstFail = -1 THEN pass ELSE p.firstFail
      quits == p.gaveUp \/ (answered /\ pass - first >= MaxUnresolvedAge)
  IN [p EXCEPT !.lastTry = pass, !.unreadable = FALSE, !.firstFail = first, !.gaveUp = quits,
               !.nextTry = IF ~quits THEN @ ELSE IF answered THEN pass + AbandonRetryEvery ELSE pass + ReconsiderEvery]

\* One lookup. What it is about may have been dropped while it ran.
Resolve(i, outcome) ==
  LET waiting == DOMAIN todo \ {i}
  IN /\ phase = "resolving" /\ \A j \in waiting : OfferedBefore(i, j)
     /\ todo' = [j \in waiting |-> todo[j]] /\ tries' = tries + 1
     /\ over' = [j \in ContainerIds |-> IF j = i THEN {} ELSE IF j \in waiting THEN over[j] \cup {i} ELSE over[j]]
     /\ overtaken' = (overtaken \/ \E j \in waiting : i \in over[j])
     /\ IF pendingIds[i] = NoPending THEN UNCHANGED <<tracked, pendingIds>>
        ELSE IF outcome \in {"resolved", "unreadable"} THEN TrackedOf(i, outcome = "resolved")
        ELSE /\ pendingIds' = [pendingIds EXCEPT ![i] = Failed(@, outcome = "unknown")]
             /\ UNCHANGED tracked
     /\ UNCHANGED <<hierarchy, phase, found, complete, pass, budget, stopped, mixed>>

\* The pass ends with the list, or when the budget is spent after one lookup.
EndPass ==
  /\ phase = "resolving" /\ (DOMAIN todo = {} \/ tries > 0)
  /\ phase' = "idle" /\ todo' = Nothing
  /\ UNCHANGED <<hierarchy, tracked, pendingIds, found, complete, tries, pass, budget, stopped, over, overtaken, mixed>>

-----------------------------------------------------------------------------
(* Sampling *)

UpTo2(n) == IF n < 2 THEN n + 1 ELSE 2

\* sampleOne. A counter reading yields a rate from the second on; one that went
\* back or came too soon after the last yields none.
SampleOne(c, cpuRead, memRead) ==
  LET rate == cpuRead = "later" /\ c.prevDir # 0
  IN [c EXCEPT !.tried = TRUE, !.readOK = @ \/ cpuRead # "error" \/ memRead,
               !.cpu = IF rate THEN UpTo2(@) ELSE @,
               !.prevDir = IF cpuRead = "error" \/ (cpuRead = "soon" /\ c.prevDir # 0) THEN @ ELSE c.dir,
               !.mem = IF memRead THEN UpTo2(@) ELSE @]

Sample(cpuRead, memRead) ==
  /\ Running /\ budget.samples > 0 /\ budget' = [budget EXCEPT !.samples = @ - 1]
  /\ tracked' = [i \in ContainerIds |->
        IF i \in Tracked /\ tracked[i].open
        THEN (IF tracked[i].dir \notin hierarchy[i] THEN SampleOne(tracked[i], "error", FALSE)
                                               ELSE SampleOne(tracked[i], cpuRead, memRead))
        ELSE tracked[i]]
  /\ mixed' = (mixed \/ \E i \in Tracked : /\ tracked[i].open /\ tracked[i].dir \in hierarchy[i] /\ cpuRead = "later"
                                           /\ tracked[i].prevDir \notin {0, tracked[i].dir})
  /\ UNCHANGED <<hierarchy, pendingIds, loopVars, stopped>>

-----------------------------------------------------------------------------
(* Export *)

Measured(n) == n >= 2

\* finish: a window that was not measured repeats the last one, a few times.
Finish(n, h) ==
  IF Measured(n) THEN [emit |-> TRUE, h |-> [ok |-> TRUE, n |-> 0]]
  ELSE IF ~h.ok THEN [emit |-> FALSE, h |-> h]
  ELSE IF h.n >= MaxHeldWindows THEN [emit |-> FALSE, h |-> NotHeld]
  ELSE [emit |-> TRUE, h |-> [ok |-> TRUE, n |-> h.n + 1]]

\* endWindow: windows in a row in which reads were tried and none succeeded.
DeadWindows(c) == IF c.readOK THEN 0 ELSE IF c.tried THEN c.dead + 1 ELSE c.dead

EndWindow(c) ==
  LET cpu == Finish(c.cpu, c.heldCPU)
      mem == Finish(c.mem, c.heldMem)
  IN [c EXCEPT !.heldCPU = cpu.h, !.heldMem = mem.h, !.described = @ \/ cpu.emit \/ mem.emit,
               !.cpu = 0, !.mem = 0, !.tried = FALSE, !.readOK = FALSE, !.dead = DeadWindows(c)]

Retires(c) == DeadWindows(c) >= MaxDeadWindows

\* quarantineLocked: still listed but unreadable, so it waits like one given up.
Quarantined(c) ==
  [dir |-> c.dir, firstFail |-> pass, lastTry |-> pass, nextTry |-> pass + AbandonRetryEvery,
   gaveUp |-> TRUE, unreadable |-> TRUE]

\* snapshot, under the mutex: every window ends; a container that is gone sends
\* what it measured and leaves, one that answers no read is retired.
Snapshot(c) == IF c = NoContainer \/ c.gone \/ Retires(c) THEN NoContainer ELSE EndWindow(c)

\* The build and the send that follow the snapshot change nothing the sampler
\* keeps: a window that fails to resolve or to send is counted and lost.
ExportWindow ==
  /\ budget.exports > 0 /\ budget' = [budget EXCEPT !.exports = @ - 1]
  /\ stopped \in {"no", "final"}
  /\ stopped' = IF stopped = "final" THEN "done" ELSE stopped
  /\ tracked' = [i \in ContainerIds |-> Snapshot(tracked[i])]
  /\ pendingIds' = [i \in ContainerIds |->
        IF i \in Tracked /\ ~tracked[i].gone /\ Retires(tracked[i]) THEN Quarantined(tracked[i]) ELSE pendingIds[i]]
  /\ UNCHANGED <<hierarchy, loopVars, mixed>>

\* Run returns once its loops have: stop marks everything gone for the final export.
Stop ==
  /\ Running /\ phase = "idle"
  /\ stopped' = "final"
  /\ tracked' = [i \in ContainerIds |->
        IF i \in Tracked THEN [MarkGone(tracked[i]) EXCEPT !.atShutdown = ~tracked[i].gone] ELSE NoContainer]
  /\ UNCHANGED <<hierarchy, pendingIds, loopVars, budget, mixed>>

CgNext ==
  \/ \E i \in ContainerIds : (\E d \in Dirs : DirAppears(i, d)) \/ ContainerExits(i)
  \/ CgWalk \/ (\E o \in BOOLEAN : Reconcile(o)) \/ TakeTodo \/ EndPass
  \/ \E i \in DOMAIN todo, o \in {"resolved", "unreadable", "unknown", "unreachable"} : Resolve(i, o)
  \/ \E r \in SampleReads : Sample(r[1], r[2])
  \/ ExportWindow \/ Stop

CgSpec == CgInit /\ [][CgNext]_cgVars

-----------------------------------------------------------------------------
\* A container is tracked or pending, never both, and holds its descriptors
\* exactly while it is tracked and not gone: one that comes back before its last
\* window was sent is not opened a second time over itself (discover.go:161).
OneHome ==
  /\ Tracked \cap Pending = {}
  /\ \A i \in Tracked : tracked[i].open <=> ~tracked[i].gone
  /\ Cardinality(Live) <= MaxTracked

\* A CPU rate is computed from two readings of one cgroup: not across the
\* directory a container was moved from (discover.go:264).
RatesOfOneCgroup == ~mixed

\* While a pending container waits for its turn no other is offered twice, unless it
\* went away and was found anew, however few lookups a pass has time for
\* (discover.go:324): the order rotates.
NobodyStarves == ~overtaken

\* The sampler's bookkeeping: one home for each container, rates of one cgroup,
\* and everyone's turn (reconcile, repointLocked, resolvePending).
SamplerSound == OneHome /\ RatesOfOneCgroup /\ NobodyStarves
=============================================================================
