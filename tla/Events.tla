------------------------------- MODULE Events -------------------------------
(***************************************************************************)
(* The Kubernetes events reader (internal/agent/events) and the lease it   *)
(* runs under (internal/agent/leader).  A reader streams the cluster's     *)
(* events from the position it last committed, batches, exports and        *)
(* commits; when the API server has compacted that position away it lists  *)
(* the backlog, in no useful order, filters it by the watermark of what it *)
(* exported, and holds the position until the whole backlog is exported.   *)
(* A process keeps its reader between leadership terms; the position every *)
(* term starts from is in a ConfigMap.                                     *)
(*                                                                         *)
(* Every revision is one event: revision n is created at time Created[n]   *)
(* and carries the reporter's timestamp Ts[n].  Revision 0 stands for the  *)
(* empty resourceVersion and time 0 for the zero time.                     *)
(***************************************************************************)
EXTENDS Integers, Sequences, FiniteSets

EX == INSTANCE FiniteSetsExt

CONSTANTS
    Replicas,     \* the processes competing for the lease
    StartMode,    \* "auto", "end" or "start"
    MaxRV,        \* bound: the last revision the API server reaches
    Created,      \* revision -> the time it appears
    Ts,           \* revision -> the timestamp its reporter wrote
    Slack,        \* replaySlack
    BatchSize,    \* flushAt: the count that triggers an export
    RetainCap,    \* retainCap: the most entries a batch retains
    ShedChunk,    \* entries shed at once at the cap
    MaxTerms,     \* bound: leadership terms
    MaxFaults     \* bound: crashes, broken walks and closed watches

ASSUME EventsAssumption ==
    /\ Replicas # {} /\ StartMode \in {"auto", "end", "start"}
    /\ {MaxRV, BatchSize, RetainCap, ShedChunk} \subseteq Nat \ {0}
    /\ BatchSize =< RetainCap
    /\ {Slack, MaxTerms, MaxFaults} \subseteq Nat
    /\ Ts \in [1..MaxRV -> Nat] /\ Created \in [1..MaxRV -> Nat \ {0}]
    /\ \A n \in 1..MaxRV - 1 : Created[n] =< Created[n + 1]

VARIABLES
    head,       \* the API server's newest revision
    compacted,  \* the oldest revision a watch or a list can still be served from
    reader,     \* process -> its Reader
    leader,     \* the processes whose leader work runs: none or one
    stored,     \* the position in the ConfigMap
    exported,   \* history: revisions the collector accepted
    counted,    \* history: revisions given up and counted (rejected or shed)
    skipped,    \* history: revisions the start policy passed over
    terms, faults

vars == <<head, compacted, reader, leader, stored, exported, counted, skipped, terms, faults>>

NoPosition == [rv |-> 0, mark |-> 0]

\* What New returns; pc, cursor and walk are stream's locals.
NewReader ==
    [batch |-> <<>>, rendered |-> 0, committed |-> NoPosition, pendingRV |-> 0, seenRV |-> 0,
     relist |-> FALSE, replaying |-> FALSE, secured |-> TRUE, replayRV |-> 0, owed |-> 0,
     held |-> 0, from |-> 0, failed |-> FALSE, pc |-> "off", cursor |-> 0, walk |-> {}]

Now == Created[head]

(* Types; a batch never outgrows retainCap, the marks never pass the clock. *)
TypeOK ==
    /\ head \in 1..MaxRV /\ compacted \in 0..head
    /\ leader \subseteq Replicas /\ Cardinality(leader) =< 1
    /\ stored.rv \in 0..head /\ stored.mark \in 0..Now
    /\ \A p \in Replicas :
        LET r == reader[p] IN
        /\ Len(r.batch) =< RetainCap /\ EX!Range(r.batch) \subseteq 1..head
        /\ r.rendered =< Len(r.batch) /\ r.owed =< Len(r.batch)
        /\ r.committed.rv \in 0..head /\ {r.committed.mark, r.held} \subseteq 0..Now
        /\ {r.pendingRV, r.seenRV, r.replayRV, r.cursor} \subseteq 0..head
        /\ {r.relist, r.replaying, r.secured, r.failed} \subseteq BOOLEAN
        /\ r.walk \subseteq 1..head
        /\ (p \in leader) <=> (r.pc # "off")
    /\ {exported, counted, skipped} \subseteq SUBSET (1..head)
-----------------------------------------------------------------------------
(* The Reader's methods, as functions of its state.                        *)

NewerRV(a, b) == b = 0 \/ a > b

NoteSeen(r, rv) == [r EXCEPT !.seenRV = IF NewerRV(rv, @) THEN rv ELSE @]

\* The backlog is exported: commit its snapshot and fold in what was held back.
SecureReplay(r) ==
    LET rv == IF r.replayRV # 0 /\ NewerRV(r.replayRV, r.committed.rv)
              THEN r.replayRV ELSE r.committed.rv
    IN  IF r.secured /\ r.held = 0 THEN r
        ELSE [r EXCEPT !.secured = TRUE, !.replayRV = 0, !.owed = 0, !.held = 0,
                       !.committed = [rv |-> rv, mark |-> EX!Max({@.mark, r.held})],
                       !.relist = @ /\ rv = 0]

\* Mutant: only a bookmark secures.
MaybeSecureNever(r) == r

\* The walk is over and all of the backlog it read is exported.
MaybeSecureReplay(r) ==
    IF r.secured \/ r.replaying \/ r.owed > 0 THEN r ELSE SecureReplay(r)

\* Mutant: an older bookmark moves the position back.
ApplyAnyBookmark(r) ==
    SecureReplay([r EXCEPT !.committed.rv = r.pendingRV, !.pendingRV = 0, !.relist = FALSE])

\* A bookmark commits everything before it, never less than is committed.
ApplyPendingBookmark(r) ==
    SecureReplay([r EXCEPT !.committed.rv = IF NewerRV(r.pendingRV, @) THEN r.pendingRV ELSE @,
                           !.pendingRV = 0, !.relist = FALSE])

\* A payload is converted once and offered unchanged until it settles.
Render(r) == IF r.rendered = 0 THEN [r EXCEPT !.rendered = Len(r.batch)] ELSE r

Payload(r) == EX!Range(SubSeq(r.batch, 1, Render(r).rendered))

Advance(r, rv) ==
    IF r.secured /\ NewerRV(rv, r.committed.rv) THEN [r EXCEPT !.committed.rv = rv] ELSE r

\* Clamped to the clock, and held apart while the replay is unsecured.
RaiseMark(r, mark) ==
    LET m == EX!Min({mark, Now}) IN
    IF r.secured THEN [r EXCEPT !.committed.mark = EX!Max({@, m})]
    ELSE [r EXCEPT !.held = EX!Max({@, m})]

\* The payload is done with: drop what it covered and advance the position.
Settle(r) ==
    LET covered  == r.rendered
        payload  == Payload(r)
        retained == SubSeq(r.batch, covered + 1, Len(r.batch))
        left     == [r EXCEPT !.batch = retained, !.rendered = 0,
                              !.owed = @ - EX!Min({covered, @})]
        moved    == Advance(MaybeSecureReplay(left), EX!Max(payload))
        marked   == IF moved.pendingRV # 0 /\ retained = <<>>
                    THEN ApplyPendingBookmark(moved) ELSE moved
        done     == RaiseMark(marked, EX!Max({Ts[e] : e \in payload}))
    IN  [done EXCEPT !.relist = @ /\ done.committed.rv = 0]

\* Below the rendered prefix, which is about to be retried; owed counts only leaders.
ShedOldest(r) ==
    LET i == IF r.rendered >= Len(r.batch) THEN 0 ELSE r.rendered
        n == EX!Min({ShedChunk, Len(r.batch) - i})
    IN  [r EXCEPT !.batch = SubSeq(@, 1, i) \o SubSeq(@, i + n + 1, Len(@)), !.rendered = i,
                  !.owed = IF @ > i THEN @ - (EX!Min({i + n, @}) - i) ELSE @]

Ingest(r, e) ==
    LET room == IF Len(r.batch) >= RetainCap THEN ShedOldest(r) ELSE r
    IN  [room EXCEPT !.batch = Append(@, e)]

Expire(r) ==
    [r EXCEPT !.committed.rv = 0, !.pendingRV = 0, !.seenRV = 0, !.pc = "start",
              !.relist = @ \/ r.committed.mark # 0 \/ r.held # 0]

Wanted(r, e) == ~r.replaying \/ r.from =< 0 \/ Ts[e] = 0 \/ Ts[e] >= r.from
-----------------------------------------------------------------------------
(* One export attempt and the state it leaves.                             *)

Outcomes == {"ok", "rejected", "down"}

\* flush: a transient failure retains the batch and its payload.
Flush(r, o) == IF o = "down" THEN Render(r) ELSE Settle(Render(r))

Account(r, gone, o) ==
    /\ exported' = IF o = "ok" THEN exported \cup Payload(r) ELSE exported
    /\ counted' = counted \cup gone \cup (IF o = "rejected" THEN Payload(r) ELSE {})

\* The cadence may skip the write, and the API server may refuse it.
Persist(r) ==
    \/ UNCHANGED stored
    \/ /\ r.committed.rv # 0
       /\ stored' = r.committed

\* Ends p's step with an export attempt; only one that settles is followed by a write.
TryFlush(p, r, gone) ==
    \E o \in Outcomes :
        LET after == [Flush(r, o) EXCEPT !.failed = (o = "down")] IN
        /\ reader' = [reader EXCEPT ![p] = after]
        /\ Account(r, gone, o)
        /\ IF o = "down" THEN UNCHANGED stored ELSE Persist(after)

\* No export this time: only the reader moves, and gone was shed.
Keep(p, r, gone) ==
    /\ reader' = [reader EXCEPT ![p] = r]
    /\ counted' = counted \cup gone
    /\ UNCHANGED <<stored, exported>>

\* A full batch is offered, unless the last attempt failed within FlushInterval.
FlushIfFull(p, r, gone) ==
    \/ /\ Len(r.batch) < BatchSize \/ r.failed
       /\ Keep(p, r, gone)
    \/ /\ Len(r.batch) >= BatchSize
       /\ TryFlush(p, r, gone)

At(p, pc) == p \in leader /\ reader[p].pc = pc
Server == <<head, compacted>>
Bounds == <<terms, faults>>
-----------------------------------------------------------------------------
(* The API server.                                                         *)

CreateEvent ==
    /\ head < MaxRV
    /\ head' = head + 1
    /\ UNCHANGED <<compacted, reader, leader, stored, exported, counted, skipped, terms, faults>>

Compact ==
    /\ compacted < head
    /\ compacted' = head
    /\ UNCHANGED <<head, reader, leader, stored, exported, counted, skipped, terms, faults>>
-----------------------------------------------------------------------------
(* A leadership term: Run loads the position, streams until the context    *)
(* ends, then flushes once more and writes the position.                   *)

LoadPosition(r) ==
    {[r EXCEPT !.committed = IF stored.rv # 0 THEN stored ELSE @],
     [r EXCEPT !.relist = @ \/ StartMode = "auto"]}

Elect(p) ==
    /\ leader = {} /\ terms < MaxTerms
    /\ leader' = {p}
    /\ terms' = terms + 1
    /\ \E r \in LoadPosition(reader[p]) : reader' = [reader EXCEPT ![p] = [r EXCEPT !.pc = "start"]]
    /\ UNCHANGED <<head, compacted, stored, exported, counted, skipped, faults>>

\* The lease is lost or the process stops: the detached final flush and write.
Stop(p) ==
    /\ p \in leader
    /\ leader' = {}
    /\ LET r == [reader[p] EXCEPT !.pc = "off", !.walk = {}, !.cursor = 0]
           Ended(after) == reader' = [reader EXCEPT ![p] = after] /\ Persist(after)
       IN  \/ r.batch = <<>> /\ Ended(r) /\ UNCHANGED <<exported, counted>>
           \/ r.batch # <<>> /\ \E o \in Outcomes : Ended(Flush(r, o)) /\ Account(r, {}, o)
    /\ UNCHANGED <<head, compacted, skipped, terms, faults>>

Crash(p) ==
    /\ p \in leader /\ faults < MaxFaults
    /\ faults' = faults + 1
    /\ leader' = {}
    /\ reader' = [reader EXCEPT ![p] = NewReader]
    /\ UNCHANGED <<head, compacted, stored, exported, counted, skipped, terms>>
-----------------------------------------------------------------------------
(* Where a stream begins.                                                  *)

Redelivering(r) ==
    IF r.batch = <<>> THEN r ELSE [r EXCEPT !.batch = <<>>, !.rendered = 0, !.pendingRV = 0]

\* Every stream starts with a fresh replay state; the filter's boundary is frozen here.
Begin(r, replay) ==
    [r EXCEPT !.replaying = replay, !.secured = ~replay, !.replayRV = 0, !.owed = 0,
              !.from = IF r.committed.mark = 0 THEN 0 ELSE r.committed.mark - Slack]

StartPositioned(p) ==
    /\ At(p, "start") /\ reader[p].committed.rv # 0
    /\ LET r == Redelivering(Begin(reader[p], FALSE)) IN
       reader' = [reader EXCEPT ![p] = [r EXCEPT !.pc = "open", !.cursor = r.committed.rv]]
    /\ UNCHANGED <<Server, leader, stored, exported, counted, skipped, Bounds>>

StartReplay(p) ==
    /\ At(p, "start") /\ reader[p].committed.rv = 0
    /\ reader[p].relist \/ StartMode = "start"
    /\ reader' = [reader EXCEPT ![p] = [Redelivering(Begin(@, TRUE)) EXCEPT !.pc = "list"]]
    /\ UNCHANGED <<Server, leader, stored, exported, counted, skipped, Bounds>>

Cold(r) == r.committed.rv = 0 /\ ~r.relist /\ StartMode # "start"

\* Resume where this process stopped reading: the buffered entries are older and stay.
StartSeen(p) ==
    /\ At(p, "start") /\ Cold(reader[p]) /\ reader[p].seenRV # 0
    /\ reader' = [reader EXCEPT ![p] =
                    [Begin(@, FALSE) EXCEPT !.pc = "open", !.cursor = reader[p].seenRV]]
    /\ UNCHANGED <<Server, leader, stored, exported, counted, skipped, Bounds>>

\* The start policy: skip to the current revision.
StartCurrent(p) ==
    /\ At(p, "start") /\ Cold(reader[p]) /\ reader[p].seenRV = 0
    /\ reader' = [reader EXCEPT ![p] =
                    [Begin(@, FALSE) EXCEPT !.pc = "open", !.cursor = head, !.seenRV = head]]
    /\ skipped' = skipped \cup 1..head
    /\ UNCHANGED <<Server, leader, stored, exported, counted, Bounds>>
-----------------------------------------------------------------------------
(* The backlog walk (replayBacklog), a page of one item at a time.         *)

ListBacklog(p) ==
    /\ At(p, "list")
    /\ reader' = [reader EXCEPT ![p] =
                    [@ EXCEPT !.pc = "walk", !.walk = 1..head, !.replayRV = head]]
    /\ UNCHANGED <<Server, leader, stored, exported, counted, skipped, Bounds>>

\* An item, in store order.  Owed before the flush that may export it.
ReplayItem(p, e) ==
    /\ At(p, "walk") /\ e \in reader[p].walk
    /\ LET r == [reader[p] EXCEPT !.walk = @ \ {e}] IN
       \/ ~Wanted(r, e) /\ Keep(p, r, {})
       \/ /\ Wanted(r, e) /\ Len(r.batch) < RetainCap
          /\ FlushIfFull(p, [Ingest(r, e) EXCEPT !.owed = @ + 1], {})
    /\ UNCHANGED <<Server, leader, skipped, Bounds>>

\* At the cap the walk waits for an export instead of shedding.
HoldWalk(p) ==
    /\ At(p, "walk") /\ Len(reader[p].batch) >= RetainCap
    /\ \E e \in reader[p].walk : Wanted(reader[p], e)
    /\ TryFlush(p, reader[p], {})
    /\ UNCHANGED <<Server, leader, skipped, Bounds>>

\* The last page is read; the tail is exported before the watch opens.
EndWalk(p) ==
    /\ At(p, "walk") /\ reader[p].walk = {}
    /\ reader' = [reader EXCEPT ![p] =
                    [NoteSeen(@, reader[p].replayRV) EXCEPT !.replaying = FALSE, !.pc = "tail",
                                                            !.cursor = reader[p].replayRV]]
    /\ UNCHANGED <<Server, leader, stored, exported, counted, skipped, Bounds>>

ExportTail(p) ==
    /\ At(p, "tail") /\ reader[p].batch # <<>>
    /\ TryFlush(p, reader[p], {})
    /\ UNCHANGED <<Server, leader, skipped, Bounds>>

EndReplay(p) ==
    /\ At(p, "tail") /\ reader[p].batch = <<>>
    /\ reader' = [reader EXCEPT ![p] = [MaybeSecureReplay(@) EXCEPT !.pc = "open"]]
    /\ UNCHANGED <<Server, leader, stored, exported, counted, skipped, Bounds>>

\* The continue token's snapshot is compacted, or the list fails some other way.
WalkExpired(p) ==
    /\ At(p, "walk") /\ reader[p].walk # {} /\ reader[p].replayRV < compacted
    /\ reader' = [reader EXCEPT ![p] = [Expire(@) EXCEPT !.walk = {}]]
    /\ UNCHANGED <<Server, leader, stored, exported, counted, skipped, Bounds>>

WalkFails(p) ==
    /\ At(p, "walk") /\ reader[p].walk # {} /\ faults < MaxFaults
    /\ faults' = faults + 1
    /\ reader' = [reader EXCEPT ![p] = [@ EXCEPT !.pc = "start", !.walk = {}]]
    /\ UNCHANGED <<Server, leader, stored, exported, counted, skipped, terms>>
-----------------------------------------------------------------------------
(* The watch.                                                              *)

OpenWatch(p) ==
    /\ At(p, "open") /\ reader[p].cursor >= compacted
    /\ reader' = [reader EXCEPT ![p].pc = "watch"]
    /\ UNCHANGED <<Server, leader, stored, exported, counted, skipped, Bounds>>

\* Gone or Expired, on opening or as an Error event of a watch that fell behind.
WatchExpired(p) ==
    /\ At(p, "open") \/ At(p, "watch")
    /\ reader[p].cursor < compacted
    /\ reader' = [reader EXCEPT ![p] = Expire(@)]
    /\ UNCHANGED <<Server, leader, stored, exported, counted, skipped, Bounds>>

\* Any other failure, or the server closing the watch.
WatchClosed(p) ==
    /\ At(p, "open") \/ At(p, "watch")
    /\ faults < MaxFaults /\ faults' = faults + 1
    /\ reader' = [reader EXCEPT ![p].pc = "start"]
    /\ UNCHANGED <<Server, leader, stored, exported, counted, skipped, terms>>

\* An Added or Modified event; at the cap the oldest entries are shed for it.
Deliver(p) ==
    /\ At(p, "watch") /\ reader[p].cursor < head
    /\ LET e == reader[p].cursor + 1
           r == Ingest([NoteSeen(reader[p], e) EXCEPT !.cursor = e], e)
       IN  FlushIfFull(p, r, (EX!Range(reader[p].batch) \cup {e}) \ EX!Range(r.batch))
    /\ UNCHANGED <<Server, leader, skipped, Bounds>>

\* It vouches for everything the stream delivered before it.
Bookmark(p) ==
    /\ At(p, "watch")
    /\ LET r == [NoteSeen(reader[p], reader[p].cursor) EXCEPT !.pendingRV = reader[p].cursor] IN
       reader' = [reader EXCEPT ![p] = IF r.batch = <<>> THEN ApplyPendingBookmark(r) ELSE r]
    /\ UNCHANGED <<Server, leader, stored, exported, counted, skipped, Bounds>>

\* The flush interval elapsed: export what there is, and write the position when due.
Tick(p) ==
    /\ At(p, "watch")
    /\ LET r == reader[p] IN
       \/ r.batch # <<>> /\ TryFlush(p, r, {})
       \/ Persist(r) /\ UNCHANGED <<reader, exported, counted>>
    /\ UNCHANGED <<Server, leader, skipped, Bounds>>
-----------------------------------------------------------------------------
Init ==
    /\ head = 1 /\ compacted = 0
    /\ reader = [p \in Replicas |-> NewReader]
    /\ leader = {} /\ stored = NoPosition
    /\ exported = {} /\ counted = {} /\ skipped = {}
    /\ terms = 0 /\ faults = 0

Step(p) ==
    \/ StartPositioned(p) \/ StartReplay(p) \/ StartSeen(p) \/ StartCurrent(p)
    \/ ListBacklog(p) \/ (\E e \in reader[p].walk : ReplayItem(p, e)) \/ HoldWalk(p)
    \/ EndWalk(p) \/ ExportTail(p) \/ EndReplay(p) \/ WalkExpired(p)
    \/ OpenWatch(p) \/ WatchExpired(p) \/ Deliver(p) \/ Tick(p)

Next ==
    \/ CreateEvent \/ Compact
    \/ \E p \in Replicas :
        Step(p) \/ Elect(p) \/ Stop(p) \/ Crash(p) \/ WalkFails(p) \/ WatchClosed(p) \/ Bookmark(p)

Spec == Init /\ [][Next]_vars

\* An export that ends a run of failed ones.
Recover(p) ==
    /\ reader[p].failed
    /\ HoldWalk(p) \/ ExportTail(p) \/ Tick(p)
    /\ ~reader'[p].failed

\* The reader goroutine keeps running, a free lease is taken, outages end.
FairSpec ==
    /\ Spec
    /\ WF_vars(\E p \in Replicas : Elect(p))
    /\ \A p \in Replicas : WF_vars(Step(p)) /\ SF_vars(Recover(p))
-----------------------------------------------------------------------------
Accounted == exported \cup counted \cup skipped

(***************************************************************************)
(* The position in the ConfigMap, and a reader's own, is a lower bound of  *)
(* what is done: every event up to it was exported, given up with a count, *)
(* or skipped by the start policy.  A successor resumes there and never    *)
(* sees what is below (settle, secureReplay, persist).                     *)
(***************************************************************************)
PositionIsLowerBound ==
    \A pos \in {stored} \cup {reader[p].committed : p \in Replicas} : 1..pos.rv \subseteq Accounted

(***************************************************************************)
(* Nothing the stream has passed is lost: while a watch is open every      *)
(* event up to its cursor is accounted for or still in the batch, whether  *)
(* it arrived by the watch, the replay, or was filtered out as exported    *)
(* (wanted), across restarts, expiries and handovers (stream).             *)
(***************************************************************************)
NothingPassedOver ==
    \A p \in Replicas :
        reader[p].pc = "watch" => 1..reader[p].cursor \subseteq Accounted \cup EX!Range(reader[p].batch)

(***************************************************************************)
(* The watermark drops from a replay only what was already exported: an    *)
(* event older than a committed watermark by more than the slack is        *)
(* accounted for (wanted, secureReplay).                                   *)
(***************************************************************************)
WatermarkIsSafe ==
    \A pos \in {stored} \cup {reader[p].committed : p \in Replicas} :
        \A e \in 1..head : Ts[e] < pos.mark - Slack => e \in Accounted

(***************************************************************************)
(* An export that empties the batch of a watch commits past all of it,     *)
(* whatever older bookmark is pending: a restart or a handover then        *)
(* repeats none of it (settle, applyPendingBookmark).                      *)
(***************************************************************************)
EmptiedIsCommitted ==
    [][\A p \in leader \cap leader' :
        (reader[p].pc = "watch" /\ reader'[p].pc = "watch" /\ reader'[p].batch = <<>>)
            => \A e \in EX!Range(reader[p].batch) \cup (reader[p].cursor + 1)..reader'[p].cursor :
                    e =< reader'[p].committed.rv]_vars

(***************************************************************************)
(* The hold is released: a replay ends with the position free to advance,  *)
(* unless the term ends first (replayOwed, maybeSecureReplay).             *)
(***************************************************************************)
ReplaySecures == \A p \in Replicas : (p \in leader /\ ~reader[p].secured) ~> (p \notin leader \/ reader[p].secured)

(***************************************************************************)
(* While some replica leads, every event is eventually exported, or given  *)
(* up with a count, or was skipped by the start policy (stream).           *)
(***************************************************************************)
EventuallyAccounted == leader # {} ~> (leader = {} \/ 1..head \subseteq Accounted)

\* The position is one to resume from: a lower bound that passes nothing over,
\* never ahead of the present, and past everything an emptied batch held
\* (settle, applyPendingBookmark).
PositionSound == [](TypeOK /\ PositionIsLowerBound /\ NothingPassedOver) /\ EmptiedIsCommitted

\* A leading reader gets through: the hold of its replay is released and every
\* event is accounted for (stream, maybeSecureReplay).
EventsSettle == ReplaySecures /\ EventuallyAccounted
=============================================================================
