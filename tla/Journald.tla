------------------------------ MODULE Journald ------------------------------
(***************************************************************************)
(* The journal reader (internal/agent/journald) and the positions file it  *)
(* shares with the tailer (internal/agent/positions). The reader is a      *)
(* re-offering producer of the export router: it batches entries, offers a *)
(* batch until the router's answer settles it, and only then commits the   *)
(* cursor of the batch's last entry.                                       *)
(*                                                                         *)
(* Entry n of the journal is the resource n of the router. A cursor is the *)
(* number of its entry, 0 the empty one.                                   *)
(***************************************************************************)
EXTENDS Route
SX == INSTANCE FiniteSetsExt

CONSTANTS
  J,                 \* the reader, a producer of kind "reoffer"
  LastEntry,         \* bound: entries the journal receives
  EntryBytes,        \* entry -> length of its message
  Filtered,          \* entries the chain's rules drop
  MaxEntryBytes, MaxBatchBytes, JournalBatch,
  JournalBudgets     \* bounds: restarts, tailer saves, failed writes, reopens, vacuums

Journal == 1 .. LastEntry

ASSUME JournalAssumption ==
  /\ LastEntry \in Nat \ {0} /\ Journal \subseteq Resources
  /\ J \in Producers /\ Kind[J] = "reoffer"

VARIABLES
  written, vacuumed,   \* entries the journal received, and discarded again
  jr,                  \* the Reader, and what stream keeps on its stack
  doc, file,           \* positions.Store: the document in memory, and the file
  began,               \* history: where reading began when there was no cursor
  observed,            \* history: entry -> times converted by this process
  lives,               \* processes so far
  left                 \* what is left of the bounds
journalVars == <<written, vacuumed, jr, doc, file, began, observed, lives, left>>

NewReader(c) ==
  [pc |-> "open", ctx |-> TRUE, batch |-> <<>>, rendered |-> FALSE, cursor |-> c, saved |-> c,
   pos |-> 0, skip |-> 0, held |-> 0, reopen |-> FALSE]

Contents(d) == [cursor |-> d.cursor, logs |-> d.logs]

JournalInit ==
  /\ written \in 0 .. 1 /\ vacuumed = 0
  /\ file = [cursor |-> 0, logs |-> 0]
  /\ doc = [cursor |-> 0, logs |-> 0, sum |-> file, valid |-> FALSE]
  /\ jr = NewReader(0) /\ began = 0
  /\ observed = [e \in Journal |-> 0]
  /\ lives = 1 /\ left \in JournalBudgets

-----------------------------------------------------------------------------
(* positions.Store *)

\* Mutant of Save: what is to be written is remembered before it is.
SaveRemembersFirst(d) ==
  IF d.valid /\ d.sum = Contents(d)
  THEN {[doc |-> d, file |-> file, ok |-> TRUE, failed |-> 0]}
  ELSE {[doc |-> [d EXCEPT !.sum = Contents(d), !.valid = TRUE], file |-> Contents(d), ok |-> TRUE, failed |-> 0],
        [doc |-> [d EXCEPT !.sum = Contents(d), !.valid = TRUE], file |-> file, ok |-> FALSE, failed |-> 1]}

\* save: a document equal to the last one written is not written again; a
\* failed write leaves the file as it was (temporary file and rename) and
\* forgets what was written.
Save(d) ==
  IF d.valid /\ d.sum = Contents(d)
  THEN {[doc |-> d, file |-> file, ok |-> TRUE, failed |-> 0]}
  ELSE {[doc |-> [d EXCEPT !.sum = Contents(d), !.valid = TRUE], file |-> Contents(d), ok |-> TRUE, failed |-> 0],
        [doc |-> [d EXCEPT !.valid = FALSE], file |-> file, ok |-> FALSE, failed |-> 1]}

Saved(s) ==
  /\ s.failed <= left.writeFails
  /\ doc' = s.doc /\ file' = s.file

\* The tailer stores its map, and the cursor with it.
SetLogs(n) ==
  /\ jr.pc # "off" /\ left.logSaves > 0
  /\ \E s \in Save([doc EXCEPT !.logs = n]) :
       /\ Saved(s)
       /\ left' = [left EXCEPT !.logSaves = @ - 1, !.writeFails = @ - s.failed]
  /\ UNCHANGED <<routeVars, written, vacuumed, jr, began, observed, lives>>

unsaved == <<doc, file, left>>

\* saveCursor: nothing without a cursor or when it is already stored; otherwise
\* at most once per period, except at shutdown and for the first one. r is the
\* reader it leaves behind.
SaveCursor(r, force) ==
  \/ /\ r.cursor \in {0, r.saved} \/ (~force /\ r.saved # 0)
     /\ jr' = r /\ UNCHANGED unsaved
  \/ /\ r.cursor \notin {0, r.saved}
     /\ \E s \in Save([doc EXCEPT !.cursor = r.cursor]) :
          /\ Saved(s) /\ left' = [left EXCEPT !.writeFails = @ - s.failed]
          /\ jr' = [r EXCEPT !.saved = IF s.ok THEN r.cursor ELSE @]

-----------------------------------------------------------------------------
(* The journal *)

Write ==
  /\ written < LastEntry /\ written' = written + 1
  /\ UNCHANGED <<routeVars, vacuumed, jr, unsaved, began, observed, lives>>

\* journald discards its oldest entry.
Vacuum ==
  /\ vacuumed + 1 < written /\ vacuumed' = vacuumed + 1
  /\ left.vacuums > 0 /\ left' = [left EXCEPT !.vacuums = @ - 1]
  /\ UNCHANGED <<routeVars, written, jr, doc, file, began, observed, lives>>

-----------------------------------------------------------------------------
(* stream *)

ResetBatch(r) == [r EXCEPT !.batch = <<>>, !.rendered = FALSE]

\* openJournal: after the cursor, or, when there is none, at the tail.
Open ==
  /\ jr.pc = "open" /\ jr.ctx
  /\ jr' = [ResetBatch(jr) EXCEPT !.pc = "stream", !.held = 0, !.reopen = FALSE, !.skip = jr.cursor,
              !.pos = IF jr.cursor # 0 THEN jr.cursor - 1 ELSE written]
  /\ began' = IF jr.cursor # 0 THEN began ELSE written
  /\ UNCHANGED <<routeVars, written, vacuumed, unsaved, observed, lives>>

BatchEntries(r) == {r.batch[i] : i \in 1 .. Len(r.batch)}

\* sanitize: a message is cut at MaxEntryBytes.
Size(e) == IF EntryBytes[e] < MaxEntryBytes THEN EntryBytes[e] ELSE MaxEntryBytes
BatchBytes(r) == SX!MapThenSumSet(Size, BatchEntries(r))

\* ingest; a batch of JournalBatch entries is flushed.
Ingested(r, e) ==
  [r EXCEPT !.batch = Append(@, e), !.held = 0,
            !.pc = IF Len(r.batch) + 1 >= JournalBatch THEN "flush" ELSE "stream"]

\* The seek lands on the cursor's own entry, or past it when that is gone.
Skips(e) == jr.skip = e

\* next, and the entries arm of the select: an entry that would overfill the
\* batch waits for the batch to be flushed.
ReadEntry ==
  LET e == (IF jr.pos < vacuumed THEN vacuumed ELSE jr.pos) + 1
      r == [jr EXCEPT !.pos = e, !.skip = 0]
  IN /\ jr.pc = "stream" /\ e <= written
     /\ jr' = IF Skips(e) THEN r
              ELSE IF r.batch # <<>> /\ BatchBytes(r) + Size(e) > MaxBatchBytes
              THEN [r EXCEPT !.held = e, !.pc = "flush"]
              ELSE Ingested(r, e)
     /\ UNCHANGED <<routeVars, written, vacuumed, unsaved, began, observed, lives>>

\* The ticker's arm.
TickFlush ==
  /\ jr.pc = "stream" /\ jr.batch # <<>>
  /\ jr' = [jr EXCEPT !.pc = "flush"]
  /\ UNCHANGED <<routeVars, written, vacuumed, unsaved, began, observed, lives>>

\* The source fails: what is buffered is flushed, then stream returns.
SourceEnds ==
  /\ jr.pc = "stream" /\ left.reopens > 0 /\ left' = [left EXCEPT !.reopens = @ - 1]
  /\ jr' = [jr EXCEPT !.pc = "flush", !.reopen = TRUE]
  /\ UNCHANGED <<routeVars, written, vacuumed, doc, file, began, observed, lives>>

-----------------------------------------------------------------------------
(* flushRetry and flush *)

\* What follows a flush that returned nil.
Resumed(r) ==
  IF r.pc = "final" THEN [r EXCEPT !.pc = "save"]
  ELSE IF r.held # 0 THEN Ingested(r, r.held)
  ELSE [r EXCEPT !.pc = IF r.reopen THEN "open" ELSE "stream"]

\* settleBatch; final is whether it is the flush at shutdown.
Settled(final) ==
  SaveCursor(Resumed([ResetBatch(jr) EXCEPT !.cursor = jr.batch[Len(jr.batch)], !.pc = IF final THEN "final" ELSE "flush"]), FALSE)

\* Pending.Render: the batch is converted, and its metrics observed, once.
Render(r) ==
  observed' = [e \in Journal |-> IF e \in BatchEntries(r) /\ ~r.rendered THEN observed[e] + 1 ELSE observed[e]]

Records(r) == BatchEntries(r) \ Filtered

\* One attempt begins. A batch of which the rules left nothing is settled.
Attempt ==
  /\ \/ jr.pc = "flush" /\ jr.ctx /\ call[J].offers < MaxOffers
     \/ jr.pc = "final"
  /\ jr.batch # <<>>
  /\ Render(jr)
  /\ IF Records(jr) = {}
     THEN Settled(jr.pc = "final") /\ UNCHANGED routeVars
     ELSE /\ StartExport(J, Records(jr)) /\ UNCHANGED unsaved
          /\ jr' = [jr EXCEPT !.rendered = TRUE, !.pc = IF @ = "final" THEN "finalExport" ELSE "export"]
  /\ UNCHANGED <<written, vacuumed, began, lives>>

NothingToFlush ==
  /\ jr.batch = <<>> /\ (jr.pc = "final" \/ (jr.pc = "flush" /\ jr.ctx))
  /\ jr' = Resumed(jr)
  /\ UNCHANGED <<routeVars, written, vacuumed, unsaved, began, observed, lives>>

\* Mutant of Settles: any answer settles the batch.
SettlesAny(a) == TRUE

\* logchain.SettlePermanent: a payload refused for good is counted and settled.
Settles(a) == a \in {"ok", "permanent"}

\* The router answered. A failed attempt is repeated, unless ctx is done or it
\* was the flush at shutdown, which is tried once.
AttemptReturns ==
  /\ jr.pc \in {"export", "finalExport"} /\ Answered(J)
  /\ IF Settles(call[J].ans)
     THEN Settled(jr.pc = "finalExport") /\ call' = [call EXCEPT ![J] = Idle]
     ELSE /\ jr' = [jr EXCEPT !.pc = IF @ = "finalExport" THEN "save" ELSE IF jr.ctx THEN "flush" ELSE "final"]
          /\ UNCHANGED <<call, unsaved>>
  /\ UNCHANGED <<memo, accepted, lostAns, refused, written, vacuumed, began, observed, lives>>

-----------------------------------------------------------------------------
(* Shutdown, crash and restart *)

Cancel ==
  /\ jr.pc # "off" /\ jr.ctx /\ jr' = [jr EXCEPT !.ctx = FALSE]
  /\ UNCHANGED <<routeVars, written, vacuumed, unsaved, began, observed, lives>>

\* Run leaves its loop: stream returned because ctx is done.
LeaveLoop ==
  /\ ~jr.ctx /\ jr.pc \in {"open", "stream", "flush"}
  /\ jr' = [jr EXCEPT !.pc = "final", !.held = 0]
  /\ UNCHANGED <<routeVars, written, vacuumed, unsaved, began, observed, lives>>

\* Run's last act: the cursor is stored whatever the period says.
FinalSave ==
  /\ jr.pc = "save"
  /\ SaveCursor([jr EXCEPT !.pc = "off"], TRUE)
  /\ UNCHANGED <<routeVars, written, vacuumed, began, observed, lives>>

Crash ==
  /\ jr.pc # "off" /\ jr' = [NewReader(0) EXCEPT !.pc = "off"]
  /\ call' = [call EXCEPT ![J] = Idle]
  /\ UNCHANGED <<memo, accepted, lostAns, refused, written, vacuumed, unsaved, began, observed, lives>>

\* A new process: positions.Open reads the file, loadCursor the cursor.
Start ==
  /\ jr.pc = "off" /\ left.restarts > 0 /\ left' = [left EXCEPT !.restarts = @ - 1]
  /\ lives' = lives + 1
  /\ doc' = [cursor |-> file.cursor, logs |-> file.logs, sum |-> file, valid |-> FALSE]
  /\ jr' = NewReader(file.cursor)
  /\ call' = [call EXCEPT ![J] = Idle]
  /\ observed' = [e \in Journal |-> 0]
  /\ UNCHANGED <<memo, accepted, lostAns, refused, written, vacuumed, file, began>>

JournalNext ==
  \/ Write \/ Vacuum \/ Open \/ ReadEntry \/ TickFlush \/ SourceEnds \/ Attempt \/ NothingToFlush
  \/ AttemptReturns \/ Cancel \/ LeaveLoop \/ FinalSave \/ Crash \/ Start
  \/ \E n \in 0 .. 1 : SetLogs(n)
  \/ ExportStep(J) /\ UNCHANGED journalVars

JournalSpec == RouteInit /\ JournalInit /\ [][JournalNext]_<<routeVars, journalVars>>

-----------------------------------------------------------------------------
SettledEntries == {e \in Journal : e \in Filtered \/ Delivered(J, e) \/ <<J, e>> \in refused}

D == INSTANCE Delivery WITH Newest <- LastEntry, began <- began, committed <- file.cursor,
                            settled <- SettledEntries, expired <- vacuumed

(* The reader implements Delivery: through outages, failed writes of the       *)
(* positions file, reopened journals, shutdowns and crashes the cursor on disk *)
(* only moves forward and never past an entry that was not settled             *)
(* (journald.go:649).                                                          *)
ImplementsDelivery == D!DeliverySpec

(* One process observes an entry's log metrics once, however often its batch   *)
(* is offered (journald.go:575), and the default share of a batch that splits  *)
(* is not delivered again because a route's share failed (route.go's           *)
(* withholding): the reader's retries repeat nothing that was done.            *)
OncePerLife ==
  /\ \A e \in Journal : observed[e] <= 1
  /\ lives = 1 /\ J \notin lostAns =>
       \A e \in Journal : Decide(e) = Default => accepted[J][e] <= 1

(* A cursor the reader counts as stored is in the file, whichever of the two   *)
(* owners of the document wrote it and whatever failed in between: the write   *)
(* that is left out is one that changes nothing (positions.go:323).            *)
StoredIsOnDisk == jr.saved <= file.cursor

(* The reader repeats nothing that was done, and knows what is stored.         *)
JournalSound == OncePerLife /\ StoredIsOnDisk
=============================================================================
