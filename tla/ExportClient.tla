---------------------------- MODULE ExportClient ----------------------------
(***************************************************************************)
(* otlpexport.Client: concurrent exports of the signals to one collector.  *)
(* Each is cut into parts (Split) that are sent one after the other; a     *)
(* metrics export is retried, a logs, traces or raw one is a single        *)
(* attempt.  What an attempt came to is told to the FailureReporter, which *)
(* keeps the outages of each signal behind an unlocked fast path.          *)
(***************************************************************************)
EXTENDS Naturals, FiniteSets

CONSTANTS
  Calls,           \* concurrent exports
  KindsOf,         \* call -> the kinds of export it may be
  NParts,          \* parts of a payload
  RetryAttempts

Kinds == {"logs", "metrics", "raw"}
ASSUME ClientAssumption ==
  NParts \in Nat \ {0} /\ RetryAttempts \in Nat \ {0} /\ KindsOf \in [Calls -> SUBSET Kinds]

SignalOf(kind) == IF kind = "metrics" THEN "metrics" ELSE "logs"
Signals == {"logs", "metrics"}
PartsOf(kind) == IF kind = "raw" THEN 1..1 ELSE 1..NParts
AttemptsOf(kind) == IF kind = "metrics" THEN RetryAttempts ELSE 1

VARIABLES
  call,        \* call -> [pc, kind, attempt, part, err]
  collected,   \* external, history: call -> part -> times the collector took it
  failing,     \* FailureReporter.failing
  state,       \* .state: signal -> whether it has failures since it last recovered
  outages,     \* history: signal -> outages announced less recoveries announced
  lastNoted    \* history: signal -> the last verdict that says whether it is failing

clientVars == <<call, collected, failing, state, outages, lastNoted>>

ClientInit ==
  /\ call = [c \in Calls |-> [pc |-> "idle", kind |-> "raw", attempt |-> 0, part |-> 0, err |-> "nil"]]
  /\ collected = [c \in Calls |-> [p \in 1..NParts |-> 0]]
  /\ failing = 0 /\ state = [s \in Signals |-> FALSE]
  /\ outages = [s \in Signals |-> 0] /\ lastNoted = [s \in Signals |-> "nil"]

healthVars == <<failing, state, outages, lastNoted>>
Sig(c) == SignalOf(call[c].kind)

-----------------------------------------------------------------------------
\* ExportLogs, ExportTraces, ExportMetrics, exportRaw...: the first attempt.
Begin(c, kind) ==
  /\ call[c].pc = "idle"
  /\ call' = [call EXCEPT ![c] = [pc |-> "send", kind |-> kind, attempt |-> 1, part |-> 1, err |-> "nil"]]
  /\ UNCHANGED <<collected, healthVars>>

Fails(c, err) == call' = [call EXCEPT ![c].pc = "note", ![c].err = err]

\* sendParts: the next part, or the end of the attempt.
Sent(c) ==
  call' = IF call[c].part + 1 \in PartsOf(call[c].kind)
          THEN [call EXCEPT ![c].part = @ + 1]
          ELSE [call EXCEPT ![c].pc = "note", ![c].err = "nil"]

\* bearer: a token that cannot be read fails the part without a request.
TokenFails(c) ==
  /\ call[c].pc = "send" /\ Fails(c, "transient")
  /\ UNCHANGED <<collected, healthVars>>

\* A request that the collector takes; the answer may name records it refused,
\* which is counted and no error.
Collect(c) == collected' = [collected EXCEPT ![c][call[c].part] = @ + 1]
Accepted(c) ==
  /\ call[c].pc = "send" /\ Collect(c) /\ Sent(c)
  /\ UNCHANGED healthVars

\* One it takes and whose answer is lost, to the timeout or to the network.
AnswerLost(c) ==
  /\ call[c].pc = "send" /\ Collect(c)
  /\ \E err \in {"transient", "cancelled"} : Fails(c, err)
  /\ UNCHANGED healthVars

\* One it refuses, or that does not reach it.
Refused(c) ==
  /\ call[c].pc = "send"
  /\ \E err \in {"transient", "permanent", "cancelled"} : Fails(c, err)
  /\ UNCHANGED <<collected, healthVars>>

-----------------------------------------------------------------------------
(* noteSend and FailureReporter.Note.                                       *)

\* Retry: what the attempt's verdict makes of the export.
AfterNote(c) ==
  LET k == call[c]
      again == k.err \notin {"nil", "permanent"} /\ k.attempt < AttemptsOf(k.kind)
  IN  call' = [call EXCEPT ![c].pc = IF again THEN "backoff" ELSE "done"]

NoteCancelled(c) == /\ call[c].err = "cancelled" /\ UNCHANGED healthVars

\* noteRejected: the payload's own fault; no outage.
NoteRejected(c) == call[c].err = "permanent" /\ UNCHANGED healthVars

\* A success while nothing is failing takes no lock.
NoteFast(c) ==
  /\ call[c].err = "nil" /\ failing = 0
  /\ lastNoted' = [lastNoted EXCEPT ![Sig(c)] = "nil"]
  /\ UNCHANGED <<failing, state, outages>>

NoteUnlocked(c) ==
  /\ call[c].pc = "note"
  /\ NoteCancelled(c) \/ NoteRejected(c) \/ NoteFast(c)
  /\ AfterNote(c)
  /\ UNCHANGED collected

\* The load of failing, then the lock: others may come between.
NoteSlow(c) ==
  /\ call[c].pc = "note"
  /\ call[c].err = "transient" \/ (call[c].err = "nil" /\ failing > 0)
  /\ call' = [call EXCEPT ![c].pc = "lock"]
  /\ UNCHANGED <<collected, healthVars>>

\* Mutant: every success under the lock counts one signal less.
OutageEndsAlways(s) ==
  /\ failing' = IF failing > 0 THEN failing - 1 ELSE 0
  /\ state' = [state EXCEPT ![s] = FALSE]
  /\ outages' = [outages EXCEPT ![s] = IF @ > 0 THEN @ - 1 ELSE 0]

\* The first success after a failure ends the signal's outage.
OutageEnds(s) ==
  IF state[s]
  THEN /\ failing' = failing - 1
       /\ state' = [state EXCEPT ![s] = FALSE]
       /\ outages' = [outages EXCEPT ![s] = @ - 1]
  ELSE UNCHANGED <<failing, state, outages>>

\* The first failure opens it.
OutageFails(s) ==
  /\ state' = [state EXCEPT ![s] = TRUE]
  /\ failing' = IF state[s] THEN failing ELSE failing + 1
  /\ outages' = IF state[s] THEN outages ELSE [outages EXCEPT ![s] = @ + 1]

NoteLocked(c) ==
  /\ call[c].pc = "lock"
  /\ IF call[c].err = "nil" THEN OutageEnds(Sig(c)) ELSE OutageFails(Sig(c))
  /\ lastNoted' = [lastNoted EXCEPT ![Sig(c)] = call[c].err]
  /\ AfterNote(c)
  /\ UNCHANGED collected

\* The backoff ends and everything is sent again.
Restart(k) == [pc |-> "send", kind |-> k.kind, attempt |-> k.attempt + 1, part |-> 1, err |-> k.err]

Retry(c) ==
  /\ call[c].pc = "backoff"
  /\ call' = [call EXCEPT ![c] = Restart(call[c])]
  /\ UNCHANGED <<collected, healthVars>>

\* The context ends during the wait: the last verdict is the answer.
GiveUp(c) ==
  /\ call[c].pc = "backoff"
  /\ call' = [call EXCEPT ![c].pc = "done"]
  /\ UNCHANGED <<collected, healthVars>>

ClientNext ==
  \E c \in Calls :
       \/ \E k \in KindsOf[c] : Begin(c, k)
       \/ TokenFails(c) \/ Accepted(c) \/ AnswerLost(c) \/ Refused(c)
       \/ NoteUnlocked(c) \/ NoteSlow(c) \/ NoteLocked(c) \/ Retry(c) \/ GiveUp(c)

ClientSpec == ClientInit /\ [][ClientNext]_clientVars

-----------------------------------------------------------------------------
(* An export that answers nil had every part taken by the collector, whatever   *)
(* failed before; one that answers an error may have had some taken, each at    *)
(* most once per attempt; and an export that is not retried never sends a part  *)
(* twice.                                                                       *)
ExportAnswer ==
  \A c \in Calls : \A p \in PartsOf(call[c].kind) :
    /\ call[c].pc = "done" /\ call[c].err = "nil" => collected[c][p] > 0
    /\ collected[c][p] <= call[c].attempt
    /\ call[c].attempt <= AttemptsOf(call[c].kind)

(* The outages the log tells of are the ones there are: a signal is in an       *)
(* announced outage exactly while the last verdict on its delivery was a        *)
(* failure, though a success looks at nothing but the count of failing signals  *)
(* before it decides that there is nothing to clear.                            *)
OutageTold ==
  \A s \in Signals : outages[s] = (IF lastNoted[s] = "transient" THEN 1 ELSE 0)

(* What an export says of a delivery, to its caller and in the log, is so       *)
(* (noteSend).                                                       *)
DeliveryTold == ExportAnswer /\ OutageTold
=============================================================================
