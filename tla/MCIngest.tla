------------------------------ MODULE MCIngest ------------------------------
(***************************************************************************)
(* The producers of the export router on small instances: a gRPC and an    *)
(* HTTP push at the OTLP receiver, the journal reader over four entries,   *)
(* or two Azure readers of one group. part says which a behaviour is about.*)
(***************************************************************************)
EXTENDS Ingest, Journald, AzureHub

CONSTANTS g, h,                  \* pushes
          own, tenant, evil, off, \* resources
          d1, n1

VARIABLE part
suiteVars == <<part, pushVars, journalVars, hubVars>>

MCKind == [x \in Producers |-> IF x = J THEN "reoffer" ELSE "push"]
MCPayload == [x \in Producers |-> CASE x = g -> {own, evil} [] x = h -> {own, tenant, off} [] OTHER -> {}]
MCNamespace == [r \in Resources |-> IF r = tenant THEN n1 ELSE NoNs]
MCGlobs     == [d \in {d1} |-> {n1}]

\* A script routes the second entry of the journal to a destination of its own.
MCMarker    == [r \in Resources |-> IF r \in {evil, 2} THEN d1 ELSE NoMark]
MCTransport == [p \in {g, h} |-> IF p = g THEN "grpc" ELSE "http"]
One2        == [p \in {g, h} |-> 2]
One1        == [p \in {g, h} |-> 1]
MCDests     == <<d1>>
MCBytes     == <<1, 1, 9, 1>>

\* A crash or a shutdown and a restart; both owners of the positions file at
\* work on a failing disk; a source that fails and discards entries.
NoFaults == [restarts |-> 0, logSaves |-> 0, writeFails |-> 0, reopens |-> 0, vacuums |-> 0]
MCBudgets == { [NoFaults EXCEPT !.restarts = 1, !.vacuums = 1],
               [NoFaults EXCEPT !.logSaves = 2, !.writeFails = 1],
               [NoFaults EXCEPT !.reopens = 1, !.vacuums = 1] }

\* Two readers over a moving partition, a failed commit, a stop or a fatal fetch;
\* one with a managed identity, whose issuer fails and whose role is taken away.
MCHubContent == [a |-> <<"both", "bad">>, b |-> <<"metric", "empty">>]
Calm == [start |-> "start", members |-> {"x", "y"}, identity |-> FALSE, appends |-> 3, stops |-> 0, moves |-> 1,
         fatal |-> 0, commitFails |-> 0, fetches |-> 0, fetchFails |-> 0, reconnects |-> 0, revokes |-> 0, ticks |-> 0]
MCHubBudgets == { [Calm EXCEPT !.commitFails = 1], [Calm EXCEPT !.stops = 1, !.start = "end"], [Calm EXCEPT !.fatal = 1],
                  [Calm EXCEPT !.identity = TRUE, !.members = {"x"}, !.appends = 0, !.moves = 0, !.fetches = 2,
                               !.fetchFails = 1, !.reconnects = 1, !.revokes = 1, !.ticks = 5] }

SuiteInit ==
  /\ part \in {"push", "journal", "hub"}
  /\ IF part = "hub" THEN TRUE ELSE hubLeft = CHOOSE x \in HubBudgets : TRUE
  /\ IF part = "journal" THEN TRUE ELSE written = 0 /\ left = [NoFaults EXCEPT !.restarts = 1, !.vacuums = 1]
  /\ RouteInit /\ IngestInit /\ JournalInit /\ HubInit

SuiteNext ==
  \/ part = "push" /\ PushNext /\ UNCHANGED <<part, journalVars, hubVars>>
  \/ part = "journal" /\ JournalNext /\ UNCHANGED <<part, ingestVars, hubVars>>
  \/ part = "hub" /\ HubNext /\ UNCHANGED <<part, pushVars, journalVars>>

SuiteSpec == SuiteInit /\ [][SuiteNext]_suiteVars /\ PushFairness
=============================================================================
