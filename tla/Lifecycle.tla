------------------------------ MODULE Lifecycle ------------------------------
(***************************************************************************)
(* The life of both processes, the agent in any of its roles and the       *)
(* metadata service: what run() acquires, in which order, what it defers   *)
(* and which goroutines it starts at each stage; fatal pipelines, signals  *)
(* and refused starts at any point of that; the budgeted shutdown with its *)
(* final exports; and the deferred closes, last in first out.              *)
(* Time is in units of five seconds and passes only while shutting down.   *)
(* A goroutine of the wait group may be stuck; the others stop when asked. *)
(***************************************************************************)
EXTENDS Integers, Sequences, FiniteSets

LOCAL INSTANCE SequencesExt

CONSTANTS Confs,      \* the configurations checked: a role and what is on
          MaxStuck    \* how many goroutines outlive a join

VARIABLES
  conf,        \* [role, on, fatal]: what is on, and which pipelines may fail
  phase, at, step, \* where run() is: its stage, its final export
  stack,       \* the deferred calls, the next to run last
  running,     \* goroutines
  reporting,     \* pipelines between storing their failure and stopping the process
  cancelled, cause,   \* the process context, and what ended it first
  fatalErr, result,   \* the first failure stored, and what run() returns
  now, by,            \* the time spent shutting down, and shutdownBy
  gaveUp, joined,     \* a join ran out of budget; the service's inline join is done
  held, latched,      \* acked spans or parked lookups are held; no more may be
  dirty, spool,       \* windows with observations not exported; the spool: empty, filled, left
  closed,             \* exporters, spools and clients closed
  gates, ready        \* readiness gates pending; /readyz answered 200

lifeVars == <<conf, phase, at, step, stack, running, reporting, cancelled, cause, fatalErr, result, now, by,
              gaveUp, joined, held, latched, dirty, spool, closed, gates, ready>>

None == "none"
Unset == -1
-----------------------------------------------------------------------------
(* The stages of run(): what a stage needs to be on, whether it can refuse, *)
(* and what it defers, starts and gates once it is done.                   *)

Stage(name, when, refuses, defers, starts, awaits) ==
  [name |-> name, when |-> when, refuses |-> refuses, defers |-> defers, starts |-> starts, awaits |-> awaits]
Checks(name, when)          == Stage(name, when, TRUE, <<>>, {}, {})
Opens(name, when, defers)   == Stage(name, when, TRUE, defers, {}, {})
Starts(name, when, starts)  == Stage(name, when, FALSE, <<>>, starts, {})

ShutdownContext == Stage("signals", {}, FALSE, <<"releaseSignals", "stop">>, {}, {})
ServeMetrics    == Opens("metricsListener", {}, <<"stopMetrics">>)
ServePprof      == Opens("pprofListener", {}, <<"stopPprof">>)

AgentAcquires ==
  <<Checks("nodeName", {}), ShutdownContext, Checks("logging", {}), Checks("config", {}),
    Checks("checkConfig", {"checkConfig"}), Checks("positions", {"positions"}),
    Checks("scrapeAuthToken", {"scrapeAuth"}), ServeMetrics, ServePprof>>

StartNodeInfo == Stage("nodeInfo", {"metadata"}, FALSE, <<>>, {}, {"metadata-service"})

AgentExports ==
  <<StartNodeInfo, Opens("exporter", {}, <<"exporter">>), Opens("logBuffer", {"buffer"}, <<"logBuffer">>),
    Opens("metricBuffer", {"buffer"}, <<"metricBuffer">>),
    Opens("traceBuffer", {"buffer", "tier", "tail"}, <<"traceBuffer">>),
    Opens("route", {"routes"}, <<"route">>)>>

AgentDrains ==
  <<Stage("drain", {}, FALSE, <<"resharder", "drain">>, {}, {}), Starts("buffered", {"buffer"}, {"bufferedRun"}),
    Starts("transforms", {"transforms"}, {"reload"}), Starts("self", {"self"}, {"selfRun"}),
    Starts("logMetrics", {"logMetrics"}, {"logMetricsRun"})>>

NewDebugGuard == Checks("debugGuard", {"debug"})
StartLogs     == Starts("logs", {"logs"}, {"tailer"})
StartJournald == Starts("journald", {"journald"}, {"journal"})
StartIngest   == Stage("ingest", {"ingest"}, FALSE, <<>>, {"ingest"}, {"otlp-ingest"})
StartEvents   == Stage("events", {"events"}, TRUE, <<>>, {"events"}, {})
StartAzure    == Stage("azure", {"azure"}, TRUE, <<>>, {"azure"}, {"azure"})
StartScraper  == Starts("scraper", {"scraper"}, {"scraper"})
StartCgroupStats == Stage("cgroup", {"cgroup"}, TRUE, <<>>, {"sampler"}, {})
StartDebugServer == Starts("debugServer", {"debug"}, {"debugServer"})

\* The order inside the tier: nothing serves before everything that can refuse.
StartServiceGraph ==
  <<Checks("tierToken", {"tier"}), Starts("graph", {"tier"}, {"graphRun", "sweeper"})>>
BuildOwnerChain ==
  <<Stage("tailBuffer", {"tier", "tail"}, TRUE, <<>>, {"tailRun"}, {}),
    Starts("spanMetrics", {"tier", "span"}, {"spanRun"})>>
StartResharder == Checks("resharder", {"tier", "tierIngest"})
StartReceiver  == Stage("receiver", {"tier"}, FALSE, <<>>, {"receiver"}, {"service-graph-receiver"})
StartServiceGraphIngest ==
  Stage("tierIngest", {"tier", "tierIngest"}, FALSE, <<>>, {"tierIngest"}, {"service-graph-ingest"})

Watch == Starts("watch", {}, {"watch"})

AgentStarts ==
  <<NewDebugGuard, StartLogs, StartJournald, StartIngest>>
    \o StartServiceGraph \o BuildOwnerChain \o <<StartResharder, StartReceiver, StartServiceGraphIngest>>
    \o <<StartEvents, StartAzure, StartScraper, StartCgroupStats, StartDebugServer, Watch>>

ServiceAcquires ==
  <<ShutdownContext, Checks("logging", {}), Checks("config", {}), Starts("checkConfig", {"checkConfig"}, {}),
    Checks("clients", {}), Checks("informers", {}), Checks("monitors", {"monitors"}),
    Opens("exporter", {"self"}, <<"exporter">>)>>

ServiceStarts ==
  <<Stage("join", {}, FALSE, <<"joinOnEarlyReturn">>, {}, {}), Starts("self", {"self"}, {"selfRun"}),
    Stage("scrapeAuth", {"scrapeAuth"}, TRUE, <<>>, {"rotating"}, {}), Checks("server", {}),
    ServeMetrics, ServePprof, Stage("http", {}, FALSE, <<"apiDrain">>, {}, {})>>

Stages ==
  [agent |-> AgentAcquires \o AgentExports \o AgentDrains \o AgentStarts,
   service |-> ServiceAcquires \o ServiceStarts]

Plan == SelectSeq(Stages[conf.role], LAMBDA s : s.when \subseteq conf.on)
Built(name) == \E j \in 1..(at - 1) : Plan[j].name = name
On(f) == f \in conf.on
-----------------------------------------------------------------------------
(* Who does what. *)

\* Goroutines outside the wait group; the others are joined on the way out.
Aside == {"debugServer"}
Joinable == running \ Aside

\* The pipelines whose failure ends the process.
Fatal == {"ingest", "receiver", "tierIngest", "events", "debugServer"}

ASSUME LifeAssumption ==
  /\ \A c \in Confs : c.role \in {"agent", "service"} /\ c.fatal \subseteq Fatal
  /\ MaxStuck \in Nat

Windows == {"logMetrics", "cgroup", "span", "graph", "self"}

\* The windows a goroutine observes into, beside the self metrics.
Feeds(p) ==
  (IF p \in {"tailer", "journal", "ingest", "events", "azure"} THEN {"logMetrics"} ELSE {})
    \cup (IF p = "sampler" THEN {"cgroup"} ELSE {})
    \cup (IF p \in {"receiver", "tierIngest"} THEN {"graph", "span"} ELSE {})

\* The goroutine that exports a window on its interval.
RunOf == [logMetrics |-> "logMetricsRun", cgroup |-> "sampler", span |-> "spanRun", graph |-> "graphRun",
          self |-> "selfRun"]

\* The windows a configuration has.
WindowNeeds == [logMetrics |-> {"logMetrics"}, cgroup |-> {"cgroup"}, span |-> {"tier", "span"}, graph |-> {"tier"},
                self |-> {"self"}]
HasWindows == {w \in Windows : WindowNeeds[w] \subseteq conf.on}

\* A script of the transforms may observe into the log metrics as data passes.
Scripted == IF On("transforms") THEN {"logMetrics"} ELSE {}

Observes(ws) == dirty' = dirty \cup (ws \cap HasWindows)

Spooling == IF On("buffer") THEN "filled" ELSE spool

\* What is exported goes to the spool where there is one, and fails where it is full.
Ships == \E full \in {FALSE, On("buffer")} : spool' = IF full THEN "filled" ELSE spool
-----------------------------------------------------------------------------
(* Shutdown budgets. *)

Total == [agent |-> 9, service |-> 3]
ShutdownStep == 2
ShutdownDrain == 3
ListenerShutdownTimeout == 1
Grace == [agent |-> 12, service |-> 6]

Lesser(a, b) == IF a <= b THEN a ELSE b

\* Mutant: the budget is not clamped to the shared deadline.
ShutdownBudgetUnclamped(limit) == limit

ShutdownBudget(limit) ==
  IF by = Unset THEN limit ELSE IF now >= by THEN 0 ELSE Lesser(limit, by - now)

\* The process context ends, for whichever reason came first.
Stop(why) ==
  /\ cancelled' = TRUE
  /\ cause' = IF cancelled THEN cause ELSE why

\* cli.WaitFor: the group is done within the budget, or some of it is stuck; the
\* caller may spend a further while.
WaitFor(budget, further) ==
  \E stuck \in {s \in SUBSET Joinable : Cardinality(s) <= MaxStuck} :
    /\ running' = (running \cap Aside) \cup stuck
    /\ reporting' = reporting \cap running'
    /\ gaveUp' = (gaveUp \/ stuck # {})
    /\ \E d \in 0..budget, e \in 0..further : (stuck # {} => d = budget) /\ now' = now + d + e
-----------------------------------------------------------------------------
(* Starting. *)

StageDone ==
  /\ phase = "start" /\ at <= Len(Plan) /\ Plan[at].name # "checkConfig"
  /\ at' = at + 1
  /\ stack' = stack \o Plan[at].defers
  /\ running' = running \cup Plan[at].starts
  /\ gates' = IF On("debug") THEN gates \cup Plan[at].awaits ELSE gates
  /\ phase' = IF at = Len(Plan) THEN "serve" ELSE "start"
  /\ UNCHANGED <<conf, step, reporting, cancelled, cause, fatalErr, result, now, by, gaveUp, joined, held,
                 latched, dirty, spool, closed, ready>>

\* A stage returns its error, and everything deferred so far runs.
StageRefuses ==
  /\ phase = "start" /\ at <= Len(Plan) /\ Plan[at].refuses
  /\ phase' = "return" /\ result' = "start"
  /\ UNCHANGED <<conf, at, step, stack, running, reporting, cancelled, cause, fatalErr, now, by, gaveUp, joined,
                 held, latched, dirty, spool, closed, gates, ready>>

\* -check-config says its verdict and returns without acquiring anything; the
\* agent's -test-config may refuse.
CheckedConfig ==
  /\ phase = "start" /\ at <= Len(Plan) /\ Plan[at].name = "checkConfig"
  /\ phase' = "return" /\ result' = "ok"
  /\ UNCHANGED <<conf, at, step, stack, running, reporting, cancelled, cause, fatalErr, now, by, gaveUp, joined,
                 held, latched, dirty, spool, closed, gates, ready>>

\* A node without the cgroup files costs the sampler, not the process.
UnsupportedNode ==
  /\ phase = "start" /\ at <= Len(Plan) /\ Plan[at].name = "cgroup"
  /\ conf' = [conf EXCEPT !.on = @ \ {"cgroup"}]
  /\ UNCHANGED <<phase, at, step, stack, running, reporting, cancelled, cause, fatalErr, result, now, by, gaveUp,
                 joined, held, latched, dirty, spool, closed, gates, ready>>
-----------------------------------------------------------------------------
(* Meanwhile: the goroutines, the clients and the kubelet. *)

Alive == phase \notin {"exited", "killed"}

\* A producer observes into its windows and ships what it read.
Works(p) ==
  /\ Alive /\ p \in running \ reporting
  /\ Observes(Feeds(p) \cup {"self"} \cup Scripted) /\ Ships
  /\ UNCHANGED <<conf, phase, at, step, stack, running, reporting, cancelled, cause, fatalErr, result, now, by,
                 gaveUp, joined, held, latched, closed, gates, ready>>

\* A receiver of the tier acks spans into the tail buffer; once it is latched
\* they are decided on the spot and leave with the ack.
Receives(p) ==
  /\ Alive /\ p \in {"receiver", "tierIngest"} \cap (running \ reporting)
  /\ Observes(Feeds(p) \cup {"self"}) /\ Ships
  /\ held' = (held \/ (On("tail") /\ ~latched))
  /\ UNCHANGED <<conf, phase, at, step, stack, running, reporting, cancelled, cause, fatalErr, result, now, by,
                 gaveUp, joined, latched, closed, gates, ready>>

\* A lookup of the service parks until its container shows up, its wait ends or
\* the API is drained.
Parks ==
  /\ Alive /\ conf.role = "service" /\ phase # "start" /\ Built("http")
  /\ held' = ~latched
  /\ UNCHANGED <<conf, phase, at, step, stack, running, reporting, cancelled, cause, fatalErr, result, now, by,
                 gaveUp, joined, latched, dirty, spool, closed, gates, ready>>

\* What is held is decided or answered in its time.
Settles ==
  /\ Alive /\ held /\ (conf.role = "service" \/ "tailRun" \in running)
  /\ held' = FALSE /\ Ships
  /\ UNCHANGED <<conf, phase, at, step, stack, running, reporting, cancelled, cause, fatalErr, result, now, by,
                 gaveUp, joined, latched, dirty, closed, gates, ready>>

\* The interval of a window, and the drain of the spool, while their goroutines run.
Exports ==
  /\ Alive
  /\ \/ \E w \in dirty : RunOf[w] \in running /\ dirty' = dirty \ {w} /\ spool' = Spooling
     \/ "bufferedRun" \in running /\ spool' = "empty" /\ UNCHANGED dirty
  /\ UNCHANGED <<conf, phase, at, step, stack, running, reporting, cancelled, cause, fatalErr, result, now, by,
                 gaveUp, joined, held, latched, closed, gates, ready>>

\* pipelines.fatal stores the failure, the first one stays, and then stops the process.
StoresFailure(p) ==
  /\ Alive /\ p \in (conf.fatal \cap running) \ reporting
  /\ fatalErr' = IF fatalErr = None THEN p ELSE fatalErr
  /\ reporting' = reporting \cup {p}
  /\ UNCHANGED <<conf, phase, at, step, stack, running, cancelled, cause, result, now, by, gaveUp, joined, held,
                 latched, dirty, spool, closed, gates, ready>>

StopsProcess(p) ==
  /\ Alive /\ p \in reporting
  /\ Stop(p)
  /\ reporting' = reporting \ {p} /\ running' = running \ {p}
  /\ UNCHANGED <<conf, phase, at, step, stack, fatalErr, result, now, by, gaveUp, joined, held, latched, dirty,
                 spool, closed, gates, ready>>

\* SIGTERM cancels the context while the handler is registered, a second one is
\* absorbed; without the handler it ends the process on the spot.
Signal ==
  /\ Alive
  /\ IF "releaseSignals" \in ToSet(stack)
       THEN Stop("signal") /\ UNCHANGED phase
       ELSE phase' = "killed" /\ UNCHANGED <<cancelled, cause>>
  /\ UNCHANGED <<conf, at, step, stack, running, reporting, fatalErr, result, now, by, gaveUp, joined, held, latched,
                 dirty, spool, closed, gates, ready>>

\* A listener binds, a first fetch succeeds: a gate is done, and never goes back.
\* Gates are followed where /readyz is served.
GateDone ==
  /\ Alive /\ \E g \in gates : gates' = gates \ {g}
  /\ UNCHANGED <<conf, phase, at, step, stack, running, reporting, cancelled, cause, fatalErr, result, now, by,
                 gaveUp, joined, held, latched, dirty, spool, closed, ready>>

\* /readyz is 200 when no gate is pending.
Probed ==
  /\ Alive /\ "debugServer" \in running /\ gates = {}
  /\ ready' = TRUE
  /\ UNCHANGED <<conf, phase, at, step, stack, running, reporting, cancelled, cause, fatalErr, result, now, by,
                 gaveUp, joined, held, latched, dirty, spool, closed, gates>>
-----------------------------------------------------------------------------
(* Shutting down. *)

\* The agent's deadline is anchored before the producers are joined.
ShutdownBegins ==
  /\ phase = "serve" /\ conf.role = "agent" /\ cancelled
  /\ by' = now + Total.agent
  /\ phase' = "join"
  /\ UNCHANGED <<conf, at, step, stack, running, reporting, cancelled, cause, fatalErr, result, now, gaveUp, joined,
                 held, latched, dirty, spool, closed, gates, ready>>

\* The service's server failed: the lookups are answered, there is no deadline.
ServerFailed ==
  /\ phase = "serve" /\ conf.role = "service"
  /\ result' = "http" /\ held' = FALSE /\ latched' = TRUE
  /\ phase' = "join" /\ Stop("http")
  /\ UNCHANGED <<conf, at, step, stack, running, reporting, fatalErr, now, by, gaveUp, joined, dirty, spool, closed,
                 gates, ready>>

\* shutdownHTTP: the parked lookups first, then the server within a step.
ShutdownHTTP ==
  /\ phase = "serve" /\ conf.role = "service" /\ cancelled
  /\ by' = now + Total.service
  /\ held' = FALSE /\ latched' = TRUE
  /\ \E d \in 0..ShutdownStep : now' = now + d
  /\ result' \in {"ok", "http"}
  /\ phase' = "join"
  /\ UNCHANGED <<conf, at, step, stack, running, reporting, cancelled, cause, fatalErr, gaveUp, joined, dirty,
                 spool, closed, gates, ready>>

JoinLimit == [agent |-> ShutdownDrain, service |-> ShutdownStep]

JoinProducers ==
  /\ phase = "join"
  /\ WaitFor(ShutdownBudget(JoinLimit[conf.role]), 0)
  /\ joined' = TRUE /\ phase' = "steps"
  /\ UNCHANGED <<conf, at, step, stack, cancelled, cause, fatalErr, result, by, held, latched, dirty, spool,
                 closed, gates, ready>>

\* The final exports, in the order they depend on each other: what a step ships
\* or counts, a later one still has to deliver.
FinalSteps == [agent |-> <<"tail", "logMetrics", "cgroup", "span", "graph", "self", "drain">>, service |-> <<"self">>]
StepNeeds == WindowNeeds @@ [tail |-> {"tier", "tail"}, drain |-> {"buffer"}]
Steps == SelectSeq(FinalSteps[conf.role], LAMBDA s : StepNeeds[s] \subseteq conf.on)

\* Buffer.Flush: everything held is decided, what is kept is shipped or counted
\* lost, and nothing is held again.
FlushTail ==
  /\ held' = FALSE /\ latched' = TRUE
  /\ Ships

\* A window that could not be exported is reported, and gone with the process;
\* a spool that could not be emptied is kept for the next start.
StepRuns(ok) ==
  /\ phase = "steps" /\ step <= Len(Steps)
  /\ step' = step + 1
  /\ \E d \in 0..ShutdownBudget(ShutdownStep) : now' = now + d
  /\ LET s == Steps[step] IN
       CASE s = "tail" -> FlushTail /\ Observes({"self"} \cup Scripted)
         [] s = "drain" -> spool' = (IF ok THEN "empty" ELSE "left") /\ UNCHANGED <<held, latched, dirty>>
         [] OTHER -> /\ dirty' = (dirty \ {s}) \cup (({"self"} \cup Scripted) \cap (HasWindows \ {s}))
                     /\ spool' = (IF ok THEN Spooling ELSE spool)
                     /\ UNCHANGED <<held, latched>>
  /\ UNCHANGED <<conf, phase, at, stack, running, reporting, cancelled, cause, fatalErr, result, by, gaveUp,
                 joined, closed, gates, ready>>

\* run() returns: the agent with the first failure stored, if any.
ShutdownComplete ==
  /\ phase = "steps" /\ step > Len(Steps)
  /\ phase' = "return"
  /\ result' = IF conf.role = "agent" /\ fatalErr # None THEN fatalErr ELSE IF result = None THEN "ok" ELSE result
  /\ UNCHANGED <<conf, at, step, stack, running, reporting, cancelled, cause, fatalErr, now, by, gaveUp,
                 joined, held, latched, dirty, spool, closed, gates, ready>>
-----------------------------------------------------------------------------
(* The deferred calls, last in first out. *)

Deferred(d) ==
  /\ phase = "return" /\ stack # <<>> /\ Last(stack) = d
  /\ stack' = Front(stack)
  /\ UNCHANGED <<conf, phase, at, step, fatalErr, result, by, dirty, gates, ready>>

\* The early return's backstop: nobody else flushes what was acked meanwhile.
DrainDeferred ==
  /\ Deferred("drain")
  /\ Stop("return")
  /\ IF by = Unset /\ Built("tailBuffer")
       THEN WaitFor(ShutdownDrain, ShutdownStep) /\ FlushTail
       ELSE WaitFor(ShutdownBudget(ShutdownDrain), 0) /\ UNCHANGED <<held, latched, spool>>
  /\ UNCHANGED <<joined, closed>>

JoinOnEarlyReturn ==
  /\ Deferred("joinOnEarlyReturn")
  /\ IF joined THEN UNCHANGED <<cancelled, cause, running, reporting, gaveUp, now>>
               ELSE Stop("return") /\ WaitFor(ShutdownBudget(ShutdownStep), 0)
  /\ UNCHANGED <<joined, held, latched, spool, closed>>

DrainAPI ==
  /\ Deferred("apiDrain")
  /\ held' = FALSE /\ latched' = TRUE
  /\ UNCHANGED <<running, reporting, cancelled, cause, now, gaveUp, joined, spool, closed>>

StopListener ==
  /\ Deferred("stopMetrics") \/ Deferred("stopPprof")
  /\ \E d \in 0..ListenerShutdownTimeout : now' = now + d
  /\ UNCHANGED <<running, reporting, cancelled, cause, gaveUp, joined, held, latched, spool, closed>>

Closes == {"exporter", "logBuffer", "metricBuffer", "traceBuffer", "route", "resharder"}

CloseResource ==
  /\ \E r \in Closes : Deferred(r) /\ closed' = closed \cup {r}
  /\ UNCHANGED <<running, reporting, cancelled, cause, now, gaveUp, joined, held, latched, spool>>

CancelContext ==
  /\ Deferred("stop") /\ Stop("return")
  /\ UNCHANGED <<running, reporting, now, gaveUp, joined, held, latched, spool, closed>>

ReleaseSignals ==
  /\ Deferred("releaseSignals")
  /\ UNCHANGED <<running, reporting, cancelled, cause, now, gaveUp, joined, held, latched, spool, closed>>

Exit ==
  /\ phase = "return" /\ stack = <<>>
  /\ phase' = "exited"
  /\ UNCHANGED <<conf, at, step, stack, running, reporting, cancelled, cause, fatalErr, result, now, by,
                 gaveUp, joined, held, latched, dirty, spool, closed, gates, ready>>
-----------------------------------------------------------------------------
LifeInit ==
  /\ conf \in Confs
  /\ phase = "start" /\ at = 1 /\ step = 1 /\ stack = <<>>
  /\ running = {} /\ reporting = {} /\ cancelled = FALSE /\ cause = None
  /\ fatalErr = None /\ result = None
  /\ now = 0 /\ by = Unset
  /\ gaveUp = FALSE /\ joined = FALSE
  /\ held = FALSE /\ latched = FALSE
  /\ dirty = {} /\ spool = "empty" /\ closed = {}
  /\ gates = {} /\ ready = FALSE

Starting == StageDone \/ StageRefuses \/ CheckedConfig \/ UnsupportedNode
Stopping == ShutdownBegins \/ ServerFailed \/ ShutdownHTTP \/ JoinProducers
              \/ (\E ok \in BOOLEAN : StepRuns(ok)) \/ ShutdownComplete
Returning == DrainDeferred \/ JoinOnEarlyReturn \/ DrainAPI \/ StopListener \/ CloseResource \/ CancelContext
               \/ ReleaseSignals \/ Exit

LifeNext ==
  \/ Starting \/ Stopping \/ Returning
  \/ \E p \in running : Works(p) \/ Receives(p) \/ StoresFailure(p) \/ StopsProcess(p)
  \/ Parks \/ Settles \/ Exports \/ Signal \/ GateDone \/ Probed

LifeSpec == LifeInit /\ [][LifeNext]_lifeVars
-----------------------------------------------------------------------------
\* From the moment it is asked to stop the process is gone within the grace the
\* kubelet gives it, whatever is stuck and however slow each step and listener.
FitsGrace == now <= Grace[conf.role]

\* Nothing is closed under a goroutine that uses it, unless its join ran out.
ClosedAfterJoin == closed # {} /\ Joinable # {} => gaveUp

\* No way out leaves an acked span undecided or a parked lookup unanswered.
NothingHeld == phase = "exited" => ~held

\* Once everyone stopped, every window had its final export after the last
\* observation into it, and the spool its drain after the last of those; only
\* scripts may observe into the log metrics after their export.
WindowsShipped ==
  phase = "exited" /\ by # Unset /\ ~gaveUp =>
    dirty \subseteq Scripted /\ spool # "filled"

\* A process that a failed pipeline brought down does not exit as a success.
FailureTold == phase = "exited" /\ cause \in Fatal => result \notin {"ok", None}

\* No signal cuts a shutdown short: the handler outlives everything deferred.
NeverCut == phase = "killed" => stack = <<>>

\* /readyz never goes back: every gate was there before the first answer.
ReadyStays == ready => gates = {}

\* The shutdown is sound on every path out of run().
ShutdownSound ==
  /\ FitsGrace /\ ClosedAfterJoin /\ NothingHeld /\ WindowsShipped
  /\ FailureTold /\ NeverCut /\ ReadyStays
=============================================================================
