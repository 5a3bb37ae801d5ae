----------------------------- MODULE Destinations -----------------------------
(***************************************************************************)
(* Where each signal is exported and what is presented there (otlpexport   *)
(* persignal.go, transport.go, Config.Validate, New): the flags' base      *)
(* configuration, the export section and a signal's or a route's override  *)
(* make a destination, and BuildExporter makes a client of each, closing   *)
(* the ones it has when one fails.  A credential is known by where it was  *)
(* configured: "flag", "section", "override" or "".                        *)
(***************************************************************************)
EXTENDS Naturals, Sequences, FiniteSets

CONSTANTS
  FlagConfigs,  \* the base configurations the flags give
  Sections,     \* the export sections: headers and client pair
  Choices       \* overrides of a signal: a record of the fields it sets, or NoOverride

NoOverride == [endpoint |-> "none"]
Order == <<"logs", "metrics", "traces">>

VARIABLES
  flagBase, section, override,   \* the configuration: signal -> override
  stage,       \* signals built so far
  outcome,     \* of BuildExporter: "building", "built", "error"; "closed"
  clients,     \* PerSignal: slot -> the client's configuration
  created,     \* history: every client New returned
  closes,      \* history: slot -> times its client was closed
  pinned       \* gzipPinnedLevel of the process, 0 for none

destVars == <<flagBase, section, override, stage, outcome, clients, created, closes, pinned>>

DestInit ==
  /\ flagBase \in FlagConfigs /\ section \in Sections
  /\ override \in [{"logs", "metrics", "traces"} -> Choices]
  /\ stage = 0 /\ outcome = "building" /\ clients = [x \in {} |-> 0]
  /\ created = {} /\ closes = [x \in {} |-> 0]
  /\ pinned \in {0, 1}

-----------------------------------------------------------------------------
\* A header is a name and the way it is written: two that differ only in case
\* are one header to both transports.
Folded(h) == {x.name : x \in h}
MergeHeaders(base, over) == {x \in base : x.name \notin Folded(over)} \cup over

Set(o, f) == f \in DOMAIN o
Or(o, f, was) == IF Set(o, f) THEN o[f] ELSE was

TransportOnly(c) ==
  [c EXCEPT !.endpoint = "", !.token = "", !.ca = "", !.cert = "", !.key = "", !.skip = "", !.headers = {},
            !.insecure = FALSE]

ApplyBase(c, identity) ==
  [c EXCEPT !.headers = MergeHeaders(@, section.headers),
            !.cert = IF identity /\ section.cert # "" THEN section.cert ELSE @,
            !.key  = IF identity /\ section.cert # "" THEN section.key ELSE @]

OwnEndpoint(o) == Set(o, "endpoint") /\ o.endpoint # flagBase.endpoint

\* Mutant: an override's destination starts from the whole base.
DestinationBaseWhole(o, identity) == [ApplyBase(flagBase, TRUE) EXCEPT !.endpoint = o.endpoint]
\* A destination of its own host starts from the transport settings alone, and
\* the flags' plaintext decision.
DestinationBase(o, identity) ==
  [ApplyBase(TransportOnly(flagBase), identity) EXCEPT !.insecure = flagBase.insecure, !.endpoint = o.endpoint]

\* destinationConfig, of a signal (identity) or a route.
DestinationConfig(o, identity) ==
  IF o = NoOverride THEN ApplyBase(flagBase, TRUE)
  ELSE LET b == IF OwnEndpoint(o) THEN DestinationBase(o, identity) ELSE ApplyBase(flagBase, TRUE)
           pair == Set(o, "cert") \/ Set(o, "key")
       IN  [b EXCEPT !.headers = MergeHeaders(@, Or(o, "headers", {})),
                     !.protocol = Or(o, "protocol", @), !.token = Or(o, "token", @), !.ca = Or(o, "ca", @),
                     !.insecure = Or(o, "insecure", @), !.skip = Or(o, "skip", @), !.gzip = Or(o, "gzip", @),
                     !.cert = IF pair THEN Or(o, "cert", "") ELSE @,
                     !.key  = IF pair THEN Or(o, "key", "") ELSE @]

\* Config.Validate and validateHeaders.  (The schemes of endpoints and the
\* characters of header names and values are left out.)
ValidHeaders(c) ==
  /\ Cardinality(Folded(c.headers)) = Cardinality(c.headers)
  /\ Folded(c.headers) \cap {"Content-Type", "Content-Encoding", "Content-Length", "Host"} = {}
  /\ c.token # "" => "Authorization" \notin Folded(c.headers)
Valid(c) ==
  /\ c.endpoint # "" /\ ValidHeaders(c)
  /\ (c.cert = "") <=> (c.key = "")
  /\ (c.cert # "" \/ c.ca # "") => ~(c.protocol = "grpc" /\ c.insecure)

\* pinGzipLevel: the gRPC compressor has one level for the process.
Pins(c) == c.protocol = "grpc" /\ c.gzip
CanPin(c) == Pins(c) => pinned \in {0, c.level}

-----------------------------------------------------------------------------
\* Close: every client once, whichever slots share it.
CloseAll == closes' = [x \in DOMAIN clients |-> IF x \in DOMAIN closes THEN closes[x] + 1 ELSE 1]

Pinned(c) == IF Pins(c) THEN c.level ELSE pinned

\* New: a client, unless the configuration does not hold up, its TLS material
\* cannot be read, or gRPC refuses the target, which leaves the level pinned.
NewOK(slot, c) ==
  /\ Valid(c) /\ CanPin(c)
  /\ clients' = [x \in DOMAIN clients \cup {slot} |-> IF x = slot THEN c ELSE clients[x]]
  /\ created' = created \cup {slot}
  /\ pinned' = Pinned(c)
  /\ UNCHANGED <<outcome, closes>>
NewFails(c) ==
  /\ \/ (~Valid(c) \/ ~CanPin(c) \/ c.ca # "" \/ c.cert # "") /\ UNCHANGED pinned
     \/ Valid(c) /\ CanPin(c) /\ c.protocol = "grpc" /\ pinned' = Pinned(c)
  /\ outcome' = "error" /\ CloseAll
  /\ UNCHANGED <<clients, created>>

\* BuildExporter: the signals in order, then the default for those without one.
Build ==
  /\ outcome = "building" /\ stage < 3 /\ stage' = stage + 1
  /\ LET s == Order[stage + 1]
     IN  IF override[s] = NoOverride THEN UNCHANGED <<outcome, clients, created, closes, pinned>>
         ELSE NewOK(s, DestinationConfig(override[s], TRUE)) \/ NewFails(DestinationConfig(override[s], TRUE))
  /\ UNCHANGED <<flagBase, section, override>>

BuildDefault ==
  /\ outcome = "building" /\ stage = 3 /\ stage' = 4
  /\ LET c == ApplyBase(flagBase, TRUE)
     IN  IF DOMAIN clients = {"logs", "metrics", "traces"} THEN UNCHANGED <<outcome, clients, created, closes, pinned>>
         ELSE NewOK("default", c) \/ NewFails(c)
  /\ UNCHANGED <<flagBase, section, override>>

Built ==
  /\ outcome = "building" /\ stage = 4 /\ outcome' = "built"
  /\ UNCHANGED <<flagBase, section, override, stage, clients, created, closes, pinned>>

CloseExporter ==
  /\ outcome = "built" /\ outcome' = "closed" /\ CloseAll
  /\ UNCHANGED <<flagBase, section, override, stage, clients, created, pinned>>

DestNext == Build \/ BuildDefault \/ Built \/ CloseExporter

\* logsClient, metricsClient, tracesClient
ClientOf(s) == IF s \in DOMAIN clients THEN s ELSE "default"

-----------------------------------------------------------------------------
Presented(c) == {c.token, c.ca, c.cert, c.key, c.skip} \cup {x.from : x \in c.headers}

(* What the flags authenticate this deployment with is presented to the flags'  *)
(* collector and to no other host, however little the override says; a route    *)
(* does not get the section's client certificate either.  Every signal has a    *)
(* client once the exporter is built, no client outlives a build that failed or *)
(* a Close, none is closed twice, and the gRPC ones agree on the gzip level.    *)
DestinationsSound ==
  /\ \A s \in DOMAIN override : OwnEndpoint(override[s]) /\ override[s] # NoOverride =>
       /\ "flag" \notin Presented(DestinationConfig(override[s], TRUE))
       /\ "flag" \notin Presented(DestinationConfig(override[s], FALSE))
       /\ DestinationConfig(override[s], FALSE).cert # "section"
  /\ outcome = "built" => \A s \in DOMAIN override : ClientOf(s) \in DOMAIN clients
  /\ outcome \in {"error", "closed"} => closes = [x \in created |-> 1]
  /\ \A x \in DOMAIN clients : Pins(clients[x]) => clients[x].level = pinned
=============================================================================
