------------------------------ MODULE ScrapeAuth ------------------------------
(***************************************************************************)
(* The credentials of scrape targets (promscrape: applyAuth, authToken,    *)
(* clientFor).  Concurrent scrapes resolve the secrets their target names, *)
(* those of its header and then those of its TLS client, through the       *)
(* metadata service, keep what it answered for a while, and build one TLS  *)
(* client per distinct material.  A secret changes, is withdrawn and       *)
(* returns while requests are under way, and the service may be out of     *)
(* reach.  A secret's content is a number; what a header is made of them   *)
(* and what a certificate holds is left out.                               *)
(***************************************************************************)
EXTENDS Integers, FiniteSets, Sequences

CONSTANTS
  AuthScrapes,   \* concurrent scrapes
  Refs,          \* secret references
  AuthTargets,   \* targets: [header, tls, name], the references each names, in order,
                 \* and the server name it asks for ("none": it does not)
  ServerNames,
  AuthTTL,       \* authCacheTTL
  IdleRelease,   \* authIdleRelease
  StaleGrace,    \* authStaleGrace
  MaxAuth,       \* maxAuthCacheEntries
  MaxTLS,        \* maxTLSClients
  TLSIdle,       \* tlsClientIdleTTL
  Latency,       \* bound: a request to the metadata service
  MaxVersion, AuthHorizon, MaxBuilds   \* bounds: values of a secret, time, TLS clients built

ASSUME AuthAssumption ==
  /\ AuthTTL \in Nat \ {0} /\ {IdleRelease, StaleGrace, TLSIdle, Latency} \subseteq Nat
  /\ IdleRelease >= AuthTTL /\ StaleGrace >= AuthTTL
  /\ MaxAuth \in Nat \ {0} /\ MaxTLS \in Nat \ {0}
  /\ AuthTargets \subseteq [header : Seq(Refs), tls : Seq(Refs), name : ServerNames \cup {"none"}]

VARIABLES
  time,
  secret,      \* external: ref -> its value, 0 withdrawn; values count up
  version,
  authCache,   \* ref -> [token, fetched, used, asked]; asked is history
  tlsClients,  \* material -> [client, used]
  made,        \* clients built so far
  closed,      \* clients whose idle connections were closed
  scr,         \* per scrape
  undone       \* history: a refusal removed a value fetched after it was asked for

authVars == <<time, secret, version, authCache, tlsClients, made, closed, scr, undone>>

NoEntry == [token |-> 0, fetched |-> 0, used |-> 0, asked |-> 0]
SharedClient == 0

\* A scrape's place in resolving its target: the tokens it got, the client it uses
\* and the ones it has to close; oldest and age are history, of its credentials.
Resting == [pc |-> "idle", target |-> [header |-> << >>, tls |-> << >>, name |-> "none"], retained |-> NoEntry, reply |-> 0,
            asked |-> 0, got |-> << >>, client |-> SharedClient, retired |-> {}, oldest |-> 0, age |-> 0]

AuthInit ==
  /\ time = 0 /\ secret = [r \in Refs |-> 1] /\ version = 1
  /\ authCache = [r \in {} |-> NoEntry] /\ tlsClients = [k \in {} |-> NoEntry]
  /\ made = 0 /\ closed = {} /\ scr = [p \in AuthScrapes |-> Resting] /\ undone = FALSE

-----------------------------------------------------------------------------
(* applyAuth, and clientFor's own references: one after the other.            *)

Needs(t) == t.header \o t.tls
Ref(p) == Needs(scr[p].target)[Len(scr[p].got) + 1]

\* needsTLSClient
OwnClient(t) == t.tls # << >> \/ t.name # "none"

Proceed(s) == [s EXCEPT !.pc = IF Len(s.got) < Len(Needs(s.target)) THEN "resolve" ELSE "client"]

\* A credential is there: the next one, or the client.
Resolved(p, e) ==
  Proceed([scr[p] EXCEPT !.got = Append(@, e.token), !.retained = NoEntry, !.reply = 0, !.asked = 0,
                         !.oldest = IF e.asked < @ THEN e.asked ELSE @])

ScrapeBegins(p, t) ==
  /\ scr[p].pc = "idle"
  /\ scr' = [scr EXCEPT ![p] = Proceed([Resting EXCEPT !.target = t, !.oldest = time])]
  /\ UNCHANGED <<time, secret, version, authCache, tlsClients, made, closed, undone>>

ScrapeFails(p) == scr' = [scr EXCEPT ![p] = Resting]

\* sweepAuthCacheLocked: entries no target uses and entries past the grace.
SweepAuth(c) ==
  [r \in {x \in DOMAIN c : time - c[x].used < IdleRelease /\ time - c[x].fetched < StaleGrace} |-> c[r]]

\* authToken up to the fetch: a fresh value is served, and any value is marked used.
AuthToken(p) ==
  /\ scr[p].pc = "resolve"
  /\ LET r    == Ref(p)
         c    == SweepAuth(authCache)
         have == r \in DOMAIN c
         e    == [c[r] EXCEPT !.used = time]
     IN  /\ authCache' = IF have THEN [c EXCEPT ![r] = e] ELSE c
         /\ scr' = [scr EXCEPT ![p] = IF have /\ time - e.fetched < AuthTTL THEN Resolved(p, e)
                                      ELSE [@ EXCEPT !.pc = "fetch", !.retained = IF have THEN e ELSE NoEntry]]
  /\ UNCHANGED <<time, secret, version, tlsClients, made, closed, undone>>

\* External: the metadata service reads the secret; -1 stands for an answer
\* that does not come (outage, a server error, half the deadline passed).
ScrapeAuthAnswer(p) ==
  /\ scr[p].pc = "fetch"
  /\ \E v \in {secret[Ref(p)], -1} :
       scr' = [scr EXCEPT ![p].pc = "asked", ![p].reply = v, ![p].asked = time]
  /\ UNCHANGED <<time, secret, version, authCache, tlsClients, made, closed, undone>>

\* Nothing to fall back on, or the scrape's own time is up: the error is the answer.
GivesUp(p) ==
  /\ scr[p].pc = "asked" /\ scr[p].reply <= 0
  /\ ScrapeFails(p)
  /\ UNCHANGED <<time, secret, version, authCache, tlsClients, made, closed, undone>>

\* Mutant: the entry goes whatever it holds by now.
StillRetainedAny(p) == TRUE

\* The refusal is about the value the request was made for.
StillRetained(p) ==
  LET cur == authCache[Ref(p)]
  IN  cur.fetched = scr[p].retained.fetched /\ cur.token = scr[p].retained.token

\* A verdict: the value it was asked about goes.
Refused(p) ==
  /\ scr[p].pc = "asked" /\ scr[p].reply = 0 /\ scr[p].retained # NoEntry
  /\ LET r    == Ref(p)
         drop == r \in DOMAIN authCache /\ StillRetained(p)
     IN  /\ authCache' = IF drop THEN [x \in DOMAIN authCache \ {r} |-> authCache[x]] ELSE authCache
         /\ undone' = (undone \/ (drop /\ authCache[r].fetched > scr[p].retained.fetched))
  /\ ScrapeFails(p)
  /\ UNCHANGED <<time, secret, version, tlsClients, made, closed>>

\* A failure that settles nothing: whatever value is retained by now is served.
Unanswered(p) ==
  /\ scr[p].pc = "asked" /\ scr[p].reply = -1 /\ scr[p].retained # NoEntry
  /\ LET c == SweepAuth(authCache)
     IN  /\ authCache' = c
         /\ IF Ref(p) \in DOMAIN c THEN scr' = [scr EXCEPT ![p] = Resolved(p, c[Ref(p)])] ELSE ScrapeFails(p)
  /\ UNCHANGED <<time, secret, version, tlsClients, made, closed, undone>>

\* The fetched value is kept, arbitrary others making room.
Fetched(p) ==
  /\ scr[p].pc = "asked" /\ scr[p].reply > 0
  /\ LET c    == SweepAuth(authCache)
         r    == Ref(p)
         over == Cardinality(DOMAIN c) >= MaxAuth
         e    == [token |-> scr[p].reply, fetched |-> time, used |-> time, asked |-> scr[p].asked]
     IN  /\ \E keep \in SUBSET DOMAIN c :
              /\ IF over THEN Cardinality(keep) = MaxAuth - 1 ELSE keep = DOMAIN c
              /\ authCache' = [x \in keep \cup {r} |-> IF x = r THEN e ELSE c[x]]
         /\ scr' = [scr EXCEPT ![p] = Resolved(p, e)]
  /\ UNCHANGED <<time, secret, version, tlsClients, made, closed, undone>>

-----------------------------------------------------------------------------
(* clientFor: the key is the material itself, so a rotated secret selects a   *)
(* client of its own.                                                         *)

Material(p) == <<scr[p].target.name, SubSeq(scr[p].got, Len(scr[p].target.header) + 1, Len(scr[p].got))>>
TLSHit(p) == Material(p) \in DOMAIN tlsClients

\* The scrape sends its request with client c.
Requests(p, c) == [scr[p] EXCEPT !.pc = "done", !.client = c, !.age = time - scr[p].oldest]

UseClient(p) ==
  /\ tlsClients' = [tlsClients EXCEPT ![Material(p)].used = time]
  /\ scr' = [scr EXCEPT ![p] = Requests(p, tlsClients[Material(p)].client)]

ClientFor(p) ==
  /\ scr[p].pc = "client"
  /\ \/ ~OwnClient(scr[p].target) /\ scr' = [scr EXCEPT ![p] = Requests(p, SharedClient)] /\ UNCHANGED tlsClients
     \/ OwnClient(scr[p].target) /\ TLSHit(p) /\ UseClient(p)
     \/ OwnClient(scr[p].target) /\ ~TLSHit(p) /\ scr' = [scr EXCEPT ![p].pc = "build"] /\ UNCHANGED tlsClients
  /\ UNCHANGED <<time, secret, version, authCache, made, closed, undone>>

\* tlsConfigFromPEM refuses the material.
BadMaterial(p) ==
  /\ scr[p].pc = "build"
  /\ ScrapeFails(p)
  /\ UNCHANGED <<time, secret, version, authCache, tlsClients, made, closed, undone>>

IdleClients == {k \in DOMAIN tlsClients : time - tlsClients[k].used >= TLSIdle}

\* The insert, after a second look: another scrape may have built it meanwhile.
InsertClient(p) ==
  /\ scr[p].pc = "build" /\ made < MaxBuilds
  /\ made' = made + 1
  /\ IF TLSHit(p) THEN UseClient(p)
     ELSE LET k    == Material(p)
              live == DOMAIN tlsClients \ IdleClients
          IN  \E victims \in SUBSET live :
                /\ Cardinality(victims) = (IF Cardinality(live) >= MaxTLS THEN 1 ELSE 0)
                /\ tlsClients' = [x \in (live \ victims) \cup {k} |->
                                    IF x = k THEN [client |-> made + 1, used |-> time] ELSE tlsClients[x]]
                /\ scr' = [scr EXCEPT ![p] = [Requests(p, made + 1) EXCEPT !.pc = "close",
                                 !.retired = {tlsClients[x].client : x \in IdleClients \cup victims}]]
  /\ UNCHANGED <<time, secret, version, authCache, closed, undone>>

\* The retired clients are closed once the lock is dropped.
CloseRetired(p) ==
  /\ scr[p].pc = "close"
  /\ closed' = closed \cup scr[p].retired
  /\ scr' = [scr EXCEPT ![p].pc = "done", ![p].retired = {}]
  /\ UNCHANGED <<time, secret, version, authCache, tlsClients, made, undone>>

\* The target has answered, or not.
AuthScrapeEnds(p) ==
  /\ scr[p].pc = "done" /\ ScrapeFails(p)
  /\ UNCHANGED <<time, secret, version, authCache, tlsClients, made, closed, undone>>

\* The start of a cycle: sweepAuthCache, sweepTLSClients.
CycleSweeps ==
  /\ \A p \in AuthScrapes : scr[p].pc = "idle"
  /\ authCache' = SweepAuth(authCache)
  /\ tlsClients' = [k \in DOMAIN tlsClients \ IdleClients |-> tlsClients[k]]
  /\ closed' = closed \cup {tlsClients[k].client : k \in IdleClients}
  /\ UNCHANGED <<time, secret, version, made, scr, undone>>

-----------------------------------------------------------------------------
SecretChanges(r) ==
  /\ \/ secret[r] # 0 /\ secret' = [secret EXCEPT ![r] = 0] /\ UNCHANGED version
     \/ version < MaxVersion /\ version' = version + 1 /\ secret' = [secret EXCEPT ![r] = version + 1]
  /\ UNCHANGED <<time, authCache, tlsClients, made, closed, scr, undone>>

\* Time passes over the network: while the service or the target is asked.
AuthTick ==
  /\ time < AuthHorizon /\ time' = time + 1
  /\ \A p \in AuthScrapes : \/ scr[p].pc \in {"idle", "done"}
                            \/ scr[p].pc = "asked" /\ time - scr[p].asked < Latency
  /\ UNCHANGED <<secret, version, authCache, tlsClients, made, closed, scr, undone>>

AuthNext ==
  \/ \E p \in AuthScrapes : \/ \E t \in AuthTargets : ScrapeBegins(p, t)
                            \/ AuthToken(p) \/ ScrapeAuthAnswer(p)
                            \/ GivesUp(p) \/ Refused(p) \/ Unanswered(p) \/ Fetched(p)
                            \/ ClientFor(p) \/ BadMaterial(p) \/ InsertClient(p) \/ CloseRetired(p)
                            \/ AuthScrapeEnds(p)
  \/ CycleSweeps \/ AuthTick \/ \E r \in Refs : SecretChanges(r)

AuthSpec == AuthInit /\ [][AuthNext]_authVars

-----------------------------------------------------------------------------
(* Credentials age out and do not leak.  A request goes out with values the   *)
(* metadata service answered no longer ago than the outage grace and the      *)
(* lookups of its target; a refusal never removes a value that another scrape *)
(* fetched while it was under way; and a client in use is the cached one for  *)
(* its material, or was retired and its connections are closed or about to    *)
(* be, so no client of two concurrent builds stays behind.                    *)
CredentialsBounded ==
  /\ \A p \in AuthScrapes : scr[p].age < StaleGrace + Latency * Len(Needs(scr[p].target))
  /\ ~undone
  /\ Cardinality(DOMAIN authCache) <= MaxAuth /\ Cardinality(DOMAIN tlsClients) <= MaxTLS
  /\ \A p \in AuthScrapes : scr[p].pc \in {"close", "done"} /\ OwnClient(scr[p].target) =>
       \/ scr[p].client \in closed \cup UNION {scr[q].retired : q \in AuthScrapes}
       \/ Material(p) \in DOMAIN tlsClients /\ tlsClients[Material(p)].client = scr[p].client
=============================================================================
