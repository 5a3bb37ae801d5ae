------------------------------- MODULE Bearer -------------------------------
(***************************************************************************)
(* Bearer tokens read from a file that is rotated under the processes      *)
(* (internal/bearer): the client's File and the receiver's Rotating.  A    *)
(* read runs in a goroutine of its own and may outlive the caller's wait;  *)
(* one read is in flight at a time, and the callers it keeps waiting are   *)
(* answered from the last good token.                                      *)
(***************************************************************************)
EXTENDS Integers, FiniteSets

CONSTANTS
    TokenCallers,    \* goroutines asking for tokens
    SideChoices,     \* what the callers may be asking: caller -> "file" or "rotating"
    Interval, Refresh, Grace,
    MaxSecret,       \* bound: contents of the file, 1..MaxSecret
    BearerCalls,     \* bound: caller -> calls it makes
    BearerMaxTime    \* bound: the clock

Sides == {"file", "rotating"}

\* Each caller asks one side, and the durations are durations.
ASSUME BearerAssumption ==
  /\ SideChoices \subseteq [TokenCallers -> Sides]
  /\ Interval \in Nat /\ Refresh \in Nat /\ Grace \in Nat

Unread == 0          \* no token, or an unreadable file

VARIABLES
    bearerClock,
    secret,      \* the file's content, and whether it can be read
    movedAt,     \* history: content -> when the file moved on from it
    flight,      \* side -> [reading, gen, stalled]
    reads,       \* the read goroutines: [side, gen, got, taken]
    file,        \* [token, fetched, loaded, firstErr]
    rot,         \* [cur, prev, until, next, failing]
    sideOf,      \* caller -> whom it asks
    asker,       \* caller -> [pc, gen, calls]
    waitedOut,   \* history: side -> claims whose caller gave up waiting
    told,        \* history: side -> stalls reported and not yet resumed
    seen         \* history: what the receiver accepted

bearerVars == <<bearerClock, secret, movedAt, flight, reads, file, rot, sideOf, asker, waitedOut, told, seen>>

NoFlight == [reading |-> FALSE, gen |-> 0, stalled |-> FALSE]

BearerInit ==
  /\ sideOf \in SideChoices
  /\ bearerClock = 0 /\ secret = [val |-> 1, readable |-> TRUE] /\ movedAt = [v \in {} |-> 0]
  /\ flight = [s \in Sides |-> NoFlight] /\ reads = {}
  /\ file = [token |-> Unread, fetched |-> 0, loaded |-> FALSE, firstErr |-> FALSE]
  /\ rot = [cur |-> 1, prev |-> Unread, until |-> 0, next |-> Refresh, failing |-> FALSE]
  /\ asker = [c \in TokenCallers |-> [pc |-> "idle", gen |-> 0, calls |-> 0]]
  /\ waitedOut = [s \in Sides |-> {}] /\ told = [s \in Sides |-> {}] /\ seen = {1}

\* The previous token once its grace is over.
Lapsed(x) == IF x.prev # Unread /\ bearerClock >= x.until THEN [x EXCEPT !.prev = Unread, !.until = 0] ELSE x

\* What answering caller c does to the receiver's set: Tokens drops a lapsed
\* predecessor before it returns, Token touches nothing.
Answered(c) == rot' = IF sideOf[c] = "rotating" THEN Lapsed(rot) ELSE rot

Asks(c) == asker[c].pc = "idle" /\ asker[c].calls < BearerCalls[c]
-----------------------------------------------------------------------------
(* The flight *)

\* claim and await: the reading goroutine starts, its claimer waits for it.
Claim(c) ==
  LET s == sideOf[c]
      g == flight[s].gen + 1
  IN /\ flight' = [flight EXCEPT ![s].reading = TRUE, ![s].gen = g]
     /\ reads' = reads \cup {[side |-> s, gen |-> g, got |-> Unread, taken |-> FALSE]}
     /\ asker' = [asker EXCEPT ![c] = [pc |-> "await", gen |-> g, calls |-> @.calls + 1]]

\* The operating system reads the file, at its leisure.
ReadTakes(r) ==
  /\ r \in reads /\ ~r.taken
  /\ reads' = (reads \ {r}) \cup {[r EXCEPT !.taken = TRUE, !.got = IF secret.readable THEN secret.val ELSE Unread]}
  /\ UNCHANGED <<bearerClock, secret, movedAt, flight, file, rot, asker, waitedOut, told, seen, sideOf>>

\* Mutant of Stalls: the claim that replaced the caller's own is marked.
StallsAny(f, gen) == f.reading /\ ~f.stalled

\* stall: only for the caller's own claim, once, and while it is in flight.
Stalls(f, gen) == f.reading /\ f.gen = gen /\ ~f.stalled

\* The read returned in time.
AwaitDone(c) ==
  /\ asker[c].pc = "await" /\ \A r \in reads : ~(r.side = sideOf[c] /\ r.gen = asker[c].gen)
  /\ asker' = [asker EXCEPT ![c].pc = "idle"] /\ Answered(c)
  /\ UNCHANGED <<bearerClock, secret, movedAt, flight, reads, file, waitedOut, told, seen, sideOf>>

\* The wait ends first, or with the read; the mutex is taken later still, and
\* by then the read may be back and another claim in flight.
AwaitTimesOut(c) ==
  /\ asker[c].pc = "await"
  /\ asker' = [asker EXCEPT ![c].pc = "timeout"]
  /\ waitedOut' = [waitedOut EXCEPT ![sideOf[c]] = @ \cup {asker[c].gen}]
  /\ UNCHANGED <<bearerClock, secret, movedAt, flight, reads, file, rot, told, seen, sideOf>>

ReportStall(c) ==
  LET s == sideOf[c]
      yes == Stalls(flight[s], asker[c].gen)
  IN /\ asker[c].pc = "timeout"
     /\ flight' = IF yes THEN [flight EXCEPT ![s].stalled = TRUE] ELSE flight
     /\ told' = IF yes THEN [told EXCEPT ![s] = @ \cup {flight[s].gen}] ELSE told
     /\ asker' = [asker EXCEPT ![c].pc = "idle"] /\ Answered(c)
     /\ UNCHANGED <<bearerClock, secret, movedAt, reads, file, waitedOut, seen, sideOf>>

\* release, with the line that says a stalled read came back.
Release(r) ==
  /\ flight' = [flight EXCEPT ![r.side].reading = FALSE, ![r.side].stalled = FALSE]
  /\ told' = [told EXCEPT ![r.side] = IF flight[r.side].stalled THEN @ \ {r.gen} ELSE @]
  /\ reads' = reads \ {r}
-----------------------------------------------------------------------------
(* The client's file *)

Recent == file.loaded /\ bearerClock - file.fetched < Interval

\* Token, from memory: a recent token, or the last good one while a read is on.
TokenKnown(c) ==
  /\ sideOf[c] = "file" /\ Asks(c)
  /\ Recent \/ (file.loaded /\ flight["file"].reading)
  /\ asker' = [asker EXCEPT ![c].calls = @ + 1]
  /\ UNCHANGED <<bearerClock, secret, movedAt, flight, reads, file, rot, waitedOut, told, seen, sideOf>>

TokenClaims(c) ==
  /\ sideOf[c] = "file" /\ Asks(c) /\ ~Recent /\ ~flight["file"].reading
  /\ Claim(c)
  /\ UNCHANGED <<bearerClock, secret, movedAt, file, rot, waitedOut, told, seen, sideOf>>

\* awaitFirstRead: no token yet and a read in flight; the waiter is answered by
\* its return or gives up.
TokenFirstWait(c) ==
  /\ sideOf[c] = "file" /\ Asks(c) /\ ~file.loaded /\ flight["file"].reading
  /\ asker' = [asker EXCEPT ![c] = [pc |-> "first", gen |-> flight["file"].gen, calls |-> @.calls + 1]]
  /\ UNCHANGED <<bearerClock, secret, movedAt, flight, reads, file, rot, waitedOut, told, seen, sideOf>>

FirstAnswered(c) ==
  /\ asker[c].pc = "first"
  /\ asker' = [asker EXCEPT ![c].pc = "idle"]
  /\ UNCHANGED <<bearerClock, secret, movedAt, flight, reads, file, rot, waitedOut, told, seen, sideOf>>

\* Read, the fatal first read of the agent that wants one: before any caller asks.
FileRead ==
  /\ secret.readable /\ ~file.loaded /\ flight["file"].gen = 0
  /\ file' = [token |-> secret.val, fetched |-> bearerClock, loaded |-> TRUE, firstErr |-> FALSE]
  /\ UNCHANGED <<bearerClock, secret, movedAt, flight, reads, rot, asker, waitedOut, told, seen, sideOf>>

\* File.refresh: a failed read keeps the last good token and its age starts anew.
FileRefreshed(r) ==
  /\ r \in reads /\ r.taken /\ r.side = "file" /\ Release(r)
  /\ file' = IF r.got # Unread
               THEN [token |-> r.got, fetched |-> bearerClock, loaded |-> TRUE, firstErr |-> FALSE]
             ELSE IF file.loaded THEN [file EXCEPT !.fetched = bearerClock]
             ELSE [file EXCEPT !.firstErr = TRUE]
  /\ UNCHANGED <<bearerClock, secret, movedAt, rot, asker, waitedOut, seen, sideOf>>
-----------------------------------------------------------------------------
(* The receiver's rotating token *)

Accepts == {rot.cur} \cup (IF rot.prev # Unread /\ bearerClock < rot.until THEN {rot.prev} ELSE {})

\* Tokens, from memory: no read is due, or one is on.
TokensKnown(c) ==
  /\ sideOf[c] = "rotating" /\ Asks(c) /\ (bearerClock < rot.next \/ flight["rotating"].reading)
  /\ Answered(c) /\ asker' = [asker EXCEPT ![c].calls = @ + 1]
  /\ UNCHANGED <<bearerClock, secret, movedAt, flight, reads, file, waitedOut, told, seen, sideOf>>

\* Cached: never a read, however stale the set is.
TokensCached(c) ==
  /\ sideOf[c] = "rotating" /\ Asks(c)
  /\ Answered(c) /\ asker' = [asker EXCEPT ![c].calls = @ + 1]
  /\ UNCHANGED <<bearerClock, secret, movedAt, flight, reads, file, waitedOut, told, seen, sideOf>>

TokensClaims(c) ==
  /\ sideOf[c] = "rotating" /\ Asks(c) /\ bearerClock >= rot.next /\ ~flight["rotating"].reading
  /\ Claim(c) /\ rot' = [rot EXCEPT !.next = bearerClock + Refresh]
  /\ UNCHANGED <<bearerClock, secret, movedAt, file, waitedOut, told, seen, sideOf>>

\* A read that found another token: the old one has its grace.
Rotated(x, next) ==
  IF next = x.cur THEN [x EXCEPT !.failing = FALSE]
  ELSE [x EXCEPT !.failing = FALSE, !.prev = x.cur, !.until = bearerClock + Grace, !.cur = next]

\* Rotating.refresh: a second failure in a row waits the whole interval.
RotatingRefreshed(r) ==
  /\ r \in reads /\ r.taken /\ r.side = "rotating" /\ Release(r)
  /\ rot' = IF r.got = Unread
              THEN [rot EXCEPT !.next = bearerClock + (IF rot.failing THEN Interval ELSE Refresh), !.failing = TRUE]
            ELSE Rotated(rot, r.got)
  /\ seen' = seen \cup {rot'.cur}
  /\ UNCHANGED <<bearerClock, secret, movedAt, file, asker, waitedOut, sideOf>>
-----------------------------------------------------------------------------
(* The file and the clock *)

\* The operator rotates the secret, and waits for the grace before rotating again.
SecretRotates ==
  /\ secret.val < MaxSecret /\ \A v \in DOMAIN movedAt : bearerClock > movedAt[v] + Grace
  /\ secret' = [secret EXCEPT !.val = @ + 1]
  /\ movedAt' = [v \in DOMAIN movedAt \cup {secret.val} |-> IF v = secret.val THEN bearerClock ELSE movedAt[v]]
  /\ UNCHANGED <<bearerClock, flight, reads, file, rot, asker, waitedOut, told, seen, sideOf>>

\* The mount is being replaced, or is back.
SecretFlips ==
  /\ secret' = [secret EXCEPT !.readable = ~@]
  /\ UNCHANGED <<bearerClock, movedAt, flight, reads, file, rot, asker, waitedOut, told, seen, sideOf>>

BearerTick ==
  /\ bearerClock < BearerMaxTime /\ bearerClock' = bearerClock + 1
  /\ UNCHANGED <<secret, movedAt, flight, reads, file, rot, asker, waitedOut, told, seen, sideOf>>

BearerNext ==
  \/ \E c \in TokenCallers :
       \/ AwaitDone(c) \/ AwaitTimesOut(c) \/ ReportStall(c) \/ TokenKnown(c) \/ TokenClaims(c)
       \/ TokenFirstWait(c) \/ FirstAnswered(c) \/ TokensKnown(c) \/ TokensClaims(c) \/ TokensCached(c)
  \/ \E r \in reads : ReadTakes(r) \/ FileRefreshed(r) \/ RotatingRefreshed(r)
  \/ FileRead \/ SecretRotates \/ SecretFlips \/ BearerTick

BearerSpec == BearerInit /\ [][BearerNext]_bearerVars
-----------------------------------------------------------------------------
(* Properties *)

\* One read is in flight at a time, a stall is reported for the very read whose
\* claimer gave up, and each report is followed by the line that the read
\* returned: a claimer that comes late never speaks for the claim after its own.
StallsTold ==
  \A s \in Sides :
    /\ Cardinality({r \in reads : r.side = s}) <= 1
    /\ flight[s].reading = (\E r \in reads : r.side = s /\ r.gen = flight[s].gen)
    /\ flight[s].stalled => flight[s].gen \in waitedOut[s]
    /\ told[s] = (IF flight[s].stalled THEN {flight[s].gen} ELSE {})

\* A token the receiver once accepted stays accepted until the grace after the
\* file moved on from it is over, whatever reads fail, stall or repeat
\* meanwhile: a client that still presents it is not refused.
GraceKept ==
  \A t \in seen :
    (t = secret.val \/ bearerClock < movedAt[t] + Grace) => t \in Accepts

\* The token file as both sides use it: the reads are told truly, and no token
\* is refused within its grace (flight.claim, Rotating.Tokens).
TokenReadsSound == StallsTold /\ GraceKept
=============================================================================
