------------------------------- MODULE AzureHub -------------------------------
(***************************************************************************)
(* The Azure diagnostics readers (internal/agent/azurediag): members of    *)
(* one Kafka consumer group poll the partitions of an event hub, decode    *)
(* the messages, deliver their logs and their metrics, each until it is    *)
(* settled, and only then commit.  The group moves partitions between      *)
(* members at any time; a member that is refused for the whole namespace   *)
(* closes its client, forgets its Entra token and opens anew.              *)
(*                                                                         *)
(* A message carries logs, metrics, both, nothing ("empty") or no          *)
(* diagnostics at all ("bad").  Time is the token clock.                   *)
(***************************************************************************)
EXTENDS Integers, FiniteSets, Sequences

CONSTANTS Members, Partitions,
          HubContent,              \* [Partitions -> sequence of kinds of message]
          HubBudgets,              \* bounds and set-up of a behaviour
          RefreshMargin, TokenBackoff, TokenTTL, FetchTimeout

ASSUME TokenTimes == /\ {RefreshMargin, TokenBackoff, TokenTTL, FetchTimeout} \subseteq Nat
                     /\ FetchTimeout < TokenTTL

VARIABLES hubLen,      \* how many messages each partition holds
          offset,      \* the group's committed offset, NoOffset before the first commit
          begun,       \* history: where a partition without an offset was begun
          owner,       \* which member the group gave a partition to
          position,    \* how far its owner has polled it
          member,      \* [pc, batch, todo] of each reader
          settledAt,   \* history: <<message, signal>> accepted, refused for good or undecodable
          entra,       \* tokenSource of each reader: id, expiry, err, retryAt
          shown,       \* history: the token each reader last showed, and when
          tokens,      \* history: true expiry of every issued token
          revoked,     \* tokens that lost their right to the group
          forsaken,    \* history: tokens a reader was refused with before it reopened
          hubNow,
          hubLeft      \* the budgets left, and the set-up

hubVars == <<hubLen, offset, begun, owner, position, member, settledAt,
             entra, shown, tokens, revoked, forsaken, hubNow, hubLeft>>
groupVars == <<offset, begun, owner, position>>
tokenVars == <<entra, shown, tokens, revoked, forsaken, hubNow>>

NoOffset == -1
Nobody == "nobody"
ASSUME HubAssumption == /\ Nobody \notin Members
                        /\ HubContent \in [Partitions -> Seq(STRING)]

NoToken == [id |-> 0, expiry |-> 0, err |-> FALSE, retryAt |-> 0]
ReaderDown == [pc |-> "down", batch |-> {}, todo |-> {}, asked |-> 0]

ContentOf(m) == HubContent[m[1]][m[2]]
Longest == CHOOSE n \in {Len(HubContent[p]) : p \in Partitions} : \A p \in Partitions : Len(HubContent[p]) <= n

\* What has to be settled before a message may be passed.
Owes(m) == CASE ContentOf(m) = "log" -> {"logs"} [] ContentOf(m) = "metric" -> {"metrics"}
             [] ContentOf(m) = "both" -> {"logs", "metrics"} [] ContentOf(m) = "bad" -> {"decode"}
             [] OTHER -> {}

HubInit ==
  /\ hubLen = [p \in Partitions |-> 0]
  /\ offset = [p \in Partitions |-> NoOffset]
  /\ begun = [p \in Partitions |-> 0]
  /\ owner = [p \in Partitions |-> Nobody]
  /\ position = [p \in Partitions |-> 0]
  /\ member = [r \in Members |-> ReaderDown]
  /\ settledAt = {}
  /\ entra = [r \in Members |-> NoToken]
  /\ shown = [r \in Members |-> [id |-> 0, at |-> 0]]
  /\ tokens = << >> /\ revoked = {} /\ forsaken = {}
  /\ hubNow = 0
  /\ hubLeft \in HubBudgets

Spend(what) == hubLeft[what] > 0 /\ hubLeft' = [hubLeft EXCEPT ![what] = @ - 1]

\* Something is written to a partition.
HubAppends(p) ==
  /\ hubLen[p] < Len(HubContent[p])
  /\ Spend("appends")
  /\ hubLen' = [hubLen EXCEPT ![p] = @ + 1]
  /\ UNCHANGED <<groupVars, member, settledAt, tokenVars>>

-----------------------------------------------------------------------------
(* The consumer group.                                                     *)

\* Where a partition is taken up: at the group's offset, else at the end or the
\* start of the hub, as configured.
TakenUpAt(p) == IF offset[p] # NoOffset THEN offset[p] ELSE IF hubLeft.start = "end" THEN hubLen[p] ELSE 0

\* The group gives p to a member, whatever its last owner is doing with it.
Rebalance(p, r) ==
  /\ owner[p] # r
  /\ member[r].pc \notin {"down", "backoff"}
  /\ owner[p] = Nobody \/ hubLeft.moves > 0
  /\ hubLeft' = IF owner[p] = Nobody THEN hubLeft ELSE [hubLeft EXCEPT !.moves = @ - 1]
  /\ owner' = [owner EXCEPT ![p] = r]
  /\ position' = [position EXCEPT ![p] = TakenUpAt(p)]
  /\ begun' = IF offset[p] = NoOffset THEN [begun EXCEPT ![p] = TakenUpAt(p)] ELSE begun
  /\ UNCHANGED <<hubLen, offset, member, settledAt, tokenVars>>

\* A client that closes, or dies, gives its partitions up and commits nothing.
Released(r) == [p \in Partitions |-> IF owner[p] = r THEN Nobody ELSE owner[p]]

\* The client is opened; with a managed identity it has to show a token first.
HubOpen(r) ==
  /\ r \in hubLeft.members /\ member[r].pc \in {"down", "backoff"}
  /\ member' = [member EXCEPT ![r] = [ReaderDown EXCEPT !.pc = IF hubLeft.identity THEN "auth" ELSE "poll"]]
  /\ UNCHANGED <<hubLen, groupVars, settledAt, tokenVars, hubLeft>>

\* The process dies or is stopped: an ongoing delivery is abandoned, uncommitted.
ReaderStops(r) ==
  /\ member[r].pc # "down"
  /\ Spend("stops")
  /\ member' = [member EXCEPT ![r] = ReaderDown]
  /\ owner' = Released(r)
  /\ entra' = [entra EXCEPT ![r] = NoToken]
  /\ shown' = [shown EXCEPT ![r] = [id |-> 0, at |-> 0]]
  /\ UNCHANGED <<hubLen, offset, begun, position, settledAt, tokens, revoked, forsaken, hubNow>>

\* The reader forgets its token and the error that holds back the next one.
Invalidated(r) == [entra EXCEPT ![r] = NoToken]

\* A failure of the whole client: a refused credential, or the client was closed.
\* Whatever the poll brought is dropped with it.
Reopens(r) ==
  /\ member' = [member EXCEPT ![r] = [ReaderDown EXCEPT !.pc = "backoff"]]
  /\ owner' = Released(r)
  /\ entra' = Invalidated(r)
  /\ shown' = [shown EXCEPT ![r] = [id |-> 0, at |-> 0]]
  /\ forsaken' = forsaken \cup ({shown[r].id} \cap revoked)
  /\ UNCHANGED <<hubLen, offset, begun, position, settledAt, tokens, revoked, hubNow>>

GroupRefuses(r) == hubLeft.identity /\ shown[r].id \in revoked

PollFails(r) ==
  /\ member[r].pc = "poll"
  /\ \/ GroupRefuses(r) /\ UNCHANGED hubLeft
     \/ Spend("fatal")
  /\ Reopens(r)

Fetched(r, to) ==
  /\ \A p \in Partitions : IF owner[p] = r THEN to[p] \in position[p] .. hubLen[p] ELSE to[p] = position[p]
  /\ to # position

PolledMessages(to) == UNION {{p} \X (position[p] + 1 .. to[p]) : p \in Partitions}

\* The messages whose logs the rules may drop as they are converted.
Droppable(msgs) == {m \in msgs : "logs" \in Owes(m)}

\* The poll returns what some partitions had, errors of other partitions aside.
\* What cannot be decoded is counted and passed; a poll without a message in it
\* commits nothing.
Poll(r, to) ==
  /\ member[r].pc = "poll" /\ ~GroupRefuses(r)
  /\ Fetched(r, to)
  /\ position' = to
  /\ LET msgs == {m \in PolledMessages(to) : ContentOf(m) # "empty"}
         bad == {m \in msgs : ContentOf(m) = "bad"}
     IN \E dropped \in SUBSET Droppable(msgs) :
        /\ settledAt' = settledAt \cup {<<m, "decode">> : m \in bad} \cup {<<m, "logs">> : m \in dropped}
        /\ member' = [member EXCEPT ![r].pc = IF msgs = {} THEN "poll" ELSE "deliver",
                                    ![r].batch = msgs,
                                    ![r].todo = {s \in {"logs", "metrics"} :
                                                   \E m \in msgs : s \in Owes(m) /\ ~(s = "logs" /\ m \in dropped)}]
  /\ UNCHANGED <<hubLen, offset, begun, owner, tokenVars, hubLeft>>

\* One signal of the batch is accepted, or refused for good and counted; after any
\* other answer it is sent again.
SignalSettles(r, s) ==
  /\ member[r].pc = "deliver" /\ s \in member[r].todo
  /\ settledAt' = settledAt \cup {<<m, s>> : m \in {x \in member[r].batch : s \in Owes(x)}}
  /\ member' = [member EXCEPT ![r].todo = @ \ {s}]
  /\ UNCHANGED <<hubLen, groupVars, tokenVars, hubLeft>>

\* Mutant of BatchDelivered: the batch counts as delivered with its logs.
BatchDeliveredLogs(r) == member[r].pc = "deliver" /\ "logs" \notin member[r].todo

BatchDelivered(r) == member[r].pc = "deliver" /\ member[r].todo = {}

Polled(p) == position[p] > IF offset[p] = NoOffset THEN begun[p] ELSE offset[p]

\* The group takes the offsets of what the member still owns; or the commit fails,
\* and the next one covers it.
HubCommit(r) ==
  /\ BatchDelivered(r)
  /\ \/ offset' = [p \in Partitions |-> IF owner[p] = r /\ Polled(p) THEN position[p] ELSE offset[p]]
        /\ UNCHANGED hubLeft
     \/ Spend("commitFails") /\ UNCHANGED offset
  /\ member' = [member EXCEPT ![r] = [ReaderDown EXCEPT !.pc = "poll"]]
  /\ UNCHANGED <<hubLen, begun, owner, position, settledAt, tokenVars>>

-----------------------------------------------------------------------------
(* The token of a managed identity.                                        *)

TokenValid(t) == t.id # 0 /\ hubNow < t.expiry
TokenCached(t) == t.id # 0 /\ hubNow < t.expiry - RefreshMargin
FetchHeldBack(t) == t.err /\ hubNow < t.retryAt

\* The reader shows a token to the broker and begins, or goes on, to poll.
ShowToken(r, id) ==
  /\ shown' = [shown EXCEPT ![r] = [id |-> id, at |-> hubNow]]
  /\ member' = [member EXCEPT ![r].pc = "poll"]

NotTheToken == <<hubLen, groupVars, settledAt, revoked, forsaken, hubNow>>

\* A token that is not due for refresh, or is still good while refreshing is held
\* back, is served without asking.
GetServes(r) ==
  /\ member[r].pc = "auth"
  /\ TokenCached(entra[r]) \/ (FetchHeldBack(entra[r]) /\ TokenValid(entra[r]))
  /\ ShowToken(r, entra[r].id)
  /\ UNCHANGED <<NotTheToken, entra, tokens, hubLeft>>

\* The issuer is asked.
GetAsks(r) ==
  /\ member[r].pc = "auth"
  /\ ~TokenCached(entra[r]) /\ ~FetchHeldBack(entra[r])
  /\ member' = [member EXCEPT ![r].pc = "fetch", ![r].asked = hubNow]
  /\ UNCHANGED <<NotTheToken, entra, shown, tokens, hubLeft>>

\* The new token runs from when it was asked for; the issuer made it no earlier.
FetchAnswers(r) ==
  /\ member[r].pc = "fetch"
  /\ LET id == Len(tokens) + 1
     IN /\ \E made \in member[r].asked .. hubNow : tokens' = Append(tokens, made + TokenTTL)
        /\ entra' = [entra EXCEPT ![r] = [id |-> id, expiry |-> member[r].asked + TokenTTL, err |-> FALSE, retryAt |-> 0]]
        /\ ShowToken(r, id)
  /\ Spend("fetches")
  /\ UNCHANGED NotTheToken

\* When to ask again: after the backoff, but no later than the token runs out.
RetryAt(t) == IF TokenValid(t) /\ t.expiry < hubNow + TokenBackoff THEN t.expiry ELSE hubNow + TokenBackoff

\* The issuer fails, and the clock is read again: the old token is served while it lasts.
FetchFails(r) ==
  /\ member[r].pc = "fetch"
  /\ Spend("fetchFails")
  /\ entra' = [entra EXCEPT ![r].err = TRUE, ![r].retryAt = RetryAt(entra[r])]
  /\ IF TokenValid(entra[r]) THEN ShowToken(r, entra[r].id)
     ELSE member' = [member EXCEPT ![r].pc = "auth"] /\ UNCHANGED shown
  /\ UNCHANGED <<NotTheToken, tokens>>

\* The connection is lost and a token is shown on a new one.
Reconnect(r) ==
  /\ hubLeft.identity
  /\ member[r].pc = "poll"
  /\ Spend("reconnects")
  /\ member' = [member EXCEPT ![r].pc = "auth"]
  /\ UNCHANGED <<hubLen, groupVars, settledAt, tokenVars>>

\* The role behind the tokens issued so far is gone: the broker refuses them the group.
Revoke ==
  /\ tokens # << >>
  /\ Spend("revokes")
  /\ revoked' = DOMAIN tokens
  /\ UNCHANGED <<hubLen, groupVars, member, settledAt, entra, shown, tokens, forsaken, hubNow>>

\* No request to the issuer outlasts the HTTP client's timeout.
HubTick ==
  /\ Spend("ticks")
  /\ \A r \in Members : member[r].pc = "fetch" => hubNow - member[r].asked < FetchTimeout
  /\ hubNow' = hubNow + 1
  /\ UNCHANGED <<hubLen, groupVars, member, settledAt, entra, shown, tokens, revoked, forsaken>>

HubNext ==
  \/ \E p \in Partitions : HubAppends(p) \/ \E r \in Members : Rebalance(p, r)
  \/ \E r \in Members : \/ HubOpen(r) \/ ReaderStops(r) \/ PollFails(r) \/ HubCommit(r)
                        \/ \E to \in [Partitions -> 0 .. Longest] : Poll(r, to)
                        \/ \E s \in {"logs", "metrics"} : SignalSettles(r, s)
                        \/ GetServes(r) \/ GetAsks(r) \/ FetchAnswers(r) \/ FetchFails(r) \/ Reconnect(r)
  \/ Revoke \/ HubTick

HubSpec == HubInit /\ [][HubNext]_hubVars

-----------------------------------------------------------------------------
(* Properties.                                                             *)

\* The group's offset never passes a message that is not settled: everything
\* between where the partition was begun and its offset has had its logs and its
\* metrics accepted or counted, or was counted as undecodable, although partitions
\* move during a delivery, commits fail and members die.
OffsetsAreSettled ==
  \A p \in Partitions : \A i \in 1 .. Len(HubContent[p]) :
    begun[p] < i /\ i <= offset[p] => \A s \in Owes(<<p, i>>) : <<<<p, i>>, s>> \in settledAt

\* A token that is shown has not run out when it is shown, however long the issuer
\* took to answer; and once a reader was refused with a token, it reopens without it.
TokensSound ==
  \A r \in Members : shown[r].id # 0 =>
    /\ shown[r].at < tokens[shown[r].id]
    /\ shown[r].id \notin forsaken

\* The group's offsets pass nothing unsettled, read with a token that still
\* counts (Reader.deliver, kafkaSource.commit, tokenSource.get).
HubSound == OffsetsAreSettled /\ TokensSound
=============================================================================
