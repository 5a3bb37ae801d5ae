------------------------------ MODULE ShardRing ------------------------------
(***************************************************************************)
(* The trace tier's ring and re-sharding (internal/agent/servicegraph:     *)
(* ring.go and reshard.go; cmd/kubescrape-agent: servicegraph.go and       *)
(* sgreceiver.go).  Every shard builds the ring from its own list of the   *)
(* shard names.  A payload that reaches the application port of a shard is *)
(* split by the owner of each trace; the shares of the others are          *)
(* forwarded, marked, to their internal port, the ones that failed lately  *)
(* first; only when every share was taken is the local one consumed.  Any  *)
(* failure refuses the payload, and its sender sends all of it again       *)
(* unless the refusal says that it never will be taken.                    *)
(***************************************************************************)
EXTENDS Integers, Sequences, FiniteSets

CONSTANTS
    Entries,        \* the shards, and the processes of the tier outside the ring
    NameLists,      \* entry -> the lists of names it may be configured with
    TokensOf,       \* name -> its tokens
    Rank,           \* name -> its place in the sorted order of names
    TracePushes,    \* payloads
    TraceSpans,     \* payload -> its spans
    KeyOf,          \* span -> the ring key of its trace, or NoKey
    NoKey,
    Misaddressed,   \* entries whose configured port is their siblings' application port
    PushTries       \* bound: times a sender presents a payload

NamesIn(list) == {list[i] : i \in DOMAIN list}

\* Every process of the tier is configured with the same names, in whatever
\* order and however often repeated; the sorted order of names is a numbering,
\* and tokens and keys are numbers of the circle.
ASSUME RingAssumption ==
  /\ Entries # {}
  /\ \A e, f \in Entries : \A l \in NameLists[e], m \in NameLists[f] : NamesIn(l) = NamesIn(m)
  /\ \A e \in Entries : \A l \in NameLists[e] : NamesIn(l) # {} /\ \A n \in NamesIn(l) :
       TokensOf[n] \in SUBSET Nat /\ TokensOf[n] # {} /\ Rank[n] \in Nat
  /\ \A p \in TracePushes : \A s \in TraceSpans[p] : KeyOf[s] # NoKey => KeyOf[s] \in Nat

VARIABLES
    names,      \* entry -> the configured list
    failing,    \* entry -> the siblings whose last send failed
    request,    \* payload -> [at, pc, share, tries]
    consumed    \* history: [entry, span] consumed by an owner chain

ringVars == <<names, failing, request, consumed>>
-----------------------------------------------------------------------------
(* The ring *)

\* Mutant of RingTokens: the first name of the list wins a token, not the first in order.
RingTokensAsListed(list) ==
  LET of(t) == {i \in DOMAIN list : t \in TokensOf[list[i]]}
      first(t) == CHOOSE i \in of(t) : \A j \in of(t) : i <= j
  IN [t \in UNION {TokensOf[n] : n \in NamesIn(list)} |-> list[first(t)]]

\* NewRing: token -> owner, whatever the order and the repeats of the list; of
\* two names with one token the first in order keeps it.
RingTokens(list) ==
  LET of(t) == {n \in NamesIn(list) : t \in TokensOf[n]}
  IN [t \in UNION {TokensOf[n] : n \in NamesIn(list)} |->
        CHOOSE n \in of(t) : \A m \in of(t) : Rank[n] <= Rank[m]]

\* index: the first token at or after the key, or the first of all.
TokenFor(ring, key) ==
  LET tokens == DOMAIN ring
      from == {t \in tokens : t >= key}
      least(S) == CHOOSE t \in S : \A u \in S : t <= u
  IN IF from # {} THEN least(from) ELSE least(tokens)

\* ownerOf: a span without a trace id stays where it is.
OwnerOf(e, s) ==
  IF KeyOf[s] = NoKey THEN e
  ELSE LET ring == RingTokens(names[e]) IN ring[TokenFor(ring, KeyOf[s])]

ClientsOf(e) == NamesIn(names[e]) \ {e}
-----------------------------------------------------------------------------
(* A payload at an application port *)

RingInit ==
  /\ names \in {f \in [Entries -> UNION {NameLists[e] : e \in Entries}] : \A e \in Entries : f[e] \in NameLists[e]}
  /\ failing = [e \in Entries |-> {}]
  /\ request = [p \in TracePushes |-> [at |-> NoKey, pc |-> "idle", share |-> << >>, tries |-> 0]]
  /\ consumed = {}

ShareOf(e, p, n) == {s \in TraceSpans[p] : OwnerOf(e, s) = n}
Owners(e, p) == {OwnerOf(e, s) : s \in TraceSpans[p]}

\* The sender presents it to some shard; without siblings all of it is local.
PushReceived(p, e) ==
  /\ request[p].pc = "idle" /\ request[p].tries < PushTries
  /\ request' = [request EXCEPT ![p] =
       [at |-> e, tries |-> request[p].tries + 1,
        pc |-> IF ClientsOf(e) = {} THEN "local" ELSE "suspects",
        share |-> [n \in Owners(e, p) \ {e} |-> "todo"]]]
  /\ UNCHANGED <<names, failing, consumed>>

Shares(p) == DOMAIN request[p].share
Suspects(p) == Shares(p) \cap failing[request[p].at]

\* The shares are put in two rounds; the failing flags are read before the first.
SharesSorted(p) ==
  /\ request[p].pc = "suspects"
  /\ request' = [request EXCEPT ![p] = [request[p] EXCEPT !.pc = "first",
        !.share = [n \in Shares(p) |-> IF n \in Suspects(p) THEN "first" ELSE "second"]]]
  /\ UNCHANGED <<names, failing, consumed>>

InRound(p, n) == request[p].pc \in {"first", "second"} /\ request[p].share[n] = request[p].pc

\* The internal port strips the marker and consumes; the application port
\* refuses whatever carries it, for good.
Forwarded(e) == e \notin Misaddressed

\* sendShare: the sibling's chain takes the share and says so.
ShareTaken(p, n) ==
  LET e == request[p].at IN
  /\ n \in Shares(p) /\ InRound(p, n) /\ Forwarded(e)
  /\ request' = [request EXCEPT ![p].share[n] = "taken"]
  /\ failing' = [failing EXCEPT ![e] = @ \ {n}]
  /\ consumed' = consumed \cup {[entry |-> n, span |-> s] : s \in ShareOf(e, p, n)}
  /\ UNCHANGED names

\* An error comes back: of the address or of the answer's way, the share taken or
\* not, or a refusal of the chain or of the marker, which may be for good.
ShareFailed(p, n, reached, mark) ==
  LET e == request[p].at IN
  /\ n \in Shares(p) /\ InRound(p, n) /\ (reached => Forwarded(e) /\ mark = "failed")
  /\ request' = [request EXCEPT ![p].share[n] = mark]
  /\ failing' = [failing EXCEPT ![e] = @ \cup {n}]
  /\ consumed' = IF reached THEN consumed \cup {[entry |-> n, span |-> s] : s \in ShareOf(e, p, n)} ELSE consumed
  /\ UNCHANGED names

\* sendShares waits for all of a round; one error refuses the payload.  Of a
\* transient and a permanent one the first of the joined errors is classified,
\* and the order of the owners is a map's.
Marked(p, mark) == \E n \in Shares(p) : request[p].share[n] = mark
RoundOutcomes(p) ==
  IF Marked(p, "failed") \/ Marked(p, "barred")
  THEN {o \in {"refused", "rejected"} : Marked(p, IF o = "refused" THEN "failed" ELSE "barred")}
  ELSE {IF request[p].pc = "first" THEN "second" ELSE "local"}

RoundDone(p) ==
  /\ request[p].pc \in {"first", "second"} /\ \A n \in Shares(p) : ~InRound(p, n)
  /\ \E o \in RoundOutcomes(p) : request' = [request EXCEPT ![p].pc = o]
  /\ UNCHANGED <<names, failing, consumed>>

\* The local share, through this shard's own chain, is taken or refused.
LocalConsumed(p, outcome) ==
  LET e == request[p].at IN
  /\ request[p].pc = "local"
  /\ ShareOf(e, p, e) = {} => outcome = "accepted"
  /\ request' = [request EXCEPT ![p].pc = outcome]
  /\ consumed' = IF outcome = "accepted" THEN consumed \cup {[entry |-> e, span |-> s] : s \in ShareOf(e, p, e)}
                 ELSE consumed
  /\ UNCHANGED <<names, failing>>

\* External: the sender retries a payload that was refused for now, whole.
Retried(p) ==
  /\ request[p].pc = "refused"
  /\ request' = [request EXCEPT ![p] = [request[p] EXCEPT !.pc = "idle", !.share = << >>]]
  /\ UNCHANGED <<names, failing, consumed>>

RingNext ==
  \E p \in TracePushes :
    \/ \E e \in Entries : PushReceived(p, e)
    \/ SharesSorted(p) \/ RoundDone(p) \/ Retried(p)
    \/ \E n \in Shares(p) : \/ ShareTaken(p, n)
                            \/ \E reached \in BOOLEAN, mark \in {"failed", "barred"} : ShareFailed(p, n, reached, mark)
    \/ \E outcome \in {"accepted", "refused", "rejected"} : LocalConsumed(p, outcome)

RingSpec == RingInit /\ [][RingNext]_ringVars
-----------------------------------------------------------------------------
(* Properties *)

\* Every span of a payload the tier answered for was consumed by some chain.
AcceptedIsConsumed ==
  \A p \in TracePushes : request[p].pc = "accepted" =>
    \A s \in TraceSpans[p] : \E c \in consumed : c.span = s

\* The spans of one trace are consumed by one shard only, whichever shards they
\* reached, in however many attempts and whatever the order of each shard's list
\* of names: pairing and sampling see whole traces.
OneOwnerPerTrace ==
  \A c, d \in consumed :
    (KeyOf[c.span] = KeyOf[d.span] /\ KeyOf[c.span] # NoKey) => c.entry = d.entry

\* An accepted payload is consumed, each trace by its one shard (Reshard, ownerOf).
ShardingSound == AcceptedIsConsumed /\ OneOwnerPerTrace
=============================================================================
