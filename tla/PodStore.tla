------------------------------ MODULE PodStore ------------------------------
(***************************************************************************)
(* The metadata server's pod store (internal/store): the indexes over pods *)
(* and containers, their tombstones and the sweep that removes them, the   *)
(* attribution of pod addresses, and the change tokens the server's node   *)
(* targets memo relies on (internal/server/httpcache.go).                  *)
(*                                                                         *)
(* Every operation runs under the store's lock, so it is one action.  The  *)
(* informer may deliver any state of a pod at any time: coalesced, again,  *)
(* without the delete of a predecessor of the same name, or stale after a  *)
(* relist.  The memo's reader takes its token and its data in two steps.   *)
(***************************************************************************)
EXTENDS Integers, Sequences, FiniteSets

SE == INSTANCE SequencesExt

CONSTANTS
    Uids,       \* pod UIDs
    NameOf,     \* namespace/name of each UID
    Objects,    \* the states the API server may report of each UID
    TTL,        \* cache TTL; 0 keeps no tombstones
    MemoNodes,  \* nodes whose targets are served
    MaxTime,    \* bound: clock
    MaxEvents   \* bound: informer events

NoUid == "none"
NoNode == "unscheduled"

Reported == UNION {Objects[u] : u \in Uids}
Names == {NameOf[u] : u \in Uids}
Nodes == {o.node : o \in Reported} \ {NoNode}
IPs   == UNION {SE!ToSet(o.ips) : o \in Reported}
IdsOf(u) == UNION {o.ids : o \in Objects[u]}
Ids   == UNION {IdsOf(u) : u \in Uids}

\* A pod object: its node once scheduled, its addresses while its sandbox
\* exists, whether it finished, its deletion timestamp and its containers,
\* whose IDs no other pod ever reports.
ASSUME StoreAssumption ==
    /\ NoUid \notin Uids
    /\ \A o \in Reported : /\ DOMAIN o = {"node", "ips", "done", "terminating", "ids"}
                           /\ o.done \in BOOLEAN /\ o.terminating \in BOOLEAN /\ IsFiniteSet(o.ids)
    /\ \A u, v \in Uids : u # v => IdsOf(u) \cap IdsOf(v) = {}
    /\ MemoNodes \subseteq Nodes
    /\ TTL \in Nat /\ MaxTime \in Nat /\ MaxEvents \in Nat

VARIABLES
    now,
    pods,       \* UID -> record
    byContainer,\* container ID -> entry
    byNode,     \* node -> UIDs
    byPodName,  \* name -> UID or NoUid
    ip,         \* addresses: owner, claims, and the acquisition order
    pending,    \* stamped tombstones in stamping order
    gen,        \* store-wide change token
    nodeGen,    \* change token of every node with pods
    memo,       \* node -> what the reader of its targets remembered
    reading,    \* node -> token sampled by a build in progress, or -1
    events, acquired  \* history: events so far, and when a pod took an address

storeVars == <<pods, byContainer, byNode, byPodName, ip, pending, gen, nodeGen>>
vars == <<now, storeVars, memo, reading, events, acquired>>

Expired(t) == t # 0 /\ now > t

Live(P, u) == u \in DOMAIN P /\ P[u].expireAt = 0

\* podAddresses: a finished pod claims none.
Claimed(o) == IF o.done THEN {} ELSE SE!ToSet(o.ips)

Without(f, S) == [x \in DOMAIN f \ S |-> f[x]]
With(f, k, v) == [x \in DOMAIN f \cup {k} |-> IF x = k THEN v ELSE f[x]]
-----------------------------------------------------------------------------
(* Addresses.  x is the state of the index: the holder of each address, the *)
(* records reporting it, each record's acquisition sequence and the last    *)
(* one handed out.                                                          *)

\* promoteIPClaimantLocked: the latest acquirer among the live records that
\* still claim the address.  Only records that never acquired one tie, and
\* the map's iteration order decides between them: fav is the first met.
Promoted(x, P, a, skip, fav) ==
    LET eligible == {u \in x.claims[a] \ {skip} : Live(P, u) /\ a \in Claimed(P[u])}
        latest   == {u \in eligible : \A v \in eligible : x.seq[v] <= x.seq[u]}
    IN  IF latest = {} THEN NoUid
        ELSE IF fav[a] \in latest THEN fav[a] ELSE CHOOSE u \in latest : TRUE

\* Mutant: the releasing record is still a candidate.
ReleasedUnskipped(x, P, u, a, fav) ==
    IF x.owner[a] = u THEN [x EXCEPT !.owner[a] = Promoted(x, P, a, NoUid, fav)]
    ELSE [x EXCEPT !.claims[a] = @ \ {u}]

\* releaseIPLocked.
Released(x, P, u, a, fav) ==
    LET y == [x EXCEPT !.claims[a] = @ \ {u}]
    IN  IF x.owner[a] = u THEN [y EXCEPT !.owner[a] = Promoted(y, P, a, u, fav)] ELSE y

ReleasedAll(x, P, u, addrs, fav) ==
    SE!FoldLeft(LAMBDA y, a : Released(y, P, u, a, fav), x, addrs)

\* claimOneIPLocked: an address not held before is an acquisition, unless
\* the pod is first seen draining; a later acquisition beats an earlier one.
ClaimedOne(x, u, a, old, noEvidence) ==
    LET acquires == ~noEvidence /\ a \notin old
        y == [x EXCEPT !.claims[a] = @ \cup {u},
                       !.last = IF acquires THEN @ + 1 ELSE @,
                       !.seq[u] = IF acquires THEN x.last + 1 ELSE @]
        cur == x.owner[a]
    IN  IF cur \in {NoUid, u} \/ y.seq[u] > y.seq[cur]
        THEN [y EXCEPT !.owner[a] = u] ELSE y

\* claimPodIPLocked: claim what is reported, release what no longer is.
ClaimedAll(x, P, u, o, old, oldAddrs, noEvidence, fav) ==
    LET addrs == SelectSeq(o.ips, LAMBDA a : ~o.done)
        y == SE!FoldLeft(LAMBDA z, a : ClaimedOne(z, u, a, old, noEvidence), x, addrs)
    IN  ReleasedAll(y, P, u, SelectSeq(oldAddrs, LAMBDA a : a \in old \ SE!ToSet(addrs)), fav)
-----------------------------------------------------------------------------
(* Tombstones and tokens.                                                  *)

Stamp(kind, key) == [when |-> now + TTL, kind |-> kind, key |-> key]

\* Mutant: no entry outlives its pod.
ExpireEntriesAtOnce(bc, ids) == Without(bc, ids)

\* The entries of ids leave: at once without a TTL, else stamped.
ExpireEntries(bc, ids) ==
    IF TTL = 0 THEN Without(bc, ids)
    ELSE [id \in DOMAIN bc |-> IF id \in ids THEN [bc[id] EXCEPT !.expireAt = now + TTL]
                               ELSE bc[id]]

\* The stamps of ids, in some order.
Stamps(ids) ==
    LET order == CHOOSE f \in [1..Cardinality(ids) -> ids] : \A id \in ids : \E i \in DOMAIN f : f[i] = id
    IN  IF TTL = 0 THEN <<>> ELSE [i \in 1..Cardinality(ids) |-> Stamp("container", order[i])]

\* Entries of pod u among ids that carry no expiry yet.
Unstamped(bc, u, ids) ==
    {id \in ids \cap DOMAIN bc : bc[id].uid = u /\ bc[id].expireAt = 0}

\* bumpLocked: g is the token minted, byn the node index after the mutation.
Bumped(ng, byn, g, nodes) ==
    [n \in (DOMAIN ng \cup nodes) \cap DOMAIN byn |-> IF n \in nodes THEN g ELSE ng[n]]

RemovedFromNode(byn, n, u) ==
    IF n \notin DOMAIN byn THEN byn
    ELSE IF byn[n] = {u} THEN Without(byn, {n})
    ELSE [byn EXCEPT ![n] = @ \ {u}]

\* deletePodLocked of a known pod, as the state it leaves.
Deleted(S, u, fav) ==
    LET rec  == S.pods[u]
        byn  == RemovedFromNode(S.byNode, rec.node, u)
        own  == {id \in rec.ids \cap DOMAIN S.byContainer : S.byContainer[id].uid = u}
        ids  == Unstamped(S.byContainer, u, rec.ids)
        keep == TTL # 0
    IN  [pods |-> IF keep THEN With(S.pods, u, [rec EXCEPT !.expireAt = now + TTL])
                  ELSE Without(S.pods, {u}),
         byContainer |-> IF keep THEN ExpireEntries(S.byContainer, ids) ELSE Without(S.byContainer, own),
         byNode |-> byn,
         byPodName |-> IF keep THEN S.byPodName
                       ELSE [n \in Names |-> IF S.byPodName[n] = u THEN NoUid ELSE S.byPodName[n]],
         ip |-> ReleasedAll(S.ip, S.pods, u, rec.ips, fav),
         pending |-> IF keep THEN Append(S.pending, Stamp("pod", u)) \o Stamps(ids) ELSE S.pending,
         gen |-> S.gen + 1,
         nodeGen |-> Bumped(S.nodeGen, byn, S.gen + 1, {rec.node} \ {NoNode})]

\* The claimant the map's iteration meets first, per address.
FirstMet ==
    {f \in [IPs -> Uids] :
       \A a \in IPs : IF ip.claims[a] = {} THEN f[a] = CHOOSE u \in Uids : TRUE
                      ELSE f[a] \in ip.claims[a]}

State == [pods |-> pods, byContainer |-> byContainer, byNode |-> byNode,
          byPodName |-> byPodName, ip |-> ip, pending |-> pending, gen |-> gen,
          nodeGen |-> nodeGen]

Becomes(S) ==
    /\ pods' = S.pods /\ byContainer' = S.byContainer /\ byNode' = S.byNode
    /\ byPodName' = S.byPodName /\ ip' = S.ip /\ pending' = S.pending
    /\ gen' = S.gen /\ nodeGen' = S.nodeGen
-----------------------------------------------------------------------------
(* The informer's handlers and the sweep.                                  *)

Content(r) == [node |-> r.node, ips |-> r.ips, done |-> r.done,
               terminating |-> r.terminating, ids |-> r.ids]

\* unchangedLocked: a resync of a live pod (the resource version stands for
\* its content).
Unchanged(u, o) == Live(pods, u) /\ Content(pods[u]) = o

\* indexContainersLocked and the node index, for pod u now reporting o.
Indexed(u, o, oldIds, oldNode) ==
    LET rec     == [node |-> o.node, ips |-> o.ips, done |-> o.done,
                    terminating |-> o.terminating, ids |-> o.ids, expireAt |-> 0]
        entries == [id \in DOMAIN byContainer \cup o.ids |->
                      IF id \in o.ids THEN [uid |-> u, expireAt |-> 0] ELSE byContainer[id]]
        leaving == Unstamped(entries, u, oldIds \ o.ids)
        left    == IF oldNode # o.node THEN RemovedFromNode(byNode, oldNode, u) ELSE byNode
    IN  [pods |-> With(pods, u, rec),
         byContainer |-> ExpireEntries(entries, leaving),
         byNode |-> IF o.node = NoNode THEN left
                    ELSE With(left, o.node,
                              {u} \cup (IF o.node \in DOMAIN left THEN left[o.node] ELSE {})),
         byPodName |-> byPodName,
         ip |-> [ip EXCEPT !.seq[u] = IF u \in DOMAIN pods THEN @ ELSE 0],
         pending |-> pending \o Stamps(leaving),
         gen |-> gen,
         nodeGen |-> nodeGen]

\* A live pod of another UID still holds the name: its delete was missed.
Superseded(S, u, fav) ==
    LET prev == S.byPodName[NameOf[u]]
    IN  IF prev \notin {NoUid, u} /\ Live(S.pods, prev) THEN Deleted(S, prev, fav) ELSE S

UpsertPod(u, o, fav) ==
    LET known == u \in DOMAIN pods
        old   == IF known THEN Content(pods[u])
                 ELSE [node |-> NoNode, ips |-> <<>>, done |-> FALSE, terminating |-> FALSE,
                       ids |-> {}]
        held  == Claimed(old)
        first == ~known /\ o.terminating
        S     == Superseded(Indexed(u, o, old.ids, old.node), u, fav)
    IN  /\ events < MaxEvents
        /\ ~Unchanged(u, o)
        /\ events' = events + 1
        /\ Becomes([pods |-> S.pods, byContainer |-> S.byContainer, byNode |-> S.byNode,
                    byPodName |-> [S.byPodName EXCEPT ![NameOf[u]] = u],
                    ip |-> ClaimedAll(S.ip, S.pods, u, o, held, old.ips, first, fav),
                    pending |-> S.pending,
                    gen |-> S.gen + 1,
                    nodeGen |-> Bumped(S.nodeGen, S.byNode, S.gen + 1, {old.node, o.node} \ {NoNode})])
        /\ acquired' = [acquired EXCEPT ![u] =
              [a \in IPs |-> IF a \in Claimed(o) \ held THEN IF first THEN 0 ELSE events + 1
                             ELSE IF known THEN @[a] ELSE 0]]
        /\ UNCHANGED <<now, memo, reading>>

DeletePod(u, fav) ==
    /\ events < MaxEvents
    /\ u \in DOMAIN pods
    /\ events' = events + 1
    /\ Becomes(Deleted(State, u, fav))
    /\ UNCHANGED <<now, memo, reading, acquired>>

\* sweep: the due prefix of the stamps.  A stamp whose pod or entry was
\* resurrected or stamped again is skipped.
Sweep ==
    LET due   == {k \in DOMAIN pending : \A j \in 1..k : Expired(pending[j].when)}
        keys(kind) == {pending[k].key : k \in {j \in due : pending[j].kind = kind}}
        goneP == {u \in keys("pod") \cap DOMAIN pods : Expired(pods[u].expireAt)}
        goneC == {id \in DOMAIN byContainer :
                    \/ id \in keys("container") /\ Expired(byContainer[id].expireAt)
                    \/ byContainer[id].uid \in goneP /\ id \in pods[byContainer[id].uid].ids}
    IN  /\ due # {}
        /\ pods' = Without(pods, goneP)
        /\ byContainer' = Without(byContainer, goneC)
        /\ byPodName' = [n \in DOMAIN byPodName |->
                           IF byPodName[n] \in goneP THEN NoUid ELSE byPodName[n]]
        /\ ip' = [ip EXCEPT !.claims = [a \in IPs |-> @[a] \ goneP]]
        /\ pending' = SubSeq(pending, Cardinality(due) + 1, Len(pending))
        /\ gen' = gen + 1
        /\ UNCHANGED <<now, byNode, nodeGen, memo, reading, events, acquired>>

Tick ==
    /\ now < MaxTime
    /\ now' = now + 1
    /\ UNCHANGED <<storeVars, memo, reading, events, acquired>>
-----------------------------------------------------------------------------
(* The reader of one node's pods: nodeTargets, rememberNodeTargets.        *)

PodsOnNode(n) ==
    IF n \in DOMAIN byNode THEN {[uid |-> u, pod |-> Content(pods[u])] : u \in byNode[n]} ELSE {}

NodeGeneration(n) == IF n \in DOMAIN nodeGen THEN nodeGen[n] ELSE gen

\* targetsValidity samples the token before the derivation reads the data.
SampleToken(n) ==
    /\ reading[n] = -1
    /\ reading' = [reading EXCEPT ![n] = NodeGeneration(n)]
    /\ UNCHANGED <<now, storeVars, memo, events, acquired>>

RememberTargets(n) ==
    /\ reading[n] >= 0
    /\ memo' = [memo EXCEPT ![n] = [token |-> reading[n], data |-> PodsOnNode(n)]]
    /\ reading' = [reading EXCEPT ![n] = -1]
    /\ UNCHANGED <<now, storeVars, events, acquired>>
-----------------------------------------------------------------------------
EmptyMap == [x \in {} |-> 0]

Init ==
    /\ now = 1
    /\ pods = EmptyMap /\ byContainer = EmptyMap /\ byNode = EmptyMap
    /\ byPodName = [n \in Names |-> NoUid]
    /\ ip = [owner |-> [a \in IPs |-> NoUid], claims |-> [a \in IPs |-> {}],
             seq |-> [u \in Uids |-> 0], last |-> 0]
    /\ pending = <<>>
    /\ gen = 0 /\ nodeGen = EmptyMap
    /\ memo = [n \in MemoNodes |-> [token |-> -1, data |-> {}]]
    /\ reading = [n \in MemoNodes |-> -1]
    /\ events = 0
    /\ acquired = [u \in Uids |-> [a \in IPs |-> 0]]

Next ==
    \/ \E u \in Uids, fav \in FirstMet :
          DeletePod(u, fav) \/ \E o \in Objects[u] : UpsertPod(u, o, fav)
    \/ Sweep \/ Tick
    \/ \E n \in MemoNodes : SampleToken(n) \/ RememberTargets(n)

Spec == Init /\ [][Next]_vars
-----------------------------------------------------------------------------
(* Properties.                                                             *)

RecordType(u) ==
    {[node |-> o.node, ips |-> o.ips, done |-> o.done, terminating |-> o.terminating,
      ids |-> o.ids, expireAt |-> t] : o \in Objects[u], t \in 0..MaxTime + TTL}

\* Type invariant of the store.
TypeOK ==
    /\ now \in 1..MaxTime
    /\ DOMAIN pods \subseteq Uids /\ \A u \in DOMAIN pods : pods[u] \in RecordType(u)
    /\ DOMAIN byContainer \subseteq Ids
    /\ \A id \in DOMAIN byContainer : byContainer[id] \in [uid : Uids, expireAt : Nat]
    /\ DOMAIN byNode \subseteq Nodes
    /\ \A n \in DOMAIN byNode : byNode[n] \in SUBSET Uids \ {{}}
    /\ byPodName \in [Names -> Uids \cup {NoUid}]
    /\ ip.owner \in [IPs -> Uids \cup {NoUid}] /\ ip.claims \in [IPs -> SUBSET Uids]
    /\ ip.seq \in [Uids -> 0..ip.last]
    /\ DOMAIN nodeGen = DOMAIN byNode /\ \A n \in DOMAIN nodeGen : nodeGen[n] \in 1..gen

\* The indexes agree with the live pods: each live pod is on exactly its node,
\* owns its name alone, and is what every container ID it reports resolves to.
IndexesAgree ==
    /\ \A n \in Nodes :
          {u \in DOMAIN pods : Live(pods, u) /\ pods[u].node = n}
            = IF n \in DOMAIN byNode THEN byNode[n] ELSE {}
    /\ \A u \in DOMAIN pods : Live(pods, u) =>
          /\ byPodName[NameOf[u]] = u
          /\ \A id \in pods[u].ids :
                id \in DOMAIN byContainer /\ byContainer[id] = [uid |-> u, expireAt |-> 0]
    /\ \A n \in Names : byPodName[n] # NoUid => byPodName[n] \in DOMAIN pods

\* An address resolves to the live pod that acquired it last among those that
\* still report it, and to no pod once none does: never to a deleted or
\* finished pod, whatever order updates, deletes and sweeps came in.
LatestAcquirerOwns ==
    \A a \in IPs :
       LET claimants == {u \in DOMAIN pods : Live(pods, u) /\ a \in Claimed(pods[u])}
       IN  IF claimants = {} THEN ip.owner[a] = NoUid
           ELSE /\ ip.owner[a] \in claimants
                /\ \A u \in claimants : acquired[u][a] <= acquired[ip.owner[a]][a]

\* No tombstone leaks: whatever carries an expiry has a stamp due no later
\* than that expiry's sweep, and the stamps are in the order they fall due.
TombstonesListed ==
    /\ \A u \in DOMAIN pods : pods[u].expireAt # 0 =>
          \E k \in DOMAIN pending :
             pending[k] = [when |-> pods[u].expireAt, kind |-> "pod", key |-> u]
    /\ \A id \in DOMAIN byContainer : byContainer[id].expireAt # 0 =>
          \E k \in DOMAIN pending :
             pending[k] = [when |-> byContainer[id].expireAt, kind |-> "container", key |-> id]
    /\ \A k \in 2..Len(pending) : pending[k - 1].when <= pending[k].when

\* A container ID stays resolvable for the whole TTL after its pod is deleted
\* or stops reporting it: no step drops an entry that has not expired.
RetainedUntilExpiry ==
    [][\A id \in DOMAIN byContainer \ DOMAIN byContainer' :
          TTL = 0 \/ Expired(byContainer[id].expireAt)]_vars

\* A remembered answer whose token is still the node's token is the current
\* answer, also when pods came and went between sampling and remembering.
MemoCurrent ==
    \A n \in MemoNodes : memo[n].token = NodeGeneration(n) => memo[n].data = PodsOnNode(n)

\* The store as its readers see it: typed, its indexes in agreement, nothing
\* leaked, addresses with their latest owner and answers current (UpsertPod,
\* DeletePod, sweep, PodsOnNode).
StoreConsistent ==
    TypeOK /\ IndexesAgree /\ TombstonesListed /\ LatestAcquirerOwns /\ MemoCurrent
=============================================================================
