---------------------------- MODULE MetadataProofs ----------------------------
(***************************************************************************)
(* Proofs about the metadata side: the pod store (PodStore), the agent's   *)
(* metadata client (MetaClient), the server's bearer tokens (Bearer) and   *)
(* its answers to a node's polls (NodeTargets).  Each component has an     *)
(* inductive invariant, lemmas for what each action does to it, and the    *)
(* theorems at the end of its section.                                     *)
(***************************************************************************)
EXTENDS PodStore, MetaClient, Bearer, NodeTargets, FiniteSetTheorems, SequenceTheorems, TLAPS

-----------------------------------------------------------------------------
(* The pod store.  Its state is handled as the record S that the actions    *)
(* build (State, Deleted, Indexed).                                         *)

PodRecords == [node : Nodes \cup {NoNode}, ips : {o.ips : o \in Reported}, done : BOOLEAN,
               terminating : BOOLEAN, ids : SUBSET Ids, expireAt : Nat]
Entries == [uid : Uids, expireAt : Nat]

\* Shapes: what the indexes hold, and that no expiry is further than the limit.
Shaped(S, limit) ==
  /\ DOMAIN S.pods \subseteq Uids /\ S.pods \in [DOMAIN S.pods -> PodRecords]
  /\ \A u \in DOMAIN S.pods : S.pods[u].ids \subseteq IdsOf(u) /\ S.pods[u].expireAt <= limit
  /\ S.byContainer \in [DOMAIN S.byContainer -> Entries]
  /\ \A id \in DOMAIN S.byContainer : S.byContainer[id].expireAt <= limit
  /\ S.byPodName \in [Names -> Uids \cup {NoUid}]
  /\ DOMAIN S.byNode \subseteq Nodes /\ S.byNode \in [DOMAIN S.byNode -> SUBSET Uids]
  /\ \A n \in Names : S.byPodName[n] # NoUid => S.byPodName[n] \in DOMAIN S.pods

\* The node index is the live pods by node.
NodesOK(S) ==
  /\ \A n \in DOMAIN S.byNode : S.byNode[n] # {} /\ \A u \in S.byNode[n] : Live(S.pods, u) /\ S.pods[u].node = n
  /\ \A u \in DOMAIN S.pods : Live(S.pods, u) /\ S.pods[u].node # NoNode =>
        S.pods[u].node \in DOMAIN S.byNode /\ u \in S.byNode[S.pods[u].node]

\* Every live pod but w owns its name.
NamesOK(S, w) ==
  \A u \in DOMAIN S.pods : Live(S.pods, u) /\ u # w => S.byPodName[NameOf[u]] = u

\* A live pod's containers resolve to it; a deleted one's leave no later than it does.
ContainersOK(S) ==
  \A u \in DOMAIN S.pods : \A id \in S.pods[u].ids :
    /\ Live(S.pods, u) => id \in DOMAIN S.byContainer /\ S.byContainer[id] = [uid |-> u, expireAt |-> 0]
    /\ (~Live(S.pods, u) /\ id \in DOMAIN S.byContainer /\ S.byContainer[id].uid = u) =>
         S.byContainer[id].expireAt # 0 /\ S.byContainer[id].expireAt <= S.pods[u].expireAt

Core(S, w, limit) == Shaped(S, limit) /\ NodesOK(S) /\ NamesOK(S, w) /\ ContainersOK(S)

\* What a reader of node n gets of S, and its token.
View(S, n) == IF n \in DOMAIN S.byNode THEN {[uid |-> u, pod |-> Content(S.pods[u])] : u \in S.byNode[n]} ELSE {}
Token(S, n) == IF n \in DOMAIN S.nodeGen THEN S.nodeGen[n] ELSE S.gen

\* S0 became S: a node outside W has a token that was never handed out, or its old
\* one and its old pods.
Moves(S0, S, W) ==
  /\ S.gen \in Nat /\ S0.gen \in Nat /\ S.gen >= S0.gen
  /\ DOMAIN S.nodeGen \subseteq Nodes /\ S.nodeGen \in [DOMAIN S.nodeGen -> Nat]
  /\ \A n \in DOMAIN S.nodeGen : S.nodeGen[n] <= S.gen
  /\ \A n \in Nodes \ W : /\ n \in DOMAIN S.byNode <=> n \in DOMAIN S.nodeGen
                          /\ \/ Token(S, n) > S0.gen
                             \/ Token(S, n) = Token(S0, n) /\ View(S, n) = View(S0, n)

\* No token a reader holds is ahead of the store.
ReadersInv ==
  /\ memo = [n \in MemoNodes |-> memo[n]] /\ reading \in [MemoNodes -> Int]
  /\ \A n \in MemoNodes : memo[n].token \in Int /\ memo[n].token <= gen /\ reading[n] <= gen

StoreInv ==
  /\ now \in Nat \ {0} /\ Core(State, NoUid, now + TTL) /\ Moves(State, State, {})
  /\ ReadersInv /\ MemoCurrent

LEMMA StoreInitEstablishes == Init => StoreInv
<1> SUFFICES ASSUME Init PROVE StoreInv
  OBVIOUS
<1> USE StoreAssumption
<1>0. /\ DOMAIN EmptyMap = {} /\ \A S : EmptyMap \in [{} -> S]
  BY DEF EmptyMap
<1>1. /\ State.pods = EmptyMap /\ State.byContainer = EmptyMap /\ State.byNode = EmptyMap
      /\ State.byPodName = [n \in Names |-> NoUid] /\ State.gen = 0 /\ State.nodeGen = EmptyMap /\ now = 1
  BY DEF Init, State
<1>2. Shaped(State, now + TTL)
  BY <1>0, <1>1 DEF Shaped
<1>3. NodesOK(State) /\ NamesOK(State, NoUid) /\ ContainersOK(State)
  BY <1>0, <1>1 DEF NodesOK, NamesOK, ContainersOK, Live
<1>4. Moves(State, State, {})
  BY <1>0, <1>1 DEF Moves
<1>5. ReadersInv
  BY DEF Init, ReadersInv
<1>6. MemoCurrent
  BY <1>0 DEF Init, MemoCurrent, NodeGeneration
<1> QED BY <1>1, <1>2, <1>3, <1>4, <1>5, <1>6 DEF StoreInv, Core

-----------------------------------------------------------------------------
(* What the helpers leave.                                                  *)

LEMMA WithoutIs ==
  ASSUME NEW f, NEW D
  PROVE  DOMAIN Without(f, D) = DOMAIN f \ D /\ \A x \in DOMAIN f \ D : Without(f, D)[x] = f[x]
  BY DEF Without

LEMMA WithIs ==
  ASSUME NEW f, NEW k, NEW v
  PROVE  /\ DOMAIN With(f, k, v) = DOMAIN f \cup {k} /\ With(f, k, v)[k] = v
         /\ \A x \in DOMAIN f : x # k => With(f, k, v)[x] = f[x]
  BY DEF With

\* A pod leaves a node's index, and no other pod or node is touched.
LEMMA RemovedIs ==
  ASSUME NEW byn, NEW n, NEW u, byn \in [DOMAIN byn -> SUBSET Uids], \A m \in DOMAIN byn : byn[m] # {}
  PROVE  LET r == RemovedFromNode(byn, n, u)
         IN  /\ DOMAIN r \subseteq DOMAIN byn /\ r \in [DOMAIN r -> SUBSET Uids]
             /\ \A m \in DOMAIN byn : m # n => m \in DOMAIN r /\ r[m] = byn[m]
             /\ n \in DOMAIN r => r[n] = byn[n] \ {u} /\ r[n] # {}
             /\ n \in DOMAIN byn /\ n \notin DOMAIN r => byn[n] = {u}
<1> DEFINE r == RemovedFromNode(byn, n, u)
<1>1. CASE n \notin DOMAIN byn
  BY <1>1 DEF RemovedFromNode
<1>2. CASE n \in DOMAIN byn /\ byn[n] = {u}
  <2>1. r = [x \in DOMAIN byn \ {n} |-> byn[x]]
    BY <1>2 DEF RemovedFromNode, Without
  <2> QED BY <1>2, <2>1
<1>3. CASE n \in DOMAIN byn /\ byn[n] # {u}
  <2>1. r = [byn EXCEPT ![n] = byn[n] \ {u}]
    BY <1>3 DEF RemovedFromNode
  <2>2. byn[n] \ {u} # {}
    BY <1>3
  <2> QED BY <1>3, <2>1, <2>2
<1> QED BY <1>1, <1>2, <1>3

\* Expiring entries among those of pod u that carry no expiry yet.
LEMMA ExpireIs ==
  ASSUME NEW bc, NEW ids, bc \in [DOMAIN bc -> Entries], TTL # 0, now \in Nat
  PROVE  LET e == ExpireEntries(bc, ids)
         IN  /\ DOMAIN e = DOMAIN bc /\ e \in [DOMAIN bc -> Entries]
             /\ \A id \in DOMAIN bc : /\ e[id].uid = bc[id].uid
                                      /\ id \in ids => e[id].expireAt = now + TTL
                                      /\ id \notin ids => e[id] = bc[id]
<1> DEFINE e == ExpireEntries(bc, ids)
<1> PICK t \in Nat : t = now + TTL
  BY StoreAssumption
<1>1. e = [id \in DOMAIN bc |-> IF id \in ids THEN [bc[id] EXCEPT !.expireAt = t] ELSE bc[id]]
  BY DEF ExpireEntries
<1> QED BY <1>1 DEF Entries
-----------------------------------------------------------------------------
(* deletePodLocked.                                                         *)

LEMMA DeletedPods ==
  ASSUME NEW S, NEW w, now \in Nat \ {0}, Core(S, w, now + TTL), NEW u \in DOMAIN S.pods, NEW fav, NEW T,
         T = Deleted(S, u, fav)
  PROVE  /\ DOMAIN T.pods \subseteq DOMAIN S.pods /\ T.pods \in [DOMAIN T.pods -> PodRecords]
         /\ \A v \in DOMAIN S.pods : v # u => v \in DOMAIN T.pods /\ T.pods[v] = S.pods[v]
         /\ u \in DOMAIN T.pods => /\ TTL # 0 /\ T.pods[u].expireAt = now + TTL
                                   /\ T.pods[u].ids = S.pods[u].ids /\ Content(T.pods[u]) = Content(S.pods[u])
         /\ ~Live(T.pods, u)
         /\ TTL # 0 => DOMAIN T.pods = DOMAIN S.pods
<1> USE StoreAssumption
<1>0. S.pods \in [DOMAIN S.pods -> PodRecords] /\ S.pods[u] \in PodRecords
  BY DEF Core, Shaped
<1>1. CASE TTL # 0
  <2> PICK t \in Nat \ {0} : t = now + TTL
    OBVIOUS
  <2> PICK r : r = [S.pods[u] EXCEPT !.expireAt = t]
    OBVIOUS
  <2>1. T.pods = With(S.pods, u, r)
    BY <1>1 DEF Deleted
  <2>2. r \in PodRecords /\ r.expireAt = t /\ r.ids = S.pods[u].ids /\ Content(r) = Content(S.pods[u])
    BY <1>0 DEF PodRecords, Content
  <2>3. /\ DOMAIN T.pods = DOMAIN S.pods /\ T.pods[u] = r
        /\ \A v \in DOMAIN S.pods : v # u => T.pods[v] = S.pods[v]
    BY <2>1 DEF With
  <2>4. T.pods \in [DOMAIN S.pods -> PodRecords]
    BY <2>1, <2>2, <1>0 DEF With
  <2> QED BY <1>1, <2>2, <2>3, <2>4 DEF Live
<1>2. CASE TTL = 0
  <2>1. T.pods = Without(S.pods, {u})
    BY <1>2 DEF Deleted
  <2> QED BY <1>0, <1>2, <2>1 DEF Without, Live
<1> QED BY <1>1, <1>2

LEMMA DeletedEntries ==
  ASSUME NEW S, NEW w, now \in Nat \ {0}, Core(S, w, now + TTL), NEW u \in DOMAIN S.pods, NEW fav, NEW T,
         T = Deleted(S, u, fav)
  PROVE  /\ DOMAIN T.byContainer \subseteq DOMAIN S.byContainer /\ T.byContainer \in [DOMAIN T.byContainer -> Entries]
         /\ TTL # 0 => DOMAIN T.byContainer = DOMAIN S.byContainer
         /\ \A id \in DOMAIN S.byContainer : S.byContainer[id].uid # u =>
               id \in DOMAIN T.byContainer /\ T.byContainer[id] = S.byContainer[id]
         /\ \A id \in DOMAIN T.byContainer :
               /\ T.byContainer[id].uid = S.byContainer[id].uid
               /\ T.byContainer[id] = S.byContainer[id] \/ T.byContainer[id].expireAt = now + TTL
               /\ T.byContainer[id].uid = u /\ id \in S.pods[u].ids => T.byContainer[id].expireAt # 0
<1> USE StoreAssumption
<1>0. S.byContainer \in [DOMAIN S.byContainer -> Entries]
  BY DEF Core, Shaped
<1>1. CASE TTL # 0
  <2> PICK ids : ids = Unstamped(S.byContainer, u, S.pods[u].ids)
    OBVIOUS
  <2>1. T.byContainer = ExpireEntries(S.byContainer, ids)
    BY <1>1 DEF Deleted
  <2>2. /\ DOMAIN T.byContainer = DOMAIN S.byContainer /\ T.byContainer \in [DOMAIN S.byContainer -> Entries]
        /\ \A id \in DOMAIN S.byContainer :
              /\ T.byContainer[id].uid = S.byContainer[id].uid
              /\ id \in ids => T.byContainer[id].expireAt = now + TTL
              /\ id \notin ids => T.byContainer[id] = S.byContainer[id]
    BY <1>0, <1>1, <2>1, ExpireIs
  <2>3. \A id \in DOMAIN S.byContainer :
           id \in ids <=> id \in S.pods[u].ids /\ S.byContainer[id].uid = u /\ S.byContainer[id].expireAt = 0
    BY DEF Unstamped
  <2>4. now + TTL # 0
    OBVIOUS
  <2> QED BY <1>1, <2>2, <2>3, <2>4
<1>2. CASE TTL = 0
  <2>1. T.byContainer = Without(S.byContainer, {id \in S.pods[u].ids \cap DOMAIN S.byContainer : S.byContainer[id].uid = u})
    BY <1>2 DEF Deleted
  <2> QED BY <1>0, <1>2, <2>1 DEF Without
<1> QED BY <1>1, <1>2

LEMMA DeletedKeeps ==
  ASSUME NEW S, NEW w, now \in Nat \ {0}, Core(S, w, now + TTL), NEW u \in DOMAIN S.pods, NEW fav, NEW T,
         T = Deleted(S, u, fav)
  PROVE  Core(T, w, now + TTL)
<1> USE StoreAssumption
<1> DEFINE limit == now + TTL
<1>p. /\ DOMAIN T.pods \subseteq DOMAIN S.pods /\ T.pods \in [DOMAIN T.pods -> PodRecords]
      /\ \A v \in DOMAIN S.pods : v # u => v \in DOMAIN T.pods /\ T.pods[v] = S.pods[v]
      /\ u \in DOMAIN T.pods => T.pods[u].expireAt = limit /\ T.pods[u].ids = S.pods[u].ids
      /\ ~Live(T.pods, u)
      /\ TTL # 0 => DOMAIN T.pods = DOMAIN S.pods
  BY DeletedPods
<1>c. /\ DOMAIN T.byContainer \subseteq DOMAIN S.byContainer /\ T.byContainer \in [DOMAIN T.byContainer -> Entries]
      /\ \A id \in DOMAIN S.byContainer : S.byContainer[id].uid # u =>
            id \in DOMAIN T.byContainer /\ T.byContainer[id] = S.byContainer[id]
      /\ \A id \in DOMAIN T.byContainer :
            /\ T.byContainer[id].uid = S.byContainer[id].uid
            /\ T.byContainer[id] = S.byContainer[id] \/ T.byContainer[id].expireAt = limit
            /\ T.byContainer[id].uid = u /\ id \in S.pods[u].ids => T.byContainer[id].expireAt # 0
  BY DeletedEntries
<1>s. Shaped(S, limit) /\ NodesOK(S) /\ NamesOK(S, w) /\ ContainersOK(S) /\ limit \in Nat
  BY DEF Core
<1> HIDE DEF limit
<1>live. \A v : Live(T.pods, v) => v # u /\ v \in DOMAIN S.pods /\ Live(S.pods, v) /\ T.pods[v] = S.pods[v]
  BY <1>p DEF Live
<1>n. /\ DOMAIN T.byNode \subseteq DOMAIN S.byNode /\ T.byNode \in [DOMAIN T.byNode -> SUBSET Uids]
      /\ \A m \in DOMAIN S.byNode : m # S.pods[u].node => m \in DOMAIN T.byNode /\ T.byNode[m] = S.byNode[m]
      /\ S.pods[u].node \in DOMAIN T.byNode => /\ T.byNode[S.pods[u].node] = S.byNode[S.pods[u].node] \ {u}
                                               /\ T.byNode[S.pods[u].node] # {}
      /\ S.pods[u].node \in DOMAIN S.byNode /\ S.pods[u].node \notin DOMAIN T.byNode => S.byNode[S.pods[u].node] = {u}
  <2>1. T.byNode = RemovedFromNode(S.byNode, S.pods[u].node, u)
    BY DEF Deleted
  <2>2. S.byNode \in [DOMAIN S.byNode -> SUBSET Uids] /\ \A m \in DOMAIN S.byNode : S.byNode[m] # {}
    BY <1>s DEF Shaped, NodesOK
  <2> QED BY <2>1, <2>2, RemovedIs
<1>1. Shaped(T, limit)
  <2>1. DOMAIN T.pods \subseteq Uids /\ DOMAIN T.byNode \subseteq Nodes
    BY <1>p, <1>n, <1>s DEF Shaped
  <2>2. \A v \in DOMAIN T.pods : T.pods[v].ids \subseteq IdsOf(v) /\ T.pods[v].expireAt <= limit
    BY <1>p, <1>s DEF Shaped
  <2>3. \A id \in DOMAIN T.byContainer : T.byContainer[id].expireAt <= limit
    BY <1>c, <1>s DEF Shaped
  <2>4. /\ T.byPodName \in [Names -> Uids \cup {NoUid}]
        /\ \A n \in Names : T.byPodName[n] # NoUid => T.byPodName[n] \in DOMAIN T.pods
    <3>1. CASE TTL # 0
      BY <3>1, <1>p, <1>s DEF Shaped, Deleted
    <3>2. CASE TTL = 0
      <4>1. T.byPodName = [n \in Names |-> IF S.byPodName[n] = u THEN NoUid ELSE S.byPodName[n]]
        BY <3>2 DEF Deleted
      <4> QED BY <4>1, <1>p, <1>s DEF Shaped
    <3> QED BY <3>1, <3>2
  <2> QED BY <1>p, <1>c, <1>n, <2>1, <2>2, <2>3, <2>4 DEF Shaped
<1>2. NodesOK(T)
  <2>1. \A n \in DOMAIN T.byNode : n \in DOMAIN S.byNode /\ u \notin T.byNode[n] /\ T.byNode[n] \subseteq S.byNode[n] /\ T.byNode[n] # {}
    BY <1>n, <1>s DEF NodesOK
  <2>2. \A n \in DOMAIN T.byNode : \A v \in T.byNode[n] : Live(T.pods, v) /\ T.pods[v].node = n
    BY <2>1, <1>p, <1>s DEF NodesOK, Live
  <2>3. ASSUME NEW v \in DOMAIN T.pods, Live(T.pods, v), T.pods[v].node # NoNode
        PROVE  T.pods[v].node \in DOMAIN T.byNode /\ v \in T.byNode[T.pods[v].node]
    <3>1. v # u /\ Live(S.pods, v) /\ T.pods[v] = S.pods[v] /\ v \in DOMAIN S.pods
      BY <2>3, <1>live
    <3>2. S.pods[v].node \in DOMAIN S.byNode /\ v \in S.byNode[S.pods[v].node]
      BY <2>3, <3>1, <1>s DEF NodesOK
    <3> QED BY <3>1, <3>2, <1>n
  <2> QED BY <2>1, <2>2, <2>3 DEF NodesOK
<1>3. NamesOK(T, w)
  <2> SUFFICES ASSUME NEW v \in DOMAIN T.pods, Live(T.pods, v), v # w PROVE T.byPodName[NameOf[v]] = v
    BY DEF NamesOK
  <2>1. S.byPodName[NameOf[v]] = v /\ v # u /\ v \in Uids
    BY <1>live, <1>s DEF NamesOK, Shaped
  <2>2. NameOf[v] \in Names
    BY <2>1 DEF Names
  <2>3. CASE TTL # 0
    BY <2>1, <2>3 DEF Deleted
  <2>4. CASE TTL = 0
    BY <2>1, <2>2, <2>4 DEF Deleted
  <2> QED BY <2>3, <2>4
<1>4. ContainersOK(T)
  <2> SUFFICES ASSUME NEW v \in DOMAIN T.pods, NEW id \in T.pods[v].ids
               PROVE  /\ Live(T.pods, v) => id \in DOMAIN T.byContainer /\ T.byContainer[id] = [uid |-> v, expireAt |-> 0]
                      /\ (~Live(T.pods, v) /\ id \in DOMAIN T.byContainer /\ T.byContainer[id].uid = v) =>
                           T.byContainer[id].expireAt # 0 /\ T.byContainer[id].expireAt <= T.pods[v].expireAt
    BY DEF ContainersOK
  <2>0. T.pods[v].ids = S.pods[v].ids /\ v \in DOMAIN S.pods
    BY <1>p
  <2>1. CASE Live(T.pods, v)
    <3>1. v # u /\ Live(S.pods, v)
      BY <2>1, <1>live
    <3>2. id \in DOMAIN S.byContainer /\ S.byContainer[id] = [uid |-> v, expireAt |-> 0]
      BY <3>1, <2>0, <1>s DEF ContainersOK
    <3> QED BY <2>1, <3>1, <3>2, <1>c
  <2>2. CASE v = u
    BY <2>0, <2>2, <1>p, <1>c, <1>1 DEF Shaped
  <2>3. CASE v # u /\ ~Live(T.pods, v)
    <3>1. T.pods[v] = S.pods[v] /\ ~Live(S.pods, v)
      BY <2>0, <2>3, <1>p DEF Live
    <3>2. id \in DOMAIN T.byContainer /\ T.byContainer[id].uid = v =>
            id \in DOMAIN S.byContainer /\ S.byContainer[id].uid = v /\ T.byContainer[id] = S.byContainer[id]
      BY <2>3, <1>c
    <3> QED BY <2>0, <2>3, <3>1, <3>2, <1>s DEF ContainersOK
  <2> QED BY <2>1, <2>2, <2>3
<1> QED BY <1>1, <1>2, <1>3, <1>4 DEF Core, limit

\* The tokens: the deleted pod's node has a new one, and no other node's pods change.
LEMMA DeletedMoves ==
  ASSUME NEW S0, NEW S, NEW w, NEW W, now \in Nat \ {0}, Core(S, w, now + TTL), Moves(S0, S, W),
         NEW u \in DOMAIN S.pods, NEW fav, NEW T, T = Deleted(S, u, fav)
  PROVE  Moves(S0, T, W)
<1> PICK m : m = S.pods[u].node
  OBVIOUS
<1> PICK g \in Nat : g = S.gen + 1
  BY DEF Moves
<1> PICK byn : byn = RemovedFromNode(S.byNode, m, u)
  OBVIOUS
<1>1. /\ T.byNode = byn /\ T.gen = g
      /\ T.nodeGen = [n \in (DOMAIN S.nodeGen \cup ({m} \ {NoNode})) \cap DOMAIN byn |->
                        IF n \in {m} \ {NoNode} THEN g ELSE S.nodeGen[n]]
  BY DEF Deleted, Bumped
<1>2. /\ DOMAIN byn \subseteq DOMAIN S.byNode /\ DOMAIN byn \subseteq Nodes
      /\ \A n \in DOMAIN S.byNode : n # m => n \in DOMAIN byn /\ byn[n] = S.byNode[n]
  <2>1. S.byNode \in [DOMAIN S.byNode -> SUBSET Uids] /\ \A n \in DOMAIN S.byNode : S.byNode[n] # {}
    BY DEF Core, Shaped, NodesOK
  <2>2. DOMAIN S.byNode \subseteq Nodes
    BY DEF Core, Shaped
  <2> QED BY <2>1, <2>2, RemovedIs
<1>3. \A n \in Nodes : n # m => View(T, n) = View(S, n)
  <2> SUFFICES ASSUME NEW n \in Nodes, n # m PROVE View(T, n) = View(S, n)
    OBVIOUS
  <2>1. CASE n \in DOMAIN S.byNode
    <3>1. n \in DOMAIN T.byNode /\ T.byNode[n] = S.byNode[n]
      BY <2>1, <1>1, <1>2
    <3>2. \A v \in S.byNode[n] : v \in DOMAIN S.pods /\ v # u
      BY <2>1 DEF Core, NodesOK, Live
    <3>3. \A v \in S.byNode[n] : T.pods[v] = S.pods[v]
      BY <3>2, DeletedPods
    <3> QED BY <2>1, <3>1, <3>3 DEF View
  <2>2. CASE n \notin DOMAIN S.byNode
    BY <2>2, <1>1, <1>2 DEF View
  <2> QED BY <2>1, <2>2
<1>4. NoNode \notin Nodes
  BY DEF Nodes
<1>5. /\ DOMAIN T.nodeGen \subseteq Nodes /\ T.nodeGen \in [DOMAIN T.nodeGen -> Nat]
      /\ \A n \in DOMAIN T.nodeGen : T.nodeGen[n] <= T.gen
  BY <1>1, <1>2 DEF Moves
<1>6. ASSUME NEW n \in Nodes \ W
      PROVE  /\ n \in DOMAIN T.byNode <=> n \in DOMAIN T.nodeGen
             /\ \/ Token(T, n) > S0.gen
                \/ Token(T, n) = Token(S0, n) /\ View(T, n) = View(S0, n)
  <2>0. g > S0.gen /\ (n \in DOMAIN S.byNode <=> n \in DOMAIN S.nodeGen)
    BY DEF Moves
  <2>1. CASE n \notin DOMAIN T.byNode
    BY <2>0, <2>1, <1>1 DEF Token
  <2>2. CASE n \in DOMAIN T.byNode /\ n = m
    BY <2>0, <2>2, <1>1, <1>4 DEF Token
  <2>3. CASE n \in DOMAIN T.byNode /\ n # m
    <3>1. n \in DOMAIN S.nodeGen /\ n \in DOMAIN T.nodeGen /\ T.nodeGen[n] = S.nodeGen[n]
      BY <2>0, <2>3, <1>1, <1>2
    <3>2. Token(T, n) = Token(S, n) /\ View(T, n) = View(S, n)
      BY <2>3, <3>1, <1>3 DEF Token
    <3> QED BY <2>3, <3>1, <3>2 DEF Moves
  <2> QED BY <2>1, <2>2, <2>3
<1> QED BY <1>1, <1>5, <1>6 DEF Moves
-----------------------------------------------------------------------------
(* UpsertPod.                                                               *)

OldOf(u) == IF u \in DOMAIN pods THEN Content(pods[u])
            ELSE [node |-> NoNode, ips |-> <<>>, done |-> FALSE, terminating |-> FALSE, ids |-> {}]

\* The record an object gives, as UpsertPod stores it.
LEMMA ReportedRecord ==
  ASSUME NEW u \in Uids, NEW o \in Objects[u]
  PROVE  /\ [node |-> o.node, ips |-> o.ips, done |-> o.done, terminating |-> o.terminating,
             ids |-> o.ids, expireAt |-> 0] \in PodRecords
         /\ o.ids \subseteq IdsOf(u) /\ (o.node \in Nodes \/ o.node = NoNode)
<1>1. o \in Reported /\ o.ids \subseteq IdsOf(u) /\ IdsOf(u) \subseteq Ids
  BY DEF Reported, IdsOf, Ids
<1>2. o.node \in Nodes \cup {NoNode} /\ o.done \in BOOLEAN /\ o.terminating \in BOOLEAN
  BY <1>1, StoreAssumption DEF Nodes
<1> QED BY <1>1, <1>2 DEF PodRecords

LEMMA IndexedEntries ==
  ASSUME StoreInv, NEW u \in Uids, NEW o \in Objects[u], NEW ids, NEW m, NEW T, T = Indexed(u, o, ids, m)
  PROVE  /\ T.byContainer \in [DOMAIN T.byContainer -> Entries]
         /\ DOMAIN T.byContainer \subseteq DOMAIN byContainer \cup o.ids
         /\ TTL # 0 => DOMAIN byContainer \subseteq DOMAIN T.byContainer
         /\ \A id \in o.ids : id \in DOMAIN T.byContainer /\ T.byContainer[id] = [uid |-> u, expireAt |-> 0]
         /\ \A id \in DOMAIN byContainer \ o.ids : byContainer[id].uid # u =>
               id \in DOMAIN T.byContainer /\ T.byContainer[id] = byContainer[id]
         /\ \A id \in DOMAIN T.byContainer \ o.ids :
               /\ T.byContainer[id].uid = byContainer[id].uid
               /\ T.byContainer[id] = byContainer[id] \/ T.byContainer[id].expireAt = now + TTL
<1> USE StoreAssumption
<1> PICK e : e = [id \in DOMAIN byContainer \cup o.ids |->
                    IF id \in o.ids THEN [uid |-> u, expireAt |-> 0] ELSE byContainer[id]]
  OBVIOUS
<1> PICK gone : gone = Unstamped(e, u, ids \ o.ids)
  OBVIOUS
<1>0. byContainer \in [DOMAIN byContainer -> Entries] /\ now \in Nat
  BY DEF StoreInv, Core, Shaped, State
<1>1. /\ e \in [DOMAIN byContainer \cup o.ids -> Entries] /\ DOMAIN e = DOMAIN byContainer \cup o.ids
      /\ \A id \in o.ids : e[id] = [uid |-> u, expireAt |-> 0]
      /\ \A id \in DOMAIN byContainer \ o.ids : e[id] = byContainer[id]
  BY <1>0 DEF Entries
<1>2. T.byContainer = ExpireEntries(e, gone)
  BY DEF Indexed
<1>3. gone \cap o.ids = {} /\ \A id \in gone : e[id].uid = u
  BY DEF Unstamped
<1>4. CASE TTL # 0
  <2>1. /\ DOMAIN T.byContainer = DOMAIN e /\ T.byContainer \in [DOMAIN e -> Entries]
        /\ \A id \in DOMAIN e : /\ T.byContainer[id].uid = e[id].uid
                                /\ id \in gone => T.byContainer[id].expireAt = now + TTL
                                /\ id \notin gone => T.byContainer[id] = e[id]
    BY <1>0, <1>1, <1>2, <1>4, ExpireIs
  <2> QED BY <1>1, <1>3, <1>4, <2>1
<1>5. CASE TTL = 0
  <2>1. T.byContainer = [id \in DOMAIN e \ gone |-> e[id]]
    BY <1>2, <1>5 DEF ExpireEntries, Without
  <2> QED BY <1>1, <1>3, <1>5, <2>1
<1> QED BY <1>4, <1>5

LEMMA IndexedNodes ==
  ASSUME StoreInv, NEW u \in Uids, NEW o \in Objects[u], NEW ids, NEW m, NEW T, T = Indexed(u, o, ids, m)
  PROVE  /\ DOMAIN T.byNode \subseteq Nodes /\ T.byNode \in [DOMAIN T.byNode -> SUBSET Uids]
         /\ \A n \in Nodes \ {m, o.node} :
               /\ n \in DOMAIN byNode <=> n \in DOMAIN T.byNode
               /\ n \in DOMAIN byNode => T.byNode[n] = byNode[n]
         /\ o.node # NoNode => /\ o.node \in DOMAIN T.byNode
                               /\ T.byNode[o.node] = {u} \cup (IF o.node \in DOMAIN byNode THEN byNode[o.node] ELSE {})
         /\ m # o.node /\ m \in DOMAIN T.byNode =>
               m \in DOMAIN byNode /\ T.byNode[m] = byNode[m] \ {u} /\ T.byNode[m] # {}
         /\ m # o.node /\ m \in DOMAIN byNode /\ m \notin DOMAIN T.byNode => byNode[m] = {u}
<1>0. /\ byNode \in [DOMAIN byNode -> SUBSET Uids] /\ DOMAIN byNode \subseteq Nodes
      /\ \A n \in DOMAIN byNode : byNode[n] # {}
  BY DEF StoreInv, Core, Shaped, NodesOK, State
<1>1. NoNode \notin Nodes /\ (o.node # NoNode => o.node \in Nodes)
  BY ReportedRecord DEF Nodes
<1> PICK left : left = IF m # o.node THEN RemovedFromNode(byNode, m, u) ELSE byNode
  OBVIOUS
<1>2. T.byNode = IF o.node = NoNode THEN left
                 ELSE With(left, o.node, {u} \cup (IF o.node \in DOMAIN left THEN left[o.node] ELSE {}))
  BY DEF Indexed
<1>3. /\ DOMAIN left \subseteq DOMAIN byNode /\ left \in [DOMAIN left -> SUBSET Uids]
      /\ \A n \in DOMAIN byNode : n # m \/ m = o.node => n \in DOMAIN left /\ left[n] = byNode[n]
      /\ m # o.node /\ m \in DOMAIN left => left[m] = byNode[m] \ {u} /\ left[m] # {}
      /\ m # o.node /\ m \in DOMAIN byNode /\ m \notin DOMAIN left => byNode[m] = {u}
  <2>1. CASE m # o.node
    <3>1. left = RemovedFromNode(byNode, m, u)
      BY <2>1
    <3> QED BY <2>1, <3>1, <1>0, RemovedIs
  <2>2. CASE m = o.node
    BY <2>2, <1>0
  <2> QED BY <2>1, <2>2
<1>4. CASE o.node = NoNode
  BY <1>0, <1>1, <1>2, <1>3, <1>4
<1>5. CASE o.node # NoNode
  <2> PICK x : x = {u} \cup (IF o.node \in DOMAIN left THEN left[o.node] ELSE {})
    OBVIOUS
  <2>1. x = {u} \cup (IF o.node \in DOMAIN byNode THEN byNode[o.node] ELSE {}) /\ x \in SUBSET Uids
    BY <1>0, <1>3
  <2>2. T.byNode = [n \in DOMAIN left \cup {o.node} |-> IF n = o.node THEN x ELSE left[n]]
    BY <1>2, <1>5 DEF With
  <2>3. /\ DOMAIN T.byNode = DOMAIN left \cup {o.node} /\ T.byNode[o.node] = x
        /\ \A n \in DOMAIN left : n # o.node => T.byNode[n] = left[n]
    BY <2>2
  <2>4. T.byNode \in [DOMAIN T.byNode -> SUBSET Uids]
    BY <2>1, <2>2, <1>3
  <2> QED BY <1>0, <1>1, <1>3, <1>5, <2>1, <2>3, <2>4
<1> QED BY <1>4, <1>5

LEMMA IndexedKeeps ==
  ASSUME StoreInv, NEW u \in Uids, NEW o \in Objects[u], NEW T, T = Indexed(u, o, OldOf(u).ids, OldOf(u).node)
  PROVE  Core(T, u, now + TTL) /\ u \in DOMAIN T.pods
<1> USE StoreAssumption
<1> PICK limit \in Nat : limit = now + TTL
  BY DEF StoreInv
<1> PICK m : m = OldOf(u).node
  OBVIOUS
<1> PICK r : r = [node |-> o.node, ips |-> o.ips, done |-> o.done, terminating |-> o.terminating,
                  ids |-> o.ids, expireAt |-> 0]
  OBVIOUS
<1>r. r \in PodRecords /\ r.ids = o.ids /\ r.expireAt = 0 /\ r.node = o.node /\ o.ids \subseteq IdsOf(u)
  BY ReportedRecord
<1>s. /\ DOMAIN pods \subseteq Uids /\ pods \in [DOMAIN pods -> PodRecords]
      /\ \A v \in DOMAIN pods : pods[v].ids \subseteq IdsOf(v) /\ pods[v].expireAt <= limit
      /\ byContainer \in [DOMAIN byContainer -> Entries]
      /\ \A id \in DOMAIN byContainer : byContainer[id].expireAt <= limit
      /\ byPodName \in [Names -> Uids \cup {NoUid}]
      /\ \A n \in Names : byPodName[n] # NoUid => byPodName[n] \in DOMAIN pods
  BY DEF StoreInv, Core, Shaped, State
<1>o. /\ NodesOK(State) /\ NamesOK(State, NoUid) /\ ContainersOK(State)
      /\ State.pods = pods /\ State.byNode = byNode /\ State.byPodName = byPodName /\ State.byContainer = byContainer
  BY DEF StoreInv, Core, State
<1>p. T.pods = With(pods, u, r) /\ T.byPodName = byPodName
  BY DEF Indexed
<1>1. /\ DOMAIN T.pods = DOMAIN pods \cup {u} /\ T.pods[u] = r
      /\ \A v \in DOMAIN pods : v # u => T.pods[v] = pods[v]
      /\ T.pods \in [DOMAIN T.pods -> PodRecords]
  BY <1>p, <1>r, <1>s DEF With
<1>c. /\ T.byContainer \in [DOMAIN T.byContainer -> Entries]
      /\ DOMAIN T.byContainer \subseteq DOMAIN byContainer \cup o.ids
      /\ \A id \in o.ids : id \in DOMAIN T.byContainer /\ T.byContainer[id] = [uid |-> u, expireAt |-> 0]
      /\ \A id \in DOMAIN byContainer \ o.ids : byContainer[id].uid # u =>
            id \in DOMAIN T.byContainer /\ T.byContainer[id] = byContainer[id]
      /\ \A id \in DOMAIN T.byContainer \ o.ids :
            /\ T.byContainer[id].uid = byContainer[id].uid
            /\ T.byContainer[id] = byContainer[id] \/ T.byContainer[id].expireAt = limit
  BY IndexedEntries
<1>n. /\ DOMAIN T.byNode \subseteq Nodes /\ T.byNode \in [DOMAIN T.byNode -> SUBSET Uids]
      /\ \A n \in Nodes \ {m, o.node} :
            /\ n \in DOMAIN byNode <=> n \in DOMAIN T.byNode
            /\ n \in DOMAIN byNode => T.byNode[n] = byNode[n]
      /\ o.node # NoNode => /\ o.node \in DOMAIN T.byNode
                            /\ T.byNode[o.node] = {u} \cup (IF o.node \in DOMAIN byNode THEN byNode[o.node] ELSE {})
      /\ m # o.node /\ m \in DOMAIN T.byNode =>
            m \in DOMAIN byNode /\ T.byNode[m] = byNode[m] \ {u} /\ T.byNode[m] # {}
      /\ m # o.node /\ m \in DOMAIN byNode /\ m \notin DOMAIN T.byNode => byNode[m] = {u}
  BY IndexedNodes
<1>old. \A n \in DOMAIN byNode : u \in byNode[n] => n = m
  <2>1. \A n \in DOMAIN byNode : u \in byNode[n] => u \in DOMAIN pods /\ pods[u].node = n
    BY <1>o DEF NodesOK, Live
  <2>2. u \in DOMAIN pods => m = pods[u].node
    BY DEF OldOf, Content
  <2> QED BY <2>1, <2>2
<1>2. Shaped(T, limit)
  <2>1. \A v \in DOMAIN T.pods : T.pods[v].ids \subseteq IdsOf(v) /\ T.pods[v].expireAt <= limit
    BY <1>1, <1>r, <1>s
  <2>2. \A id \in DOMAIN T.byContainer : T.byContainer[id].expireAt <= limit
    <3> SUFFICES ASSUME NEW id \in DOMAIN T.byContainer PROVE T.byContainer[id].expireAt <= limit
      OBVIOUS
    <3>1. CASE id \in o.ids
      BY <3>1, <1>c
    <3>2. CASE id \notin o.ids
      BY <3>2, <1>c, <1>s
    <3> QED BY <3>1, <3>2
  <2> QED BY <1>1, <1>c, <1>n, <1>p, <1>s, <2>1, <2>2 DEF Shaped
<1>live. /\ Live(T.pods, u)
         /\ \A v : v # u => (Live(T.pods, v) <=> Live(pods, v))
  BY <1>1, <1>r DEF Live
<1>3. NodesOK(T)
  <2>1. ASSUME NEW n \in DOMAIN T.byNode
        PROVE  T.byNode[n] # {} /\ \A v \in T.byNode[n] : Live(T.pods, v) /\ T.pods[v].node = n
    <3>0. n \in DOMAIN byNode => \A v \in byNode[n] : v # u =>
             Live(T.pods, v) /\ T.pods[v].node = n
      BY <1>o, <1>1, <1>live DEF NodesOK, Live
    <3>1. CASE n = o.node
      BY <3>0, <3>1, <1>n, <1>1, <1>r, <1>live, <2>1 DEF Nodes
    <3>2. CASE n = m /\ n # o.node
      BY <3>0, <3>2, <1>n
    <3>3. CASE n # m /\ n # o.node
      <4>1. n \in DOMAIN byNode /\ T.byNode[n] = byNode[n] /\ u \notin byNode[n]
        BY <3>3, <1>n, <1>old
      <4> QED BY <4>1, <3>0, <1>o DEF NodesOK
    <3> QED BY <3>1, <3>2, <3>3
  <2>2. ASSUME NEW v \in DOMAIN T.pods, Live(T.pods, v), T.pods[v].node # NoNode
        PROVE  T.pods[v].node \in DOMAIN T.byNode /\ v \in T.byNode[T.pods[v].node]
    <3>1. CASE v = u
      BY <3>1, <2>2, <1>1, <1>r, <1>n
    <3>2. CASE v # u
      <4>1. v \in DOMAIN pods /\ Live(pods, v) /\ T.pods[v] = pods[v]
        BY <3>2, <2>2, <1>1, <1>live
      <4>2. pods[v].node \in DOMAIN byNode /\ v \in byNode[pods[v].node] /\ DOMAIN byNode \subseteq Nodes
        BY <4>1, <2>2, <1>o DEF NodesOK, StoreInv, Core, Shaped
      <4> PICK a \in Nodes : a = pods[v].node
        BY <4>2
      <4>3. CASE a = o.node
        BY <4>1, <4>2, <4>3, <2>2, <1>n
      <4>4. CASE a # o.node /\ a = m
        <5>1. a \in DOMAIN T.byNode
          BY <3>2, <4>2, <4>4, <1>n
        <5> QED BY <3>2, <4>1, <4>2, <4>4, <5>1, <1>n
      <4>5. CASE a # o.node /\ a # m
        BY <4>1, <4>2, <4>5, <1>n
      <4> QED BY <4>3, <4>4, <4>5
    <3> QED BY <3>1, <3>2
  <2> QED BY <2>1, <2>2 DEF NodesOK
<1>4. NamesOK(T, u)
  <2> SUFFICES ASSUME NEW v \in DOMAIN T.pods, Live(T.pods, v), v # u PROVE T.byPodName[NameOf[v]] = v
    BY DEF NamesOK
  <2> QED BY <1>1, <1>live, <1>o, <1>p, <1>s DEF NamesOK
<1>5. ContainersOK(T)
  <2> SUFFICES ASSUME NEW v \in DOMAIN T.pods, NEW id \in T.pods[v].ids
               PROVE  /\ Live(T.pods, v) => id \in DOMAIN T.byContainer /\ T.byContainer[id] = [uid |-> v, expireAt |-> 0]
                      /\ (~Live(T.pods, v) /\ id \in DOMAIN T.byContainer /\ T.byContainer[id].uid = v) =>
                           T.byContainer[id].expireAt # 0 /\ T.byContainer[id].expireAt <= T.pods[v].expireAt
    BY DEF ContainersOK
  <2>1. CASE v = u
    BY <2>1, <1>1, <1>r, <1>c, <1>live
  <2>2. CASE v # u
    <3>0. v \in DOMAIN pods /\ T.pods[v] = pods[v] /\ v \in Uids
      BY <2>2, <1>1, <1>s
    <3>1. id \notin o.ids
      BY <3>0, <2>2, <1>r, <1>s
    <3>2. CASE Live(pods, v)
      <4>1. id \in DOMAIN byContainer /\ byContainer[id] = [uid |-> v, expireAt |-> 0]
        BY <3>0, <3>2, <1>o DEF ContainersOK
      <4>2. byContainer[id].uid # u
        BY <4>1, <2>2
      <4> QED BY <2>2, <3>1, <3>2, <4>1, <4>2, <1>c, <1>live
    <3>3. CASE ~Live(pods, v)
      <4>1. id \in DOMAIN T.byContainer /\ T.byContainer[id].uid = v =>
              id \in DOMAIN byContainer /\ byContainer[id].uid = v /\ T.byContainer[id] = byContainer[id]
        BY <2>2, <3>1, <1>c
      <4> QED BY <2>2, <3>0, <3>3, <4>1, <1>o, <1>live DEF ContainersOK
    <3> QED BY <3>2, <3>3
  <2> QED BY <2>1, <2>2
<1> QED BY <1>1, <1>2, <1>3, <1>4, <1>5 DEF Core

\* Before the tokens are minted only the nodes the pod left and joined changed.
LEMMA IndexedMoves ==
  ASSUME StoreInv, NEW u \in Uids, NEW o \in Objects[u], NEW T, T = Indexed(u, o, OldOf(u).ids, OldOf(u).node)
  PROVE  Moves(State, T, {OldOf(u).node, o.node} \ {NoNode})
<1> PICK m : m = OldOf(u).node
  OBVIOUS
<1>0. /\ Moves(State, State, {}) /\ NodesOK(State) /\ State.pods = pods /\ State.byNode = byNode
      /\ State.gen = gen /\ State.nodeGen = nodeGen
  BY DEF StoreInv, Core, State
<1>1. T.gen = gen /\ T.nodeGen = nodeGen
  BY DEF Indexed
<1>2. /\ DOMAIN T.byNode \subseteq Nodes /\ T.byNode \in [DOMAIN T.byNode -> SUBSET Uids]
      /\ \A n \in Nodes \ {m, o.node} :
            /\ n \in DOMAIN byNode <=> n \in DOMAIN T.byNode
            /\ n \in DOMAIN byNode => T.byNode[n] = byNode[n]
  BY IndexedNodes
<1>3. \A n \in Nodes \ {m, o.node} : View(T, n) = View(State, n)
  <2> SUFFICES ASSUME NEW n \in Nodes \ {m, o.node} PROVE View(T, n) = View(State, n)
    OBVIOUS
  <2>1. CASE n \notin DOMAIN byNode
    <3>1. n \notin DOMAIN T.byNode /\ n \notin DOMAIN State.byNode
      BY <2>1, <1>0, <1>2
    <3> QED BY <3>1 DEF View
  <2>2. CASE n \in DOMAIN byNode
    <3>1. \A v \in byNode[n] : v \in DOMAIN pods /\ pods[v].node = n
      BY <2>2, <1>0 DEF NodesOK, Live
    <3>2. u \in byNode[n] => n = m
      BY <3>1 DEF OldOf, Content
    <3>3. \A v \in byNode[n] : T.pods[v] = pods[v]
      <4>1. T.pods = With(pods, u, [node |-> o.node, ips |-> o.ips, done |-> o.done, terminating |-> o.terminating,
                                    ids |-> o.ids, expireAt |-> 0])
        BY DEF Indexed
      <4>2. \A v \in DOMAIN pods : v # u => T.pods[v] = pods[v]
        BY <4>1 DEF With
      <4> QED BY <3>1, <3>2, <4>2
    <3>4. n \in DOMAIN T.byNode /\ n \in DOMAIN State.byNode /\ T.byNode[n] = byNode[n] /\ State.byNode[n] = byNode[n]
      BY <2>2, <1>0, <1>2
    <3>5. \A v \in byNode[n] : T.pods[v] = State.pods[v]
      BY <3>3, <1>0
    <3> QED BY <3>4, <3>5 DEF View
  <2> QED BY <2>1, <2>2
<1>4. NoNode \notin Nodes
  BY DEF Nodes
<1>5. \A n \in Nodes : Token(T, n) = Token(State, n)
  BY <1>0, <1>1 DEF Token
<1>6. \A n \in Nodes \ ({m, o.node} \ {NoNode}) :
         /\ n \in DOMAIN T.byNode <=> n \in DOMAIN T.nodeGen
         /\ Token(T, n) = Token(State, n) /\ View(T, n) = View(State, n)
  <2> SUFFICES ASSUME NEW n \in Nodes \ ({m, o.node} \ {NoNode})
               PROVE  /\ n \in DOMAIN T.byNode <=> n \in DOMAIN T.nodeGen
                      /\ Token(T, n) = Token(State, n) /\ View(T, n) = View(State, n)
    OBVIOUS
  <2>1. n \in Nodes \ {m, o.node}
    BY <1>4
  <2>2. n \in DOMAIN byNode <=> n \in DOMAIN nodeGen
    BY <1>0 DEF Moves
  <2> QED BY <2>1, <2>2, <1>1, <1>2, <1>3, <1>5
<1> QED BY <1>0, <1>1, <1>6 DEF Moves

LEMMA BumpedMoves ==
  ASSUME NEW S0, NEW S, NEW W, Moves(S0, S, W), DOMAIN S.byNode \subseteq Nodes, NEW T,
         T.pods = S.pods, T.byNode = S.byNode, T.gen = S.gen + 1,
         T.nodeGen = Bumped(S.nodeGen, S.byNode, S.gen + 1, W)
  PROVE  Moves(S0, T, {})
<1> PICK g \in Nat : g = S.gen + 1
  BY DEF Moves
<1>0. g > S0.gen
  BY DEF Moves
<1>1. T.nodeGen = [n \in (DOMAIN S.nodeGen \cup W) \cap DOMAIN S.byNode |-> IF n \in W THEN g ELSE S.nodeGen[n]]
  BY DEF Bumped
<1>2. /\ DOMAIN T.nodeGen \subseteq Nodes /\ T.nodeGen \in [DOMAIN T.nodeGen -> Nat]
      /\ \A n \in DOMAIN T.nodeGen : T.nodeGen[n] <= T.gen
  BY <1>1 DEF Moves
<1>3. ASSUME NEW n \in Nodes
      PROVE  /\ n \in DOMAIN T.byNode <=> n \in DOMAIN T.nodeGen
             /\ \/ Token(T, n) > S0.gen
                \/ Token(T, n) = Token(S0, n) /\ View(T, n) = View(S0, n)
  <2>1. CASE n \notin DOMAIN T.byNode
    BY <2>1, <1>0, <1>1 DEF Token
  <2>2. CASE n \in DOMAIN T.byNode /\ n \in W
    BY <2>2, <1>0, <1>1 DEF Token
  <2>3. CASE n \in DOMAIN T.byNode /\ n \notin W
    <3>1. n \in DOMAIN S.nodeGen
      BY <2>3 DEF Moves
    <3>2. n \in DOMAIN T.nodeGen /\ T.nodeGen[n] = S.nodeGen[n]
      BY <2>3, <3>1, <1>1
    <3>3. Token(T, n) = Token(S, n) /\ View(T, n) = View(S, n)
      BY <3>1, <3>2 DEF Token, View
    <3> QED BY <2>3, <3>2, <3>3 DEF Moves
  <2> QED BY <2>1, <2>2, <2>3
<1> QED BY <1>0, <1>2, <1>3 DEF Moves

\* A store step whose result holds together leaves the readers' memo current.
LEMMA Resumes ==
  ASSUME StoreInv, NEW T, Core(T, NoUid, now + TTL), Moves(State, T, {}),
         pods' = T.pods, byContainer' = T.byContainer, byNode' = T.byNode, byPodName' = T.byPodName,
         gen' = T.gen, nodeGen' = T.nodeGen, UNCHANGED <<now, memo, reading>>
  PROVE  StoreInv'
<1>1. Core(State, NoUid, now + TTL)'
  BY DEF Core, Shaped, NodesOK, NamesOK, ContainersOK, State
<1>2. Moves(State, State, {})'
  BY DEF Moves, State
<1>3. gen \in Nat /\ gen' \in Nat /\ gen' >= gen /\ State.gen = gen
  BY DEF Moves, State
<1>4. ReadersInv'
  BY <1>3 DEF StoreInv, ReadersInv
<1>5. MemoCurrent'
  <2> SUFFICES ASSUME NEW n \in MemoNodes, memo[n].token = NodeGeneration(n)' PROVE memo[n].data = PodsOnNode(n)'
    BY DEF MemoCurrent
  <2>1. NodeGeneration(n)' = Token(T, n) /\ PodsOnNode(n)' = View(T, n)
    BY DEF NodeGeneration, PodsOnNode, Token, View
  <2>2. NodeGeneration(n) = Token(State, n) /\ PodsOnNode(n) = View(State, n)
    BY DEF NodeGeneration, PodsOnNode, Token, View, State
  <2>3. n \in Nodes /\ memo[n].token \in Int /\ memo[n].token <= gen
    BY StoreAssumption DEF StoreInv, ReadersInv
  <2>4. ~(Token(T, n) > State.gen)
    BY <2>1, <2>3, <1>3
  <2>5. Token(T, n) = Token(State, n) /\ View(T, n) = View(State, n)
    BY <2>3, <2>4 DEF Moves
  <2>6. memo[n].token = NodeGeneration(n)
    BY <2>1, <2>2, <2>5
  <2> QED BY <2>1, <2>2, <2>5, <2>6 DEF StoreInv, MemoCurrent
<1> QED BY <1>1, <1>2, <1>4, <1>5 DEF StoreInv

LEMMA DeletePodKeeps == ASSUME StoreInv, NEW u \in Uids, NEW fav, DeletePod(u, fav) PROVE StoreInv'
<1> PICK T : T = Deleted(State, u, fav)
  OBVIOUS
<1>1. u \in DOMAIN State.pods
  BY DEF DeletePod, State
<1>2. Core(T, NoUid, now + TTL) /\ Moves(State, T, {})
  BY <1>1, DeletedKeeps, DeletedMoves DEF StoreInv
<1> QED BY <1>2, Resumes DEF DeletePod, Becomes

LEMMA ContainersFrame ==
  ASSUME NEW S, NEW T, ContainersOK(S), T.pods = S.pods, T.byContainer = S.byContainer PROVE ContainersOK(T)
  BY DEF ContainersOK

LEMMA UpsertKeeps ==
  ASSUME StoreInv, NEW u \in Uids, NEW o \in Objects[u], NEW fav, UpsertPod(u, o, fav) PROVE StoreInv'
<1> USE StoreAssumption
<1> PICK S1 : S1 = Indexed(u, o, OldOf(u).ids, OldOf(u).node)
  OBVIOUS
<1> PICK W : W = {OldOf(u).node, o.node} \ {NoNode}
  OBVIOUS
<1> PICK prev : prev = S1.byPodName[NameOf[u]]
  OBVIOUS
<1>1. Core(S1, u, now + TTL) /\ u \in DOMAIN S1.pods /\ Moves(State, S1, W)
  BY IndexedKeeps, IndexedMoves
<1>2. now \in Nat \ {0} /\ NameOf[u] \in Names /\ u # NoUid
  BY DEF StoreInv, Names
<1> PICK S2 : S2 = Superseded(S1, u, fav)
  OBVIOUS
<1>3. /\ Core(S2, u, now + TTL) /\ Moves(State, S2, W) /\ u \in DOMAIN S2.pods
      /\ \A v \in DOMAIN S2.pods : Live(S2.pods, v) /\ v # u => NameOf[v] # NameOf[u]
  <2>1. CASE prev \notin {NoUid, u} /\ Live(S1.pods, prev)
    <3>1. S2 = Deleted(S1, prev, fav) /\ prev \in DOMAIN S1.pods /\ prev # u
      BY <2>1 DEF Superseded, Live
    <3>2. Core(S2, u, now + TTL) /\ Moves(State, S2, W)
      BY <3>1, <1>1, <1>2, DeletedKeeps, DeletedMoves
    <3>3. /\ DOMAIN S2.pods \subseteq DOMAIN S1.pods /\ S2.pods \in [DOMAIN S2.pods -> PodRecords]
          /\ \A v \in DOMAIN S1.pods : v # prev => v \in DOMAIN S2.pods /\ S2.pods[v] = S1.pods[v]
          /\ ~Live(S2.pods, prev)
      BY <3>1, <1>1, <1>2, DeletedPods
    <3>4. \A v \in DOMAIN S2.pods : Live(S2.pods, v) /\ v # u => NameOf[v] # NameOf[u]
      <4> SUFFICES ASSUME NEW v \in DOMAIN S2.pods, Live(S2.pods, v), v # u, NameOf[v] = NameOf[u] PROVE FALSE
        OBVIOUS
      <4>1. v # prev /\ v \in DOMAIN S1.pods /\ Live(S1.pods, v)
        BY <3>3 DEF Live
      <4>2. S1.byPodName[NameOf[v]] = v
        BY <4>1, <1>1 DEF Core, NamesOK
      <4> QED BY <4>1, <4>2
    <3> QED BY <3>1, <3>2, <3>3, <3>4, <1>1
  <2>2. CASE ~(prev \notin {NoUid, u} /\ Live(S1.pods, prev))
    <3>1. S2 = S1
      BY <2>2 DEF Superseded
    <3>2. \A v \in DOMAIN S1.pods : Live(S1.pods, v) /\ v # u => NameOf[v] # NameOf[u]
      <4> SUFFICES ASSUME NEW v \in DOMAIN S1.pods, Live(S1.pods, v), v # u, NameOf[v] = NameOf[u] PROVE FALSE
        OBVIOUS
      <4>1. S1.byPodName[NameOf[v]] = v /\ v # NoUid
        BY <1>1 DEF Core, NamesOK, Shaped
      <4> QED BY <4>1, <2>2
    <3> QED BY <3>1, <3>2, <1>1
  <2> QED BY <2>1, <2>2
<1>4. /\ pods' = S2.pods /\ byContainer' = S2.byContainer /\ byNode' = S2.byNode
      /\ byPodName' = [S2.byPodName EXCEPT ![NameOf[u]] = u]
      /\ gen' = S2.gen + 1 /\ nodeGen' = Bumped(S2.nodeGen, S2.byNode, S2.gen + 1, W)
      /\ UNCHANGED <<now, memo, reading>>
  BY DEF UpsertPod, Becomes, OldOf
<1> PICK T : T = [pods |-> pods', byContainer |-> byContainer', byNode |-> byNode', byPodName |-> byPodName',
                  gen |-> gen', nodeGen |-> nodeGen']
  OBVIOUS
<1>5. /\ T.pods = S2.pods /\ T.byContainer = S2.byContainer /\ T.byNode = S2.byNode
      /\ T.byPodName = [S2.byPodName EXCEPT ![NameOf[u]] = u]
      /\ T.gen = S2.gen + 1 /\ T.nodeGen = Bumped(S2.nodeGen, S2.byNode, S2.gen + 1, W)
      /\ pods' = T.pods /\ byContainer' = T.byContainer /\ byNode' = T.byNode /\ byPodName' = T.byPodName
      /\ gen' = T.gen /\ nodeGen' = T.nodeGen
  BY <1>4
<1>6. Moves(State, T, {})
  <2>1. DOMAIN S2.byNode \subseteq Nodes
    BY <1>3 DEF Core, Shaped
  <2> QED BY <2>1, <1>3, <1>5, BumpedMoves
<1>7. Core(T, NoUid, now + TTL)
  <2>0. /\ S2.byPodName \in [Names -> Uids \cup {NoUid}]
        /\ \A n \in Names : S2.byPodName[n] # NoUid => S2.byPodName[n] \in DOMAIN S2.pods
    BY <1>3 DEF Core, Shaped
  <2>1. /\ T.byPodName \in [Names -> Uids \cup {NoUid}] /\ T.byPodName[NameOf[u]] = u
        /\ \A n \in Names : n # NameOf[u] => T.byPodName[n] = S2.byPodName[n]
    BY <2>0, <1>2, <1>5
  <2>2. \A n \in Names : T.byPodName[n] # NoUid => T.byPodName[n] \in DOMAIN T.pods
    BY <2>0, <2>1, <1>3, <1>5
  <2>3. Shaped(T, now + TTL)
    BY <2>1, <2>2, <1>3, <1>5 DEF Core, Shaped
  <2>4. NodesOK(T) /\ ContainersOK(T)
    <3>1. NodesOK(T)
      BY <1>3, <1>5 DEF Core, NodesOK
    <3>2. ContainersOK(T)
      <4>1. ContainersOK(S2)
        BY <1>3 DEF Core
      <4>2. T.pods = S2.pods /\ T.byContainer = S2.byContainer
        BY <1>5
      <4> QED BY <4>1, <4>2, ContainersFrame
    <3> QED BY <3>1, <3>2
  <2>5. NamesOK(T, NoUid)
    <3> SUFFICES ASSUME NEW v \in DOMAIN T.pods, Live(T.pods, v) PROVE T.byPodName[NameOf[v]] = v
      BY DEF NamesOK
    <3>1. CASE v = u
      BY <3>1, <2>1
    <3>2. CASE v # u
      <4>1. NameOf[v] # NameOf[u] /\ S2.byPodName[NameOf[v]] = v /\ v \in Uids
        BY <3>2, <1>3, <1>5 DEF Core, NamesOK, Shaped
      <4> QED BY <4>1, <2>1 DEF Names
    <3> QED BY <3>1, <3>2
  <2> QED BY <2>3, <2>4, <2>5 DEF Core
<1> QED BY <1>4, <1>5, <1>6, <1>7, Resumes
-----------------------------------------------------------------------------
(* The sweep, the clock and the readers.                                    *)

\* The sweep removes tombstones whose time is over, and their containers with them.
LEMMA SweepRemoves ==
  ASSUME Sweep
  PROVE  \E goneP, goneC :
            /\ goneP \subseteq DOMAIN pods /\ \A u \in goneP : Expired(pods[u].expireAt)
            /\ goneC \subseteq DOMAIN byContainer
            /\ \A id \in goneC : Expired(byContainer[id].expireAt)
                                 \/ (byContainer[id].uid \in goneP /\ id \in pods[byContainer[id].uid].ids)
            /\ pods' = Without(pods, goneP) /\ byContainer' = Without(byContainer, goneC)
            /\ byPodName' = [n \in DOMAIN byPodName |-> IF byPodName[n] \in goneP THEN NoUid ELSE byPodName[n]]
<1> DEFINE due   == {k \in DOMAIN pending : \A j \in 1..k : Expired(pending[j].when)}
           keys(kind) == {pending[k].key : k \in {j \in due : pending[j].kind = kind}}
           goneP == {u \in keys("pod") \cap DOMAIN pods : Expired(pods[u].expireAt)}
           goneC == {id \in DOMAIN byContainer :
                    \/ id \in keys("container") /\ Expired(byContainer[id].expireAt)
                    \/ byContainer[id].uid \in goneP /\ id \in pods[byContainer[id].uid].ids}
<1>1. /\ pods' = Without(pods, goneP) /\ byContainer' = Without(byContainer, goneC)
      /\ byPodName' = [n \in DOMAIN byPodName |-> IF byPodName[n] \in goneP THEN NoUid ELSE byPodName[n]]
  BY DEF Sweep
<1>2. /\ goneP \subseteq DOMAIN pods /\ \A u \in goneP : Expired(pods[u].expireAt)
      /\ goneC \subseteq DOMAIN byContainer
      /\ \A id \in goneC : Expired(byContainer[id].expireAt)
                                 \/ (byContainer[id].uid \in goneP /\ id \in pods[byContainer[id].uid].ids)
  <2> HIDE DEF keys
  <2>1. goneP \subseteq DOMAIN pods /\ \A u \in goneP : Expired(pods[u].expireAt)
    OBVIOUS
  <2> HIDE DEF goneP
  <2>2. goneC \subseteq DOMAIN byContainer
    OBVIOUS
  <2>3. \A id \in goneC : Expired(byContainer[id].expireAt)
                                 \/ (byContainer[id].uid \in goneP /\ id \in pods[byContainer[id].uid].ids)
    OBVIOUS
  <2> QED BY <2>1, <2>2, <2>3
<1> HIDE DEF goneP, goneC
<1> QED BY <1>1, <1>2

LEMMA SweepKeeps == ASSUME StoreInv, Sweep PROVE StoreInv'
<1> USE StoreAssumption
<1>0. PICK goneP, goneC :
            /\ goneP \subseteq DOMAIN pods /\ \A u \in goneP : Expired(pods[u].expireAt)
            /\ goneC \subseteq DOMAIN byContainer
            /\ \A id \in goneC : Expired(byContainer[id].expireAt)
                                 \/ (byContainer[id].uid \in goneP /\ id \in pods[byContainer[id].uid].ids)
            /\ pods' = Without(pods, goneP) /\ byContainer' = Without(byContainer, goneC)
            /\ byPodName' = [n \in DOMAIN byPodName |-> IF byPodName[n] \in goneP THEN NoUid ELSE byPodName[n]]
  BY SweepRemoves
<1> PICK T : T = [pods |-> pods', byContainer |-> byContainer', byNode |-> byNode', byPodName |-> byPodName',
                  gen |-> gen', nodeGen |-> nodeGen']
  OBVIOUS
<1>1. /\ T.pods = pods' /\ T.byContainer = byContainer' /\ T.byNode = byNode /\ T.byPodName = byPodName'
      /\ T.gen = gen + 1 /\ T.nodeGen = nodeGen /\ gen' = gen + 1
      /\ UNCHANGED <<now, byNode, nodeGen, memo, reading>>
  BY DEF Sweep
<1>s. /\ Shaped(State, now + TTL) /\ NodesOK(State) /\ NamesOK(State, NoUid) /\ ContainersOK(State)
      /\ State.pods = pods /\ State.byNode = byNode /\ State.byPodName = byPodName /\ State.byContainer = byContainer
      /\ State.gen = gen /\ State.nodeGen = nodeGen
  BY DEF StoreInv, Core, State
<1>2. /\ DOMAIN T.pods = DOMAIN pods \ goneP /\ \A u \in DOMAIN T.pods : T.pods[u] = pods[u]
      /\ T.pods \in [DOMAIN T.pods -> PodRecords]
  BY <1>0, <1>1, <1>s DEF Without, Shaped
<1>3. /\ DOMAIN T.byContainer = DOMAIN byContainer \ goneC
      /\ \A id \in DOMAIN T.byContainer : T.byContainer[id] = byContainer[id]
      /\ T.byContainer \in [DOMAIN T.byContainer -> Entries]
  BY <1>0, <1>1, <1>s DEF Without, Shaped
<1>4. \A u : Live(T.pods, u) <=> Live(pods, u)
  BY <1>0, <1>2 DEF Live, Expired
<1>5. /\ T.byPodName \in [Names -> Uids \cup {NoUid}]
      /\ \A n \in Names : T.byPodName[n] = IF byPodName[n] \in goneP THEN NoUid ELSE byPodName[n]
  BY <1>0, <1>1, <1>s DEF Shaped
<1>6. Shaped(T, now + TTL)
  <2>1. \A n \in Names : T.byPodName[n] # NoUid => T.byPodName[n] \in DOMAIN T.pods
    BY <1>2, <1>5, <1>s DEF Shaped
  <2> QED BY <2>1, <1>1, <1>2, <1>3, <1>5, <1>s DEF Shaped
<1>7. NodesOK(T)
  <2>1. \A u : Live(pods, u) => u \in DOMAIN T.pods /\ T.pods[u] = pods[u]
    BY <1>2, <1>4 DEF Live
  <2> QED BY <2>1, <1>1, <1>2, <1>4, <1>s DEF NodesOK
<1>8. NamesOK(T, NoUid)
  <2> SUFFICES ASSUME NEW v \in DOMAIN T.pods, Live(T.pods, v), v # NoUid PROVE T.byPodName[NameOf[v]] = v
    BY DEF NamesOK
  <2>1. v \in DOMAIN pods /\ v \notin goneP /\ byPodName[NameOf[v]] = v /\ v \in Uids
    BY <1>2, <1>4, <1>s DEF NamesOK, Shaped
  <2> QED BY <2>1, <1>5 DEF Names
<1>9. ContainersOK(T)
  <2> SUFFICES ASSUME NEW v \in DOMAIN T.pods, NEW id \in T.pods[v].ids
               PROVE  /\ Live(T.pods, v) => id \in DOMAIN T.byContainer /\ T.byContainer[id] = [uid |-> v, expireAt |-> 0]
                      /\ (~Live(T.pods, v) /\ id \in DOMAIN T.byContainer /\ T.byContainer[id].uid = v) =>
                           T.byContainer[id].expireAt # 0 /\ T.byContainer[id].expireAt <= T.pods[v].expireAt
    BY DEF ContainersOK
  <2>1. v \in DOMAIN pods /\ T.pods[v] = pods[v] /\ v \notin goneP
    BY <1>2
  <2>2. CASE Live(T.pods, v)
    <3>1. id \in DOMAIN byContainer /\ byContainer[id] = [uid |-> v, expireAt |-> 0]
      BY <2>1, <2>2, <1>4, <1>s DEF ContainersOK
    <3>2. id \notin goneC
      BY <3>1, <2>1, <1>0 DEF Expired
    <3> QED BY <2>2, <3>1, <3>2, <1>3
  <2>3. CASE ~Live(T.pods, v)
    BY <2>1, <2>3, <1>3, <1>4, <1>s DEF ContainersOK
  <2> QED BY <2>2, <2>3
<1>10. Moves(State, T, {})
  <2>0. Moves(State, State, {})
    BY DEF StoreInv
  <2>1. \A n \in Nodes : View(T, n) = View(State, n)
    <3> SUFFICES ASSUME NEW n \in Nodes PROVE View(T, n) = View(State, n)
      OBVIOUS
    <3>1. CASE n \in DOMAIN byNode
      <4>1. \A v \in byNode[n] : Live(pods, v)
        BY <3>1, <1>s DEF NodesOK
      <4>2. \A v \in byNode[n] : T.pods[v] = State.pods[v]
        BY <4>1, <1>2, <1>4, <1>s DEF Live
      <4> QED BY <3>1, <4>2, <1>1, <1>s DEF View
    <3>2. CASE n \notin DOMAIN byNode
      BY <3>2, <1>1, <1>s DEF View
    <3> QED BY <3>1, <3>2
  <2>2. gen \in Nat
    BY <2>0, <1>s DEF Moves
  <2>3. \A n \in Nodes : Token(T, n) > State.gen \/ Token(T, n) = Token(State, n)
    BY <2>2, <1>1, <1>s DEF Token
  <2> QED BY <2>0, <2>1, <2>2, <2>3, <1>1, <1>s DEF Moves
<1>11. Core(T, NoUid, now + TTL)
  BY <1>6, <1>7, <1>8, <1>9 DEF Core
<1> QED BY <1>1, <1>10, <1>11, Resumes

LEMMA StoreTickKeeps == ASSUME StoreInv, Tick PROVE StoreInv'
<1> USE StoreAssumption
<1>0. now' = now + 1 /\ now \in Nat \ {0} /\ UNCHANGED <<storeVars, memo, reading>>
  BY DEF Tick, StoreInv
<1>1. UNCHANGED <<pods, byContainer, byNode, byPodName, gen, nodeGen>>
  BY <1>0 DEF storeVars
<1>2. Shaped(State, now + TTL)'
  <2>1. \A u \in DOMAIN pods : pods[u].expireAt \in Nat /\ pods[u].expireAt <= now + TTL
    BY DEF StoreInv, Core, Shaped, State, PodRecords
  <2>2. \A id \in DOMAIN byContainer : byContainer[id].expireAt \in Nat /\ byContainer[id].expireAt <= now + TTL
    BY DEF StoreInv, Core, Shaped, State, Entries
  <2>3. /\ \A u \in DOMAIN pods : pods[u].expireAt <= now' + TTL
        /\ \A id \in DOMAIN byContainer : byContainer[id].expireAt <= now' + TTL
    BY <2>1, <2>2, <1>0
  <2> QED BY <2>3, <1>1 DEF StoreInv, Core, Shaped, State
<1>3. (NodesOK(State) /\ NamesOK(State, NoUid) /\ ContainersOK(State))'
  BY <1>1 DEF StoreInv, Core, NodesOK, NamesOK, ContainersOK, State
<1>4. Moves(State, State, {})'
  BY <1>1 DEF StoreInv, Moves, State
<1>5. ReadersInv' /\ MemoCurrent'
  <2>1. ReadersInv'
    BY <1>0, <1>1 DEF StoreInv, ReadersInv
  <2>2. MemoCurrent'
    BY <1>0, <1>1 DEF StoreInv, MemoCurrent, NodeGeneration, PodsOnNode
  <2> QED BY <2>1, <2>2
<1> QED BY <1>0, <1>2, <1>3, <1>4, <1>5 DEF StoreInv, Core

LEMMA ReaderKeeps ==
  ASSUME StoreInv, NEW n \in MemoNodes, SampleToken(n) \/ RememberTargets(n) PROVE StoreInv'
<1>0. UNCHANGED <<now, pods, byContainer, byNode, byPodName, gen, nodeGen>>
  BY DEF SampleToken, RememberTargets, storeVars
<1>1. (Core(State, NoUid, now + TTL) /\ Moves(State, State, {}))'
  BY <1>0 DEF StoreInv, Core, Shaped, NodesOK, NamesOK, ContainersOK, Moves, State
<1>2. gen \in Nat /\ NodeGeneration(n) \in Int /\ NodeGeneration(n) <= gen
  <2>1. Moves(State, State, {}) /\ State.gen = gen /\ State.nodeGen = nodeGen
    BY DEF StoreInv, State
  <2>2. gen \in Nat /\ \A m \in DOMAIN nodeGen : nodeGen[m] \in Nat /\ nodeGen[m] <= gen
    BY <2>1 DEF Moves
  <2> QED BY <2>2 DEF NodeGeneration
<1>3. CASE SampleToken(n)
  <2>1. reading' \in [MemoNodes -> Int] /\ \A m \in MemoNodes : reading'[m] <= gen
    BY <1>2, <1>3 DEF SampleToken, StoreInv, ReadersInv
  <2>2. memo' = memo
    BY <1>3 DEF SampleToken
  <2>3. ReadersInv'
    BY <2>1, <2>2, <1>0 DEF StoreInv, ReadersInv
  <2>4. MemoCurrent'
    BY <2>2, <1>0 DEF StoreInv, MemoCurrent, NodeGeneration, PodsOnNode
  <2> QED BY <1>0, <1>1, <2>3, <2>4 DEF StoreInv
<1>4. CASE RememberTargets(n)
  <2> PICK x : x = [token |-> reading[n], data |-> PodsOnNode(n)]
    OBVIOUS
  <2>1. memo' = [memo EXCEPT ![n] = x] /\ reading' = [reading EXCEPT ![n] = -1] /\ reading[n] \in Int /\ reading[n] <= gen
    BY <1>4 DEF RememberTargets, StoreInv, ReadersInv
  <2>2. /\ memo' = [m \in MemoNodes |-> memo'[m]] /\ memo'[n] = x
        /\ \A m \in MemoNodes : m # n => memo'[m] = memo[m]
    <3>1. memo = [m \in MemoNodes |-> memo[m]]
      BY DEF StoreInv, ReadersInv
    <3> QED BY <2>1, <3>1
  <2>3. reading' \in [MemoNodes -> Int] /\ \A m \in MemoNodes : reading'[m] <= gen
    BY <2>1, <1>2 DEF StoreInv, ReadersInv
  <2>4. ReadersInv'
    <3>1. \A m \in MemoNodes : memo'[m].token \in Int /\ memo'[m].token <= gen'
      BY <2>1, <2>2, <1>0 DEF StoreInv, ReadersInv
    <3> QED BY <2>2, <2>3, <3>1, <1>0 DEF ReadersInv
  <2>5. MemoCurrent'
    <3>1. \A m \in MemoNodes : NodeGeneration(m)' = NodeGeneration(m) /\ PodsOnNode(m)' = PodsOnNode(m)
      BY <1>0 DEF NodeGeneration, PodsOnNode
    <3>2. memo'[n].data = PodsOnNode(n)
      BY <2>2
    <3> QED BY <2>2, <3>1, <3>2 DEF StoreInv, MemoCurrent
  <2> QED BY <1>0, <1>1, <2>4, <2>5 DEF StoreInv
<1> QED BY <1>3, <1>4

LEMMA StoreNextKeeps == StoreInv /\ [Next]_vars => StoreInv'
<1> SUFFICES ASSUME StoreInv, [Next]_vars PROVE StoreInv'
  OBVIOUS
<1>1. CASE UNCHANGED vars
  <2>1. UNCHANGED <<now, pods, byContainer, byNode, byPodName, gen, nodeGen, memo, reading>>
    BY <1>1 DEF vars, storeVars
  <2>2. (Core(State, NoUid, now + TTL) /\ Moves(State, State, {}))'
    BY <2>1 DEF StoreInv, Core, Shaped, NodesOK, NamesOK, ContainersOK, Moves, State
  <2>3. ReadersInv' /\ MemoCurrent'
    BY <2>1 DEF StoreInv, ReadersInv, MemoCurrent, NodeGeneration, PodsOnNode
  <2> QED BY <2>1, <2>2, <2>3 DEF StoreInv
<1>2. CASE Next
  BY <1>2, DeletePodKeeps, UpsertKeeps, SweepKeeps, StoreTickKeeps, ReaderKeeps DEF Next
<1> QED BY <1>1, <1>2

LEMMA StoreInvSuffices == StoreInv => IndexesAgree /\ MemoCurrent
<1> SUFFICES ASSUME StoreInv PROVE IndexesAgree
  BY DEF StoreInv
<1>s. /\ NodesOK(State) /\ NamesOK(State, NoUid) /\ ContainersOK(State) /\ Shaped(State, now + TTL)
      /\ State.pods = pods /\ State.byNode = byNode /\ State.byPodName = byPodName /\ State.byContainer = byContainer
  BY DEF StoreInv, Core, State
<1>1. ASSUME NEW n \in Nodes
      PROVE  {u \in DOMAIN pods : Live(pods, u) /\ pods[u].node = n} = IF n \in DOMAIN byNode THEN byNode[n] ELSE {}
  <2>0. n # NoNode
    BY DEF Nodes
  <2>1. CASE n \in DOMAIN byNode
    BY <2>0, <2>1, <1>s DEF NodesOK, Live
  <2>2. CASE n \notin DOMAIN byNode
    BY <2>0, <2>2, <1>s DEF NodesOK, Live
  <2> QED BY <2>1, <2>2
<1>2. \A u \in DOMAIN pods : Live(pods, u) =>
        /\ byPodName[NameOf[u]] = u
        /\ \A id \in pods[u].ids : id \in DOMAIN byContainer /\ byContainer[id] = [uid |-> u, expireAt |-> 0]
  BY <1>s, StoreAssumption DEF NamesOK, ContainersOK, Shaped
<1>3. \A n \in Names : byPodName[n] # NoUid => byPodName[n] \in DOMAIN pods
  BY <1>s DEF Shaped
<1> QED BY <1>1, <1>2, <1>3 DEF IndexesAgree

\* The indexes agree with the live pods, and a remembered answer whose token still
\* stands is the current one, whatever the informer delivers (Store.UpsertPod, DeletePod,
\* sweep, nodeTargets).
THEOREM IndexesAlwaysAgree == Spec => [](IndexesAgree /\ MemoCurrent)
<1>1. Spec => []StoreInv
  BY StoreInitEstablishes, StoreNextKeeps, PTL DEF Spec
<1> QED BY <1>1, StoreInvSuffices, PTL

LEMMA StepRetains ==
  StoreInv /\ [Next]_vars =>
    [\A id \in DOMAIN byContainer \ DOMAIN byContainer' : TTL = 0 \/ Expired(byContainer[id].expireAt)]_vars
<1> SUFFICES ASSUME StoreInv, Next, TTL # 0, NEW id \in DOMAIN byContainer, id \notin DOMAIN byContainer'
             PROVE  Expired(byContainer[id].expireAt)
  OBVIOUS
<1>1. CASE Sweep
  <2>0. PICK goneP, goneC :
            /\ goneP \subseteq DOMAIN pods /\ \A u \in goneP : Expired(pods[u].expireAt)
            /\ goneC \subseteq DOMAIN byContainer
            /\ \A i \in goneC : Expired(byContainer[i].expireAt)
                                 \/ (byContainer[i].uid \in goneP /\ i \in pods[byContainer[i].uid].ids)
            /\ pods' = Without(pods, goneP) /\ byContainer' = Without(byContainer, goneC)
    BY <1>1, SweepRemoves
  <2>1. id \in goneC
    BY <2>0 DEF Without
  <2>2. CASE byContainer[id].uid \in goneP /\ id \in pods[byContainer[id].uid].ids
    <3> PICK u \in goneP : u = byContainer[id].uid
      BY <2>2
    <3>1. u \in DOMAIN pods /\ Expired(pods[u].expireAt) /\ id \in pods[u].ids
      BY <2>0, <2>2
    <3>2. ~Live(pods, u)
      BY <3>1 DEF Live, Expired
    <3>3. byContainer[id].expireAt # 0 /\ byContainer[id].expireAt <= pods[u].expireAt
      BY <3>1, <3>2 DEF StoreInv, Core, ContainersOK, State
    <3>4. byContainer[id].expireAt \in Nat /\ pods[u].expireAt \in Nat /\ now \in Nat
      BY <3>1 DEF StoreInv, Core, Shaped, State, Entries, PodRecords
    <3> QED BY <3>1, <3>3, <3>4 DEF Expired
  <2> QED BY <2>0, <2>1, <2>2
<1>2. ASSUME NEW u \in Uids, NEW fav, DeletePod(u, fav) PROVE FALSE
  <2> PICK T : T = Deleted(State, u, fav)
    OBVIOUS
  <2>1. u \in DOMAIN State.pods /\ byContainer' = T.byContainer /\ State.byContainer = byContainer
    BY <1>2 DEF DeletePod, Becomes, State
  <2>2. DOMAIN T.byContainer = DOMAIN State.byContainer
    BY <2>1, DeletedEntries DEF StoreInv
  <2> QED BY <2>1, <2>2
<1>3. ASSUME NEW u \in Uids, NEW o \in Objects[u], NEW fav, UpsertPod(u, o, fav) PROVE FALSE
  <2> PICK S1 : S1 = Indexed(u, o, OldOf(u).ids, OldOf(u).node)
    OBVIOUS
  <2> PICK prev : prev = S1.byPodName[NameOf[u]]
    OBVIOUS
  <2> PICK S2 : S2 = Superseded(S1, u, fav)
    OBVIOUS
  <2>1. byContainer' = S2.byContainer
    BY <1>3 DEF UpsertPod, Becomes, OldOf
  <2>2. DOMAIN byContainer \subseteq DOMAIN S1.byContainer
    BY IndexedEntries
  <2>3. Core(S1, u, now + TTL) /\ now \in Nat \ {0}
    BY IndexedKeeps DEF StoreInv
  <2>4. CASE prev \notin {NoUid, u} /\ Live(S1.pods, prev)
    <3>1. S2 = Deleted(S1, prev, fav) /\ prev \in DOMAIN S1.pods
      BY <2>4 DEF Superseded, Live
    <3>2. DOMAIN S2.byContainer = DOMAIN S1.byContainer
      BY <3>1, <2>3, DeletedEntries
    <3> QED BY <2>1, <2>2, <3>2
  <2>5. CASE ~(prev \notin {NoUid, u} /\ Live(S1.pods, prev))
    BY <2>1, <2>2, <2>5 DEF Superseded
  <2> QED BY <2>4, <2>5
<1>4. CASE Tick \/ \E n \in MemoNodes : SampleToken(n) \/ RememberTargets(n)
  BY <1>4 DEF Tick, SampleToken, RememberTargets, storeVars
<1> QED BY <1>1, <1>2, <1>3, <1>4 DEF Next

\* No step drops a container entry before its time is over, for any TTL and any order of
\* updates, deletes and sweeps (Store.sweep).
THEOREM EntriesRetained == Spec => RetainedUntilExpiry
<1>1. Spec => []StoreInv
  BY StoreInitEstablishes, StoreNextKeeps, PTL DEF Spec
<1> QED BY <1>1, StepRetains, PTL DEF Spec, RetainedUntilExpiry

-----------------------------------------------------------------------------
(* The pending list.                                                        *)

StampRecords == [when : Nat, kind : {"pod", "container"}, key : Uids \cup Ids]

Lists(Q, s) == \E k \in 1..Len(Q) : Q[k] = s

\* In the order the stamps fall due, none later than the limit.
Ordered(Q, limit) ==
  /\ Q \in Seq(StampRecords)
  /\ \A k \in 1..Len(Q) : Q[k].when <= limit
  /\ \A j, k \in 1..Len(Q) : j <= k => Q[j].when <= Q[k].when

\* Whatever carries an expiry is listed with it.
PendingOK(S, limit) ==
  /\ Ordered(S.pending, limit)
  /\ \A u \in DOMAIN S.pods :
       /\ IsFiniteSet(S.pods[u].ids)
       /\ S.pods[u].expireAt # 0 => Lists(S.pending, [when |-> S.pods[u].expireAt, kind |-> "pod", key |-> u])
  /\ \A id \in DOMAIN S.byContainer :
       /\ id \in Ids
       /\ S.byContainer[id].expireAt # 0 =>
            Lists(S.pending, [when |-> S.byContainer[id].expireAt, kind |-> "container", key |-> id])

LEMMA ConcatOrdered ==
  ASSUME NEW limit \in Nat, NEW Q, Ordered(Q, limit), NEW R \in Seq(StampRecords),
         \A k \in 1..Len(R) : R[k].when = limit
  PROVE  /\ Ordered(Q \o R, limit)
         /\ \A s : Lists(Q, s) \/ Lists(R, s) => Lists(Q \o R, s)
<1>0. Q \in Seq(StampRecords) /\ Len(Q) \in Nat /\ Len(R) \in Nat
  BY DEF Ordered
<1> PICK c : c = Q \o R
  OBVIOUS
<1>1. c \in Seq(StampRecords) /\ Len(c) = Len(Q) + Len(R)
  BY <1>0
<1>2. /\ \A i \in 1..Len(Q) : c[i] = Q[i]
      /\ \A i \in 1..Len(R) : c[Len(Q) + i] = R[i]
  BY <1>0
<1>3. \A i \in 1..Len(c) : \/ i \in 1..Len(Q)
                           \/ (i > Len(Q) /\ \E j \in 1..Len(R) : i = Len(Q) + j)
  <2> SUFFICES ASSUME NEW i \in 1..Len(c), i \notin 1..Len(Q) PROVE i > Len(Q) /\ \E j \in 1..Len(R) : i = Len(Q) + j
    OBVIOUS
  <2>1. i - Len(Q) \in 1..Len(R) /\ i = Len(Q) + (i - Len(Q))
    BY <1>0, <1>1
  <2> QED BY <2>1, <1>0
<1>q. \A i \in 1..Len(Q) : Q[i].when \in Nat /\ Q[i].when <= limit
  <2>1. \A i \in 1..Len(Q) : Q[i] \in StampRecords
    BY <1>0
  <2> QED BY <2>1 DEF Ordered, StampRecords
<1>4. \A i \in 1..Len(c) : i \notin 1..Len(Q) => c[i].when = limit
  BY <1>2, <1>3
<1>5. \A i \in 1..Len(c) : c[i].when \in Nat /\ c[i].when <= limit
  BY <1>2, <1>4, <1>q
<1>6. \A j, k \in 1..Len(c) : j <= k => c[j].when <= c[k].when
  <2> SUFFICES ASSUME NEW j \in 1..Len(c), NEW k \in 1..Len(c), j <= k PROVE c[j].when <= c[k].when
    OBVIOUS
  <2>1. CASE k \in 1..Len(Q)
    <3>1. j \in 1..Len(Q)
      BY <2>1, <1>0
    <3> QED BY <2>1, <3>1, <1>2 DEF Ordered
  <2>2. CASE k \notin 1..Len(Q)
    BY <2>2, <1>4, <1>5
  <2> QED BY <2>1, <2>2
<1>7. ASSUME NEW s, Lists(Q, s) \/ Lists(R, s) PROVE Lists(c, s)
  <2>1. CASE Lists(Q, s)
    BY <2>1, <1>0, <1>1, <1>2 DEF Lists
  <2>2. CASE Lists(R, s)
    <3> PICK k \in 1..Len(R) : R[k] = s
      BY <2>2 DEF Lists
    <3>1. Len(Q) + k \in 1..Len(c) /\ c[Len(Q) + k] = s
      BY <1>0, <1>1, <1>2
    <3> QED BY <3>1 DEF Lists
  <2> QED BY <1>7, <2>1, <2>2
<1> QED BY <1>1, <1>5, <1>6, <1>7 DEF Ordered

LEMMA StampsAre ==
  ASSUME now \in Nat, NEW ids \in SUBSET Ids, IsFiniteSet(ids)
  PROVE  /\ Stamps(ids) \in Seq(StampRecords)
         /\ \A k \in 1..Len(Stamps(ids)) : Stamps(ids)[k].when = now + TTL
         /\ TTL # 0 => \A id \in ids : Lists(Stamps(ids), [when |-> now + TTL, kind |-> "container", key |-> id])
<1> USE StoreAssumption
<1>1. CASE TTL = 0
  BY <1>1 DEF Stamps
<1>2. CASE TTL # 0
  <2>0. Cardinality(ids) \in Nat /\ ExistsBijection(1..Cardinality(ids), ids)
    BY FS_CardinalityType, Zenon
  <2> DEFINE n == Cardinality(ids)
  <2>1. \E f \in [1..n -> ids] : \A id \in ids : \E i \in DOMAIN f : f[i] = id
    BY <2>0 DEF ExistsBijection, Bijection, Surjection
  <2> PICK f : f = CHOOSE g \in [1..n -> ids] : \A id \in ids : \E i \in DOMAIN g : g[i] = id
    OBVIOUS
  <2>2. f \in [1..n -> ids] /\ \A id \in ids : \E i \in 1..n : f[i] = id
    BY <2>1
  <2>3. Stamps(ids) = [i \in 1..n |-> [when |-> now + TTL, kind |-> "container", key |-> f[i]]]
    BY <1>2 DEF Stamps, Stamp
  <2> HIDE DEF n
  <2>4. n \in Nat /\ now + TTL \in Nat
    BY <2>0 DEF n
  <2> PICK t \in Nat : t = now + TTL
    BY <2>4
  <2> DEFINE q == [i \in 1..n |-> [when |-> t, kind |-> "container", key |-> f[i]]]
  <2>5. \A i \in 1..n : q[i] \in StampRecords /\ q[i].when = t /\ q[i] = [when |-> t, kind |-> "container", key |-> f[i]]
    BY <2>2 DEF StampRecords
  <2>6. q \in [1..n -> StampRecords]
    BY <2>5
  <2>7. Stamps(ids) = q
    BY <2>3
  <2>8. \A id \in ids : \E i \in 1..n : q[i] = [when |-> t, kind |-> "container", key |-> id]
    BY <2>2, <2>5
  <2> HIDE DEF q
  <2>9. q \in Seq(StampRecords) /\ Len(q) = n
    BY <2>4, <2>6
  <2> QED BY <2>5, <2>7, <2>8, <2>9 DEF Lists
<1> QED BY <1>1, <1>2

LEMMA DeletedLists ==
  ASSUME NEW S, NEW w, now \in Nat \ {0}, Core(S, w, now + TTL), PendingOK(S, now + TTL), NEW u \in DOMAIN S.pods,
         NEW fav, NEW T, T = Deleted(S, u, fav)
  PROVE  PendingOK(T, now + TTL)
<1> USE StoreAssumption
<1> PICK limit \in Nat : limit = now + TTL
  OBVIOUS
<1>0. /\ Ordered(S.pending, limit) /\ S.pending \in Seq(StampRecords)
      /\ \A v \in DOMAIN S.pods : IsFiniteSet(S.pods[v].ids)
      /\ \A v \in DOMAIN S.pods : S.pods[v].expireAt # 0 =>
            Lists(S.pending, [when |-> S.pods[v].expireAt, kind |-> "pod", key |-> v])
      /\ \A id \in DOMAIN S.byContainer : id \in Ids /\ (S.byContainer[id].expireAt # 0 =>
            Lists(S.pending, [when |-> S.byContainer[id].expireAt, kind |-> "container", key |-> id]))
  BY DEF PendingOK, Ordered
<1>p. /\ DOMAIN T.pods \subseteq DOMAIN S.pods
      /\ \A v \in DOMAIN S.pods : v # u => v \in DOMAIN T.pods /\ T.pods[v] = S.pods[v]
      /\ u \in DOMAIN T.pods => TTL # 0 /\ T.pods[u].expireAt = limit /\ T.pods[u].ids = S.pods[u].ids
  BY DeletedPods
<1>u. u \in Uids /\ S.pods[u].ids \subseteq Ids
  BY DEF Core, Shaped, PodRecords
<1>1. CASE TTL # 0
  <2> PICK ids : ids = Unstamped(S.byContainer, u, S.pods[u].ids)
    OBVIOUS
  <2>1. /\ ids \subseteq S.pods[u].ids
        /\ \A id \in DOMAIN S.byContainer :
             id \in ids <=> id \in S.pods[u].ids /\ S.byContainer[id].uid = u /\ S.byContainer[id].expireAt = 0
    BY DEF Unstamped
  <2>2. IsFiniteSet(ids) /\ ids \in SUBSET Ids
    <3>1. IsFiniteSet(S.pods[u].ids)
      BY <1>0
    <3> QED BY <3>1, <2>1, <1>u, FS_Subset
  <2>3. S.byContainer \in [DOMAIN S.byContainer -> Entries] /\ T.byContainer = ExpireEntries(S.byContainer, ids)
    BY <1>1 DEF Core, Shaped, Deleted
  <2>4. /\ DOMAIN T.byContainer = DOMAIN S.byContainer
        /\ \A id \in DOMAIN S.byContainer :
              /\ T.byContainer[id].uid = S.byContainer[id].uid
              /\ id \in ids => T.byContainer[id].expireAt = now + TTL
              /\ id \notin ids => T.byContainer[id] = S.byContainer[id]
    BY <2>3, <1>1, ExpireIs
  <2> PICK s : s = [when |-> limit, kind |-> "pod", key |-> u]
    OBVIOUS
  <2>5. s \in StampRecords /\ s.when = limit /\ s = Stamp("pod", u)
    BY <1>u DEF StampRecords, Stamp
  <2> PICK one : one = <<s>>
    OBVIOUS
  <2>6. one \in Seq(StampRecords) /\ Len(one) = 1 /\ one[1] = s
    BY <2>5
  <2> PICK Q : Q = S.pending \o one
    OBVIOUS
  <2>7. /\ Ordered(Q, limit) /\ \A x : Lists(S.pending, x) \/ Lists(one, x) => Lists(Q, x)
    <3>1. \A k \in 1..Len(one) : one[k].when = limit
      BY <2>5, <2>6
    <3> QED BY <3>1, <1>0, <2>6, ConcatOrdered
  <2> PICK R : R = Stamps(ids)
    OBVIOUS
  <2>8. /\ R \in Seq(StampRecords) /\ \A k \in 1..Len(R) : R[k].when = limit
        /\ \A id \in ids : Lists(R, [when |-> limit, kind |-> "container", key |-> id])
    BY <2>2, <1>1, StampsAre
  <2>9. /\ Ordered(Q \o R, limit) /\ \A x : Lists(Q, x) \/ Lists(R, x) => Lists(Q \o R, x)
    BY <2>7, <2>8, ConcatOrdered
  <2>10. T.pending = Q \o R
    <3>1. Append(S.pending, s) = S.pending \o one
      BY <1>0, <2>5, AppendIsConcat
    <3>2. T.pending = Append(S.pending, Stamp("pod", u)) \o Stamps(ids)
      BY <1>1 DEF Deleted
    <3> QED BY <3>1, <3>2, <2>5
  <2>11. Lists(one, s)
    BY <2>6 DEF Lists
  <2>12. ASSUME NEW v \in DOMAIN T.pods
         PROVE  /\ IsFiniteSet(T.pods[v].ids)
                /\ T.pods[v].expireAt # 0 => Lists(T.pending, [when |-> T.pods[v].expireAt, kind |-> "pod", key |-> v])
    <3>1. CASE v = u
      BY <3>1, <1>0, <1>p, <2>7, <2>9, <2>10, <2>11
    <3>2. CASE v # u
      BY <3>2, <1>0, <1>p, <2>7, <2>9, <2>10
    <3> QED BY <3>1, <3>2
  <2>13. ASSUME NEW id \in DOMAIN T.byContainer
         PROVE  /\ id \in Ids
                /\ T.byContainer[id].expireAt # 0 =>
                     Lists(T.pending, [when |-> T.byContainer[id].expireAt, kind |-> "container", key |-> id])
    <3>1. CASE id \in ids
      BY <3>1, <1>0, <2>4, <2>8, <2>9, <2>10
    <3>2. CASE id \notin ids
      BY <3>2, <1>0, <2>4, <2>7, <2>9, <2>10
    <3> QED BY <3>1, <3>2
  <2> QED BY <2>9, <2>10, <2>12, <2>13 DEF PendingOK
<1>2. CASE TTL = 0
  <2>1. T.pending = S.pending
    BY <1>2 DEF Deleted
  <2>2. \A id \in DOMAIN T.byContainer : id \in DOMAIN S.byContainer /\ T.byContainer[id] = S.byContainer[id]
    <3>1. T.byContainer = Without(S.byContainer, {id \in S.pods[u].ids \cap DOMAIN S.byContainer : S.byContainer[id].uid = u})
      BY <1>2 DEF Deleted
    <3> QED BY <3>1 DEF Without
  <2>3. \A v \in DOMAIN T.pods : v \in DOMAIN S.pods /\ T.pods[v] = S.pods[v]
    BY <1>2, <1>p
  <2> QED BY <1>0, <2>1, <2>2, <2>3 DEF PendingOK
<1> QED BY <1>1, <1>2

LEMMA IndexedLists ==
  ASSUME StoreInv, PendingOK(State, now + TTL), NEW u \in Uids, NEW o \in Objects[u], NEW T,
         T = Indexed(u, o, OldOf(u).ids, OldOf(u).node)
  PROVE  PendingOK(T, now + TTL)
<1> USE StoreAssumption
<1> PICK limit \in Nat : limit = now + TTL
  BY DEF StoreInv
<1> PICK old : old = OldOf(u).ids
  OBVIOUS
<1>0. /\ Ordered(pending, limit) /\ pending \in Seq(StampRecords)
      /\ \A v \in DOMAIN pods : IsFiniteSet(pods[v].ids)
      /\ \A v \in DOMAIN pods : pods[v].expireAt # 0 =>
            Lists(pending, [when |-> pods[v].expireAt, kind |-> "pod", key |-> v])
      /\ \A id \in DOMAIN byContainer : id \in Ids /\ (byContainer[id].expireAt # 0 =>
            Lists(pending, [when |-> byContainer[id].expireAt, kind |-> "container", key |-> id]))
  BY DEF PendingOK, Ordered, State
<1>o. IsFiniteSet(o.ids) /\ o.ids \subseteq Ids /\ IsFiniteSet(old) /\ old \subseteq Ids /\ now \in Nat
  <2>1. o \in Reported /\ o.ids \subseteq IdsOf(u) /\ IdsOf(u) \subseteq Ids
    BY DEF Reported, IdsOf, Ids
  <2>2. CASE u \in DOMAIN pods
    <3>1. old = pods[u].ids
      BY <2>2 DEF OldOf, Content
    <3>2. pods[u].ids \subseteq Ids
      BY <2>2 DEF StoreInv, Core, Shaped, State, PodRecords
    <3> QED BY <2>1, <2>2, <3>1, <3>2, <1>0 DEF StoreInv
  <2>3. CASE u \notin DOMAIN pods
    <3>1. old = {}
      BY <2>3 DEF OldOf
    <3>2. IsFiniteSet({})
      BY FS_EmptySet
    <3> QED BY <2>1, <3>1, <3>2 DEF StoreInv
  <2> QED BY <2>2, <2>3
<1> PICK e : e = [id \in DOMAIN byContainer \cup o.ids |->
                    IF id \in o.ids THEN [uid |-> u, expireAt |-> 0] ELSE byContainer[id]]
  OBVIOUS
<1> PICK gone : gone = Unstamped(e, u, old \ o.ids)
  OBVIOUS
<1>1. byContainer \in [DOMAIN byContainer -> Entries]
  BY DEF StoreInv, Core, Shaped, State
<1>2. /\ e \in [DOMAIN byContainer \cup o.ids -> Entries] /\ DOMAIN e = DOMAIN byContainer \cup o.ids
      /\ \A id \in o.ids : e[id] = [uid |-> u, expireAt |-> 0]
      /\ \A id \in DOMAIN byContainer \ o.ids : e[id] = byContainer[id]
  BY <1>1 DEF Entries
<1>3. /\ T.byContainer = ExpireEntries(e, gone) /\ T.pending = pending \o Stamps(gone)
  BY DEF Indexed
<1>4. gone \subseteq old /\ IsFiniteSet(gone) /\ gone \in SUBSET Ids
  <2>1. gone \subseteq old
    BY DEF Unstamped
  <2> QED BY <2>1, <1>o, FS_Subset
<1>p. /\ DOMAIN T.pods = DOMAIN pods \cup {u} /\ T.pods[u].expireAt = 0 /\ T.pods[u].ids = o.ids
      /\ \A v \in DOMAIN pods : v # u => T.pods[v] = pods[v]
  <2> PICK rec : rec = [node |-> o.node, ips |-> o.ips, done |-> o.done, terminating |-> o.terminating,
                        ids |-> o.ids, expireAt |-> 0]
    OBVIOUS
  <2>1. rec.expireAt = 0 /\ rec.ids = o.ids
    OBVIOUS
  <2>2. T.pods = With(pods, u, rec)
    BY DEF Indexed
  <2> QED BY <2>1, <2>2 DEF With
<1> PICK R : R = Stamps(gone)
  OBVIOUS
<1>5. /\ R \in Seq(StampRecords) /\ \A k \in 1..Len(R) : R[k].when = limit
      /\ TTL # 0 => \A id \in gone : Lists(R, [when |-> limit, kind |-> "container", key |-> id])
  BY <1>4, <1>o, StampsAre
<1>6. /\ Ordered(pending \o R, limit) /\ \A x : Lists(pending, x) \/ Lists(R, x) => Lists(pending \o R, x)
  BY <1>0, <1>5, ConcatOrdered
<1>7. T.pending = pending \o R
  BY <1>3
<1>8. ASSUME NEW v \in DOMAIN T.pods
      PROVE  /\ IsFiniteSet(T.pods[v].ids)
             /\ T.pods[v].expireAt # 0 => Lists(T.pending, [when |-> T.pods[v].expireAt, kind |-> "pod", key |-> v])
  <2>1. CASE v = u
    BY <2>1, <1>p, <1>o
  <2>2. CASE v # u
    BY <2>2, <1>0, <1>p, <1>6, <1>7
  <2> QED BY <2>1, <2>2
<1>9. \A id \in DOMAIN e : id \in Ids /\ (e[id].expireAt # 0 =>
         Lists(T.pending, [when |-> e[id].expireAt, kind |-> "container", key |-> id]))
  <2>1. SUFFICES ASSUME NEW id \in DOMAIN e
                 PROVE  id \in Ids /\ (e[id].expireAt # 0 =>
                          Lists(T.pending, [when |-> e[id].expireAt, kind |-> "container", key |-> id]))
    BY Zenon
  <2>2. CASE id \in o.ids
    BY ONLY <2>2, <1>2, <1>o
  <2>3. CASE id \notin o.ids
    <3>1. id \in DOMAIN byContainer /\ e[id] = byContainer[id]
      BY ONLY <2>1, <2>3, <1>2
    <3>2. id \in Ids /\ (byContainer[id].expireAt # 0 =>
             Lists(pending, [when |-> byContainer[id].expireAt, kind |-> "container", key |-> id]))
      BY <3>1, <1>0
    <3>3. Lists(pending, [when |-> byContainer[id].expireAt, kind |-> "container", key |-> id])
            => Lists(pending \o R, [when |-> byContainer[id].expireAt, kind |-> "container", key |-> id])
      BY ONLY <1>6, Zenon
    <3> QED BY ONLY <3>1, <3>2, <3>3, <1>7
  <2> QED BY ONLY <2>2, <2>3
<1>10. ASSUME NEW id \in DOMAIN T.byContainer
       PROVE  /\ id \in Ids
              /\ T.byContainer[id].expireAt # 0 =>
                   Lists(T.pending, [when |-> T.byContainer[id].expireAt, kind |-> "container", key |-> id])
  <2>1. CASE TTL = 0
    <3>1. T.byContainer = Without(e, gone)
      BY <1>3, <2>1 DEF ExpireEntries
    <3>2. id \in DOMAIN e /\ T.byContainer[id] = e[id]
      BY <3>1 DEF Without
    <3> QED BY <3>2, <1>9
  <2>2. CASE TTL # 0
    <3>1. /\ DOMAIN T.byContainer = DOMAIN e
          /\ \A x \in DOMAIN e : /\ T.byContainer[x].uid = e[x].uid
                                 /\ x \in gone => T.byContainer[x].expireAt = now + TTL
                                 /\ x \notin gone => T.byContainer[x] = e[x]
      BY <1>2, <1>3, <1>o, <2>2, ExpireIs
    <3>2. CASE id \in gone
      <4>1. id \in DOMAIN e /\ T.byContainer[id].expireAt = limit
        BY <3>1, <3>2
      <4>2. Lists(T.pending, [when |-> limit, kind |-> "container", key |-> id])
        BY <3>2, <2>2, <1>5, <1>6, <1>7
      <4> QED BY <4>1, <4>2, <1>9
    <3>3. CASE id \notin gone
      BY <3>1, <3>3, <1>9
    <3> QED BY <3>2, <3>3
  <2> QED BY <2>1, <2>2
<1> QED BY <1>6, <1>7, <1>8, <1>10 DEF PendingOK

\* A list whose due prefix is cut off, and what it still names.
LEMMA CutKeeps ==
  ASSUME NEW limit \in Nat, NEW Q, Ordered(Q, limit), NEW m \in 0..Len(Q), NEW R, R = SubSeq(Q, m + 1, Len(Q))
  PROVE  /\ Ordered(R, limit)
         /\ \A k \in m + 1..Len(Q) : Lists(R, Q[k])
<1>0. Q \in Seq(StampRecords) /\ Len(Q) \in Nat /\ m \in Nat /\ m <= Len(Q)
  BY DEF Ordered
<1>1. \A i \in m + 1..Len(Q) : Q[i] \in StampRecords
  BY <1>0
<1>2. /\ R \in Seq(StampRecords) /\ Len(R) = (IF m + 1 <= Len(Q) THEN Len(Q) - (m + 1) + 1 ELSE 0)
      /\ \A i \in 1..Len(Q) - (m + 1) + 1 : R[i] = Q[m + 1 + i - 1]
  BY <1>0, <1>1, SubSeqProperties
<1>3. Len(R) = Len(Q) - m /\ \A i \in 1..Len(R) : m + i \in 1..Len(Q) /\ R[i] = Q[m + i]
  BY <1>0, <1>2
<1>4. ASSUME NEW k \in m + 1..Len(Q) PROVE Lists(R, Q[k])
  <2>1. k - m \in 1..Len(R) /\ m + (k - m) = k
    BY <1>0, <1>3
  <2>2. R[k - m] = Q[k]
    BY <2>1, <1>3
  <2> QED BY <2>1, <2>2 DEF Lists
<1>5. \A i, j \in 1..Len(R) : i <= j => m + i <= m + j
  BY <1>0, <1>3
<1>6. Ordered(R, limit)
  BY <1>2, <1>3, <1>5 DEF Ordered
<1> QED BY <1>4, <1>6

LEMMA CountUpTo == ASSUME NEW n \in Nat PROVE IsFiniteSet(1..n) /\ Cardinality(1..n) = n
  BY FS_Interval

LEMMA SweepLists ==
  ASSUME StoreInv, PendingOK(State, now + TTL), Sweep
  PROVE  PendingOK(State, now + TTL)'
<1> USE StoreAssumption
<1> PICK limit \in Nat : limit = now + TTL
  BY DEF StoreInv
<1>0. /\ Ordered(pending, limit) /\ pending \in Seq(StampRecords) /\ DOMAIN pending = 1..Len(pending) /\ Len(pending) \in Nat
      /\ \A v \in DOMAIN pods : IsFiniteSet(pods[v].ids)
      /\ \A v \in DOMAIN pods : pods[v].expireAt # 0 =>
            Lists(pending, [when |-> pods[v].expireAt, kind |-> "pod", key |-> v])
      /\ \A id \in DOMAIN byContainer : id \in Ids /\ (byContainer[id].expireAt # 0 =>
            Lists(pending, [when |-> byContainer[id].expireAt, kind |-> "container", key |-> id]))
  <2>1. PendingOK(State, limit) /\ State.pods = pods /\ State.byContainer = byContainer /\ State.pending = pending
    BY DEF State
  <2>2. Ordered(pending, limit) /\ pending \in Seq(StampRecords)
    BY <2>1 DEF PendingOK, Ordered
  <2>3. DOMAIN pending = 1..Len(pending) /\ Len(pending) \in Nat
    BY <2>2
  <2> QED BY <2>1, <2>2, <2>3 DEF PendingOK
<1> DEFINE due   == {k \in DOMAIN pending : \A j \in 1..k : Expired(pending[j].when)}
           keys(kind) == {pending[k].key : k \in {j \in due : pending[j].kind = kind}}
           goneP == {u \in keys("pod") \cap DOMAIN pods : Expired(pods[u].expireAt)}
           goneC == {id \in DOMAIN byContainer :
                    \/ id \in keys("container") /\ Expired(byContainer[id].expireAt)
                    \/ byContainer[id].uid \in goneP /\ id \in pods[byContainer[id].uid].ids}
<1>1. /\ pods' = Without(pods, goneP) /\ byContainer' = Without(byContainer, goneC)
      /\ pending' = SubSeq(pending, Cardinality(due) + 1, Len(pending)) /\ now' = now
  BY DEF Sweep
<1>2. PICK m \in 0..Len(pending) : due = 1..m /\ m = Cardinality(due)
  <2>1. due \subseteq 1..Len(pending) /\ \A k \in due : 1..k \subseteq due
    BY <1>0
  <2> HIDE DEF due
  <2> PICK n \in Nat : n = Len(pending)
    BY <1>0
  <2>2. IsFiniteSet(1..n) /\ Cardinality(1..n) = n
    BY CountUpTo
  <2>i. due \in SUBSET (1..n)
    BY <2>1
  <2>c. IsFiniteSet(due) /\ Cardinality(due) <= Cardinality(1..n)
    BY <2>i, <2>2, FS_Subset, Zenon
  <2>3. IsFiniteSet(due) /\ Cardinality(due) <= n
    BY <2>2, <2>c
  <2>4. PICK m \in Nat : m = Cardinality(due)
    BY <2>3, FS_CardinalityType
  <2>5. ASSUME NEW k \in due PROVE k \in 1..m
    <3>1. k \in Nat /\ k >= 1 /\ 1..k \subseteq due
      BY <2>1, <1>0
    <3>2. IsFiniteSet(1..k) /\ Cardinality(1..k) = k
      BY <3>1, CountUpTo
    <3>3. Cardinality(1..k) <= Cardinality(due)
      BY <3>1, <2>3, FS_Subset
    <3> QED BY <3>1, <3>2, <3>3, <2>4
  <2>6. IsFiniteSet(1..m) /\ Cardinality(1..m) = m
    BY <2>4, CountUpTo
  <2>7. due = 1..m
    BY <2>4, <2>5, <2>6, FS_Subset
  <2> QED BY <2>3, <2>4, <2>7, <1>0
<1>3. /\ Ordered(pending', limit) /\ \A k \in m + 1..Len(pending) : Lists(pending', pending[k])
  BY <1>0, <1>1, <1>2, CutKeeps
<1>4. \A k \in 1..m : k \in due
  BY <1>2
<1>d. \A k \in due : k \in DOMAIN pending /\ k \in Nat /\ Expired(pending[k].when)
  BY <1>0
<1> HIDE DEF due
<1>5. ASSUME NEW v \in DOMAIN pods, v \notin goneP, pods[v].expireAt # 0
      PROVE  Lists(pending', [when |-> pods[v].expireAt, kind |-> "pod", key |-> v])
  <2> PICK k \in 1..Len(pending) : pending[k] = [when |-> pods[v].expireAt, kind |-> "pod", key |-> v]
    BY <1>0, <1>5 DEF Lists
  <2>1. k \notin due
    <3> SUFFICES ASSUME k \in due PROVE FALSE
      OBVIOUS
    <3>1. pending[k].kind = "pod" /\ pending[k].key = v /\ Expired(pods[v].expireAt)
      BY <1>d
    <3>2. v \in keys("pod")
      BY <3>1
    <3> QED BY <3>1, <3>2, <1>5
  <2>2. k \in m + 1..Len(pending)
    BY <2>1, <1>0, <1>4
  <2> QED BY <2>2, <1>3
<1>6. ASSUME NEW id \in DOMAIN byContainer, id \notin goneC, byContainer[id].expireAt # 0
      PROVE  Lists(pending', [when |-> byContainer[id].expireAt, kind |-> "container", key |-> id])
  <2> PICK k \in 1..Len(pending) : pending[k] = [when |-> byContainer[id].expireAt, kind |-> "container", key |-> id]
    BY <1>0, <1>6 DEF Lists
  <2>1. k \notin due
    <3> SUFFICES ASSUME k \in due PROVE FALSE
      OBVIOUS
    <3>1. pending[k].kind = "container" /\ pending[k].key = id /\ Expired(byContainer[id].expireAt)
      BY <1>d
    <3>2. id \in keys("container")
      BY <3>1
    <3> HIDE DEF keys
    <3> HIDE DEF goneP
    <3> QED BY <3>1, <3>2, <1>6
  <2>2. k \in m + 1..Len(pending)
    BY <2>1, <1>0, <1>4
  <2> QED BY <2>2, <1>3
<1>7. /\ \A v \in DOMAIN pods' : v \in DOMAIN pods /\ v \notin goneP /\ pods'[v] = pods[v]
      /\ \A id \in DOMAIN byContainer' : id \in DOMAIN byContainer /\ id \notin goneC /\ byContainer'[id] = byContainer[id]
  <2> HIDE DEF goneP, goneC
  <2> QED BY <1>1 DEF Without
<1> HIDE DEF goneP, goneC
<1>8. now' + TTL = limit
  BY <1>1
<1>9. /\ \A v \in DOMAIN pods' : /\ IsFiniteSet(pods'[v].ids)
                                 /\ pods'[v].expireAt # 0 =>
                                      Lists(pending', [when |-> pods'[v].expireAt, kind |-> "pod", key |-> v])
      /\ \A id \in DOMAIN byContainer' : /\ id \in Ids
                                         /\ byContainer'[id].expireAt # 0 =>
                                              Lists(pending', [when |-> byContainer'[id].expireAt, kind |-> "container", key |-> id])
  BY <1>0, <1>5, <1>6, <1>7
<1> QED BY <1>3, <1>8, <1>9 DEF PendingOK, State

LEMMA TickLists ==
  ASSUME StoreInv, PendingOK(State, now + TTL), now' \in Nat, now' >= now, UNCHANGED <<pods, byContainer, pending>>
  PROVE  PendingOK(State, now + TTL)'
<1>t. TTL \in Nat /\ now \in Nat
  BY StoreAssumption DEF StoreInv
<1> PICK limit \in Nat : limit = now + TTL
  BY <1>t
<1>n. PICK next \in Nat : next = now' /\ next >= now
  OBVIOUS
<1>k. limit = now + TTL
  OBVIOUS
<1>g. next >= now
  BY <1>n
<1>l. next + TTL \in Nat /\ next + TTL >= limit
  BY ONLY <1>g, <1>k, <1>t
<1> PICK later \in Nat : later = next + TTL
  BY ONLY <1>l
<1>1. PendingOK(State, limit) /\ State.pods = pods /\ State.byContainer = byContainer /\ State.pending = pending
  BY DEF State
<1>2. later = now' + TTL /\ later >= limit
  BY <1>n, <1>l
<1>3. Ordered(pending, limit)
  BY <1>1 DEF PendingOK
<1>4. Ordered(pending, later)
  <2>0. \A k \in 1..Len(pending) : pending[k] \in StampRecords
    BY <1>3 DEF Ordered
  <2>1. \A k \in 1..Len(pending) : pending[k].when \in Nat
    BY <2>0 DEF StampRecords
  <2> QED BY <2>1, <1>2, <1>3 DEF Ordered
<1>5. State'.pods = pods /\ State'.byContainer = byContainer /\ State'.pending = pending
  BY DEF State
<1>6. PendingOK(State', later)
  BY <1>1, <1>4, <1>5 DEF PendingOK
<1> QED BY <1>2, <1>6

LEMMA UpsertLists ==
  ASSUME StoreInv, PendingOK(State, now + TTL), NEW u \in Uids, NEW o \in Objects[u], NEW fav, UpsertPod(u, o, fav)
  PROVE  PendingOK(State, now + TTL)'
<1> USE StoreAssumption
<1> PICK S1 : S1 = Indexed(u, o, OldOf(u).ids, OldOf(u).node)
  OBVIOUS
<1> PICK prev : prev = S1.byPodName[NameOf[u]]
  OBVIOUS
<1>1. Core(S1, u, now + TTL) /\ PendingOK(S1, now + TTL)
  BY IndexedKeeps, IndexedLists
<1>2. now \in Nat \ {0}
  BY DEF StoreInv
<1> PICK S2 : S2 = Superseded(S1, u, fav)
  OBVIOUS
<1>3. PendingOK(S2, now + TTL)
  <2>1. CASE prev \notin {NoUid, u} /\ Live(S1.pods, prev)
    <3>1. S2 = Deleted(S1, prev, fav) /\ prev \in DOMAIN S1.pods
      BY <2>1 DEF Superseded, Live
    <3> QED BY <3>1, <1>1, <1>2, DeletedLists
  <2>2. CASE ~(prev \notin {NoUid, u} /\ Live(S1.pods, prev))
    <3>1. S2 = S1
      BY <2>2 DEF Superseded
    <3> QED BY <3>1, <1>1
  <2> QED BY <2>1, <2>2
<1>4. pods' = S2.pods /\ byContainer' = S2.byContainer /\ pending' = S2.pending /\ now' = now
  BY DEF UpsertPod, Becomes, OldOf
<1> QED BY <1>3, <1>4 DEF PendingOK, State

LEMMA DeleteLists ==
  ASSUME StoreInv, PendingOK(State, now + TTL), NEW u \in Uids, NEW fav, DeletePod(u, fav)
  PROVE  PendingOK(State, now + TTL)'
<1> PICK T : T = Deleted(State, u, fav)
  OBVIOUS
<1>1. u \in DOMAIN State.pods /\ Core(State, NoUid, now + TTL) /\ now \in Nat \ {0}
  BY DEF DeletePod, State, StoreInv
<1>2. PendingOK(T, now + TTL)
  BY <1>1, DeletedLists
<1>3. pods' = T.pods /\ byContainer' = T.byContainer /\ pending' = T.pending /\ now' = now
  BY DEF DeletePod, Becomes
<1> QED BY <1>2, <1>3 DEF PendingOK, State

LEMMA NextLists ==
  StoreInv /\ PendingOK(State, now + TTL) /\ [Next]_vars => PendingOK(State, now + TTL)'
<1> SUFFICES ASSUME StoreInv, PendingOK(State, now + TTL), [Next]_vars PROVE PendingOK(State, now + TTL)'
  OBVIOUS
<1>n. now \in Nat
  BY DEF StoreInv
<1>1. CASE UNCHANGED vars
  <2>1. UNCHANGED <<now, pods, byContainer, pending>>
    BY <1>1 DEF vars, storeVars
  <2> QED BY <2>1, <1>n, TickLists
<1>2. CASE Sweep
  BY <1>2, SweepLists
<1>3. CASE Tick
  <2>1. now' = now + 1 /\ UNCHANGED <<pods, byContainer, pending>>
    BY <1>3 DEF Tick, storeVars
  <2> QED BY <2>1, <1>n, TickLists
<1>4. ASSUME NEW n \in MemoNodes, SampleToken(n) \/ RememberTargets(n) PROVE PendingOK(State, now + TTL)'
  <2>1. UNCHANGED <<now, pods, byContainer, pending>>
    BY <1>4 DEF SampleToken, RememberTargets, storeVars
  <2> QED BY <2>1, <1>n, TickLists
<1>5. ASSUME NEW u \in Uids, NEW fav \in FirstMet, DeletePod(u, fav) \/ \E o \in Objects[u] : UpsertPod(u, o, fav)
      PROVE  PendingOK(State, now + TTL)'
  BY <1>5, UpsertLists, DeleteLists
<1> QED BY <1>1, <1>2, <1>3, <1>4, <1>5 DEF Next

\* No tombstone leaks (deletePodLocked, indexContainersLocked, sweep): whatever carries an
\* expiry is in the list the sweep walks, under that expiry, and the list is in the order its
\* stamps fall due, so the sweep's early stop never passes one by.
THEOREM TombstonesNeverLeak == Spec => []TombstonesListed
<1> USE StoreAssumption
<1>1. Init => PendingOK(State, now + TTL)
  <2> SUFFICES ASSUME Init PROVE PendingOK(State, now + TTL)
    OBVIOUS
  <2>1. State.pods = EmptyMap /\ State.byContainer = EmptyMap /\ State.pending = <<>>
    BY DEF Init, State
  <2>2. Ordered(<<>>, now + TTL)
    BY DEF Ordered
  <2> QED BY <2>1, <2>2 DEF PendingOK, EmptyMap
<1>2. StoreInv /\ PendingOK(State, now + TTL) => TombstonesListed
  <2> SUFFICES ASSUME StoreInv, PendingOK(State, now + TTL) PROVE TombstonesListed
    OBVIOUS
  <2>1. State.pods = pods /\ State.byContainer = byContainer /\ State.pending = pending
    BY DEF State
  <2>2. Ordered(pending, now + TTL) /\ pending \in Seq(StampRecords)
    BY <2>1 DEF PendingOK, Ordered
  <2>3. DOMAIN pending = 1..Len(pending) /\ Len(pending) \in Nat
    BY <2>2
  <2>4. \A k \in 2..Len(pending) : pending[k - 1].when <= pending[k].when
    <3> SUFFICES ASSUME NEW k \in 2..Len(pending) PROVE pending[k - 1].when <= pending[k].when
      OBVIOUS
    <3>1. k \in 1..Len(pending) /\ k - 1 \in 1..Len(pending) /\ k - 1 <= k
      BY <2>3
    <3> QED BY <3>1, <2>2 DEF Ordered
  <2> QED BY <2>1, <2>3, <2>4 DEF PendingOK, Lists, TombstonesListed
<1> QED BY <1>1, <1>2, StoreInitEstablishes, StoreNextKeeps, NextLists, PTL DEF Spec

-----------------------------------------------------------------------------
(* The metadata client's cache.                                             *)

CacheEntry == [obj : Nat, ver : Nat, exp : Nat, used : Nat]
AnswerRecords == [status : {200, 304}, ver : Nat, age : {0, MaxAge}]
LookupRecord == [pc : {"idle", "sent", "answered"}, key : MetaKeys \cup {0}, entry : CacheEntry,
                 at : Nat, resp : AnswerRecords \cup {<< >>}, calls : Nat]

\* The server: the versions before the current one were replaced, each at a time
\* that is past.
ServerInv ==
  /\ metaClock \in Nat /\ objects \in Nat /\ current \in [MetaKeys -> Nat \ {0}]
  /\ \A k \in MetaKeys : \A v \in 1..(current[k] - 1) :
       <<k, v>> \in DOMAIN movedOn /\ movedOn[<<k, v>>] \in 0..metaClock

\* Version v of the object was the server's at some time from t on.
CurrentSince(k, v, t) == v \in 1..current[k] /\ (v # current[k] => movedOn[<<k, v>>] >= t)

\* An entry's version was current within its lifetime.
EntryOK(k, e) ==
  /\ e \in CacheEntry /\ e.obj \in 1..objects /\ e.exp <= metaClock + MaxAge
  /\ CurrentSince(k, e.ver, e.exp - MaxAge)

\* The entry a lookup began with is the cached one only if the version is; its answer was
\* current after the request began.
LookupOK(q) ==
  /\ q \in LookupRecord
  /\ q.pc # "idle" =>
       /\ q.key \in MetaKeys /\ q.at \in 0..metaClock /\ q.entry.obj \in 0..objects
       /\ q.key \in Cached /\ metaCache[q.key].obj = q.entry.obj => metaCache[q.key].ver = q.entry.ver
  /\ q.pc = "answered" =>
       /\ q.resp \in AnswerRecords /\ CurrentSince(q.key, q.resp.ver, q.at)
       /\ q.resp.status = 304 => q.resp.ver = q.entry.ver

CacheInv ==
  /\ metaCache \in [Cached -> CacheEntry]
  /\ Cached \subseteq MetaKeys /\ IsFiniteSet(Cached) /\ Cardinality(Cached) <= MaxCacheEntries
  /\ \A k \in Cached : EntryOK(k, metaCache[k])

LookupsInv == lookup \in [Lookups -> LookupRecord] /\ \A l \in Lookups : LookupOK(lookup[l])

MetaInv == ServerInv /\ CacheInv /\ LookupsInv

LEMMA MetaInitEstablishes == MetaInit => MetaInv
<1> SUFFICES ASSUME MetaInit PROVE MetaInv
  OBVIOUS
<1>1. ServerInv
  BY DEF MetaInit, ServerInv
<1>2. Cached = {} /\ IsFiniteSet({}) /\ Cardinality({}) = 0
  BY FS_EmptySet DEF MetaInit, Cached
<1>3. CacheInv
  <2>1. Cardinality(Cached) <= MaxCacheEntries /\ IsFiniteSet(Cached)
    BY <1>2, MetaAssumption
  <2>2. metaCache \in [Cached -> CacheEntry]
    BY <1>2 DEF MetaInit, Cached
  <2> QED BY <1>2, <2>1, <2>2 DEF CacheInv
<1>4. Idle \in LookupRecord /\ Idle.pc = "idle"
  BY DEF Idle, LookupRecord, CacheEntry, None
<1>5. LookupsInv
  BY <1>4 DEF MetaInit, LookupsInv, LookupOK
<1> QED BY <1>1, <1>3, <1>5 DEF MetaInv

\* A lookup that returns asks nothing of the rest.
LEMMA IdleOK == ASSUME NEW n \in Nat PROVE LookupOK([Idle EXCEPT !.calls = n])'
<1> DEFINE q == [Idle EXCEPT !.calls = n]
<1>1. q \in LookupRecord /\ q.pc = "idle"
  BY DEF Idle, LookupRecord, CacheEntry, None
<1> HIDE DEF q
<1>2. LookupOK(q)'
  BY <1>1 DEF LookupOK
<1> QED BY <1>2 DEF q

\* One lookup moves, to q; the others are judged against the cache as it is now.
LEMMA LookupStep ==
  ASSUME LookupsInv, NEW l \in Lookups, NEW q, lookup' = [lookup EXCEPT ![l] = q], LookupOK(q)',
         ASSUME NEW x, LookupOK(x) PROVE LookupOK(x)'
  PROVE  LookupsInv'
<1>1. lookup' \in [Lookups -> LookupRecord]
  BY DEF LookupsInv, LookupOK
<1>2. ASSUME NEW m \in Lookups PROVE LookupOK(lookup[m])'
  <2>1. PICK x : x = lookup[m]
    OBVIOUS
  <2>2. LookupOK(x)'
    BY <2>1 DEF LookupsInv
  <2>3. CASE m = l
    <3>1. lookup'[m] = q
      BY <2>3 DEF LookupsInv
    <3> QED BY <3>1
  <2>4. CASE m # l
    <3>1. lookup'[m] = x
      BY <2>1, <2>4 DEF LookupsInv
    <3> QED BY <2>2, <3>1
  <2> QED BY <2>3, <2>4
<1> QED BY <1>1, <1>2 DEF LookupsInv

\* A step of the client leaves a lookup q what it was: entries are new objects, or
\* the ones they were, and the server has not moved.
LEMMA LookupStays ==
  ASSUME MetaInv, NEW q, LookupOK(q), metaClock' = metaClock, objects' \in Nat, objects <= objects',
         UNCHANGED <<current, movedOn>>,
         \A k \in Cached' : metaCache'[k].obj \in 0..objects =>
            k \in Cached /\ metaCache'[k].obj = metaCache[k].obj /\ metaCache'[k].ver = metaCache[k].ver
  PROVE  LookupOK(q)'
<1>1. objects \in Nat
  BY DEF MetaInv, ServerInv
<1>2. q.pc # "idle" => q.entry.obj \in 0..objects'
  BY <1>1 DEF LookupOK
<1>3. q.pc # "idle" => (q.key \in Cached' /\ metaCache'[q.key].obj = q.entry.obj => metaCache'[q.key].ver = q.entry.ver)
  BY <1>1 DEF LookupOK
<1>4. q.pc = "answered" => CurrentSince(q.key, q.resp.ver, q.at)'
  BY DEF LookupOK, CurrentSince
<1> QED BY <1>2, <1>3, <1>4 DEF LookupOK

\* The cache after a step that keeps, refreshes or drops entries, or adds one.
LEMMA EntryStays ==
  ASSUME MetaInv, NEW k, NEW e, EntryOK(k, e), metaClock' = metaClock, objects' \in Nat, objects <= objects',
         UNCHANGED <<current, movedOn>>
  PROVE  EntryOK(k, e)'
<1>1. objects \in Nat
  BY DEF MetaInv, ServerInv
<1> QED BY <1>1 DEF EntryOK, CurrentSince

LEMMA CacheStep ==
  ASSUME MetaInv, metaCache' \in [Cached' -> CacheEntry], Cached' \subseteq Cached,
         \A k \in Cached' : EntryOK(k, metaCache[k])'
  PROVE  CacheInv'
<1>1. IsFiniteSet(Cached') /\ Cardinality(Cached') <= Cardinality(Cached) /\ Cardinality(Cached') \in Nat
      /\ Cardinality(Cached) \in Nat
  BY FS_Subset, FS_CardinalityType DEF MetaInv, CacheInv
<1>2. Cardinality(Cached') <= MaxCacheEntries
  BY <1>1, MetaAssumption DEF MetaInv, CacheInv
<1> QED BY <1>1, <1>2 DEF MetaInv, CacheInv

\* An entry whose use is stamped is the entry it was.
LEMMA StampOK ==
  ASSUME MetaInv, NEW k \in Cached, metaCache' = [metaCache EXCEPT ![k].used = metaClock] \/ metaCache' = metaCache,
         UNCHANGED <<metaClock, current, movedOn, objects>>
  PROVE  /\ CacheInv'
         /\ Cached' = Cached /\ \A j \in Cached : metaCache'[j].obj = metaCache[j].obj /\ metaCache'[j].ver = metaCache[j].ver
<1>0. metaCache \in [Cached -> CacheEntry] /\ metaClock \in Nat /\ objects \in Nat
  BY DEF MetaInv, CacheInv, ServerInv
<1>1. Cached' = Cached /\ metaCache' \in [Cached -> CacheEntry]
  BY <1>0 DEF Cached, CacheEntry
<1>2. \A j \in Cached : /\ metaCache'[j].obj = metaCache[j].obj /\ metaCache'[j].ver = metaCache[j].ver
                        /\ metaCache'[j].exp = metaCache[j].exp
  BY <1>0 DEF CacheEntry
<1>3. \A j \in Cached : EntryOK(j, metaCache[j])'
  <2> SUFFICES ASSUME NEW j \in Cached PROVE EntryOK(j, metaCache[j])'
    OBVIOUS
  <2>1. EntryOK(j, metaCache[j])
    BY DEF MetaInv, CacheInv
  <2> QED BY <2>1, <1>0, <1>1, <1>2 DEF EntryOK, CurrentSince
<1> QED BY <1>1, <1>2, <1>3, CacheStep

LEMMA ServerFrame == ASSUME ServerInv, UNCHANGED <<metaClock, current, movedOn>>, objects' \in Nat PROVE ServerInv'
BY DEF ServerInv

LEMMA GetKeeps ==
  ASSUME MetaInv, NEW l \in Lookups, NEW k \in MetaKeys, GetCached(l, k) \/ GetFetches(l, k) PROVE MetaInv'
<1>0. /\ lookup[l] \in LookupRecord /\ lookup \in [Lookups -> LookupRecord] /\ lookup[l].pc = "idle"
      /\ metaClock \in Nat /\ objects \in Nat
  BY DEF MetaInv, LookupsInv, ServerInv, GetCached, GetFetches
<1>1. UNCHANGED <<metaClock, current, movedOn, objects>>
  BY DEF GetCached, GetFetches
<1>2. /\ CacheInv'
      /\ Cached' = Cached /\ \A j \in Cached : metaCache'[j].obj = metaCache[j].obj /\ metaCache'[j].ver = metaCache[j].ver
  <2>1. CASE k \in Cached
    <3>1. metaCache' = [metaCache EXCEPT ![k].used = metaClock] \/ metaCache' = metaCache
      BY DEF GetCached, GetFetches
    <3> QED BY <1>1, <2>1, <3>1, StampOK
  <2>2. CASE k \notin Cached
    <3>1. metaCache' = metaCache
      BY <2>2 DEF GetCached, GetFetches
    <3> QED BY <1>1, <3>1 DEF MetaInv, CacheInv, Cached, EntryOK, CurrentSince
  <2> QED BY <2>1, <2>2
<1>3. ServerInv'
  BY <1>0, <1>1, ServerFrame DEF MetaInv
<1>4. \A m \in Lookups : LookupOK(lookup[m]) 
  BY DEF MetaInv, LookupsInv
<1>5. ASSUME NEW q, LookupOK(q) PROVE LookupOK(q)'
  BY <1>0, <1>1, <1>2, <1>5, LookupStays
<1>7. PICK q : lookup' = [lookup EXCEPT ![l] = q] /\ LookupOK(q)'
  <2>1. CASE GetCached(l, k)
    <3>1. PICK q : q = [lookup[l] EXCEPT !.calls = @ + 1]
      OBVIOUS
    <3>2. q \in LookupRecord /\ q.pc = "idle"
      BY <1>0, <3>1 DEF LookupRecord
    <3>3. lookup' = [lookup EXCEPT ![l] = q]
      BY <2>1, <1>0, <3>1 DEF GetCached, LookupRecord
    <3>4. LookupOK(q)'
      BY <3>2 DEF LookupOK
    <3> QED BY <3>3, <3>4
  <2>2. CASE GetFetches(l, k)
    <3>1. PICK e : e = IF k \in Cached THEN metaCache[k] ELSE None
      OBVIOUS
    <3>2. PICK q : q = [pc |-> "sent", key |-> k, entry |-> e, at |-> metaClock, resp |-> << >>, calls |-> lookup[l].calls + 1]
      OBVIOUS
    <3>3. lookup' = [lookup EXCEPT ![l] = q]
      BY <2>2, <1>0, <3>1, <3>2 DEF GetFetches
    <3>4. e \in CacheEntry /\ e.obj \in 0..objects /\ (k \in Cached => e = metaCache[k]) /\ (k \notin Cached => e.obj = 0)
      BY <1>0, <3>1 DEF MetaInv, CacheInv, EntryOK, CacheEntry, None
    <3>5. /\ q \in LookupRecord /\ q.pc = "sent" /\ q.key = k /\ q.entry = e /\ q.at = metaClock
      <4>1. lookup[l].calls + 1 \in Nat
        BY <1>0 DEF LookupRecord
      <4> QED BY <1>0, <3>2, <3>4, <4>1 DEF LookupRecord
    <3>6. LookupOK(q)'
      BY <1>0, <1>1, <1>2, <3>4, <3>5 DEF LookupOK
    <3> QED BY <3>3, <3>6
  <2> QED BY <2>1, <2>2
<1>8. LookupsInv'
  BY <1>4, <1>5, <1>7, LookupStep DEF MetaInv
<1> QED BY <1>2, <1>3, <1>8 DEF MetaInv

LEMMA AnswerKeeps ==
  ASSUME MetaInv, NEW l \in Lookups, NEW age \in {0, MaxAge}, ServerAnswers(l, age) PROVE MetaInv'
<1>1. PICK old : old = lookup[l]
  OBVIOUS
<1>2. /\ lookup \in [Lookups -> LookupRecord] /\ old \in LookupRecord /\ old.pc = "sent" /\ LookupOK(old)
      /\ metaClock \in Nat /\ objects \in Nat /\ old.key \in MetaKeys /\ current[old.key] \in Nat \ {0}
  BY <1>1 DEF MetaInv, LookupsInv, LookupOK, ServerInv, ServerAnswers
<1>3. PICK r : r = [status |-> IF old.entry # None /\ old.entry.ver = current[old.key] THEN 304 ELSE 200,
                    ver |-> current[old.key], age |-> age]
  OBVIOUS
<1>4. PICK q : q = [old EXCEPT !.pc = "answered", !.resp = r]
  OBVIOUS
<1>5. UNCHANGED <<metaClock, current, movedOn, metaCache, lastSweep, objects>> /\ lookup' = [lookup EXCEPT ![l] = q]
  BY <1>1, <1>3, <1>4 DEF ServerAnswers
<1>6. r \in AnswerRecords /\ r.ver = current[old.key] /\ (r.status = 304 => r.ver = old.entry.ver)
  BY <1>2, <1>3 DEF AnswerRecords
<1>7. /\ q \in LookupRecord /\ q.pc = "answered" /\ q.resp = r /\ q.key = old.key /\ q.at = old.at
      /\ q.entry = old.entry
  BY <1>2, <1>4, <1>6 DEF LookupRecord
<1>8. ServerInv'
  BY <1>2, <1>5, ServerFrame DEF MetaInv
<1>9. CacheInv'
  BY <1>5 DEF MetaInv, CacheInv, EntryOK, CurrentSince, Cached
<1>10. ASSUME NEW x, LookupOK(x) PROVE LookupOK(x)'
  BY <1>5, <1>10 DEF LookupOK, CurrentSince, Cached
<1>11. LookupOK(q)
  BY <1>2, <1>6, <1>7 DEF LookupOK, CurrentSince
<1>12. LookupsInv'
  BY <1>5, <1>10, <1>11, LookupStep DEF MetaInv
<1> QED BY <1>8, <1>9, <1>12 DEF MetaInv

\* A lookup returns: only the cache has changed.
LEMMA ReturnKeeps ==
  ASSUME MetaInv, NEW l \in Lookups, Returns(l), UNCHANGED <<metaClock, current, movedOn>>,
         objects' \in Nat, objects <= objects', CacheInv',
         \A k \in Cached' : metaCache'[k].obj \in 0..objects =>
            k \in Cached /\ metaCache'[k].obj = metaCache[k].obj /\ metaCache'[k].ver = metaCache[k].ver
  PROVE  MetaInv'
<1>1. lookup[l].calls \in Nat
  BY DEF MetaInv, LookupsInv, LookupRecord
<1>2. PICK n \in Nat : n = lookup[l].calls
  BY <1>1
<1>3. PICK q : q = [Idle EXCEPT !.calls = n]
  OBVIOUS
<1>4. lookup' = [lookup EXCEPT ![l] = q] /\ LookupOK(q)'
  BY <1>2, <1>3, IdleOK DEF Returns
<1>5. ASSUME NEW x, LookupOK(x) PROVE LookupOK(x)'
  BY <1>5, LookupStays
<1>6. LookupsInv'
  BY <1>4, <1>5, LookupStep DEF MetaInv
<1>7. ServerInv'
  BY ServerFrame DEF MetaInv
<1> QED BY <1>6, <1>7 DEF MetaInv

\* An answer to the request that began with entry q.entry: the entry is refreshed, dropped,
\* or, when another is cached by now, left alone.
LEMMA RefreshKeeps ==
  ASSUME MetaInv, NEW l \in Lookups, NEW q, q = lookup[l], q.pc = "answered",
         q.resp.status = 304 \/ q.resp.age = 0, metaCache' = RefreshEntry(q),
         UNCHANGED <<metaClock, current, movedOn, objects>>
  PROVE  /\ CacheInv'
         /\ \A k \in Cached' : k \in Cached /\ metaCache'[k].obj = metaCache[k].obj /\ metaCache'[k].ver = metaCache[k].ver
<1>0. /\ metaCache \in [Cached -> CacheEntry] /\ metaClock \in Nat /\ objects \in Nat /\ LookupOK(q)
      /\ q.at \in Nat /\ q.resp.age \in {0, MaxAge} /\ q.at \in 0..metaClock /\ MaxAge \in Nat \ {0}
      /\ q.resp \in AnswerRecords
  BY MetaAssumption DEF MetaInv, CacheInv, ServerInv, LookupsInv, LookupOK, AnswerRecords
<1>1. \A k \in Cached : EntryOK(k, metaCache[k])
  BY DEF MetaInv, CacheInv
<1>2. CASE metaCache' = metaCache
  BY <1>2 DEF MetaInv, CacheInv, EntryOK, CurrentSince, Cached
<1>3. CASE SameEntry(q) /\ q.resp.age = 0
  <2>1. metaCache' = [j \in Cached \ {q.key} |-> metaCache[j]]
    BY <1>3 DEF RefreshEntry, Dropped1, Cached
  <2>2. Cached' = Cached \ {q.key} /\ metaCache' \in [Cached' -> CacheEntry]
        /\ \A k \in Cached' : k \in Cached /\ metaCache'[k] = metaCache[k]
    BY <1>0, <2>1 DEF Cached
  <2>3. \A k \in Cached' : EntryOK(k, metaCache[k])'
    BY <1>1, <2>2 DEF EntryOK, CurrentSince
  <2> QED BY <2>2, <2>3, CacheStep
<1>4. CASE SameEntry(q) /\ q.resp.age # 0
  <2>1. metaCache' = [metaCache EXCEPT ![q.key].used = metaClock, ![q.key].exp = q.at + q.resp.age]
        /\ q.key \in Cached /\ metaCache[q.key].obj = q.entry.obj
    BY <1>4 DEF RefreshEntry, SameEntry
  <2>2. q.resp.age = MaxAge /\ q.resp.status = 304 /\ q.at + MaxAge \in Nat
    BY <1>0, <1>4
  <2>3. Cached' = Cached /\ metaCache' \in [Cached -> CacheEntry]
    BY <1>0, <2>1, <2>2 DEF Cached, CacheEntry
  <2>4. /\ \A k \in Cached : metaCache'[k].obj = metaCache[k].obj /\ metaCache'[k].ver = metaCache[k].ver
        /\ \A k \in Cached : k # q.key => metaCache'[k].exp = metaCache[k].exp
        /\ metaCache'[q.key].exp = q.at + MaxAge
    BY <1>0, <2>1, <2>2 DEF CacheEntry
  <2>5. ASSUME NEW k \in Cached PROVE EntryOK(k, metaCache[k])'
    <3>1. CASE k # q.key
      BY <1>0, <1>1, <2>3, <2>4, <3>1 DEF EntryOK, CurrentSince
    <3>2. CASE k = q.key
      <4>1. metaCache[k].ver = q.resp.ver /\ CurrentSince(k, q.resp.ver, q.at)
        BY <1>0, <2>1, <2>2, <3>2 DEF LookupOK
      <4>2. CurrentSince(k, metaCache'[k].ver, metaCache'[k].exp - MaxAge)
        BY <1>0, <2>4, <3>2, <4>1 DEF CurrentSince
      <4>3. metaCache'[k].obj \in 1..objects /\ metaCache'[k].exp <= metaClock + MaxAge
        BY <1>0, <1>1, <2>4, <3>2 DEF EntryOK
      <4> QED BY <2>3, <4>2, <4>3 DEF EntryOK, CurrentSince
    <3> QED BY <3>1, <3>2
  <2> QED BY <2>3, <2>4, <2>5, CacheStep
<1> QED BY <1>2, <1>3, <1>4 DEF RefreshEntry

LEMMA AnsweredKeeps ==
  ASSUME MetaInv, NEW l \in Lookups, GetFails(l) \/ NotModified(l) \/ Uncacheable(l) \/ Undecodable(l)
  PROVE  MetaInv'
<1>0. objects \in Nat /\ Returns(l) /\ UNCHANGED <<metaClock, current, movedOn, objects>>
  BY DEF MetaInv, ServerInv, GetFails, NotModified, Uncacheable, Undecodable
<1>1. CASE GetFails(l) \/ Undecodable(l)
  <2>1. metaCache' = metaCache
    BY <1>1 DEF GetFails, Undecodable
  <2>2. CacheInv'
    BY <1>0, <2>1 DEF MetaInv, CacheInv, EntryOK, CurrentSince, Cached
  <2> QED BY <1>0, <2>1, <2>2, ReturnKeeps DEF Cached
<1>2. CASE NotModified(l) \/ Uncacheable(l)
  <2>1. PICK q : q = lookup[l]
    OBVIOUS
  <2>2. q.pc = "answered" /\ (q.resp.status = 304 \/ q.resp.age = 0) /\ metaCache' = RefreshEntry(q)
    BY <1>2, <2>1 DEF NotModified, Uncacheable
  <2>3. /\ CacheInv'
        /\ \A k \in Cached' : k \in Cached /\ metaCache'[k].obj = metaCache[k].obj /\ metaCache'[k].ver = metaCache[k].ver
    BY <1>0, <2>1, <2>2, RefreshKeeps
  <2> QED BY <1>0, <2>3, ReturnKeeps
<1> QED BY <1>1, <1>2

\* Eviction keeps the cache within its cap, whatever it chooses.
LEMMA EvictedOK ==
  ASSUME MetaInv, NEW c, IsFiniteSet(DOMAIN c), NEW d \in Evicted(c)
  PROVE  /\ DOMAIN d \subseteq DOMAIN c /\ d = [k \in DOMAIN d |-> c[k]] /\ IsFiniteSet(DOMAIN d)
         /\ Cardinality(DOMAIN d) <= MaxCacheEntries
<1> DEFINE over == Cardinality(DOMAIN c) > MaxCacheEntries
           due == over \/ metaClock - lastSweep >= CacheSweepEvery
           kept == {k \in DOMAIN c : metaClock - c[k].used <= CacheMaxIdle}
           low == IF Cardinality(kept) <= EvictLowWater THEN {kept}
                  ELSE {S \in SUBSET kept : Cardinality(S) = EvictLowWater}
<1>1. PICK S \in (IF ~due THEN {DOMAIN c} ELSE IF over THEN low ELSE {kept}) : d = [k \in S |-> c[k]]
  BY DEF Evicted
<1>2. kept \subseteq DOMAIN c /\ MaxCacheEntries \in Nat /\ EvictLowWater \in 0..MaxCacheEntries
  BY MetaAssumption
<1> HIDE DEF kept
<1>3. Cardinality(kept) <= Cardinality(DOMAIN c) /\ Cardinality(kept) \in Nat /\ Cardinality(DOMAIN c) \in Nat
  BY <1>2, FS_Subset, FS_CardinalityType
<1>4. S \subseteq DOMAIN c
  BY <1>1, <1>2
<1>5. Cardinality(S) <= MaxCacheEntries
  BY <1>1, <1>2, <1>3
<1>6. IsFiniteSet(S)
  BY <1>4, FS_Subset
<1> QED BY <1>1, <1>4, <1>5, <1>6

LEMMA FetchedKeeps ==
  ASSUME MetaInv, NEW l \in Lookups, Fetched(l) PROVE MetaInv'
<1>1. PICK q : q = lookup[l]
  OBVIOUS
<1>2. PICK e : e = [obj |-> objects + 1, ver |-> q.resp.ver, exp |-> q.at + q.resp.age, used |-> metaClock]
  OBVIOUS
<1>3. PICK c : c = With1(metaCache, q.key, e)
  OBVIOUS
<1>4. /\ q.pc = "answered" /\ q.resp.age > 0 /\ metaCache' \in Evicted(c) /\ objects' = objects + 1 /\ Returns(l)
      /\ UNCHANGED <<metaClock, current, movedOn>>
  BY <1>1, <1>2, <1>3 DEF Fetched
<1>5. /\ metaCache \in [Cached -> CacheEntry] /\ metaClock \in Nat /\ objects \in Nat /\ LookupOK(q)
      /\ q.at \in 0..metaClock /\ q.key \in MetaKeys /\ MaxAge \in Nat \ {0} /\ q.resp \in AnswerRecords /\ q.resp.age = MaxAge
      /\ q.resp.ver \in Nat
  BY <1>1, <1>4, MetaAssumption DEF MetaInv, CacheInv, ServerInv, LookupsInv, LookupOK, AnswerRecords
<1>6. /\ e \in CacheEntry /\ e.obj = objects + 1 /\ e.ver = q.resp.ver /\ e.exp = q.at + MaxAge
  BY <1>2, <1>5 DEF CacheEntry
<1>7. CurrentSince(q.key, e.ver, e.exp - MaxAge)
  BY <1>4, <1>5, <1>6 DEF LookupOK, CurrentSince
<1>8. /\ DOMAIN c = Cached \cup {q.key} /\ c[q.key] = e /\ \A k \in Cached : k # q.key => c[k] = metaCache[k]
  BY <1>3 DEF With1, Cached
<1>9. IsFiniteSet(DOMAIN c)
  BY <1>8, FS_AddElement DEF MetaInv, CacheInv
<1>10. /\ Cached' \subseteq DOMAIN c /\ metaCache' = [k \in Cached' |-> c[k]] /\ IsFiniteSet(Cached')
       /\ Cardinality(Cached') <= MaxCacheEntries
  BY <1>4, <1>9, EvictedOK DEF Cached
<1>11. \A k \in DOMAIN c : c[k] \in CacheEntry
  BY <1>5, <1>6, <1>8
<1>12. metaCache' \in [Cached' -> CacheEntry] /\ \A k \in Cached' : metaCache'[k] = c[k]
  BY <1>10, <1>11
<1>13. ASSUME NEW k \in Cached' PROVE EntryOK(k, metaCache[k])'
  <2>1. CASE k = q.key
    <3>1. metaCache'[k] = e
      BY <1>8, <1>12, <2>1
    <3> QED BY <1>4, <1>5, <1>6, <1>7, <2>1, <3>1 DEF EntryOK, CurrentSince
  <2>2. CASE k # q.key
    <3>1. k \in Cached /\ metaCache'[k] = metaCache[k]
      BY <1>8, <1>10, <1>12, <2>2
    <3>2. EntryOK(k, metaCache[k])
      BY <3>1 DEF MetaInv, CacheInv
    <3> QED BY <1>4, <1>5, <3>1, <3>2 DEF EntryOK, CurrentSince
  <2> QED BY <2>1, <2>2
<1>14. CacheInv'
  BY <1>5, <1>8, <1>10, <1>12, <1>13 DEF MetaInv, CacheInv
<1>15. \A k \in Cached' : metaCache'[k].obj \in 0..objects =>
            k \in Cached /\ metaCache'[k].obj = metaCache[k].obj /\ metaCache'[k].ver = metaCache[k].ver
  BY <1>5, <1>6, <1>8, <1>10, <1>12
<1>16. objects' \in Nat /\ objects <= objects'
  BY <1>4, <1>5
<1> QED BY <1>4, <1>14, <1>15, <1>16, ReturnKeeps

\* The object moves on now: every version that was current until now was so at any
\* request that began before.
LEMMA ChangeKeeps ==
  ASSUME MetaInv, NEW k \in MetaKeys, ObjectChanges(k) PROVE MetaInv'
<1>0. /\ metaClock \in Nat /\ objects \in Nat /\ current \in [MetaKeys -> Nat \ {0}] /\ MaxAge \in Nat
  BY MetaAssumption DEF MetaInv, ServerInv
<1>1. /\ current' = [current EXCEPT ![k] = @ + 1] /\ UNCHANGED <<metaClock, metaCache, objects, lookup>>
      /\ movedOn' = With1(movedOn, <<k, current[k]>>, metaClock)
  BY DEF ObjectChanges
<1>2. /\ DOMAIN movedOn' = DOMAIN movedOn \cup {<<k, current[k]>>} /\ movedOn'[<<k, current[k]>>] = metaClock
      /\ \A x \in DOMAIN movedOn : x # <<k, current[k]>> => movedOn'[x] = movedOn[x]
  BY <1>1 DEF With1
<1>3. \A j \in MetaKeys : j # k => current'[j] = current[j]
  BY <1>0, <1>1
<1>4. current'[k] = current[k] + 1 /\ current' \in [MetaKeys -> Nat \ {0}]
  BY <1>0, <1>1
<1>5. ASSUME NEW j \in MetaKeys, NEW v \in 1..(current[j] - 1)
      PROVE  <<j, v>> # <<k, current[k]>> /\ <<j, v>> \in DOMAIN movedOn /\ movedOn[<<j, v>>] \in 0..metaClock
             /\ <<j, v>> \in DOMAIN movedOn' /\ movedOn'[<<j, v>>] = movedOn[<<j, v>>]
  <2>1. <<j, v>> \in DOMAIN movedOn /\ movedOn[<<j, v>>] \in 0..metaClock
    BY DEF MetaInv, ServerInv
  <2>2. <<j, v>> # <<k, current[k]>>
    BY <1>0
  <2> QED BY <1>2, <2>1, <2>2
<1>6. ServerInv'
  <2>1. ASSUME NEW j \in MetaKeys, NEW v \in 1..(current'[j] - 1)
        PROVE  <<j, v>> \in DOMAIN movedOn' /\ movedOn'[<<j, v>>] \in 0..metaClock
    <3>1. CASE v \in 1..(current[j] - 1)
      BY <1>5, <3>1
    <3>2. CASE v \notin 1..(current[j] - 1)
      <4>1. j = k /\ v = current[k]
        BY <1>0, <1>3, <1>4, <3>2
      <4> QED BY <1>0, <1>2, <4>1
    <3> QED BY <3>1, <3>2
  <2> QED BY <1>0, <1>1, <1>4, <2>1 DEF ServerInv
<1>7. ASSUME NEW j \in MetaKeys, NEW v, NEW t \in Int, t <= metaClock, CurrentSince(j, v, t) PROVE CurrentSince(j, v, t)'
  <2>1. v \in 1..current[j] /\ v \in 1..current'[j]
    BY <1>0, <1>3, <1>4, <1>7 DEF CurrentSince
  <2>2. CASE v # current[j]
    <3>1. v \in 1..(current[j] - 1)
      BY <1>0, <2>1, <2>2
    <3>2. movedOn'[<<j, v>>] >= t
      BY <1>5, <1>7, <2>2, <3>1 DEF CurrentSince
    <3> QED BY <2>1, <3>2 DEF CurrentSince
  <2>3. CASE v = current[j] /\ j # k
    BY <1>3, <2>1, <2>3 DEF CurrentSince
  <2>4. CASE v = current[j] /\ j = k
    <3>1. movedOn'[<<j, v>>] >= t
      BY <1>2, <1>0, <1>7, <2>4
    <3> QED BY <2>1, <3>1 DEF CurrentSince
  <2> QED BY <2>2, <2>3, <2>4
<1>8. CacheInv'
  <2>1. ASSUME NEW j \in Cached PROVE EntryOK(j, metaCache[j])'
    <3>1. PICK e : e = metaCache[j]
      OBVIOUS
    <3>2. EntryOK(j, e) /\ j \in MetaKeys
      BY <3>1 DEF MetaInv, CacheInv
    <3>3. e.exp - MaxAge \in Int /\ e.exp - MaxAge <= metaClock
      BY <1>0, <3>2 DEF EntryOK, CacheEntry
    <3>4. CurrentSince(j, e.ver, e.exp - MaxAge)'
      BY <1>7, <3>2, <3>3 DEF EntryOK
    <3>5. EntryOK(j, e)'
      BY <1>1, <3>2, <3>4 DEF EntryOK
    <3> QED BY <1>1, <3>1, <3>5
  <2> QED BY <1>1, <2>1 DEF MetaInv, CacheInv, Cached
<1>9. ASSUME NEW l \in Lookups PROVE LookupOK(lookup[l])'
  <2>1. PICK q : q = lookup[l]
    OBVIOUS
  <2>2. LookupOK(q)
    BY <2>1 DEF MetaInv, LookupsInv
  <2>3. q.pc = "answered" => CurrentSince(q.key, q.resp.ver, q.at)'
    BY <1>0, <1>7, <2>2 DEF LookupOK
  <2>4. LookupOK(q)'
    BY <1>1, <2>2, <2>3 DEF LookupOK, Cached
  <2> QED BY <1>1, <2>1, <2>4
<1>10. LookupsInv'
  BY <1>1, <1>9 DEF MetaInv, LookupsInv
<1> QED BY <1>6, <1>8, <1>10 DEF MetaInv

LEMMA MetaTickKeeps == ASSUME MetaInv, MetaTick PROVE MetaInv'
<1>0. metaClock \in Nat /\ metaClock' = metaClock + 1 /\ UNCHANGED <<current, movedOn, metaCache, objects, lookup>>
  BY DEF MetaInv, ServerInv, MetaTick
<1>1. ServerInv'
  BY <1>0 DEF MetaInv, ServerInv
<1>2. CacheInv'
  BY <1>0, MetaAssumption DEF MetaInv, CacheInv, Cached, EntryOK, CurrentSince, CacheEntry
<1>3. LookupsInv'
  BY <1>0 DEF MetaInv, LookupsInv, LookupOK, Cached, CurrentSince
<1> QED BY <1>1, <1>2, <1>3 DEF MetaInv

LEMMA MetaNextKeeps == MetaInv /\ [MetaNext]_metaVars => MetaInv'
<1> SUFFICES ASSUME MetaInv, [MetaNext]_metaVars PROVE MetaInv'
  OBVIOUS
<1>1. CASE UNCHANGED metaVars
  BY <1>1 DEF MetaInv, ServerInv, CacheInv, LookupsInv, LookupOK, EntryOK, CurrentSince, Cached, metaVars
<1>2. CASE MetaNext
  BY <1>2, GetKeeps, AnswerKeeps, AnsweredKeeps, FetchedKeeps, ChangeKeeps, MetaTickKeeps DEF MetaNext
<1> QED BY <1>1, <1>2

\* For any number of lookups and keys, responses in any order and any evictions: the
\* cache answers only with an object that was the server's less than a lifetime ago,
\* and stays within its cap (refreshEntry, evictLocked).
THEOREM CacheStaysFresh == MetaSpec => []CacheNeverStale
<1>1. MetaInv => CacheNeverStale
  <2> SUFFICES ASSUME MetaInv, NEW k \in Cached, metaClock < metaCache[k].exp, metaCache[k].ver # current[k]
               PROVE  movedOn[<<k, metaCache[k].ver>>] > metaClock - MaxAge
    BY DEF CacheNeverStale, MetaInv, CacheInv
  <2>1. EntryOK(k, metaCache[k]) /\ k \in MetaKeys /\ metaClock \in Nat /\ MaxAge \in Nat /\ current[k] \in Nat \ {0}
    BY MetaAssumption DEF MetaInv, CacheInv, ServerInv
  <2>2. movedOn[<<k, metaCache[k].ver>>] >= metaCache[k].exp - MaxAge /\ metaCache[k].ver \in 1..current[k]
    BY <2>1 DEF EntryOK, CurrentSince
  <2>3. movedOn[<<k, metaCache[k].ver>>] \in Nat
    BY <2>1, <2>2 DEF MetaInv, ServerInv
  <2> QED BY <2>1, <2>2, <2>3 DEF EntryOK, CacheEntry
<1>2. MetaSpec => []MetaInv
  BY MetaInitEstablishes, MetaNextKeeps, PTL DEF MetaSpec
<1> QED BY <1>1, <1>2, PTL

-----------------------------------------------------------------------------
(* The bearer tokens.                                                       *)

AskerRecords == [pc : {"idle", "await", "timeout", "first"}, gen : Nat, calls : Nat]
ReadRecords == [side : Sides, gen : Nat, got : Nat, taken : BOOLEAN]
RotRecords == [cur : Nat \ {0}, prev : Nat, until : Nat, next : Nat, failing : BOOLEAN]
FlightRecords == [reading : BOOLEAN, gen : Nat, stalled : BOOLEAN]

\* One side's flight f, of which ids are the claims waited out and reported the
\* stalls told: a read in flight is the one of the latest claim and the only one.
SideOK(s) ==
  /\ \A r \in reads : r.side = s => flight[s].reading /\ r.gen = flight[s].gen
  /\ \A r, q \in reads : r.side = s /\ q.side = s => r = q
  /\ flight[s].reading => \E r \in reads : r.side = s
  /\ flight[s].stalled => flight[s].reading /\ flight[s].gen \in waitedOut[s]
  /\ told[s] = IF flight[s].stalled THEN {flight[s].gen} ELSE {}

FlightInv ==
  /\ sideOf \in [TokenCallers -> Sides] /\ asker \in [TokenCallers -> AskerRecords]
  /\ flight \in [Sides -> FlightRecords] /\ reads \subseteq ReadRecords
  /\ waitedOut \in [Sides -> SUBSET Nat] /\ told \in [Sides -> SUBSET Nat]
  /\ \A s \in Sides : SideOK(s)
  /\ \A c \in TokenCallers : asker[c].pc = "timeout" => asker[c].gen \in waitedOut[sideOf[c]]

\* The contents of the file succeed one another, more than a grace apart.
SecretInv ==
  /\ bearerClock \in Nat /\ secret \in [val : Nat \ {0}, readable : BOOLEAN]
  /\ movedAt \in [1..(secret.val - 1) -> Nat]
  /\ \A v \in 1..(secret.val - 1) : movedAt[v] <= bearerClock
  /\ \A v, w \in 1..(secret.val - 1) : v < w => movedAt[v] + Grace < movedAt[w]

\* Tokens are met in the order of the file's contents, a read on its way holds
\* none older than the current one, and whatever is accepted no more is past its grace.
RotInv ==
  /\ rot \in RotRecords
  /\ rot.cur <= secret.val
  /\ seen \subseteq 1..rot.cur
  /\ rot.prev # Unread => rot.prev < rot.cur /\ rot.until >= movedAt[rot.prev] + Grace
  /\ \A t \in seen : t < rot.cur => t = rot.prev \/ bearerClock >= movedAt[t] + Grace
  /\ \A r \in reads : r.side = "rotating" /\ r.taken /\ r.got # Unread => rot.cur <= r.got /\ r.got <= secret.val

TokensInv == FlightInv /\ SecretInv /\ RotInv

LEMMA TokensInitEstablishes == BearerInit => TokensInv
<1> SUFFICES ASSUME BearerInit PROVE TokensInv
  OBVIOUS
<1> USE BearerAssumption
<1>1. FlightInv
  BY DEF BearerInit, FlightInv, SideOK, AskerRecords, ReadRecords, FlightRecords, NoFlight, Sides
<1>2. SecretInv
  <2>1. secret.val = 1 /\ secret \in [val : Nat \ {0}, readable : BOOLEAN] /\ bearerClock = 0 /\ movedAt = [v \in {} |-> 0]
    BY DEF BearerInit
  <2>2. 1..(secret.val - 1) = {}
    BY <2>1
  <2>3. movedAt \in [{} -> Nat]
    BY <2>1, Zenon
  <2> QED BY <2>1, <2>2, <2>3 DEF SecretInv
<1>3. RotInv
  BY DEF BearerInit, RotInv, Unread, RotRecords
<1> QED BY <1>1, <1>2, <1>3 DEF TokensInv

LEMMA SecretFrame == ASSUME SecretInv, UNCHANGED <<bearerClock, secret, movedAt>> PROVE SecretInv'
  BY DEF SecretInv

\* Nothing the receiver knows changes, and no read that it waits for is new.
LEMMA RotFrame ==
  ASSUME RotInv, UNCHANGED <<bearerClock, secret, movedAt, rot, seen>>,
         \A r \in reads' : r.side = "rotating" /\ r.taken /\ r.got # Unread => r \in reads
  PROVE  RotInv'
  BY DEF RotInv, RotRecords

\* The receiver's tokens stay, whatever else of its record changes.
LEMMA RotSame ==
  ASSUME RotInv, SecretInv, UNCHANGED <<bearerClock, secret, movedAt>>,
         rot' \in RotRecords, rot'.cur = rot.cur, rot'.prev = rot.prev, rot'.until = rot.until,
         seen' = seen \/ seen' = seen \cup {rot.cur},
         \A r \in reads' : r.side = "rotating" /\ r.taken /\ r.got # Unread => r \in reads
  PROVE  RotInv'
<1>0. rot.cur \in Nat \ {0} /\ rot.prev \in Nat /\ seen \subseteq 1..rot.cur
  BY DEF RotInv, RotRecords
<1>t. \A t \in seen' : t \in seen \/ t = rot.cur
  OBVIOUS
<1>1. seen' \subseteq 1..rot'.cur
  <2> SUFFICES ASSUME NEW t \in seen' PROVE t \in 1..rot'.cur
    OBVIOUS
  <2>1. CASE t \in seen
    BY <2>1, <1>0
  <2>2. CASE t = rot.cur
    BY <2>2, <1>0
  <2> QED BY <1>t, <2>1, <2>2
<1>2. \A t \in seen' : t < rot'.cur => t = rot'.prev \/ bearerClock' >= movedAt'[t] + Grace
  <2> SUFFICES ASSUME NEW t \in seen', t < rot.cur PROVE t = rot.prev \/ bearerClock >= movedAt[t] + Grace
    OBVIOUS
  <2>1. t \in seen
    BY <1>0, <1>t
  <2> QED BY <2>1 DEF RotInv
<1>3. \A r \in reads' : r.side = "rotating" /\ r.taken /\ r.got # Unread => rot'.cur <= r.got /\ r.got <= secret'.val
  BY DEF RotInv, RotRecords
<1>4. rot'.cur <= secret'.val /\ (rot'.prev # Unread => rot'.prev < rot'.cur /\ rot'.until >= movedAt'[rot'.prev] + Grace)
  BY DEF RotInv, RotRecords
<1> QED BY <1>1, <1>2, <1>3, <1>4 DEF RotInv, RotRecords

LEMMA FlightFrame ==
  ASSUME FlightInv, UNCHANGED <<sideOf, flight, reads, waitedOut, told>>,
         asker' \in [TokenCallers -> AskerRecords],
         \A c \in TokenCallers : asker'[c].pc = "timeout" => asker'[c] = asker[c]
  PROVE  FlightInv'
  BY DEF FlightInv, SideOK

LEMMA AskerMoves ==
  ASSUME FlightInv, NEW c \in TokenCallers, NEW a \in AskerRecords, a.pc # "timeout",
         asker' = [asker EXCEPT ![c] = a]
  PROVE  /\ asker' \in [TokenCallers -> AskerRecords]
         /\ \A d \in TokenCallers : asker'[d].pc = "timeout" => asker'[d] = asker[d]
  BY DEF FlightInv

\* Dropping the lapsed predecessor keeps what is known of the receiver's set.
LEMMA LapseKeeps ==
  ASSUME RotInv, SecretInv, rot' = Lapsed(rot) \/ rot' = rot,
         UNCHANGED <<bearerClock, secret, movedAt, reads, seen>>
  PROVE  RotInv'
<1>1. CASE rot' # rot
  <2>1. /\ rot' = [rot EXCEPT !.prev = Unread, !.until = 0]
        /\ rot.prev # Unread /\ bearerClock >= rot.until
    BY <1>1 DEF Lapsed
  <2>2. rot.prev \in 1..(secret.val - 1) /\ movedAt[rot.prev] \in Nat
    BY <2>1 DEF RotInv, SecretInv, Unread, RotRecords
  <2>3. bearerClock >= movedAt[rot.prev] + Grace
    BY <2>1, <2>2, BearerAssumption DEF RotInv, SecretInv, RotRecords
  <2>4. \A t \in seen : t < rot.cur => bearerClock >= movedAt[t] + Grace
    BY <2>3 DEF RotInv, RotRecords
  <2>5. rot \in RotRecords
    BY DEF RotInv, RotRecords
  <2>6. rot' \in RotRecords /\ rot'.cur = rot.cur /\ rot'.prev = Unread
    BY <2>1, <2>5 DEF RotRecords, Unread
  <2> QED BY <2>4, <2>6 DEF RotInv, RotRecords
<1>2. CASE rot' = rot
  BY <1>2, RotFrame
<1> QED BY <1>1, <1>2

LEMMA AnswersKeep ==
  ASSUME TokensInv, NEW c \in TokenCallers,
         AwaitDone(c) \/ TokenKnown(c) \/ TokenFirstWait(c) \/ FirstAnswered(c)
  PROVE  TokensInv'
<1> DEFINE a == asker'[c]
<1>0. UNCHANGED <<bearerClock, secret, movedAt, flight, reads, waitedOut, told, seen, sideOf>>
  BY DEF AwaitDone, TokenKnown, TokenFirstWait, FirstAnswered
<1>1. a \in AskerRecords /\ a.pc # "timeout" /\ asker' = [asker EXCEPT ![c] = a]
  <2>0. asker \in [TokenCallers -> AskerRecords] /\ flight["file"].gen \in Nat
    BY DEF TokensInv, FlightInv, FlightRecords, Sides
  <2>1. CASE AwaitDone(c) \/ FirstAnswered(c)
    BY <2>0, <2>1 DEF AwaitDone, FirstAnswered, AskerRecords
  <2>2. CASE TokenKnown(c)
    BY <2>0, <2>2 DEF TokenKnown, Asks, AskerRecords
  <2>3. CASE TokenFirstWait(c)
    BY <2>0, <2>3 DEF TokenFirstWait, AskerRecords
  <2> QED BY <2>1, <2>2, <2>3
<1>2. FlightInv'
  <2> HIDE DEF a
  <2>1. /\ asker' \in [TokenCallers -> AskerRecords]
        /\ \A d \in TokenCallers : asker'[d].pc = "timeout" => asker'[d] = asker[d]
    BY <1>1, AskerMoves DEF TokensInv
  <2> QED BY <2>1, <1>0, FlightFrame DEF TokensInv
<1>3. SecretInv' /\ RotInv'
  <2>1. rot' = Lapsed(rot) \/ rot' = rot
    BY DEF AwaitDone, TokenKnown, TokenFirstWait, FirstAnswered, Answered
  <2> QED BY <1>0, <2>1, SecretFrame, RotFrame, LapseKeeps DEF TokensInv
<1> QED BY <1>2, <1>3 DEF TokensInv

LEMMA TimesOutKeeps == ASSUME TokensInv, NEW c \in TokenCallers, AwaitTimesOut(c) PROVE TokensInv'
<1>0. UNCHANGED <<bearerClock, secret, movedAt, flight, reads, rot, told, seen, sideOf>>
  BY DEF AwaitTimesOut
<1> DEFINE a == [asker[c] EXCEPT !.pc = "timeout"]
<1>1. asker' = [asker EXCEPT ![c] = a] /\ a \in AskerRecords /\ a.gen = asker[c].gen /\ asker[c].gen \in Nat
  BY DEF AwaitTimesOut, TokensInv, FlightInv, AskerRecords
<1> HIDE DEF a
<1>2. /\ waitedOut' \in [Sides -> SUBSET Nat]
      /\ \A s \in Sides : waitedOut[s] \subseteq waitedOut'[s]
      /\ asker[c].gen \in waitedOut'[sideOf[c]]
  BY <1>1 DEF AwaitTimesOut, TokensInv, FlightInv
<1>3. FlightInv'
  <2>1. \A s \in Sides : SideOK(s)'
    BY <1>0, <1>2 DEF TokensInv, FlightInv, SideOK
  <2>2. asker' \in [TokenCallers -> AskerRecords]
    BY <1>1 DEF TokensInv, FlightInv
  <2>3. \A d \in TokenCallers : asker'[d].pc = "timeout" => asker'[d].gen \in waitedOut'[sideOf'[d]]
    BY <1>0, <1>1, <1>2 DEF TokensInv, FlightInv
  <2> QED BY <1>0, <1>2, <2>1, <2>2, <2>3 DEF TokensInv, FlightInv
<1>4. SecretInv' /\ RotInv'
  BY <1>0, SecretFrame, RotFrame DEF TokensInv
<1> QED BY <1>3, <1>4 DEF TokensInv

LEMMA ReportKeeps == ASSUME TokensInv, NEW c \in TokenCallers, ReportStall(c) PROVE TokensInv'
<1>0. UNCHANGED <<bearerClock, secret, movedAt, reads, waitedOut, seen, sideOf>> /\ (rot' = Lapsed(rot) \/ rot' = rot)
  BY DEF ReportStall, Answered
<1> PICK s \in Sides : s = sideOf[c]
  BY DEF TokensInv, FlightInv
<1> PICK a : a = [asker[c] EXCEPT !.pc = "idle"]
  OBVIOUS
<1>1. asker' = [asker EXCEPT ![c] = a] /\ a \in AskerRecords /\ a.pc # "timeout"
  BY DEF ReportStall, TokensInv, FlightInv, AskerRecords
<1>2. /\ asker' \in [TokenCallers -> AskerRecords]
      /\ \A d \in TokenCallers : asker'[d].pc = "timeout" => asker'[d] = asker[d]
  BY <1>1, AskerMoves DEF TokensInv
<1>3. SecretInv' /\ RotInv'
  BY <1>0, SecretFrame, LapseKeeps DEF TokensInv
<1>4. CASE Stalls(flight[s], asker[c].gen)
  <2>0. flight[s].reading /\ flight[s].gen \in waitedOut[s] /\ flight[s] \in FlightRecords /\ ~flight[s].stalled
    BY <1>4 DEF ReportStall, Stalls, TokensInv, FlightInv
  <2>1. /\ flight' = [flight EXCEPT ![s].stalled = TRUE]
        /\ told' = [told EXCEPT ![s] = @ \cup {flight[s].gen}]
    BY <1>4 DEF ReportStall
  <2>2. flight' \in [Sides -> FlightRecords] /\ told' \in [Sides -> SUBSET Nat]
    BY <2>0, <2>1 DEF TokensInv, FlightInv, FlightRecords
  <2>3. /\ flight'[s].reading /\ flight'[s].gen = flight[s].gen /\ flight'[s].stalled
        /\ \A z \in Sides : z # s => flight'[z] = flight[z] /\ told'[z] = told[z]
    BY <2>0, <2>1 DEF TokensInv, FlightInv, FlightRecords
  <2>4. told'[s] = {flight[s].gen}
    BY <2>0, <2>1 DEF TokensInv, FlightInv, SideOK
  <2>5. \A z \in Sides : SideOK(z)'
    <3> SUFFICES ASSUME NEW z \in Sides PROVE SideOK(z)'
      OBVIOUS
    <3>1. SideOK(z)
      BY DEF TokensInv, FlightInv
    <3>2. CASE z = s
      BY <3>1, <3>2, <1>0, <2>0, <2>3, <2>4 DEF SideOK
    <3>3. CASE z # s
      BY <3>1, <3>3, <1>0, <2>3 DEF SideOK
    <3> QED BY <3>2, <3>3
  <2>6. FlightInv'
    BY <1>0, <1>2, <2>2, <2>5 DEF TokensInv, FlightInv
  <2> QED BY <2>6, <1>3 DEF TokensInv
<1>5. CASE ~Stalls(flight[s], asker[c].gen)
  <2>1. UNCHANGED <<flight, told>>
    BY <1>5 DEF ReportStall
  <2> QED BY <1>0, <1>2, <1>3, <2>1, FlightFrame DEF TokensInv
<1> QED BY <1>4, <1>5

\* A claim is made when no read of the side is in flight.
LEMMA ClaimKeeps ==
  ASSUME TokensInv, NEW c \in TokenCallers, Claim(c), ~flight[sideOf[c]].reading,
         UNCHANGED <<bearerClock, secret, movedAt, waitedOut, told, seen, sideOf>>
  PROVE  /\ FlightInv'
         /\ \A r \in reads' : r.side = "rotating" /\ r.taken /\ r.got # Unread => r \in reads
<1> PICK s \in Sides : s = sideOf[c]
  BY DEF TokensInv, FlightInv
<1> PICK g \in Nat : g = flight[s].gen + 1
  BY DEF TokensInv, FlightInv, FlightRecords
<1> PICK n : n = [side |-> s, gen |-> g, got |-> Unread, taken |-> FALSE]
  OBVIOUS
<1>1. /\ flight' = [flight EXCEPT ![s].reading = TRUE, ![s].gen = g] /\ reads' = reads \cup {n}
      /\ asker' = [asker EXCEPT ![c] = [pc |-> "await", gen |-> g, calls |-> asker[c].calls + 1]]
  BY DEF Claim, TokensInv, FlightInv
<1>2. /\ flight' \in [Sides -> FlightRecords]
      /\ flight'[s].reading /\ flight'[s].gen = g /\ flight'[s].stalled = flight[s].stalled
      /\ \A z \in Sides : z # s => flight'[z] = flight[z]
  BY <1>1 DEF TokensInv, FlightInv, FlightRecords
<1>3. ~flight[s].stalled /\ told[s] = {} /\ \A r \in reads : r.side # s
  BY DEF TokensInv, FlightInv, SideOK
<1>4. n \in ReadRecords /\ n.side = s /\ n.gen = g /\ ~n.taken
  BY DEF ReadRecords, Unread
<1>5. \A z \in Sides : SideOK(z)'
  <2> SUFFICES ASSUME NEW z \in Sides PROVE SideOK(z)'
    OBVIOUS
  <2>1. CASE z = s
    BY <2>1, <1>1, <1>2, <1>3, <1>4 DEF SideOK
  <2>2. CASE z # s
    BY <2>2, <1>1, <1>2, <1>4 DEF TokensInv, FlightInv, SideOK
  <2> QED BY <2>1, <2>2
<1>6. /\ asker' \in [TokenCallers -> AskerRecords]
      /\ \A d \in TokenCallers : asker'[d].pc = "timeout" => asker'[d] = asker[d]
  <2> PICK a : a = [pc |-> "await", gen |-> g, calls |-> asker[c].calls + 1]
    OBVIOUS
  <2>1. a \in AskerRecords /\ a.pc # "timeout"
    BY DEF TokensInv, FlightInv, AskerRecords
  <2> QED BY <1>1, <2>1, AskerMoves DEF TokensInv
<1>7. reads' \subseteq ReadRecords
  BY <1>1, <1>4 DEF TokensInv, FlightInv
<1> QED BY <1>1, <1>2, <1>4, <1>5, <1>6, <1>7 DEF TokensInv, FlightInv

LEMMA TokenClaimsKeeps == ASSUME TokensInv, NEW c \in TokenCallers, TokenClaims(c) PROVE TokensInv'
<1>1. /\ FlightInv'
      /\ \A r \in reads' : r.side = "rotating" /\ r.taken /\ r.got # Unread => r \in reads
  BY ClaimKeeps DEF TokenClaims
<1>2. SecretInv' /\ RotInv'
  BY <1>1, SecretFrame, RotFrame DEF TokensInv, TokenClaims
<1> QED BY <1>1, <1>2 DEF TokensInv

LEMMA TokensClaimsKeeps == ASSUME TokensInv, NEW c \in TokenCallers, TokensClaims(c) PROVE TokensInv'
<1>1. /\ FlightInv'
      /\ \A r \in reads' : r.side = "rotating" /\ r.taken /\ r.got # Unread => r \in reads
  BY ClaimKeeps DEF TokensClaims
<1>2. SecretInv'
  BY SecretFrame DEF TokensInv, TokensClaims
<1>3. RotInv'
  <2>0. rot \in RotRecords /\ bearerClock + Refresh \in Nat
    BY BearerAssumption DEF TokensInv, RotInv, SecretInv, RotRecords
  <2>1. rot' \in RotRecords /\ rot'.cur = rot.cur /\ rot'.prev = rot.prev /\ rot'.until = rot.until
    BY <2>0 DEF TokensClaims, RotRecords
  <2> QED BY <1>1, <2>1, RotSame DEF TokensInv, TokensClaims
<1> QED BY <1>1, <1>2, <1>3 DEF TokensInv

LEMMA TokensKnownKeeps ==
  ASSUME TokensInv, NEW c \in TokenCallers, TokensKnown(c) \/ TokensCached(c) PROVE TokensInv'
<1>0. UNCHANGED <<bearerClock, secret, movedAt, flight, reads, file, waitedOut, told, seen, sideOf>> /\ (rot' = Lapsed(rot) \/ rot' = rot)
  BY DEF TokensKnown, TokensCached, Answered
<1> PICK a : a = [asker[c] EXCEPT !.calls = @ + 1]
  OBVIOUS
<1>1. asker' = [asker EXCEPT ![c] = a] /\ a \in AskerRecords /\ a.pc # "timeout"
  BY DEF TokensKnown, TokensCached, Asks, TokensInv, FlightInv, AskerRecords
<1>2. FlightInv'
  <2>1. /\ asker' \in [TokenCallers -> AskerRecords]
        /\ \A d \in TokenCallers : asker'[d].pc = "timeout" => asker'[d] = asker[d]
    BY <1>1, AskerMoves DEF TokensInv
  <2> QED BY <1>0, <2>1, FlightFrame DEF TokensInv
<1>3. SecretInv' /\ RotInv'
  BY <1>0, SecretFrame, LapseKeeps DEF TokensInv
<1> QED BY <1>2, <1>3 DEF TokensInv

LEMMA ReadTakesKeeps == ASSUME TokensInv, NEW r \in reads, ReadTakes(r) PROVE TokensInv'
<1>0. UNCHANGED <<bearerClock, secret, movedAt, flight, file, rot, asker, waitedOut, told, seen, sideOf>>
  BY DEF ReadTakes
<1>1. PICK n : /\ n \in ReadRecords /\ n.side = r.side /\ n.gen = r.gen /\ reads' = (reads \ {r}) \cup {n}
               /\ n.got \in {secret.val, Unread}
  <2> PICK n : n = [r EXCEPT !.taken = TRUE, !.got = IF secret.readable THEN secret.val ELSE Unread]
    OBVIOUS
  <2>1. /\ n \in ReadRecords /\ n.side = r.side /\ n.gen = r.gen /\ reads' = (reads \ {r}) \cup {n}
        /\ n.got \in {secret.val, Unread}
    BY DEF ReadTakes, TokensInv, FlightInv, SecretInv, ReadRecords, Unread
  <2> QED BY <2>1
<1>q. \A q \in reads' : q = n \/ (q \in reads /\ q # r)
  BY <1>1
<1>2. \A s \in Sides : SideOK(s)'
  <2> SUFFICES ASSUME NEW s \in Sides PROVE SideOK(s)'
    OBVIOUS
  <2>0. SideOK(s)
    BY DEF TokensInv, FlightInv
  <2>1. \A q \in reads' : q.side = s => flight'[s].reading /\ q.gen = flight'[s].gen
    BY <2>0, <1>0, <1>1, <1>q DEF SideOK
  <2>2. \A p, q \in reads' : p.side = s /\ q.side = s => p = q
    BY <2>0, <1>0, <1>1, <1>q DEF SideOK
  <2>3. flight'[s].reading => \E q \in reads' : q.side = s
    BY <2>0, <1>0, <1>1, <1>q DEF SideOK
  <2> QED BY <2>0, <2>1, <2>2, <2>3, <1>0 DEF SideOK
<1>3. FlightInv'
  BY <1>0, <1>1, <1>2 DEF TokensInv, FlightInv
<1>4. RotInv'
  <2>1. \A q \in reads' : q.side = "rotating" /\ q.taken /\ q.got # Unread => rot.cur <= q.got /\ q.got <= secret.val
    <3>1. secret.val \in Nat /\ rot.cur <= secret.val
      BY DEF TokensInv, RotInv, SecretInv, RotRecords
    <3> QED BY <3>1, <1>1, <1>q DEF TokensInv, RotInv, RotRecords
  <2> QED BY <1>0, <2>1 DEF TokensInv, RotInv, RotRecords
<1> QED BY <1>0, <1>3, <1>4, SecretFrame DEF TokensInv

LEMMA ReleaseKeeps ==
  ASSUME TokensInv, NEW r \in reads, Release(r), UNCHANGED <<asker, waitedOut, sideOf>>
  PROVE  FlightInv' /\ reads' \subseteq reads
<1> PICK s \in Sides : s = r.side
  BY DEF TokensInv, FlightInv, ReadRecords
<1>0. /\ reads' = reads \ {r} /\ flight' = [flight EXCEPT ![s].reading = FALSE, ![s].stalled = FALSE]
      /\ told' = [told EXCEPT ![s] = IF flight[s].stalled THEN told[s] \ {r.gen} ELSE told[s]]
  BY DEF Release, TokensInv, FlightInv
<1>1. /\ flight' \in [Sides -> FlightRecords] /\ ~flight'[s].reading /\ ~flight'[s].stalled
      /\ \A z \in Sides : z # s => flight'[z] = flight[z] /\ told'[z] = told[z]
  BY <1>0 DEF TokensInv, FlightInv, FlightRecords
<1>2. told'[s] = {} /\ told' \in [Sides -> SUBSET Nat]
  BY <1>0 DEF TokensInv, FlightInv, SideOK
<1>3. \A q \in reads' : q.side # s
  BY <1>0 DEF TokensInv, FlightInv, SideOK
<1>4. \A z \in Sides : SideOK(z)'
  <2> SUFFICES ASSUME NEW z \in Sides PROVE SideOK(z)'
    OBVIOUS
  <2>1. CASE z = s
    BY <2>1, <1>1, <1>2, <1>3 DEF SideOK
  <2>2. CASE z # s
    BY <2>2, <1>0, <1>1 DEF TokensInv, FlightInv, SideOK
  <2> QED BY <2>1, <2>2
<1> QED BY <1>0, <1>1, <1>2, <1>4 DEF TokensInv, FlightInv

LEMMA FileRefreshedKeeps == ASSUME TokensInv, NEW r \in reads, FileRefreshed(r) PROVE TokensInv'
<1>1. FlightInv' /\ reads' \subseteq reads
  BY ReleaseKeeps DEF FileRefreshed
<1> QED BY <1>1, SecretFrame, RotFrame DEF TokensInv, FileRefreshed

LEMMA RotatingRefreshedKeeps == ASSUME TokensInv, NEW r \in reads, RotatingRefreshed(r) PROVE TokensInv'
<1>0. UNCHANGED <<bearerClock, secret, movedAt>>
  BY DEF RotatingRefreshed
<1>1. FlightInv' /\ reads' \subseteq reads
  BY ReleaseKeeps DEF RotatingRefreshed
<1>2. \A q \in reads' : q.side # "rotating"
  BY DEF RotatingRefreshed, Release, TokensInv, FlightInv, SideOK, Sides
<1>3. RotInv'
  <2>1. CASE rot'.cur = rot.cur /\ rot'.prev = rot.prev /\ rot'.until = rot.until
                /\ rot' \in RotRecords
    <3>1. seen' = seen \cup {rot.cur}
      BY <2>1 DEF RotatingRefreshed
    <3> QED BY <2>1, <3>1, <1>0, <1>2, RotSame DEF TokensInv
  <2>2. CASE r.got = Unread
    <3> PICK d : d = bearerClock + (IF rot.failing THEN Interval ELSE Refresh)
      OBVIOUS
    <3>0. d \in Nat /\ rot \in RotRecords
      BY BearerAssumption DEF TokensInv, RotInv, SecretInv, RotRecords
    <3>1. rot' = [rot EXCEPT !.next = d, !.failing = TRUE]
      BY <2>2 DEF RotatingRefreshed
    <3>2. rot' \in RotRecords /\ rot'.cur = rot.cur /\ rot'.prev = rot.prev /\ rot'.until = rot.until
      BY <3>0, <3>1 DEF RotRecords
    <3> QED BY <2>1, <3>2
  <2>3. CASE r.got # Unread /\ r.got = rot.cur
    <3>1. rot' = [rot EXCEPT !.failing = FALSE]
      BY <2>3 DEF RotatingRefreshed, Rotated
    <3> QED BY <2>1, <3>1 DEF TokensInv, RotInv, RotRecords
  <2>4. CASE r.got # Unread /\ r.got # rot.cur
    <3>0. rot \in RotRecords
      BY DEF TokensInv, RotInv, RotRecords
    <3>1. /\ rot' = [rot EXCEPT !.failing = FALSE, !.prev = rot.cur, !.until = bearerClock + Grace, !.cur = r.got]
          /\ rot.cur < r.got /\ r.got <= secret.val /\ r.got \in Nat \ {0}
      BY <2>4 DEF RotatingRefreshed, Rotated, TokensInv, FlightInv, ReadRecords, RotInv, Unread, SecretInv, RotRecords
    <3>2. /\ rot'.prev = rot.cur /\ rot'.until = bearerClock + Grace /\ rot'.cur = r.got
          /\ rot' \in RotRecords
      <4> PICK d \in Nat : d = bearerClock + Grace
        BY BearerAssumption DEF TokensInv, SecretInv
      <4>1. rot' = [rot EXCEPT !.failing = FALSE, !.prev = rot.cur, !.until = d, !.cur = r.got]
        BY <3>1
      <4> QED BY <4>1, <3>0, <3>1 DEF RotRecords
    <3>3. rot.cur \in 1..(secret.val - 1) /\ movedAt[rot.cur] \in Nat /\ movedAt[rot.cur] <= bearerClock
      BY <3>0, <3>1 DEF TokensInv, SecretInv, RotRecords
    <3>4. rot'.prev < rot'.cur /\ rot'.until >= movedAt'[rot'.prev] + Grace
      BY <3>0, <3>1, <3>2, <3>3, <1>0, BearerAssumption DEF TokensInv, SecretInv
    <3>5. \A t \in seen : t < rot.cur => bearerClock >= movedAt[t] + Grace
      <4> SUFFICES ASSUME NEW t \in seen, t < rot.cur PROVE bearerClock >= movedAt[t] + Grace
        OBVIOUS
      <4>1. t \in 1..(secret.val - 1)
        BY <3>3 DEF TokensInv, RotInv, SecretInv, RotRecords
      <4>2. movedAt[t] + Grace < movedAt[rot.cur] /\ movedAt[t] \in Nat
        BY <4>1, <3>3 DEF TokensInv, SecretInv
      <4> QED BY <4>2, <3>3, BearerAssumption DEF TokensInv, SecretInv
    <3>6. seen' = seen \cup {r.got}
      BY <3>2 DEF RotatingRefreshed
    <3>7. seen' \subseteq 1..rot'.cur
      BY <3>0, <3>1, <3>2, <3>6 DEF TokensInv, RotInv, RotRecords
    <3>8. \A t \in seen' : t < rot'.cur => t = rot'.prev \/ bearerClock' >= movedAt'[t] + Grace
      BY <3>0, <3>1, <3>2, <3>5, <3>6, <1>0 DEF TokensInv, RotInv, RotRecords
    <3> QED BY <1>0, <1>2, <3>1, <3>2, <3>4, <3>7, <3>8 DEF RotInv, RotRecords
  <2> QED BY <2>2, <2>3, <2>4
<1> QED BY <1>0, <1>1, <1>3, SecretFrame DEF TokensInv

LEMMA FileReadKeeps == ASSUME TokensInv, FileRead \/ SecretFlips PROVE TokensInv'
<1>0. UNCHANGED <<bearerClock, movedAt, flight, reads, rot, asker, waitedOut, told, seen, sideOf>>
  BY DEF FileRead, SecretFlips
<1>1. secret'.val = secret.val /\ secret' \in [val : Nat \ {0}, readable : BOOLEAN]
  BY DEF FileRead, SecretFlips, TokensInv, SecretInv
<1>2. FlightInv'
  BY <1>0, FlightFrame DEF TokensInv, FlightInv
<1>3. SecretInv' /\ RotInv'
  BY <1>0, <1>1 DEF TokensInv, SecretInv, RotInv, RotRecords
<1> QED BY <1>2, <1>3 DEF TokensInv

LEMMA RotatesKeeps == ASSUME TokensInv, SecretRotates PROVE TokensInv'
<1>0. UNCHANGED <<bearerClock, flight, reads, rot, asker, waitedOut, told, seen, sideOf>>
  BY DEF SecretRotates
<1>1. FlightInv'
  BY <1>0, FlightFrame DEF TokensInv, FlightInv
<1> PICK v \in Nat \ {0} : v = secret.val
  BY DEF TokensInv, SecretInv
<1>2. secret'.val = v + 1 /\ secret' \in [val : Nat \ {0}, readable : BOOLEAN]
  BY DEF SecretRotates, TokensInv, SecretInv
<1>3. DOMAIN movedAt = 1..(v - 1) /\ (1..(v - 1)) \cup {v} = 1..v /\ 1..((v + 1) - 1) = 1..v
  BY DEF TokensInv, SecretInv
<1>4. /\ movedAt' = [w \in 1..v |-> IF w = v THEN bearerClock ELSE movedAt[w]]
      /\ \A w \in 1..(v - 1) : bearerClock > movedAt[w] + Grace
  BY <1>3 DEF SecretRotates
<1>5. /\ movedAt' \in [1..v -> Nat] /\ movedAt'[v] = bearerClock
      /\ \A w \in 1..(v - 1) : movedAt'[w] = movedAt[w] /\ movedAt[w] \in Nat /\ movedAt[w] <= bearerClock
      /\ \A w \in 1..v : w = v \/ w \in 1..(v - 1)
  BY <1>4, <1>3 DEF TokensInv, SecretInv
<1>6. SecretInv'
  <2>1. \A w \in 1..v : movedAt'[w] <= bearerClock
    BY <1>5 DEF TokensInv, SecretInv
  <2>2. \A u, w \in 1..v : u < w => movedAt'[u] + Grace < movedAt'[w]
    BY <1>4, <1>5, BearerAssumption DEF TokensInv, SecretInv
  <2> QED BY <1>0, <1>2, <1>3, <1>5, <2>1, <2>2 DEF TokensInv, SecretInv
<1>7. RotInv'
  <2>1. rot.prev # Unread => movedAt'[rot.prev] = movedAt[rot.prev]
    BY <1>5 DEF TokensInv, RotInv, Unread, RotRecords
  <2>2. \A t \in seen : t < rot.cur => movedAt'[t] = movedAt[t]
    BY <1>5 DEF TokensInv, RotInv, RotRecords
  <2>3. /\ rot.cur <= secret'.val
        /\ \A r \in reads : r.side = "rotating" /\ r.taken /\ r.got # Unread => rot.cur <= r.got /\ r.got <= secret'.val
    BY <1>2 DEF TokensInv, RotInv, FlightInv, ReadRecords, RotRecords
  <2> QED BY <1>0, <2>1, <2>2, <2>3 DEF TokensInv, RotInv, RotRecords
<1> QED BY <1>1, <1>6, <1>7 DEF TokensInv

LEMMA BearerTickKeeps == ASSUME TokensInv, BearerTick PROVE TokensInv'
<1>0. UNCHANGED <<secret, movedAt, flight, reads, rot, asker, waitedOut, told, seen, sideOf>> /\ bearerClock' = bearerClock + 1
  BY DEF BearerTick
<1>1. FlightInv'
  BY <1>0, FlightFrame DEF TokensInv, FlightInv
<1>2. SecretInv'
  BY <1>0 DEF TokensInv, SecretInv
<1>3. RotInv'
  <2>1. \A t \in seen : t < rot.cur => movedAt[t] \in Nat
    BY DEF TokensInv, RotInv, SecretInv, RotRecords
  <2> QED BY <1>0, <2>1, BearerAssumption DEF TokensInv, RotInv, SecretInv, RotRecords
<1> QED BY <1>1, <1>2, <1>3 DEF TokensInv

LEMMA BearerNextKeeps == TokensInv /\ [BearerNext]_bearerVars => TokensInv'
<1> SUFFICES ASSUME TokensInv, [BearerNext]_bearerVars PROVE TokensInv'
  OBVIOUS
<1>1. CASE UNCHANGED bearerVars
  BY <1>1 DEF bearerVars, TokensInv, FlightInv, SideOK, SecretInv, RotInv, RotRecords
<1>2. CASE BearerNext
  BY <1>2, AnswersKeep, TimesOutKeeps, ReportKeeps, TokenClaimsKeeps, TokensKnownKeeps, TokensClaimsKeeps,
     ReadTakesKeeps, FileRefreshedKeeps, RotatingRefreshedKeeps, FileReadKeeps, RotatesKeeps, BearerTickKeeps
     DEF BearerNext
<1> QED BY <1>1, <1>2

LEMMA TokensInvSuffices == TokensInv => TokenReadsSound
<1> SUFFICES ASSUME TokensInv PROVE TokenReadsSound
  OBVIOUS
<1>1. StallsTold
  <2> SUFFICES ASSUME NEW s \in Sides
               PROVE  /\ Cardinality({r \in reads : r.side = s}) <= 1
                      /\ flight[s].reading = (\E r \in reads : r.side = s /\ r.gen = flight[s].gen)
                      /\ flight[s].stalled => flight[s].gen \in waitedOut[s]
                      /\ told[s] = (IF flight[s].stalled THEN {flight[s].gen} ELSE {})
    BY DEF StallsTold
  <2>1. Cardinality({r \in reads : r.side = s}) <= 1
    <3> PICK R : R = {r \in reads : r.side = s}
      OBVIOUS
    <3>0. \A r, q \in R : r = q
      BY DEF TokensInv, FlightInv, SideOK
    <3>1. R = {} \/ \E r : R = {r}
      BY <3>0
    <3>2. CASE R = {}
      BY <3>2, FS_EmptySet
    <3>3. CASE \E r : R = {r}
      <4> PICK r : R = {r}
        BY <3>3
      <4>1. Cardinality({r}) = 1
        BY FS_Singleton, Zenon
      <4> QED BY <4>1
    <3> QED BY <3>1, <3>2, <3>3
  <2>2. flight[s].reading \in BOOLEAN
    BY DEF TokensInv, FlightInv, FlightRecords
  <2>3. flight[s].reading <=> (\E r \in reads : r.side = s /\ r.gen = flight[s].gen)
    BY DEF TokensInv, FlightInv, SideOK
  <2>4. flight[s].reading = (\E r \in reads : r.side = s /\ r.gen = flight[s].gen)
    BY <2>2, <2>3
  <2> QED BY <2>1, <2>4 DEF TokensInv, FlightInv, SideOK
<1>2. GraceKept
  <2> SUFFICES ASSUME NEW t \in seen, t = secret.val \/ bearerClock < movedAt[t] + Grace PROVE t \in Accepts
    BY DEF GraceKept
  <2>0. t \in Nat \ {0} /\ t <= rot.cur /\ rot.cur \in Nat /\ rot.cur <= secret.val /\ secret.val \in Nat /\ bearerClock \in Nat
    BY DEF TokensInv, RotInv, SecretInv, RotRecords
  <2>1. CASE t = rot.cur
    BY <2>1 DEF Accepts
  <2>2. CASE t # rot.cur
    <3>1. t < rot.cur /\ t \in 1..(secret.val - 1) /\ movedAt[t] \in Nat
      BY <2>0, <2>2 DEF TokensInv, SecretInv
    <3>2. bearerClock < movedAt[t] + Grace
      BY <2>0, <3>1
    <3>3. t = rot.prev
      BY <3>1, <3>2, <2>0, BearerAssumption DEF TokensInv, RotInv, RotRecords
    <3>4. rot.prev # Unread /\ bearerClock < rot.until
      BY <3>1, <3>2, <3>3, <2>0, BearerAssumption DEF TokensInv, RotInv, Unread, RotRecords
    <3> QED BY <3>3, <3>4 DEF Accepts
  <2> QED BY <2>1, <2>2
<1> QED BY <1>1, <1>2 DEF TokenReadsSound

\* Stalls are told for the reads that stalled, and no token is refused within
\* its grace, for any number of callers, rotations and failed reads (bearer.File, bearer.Rotating).
THEOREM TokensAlwaysSound == BearerSpec => []TokenReadsSound
<1>1. BearerSpec => []TokensInv
  BY TokensInitEstablishes, BearerNextKeeps, PTL DEF BearerSpec
<1> QED BY <1>1, TokensInvSuffices, PTL

-----------------------------------------------------------------------------
(* The answers to a node's polls.  Whatever a document is built from is at   *)
(* least as new as the generation that was read before it, and a generation  *)
(* is never behind what readers see.                                         *)

Sources == {"pods", "owners", "services", "monitors"}
DocType == [pods : Int, owners : Int, services : Int, monitors : Int, joinedSvcs : Int, podMonitors : Int]
TagType == [pods : Nat, owners : Nat, services : Nat, monitors : Nat]
RunPcs == {"idle", "auth", "sample1", "sample2", "probe", "pods", "joinGen", "join", "joinSvcs", "podMonGen",
           "podMons", "inNsGen", "inNsMemo", "inNsBuild", "inNsInstall", "owners", "remember", "authRefs", "answered"}
RunType == [pc : RunPcs, tag : DocType, since : DocType, at : TagType, doc : DocType, gen : Nat,
            usable : BOOLEAN, src : Sources]

\* The document's parts are as new as the generations of its tag.
Built(d, at) ==
  /\ d.pods >= at.pods /\ d.owners >= at.owners /\ d.services >= at.services /\ d.joinedSvcs >= at.services
  /\ d.monitors >= at.monitors /\ d.podMonitors >= at.monitors

\* A tag, or what a request saw when it began, is of the past.
Past(x, p, o, sg, mg) == x.pods <= p /\ x.owners <= o /\ x.services <= sg /\ x.monitors <= mg

Sampled(q, s) == q.at[s] >= q.since[s]

SampledSoFar(q) ==
  /\ q.src # "pods" => Sampled(q, "pods")
  /\ q.src \in {"services", "monitors"} => Sampled(q, "owners")
  /\ q.src = "monitors" => Sampled(q, "services")

AllSampled(q) == \A s \in Sources : Sampled(q, s)

\* How far the document of a request is.
PodsRead(q) == AllSampled(q) /\ q.doc.pods >= q.at.pods
JoinRead(q) == PodsRead(q) /\ q.doc.monitors >= q.at.monitors /\ q.doc.joinedSvcs >= q.at.services
PodMonsRead(q) == JoinRead(q) /\ q.doc.podMonitors >= q.at.monitors
AnswerCurrent(q) == \A s \in DOMAIN NoDoc : q.doc[s] >= q.since[s]

StageOK(q, sg, mg) ==
  /\ q.pc \in {"sample1", "sample2"} => SampledSoFar(q)
  /\ q.pc \in {"probe", "pods"} => AllSampled(q)
  /\ q.pc = "joinGen" => PodsRead(q)
  /\ q.pc \in {"join", "joinSvcs"} =>
       /\ PodsRead(q) /\ q.gen >= q.at.monitors /\ q.gen <= mg
       /\ q.doc.joinedSvcs >= q.at.services /\ q.doc.joinedSvcs <= sg
  /\ q.pc = "joinSvcs" => q.doc.monitors >= q.gen
  /\ q.pc = "podMonGen" => JoinRead(q)
  /\ q.pc = "podMons" => JoinRead(q) /\ q.gen >= q.at.monitors /\ q.gen <= mg
  /\ q.pc = "inNsGen" => PodMonsRead(q)
  /\ q.pc \in {"inNsMemo", "inNsBuild", "inNsInstall"} => PodMonsRead(q) /\ q.gen >= q.at.services /\ q.gen <= sg
  /\ q.pc = "inNsInstall" => q.doc.services >= q.gen
  /\ q.pc = "owners" => PodMonsRead(q) /\ q.doc.services >= q.at.services
  /\ q.pc = "remember" => AllSampled(q) /\ Built(q.doc, q.at)
  /\ q.pc = "authRefs" => q.gen >= q.since.monitors /\ q.gen <= mg
  /\ q.pc = "answered" => AnswerCurrent(q)

RunOK(q, p, o, sg, mg) ==
  /\ q \in RunType
  /\ Past(q.at, p, o, sg, mg) /\ Past(q.since, p, o, sg, mg)
  /\ q.since.joinedSvcs = q.since.services /\ q.since.podMonitors = q.since.monitors
  /\ StageOK(q, sg, mg)

\* Readers see what was published; only a write lock keeps them behind the generation.
IndexInv ==
  /\ svcGen \in Nat /\ svcPub \in Nat /\ svcPub <= svcGen /\ (writing # "services" => svcPub = svcGen)
  /\ monGen \in Nat /\ monPub \in Nat /\ monPub <= monGen /\ (writing # "monitors" => monPub = monGen)
  /\ ownerPub \in Nat /\ podPub \in [TargetNodes -> Nat]

\* A cached part is as new as the generation it is filed under.
CachesInv ==
  /\ sorted \in Int /\ sortedGen \in Nat /\ sortedGen <= svcGen /\ (sorted # -1 => sorted >= sortedGen)
  /\ joined \in [mon : Int, svc : Int, monGen : Nat, svcGen : Nat, valid : BOOLEAN]
  /\ joined.monGen <= monGen /\ joined.svcGen <= svcGen
  /\ joined.valid => joined.mon >= joined.monGen /\ joined.svc >= joined.svcGen
  /\ podMons \in [mon : Int, gen : Nat, valid : BOOLEAN] /\ podMons.gen <= monGen
  /\ podMons.valid => podMons.mon >= podMons.gen
  /\ authRefs \in [mon : Int, gen : Nat, valid : BOOLEAN] /\ (authRefs.valid => authRefs.mon >= authRefs.gen)

TagEntryOK(e) == e.doc \in DocType /\ e.valid \in TagType /\ Built(e.doc, e.valid)

TagsInv == etags = [n \in TargetNodes |-> etags[n]] /\ \A n \in TargetNodes : etags[n] = NoDoc \/ TagEntryOK(etags[n])

RunsInv ==
  /\ req \in [TargetRequests -> RunType]
  /\ \A r \in TargetRequests : RunOK(req[r], podPub[RequestNode[r]], ownerPub, svcGen, monGen)

\* One request at a time rebuilds the join, from monitors no older than the join it replaces.
JoinInv ==
  \A r \in TargetRequests : req[r].pc = "joinSvcs" =>
    joinHolder = r /\ req[r].doc.monitors >= joined.monGen

\* A name is held by nobody or by one of the Services that carry it.
ServicesInv ==
  /\ svcs \in [SvcUids -> Nat]
  /\ byName = [n \in DOMAIN byName |-> byName[n]] /\ svcLatest = [n \in DOMAIN svcLatest |-> svcLatest[n]]
  /\ \A u \in SvcUids : SvcName[u] \in DOMAIN byName /\ SvcName[u] \in DOMAIN svcLatest
  /\ \A n \in DOMAIN byName : byName[n] # "none" => SvcName[byName[n]] = n
  /\ LatestServiceHeld

DiscoveryInv == IndexInv /\ CachesInv /\ TagsInv /\ RunsInv /\ JoinInv /\ ServicesInv

LEMMA DocFacts ==
  /\ DOMAIN NoDoc = {"pods", "owners", "services", "monitors", "joinedSvcs", "podMonitors"}
  /\ NoDoc \in DocType
BY DEF NoDoc, DocType

LEMMA NoRunOK ==
  ASSUME NEW p \in Nat, NEW o \in Nat, NEW sg \in Nat, NEW mg \in Nat
  PROVE  RunOK(NoRun, p, o, sg, mg) /\ NoRun \in RunType /\ NoRun.pc = "idle"
BY DEF NoRun, RunOK, RunType, RunPcs, Sources, DocType, TagType, NoDoc, Past, StageOK

LEMMA DiscoveryStarts == DiscoveryInit => DiscoveryInv
<1> SUFFICES ASSUME DiscoveryInit PROVE DiscoveryInv
  OBVIOUS
<1>1. IndexInv
  BY DEF DiscoveryInit, IndexInv
<1>2. CachesInv
  BY DEF DiscoveryInit, CachesInv
<1>3. TagsInv
  BY DEF DiscoveryInit, TagsInv
<1>4. RunsInv
  BY <1>1, NoRunOK DEF DiscoveryInit, RunsInv, IndexInv, TargetNodes
<1>5. JoinInv
  BY NoRunOK, <1>1 DEF DiscoveryInit, JoinInv, NoRun
<1>6. ServicesInv
  BY DiscoveryAssumption DEF DiscoveryInit, ServicesInv, LatestServiceHeld
<1> QED BY <1>1, <1>2, <1>3, <1>4, <1>5, <1>6 DEF DiscoveryInv

-----------------------------------------------------------------------------
(* What the informers do to a request under way: nothing.                    *)

LEMMA RunAges ==
  ASSUME NEW q, NEW p \in Nat, NEW o \in Nat, NEW sg \in Nat, NEW mg \in Nat,
         NEW p2 \in Nat, NEW o2 \in Nat, NEW sg2 \in Nat, NEW mg2 \in Nat,
         p <= p2, o <= o2, sg <= sg2, mg <= mg2, RunOK(q, p, o, sg, mg)
  PROVE  RunOK(q, p2, o2, sg2, mg2)
<1>1. q \in RunType /\ q.at \in TagType /\ q.since \in DocType /\ q.gen \in Nat /\ q.doc \in DocType
  BY DEF RunOK, RunType
<1>2. Past(q.at, p2, o2, sg2, mg2) /\ Past(q.since, p2, o2, sg2, mg2)
  BY <1>1 DEF RunOK, Past, TagType, DocType
<1>3. StageOK(q, sg2, mg2)
  BY <1>1 DEF RunOK, StageOK, DocType
<1> QED BY <1>1, <1>2, <1>3 DEF RunOK

LEMMA InformerKeeps ==
  ASSUME DiscoveryInv, IndexInv', UNCHANGED <<cacheVars, req>>,
         svcGen <= svcGen', monGen <= monGen', ownerPub <= ownerPub',
         \A n \in TargetNodes : podPub[n] <= podPub'[n]
  PROVE  CachesInv' /\ TagsInv' /\ RunsInv' /\ JoinInv'
<1> USE DEF cacheVars
<1>1. CachesInv'
  BY DEF DiscoveryInv, CachesInv, IndexInv
<1>2. TagsInv'
  BY DEF DiscoveryInv, TagsInv, TagEntryOK
<1>3. JoinInv'
  BY DEF DiscoveryInv, JoinInv
<1>4. ASSUME NEW r \in TargetRequests PROVE RunOK(req[r], podPub'[RequestNode[r]], ownerPub', svcGen', monGen')
  <2>1. RequestNode[r] \in TargetNodes
    BY DEF TargetNodes
  <2> QED BY <2>1, RunAges DEF DiscoveryInv, RunsInv, IndexInv
<1>5. RunsInv'
  BY <1>4 DEF DiscoveryInv, RunsInv
<1> QED BY <1>1, <1>2, <1>3, <1>5

LEMMA ServiceUpserted ==
  ASSUME DiscoveryInv, NEW u \in SvcUids, NEW v \in {svcs[u], svcs[u] + 1}, UpsertService(u, v) PROVE DiscoveryInv'
<1>1. IndexInv' /\ svcGen <= svcGen' /\ UNCHANGED <<monGen, ownerPub, podPub, cacheVars, req>>
  BY DEF UpsertService, DiscoveryInv, IndexInv, Free
<1>2. CachesInv' /\ TagsInv' /\ RunsInv' /\ JoinInv'
  BY <1>1, InformerKeeps DEF DiscoveryInv, IndexInv
<1>3. ServicesInv'
  <2>1. CASE svcs[u] = v
    BY <2>1 DEF UpsertService, DiscoveryInv, ServicesInv, LatestServiceHeld
  <2>2. CASE svcs[u] # v
    <3> DEFINE n == SvcName[u]
    <3> DEFINE prev == byName[n]
    <3>1. /\ svcs' = Replacing(u, prev, v) /\ byName' = [byName EXCEPT ![n] = u]
          /\ svcLatest' = [svcLatest EXCEPT ![n] = u] /\ v \in Nat /\ v > 0
      BY <2>2 DEF UpsertService, DiscoveryInv, ServicesInv
    <3>2. /\ n \in DOMAIN byName /\ n \in DOMAIN svcLatest
          /\ (prev # "none" => SvcName[prev] = n)
      BY DEF DiscoveryInv, ServicesInv
    <3>3. \A w \in SvcUids : svcs'[w] = IF w = u THEN v ELSE IF w = prev THEN 0 ELSE svcs[w]
      BY <3>1 DEF Replacing
    <3>4. svcs' \in [SvcUids -> Nat]
      BY <3>1 DEF Replacing, DiscoveryInv, ServicesInv
    <3>5. ASSUME NEW w \in SvcUids
          PROVE  (svcs'[w] # 0 <=> svcLatest'[SvcName[w]] = w) /\ (svcs'[w] # 0 => byName'[SvcName[w]] = w)
      <4>1. /\ svcs[w] # 0 <=> svcLatest[SvcName[w]] = w
            /\ svcs[w] # 0 => byName[SvcName[w]] = w
            /\ SvcName[w] \in DOMAIN byName /\ SvcName[w] \in DOMAIN svcLatest
        BY DEF DiscoveryInv, ServicesInv, LatestServiceHeld
      <4>2. CASE w = u
        BY <3>1, <3>2, <3>3, <4>2 DEF DiscoveryInv, ServicesInv
      <4>3. CASE w # u /\ SvcName[w] = n
        BY <3>1, <3>2, <3>3, <4>1, <4>3 DEF DiscoveryInv, ServicesInv
      <4>4. CASE SvcName[w] # n
        <5>1. w # prev
          BY <3>2, <4>4, DiscoveryAssumption
        <5> QED BY <3>1, <3>2, <3>3, <4>1, <4>4, <5>1 DEF DiscoveryInv, ServicesInv
      <4> QED BY <4>2, <4>3, <4>4
    <3>6. /\ DOMAIN byName' = DOMAIN byName /\ DOMAIN svcLatest' = DOMAIN svcLatest
          /\ byName' = [x \in DOMAIN byName' |-> byName'[x]] /\ svcLatest' = [x \in DOMAIN svcLatest' |-> svcLatest'[x]]
      BY <3>1, <3>2
    <3>7. \A x \in DOMAIN byName' : byName'[x] # "none" => SvcName[byName'[x]] = x
      BY <3>1, <3>2, <3>6 DEF DiscoveryInv, ServicesInv
    <3> QED BY <3>4, <3>5, <3>6, <3>7 DEF DiscoveryInv, ServicesInv, LatestServiceHeld
  <2> QED BY <2>1, <2>2
<1> QED BY <1>1, <1>2, <1>3 DEF DiscoveryInv

LEMMA ServiceDeleted ==
  ASSUME DiscoveryInv, NEW u \in SvcUids, DeleteService(u) PROVE DiscoveryInv'
<1>1. IndexInv' /\ svcGen <= svcGen' /\ UNCHANGED <<monGen, ownerPub, podPub, cacheVars, req>>
  BY DEF DeleteService, DiscoveryInv, IndexInv, Free
<1>2. CachesInv' /\ TagsInv' /\ RunsInv' /\ JoinInv'
  BY <1>1, InformerKeeps DEF DiscoveryInv, IndexInv
<1>3. /\ svcs' \in [SvcUids -> Nat]
      /\ svcs'[u] = 0 /\ \A w \in SvcUids : w # u => svcs'[w] = svcs[w]
  BY DEF DeleteService, DiscoveryInv, ServicesInv
<1>4. /\ byName' \in {byName, [byName EXCEPT ![SvcName[u]] = "none"]}
      /\ byName[SvcName[u]] # u => byName' = byName
  BY DEF DeleteService
<1>5. /\ svcLatest' = IF svcLatest[SvcName[u]] = u THEN [svcLatest EXCEPT ![SvcName[u]] = "none"] ELSE svcLatest
  BY DEF DeleteService
<1>6. /\ DOMAIN byName' = DOMAIN byName /\ DOMAIN svcLatest' = DOMAIN svcLatest
      /\ byName' = [x \in DOMAIN byName' |-> byName'[x]] /\ svcLatest' = [x \in DOMAIN svcLatest' |-> svcLatest'[x]]
  BY <1>4, <1>5 DEF DiscoveryInv, ServicesInv
<1>7. \A x \in DOMAIN byName' : byName'[x] = byName[x] \/ byName'[x] = "none"
  BY <1>4 DEF DiscoveryInv, ServicesInv
<1>8. ASSUME NEW w \in SvcUids
      PROVE  (svcs'[w] # 0 <=> svcLatest'[SvcName[w]] = w) /\ (svcs'[w] # 0 => byName'[SvcName[w]] = w)
  <2>1. /\ svcs[w] # 0 <=> svcLatest[SvcName[w]] = w
        /\ svcs[w] # 0 => byName[SvcName[w]] = w
        /\ SvcName[w] \in DOMAIN byName /\ SvcName[w] \in DOMAIN svcLatest
    BY DEF DiscoveryInv, ServicesInv, LatestServiceHeld
  <2>2. CASE w = u
    BY <1>3, <1>5, <2>1, <2>2, DiscoveryAssumption DEF DiscoveryInv, ServicesInv
  <2>3. CASE w # u
    BY <1>3, <1>4, <1>5, <2>1, <2>3, DiscoveryAssumption DEF DiscoveryInv, ServicesInv
  <2> QED BY <2>2, <2>3
<1>9. ServicesInv'
  BY <1>3, <1>6, <1>7, <1>8 DEF DiscoveryInv, ServicesInv, LatestServiceHeld
<1> QED BY <1>1, <1>2, <1>9 DEF DiscoveryInv

LEMMA OthersChanged ==
  ASSUME DiscoveryInv,
         \/ \E m \in MonitorKeys : (\E v \in {mons[m], mons[m] + 1}, ok \in BOOLEAN : UpsertMonitor(m, v, ok)) \/ DeleteMonitor(m)
         \/ Publish \/ OwnersChange \/ (\E n \in TargetNodes : PodsChange(n))
  PROVE  DiscoveryInv'
<1>1. UNCHANGED <<svcs, byName, svcLatest, svcGen, cacheVars, req>>
  BY DEF UpsertMonitor, DeleteMonitor, Publish, OwnersChange, PodsChange
<1>2. ASSUME \E m \in MonitorKeys : (\E v \in {mons[m], mons[m] + 1}, ok \in BOOLEAN : UpsertMonitor(m, v, ok)) \/ DeleteMonitor(m)
      PROVE  IndexInv' /\ monGen <= monGen' /\ UNCHANGED <<ownerPub, podPub>>
  BY <1>2 DEF UpsertMonitor, DeleteMonitor, DiscoveryInv, IndexInv, Free
<1>3. ASSUME Publish \/ OwnersChange PROVE IndexInv' /\ monGen' = monGen /\ ownerPub <= ownerPub' /\ podPub' = podPub
  BY <1>3 DEF Publish, OwnersChange, DiscoveryInv, IndexInv
<1>4. ASSUME NEW n \in TargetNodes, PodsChange(n)
      PROVE  IndexInv' /\ UNCHANGED <<monGen, ownerPub>> /\ \A x \in TargetNodes : podPub[x] <= podPub'[x]
  BY <1>4 DEF PodsChange, DiscoveryInv, IndexInv
<1>5. /\ IndexInv' /\ monGen <= monGen' /\ ownerPub <= ownerPub' /\ svcGen <= svcGen'
      /\ \A x \in TargetNodes : podPub[x] <= podPub'[x]
  BY <1>1, <1>2, <1>3, <1>4 DEF DiscoveryInv, IndexInv
<1>6. CachesInv' /\ TagsInv' /\ RunsInv' /\ JoinInv'
  BY <1>1, <1>5, InformerKeeps
<1>7. ServicesInv'
  BY <1>1 DEF DiscoveryInv, ServicesInv, LatestServiceHeld
<1> QED BY <1>5, <1>6, <1>7 DEF DiscoveryInv

-----------------------------------------------------------------------------
(* The steps of a request.                                                   *)

\* A request's record after a step: it differs from x in what is listed.
Moved(q, x, pc) ==
  /\ q \in RunType /\ q.pc = pc /\ q.tag = x.tag /\ q.since = x.since /\ q.at = x.at
  /\ q.doc = x.doc /\ q.gen = x.gen /\ q.usable = x.usable /\ q.src = x.src

LEMMA Stepped ==
  ASSUME RunsInv, NEW r \in TargetRequests, NEW x \in RunType, NEW pc \in RunPcs, Step(r, pc, x)
  PROVE  \E q : Moved(q, x, pc) /\ req' = [req EXCEPT ![r] = q]
<1> DEFINE q == [x EXCEPT !.pc = pc]
<1>1. Moved(q, x, pc)
  BY DEF RunType, Moved
<1> QED BY <1>1 DEF Step

LEMMA Gone ==
  ASSUME RunsInv, NEW r \in TargetRequests, NEW pc \in RunPcs, Go(r, pc)
  PROVE  \E q : Moved(q, req[r], pc) /\ req' = [req EXCEPT ![r] = q]
<1> DEFINE q == [req[r] EXCEPT !.pc = pc]
<1>1. req[r] \in RunType
  BY DEF RunsInv
<1>2. Moved(q, req[r], pc)
  BY <1>1 DEF RunType, Moved
<1>3. req' = [req EXCEPT ![r] = q]
  BY <1>1 DEF Go, RunsInv
<1> QED BY <1>2, <1>3

\* A request that read a generation, or a part of its document.
LEMMA GenRead ==
  ASSUME NEW x \in RunType, NEW g \in Nat
  PROVE  LET y == [x EXCEPT !.gen = g] IN
         y \in RunType /\ y.gen = g /\ y.since = x.since /\ y.at = x.at /\ y.doc = x.doc
BY DEF RunType

LEMMA DocRead ==
  ASSUME NEW x \in RunType, NEW d \in DocType
  PROVE  LET y == [x EXCEPT !.doc = d] IN
         y \in RunType /\ y.gen = x.gen /\ y.since = x.since /\ y.at = x.at /\ y.doc = d
BY DEF RunType

\* What a step of one request leaves to be shown.
LEMMA RunMoves ==
  ASSUME DiscoveryInv, NEW r \in TargetRequests, NEW q, req' = [req EXCEPT ![r] = q],
         RunOK(q, podPub[RequestNode[r]], ownerPub, svcGen, monGen),
         UNCHANGED indexVars, CachesInv', TagsInv', JoinInv'
  PROVE  DiscoveryInv'
<1> USE DEF indexVars
<1>1. IndexInv' /\ ServicesInv'
  BY DEF DiscoveryInv, IndexInv, ServicesInv, LatestServiceHeld
<1>2. q \in RunType
  BY DEF RunOK
<1>3. RunsInv'
  BY <1>2 DEF DiscoveryInv, RunsInv
<1> QED BY <1>1, <1>3 DEF DiscoveryInv

\* The same, for a step that leaves the caches alone and does not rebuild the join.
LEMMA RunReads ==
  ASSUME DiscoveryInv, NEW r \in TargetRequests, NEW q, req' = [req EXCEPT ![r] = q],
         RunOK(q, podPub[RequestNode[r]], ownerPub, svcGen, monGen), q.pc # "joinSvcs",
         UNCHANGED <<indexVars, cacheVars>>
  PROVE  DiscoveryInv'
<1>1. CachesInv' /\ TagsInv'
  BY DEF DiscoveryInv, CachesInv, TagsInv, TagEntryOK, indexVars, cacheVars
<1>2. JoinInv'
  BY DEF DiscoveryInv, JoinInv, RunsInv, cacheVars
<1> QED BY <1>1, <1>2, RunMoves

\* The facts about the request that steps.
LEMMA RunFacts ==
  ASSUME DiscoveryInv, NEW r \in TargetRequests
  PROVE  /\ req[r] \in RunType /\ req[r].at \in TagType /\ req[r].since \in DocType /\ req[r].doc \in DocType
         /\ req[r].gen \in Nat /\ RequestNode[r] \in TargetNodes /\ podPub[RequestNode[r]] \in Nat
         /\ RunOK(req[r], podPub[RequestNode[r]], ownerPub, svcGen, monGen)
         /\ svcGen \in Nat /\ monGen \in Nat /\ ownerPub \in Nat /\ svcPub \in Nat /\ monPub \in Nat
         /\ \A s \in Sources : req[r].at[s] \in Nat /\ req[r].since[s] \in Int
<1>1. req[r] \in RunType /\ RunOK(req[r], podPub[RequestNode[r]], ownerPub, svcGen, monGen) /\ RequestNode[r] \in TargetNodes
  BY DEF DiscoveryInv, RunsInv, TargetNodes
<1>2. req[r].at \in TagType /\ req[r].since \in DocType /\ req[r].doc \in DocType /\ req[r].gen \in Nat
  BY <1>1 DEF RunType
<1>3. \A s \in Sources : req[r].at[s] \in Nat /\ req[r].since[s] \in Int
  BY <1>2 DEF TagType, DocType, Sources
<1> QED BY <1>1, <1>2, <1>3 DEF DiscoveryInv, IndexInv

LEMMA BeginKeeps == ASSUME DiscoveryInv, NEW r \in TargetRequests, Begin(r) PROVE DiscoveryInv'
<1>1. PICK tag : /\ tag \in {NoDoc} \cup {req[q].doc : q \in TargetRequests}
                 /\ Step(r, IF r \in AuthRequests THEN "auth" ELSE IF tag = NoDoc THEN "sample2" ELSE "sample1",
                         [NoRun EXCEPT !.tag = tag,
                           !.since = [pods |-> podPub[RequestNode[r]], owners |-> ownerPub, services |-> svcPub,
                                      monitors |-> monPub, joinedSvcs |-> svcPub, podMonitors |-> monPub]])
                 /\ UNCHANGED <<indexVars, cacheVars>>
  BY DEF Begin
<1> DEFINE since == [pods |-> podPub[RequestNode[r]], owners |-> ownerPub, services |-> svcPub,
                     monitors |-> monPub, joinedSvcs |-> svcPub, podMonitors |-> monPub]
<1> DEFINE x == [NoRun EXCEPT !.tag = tag, !.since = since]
<1>2. tag \in DocType
  BY <1>1, DocFacts, RunFacts
<1>3. since \in DocType
  BY RunFacts DEF DocType
<1>4. /\ x \in RunType /\ x.since = since /\ x.src = "pods" /\ x.at = NoRun.at
  <2>1. PICK n : n = NoRun
    OBVIOUS
  <2>2. n \in RunType /\ n.src = "pods" /\ x = [n EXCEPT !.tag = tag, !.since = since]
    BY <2>1, NoRunOK, RunFacts DEF NoRun
  <2> HIDE DEF x, since
  <2> QED BY <1>2, <1>3, <2>1, <2>2 DEF RunType
<1>5. PICK pc \in {"auth", "sample1", "sample2"} : Step(r, pc, x)
  BY <1>1
<1> HIDE DEF x
<1>6. PICK q : Moved(q, x, pc) /\ req' = [req EXCEPT ![r] = q]
  BY <1>4, <1>5, Stepped DEF RunPcs, DiscoveryInv
<1>7. Past(q.at, podPub[RequestNode[r]], ownerPub, svcGen, monGen)
  BY <1>4, <1>6, RunFacts DEF Past, Moved, NoRun
<1>8. Past(q.since, podPub[RequestNode[r]], ownerPub, svcGen, monGen)
  BY <1>4, <1>6, RunFacts DEF Past, Moved, DiscoveryInv, IndexInv
<1>9. /\ q.pc \in {"auth", "sample1", "sample2"} /\ q.src = "pods" /\ q \in RunType
      /\ q.since.joinedSvcs = q.since.services /\ q.since.podMonitors = q.since.monitors
  BY <1>4, <1>6 DEF Moved
<1>10. StageOK(q, svcGen, monGen)
  BY <1>9 DEF StageOK, SampledSoFar
<1> QED BY <1>1, <1>6, <1>7, <1>8, <1>9, <1>10, RunReads DEF RunOK

LEMMA SampleKeeps == ASSUME DiscoveryInv, NEW r \in TargetRequests, Sample(r) PROVE DiscoveryInv'
<1> DEFINE s == req[r].src
<1> DEFINE g == GenerationOf(s, RequestNode[r])
<1> DEFINE last == NextSample[s] = "done"
<1> DEFINE x == [req[r] EXCEPT !.at[s] = g, !.src = IF last THEN "pods" ELSE NextSample[s]]
<1>1. s \in Sources /\ g \in Nat
  BY RunFacts DEF RunType, Sources, GenerationOf
<1>2. /\ last <=> s = "monitors"
      /\ s = "pods" => NextSample[s] = "owners"
      /\ s = "owners" => NextSample[s] = "services"
      /\ s = "services" => NextSample[s] = "monitors"
  BY <1>1 DEF NextSample, Sources
<1>3. g >= req[r].since[s] /\ Past([req[r].at EXCEPT ![s] = g], podPub[RequestNode[r]], ownerPub, svcGen, monGen)
  BY <1>1, RunFacts DEF GenerationOf, Sources, RunOK, Past, TagType
<1>4. [req[r].at EXCEPT ![s] = g] \in TagType
  BY <1>1, RunFacts DEF TagType, Sources
<1>5. /\ x \in RunType /\ x.at = [req[r].at EXCEPT ![s] = g] /\ x.since = req[r].since
      /\ x.src = (IF last THEN "pods" ELSE NextSample[s])
  BY <1>1, <1>2, <1>4, RunFacts DEF RunType, Sources
<1>6. PICK pc : /\ pc = (IF ~last THEN req[r].pc ELSE IF req[r].pc = "sample1" THEN "probe" ELSE "pods")
                /\ Step(r, pc, x) /\ req[r].pc \in {"sample1", "sample2"} /\ UNCHANGED <<indexVars, cacheVars>>
  BY DEF Sample
<1> HIDE DEF x
<1>7. PICK q : Moved(q, x, pc) /\ req' = [req EXCEPT ![r] = q]
  <2>1. pc \in RunPcs
    BY <1>6 DEF RunPcs
  <2> QED BY <1>5, <1>6, <2>1, Stepped DEF DiscoveryInv
<1>8. \A t \in Sources : q.at[t] = IF t = s THEN g ELSE req[r].at[t]
  BY <1>1, <1>5, <1>7, RunFacts DEF Moved, TagType, Sources
<1>9. SampledSoFar(req[r])
  BY <1>6, RunFacts DEF RunOK, StageOK
<1>10. /\ q.since = req[r].since /\ q.pc = pc /\ q.src = (IF last THEN "pods" ELSE NextSample[s]) /\ q \in RunType
  BY <1>5, <1>7 DEF Moved
<1> HIDE DEF g
<1>11. StageOK(q, svcGen, monGen)
  <2>1. CASE ~last
    <3>1. SampledSoFar(q)
      BY <1>1, <1>2, <1>3, <1>8, <1>9, <1>10, <2>1 DEF SampledSoFar, Sampled, Sources
    <3> QED BY <1>6, <1>10, <2>1, <3>1 DEF StageOK
  <2>2. CASE last
    <3>1. AllSampled(q)
      BY <1>1, <1>2, <1>3, <1>8, <1>9, <1>10, <2>2 DEF SampledSoFar, AllSampled, Sampled, Sources
    <3> QED BY <1>6, <1>10, <2>2, <3>1 DEF StageOK
  <2> QED BY <2>1, <2>2
<1>12. RunOK(q, podPub[RequestNode[r]], ownerPub, svcGen, monGen)
  BY <1>3, <1>5, <1>7, <1>10, <1>11, RunFacts DEF RunOK, Moved, g
<1> QED BY <1>6, <1>7, <1>10, <1>12, RunReads

LEMMA BuiltAnswers ==
  ASSUME NEW q \in RunType, AllSampled(q), Built(q.doc, q.at),
         q.since.joinedSvcs = q.since.services, q.since.podMonitors = q.since.monitors
  PROVE  AnswerCurrent(q)
<1>1. q.doc \in DocType /\ q.since \in DocType /\ q.at \in TagType
  BY DEF RunType
<1>2. /\ q.at.pods >= q.since.pods /\ q.at.owners >= q.since.owners
      /\ q.at.services >= q.since.services /\ q.at.monitors >= q.since.monitors
  BY DEF AllSampled, Sampled, Sources
<1>3. /\ q.doc.pods >= q.since.pods /\ q.doc.owners >= q.since.owners /\ q.doc.services >= q.since.services
      /\ q.doc.monitors >= q.since.monitors /\ q.doc.joinedSvcs >= q.since.joinedSvcs
      /\ q.doc.podMonitors >= q.since.podMonitors
  BY <1>1, <1>2 DEF Built, DocType, TagType
<1> QED BY <1>3, DocFacts DEF AnswerCurrent

LEMMA AnswerRuns ==
  ASSUME DiscoveryInv, NEW r \in TargetRequests, NEW d \in DocType, Answer(r, d),
         AllSampled(req[r]), Built(d, req[r].at)
  PROVE  \E q : /\ req' = [req EXCEPT ![r] = q] /\ q.pc = "answered"
                /\ RunOK(q, podPub[RequestNode[r]], ownerPub, svcGen, monGen)
<1> DEFINE x == [req[r] EXCEPT !.doc = d]
<1>1. x \in RunType /\ x.since = req[r].since /\ x.at = req[r].at /\ x.doc = d
  BY DocRead, RunFacts
<1>2. PICK q : Moved(q, x, "answered") /\ req' = [req EXCEPT ![r] = q]
  <2> HIDE DEF x
  <2>1. Step(r, "answered", x)
    BY DEF Answer, x
  <2> QED BY <1>1, <2>1, Stepped DEF RunPcs, DiscoveryInv
<1> HIDE DEF x
<1>3. q \in RunType /\ q.pc = "answered" /\ q.since = req[r].since /\ q.at = req[r].at /\ q.doc = d
  BY <1>1, <1>2 DEF Moved
<1>4. AnswerCurrent(q)
  BY <1>3, BuiltAnswers, RunFacts DEF AllSampled, Sampled, RunOK
<1>5. StageOK(q, svcGen, monGen)
  BY <1>3, <1>4 DEF StageOK
<1> QED BY <1>2, <1>3, <1>5, RunFacts DEF RunOK

LEMMA ProbeKeeps == ASSUME DiscoveryInv, NEW r \in TargetRequests, Probe(r) PROVE DiscoveryInv'
<1> DEFINE e == etags[RequestNode[r]]
<1>1. req[r].pc = "probe" /\ AllSampled(req[r]) /\ UNCHANGED <<indexVars, cacheVars>>
  BY RunFacts DEF Probe, RunOK, StageOK
<1>2. CASE e # NoDoc /\ e.doc = req[r].tag /\ e.valid = req[r].at
  <2>1. e.doc \in DocType /\ Built(e.doc, req[r].at)
    BY <1>2, RunFacts DEF DiscoveryInv, TagsInv, TagEntryOK
  <2>2. PICK q : /\ req' = [req EXCEPT ![r] = q] /\ q.pc = "answered"
                 /\ RunOK(q, podPub[RequestNode[r]], ownerPub, svcGen, monGen)
    BY <1>1, <1>2, <2>1, AnswerRuns DEF Probe
  <2> QED BY <1>1, <2>2, RunReads
<1>3. CASE ~(e # NoDoc /\ e.doc = req[r].tag /\ e.valid = req[r].at)
  <2>1. PICK q : Moved(q, req[r], "sample2") /\ req' = [req EXCEPT ![r] = q]
    BY <1>3, Gone DEF Probe, RunPcs, DiscoveryInv
  <2>2. q \in RunType /\ q.pc = "sample2" /\ q.since = req[r].since /\ q.at = req[r].at
    BY <2>1 DEF Moved
  <2>3. StageOK(q, svcGen, monGen)
    BY <1>1, <2>2 DEF StageOK, SampledSoFar, AllSampled, Sampled, Sources
  <2>4. RunOK(q, podPub[RequestNode[r]], ownerPub, svcGen, monGen)
    BY <2>2, <2>3, RunFacts DEF RunOK
  <2> QED BY <1>1, <2>1, <2>2, <2>4, RunReads
<1> QED BY <1>2, <1>3

LEMMA PodsKeeps == ASSUME DiscoveryInv, NEW r \in TargetRequests, ReadPods(r) PROVE DiscoveryInv'
<1> DEFINE d == [req[r].doc EXCEPT !.pods = podPub[RequestNode[r]]]
<1> DEFINE x == [req[r] EXCEPT !.doc = d]
<1>1. req[r].pc = "pods" /\ AllSampled(req[r]) /\ UNCHANGED <<indexVars, cacheVars>>
  BY RunFacts DEF ReadPods, RunOK, StageOK
<1>2. d \in DocType /\ d.pods = podPub[RequestNode[r]]
  BY RunFacts DEF DocType
<1>3. x \in RunType /\ x.since = req[r].since /\ x.at = req[r].at /\ x.doc = d
  BY <1>2, DocRead, RunFacts
<1>4. Step(r, "joinGen", x)
  BY RunFacts DEF ReadPods
<1> HIDE DEF x, d
<1>5. PICK q : Moved(q, x, "joinGen") /\ req' = [req EXCEPT ![r] = q]
  BY <1>3, <1>4, Stepped DEF RunPcs, DiscoveryInv
<1>6. q \in RunType /\ q.pc = "joinGen" /\ q.since = req[r].since /\ q.at = req[r].at /\ q.doc = d
  BY <1>3, <1>5 DEF Moved
<1>7. StageOK(q, svcGen, monGen)
  BY <1>1, <1>2, <1>6, RunFacts DEF StageOK, PodsRead, AllSampled, Sampled, RunOK, Past, TagType
<1>8. RunOK(q, podPub[RequestNode[r]], ownerPub, svcGen, monGen)
  BY <1>6, <1>7, RunFacts DEF RunOK
<1> QED BY <1>1, <1>5, <1>6, <1>8, RunReads

LEMMA JoinGenKeeps == ASSUME DiscoveryInv, NEW r \in TargetRequests, JoinGenerations(r) PROVE DiscoveryInv'
<1> DEFINE d == [req[r].doc EXCEPT !.joinedSvcs = svcGen]
<1> DEFINE x == [req[r] EXCEPT !.gen = monGen, !.doc = d]
<1>1. req[r].pc = "joinGen" /\ PodsRead(req[r]) /\ UNCHANGED <<indexVars, cacheVars>>
  BY RunFacts DEF JoinGenerations, RunOK, StageOK
<1>2. d \in DocType /\ d.joinedSvcs = svcGen /\ d.pods = req[r].doc.pods
  BY RunFacts DEF DocType
<1>3. x \in RunType /\ x.since = req[r].since /\ x.at = req[r].at /\ x.doc = d /\ x.gen = monGen
  <2> HIDE DEF d
  <2> QED BY <1>2, RunFacts DEF RunType
<1>4. Step(r, "join", x)
  BY RunFacts DEF JoinGenerations
<1> HIDE DEF x, d
<1>5. PICK q : Moved(q, x, "join") /\ req' = [req EXCEPT ![r] = q]
  BY <1>3, <1>4, Stepped DEF RunPcs, DiscoveryInv
<1>6. q \in RunType /\ q.pc = "join" /\ q.since = req[r].since /\ q.at = req[r].at /\ q.doc = d /\ q.gen = monGen
  BY <1>3, <1>5 DEF Moved
<1>7. StageOK(q, svcGen, monGen)
  BY <1>1, <1>2, <1>6, RunFacts DEF StageOK, PodsRead, AllSampled, Sampled, RunOK, Past, TagType
<1>8. RunOK(q, podPub[RequestNode[r]], ownerPub, svcGen, monGen)
  BY <1>6, <1>7, RunFacts DEF RunOK
<1> QED BY <1>1, <1>5, <1>6, <1>8, RunReads

LEMMA JoinCachedKeeps == ASSUME DiscoveryInv, NEW r \in TargetRequests, JoinCached(r) PROVE DiscoveryInv'
<1> DEFINE d == [req[r].doc EXCEPT !.monitors = joined.mon, !.joinedSvcs = joined.svc]
<1> DEFINE x == [req[r] EXCEPT !.doc = d]
<1>1. /\ req[r].pc = "join" /\ PodsRead(req[r]) /\ UNCHANGED <<indexVars, cacheVars>>
      /\ req[r].gen >= req[r].at.monitors /\ req[r].doc.joinedSvcs >= req[r].at.services
  BY RunFacts DEF JoinCached, RunOK, StageOK
<1>2. joined.mon \in Int /\ joined.svc \in Int /\ joined.monGen \in Nat /\ joined.svcGen \in Nat
  BY DEF DiscoveryInv, CachesInv
<1>3. joined.mon >= req[r].gen /\ joined.svc >= req[r].doc.joinedSvcs
  BY <1>2, RunFacts DEF JoinCached, DiscoveryInv, CachesInv, DocType
<1>4. d \in DocType /\ d.monitors = joined.mon /\ d.joinedSvcs = joined.svc /\ d.pods = req[r].doc.pods
  BY <1>2, RunFacts DEF DocType
<1>5. x \in RunType /\ x.since = req[r].since /\ x.at = req[r].at /\ x.doc = d
  BY <1>4, DocRead, RunFacts
<1>6. Step(r, "podMonGen", x)
  BY RunFacts DEF JoinCached
<1> HIDE DEF x, d
<1>7. PICK q : Moved(q, x, "podMonGen") /\ req' = [req EXCEPT ![r] = q]
  BY <1>5, <1>6, Stepped DEF RunPcs, DiscoveryInv
<1>8. q \in RunType /\ q.pc = "podMonGen" /\ q.since = req[r].since /\ q.at = req[r].at /\ q.doc = d
  BY <1>5, <1>7 DEF Moved
<1>9. StageOK(q, svcGen, monGen)
  BY <1>1, <1>2, <1>3, <1>4, <1>8, RunFacts DEF StageOK, JoinRead, PodsRead, AllSampled, Sampled, TagType, DocType
<1>10. RunOK(q, podPub[RequestNode[r]], ownerPub, svcGen, monGen)
  BY <1>8, <1>9, RunFacts DEF RunOK
<1> QED BY <1>1, <1>7, <1>8, <1>10, RunReads

LEMMA JoinMonitorsKeeps == ASSUME DiscoveryInv, NEW r \in TargetRequests, JoinMonitors(r) PROVE DiscoveryInv'
<1> DEFINE d == [req[r].doc EXCEPT !.monitors = monPub]
<1> DEFINE x == [req[r] EXCEPT !.doc = d]
<1>1. /\ req[r].pc = "join" /\ PodsRead(req[r]) /\ UNCHANGED <<indexVars, sorted, sortedGen, joined, podMons, authRefs, etags>>
      /\ req[r].gen >= req[r].at.monitors /\ req[r].gen <= monGen
      /\ req[r].doc.joinedSvcs >= req[r].at.services /\ req[r].doc.joinedSvcs <= svcGen
      /\ joinHolder = NoRequest /\ joinHolder' = r
  BY RunFacts DEF JoinMonitors, RunOK, StageOK
<1>2. monPub = monGen /\ joined.monGen <= monGen
  BY DEF JoinMonitors, DiscoveryInv, IndexInv, CachesInv
<1>3. d \in DocType /\ d.monitors = monGen /\ d.pods = req[r].doc.pods /\ d.joinedSvcs = req[r].doc.joinedSvcs
  BY <1>2, RunFacts DEF DocType
<1>4. x \in RunType /\ x.since = req[r].since /\ x.at = req[r].at /\ x.doc = d /\ x.gen = req[r].gen
  BY <1>3, DocRead, RunFacts
<1>5. Step(r, "joinSvcs", x)
  BY RunFacts DEF JoinMonitors
<1> HIDE DEF x, d
<1>6. PICK q : Moved(q, x, "joinSvcs") /\ req' = [req EXCEPT ![r] = q]
  BY <1>4, <1>5, Stepped DEF RunPcs, DiscoveryInv
<1>7. /\ q \in RunType /\ q.pc = "joinSvcs" /\ q.since = req[r].since /\ q.at = req[r].at /\ q.doc = d
      /\ q.gen = req[r].gen
  BY <1>4, <1>6 DEF Moved
<1>8. StageOK(q, svcGen, monGen)
  BY <1>1, <1>2, <1>3, <1>7, RunFacts DEF StageOK, PodsRead, AllSampled, Sampled
<1>9. RunOK(q, podPub[RequestNode[r]], ownerPub, svcGen, monGen)
  BY <1>7, <1>8, RunFacts DEF RunOK
<1>10. CachesInv' /\ TagsInv'
  BY <1>1 DEF DiscoveryInv, CachesInv, TagsInv, TagEntryOK, indexVars
<1>11. JoinInv'
  BY <1>1, <1>2, <1>3, <1>6, <1>7, DiscoveryAssumption DEF DiscoveryInv, JoinInv, RunsInv
<1> QED BY <1>1, <1>6, <1>9, <1>10, <1>11, RunMoves

LEMMA JoinServicesKeeps == ASSUME DiscoveryInv, NEW r \in TargetRequests, JoinServices(r) PROVE DiscoveryInv'
<1> DEFINE d == [req[r].doc EXCEPT !.joinedSvcs = svcPub]
<1> DEFINE x == [req[r] EXCEPT !.doc = d]
<1>1. /\ req[r].pc = "joinSvcs" /\ PodsRead(req[r]) /\ UNCHANGED <<indexVars, sorted, sortedGen, podMons, authRefs, etags>>
      /\ req[r].gen >= req[r].at.monitors /\ req[r].gen <= monGen /\ req[r].doc.monitors >= req[r].gen
      /\ req[r].doc.joinedSvcs >= req[r].at.services /\ req[r].doc.joinedSvcs <= svcGen
  BY RunFacts DEF JoinServices, RunOK, StageOK
<1>2. /\ svcPub = svcGen /\ joined.svcGen <= svcGen /\ joined.monGen <= monGen
      /\ joined.monGen \in Nat /\ joined.svcGen \in Nat
      /\ joinHolder = r /\ req[r].doc.monitors >= joined.monGen
  BY <1>1 DEF JoinServices, DiscoveryInv, IndexInv, CachesInv, JoinInv
<1>3. /\ d \in DocType /\ d.joinedSvcs = svcGen /\ d.pods = req[r].doc.pods /\ d.monitors = req[r].doc.monitors
      /\ req[r].doc.monitors \in Int /\ req[r].doc.joinedSvcs \in Nat
  BY <1>1, <1>2, RunFacts DEF DocType, TagType
<1>4. x \in RunType /\ x.since = req[r].since /\ x.at = req[r].at /\ x.doc = d
  BY <1>3, DocRead, RunFacts
<1>5. Step(r, "podMonGen", x)
  BY RunFacts DEF JoinServices
<1> HIDE DEF x, d
<1>6. PICK q : Moved(q, x, "podMonGen") /\ req' = [req EXCEPT ![r] = q]
  BY <1>4, <1>5, Stepped DEF RunPcs, DiscoveryInv
<1>7. q \in RunType /\ q.pc = "podMonGen" /\ q.since = req[r].since /\ q.at = req[r].at /\ q.doc = d
  BY <1>4, <1>6 DEF Moved
<1>8. StageOK(q, svcGen, monGen)
  BY <1>1, <1>2, <1>3, <1>7, RunFacts DEF StageOK, JoinRead, PodsRead, AllSampled, Sampled, TagType
<1>9. RunOK(q, podPub[RequestNode[r]], ownerPub, svcGen, monGen)
  BY <1>7, <1>8, RunFacts DEF RunOK
<1>10. PICK mg \in Nat, sg \in Nat :
         /\ joined' = [mon |-> req[r].doc.monitors, svc |-> svcPub, valid |-> TRUE, monGen |-> mg, svcGen |-> sg]
         /\ mg <= monGen /\ sg <= svcGen /\ mg <= req[r].doc.monitors
  BY <1>1, <1>2, <1>3, RunFacts DEF JoinServices, Larger
<1>11. CachesInv'
  BY <1>1, <1>2, <1>3, <1>10, RunFacts DEF DiscoveryInv, CachesInv, indexVars
<1>12. TagsInv'
  BY <1>1 DEF DiscoveryInv, TagsInv, TagEntryOK
<1>13. JoinInv'
  BY <1>2, <1>6, <1>7 DEF DiscoveryInv, JoinInv, RunsInv
<1> QED BY <1>1, <1>6, <1>9, <1>11, <1>12, <1>13, RunMoves

LEMMA PodMonGenKeeps == ASSUME DiscoveryInv, NEW r \in TargetRequests, PodMonitorsGeneration(r) PROVE DiscoveryInv'
<1> DEFINE x == [req[r] EXCEPT !.gen = monGen]
<1>1. req[r].pc = "podMonGen" /\ JoinRead(req[r]) /\ UNCHANGED <<indexVars, cacheVars>>
  BY RunFacts DEF PodMonitorsGeneration, RunOK, StageOK
<1>2. x \in RunType /\ x.since = req[r].since /\ x.at = req[r].at /\ x.doc = req[r].doc /\ x.gen = monGen
  BY GenRead, RunFacts
<1>3. Step(r, "podMons", x)
  BY DEF PodMonitorsGeneration
<1> HIDE DEF x
<1>4. PICK q : Moved(q, x, "podMons") /\ req' = [req EXCEPT ![r] = q]
  BY <1>2, <1>3, Stepped DEF RunPcs, DiscoveryInv
<1>5. q \in RunType /\ q.pc = "podMons" /\ q.since = req[r].since /\ q.at = req[r].at /\ q.doc = req[r].doc /\ q.gen = monGen
  BY <1>2, <1>4 DEF Moved
<1>6. StageOK(q, svcGen, monGen)
  BY <1>1, <1>5, RunFacts DEF StageOK, JoinRead, PodsRead, AllSampled, Sampled, RunOK, Past, TagType
<1>7. RunOK(q, podPub[RequestNode[r]], ownerPub, svcGen, monGen)
  BY <1>5, <1>6, RunFacts DEF RunOK
<1> QED BY <1>1, <1>4, <1>5, <1>7, RunReads

LEMMA PodMonsKeeps == ASSUME DiscoveryInv, NEW r \in TargetRequests, PodMonitorsList(r) PROVE DiscoveryInv'
<1> DEFINE d == [req[r].doc EXCEPT !.podMonitors = podMons'.mon]
<1> DEFINE x == [req[r] EXCEPT !.doc = d]
<1>1. /\ req[r].pc = "podMons" /\ JoinRead(req[r])
      /\ UNCHANGED <<indexVars, sorted, sortedGen, joined, authRefs, joinHolder, etags>>
      /\ req[r].gen >= req[r].at.monitors /\ req[r].gen <= monGen
  BY RunFacts DEF PodMonitorsList, RunOK, StageOK
<1>2. /\ podMons' \in [mon : Int, gen : Nat, valid : BOOLEAN] /\ podMons'.gen <= monGen
      /\ podMons'.valid /\ podMons'.mon >= podMons'.gen /\ podMons'.mon >= req[r].gen
  <2>1. podMons \in [mon : Int, gen : Nat, valid : BOOLEAN] /\ podMons.gen <= monGen /\ podMons.gen \in Nat /\ podMons.mon \in Int
    BY DEF DiscoveryInv, CachesInv
  <2>2. CASE podMons.valid /\ podMons.gen >= req[r].gen
    BY <2>1, <2>2, RunFacts DEF PodMonitorsList, DiscoveryInv, CachesInv
  <2>3. CASE ~(podMons.valid /\ podMons.gen >= req[r].gen)
    <3>1. monPub = monGen /\ podMons' = [mon |-> monPub, gen |-> Larger(podMons.gen, req[r].gen), valid |-> TRUE]
      BY <2>3 DEF PodMonitorsList, DiscoveryInv, IndexInv
    <3>2. Larger(podMons.gen, req[r].gen) \in Nat /\ Larger(podMons.gen, req[r].gen) <= monGen
      BY <1>1, <2>1, RunFacts DEF Larger
    <3> QED BY <1>1, <3>1, <3>2, RunFacts
  <2> QED BY <2>2, <2>3
<1>3. /\ d \in DocType /\ d.podMonitors = podMons'.mon /\ d.pods = req[r].doc.pods
      /\ d.monitors = req[r].doc.monitors /\ d.joinedSvcs = req[r].doc.joinedSvcs /\ podMons'.mon \in Int
  BY <1>2, RunFacts DEF DocType
<1>4. x \in RunType /\ x.since = req[r].since /\ x.at = req[r].at /\ x.doc = d
  BY <1>3, DocRead, RunFacts
<1>5. Step(r, "inNsGen", x)
  BY RunFacts DEF PodMonitorsList
<1> HIDE DEF x, d
<1>6. PICK q : Moved(q, x, "inNsGen") /\ req' = [req EXCEPT ![r] = q]
  BY <1>4, <1>5, Stepped DEF RunPcs, DiscoveryInv
<1>7. q \in RunType /\ q.pc = "inNsGen" /\ q.since = req[r].since /\ q.at = req[r].at /\ q.doc = d
  BY <1>4, <1>6 DEF Moved
<1>8. StageOK(q, svcGen, monGen)
  BY <1>1, <1>2, <1>3, <1>7, RunFacts DEF StageOK, PodMonsRead, JoinRead, PodsRead, AllSampled, Sampled, TagType
<1>9. RunOK(q, podPub[RequestNode[r]], ownerPub, svcGen, monGen)
  BY <1>7, <1>8, RunFacts DEF RunOK
<1>10. CachesInv' /\ TagsInv'
  BY <1>1, <1>2 DEF DiscoveryInv, CachesInv, TagsInv, TagEntryOK, indexVars
<1>11. JoinInv'
  BY <1>1, <1>6, <1>7 DEF DiscoveryInv, JoinInv, RunsInv
<1> QED BY <1>1, <1>6, <1>9, <1>10, <1>11, RunMoves

LEMMA InNsGenKeeps == ASSUME DiscoveryInv, NEW r \in TargetRequests, InNamespacesGeneration(r) PROVE DiscoveryInv'
<1> DEFINE x == [req[r] EXCEPT !.gen = svcGen]
<1>1. req[r].pc = "inNsGen" /\ PodMonsRead(req[r]) /\ UNCHANGED <<indexVars, cacheVars>>
  BY RunFacts DEF InNamespacesGeneration, RunOK, StageOK
<1>2. x \in RunType /\ x.since = req[r].since /\ x.at = req[r].at /\ x.doc = req[r].doc /\ x.gen = svcGen
  BY GenRead, RunFacts
<1>3. Step(r, "inNsMemo", x)
  BY DEF InNamespacesGeneration
<1> HIDE DEF x
<1>4. PICK q : Moved(q, x, "inNsMemo") /\ req' = [req EXCEPT ![r] = q]
  BY <1>2, <1>3, Stepped DEF RunPcs, DiscoveryInv
<1>5. q \in RunType /\ q.pc = "inNsMemo" /\ q.since = req[r].since /\ q.at = req[r].at /\ q.doc = req[r].doc /\ q.gen = svcGen
  BY <1>2, <1>4 DEF Moved
<1>6. StageOK(q, svcGen, monGen)
  BY <1>1, <1>5, RunFacts DEF StageOK, PodMonsRead, JoinRead, PodsRead, AllSampled, Sampled, RunOK, Past, TagType
<1>7. RunOK(q, podPub[RequestNode[r]], ownerPub, svcGen, monGen)
  BY <1>5, <1>6, RunFacts DEF RunOK
<1> QED BY <1>1, <1>4, <1>5, <1>7, RunReads

\* The Services are known: read from the kept, or from the index.
LEMMA ServicesRead ==
  ASSUME DiscoveryInv, NEW r \in TargetRequests, NEW v \in Int, NEW pc \in {"owners", "inNsInstall"},
         Step(r, pc, [req[r] EXCEPT !.doc.services = v]),
         req[r].pc \in {"inNsMemo", "inNsBuild"}, v >= req[r].gen
  PROVE  \E q : /\ req' = [req EXCEPT ![r] = q] /\ q.pc = pc
                /\ RunOK(q, podPub[RequestNode[r]], ownerPub, svcGen, monGen)
<1> DEFINE d == [req[r].doc EXCEPT !.services = v]
<1> DEFINE x == [req[r] EXCEPT !.doc = d]
<1>1. PodMonsRead(req[r]) /\ req[r].gen >= req[r].at.services /\ req[r].gen <= svcGen
  BY RunFacts DEF RunOK, StageOK
<1>2. /\ d \in DocType /\ d.services = v /\ d.pods = req[r].doc.pods /\ d.podMonitors = req[r].doc.podMonitors
      /\ d.monitors = req[r].doc.monitors /\ d.joinedSvcs = req[r].doc.joinedSvcs
  BY RunFacts DEF DocType
<1>3. x \in RunType /\ x.since = req[r].since /\ x.at = req[r].at /\ x.doc = d /\ x.gen = req[r].gen
  BY <1>2, DocRead, RunFacts
<1>4. Step(r, pc, x)
  BY RunFacts
<1> HIDE DEF x, d
<1>5. PICK q : Moved(q, x, pc) /\ req' = [req EXCEPT ![r] = q]
  BY <1>3, <1>4, Stepped DEF RunPcs, DiscoveryInv
<1>6. q \in RunType /\ q.pc = pc /\ q.since = req[r].since /\ q.at = req[r].at /\ q.doc = d /\ q.gen = req[r].gen
  BY <1>3, <1>5 DEF Moved
<1>7. StageOK(q, svcGen, monGen)
  BY <1>1, <1>2, <1>6, RunFacts DEF StageOK, PodMonsRead, JoinRead, PodsRead, AllSampled, Sampled, TagType
<1>8. RunOK(q, podPub[RequestNode[r]], ownerPub, svcGen, monGen)
  BY <1>6, <1>7, RunFacts DEF RunOK
<1> QED BY <1>5, <1>6, <1>8

LEMMA UsableRead ==
  ASSUME NEW x \in RunType, NEW b \in BOOLEAN
  PROVE  LET y == [x EXCEPT !.usable = b]
         IN  y \in RunType /\ y.since = x.since /\ y.at = x.at /\ y.doc = x.doc /\ y.gen = x.gen
BY DEF RunType

LEMMA InNsMemoKeeps == ASSUME DiscoveryInv, NEW r \in TargetRequests, InNamespacesMemo(r) PROVE DiscoveryInv'
<1> DEFINE kept == IF req[r].gen > sortedGen THEN -1 ELSE sorted
<1> DEFINE usable == req[r].gen >= sortedGen
<1>1. /\ req[r].pc = "inNsMemo" /\ UNCHANGED <<indexVars, joined, podMons, authRefs, joinHolder, etags>>
      /\ sorted' = kept /\ sortedGen' = Larger(sortedGen, req[r].gen)
      /\ req[r].gen >= req[r].at.services /\ req[r].gen <= svcGen /\ PodMonsRead(req[r])
  BY RunFacts DEF InNamespacesMemo, RunOK, StageOK
<1>2. /\ kept \in Int /\ sortedGen' \in Nat /\ sortedGen' <= svcGen /\ (kept # -1 => kept >= sortedGen')
      /\ usable /\ kept # -1 => kept >= req[r].gen
  BY <1>1, RunFacts DEF DiscoveryInv, CachesInv, Larger
<1>3. CachesInv' /\ TagsInv'
  BY <1>1, <1>2 DEF DiscoveryInv, CachesInv, TagsInv, TagEntryOK, indexVars
<1>4. PICK q : /\ req' = [req EXCEPT ![r] = q] /\ q.pc # "joinSvcs"
               /\ RunOK(q, podPub[RequestNode[r]], ownerPub, svcGen, monGen)
  <2>1. CASE usable /\ kept # -1
    <3>1. Step(r, "owners", [req[r] EXCEPT !.doc.services = kept])
      BY <2>1 DEF InNamespacesMemo
    <3> HIDE DEF kept
    <3> QED BY <1>1, <1>2, <2>1, <3>1, ServicesRead
  <2>2. CASE ~(usable /\ kept # -1)
    <3> DEFINE x == [req[r] EXCEPT !.usable = usable]
    <3>0. usable \in BOOLEAN
      OBVIOUS
    <3>1. x \in RunType /\ x.since = req[r].since /\ x.at = req[r].at /\ x.doc = req[r].doc /\ x.gen = req[r].gen
      <4> HIDE DEF usable
      <4>1. req[r] \in RunType
        BY RunFacts
      <4> QED BY <3>0, <4>1, UsableRead
    <3>2. Step(r, "inNsBuild", x)
      BY <2>2 DEF InNamespacesMemo
    <3> HIDE DEF x
    <3>3. PICK q : Moved(q, x, "inNsBuild") /\ req' = [req EXCEPT ![r] = q]
      BY <3>1, <3>2, Stepped DEF RunPcs, DiscoveryInv
    <3>4. /\ q \in RunType /\ q.pc = "inNsBuild" /\ q.since = req[r].since /\ q.at = req[r].at
          /\ q.doc = req[r].doc /\ q.gen = req[r].gen
      BY <3>1, <3>3 DEF Moved
    <3>5. StageOK(q, svcGen, monGen)
      BY <1>1, <3>4 DEF StageOK, PodMonsRead, JoinRead, PodsRead, AllSampled, Sampled
    <3>6. RunOK(q, podPub[RequestNode[r]], ownerPub, svcGen, monGen)
      BY <3>4, <3>5, RunFacts DEF RunOK
    <3> QED BY <3>3, <3>4, <3>6
  <2> QED BY <2>1, <2>2
<1>5. JoinInv'
  BY <1>1, <1>4 DEF DiscoveryInv, JoinInv, RunsInv
<1> QED BY <1>1, <1>3, <1>4, <1>5, RunMoves

LEMMA InNsBuildKeeps == ASSUME DiscoveryInv, NEW r \in TargetRequests, InNamespacesBuild(r) PROVE DiscoveryInv'
<1>1. req[r].pc = "inNsBuild" /\ UNCHANGED <<indexVars, cacheVars>> /\ svcPub = svcGen /\ req[r].gen <= svcGen
  BY RunFacts DEF InNamespacesBuild, DiscoveryInv, IndexInv, RunOK, StageOK
<1>2. PICK pc \in {"owners", "inNsInstall"} : Step(r, pc, [req[r] EXCEPT !.doc.services = svcPub])
  BY DEF InNamespacesBuild
<1>3. PICK q : /\ req' = [req EXCEPT ![r] = q] /\ q.pc = pc
               /\ RunOK(q, podPub[RequestNode[r]], ownerPub, svcGen, monGen)
  BY <1>1, <1>2, ServicesRead, RunFacts
<1> QED BY <1>1, <1>3, RunReads

LEMMA InNsInstallKeeps == ASSUME DiscoveryInv, NEW r \in TargetRequests, InNamespacesInstall(r) PROVE DiscoveryInv'
<1>1. /\ req[r].pc = "inNsInstall" /\ UNCHANGED <<indexVars, sortedGen, joined, podMons, authRefs, joinHolder, etags>>
      /\ sorted' = (IF sortedGen = req[r].gen THEN req[r].doc.services ELSE sorted)
      /\ PodMonsRead(req[r]) /\ req[r].doc.services >= req[r].gen /\ req[r].gen >= req[r].at.services
  BY RunFacts DEF InNamespacesInstall, RunOK, StageOK
<1>2. req[r].doc.services \in Int /\ req[r].at.services \in Nat
  BY RunFacts DEF DocType, TagType
<1>3. CachesInv' /\ TagsInv'
  BY <1>1, <1>2, RunFacts DEF DiscoveryInv, CachesInv, TagsInv, TagEntryOK, indexVars
<1>4. PICK q : Moved(q, req[r], "owners") /\ req' = [req EXCEPT ![r] = q]
  BY Gone DEF InNamespacesInstall, RunPcs, DiscoveryInv
<1>5. q \in RunType /\ q.pc = "owners" /\ q.since = req[r].since /\ q.at = req[r].at /\ q.doc = req[r].doc
  BY <1>4 DEF Moved
<1>6. StageOK(q, svcGen, monGen)
  BY <1>1, <1>2, <1>5, RunFacts DEF StageOK, PodMonsRead, JoinRead, PodsRead, AllSampled, Sampled
<1>7. RunOK(q, podPub[RequestNode[r]], ownerPub, svcGen, monGen)
  BY <1>5, <1>6, RunFacts DEF RunOK
<1>8. JoinInv'
  BY <1>1, <1>4, <1>5 DEF DiscoveryInv, JoinInv, RunsInv
<1> QED BY <1>1, <1>3, <1>4, <1>7, <1>8, RunMoves

LEMMA OwnersKeeps == ASSUME DiscoveryInv, NEW r \in TargetRequests, ReadOwners(r) PROVE DiscoveryInv'
<1> DEFINE d == [req[r].doc EXCEPT !.owners = ownerPub]
<1> DEFINE x == [req[r] EXCEPT !.doc = d]
<1>1. /\ req[r].pc = "owners" /\ PodMonsRead(req[r]) /\ UNCHANGED <<indexVars, cacheVars>>
      /\ req[r].doc.services >= req[r].at.services
  BY RunFacts DEF ReadOwners, RunOK, StageOK
<1>2. /\ d \in DocType /\ d.owners = ownerPub /\ d.services = req[r].doc.services /\ d.pods = req[r].doc.pods
      /\ d.podMonitors = req[r].doc.podMonitors /\ d.monitors = req[r].doc.monitors /\ d.joinedSvcs = req[r].doc.joinedSvcs
  BY RunFacts DEF DocType
<1>3. x \in RunType /\ x.since = req[r].since /\ x.at = req[r].at /\ x.doc = d
  BY <1>2, DocRead, RunFacts
<1>4. Step(r, "remember", x)
  BY RunFacts DEF ReadOwners
<1> HIDE DEF x, d
<1>5. PICK q : Moved(q, x, "remember") /\ req' = [req EXCEPT ![r] = q]
  BY <1>3, <1>4, Stepped DEF RunPcs, DiscoveryInv
<1>6. q \in RunType /\ q.pc = "remember" /\ q.since = req[r].since /\ q.at = req[r].at /\ q.doc = d
  BY <1>3, <1>5 DEF Moved
<1>7. req[r].at.owners <= ownerPub /\ req[r].at.owners \in Nat
  BY RunFacts DEF RunOK, Past, TagType
<1>8. StageOK(q, svcGen, monGen)
  BY <1>1, <1>2, <1>6, <1>7, RunFacts DEF StageOK, PodMonsRead, JoinRead, PodsRead, AllSampled, Sampled, Built
<1>9. RunOK(q, podPub[RequestNode[r]], ownerPub, svcGen, monGen)
  BY <1>6, <1>8, RunFacts DEF RunOK
<1> QED BY <1>1, <1>5, <1>6, <1>9, RunReads

LEMMA RememberKeeps == ASSUME DiscoveryInv, NEW r \in TargetRequests, Remember(r) PROVE DiscoveryInv'
<1> DEFINE n == RequestNode[r]
<1> DEFINE entry == [doc |-> req[r].doc, valid |-> req[r].at]
<1>1. /\ req[r].pc = "remember" /\ UNCHANGED <<indexVars, sorted, sortedGen, joined, podMons, authRefs, joinHolder>>
      /\ AllSampled(req[r]) /\ Built(req[r].doc, req[r].at) /\ Answer(r, req[r].doc)
  BY RunFacts DEF Remember, RunOK, StageOK
<1>2. PICK q : /\ req' = [req EXCEPT ![r] = q] /\ q.pc = "answered"
               /\ RunOK(q, podPub[RequestNode[r]], ownerPub, svcGen, monGen)
  BY <1>1, AnswerRuns, RunFacts
<1>3. TagEntryOK(entry)
  BY <1>1, RunFacts DEF TagEntryOK
<1>4. \E swept : /\ swept = [x \in TargetNodes |-> swept[x]]
                 /\ \A x \in TargetNodes : swept[x] = NoDoc \/ swept[x] = etags[x]
                 /\ etags' = swept \/ etags' = [swept EXCEPT ![n] = entry]
  BY DEF Remember, DiscoveryInv, TagsInv
<1>5. TagsInv'
  <2>1. PICK swept : /\ swept = [x \in TargetNodes |-> swept[x]]
                     /\ \A x \in TargetNodes : swept[x] = NoDoc \/ swept[x] = etags[x]
                     /\ etags' = swept \/ etags' = [swept EXCEPT ![n] = entry]
    BY <1>4
  <2> HIDE DEF entry
  <2>2. \A x \in TargetNodes : etags'[x] = NoDoc \/ TagEntryOK(etags'[x])
    BY <1>3, <2>1, RunFacts DEF DiscoveryInv, TagsInv
  <2>3. etags' = [x \in TargetNodes |-> etags'[x]]
    BY <2>1
  <2> QED BY <2>2, <2>3 DEF TagsInv
<1>6. CachesInv'
  BY <1>1 DEF DiscoveryInv, CachesInv, indexVars
<1>7. JoinInv'
  BY <1>1, <1>2 DEF DiscoveryInv, JoinInv, RunsInv
<1> QED BY <1>1, <1>2, <1>5, <1>6, <1>7, RunMoves

LEMMA AuthGenKeeps == ASSUME DiscoveryInv, NEW r \in TargetRequests, AuthGeneration(r) PROVE DiscoveryInv'
<1> DEFINE x == [req[r] EXCEPT !.gen = monGen]
<1>1. x \in RunType /\ x.since = req[r].since /\ x.at = req[r].at /\ x.gen = monGen
  BY GenRead, RunFacts
<1>2. Step(r, "authRefs", x) /\ UNCHANGED <<indexVars, cacheVars>>
  BY DEF AuthGeneration
<1> HIDE DEF x
<1>3. PICK q : Moved(q, x, "authRefs") /\ req' = [req EXCEPT ![r] = q]
  BY <1>1, <1>2, Stepped DEF RunPcs, DiscoveryInv
<1>4. q \in RunType /\ q.pc = "authRefs" /\ q.since = req[r].since /\ q.at = req[r].at /\ q.gen = monGen
  BY <1>1, <1>3 DEF Moved
<1>5. StageOK(q, svcGen, monGen)
  BY <1>4, RunFacts DEF StageOK, RunOK, Past, DocType
<1>6. RunOK(q, podPub[RequestNode[r]], ownerPub, svcGen, monGen)
  BY <1>4, <1>5, RunFacts DEF RunOK
<1> QED BY <1>2, <1>3, <1>4, <1>6, RunReads

LEMMA AuthRefsKeeps == ASSUME DiscoveryInv, NEW r \in TargetRequests, AuthSecretRefs(r) PROVE DiscoveryInv'
<1> DEFINE d == [req[r].since EXCEPT !.monitors = authRefs'.mon]
<1> DEFINE x == [req[r] EXCEPT !.doc = d]
<1>1. /\ req[r].pc = "authRefs" /\ UNCHANGED <<indexVars, sorted, sortedGen, joined, podMons, joinHolder, etags>>
      /\ req[r].gen >= req[r].since.monitors /\ req[r].gen <= monGen
  BY RunFacts DEF AuthSecretRefs, RunOK, StageOK
<1>2. /\ authRefs' \in [mon : Int, gen : Nat, valid : BOOLEAN] /\ authRefs'.valid
      /\ authRefs'.mon >= authRefs'.gen /\ authRefs'.gen = req[r].gen
  <2>1. CASE authRefs.valid /\ authRefs.gen = req[r].gen
    BY <2>1 DEF AuthSecretRefs, DiscoveryInv, CachesInv
  <2>2. CASE ~(authRefs.valid /\ authRefs.gen = req[r].gen)
    BY <1>1, <2>2, RunFacts DEF AuthSecretRefs, DiscoveryInv, IndexInv
  <2> QED BY <2>1, <2>2
<1>3. /\ d \in DocType /\ d.monitors >= req[r].since.monitors /\ d.pods = req[r].since.pods /\ d.owners = req[r].since.owners
      /\ d.services = req[r].since.services /\ d.joinedSvcs = req[r].since.joinedSvcs
      /\ d.podMonitors = req[r].since.podMonitors
  BY <1>1, <1>2, RunFacts DEF DocType
<1>4. x \in RunType /\ x.since = req[r].since /\ x.at = req[r].at /\ x.doc = d
  BY <1>3, DocRead, RunFacts
<1>5. Step(r, "answered", x)
  BY DEF AuthSecretRefs, Answer
<1> HIDE DEF x, d
<1>6. PICK q : Moved(q, x, "answered") /\ req' = [req EXCEPT ![r] = q]
  BY <1>4, <1>5, Stepped DEF RunPcs, DiscoveryInv
<1>7. q \in RunType /\ q.pc = "answered" /\ q.since = req[r].since /\ q.at = req[r].at /\ q.doc = d
  BY <1>4, <1>6 DEF Moved
<1>8. AnswerCurrent(q)
  <2>1. /\ req[r].since.pods \in Int /\ req[r].since.owners \in Int /\ req[r].since.services \in Int
        /\ req[r].since.joinedSvcs \in Int /\ req[r].since.podMonitors \in Int
    BY RunFacts DEF DocType
  <2> QED BY <1>3, <1>7, <2>1, DocFacts DEF AnswerCurrent
<1>9. StageOK(q, svcGen, monGen)
  BY <1>7, <1>8 DEF StageOK
<1>10. RunOK(q, podPub[RequestNode[r]], ownerPub, svcGen, monGen)
  BY <1>7, <1>9, RunFacts DEF RunOK
<1>11. CachesInv' /\ TagsInv'
  BY <1>1, <1>2 DEF DiscoveryInv, CachesInv, TagsInv, TagEntryOK, indexVars
<1>12. JoinInv'
  BY <1>1, <1>6, <1>7 DEF DiscoveryInv, JoinInv, RunsInv
<1> QED BY <1>1, <1>6, <1>10, <1>11, <1>12, RunMoves

LEMMA DiscoveryKeeps == DiscoveryInv /\ [DiscoveryNext]_discoveryVars => DiscoveryInv'
<1> SUFFICES ASSUME DiscoveryInv, [DiscoveryNext]_discoveryVars PROVE DiscoveryInv'
  OBVIOUS
<1>1. CASE UNCHANGED discoveryVars
  BY <1>1 DEF DiscoveryInv, IndexInv, CachesInv, TagsInv, TagEntryOK, RunsInv, JoinInv, ServicesInv, LatestServiceHeld, discoveryVars
<1>2. ASSUME NEW r \in TargetRequests, RequestStep(r) PROVE DiscoveryInv'
  BY <1>2, BeginKeeps, SampleKeeps, ProbeKeeps, PodsKeeps, JoinGenKeeps, JoinCachedKeeps, JoinMonitorsKeeps,
     JoinServicesKeeps, PodMonGenKeeps, PodMonsKeeps, InNsGenKeeps, InNsMemoKeeps, InNsBuildKeeps,
     InNsInstallKeeps, OwnersKeeps, RememberKeeps, AuthGenKeeps, AuthRefsKeeps DEF RequestStep
<1> QED BY <1>1, <1>2, ServiceUpserted, ServiceDeleted, OthersChanged DEF DiscoveryNext

\* For any number of Services, monitors, nodes and requests at once: an answer, built or
\* "not modified", shows every change that was published before its request began, and
\* each name of the Service index is held by the Service last seen under it
\* (nodeTargets, nodeTargetsNotModified, monitoredServices, InNamespaces, Index.Upsert).
THEOREM AnswersAlwaysCurrent == DiscoverySpec => []AnswersCurrent
<1>1. DiscoveryInv => AnswersCurrent
  BY RunFacts DEF DiscoveryInv, ServicesInv, AnswersCurrent, AnswerIsFresh, RunOK, StageOK, AnswerCurrent
<1> QED BY <1>1, DiscoveryStarts, DiscoveryKeeps, PTL DEF DiscoverySpec
===============================================================================
