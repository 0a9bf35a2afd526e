------------------------ MODULE SharedMemoryTreeProofs ------------------------
(***************************************************************************)
(* Proofs about SharedMemoryTree, for any capacity, keys and data.          *)
(*                                                                          *)
(* The inductive invariant is TypeOK, KeysDistinct and SlotsDense together: *)
(* a removal keeps the numbers dense because the last node carries the last *)
(* number (Removable), the numbers are distinct, and every node except the  *)
(* removed one survives exactly once (AfterRemoveKeeps).                    *)
(*                                                                          *)
(* With it, SharedMemoryTree implements KeyedStore: the map from the        *)
(* present keys that have a block to the contents of their blocks changes   *)
(* by one operation of a bounded map, or not at all.                        *)
(***************************************************************************)
EXTENDS SharedMemoryTree, FiniteSetTheorems, TLAPS

IInv == TypeOK /\ KeysDistinct /\ SlotsDense

(* The slot of nd that AfterRemove(nd, n, i, j) moved to slot l. *)
Origin(n, i, j, l) ==
    LET o == IF l = j THEN n - 1 ELSE l
    IN  IF o = i THEN j ELSE o
-----------------------------------------------------------------------------
(* A removal (RedBlackTree::Remove) keeps every node but the removed one,   *)
(* each in one slot below the new size.                                     *)
LEMMA AfterRemoveKeeps ==
    ASSUME NEW nd \in [Slots -> Nodes], NEW n \in 1 .. MaxSize,
           NEW i \in 0 .. n - 1, NEW j \in 0 .. n - 1
    PROVE  /\ AfterRemove(nd, n, i, j) \in [Slots -> Nodes]
           /\ \A l \in 0 .. n - 2 :
                 /\ Origin(n, i, j, l) \in (0 .. n - 1) \ {i}
                 /\ AfterRemove(nd, n, i, j)[l] = nd[Origin(n, i, j, l)]
           /\ \A l, m \in 0 .. n - 2 :
                 Origin(n, i, j, l) = Origin(n, i, j, m) => l = m
<1>. USE SizeAssumption
<1>1. n - 1 \in Slots /\ i \in Slots /\ j \in Slots
  BY DEF Slots
<1>2. ZeroNode \in Nodes
  BY DEF ZeroNode, Nodes, Values, Slots
<1>3. AfterRemove(nd, n, i, j) \in [Slots -> Nodes]
  BY <1>1, <1>2 DEF AfterRemove
<1>4. ASSUME NEW l \in 0 .. n - 2
      PROVE  /\ Origin(n, i, j, l) \in (0 .. n - 1) \ {i}
             /\ AfterRemove(nd, n, i, j)[l] = nd[Origin(n, i, j, l)]
  <2>1. l \in Slots /\ l # n - 1
    BY DEF Slots
  <2>2. Origin(n, i, j, l) \in (0 .. n - 1) \ {i}
    BY <2>1 DEF Origin
  <2>3. AfterRemove(nd, n, i, j)[l] = nd[Origin(n, i, j, l)]
    BY <1>1, <2>1 DEF AfterRemove, Origin
  <2>. QED  BY <2>2, <2>3
<1>5. ASSUME NEW l \in 0 .. n - 2, NEW m \in 0 .. n - 2,
             Origin(n, i, j, l) = Origin(n, i, j, m)
      PROVE  l = m
  BY <1>5 DEF Origin
<1>. QED  BY <1>3, <1>4, <1>5

(* The initial, empty tree satisfies the invariant. *)
LEMMA InitIInv == Init => IInv
<1>. SUFFICES ASSUME Init PROVE IInv
  OBVIOUS
<1>. USE SizeAssumption, DataAssumption, SpaceAssumption DEF Init, ArrayInit
<1>1. TypeOK
  BY DEF TypeOK, ZeroNode, Nodes, Values, Slots, Blocks
<1>2. KeysDistinct /\ SlotsDense
  BY DEF KeysDistinct, SlotsDense, Live
<1>. QED  BY <1>1, <1>2 DEF IInv

(* ShmKey names a block, and names different blocks for different numbers   *)
(* below the capacity.                                                      *)
LEMMA ShmKeyFacts == \A v \in Slots : ShmKey(v) \in Blocks /\ ShmKey(v) = v
<1>. SUFFICES ASSUME NEW v \in Slots
              PROVE  ShmKey(v) = v /\ v \in Blocks
  OBVIOUS
<1>1. v \in 0 .. KeySpace - 1 /\ KeySpace \in Nat
  BY SizeAssumption, SpaceAssumption DEF Slots
<1>2. v % KeySpace = v
  BY <1>1
<1>. QED  BY <1>1, <1>2 DEF ShmKey, Blocks

(* The slot BlockOf chooses for a present key, its number and its block. *)
LEMMA BlockOfFacts ==
    ASSUME IInv, NEW k \in Present
    PROVE  \E i \in SlotsOf(k) : /\ i = CHOOSE l \in SlotsOf(k) : TRUE
                                 /\ i \in Live
                                 /\ node[i].Value \in Slots
                                 /\ BlockOf(k) = node[i].Value
                                 /\ BlockOf(k) \in Blocks
<1>. DEFINE i == CHOOSE l \in SlotsOf(k) : TRUE
<1>1. i \in SlotsOf(k)
  BY DEF Present, SlotsOf
<1>. HIDE DEF i
<1>2. i \in Live /\ node[i].Value \in Slots
  <2>1. i \in Live
    BY <1>1 DEF SlotsOf
  <2>2. i \in Slots
    BY <2>1, SizeAssumption DEF IInv, TypeOK, Live, Slots
  <2>3. node[i] \in Nodes
    BY <2>2 DEF IInv, TypeOK
  <2>. QED  BY <2>1, <2>3 DEF Nodes, Values
<1>3. BlockOf(k) = node[i].Value /\ BlockOf(k) \in Blocks
  BY <1>2, ShmKeyFacts DEF BlockOf, i
<1>. QED  BY <1>1, <1>2, <1>3 DEF i

(* Obtaining a block keeps the types of the block variables. *)
LEMMA ObtainType ==
    ASSUME TypeOK, NEW b \in Blocks, NEW fresh \in SUBSET Data, Obtain(b, fresh)
    PROVE  blocks' \subseteq Blocks /\ data' \in [Blocks -> Data]
BY DEF TypeOK, Obtain

(* Appending a node numbered with the count (Add on a new key). *)
LEMMA InsertIInv ==
    ASSUME IInv, NEW k \in Keys, k \notin Present, HasRoom,
           InsertNode(k, size), blocks' \subseteq Blocks,
           data' \in [Blocks -> Data]
    PROVE  IInv'
<1>. USE SizeAssumption DEF IInv, TypeOK
<1>1. /\ size' = size + 1
      /\ node' = [node EXCEPT ![size] = [Key |-> k, Value |-> size]]
      /\ size \in Slots /\ size' \in 0 .. MaxSize
  BY DEF InsertNode, AfterInsert, HasRoom, Slots
<1>2. [Key |-> k, Value |-> size] \in Nodes
  BY <1>1 DEF Nodes, Values
<1>3. TypeOK'
  BY <1>1, <1>2
<1>4. \A i \in Live' : /\ i \in Slots
                       /\ i = size \/ i \in Live
                       /\ i \in Live => i # size /\ node'[i] = node[i]
                       /\ i = size => node'[i].Key = k /\ node'[i].Value = size
  BY <1>1 DEF Live, Slots
<1>5. \A i \in Live : node[i].Key # k
  BY DEF Present
<1>6. KeysDistinct'
  BY <1>4, <1>5 DEF KeysDistinct
<1>7. \A i \in Live : node[i].Value < size /\ node[i].Value \in Int
  BY DEF SlotsDense, Live, Slots, Nodes, Values
<1>8. SlotsDense'
  BY <1>1, <1>4, <1>7 DEF SlotsDense
<1>. QED  BY <1>3, <1>6, <1>8

(* Deleting a removable key: the last node takes over the number s of the   *)
(* removed node i, and the tree drops node i.                               *)
LEMMA RemoveIInv ==
    ASSUME IInv, NEW i \in Live, NEW j \in Live, size > 0, LastValue = size - 1,
           node' = AfterRemove(Redirected(node[i].Value), size, i, j),
           size' = size - 1, blocks' = blocks, data' \in [Blocks -> Data]
    PROVE  IInv'
<1>. USE SizeAssumption DEF IInv
<1>. DEFINE s  == node[i].Value
            nd == Redirected(s)
<1>1. /\ size \in 1 .. MaxSize /\ i \in 0 .. size - 1 /\ j \in 0 .. size - 1
      /\ size - 1 \in Slots /\ i \in Slots /\ Live \subseteq Slots
      /\ node \in [Slots -> Nodes]
  BY DEF TypeOK, Live, Slots
<1>2. s \in Values /\ s < size
  BY <1>1 DEF Nodes, SlotsDense
<1>3. /\ nd \in [Slots -> Nodes]
      /\ \A l \in Slots : nd[l].Key = node[l].Key
      /\ \A l \in Slots \ {size - 1} : nd[l].Value = node[l].Value
      /\ nd[size - 1].Value = s
  BY <1>1, <1>2 DEF Redirected, Nodes
<1>4. /\ node' \in [Slots -> Nodes]
      /\ \A l \in 0 .. size - 2 :
            /\ Origin(size, i, j, l) \in Live \ {i}
            /\ node'[l] = nd[Origin(size, i, j, l)]
      /\ \A l, m \in 0 .. size - 2 :
            Origin(size, i, j, l) = Origin(size, i, j, m) => l = m
  <2>1. node' = AfterRemove(nd, size, i, j) /\ Live = 0 .. size - 1
    BY DEF Live
  <2>. HIDE DEF nd
  <2>2. /\ AfterRemove(nd, size, i, j) \in [Slots -> Nodes]
        /\ \A l \in 0 .. size - 2 :
              /\ Origin(size, i, j, l) \in (0 .. size - 1) \ {i}
              /\ AfterRemove(nd, size, i, j)[l] = nd[Origin(size, i, j, l)]
        /\ \A l, m \in 0 .. size - 2 :
              Origin(size, i, j, l) = Origin(size, i, j, m) => l = m
    BY <1>1, <1>3, AfterRemoveKeeps, Zenon
  <2>. QED  BY <2>1, <2>2, Zenon
<1>5. Live' = 0 .. size - 2 /\ Live' \subseteq Slots
  BY <1>1 DEF Live, Slots
<1>6. TypeOK'
  BY <1>1, <1>4 DEF TypeOK
<1>7. KeysDistinct'
  <2>1. \A l, m \in Live : nd[l].Key = nd[m].Key => l = m
    BY <1>1, <1>3 DEF KeysDistinct
  <2>. QED  BY <1>4, <1>5, <2>1 DEF KeysDistinct
<1>8. \A l \in Live : node[l].Value \in Int /\ node[l].Value < size
  BY <1>1 DEF SlotsDense, Nodes, Values, Slots
<1>9. \A l, m \in Live : node[l].Value = node[m].Value => l = m
  BY DEF SlotsDense
<1>10. \A l \in Live \ {i} : nd[l].Value < size - 1
  <2>. SUFFICES ASSUME NEW l \in Live \ {i} PROVE nd[l].Value < size - 1
    OBVIOUS
  <2>1. CASE l = size - 1
    <3>1. s # size - 1
      BY <1>1, <1>9, <2>1 DEF LastValue, Live
    <3>. QED  BY <1>1, <1>2, <1>3, <1>8, <2>1, <3>1
  <2>2. CASE l # size - 1
    <3>1. node[l].Value # size - 1
      BY <1>1, <1>9, <2>2 DEF LastValue, Live
    <3>. QED  BY <1>1, <1>3, <1>8, <2>2, <3>1
  <2>. QED  BY <2>1, <2>2
<1>11. \A l, m \in Live \ {i} : nd[l].Value = nd[m].Value => l = m
  BY <1>1, <1>3, <1>9
<1>12. SlotsDense'
  <2>. HIDE DEF nd
  <2>1. \A l \in Live' : node'[l].Value < size'
    BY <1>4, <1>5, <1>10
  <2>2. \A l, m \in Live' : node'[l].Value = node'[m].Value => l = m
    BY <1>4, <1>5, <1>11
  <2>. QED  BY <2>1, <2>2 DEF SlotsDense
<1>. QED  BY <1>6, <1>7, <1>12

(* Every operation of CSharedMemoryTree keeps the invariant. *)
LEMMA NextIInv == IInv /\ [Next]_vars => IInv'
<1>. SUFFICES ASSUME IInv, [Next]_vars PROVE IInv'
  OBVIOUS
<1>. USE SizeAssumption, DataAssumption, SpaceAssumption
<1>1. ASSUME UNCHANGED <<size, node>>, blocks' \subseteq Blocks,
             data' \in [Blocks -> Data]
      PROVE  IInv'
  BY <1>1 DEF IInv, TypeOK, KeysDistinct, SlotsDense, Live
<1>2. ASSUME UNCHANGED vars PROVE IInv'
  BY <1>1, <1>2 DEF vars, IInv, TypeOK
<1>3. \A k \in Present : BlockOf(k) \in Blocks
  BY BlockOfFacts
<1>4. ASSUME NEW k \in Keys, Add(k) PROVE IInv'
  <2>1. CASE k \in Present /\ Obtain(BlockOf(k), {ZeroData}) /\ UNCHANGED <<size, node>>
    BY <1>1, <1>3, <2>1, ObtainType DEF IInv
  <2>2. CASE /\ k \notin Present /\ HasRoom
             /\ InsertNode(k, size) /\ Obtain(ShmKey(size), {ZeroData})
    <3>1. ShmKey(size) \in Blocks
      BY <2>2, ShmKeyFacts DEF HasRoom, IInv, TypeOK, Slots
    <3>. QED  BY <2>2, <3>1, ObtainType, InsertIInv DEF IInv
  <2>. QED  BY <1>2, <1>4, <2>1, <2>2 DEF Add
<1>5. ASSUME NEW k \in Keys, Subscript(k) PROVE IInv'
  BY <1>2, <1>4, <1>5 DEF Subscript
<1>6. ASSUME NEW index \in Slots, GetArray(index) PROVE IInv'
  BY <1>1, <1>6, ShmKeyFacts, ObtainType DEF GetArray, IInv
<1>7. ASSUME NEW b \in Blocks, NEW d \in Data, WriteBlock(b, d) PROVE IInv'
  BY <1>1, <1>7 DEF WriteBlock, IInv, TypeOK
<1>8. ASSUME NEW k \in Keys, Remove(k) PROVE IInv'
  <2>1. CASE /\ k \in Present
             /\ Removable(k)
             /\ \E i \in SlotsOf(k) :
                   LET s == node[i].Value
                   IN  /\ data' = Copied(s)
                       /\ \E j \in {i} \cup Predecessors(i) :
                             node' = AfterRemove(Redirected(s), size, i, j)
             /\ size' = size - 1
             /\ UNCHANGED blocks
    <3>1. PICK i \in SlotsOf(k) :
             /\ data' = Copied(node[i].Value)
             /\ \E j \in {i} \cup Predecessors(i) :
                   node' = AfterRemove(Redirected(node[i].Value), size, i, j)
      BY <2>1
    <3>2. PICK j \in {i} \cup Predecessors(i) :
             node' = AfterRemove(Redirected(node[i].Value), size, i, j)
      BY <3>1
    <3>3. i \in Live /\ j \in Live /\ size > 0
      BY <3>1, <3>2 DEF SlotsOf, Predecessors, Live, IInv, TypeOK
    <3>4. ShmKey(size - 1) \in Blocks
      BY <3>3, ShmKeyFacts DEF IInv, TypeOK, Slots
    <3>5. data' \in [Blocks -> Data]
      BY <3>1, <3>4 DEF Copied, IInv, TypeOK
    <3>. QED  BY <2>1, <3>2, <3>3, <3>5, RemoveIInv DEF Removable
  <2>. QED  BY <1>2, <1>8, <2>1 DEF Remove
<1>9. ASSUME Reset PROVE IInv'
  <2>1. TypeOK'
    BY <1>9 DEF Reset, ClearNodes, IInv, TypeOK, ZeroNode, Nodes, Values, Slots
  <2>2. KeysDistinct' /\ SlotsDense'
    BY <1>9 DEF Reset, ClearNodes, KeysDistinct, SlotsDense, Live
  <2>. QED  BY <2>1, <2>2 DEF IInv
<1>. QED  BY <1>2, <1>4, <1>5, <1>6, <1>7, <1>8, <1>9 DEF Next
-----------------------------------------------------------------------------
(* The invariant holds in every state, whatever calls are made.             *)
LEMMA Inductive == Spec => []IInv
BY InitIInv, NextIInv, PTL DEF Spec

(* The segments keep their types whatever sequence of calls is made. *)
THEOREM TypeCorrect == Spec => []TypeOK
<1>1. IInv => TypeOK
  BY DEF IInv
<1>. QED  BY Inductive, <1>1, PTL

(* The tree never holds a key twice (RedBlackTree::insert, ::Remove). *)
THEOREM KeysStayDistinct == Spec => []KeysDistinct
<1>1. IInv => KeysDistinct
  BY DEF IInv
<1>. QED  BY Inductive, <1>1, PTL

(* The numbers of the live nodes stay a permutation of 0 .. count - 1       *)
(* (CSharedMemoryTree::Add, ::Remove).                                      *)
THEOREM SlotsStayDense == Spec => []SlotsDense
<1>1. IInv => SlotsDense
  BY DEF IInv
<1>. QED  BY Inductive, <1>1, PTL

(* Two present keys never share a block of shared memory, as long as the    *)
(* capacity fits the bits MAKE_SHM_KEY_FROM_INDEX keeps.                    *)
THEOREM BlocksStayDistinct == Spec => []BlocksDistinct
<1>1. IInv => BlocksDistinct
  <2>. SUFFICES ASSUME IInv, NEW k \in Present, NEW q \in Present,
                       BlockOf(k) = BlockOf(q)
                PROVE  k = q
    BY DEF BlocksDistinct
  <2>1. PICK i \in SlotsOf(k) : i \in Live /\ BlockOf(k) = node[i].Value
    BY BlockOfFacts
  <2>2. PICK m \in SlotsOf(q) : m \in Live /\ BlockOf(q) = node[m].Value
    BY BlockOfFacts
  <2>. QED  BY <2>1, <2>2 DEF IInv, SlotsDense, SlotsOf
<1>. QED  BY Inductive, <1>1, PTL

(* A step that does not shrink the tree leaves every key in its block: the  *)
(* pointers that operator[] and Add returned stay good until Remove or      *)
(* Reset.                                                                   *)
THEOREM PointersStayStable == Spec => PointersStable
<1>1. ASSUME IInv, Next, size' >= size, NEW k \in Present
      PROVE  k \in Present' /\ BlockOf(k)' = BlockOf(k)
  <2>. USE SizeAssumption
  <2>1. size \in 0 .. MaxSize /\ node \in [Slots -> Nodes]
    BY <1>1 DEF IInv, TypeOK
  <2>2. size > 0
    BY <1>1, <2>1 DEF Present, Live
  <2>3. CASE UNCHANGED <<size, node>>
    BY <1>1, <2>3 DEF Present, Live, BlockOf, SlotsOf
  <2>4. ASSUME NEW q \in Keys, q \notin Present, HasRoom, InsertNode(q, size)
        PROVE  k \in Present' /\ BlockOf(k)' = BlockOf(k)
    <3>1. /\ size' = size + 1 /\ size \in Slots
          /\ node' = [node EXCEPT ![size] = [Key |-> q, Value |-> size]]
      BY <2>1, <2>4 DEF InsertNode, AfterInsert, HasRoom, Slots
    <3>2. /\ Live' = Live \cup {size} /\ Live \subseteq Slots
          /\ \A i \in Live : node'[i] = node[i]
          /\ node'[size].Key = q
      BY <2>1, <3>1 DEF Live, Slots
    <3>3. k # q
      BY <2>4
    <3>4. SlotsOf(k)' = SlotsOf(k)
      BY <3>2, <3>3 DEF SlotsOf
    <3>5. k \in Present'
      BY <3>2 DEF Present
    <3>6. PICK i \in Live : i = CHOOSE l \in SlotsOf(k) : TRUE
      BY <1>1, BlockOfFacts
    <3>. QED  BY <3>2, <3>4, <3>5, <3>6 DEF BlockOf
  <2>5. ASSUME NEW q \in Keys, Add(q)
        PROVE  k \in Present' /\ BlockOf(k)' = BlockOf(k)
    BY <2>3, <2>4, <2>5 DEF Add, vars
  <2>6. ASSUME NEW q \in Keys, Remove(q)
        PROVE  UNCHANGED <<size, node>>
    BY <1>1, <2>1, <2>6 DEF Remove, vars
  <2>7. ~ Reset
    BY <1>1, <2>1, <2>2 DEF Reset, ClearNodes
  <2>8. ASSUME NEW q \in Keys, Subscript(q)
        PROVE  k \in Present' /\ BlockOf(k)' = BlockOf(k)
    BY <2>3, <2>5, <2>8 DEF Subscript, vars
  <2>. QED  BY <1>1, <2>3, <2>5, <2>6, <2>7, <2>8 DEF Next, GetArray, WriteBlock
<1>2. IInv /\ [Next]_vars
        => [size' >= size => \A k \in Present :
              k \in Present' /\ BlockOf(k)' = BlockOf(k)]_vars
  BY <1>1
<1>. QED  BY Inductive, <1>2, PTL DEF Spec, PointersStable
-----------------------------------------------------------------------------
(* The key of a live node is one that callers use; TypeOK alone would also  *)
(* allow the 0 of a cleared node.                                           *)
KeysOnly == Present \subseteq Keys

RInv == IInv /\ KeysOnly

(* The map a user sees. *)
Map == [k \in Stored |-> data[BlockOf(k)]]
-----------------------------------------------------------------------------
(* Slots, keys and blocks of the live nodes determine one another. *)
LEMMA BlockAt ==
    IInv => /\ \A i \in Live : /\ node[i].Key \in Present
                               /\ BlockOf(node[i].Key) = node[i].Value
            /\ \A k \in Present : \E i \in Live : node[i].Key = k
            /\ \A k \in Present : BlockOf(k) \in Slots /\ BlockOf(k) \in Blocks
            /\ \A k, q \in Present : BlockOf(k) = BlockOf(q) => k = q
<1>. SUFFICES ASSUME IInv
              PROVE  /\ \A i \in Live : /\ node[i].Key \in Present
                                        /\ BlockOf(node[i].Key) = node[i].Value
                     /\ \A k \in Present : \E i \in Live : node[i].Key = k
                     /\ \A k \in Present : BlockOf(k) \in Slots /\ BlockOf(k) \in Blocks
                     /\ \A k, q \in Present : BlockOf(k) = BlockOf(q) => k = q
  OBVIOUS
<1>1. ASSUME NEW i \in Live
      PROVE  node[i].Key \in Present /\ BlockOf(node[i].Key) = node[i].Value
  <2>1. node[i].Key \in Present
    BY DEF Present
  <2>2. PICK l \in SlotsOf(node[i].Key) : BlockOf(node[i].Key) = node[l].Value
    BY <2>1, BlockOfFacts
  <2>3. l = i
    BY <2>2 DEF SlotsOf, IInv, KeysDistinct
  <2>. QED  BY <2>1, <2>2, <2>3
<1>2. \A k \in Present : \E i \in Live : node[i].Key = k
  BY DEF Present
<1>3. ASSUME NEW k \in Present
      PROVE  BlockOf(k) \in Slots /\ BlockOf(k) \in Blocks
  BY BlockOfFacts
<1>4. ASSUME NEW k \in Present, NEW q \in Present, BlockOf(k) = BlockOf(q)
      PROVE  k = q
  <2>1. PICK i \in Live : node[i].Key = k
    BY <1>2
  <2>2. PICK m \in Live : node[m].Key = q
    BY <1>2
  <2>3. node[i].Value = node[m].Value
    BY <1>1, <1>4, <2>1, <2>2
  <2>. QED  BY <2>1, <2>2, <2>3 DEF IInv, SlotsDense
<1>. QED  BY <1>1, <1>2, <1>3, <1>4

(* The same of the blocks after a step that keeps the invariant. *)
BlocksFollow == \A i \in Live : BlockOf(node[i].Key) = node[i].Value

LEMMA BlocksFollowNext == IInv' => BlocksFollow'
<1>1. IInv => BlocksFollow
  BY BlockAt DEF BlocksFollow
<1>. QED  BY <1>1, PTL

(* There are no more present keys than nodes. *)
LEMMA PresentFinite ==
    ASSUME IInv
    PROVE  IsFiniteSet(Present) /\ Cardinality(Present) <= size
<1>. DEFINE f == [i \in Live |-> node[i].Key]
<1>1. size \in Nat
  BY DEF IInv, TypeOK
<1>2. IsFiniteSet(Live) /\ Cardinality(Live) = size
  BY <1>1, FS_Interval DEF Live
<1>3. f \in Surjection(Live, Present)
  BY DEF Surjection, Present
<1>. QED  BY <1>2, <1>3, FS_Surjection

(* KeyedStore counts as this module does. *)
LEMMA SameCardinality == \A S : Store!Cardinality(S) = Cardinality(S)
BY DEF Store!Cardinality, Cardinality

(* A key without a block, present or not, leaves room in the map. *)
LEMMA RoomForKey ==
    ASSUME IInv, NEW k, k \notin Stored, k \in Present \/ size < MaxSize
    PROVE  /\ DOMAIN Map = Stored /\ k \notin DOMAIN Map
           /\ Store!Cardinality(DOMAIN Map) < MaxSize
<1>1. size \in 0 .. MaxSize /\ MaxSize \in Nat
  BY SizeAssumption DEF IInv, TypeOK
<1>2. IsFiniteSet(Present) /\ Cardinality(Present) <= size /\ Cardinality(Present) \in Nat
  BY PresentFinite, FS_CardinalityType
<1>3. Stored \subseteq Present
  BY DEF Stored
<1>4. /\ IsFiniteSet(Stored) /\ Cardinality(Stored) \in Nat
      /\ Cardinality(Stored) <= Cardinality(Present)
      /\ Cardinality(Present) = Cardinality(Stored) => Present = Stored
  BY <1>2, <1>3, FS_Subset, FS_CardinalityType
<1>5. Cardinality(Stored) < MaxSize
  BY <1>1, <1>2, <1>4
<1>. QED  BY <1>5, SameCardinality DEF Map
-----------------------------------------------------------------------------
(* Steps that leave the tree alone *)

(* Nothing changes. *)
LEMMA StutterMap == ASSUME UNCHANGED vars PROVE UNCHANGED Map
BY DEF vars, Map, Stored, Present, Live, BlockOf, SlotsOf

(* A block is allocated (Get_hashed_shm fails and New_hashed_shm does not), *)
(* which is the block of some present key or of none.                       *)
LEMMA ObtainMap ==
    ASSUME RInv, NEW b \in Blocks, NEW fresh \in SUBSET Data,
           Obtain(b, fresh), UNCHANGED <<size, node>>
    PROVE  UNCHANGED Map \/ \E k \in Keys : Store!Add(k)
<1>. USE BlockAt DEF RInv
<1>1. Present' = Present /\ \A k : BlockOf(k)' = BlockOf(k)
  BY DEF Present, Live, BlockOf, SlotsOf
<1>2. CASE UNCHANGED <<blocks, data>>
  BY <1>2, StutterMap DEF vars
<1>3. ASSUME b \notin blocks, blocks' = blocks \cup {b},
             NEW d \in fresh, data' = [data EXCEPT ![b] = d]
      PROVE  UNCHANGED Map \/ \E k \in Keys : Store!Add(k)
  <2>1. data \in [Blocks -> Data]
    BY DEF IInv, TypeOK
  <2>2. \A k \in Stored : BlockOf(k) # b /\ data'[BlockOf(k)] = data[BlockOf(k)]
    BY <1>3, <2>1 DEF Stored
  <2>3. CASE \E k \in Present : BlockOf(k) = b
    <3>1. PICK k \in Present : BlockOf(k) = b
      BY <2>3
    <3>2. k \in Keys /\ k \notin Stored
      BY <1>3, <3>1 DEF KeysOnly, Stored
    <3>3. Stored' = Stored \cup {k}
      BY <1>1, <1>3, <3>1 DEF Stored
    <3>4. data'[BlockOf(k)] = d
      BY <1>3, <2>1, <3>1
    <3>5. Map' = [q \in Stored \cup {k} |-> IF q = k THEN d ELSE Map[q]]
      BY <1>1, <2>2, <3>3, <3>4 DEF Map
    <3>. QED  BY <1>3, <3>2, <3>5, RoomForKey DEF Store!Add, Map
  <2>4. CASE ~ \E k \in Present : BlockOf(k) = b
    <3>1. Stored' = Stored
      BY <1>1, <1>3, <2>4 DEF Stored
    <3>. QED  BY <1>1, <2>2, <3>1 DEF Map
  <2>. QED  BY <2>3, <2>4
<1>. QED  BY <1>2, <1>3 DEF Obtain

(* A user writes the block of some present key or of none. *)
LEMMA WriteMap ==
    ASSUME RInv, NEW b \in Blocks, NEW d \in Data, WriteBlock(b, d)
    PROVE  UNCHANGED Map \/ \E k \in Keys : Store!Write(k)
<1>. USE BlockAt DEF RInv
<1>1. /\ Present' = Present /\ \A k : BlockOf(k)' = BlockOf(k)
      /\ Stored' = Stored
  BY DEF WriteBlock, Stored, Present, Live, BlockOf, SlotsOf
<1>2. data \in [Blocks -> Data] /\ data' = [data EXCEPT ![b] = d] /\ b \in blocks
  BY DEF WriteBlock, IInv, TypeOK
<1>3. CASE \E k \in Present : BlockOf(k) = b
  <2>1. PICK k \in Present : BlockOf(k) = b
    BY <1>3
  <2>2. k \in Keys /\ k \in Stored
    BY <1>2, <2>1 DEF KeysOnly, Stored
  <2>3. \A q \in Stored : q # k => data'[BlockOf(q)] = data[BlockOf(q)]
    BY <1>2, <2>1 DEF Stored
  <2>4. data'[BlockOf(k)] = d
    BY <1>2, <2>1
  <2>5. Map' = [Map EXCEPT ![k] = d]
    BY <1>1, <2>2, <2>3, <2>4 DEF Map
  <2>. QED  BY <2>2, <2>5 DEF Store!Write, Map
<1>4. CASE ~ \E k \in Present : BlockOf(k) = b
  <2>1. \A q \in Stored : data'[BlockOf(q)] = data[BlockOf(q)]
    BY <1>2, <1>4 DEF Stored
  <2>. QED  BY <1>1, <2>1 DEF Map
<1>. QED  BY <1>3, <1>4
-----------------------------------------------------------------------------
(* Steps that change the tree *)

(* A new key is appended; its block may exist already, be allocated, or     *)
(* fail to be.                                                              *)
LEMMA InsertMap ==
    ASSUME RInv, NEW k \in Keys, k \notin Present, HasRoom,
           InsertNode(k, size), Obtain(ShmKey(size), {ZeroData})
    PROVE  /\ KeysOnly'
           /\ UNCHANGED Map \/ Store!Add(k)
<1>. USE SizeAssumption, DataAssumption DEF RInv
<1>1. /\ size' = size + 1 /\ size \in Slots /\ node \in [Slots -> Nodes]
      /\ node' = [node EXCEPT ![size] = [Key |-> k, Value |-> size]]
      /\ data \in [Blocks -> Data]
  BY DEF InsertNode, AfterInsert, HasRoom, IInv, TypeOK, Slots
<1>2. ShmKey(size) \in Blocks /\ ShmKey(size) = size
  BY <1>1, ShmKeyFacts
<1>3. IInv'
  <2>1. blocks' \subseteq Blocks /\ data' \in [Blocks -> Data]
    BY <1>2, ObtainType DEF IInv
  <2>. QED  BY <2>1, InsertIInv
<1>4. /\ Live' = Live \cup {size} /\ Live \subseteq Slots
      /\ \A i \in Live : i # size /\ node'[i] = node[i]
      /\ node'[size].Key = k /\ node'[size].Value = size
  BY <1>1 DEF Live, Slots
<1>5. Present' = Present \cup {k}
  BY <1>4 DEF Present
<1>6. KeysOnly'
  BY <1>5 DEF KeysOnly
<1>7. \A i \in Live' : BlockOf(node[i].Key)' = node'[i].Value
  BY <1>3, BlocksFollowNext DEF BlocksFollow
<1>8. BlockOf(k)' = size
  BY <1>4, <1>7
<1>9. \A q \in Present : BlockOf(q)' = BlockOf(q) /\ BlockOf(q) # size
  <2>. SUFFICES ASSUME NEW q \in Present
                PROVE  BlockOf(q)' = BlockOf(q) /\ BlockOf(q) # size
    OBVIOUS
  <2>1. PICK i \in Live : node[i].Key = q /\ BlockOf(q) = node[i].Value
    BY BlockAt
  <2>2. node[i].Value # size
    BY <1>1, <2>1 DEF IInv, SlotsDense, Live, Slots
  <2>. QED  BY <1>4, <1>7, <2>1, <2>2
<1>10. \A q \in Stored : q \in Present /\ q # k
  BY DEF Stored
<1>11. /\ DOMAIN Map = Stored /\ k \notin DOMAIN Map
       /\ Store!Cardinality(DOMAIN Map) < MaxSize
  BY <1>10, RoomForKey DEF HasRoom
<1>12. CASE size \in blocks /\ UNCHANGED <<blocks, data>>
  <2>1. Stored' = Stored \cup {k}
    BY <1>5, <1>8, <1>9, <1>12 DEF Stored
  <2>2. Map' = [q \in Stored \cup {k} |-> IF q = k THEN data[size] ELSE Map[q]]
    BY <1>8, <1>9, <1>10, <1>12, <2>1 DEF Map
  <2>3. data[size] \in Data
    BY <1>1, <1>2
  <2>. QED  BY <1>6, <2>2, <2>3, <1>11 DEF Store!Add, Map
<1>13. CASE /\ size \notin blocks /\ blocks' = blocks \cup {size}
            /\ data' = [data EXCEPT ![size] = ZeroData]
  <2>1. Stored' = Stored \cup {k}
    BY <1>5, <1>8, <1>9, <1>13 DEF Stored
  <2>2. data'[size] = ZeroData
    BY <1>1, <1>2, <1>13
  <2>3. \A q \in Stored : data'[BlockOf(q)] = data[BlockOf(q)]
    BY <1>1, <1>9, <1>10, <1>13
  <2>4. Map' = [q \in Stored \cup {k} |-> IF q = k THEN ZeroData ELSE Map[q]]
    BY <1>8, <1>9, <1>10, <2>1, <2>2, <2>3 DEF Map
  <2>. QED  BY <1>6, <2>4, <1>11 DEF Store!Add, Map
<1>14. CASE size \notin blocks /\ UNCHANGED <<blocks, data>>
  <2>1. Stored' = Stored
    BY <1>5, <1>8, <1>9, <1>14 DEF Stored
  <2>. QED  BY <1>6, <1>9, <1>10, <1>14, <2>1 DEF Map
<1>. QED  BY <1>2, <1>12, <1>13, <1>14 DEF Obtain
(* Every node but the removed one survives a removal somewhere. *)
LEMMA OriginOnto ==
    ASSUME NEW n \in Nat \ {0}, NEW i \in 0 .. n - 1, NEW j \in 0 .. n - 1,
           NEW m \in (0 .. n - 1) \ {i}
    PROVE  \E l \in 0 .. n - 2 : Origin(n, i, j, l) = m
<1>1. CASE m = j
  <2>1. CASE i = n - 1
    <3>1. j \in 0 .. n - 2 /\ Origin(n, i, j, j) = m
      BY <1>1, <2>1 DEF Origin
    <3>. QED  BY <3>1
  <2>2. CASE i # n - 1
    <3>1. i \in 0 .. n - 2 /\ Origin(n, i, j, i) = m
      BY <1>1, <2>2 DEF Origin
    <3>. QED  BY <3>1
  <2>. QED  BY <2>1, <2>2
<1>2. CASE m # j /\ m = n - 1
  <2>1. j \in 0 .. n - 2 /\ Origin(n, i, j, j) = m
    BY <1>2 DEF Origin
  <2>. QED  BY <2>1
<1>3. CASE m # j /\ m # n - 1
  <2>1. m \in 0 .. n - 2 /\ Origin(n, i, j, m) = m
    BY <1>3 DEF Origin
  <2>. QED  BY <2>1
<1>. QED  BY <1>1, <1>2, <1>3

(* A removable key goes: its block receives the last one, whose key follows *)
(* it there, and every other key keeps its block.                           *)
LEMMA RemoveMap ==
    ASSUME RInv, NEW k \in Present, Removable(k),
           NEW i \in SlotsOf(k), NEW j \in Live,
           data' = Copied(node[i].Value),
           node' = AfterRemove(Redirected(node[i].Value), size, i, j),
           size' = size - 1, UNCHANGED blocks
    PROVE  KeysOnly' /\ Store!Delete(k)
<1>. USE SizeAssumption DEF RInv
<1>. DEFINE s  == node[i].Value
            nd == Redirected(s)
<1>1. /\ i \in Live /\ node[i].Key = k /\ size \in 1 .. MaxSize
      /\ i \in 0 .. size - 1 /\ j \in 0 .. size - 1
      /\ size - 1 \in Slots /\ Live \subseteq Slots
      /\ node \in [Slots -> Nodes]
  BY DEF SlotsOf, Live, IInv, TypeOK, Slots
<1>2. s \in Values /\ s = BlockOf(k)
  BY <1>1, BlockAt DEF Nodes
<1>3. /\ nd \in [Slots -> Nodes]
      /\ \A l \in Slots : nd[l].Key = node[l].Key
      /\ \A l \in Slots \ {size - 1} : nd[l].Value = node[l].Value
      /\ nd[size - 1].Value = s
  BY <1>1, <1>2 DEF Redirected, Nodes
<1>. HIDE DEF nd
<1>4. /\ Live' = 0 .. size - 2
      /\ \A l \in Live' : \E m \in Live \ {i} : node'[l] = nd[m]
      /\ \A m \in Live \ {i} : \E l \in Live' : node'[l] = nd[m]
  <2>1. \A l \in 0 .. size - 2 : /\ Origin(size, i, j, l) \in Live \ {i}
                                 /\ node'[l] = nd[Origin(size, i, j, l)]
    BY <1>1, <1>3, AfterRemoveKeeps DEF Live, nd
  <2>2. \A m \in Live \ {i} : \E l \in 0 .. size - 2 : Origin(size, i, j, l) = m
    BY <1>1, OriginOnto DEF Live
  <2>3. Live' = 0 .. size - 2
    BY <1>1 DEF Live
  <2>. QED  BY <2>1, <2>2, <2>3
<1>5. \A m \in Live \ {i} : node[m].Key # k
  BY <1>1 DEF IInv, KeysDistinct
<1>6. Present' = Present \ {k}
  <2>1. \A q \in Present' : q \in Present \ {k}
    <3>. SUFFICES ASSUME NEW q \in Present' PROVE q \in Present \ {k}
      OBVIOUS
    <3>1. PICK l \in Live' : node'[l].Key = q
      BY DEF Present
    <3>2. PICK m \in Live \ {i} : node'[l] = nd[m]
      BY <1>4
    <3>. QED  BY <1>1, <1>3, <1>5, <3>1, <3>2 DEF Present
  <2>2. \A q \in Present \ {k} : q \in Present'
    <3>. SUFFICES ASSUME NEW q \in Present \ {k} PROVE q \in Present'
      OBVIOUS
    <3>1. PICK m \in Live \ {i} : node[m].Key = q
      BY <1>1 DEF Present
    <3>2. PICK l \in Live' : node'[l] = nd[m]
      BY <1>4
    <3>. QED  BY <1>1, <1>3, <3>1, <3>2 DEF Present
  <2>. QED  BY <2>1, <2>2
<1>7. KeysOnly'
  BY <1>6 DEF KeysOnly
<1>8. ShmKey(s) = s /\ ShmKey(size - 1) = size - 1 /\ s \in Blocks /\ size - 1 \in Blocks
  BY <1>1, <1>2, ShmKeyFacts DEF Values
<1>9. /\ s \in blocks /\ size - 1 \in blocks /\ node[size - 1].Value = size - 1
      /\ data \in [Blocks -> Data]
      /\ data' = [data EXCEPT ![s] = data[size - 1]]
  BY <1>2, <1>8 DEF Removable, LastValue, Copied, IInv, TypeOK
<1>10. IInv'
  <2>1. data' \in [Blocks -> Data]
    BY <1>8, <1>9
  <2>. QED  BY <1>1, <1>9, <2>1, RemoveIInv DEF LastValue
<1>11. ASSUME NEW q \in Present \ {k}
       PROVE  /\ BlockOf(q)' \in blocks <=> BlockOf(q) \in blocks
              /\ data'[BlockOf(q)'] = data[BlockOf(q)]
  <2>1. PICK m \in Live \ {i} : node[m].Key = q
    BY <1>1 DEF Present
  <2>2. PICK l \in Live' : node'[l] = nd[m]
    BY <1>4
  <2>3. BlockOf(q)' = nd[m].Value /\ BlockOf(q) = node[m].Value
    BY <1>1, <1>3, <1>10, <2>1, <2>2, BlockAt, BlocksFollowNext DEF BlocksFollow
  <2>4. CASE m = size - 1
    BY <1>3, <1>8, <1>9, <2>3, <2>4
  <2>5. CASE m # size - 1
    <3>1. BlockOf(q)' = BlockOf(q)
      BY <1>1, <1>3, <2>3, <2>5
    <3>2. BlockOf(q) # s
      BY <1>2, BlockAt
    <3>. QED  BY <1>9, <3>1, <3>2
  <2>. QED  BY <2>4, <2>5
<1>12. Stored' = Stored \ {k} /\ k \in Stored
  BY <1>2, <1>6, <1>9, <1>11 DEF Stored
<1>13. Map' = [q \in Stored \ {k} |-> Map[q]]
  BY <1>11, <1>12 DEF Map, Stored
<1>14. Store!Delete(k)
  BY <1>12, <1>13 DEF Store!Delete, Store!Restrict, Map
<1>. QED  BY <1>7, <1>14
(* Reset empties the map. *)
LEMMA ResetMap == ASSUME Reset PROVE KeysOnly' /\ Store!Clear
<1>1. Live' = {}
  BY DEF Reset, ClearNodes, Live
<1>2. Present' = {} /\ Stored' = {}
  BY <1>1 DEF Present, Stored
<1>3. Map' = [q \in {} |-> q]
  BY <1>2 DEF Map
<1>. QED  BY <1>2, <1>3 DEF KeysOnly, Store!Clear, Map
-----------------------------------------------------------------------------
(* The empty tree is the empty map. *)
LEMMA InitMap == Init => KeysOnly /\ Store!Init
<1>. SUFFICES ASSUME Init PROVE KeysOnly /\ Store!Init
  OBVIOUS
<1>1. Live = {}
  BY DEF Init, ArrayInit, Live
<1>2. Present = {} /\ Stored = {}
  BY <1>1 DEF Present, Stored
<1>3. Map = [q \in {} |-> q]
  BY <1>2 DEF Map
<1>. QED  BY <1>2, <1>3 DEF KeysOnly, Store!Init, Map

(* Every step of CSharedMemoryTree is one step of the map, or none. *)
LEMMA NextMap == RInv /\ [Next]_vars => KeysOnly' /\ [Store!Next]_Map
<1>. SUFFICES ASSUME RInv, [Next]_vars PROVE KeysOnly' /\ (Store!Next \/ UNCHANGED Map)
  OBVIOUS
<1>. USE DEF RInv
<1>1. ASSUME UNCHANGED <<size, node>> PROVE KeysOnly'
  BY <1>1 DEF KeysOnly, Present, Live
<1>2. ASSUME UNCHANGED vars PROVE KeysOnly' /\ UNCHANGED Map
  BY <1>1, <1>2, StutterMap DEF vars
<1>3. ASSUME NEW k \in Keys, Add(k)
      PROVE  KeysOnly' /\ (Store!Next \/ UNCHANGED Map)
  <2>1. CASE k \in Present /\ Obtain(BlockOf(k), {ZeroData}) /\ UNCHANGED <<size, node>>
    <3>1. BlockOf(k) \in Blocks
      BY <2>1, BlockAt
    <3>. QED  BY <1>1, <2>1, <3>1, ObtainMap, DataAssumption DEF Store!Next
  <2>2. CASE /\ k \notin Present /\ HasRoom
             /\ InsertNode(k, size) /\ Obtain(ShmKey(size), {ZeroData})
    BY <2>2, InsertMap DEF Store!Next
  <2>. QED  BY <1>2, <1>3, <2>1, <2>2 DEF Add
<1>4. ASSUME NEW k \in Keys, Subscript(k)
      PROVE  KeysOnly' /\ (Store!Next \/ UNCHANGED Map)
  BY <1>2, <1>3, <1>4 DEF Subscript
<1>5. ASSUME NEW index \in Slots, GetArray(index)
      PROVE  KeysOnly' /\ (Store!Next \/ UNCHANGED Map)
  <2>1. ShmKey(index) \in Blocks
    BY ShmKeyFacts
  <2>. QED  BY <1>1, <1>5, <2>1, ObtainMap DEF GetArray, Store!Next
<1>6. ASSUME NEW b \in Blocks, NEW d \in Data, WriteBlock(b, d)
      PROVE  KeysOnly' /\ (Store!Next \/ UNCHANGED Map)
  BY <1>1, <1>6, WriteMap DEF WriteBlock, Store!Next
<1>7. ASSUME NEW k \in Keys, Remove(k)
      PROVE  KeysOnly' /\ (Store!Next \/ UNCHANGED Map)
  <2>1. ASSUME k \in Present, Removable(k), size' = size - 1, UNCHANGED blocks,
               NEW i \in SlotsOf(k), data' = Copied(node[i].Value),
               NEW j \in {i} \cup Predecessors(i),
               node' = AfterRemove(Redirected(node[i].Value), size, i, j)
        PROVE  KeysOnly' /\ Store!Delete(k)
    <3>1. j \in Live
      BY <2>1 DEF SlotsOf, Predecessors
    <3>. QED  BY <2>1, <3>1, RemoveMap
  <2>. QED  BY <1>2, <1>7, <2>1 DEF Remove, Store!Next
<1>8. ASSUME Reset PROVE KeysOnly' /\ (Store!Next \/ UNCHANGED Map)
  BY <1>8, ResetMap DEF Store!Next
<1>. QED  BY <1>2, <1>3, <1>4, <1>5, <1>6, <1>7, <1>8 DEF Next

(* CSharedMemoryTree implements the bounded map: whatever sequence of calls *)
(* is made, each touches the key it names only, through every copy of a     *)
(* block and every move of a node.                                          *)
THEOREM ImplementsStore == Spec => ImplementsKeyedStore
<1>1. Init => KeysOnly /\ Store!Init
  BY InitMap
<1>2. RInv /\ [Next]_vars => KeysOnly' /\ [Store!Next]_Map
  BY NextMap
<1>3. Spec => []KeysOnly
  BY Inductive, <1>1, <1>2, PTL DEF Spec, RInv
<1>. QED  BY Inductive, <1>1, <1>2, <1>3, PTL
          DEF Spec, RInv, Map, ImplementsKeyedStore, Store!Spec
=============================================================================
