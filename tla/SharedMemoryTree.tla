-------------------------- MODULE SharedMemoryTree --------------------------
(***************************************************************************)
(* CSharedMemoryTree (RedBlackTree/SharedMemoryTree.cpp): a map from keys   *)
(* to fixed-size blocks of hashed shared memory.  The tree maps a key to a  *)
(* number, MAKE_SHM_KEY_FROM_INDEX turns the number into the block's key,   *)
(* and Remove keeps the numbers dense by copying the last block into the    *)
(* hole.  The tree is module NodeArray; the hashed shared memory library is *)
(* external and known here by how the code uses it: Get finds an allocated  *)
(* block, New allocates one with unknown content or fails, nothing frees.   *)
(***************************************************************************)
EXTENDS NodeArray, Functions

CONSTANTS Data, ZeroData, \* contents of a block; what memset leaves in it
          KeySpace        \* how many numbers the macro keeps apart: 2^16

ASSUME DataAssumption  == ZeroData \in Data
ASSUME SpaceAssumption == KeySpace \in Nat /\ MaxSize <= KeySpace

VARIABLES blocks,         \* the blocks allocated so far
          data            \* their contents

vars == <<size, node, blocks, data>>

(* index << 48 drops all but the low 16 bits of the index. *)
ShmKey(index) == index % KeySpace

Blocks == 0 .. KeySpace - 1

Init == /\ ArrayInit
        /\ blocks = {}
        /\ data = [b \in Blocks |-> ZeroData]

(* Get_hashed_shm, and when it finds no block New_hashed_shm, which may     *)
(* fail; `fresh` is what a new block can hold when the caller gets it.      *)
Obtain(b, fresh) ==
    \/ /\ b \in blocks
       /\ UNCHANGED <<blocks, data>>
    \/ /\ b \notin blocks
       /\ blocks' = blocks \cup {b}
       /\ \E d \in fresh : data' = [data EXCEPT ![b] = d]
    \/ /\ b \notin blocks
       /\ UNCHANGED <<blocks, data>>

(* The data block an operation on a present key ends up with. *)
BlockOf(k) == ShmKey(node[CHOOSE i \in SlotsOf(k) : TRUE].Value)
-----------------------------------------------------------------------------
(* As Add, without looking the key up first. *)
AddMutant(k) == InsertNode(k, size) /\ Obtain(ShmKey(size), {ZeroData})

(* Add(key): the number of a new key is the count before the insertion.     *)
(* The block is cleared only when it has just been allocated.               *)
Add(k) ==
    \/ /\ k \in Present
       /\ Obtain(BlockOf(k), {ZeroData})
       /\ UNCHANGED <<size, node>>
    \/ /\ k \notin Present
       /\ HasRoom
       /\ InsertNode(k, size)
       /\ Obtain(ShmKey(size), {ZeroData})
    \/ /\ k \notin Present
       /\ ~ HasRoom                           \* "Tree Is Full"
       /\ UNCHANGED vars

(* operator[](key): find and Get; a missing key is added.  A present key    *)
(* without a block gets NULL.                                               *)
Subscript(k) ==
    \/ /\ k \in Present
       /\ UNCHANGED vars
    \/ /\ k \notin Present
       /\ Add(k)

(* GetArray(index): random access, allocating but not clearing. *)
GetArray(index) ==
    /\ Obtain(ShmKey(index), Data)
    /\ UNCHANGED <<size, node>>

(* A user writes through the pointer that Add, [] or GetArray has just      *)
(* returned.                                                                *)
WriteBlock(b, d) ==
    /\ b \in blocks
    /\ data' = [data EXCEPT ![b] = d]
    /\ UNCHANGED <<size, node, blocks>>

LastValue == node[size - 1].Value

(* What Remove(key) checks of a present key: its block and the last block   *)
(* exist, and the node in the last slot carries the number count - 1.       *)
Removable(k) == /\ {BlockOf(k), ShmKey(size - 1)} \subseteq blocks
                /\ LastValue = size - 1

(* The nodes once the last one is given the number s of the removed key. *)
RedirectedMutant(s) == node

Redirected(s) == [node EXCEPT ![size - 1].Value = s]

(* The blocks once the last one is copied over block s. *)
CopiedMutant(s) == data

Copied(s) == [data EXCEPT ![ShmKey(s)] = data[ShmKey(size - 1)]]

(* Remove(key): the last block is copied over the key's block, the last     *)
(* node is pointed at the copy, and the tree removes the key.               *)
Remove(k) ==
    \/ /\ k \in Present
       /\ Removable(k)
       /\ \E i \in SlotsOf(k) :
             LET s == node[i].Value
             IN  /\ data' = Copied(s)
                 /\ \E j \in {i} \cup Predecessors(i) :
                       node' = AfterRemove(Redirected(s), size, i, j)
       /\ size' = size - 1
       /\ UNCHANGED blocks
    \/ /\ k \in Present
       /\ ~ Removable(k)
       /\ UNCHANGED vars
    \/ /\ k \notin Present
       /\ UNCHANGED vars

(* Reset(): the memset of ArraySize * SizeNum bytes starts at block 0, or   *)
(* at whatever m_pData held when block 0 does not exist; which of the other *)
(* blocks it reaches depends on how the library laid them out.  With no     *)
(* block at all m_pData is NULL and the memset ends the process, when the   *)
(* nodes have been cleared: the step leaves what such a process leaves.     *)
Reset ==
    /\ ClearNodes
    /\ \E cleared \in SUBSET blocks :
          /\ 0 \in blocks => 0 \in cleared
          /\ data' = [b \in Blocks |-> IF b \in cleared THEN ZeroData
                                                        ELSE data[b]]
    /\ UNCHANGED blocks

Next == \/ \E k \in Keys : Add(k) \/ Subscript(k) \/ Remove(k)
        \/ \E index \in Slots : GetArray(index)
        \/ \E b \in Blocks, d \in Data : WriteBlock(b, d)
        \/ Reset

Spec == Init /\ [][Next]_vars
-----------------------------------------------------------------------------
(* Types of the shared memory segments. *)
TypeOK == /\ size \in 0 .. MaxSize
          /\ node \in [Slots -> Nodes]
          /\ blocks \subseteq Blocks
          /\ data \in [Blocks -> Data]

(* No key is in the tree twice: insert refuses a present key, and the two   *)
(* node copies of a removal leave one node per remaining key.               *)
KeysDistinct == \A i, j \in Live : node[i].Key = node[j].Key => i = j

(* The numbers of the live nodes are a permutation of 0 .. count - 1, so a  *)
(* walk of GetArray(0), ..., GetArray(count - 1) meets the data of every    *)
(* key once, and a new key (numbered with the count) never shares a block.  *)
(* Remove keeps it by redirecting the last node before the tree moves it.   *)
SlotsDense == /\ \A i \in Live : node[i].Value < size
              /\ \A i, j \in Live : node[i].Value = node[j].Value => i = j

(* Two present keys never share a block of shared memory, although the      *)
(* macro keeps only the low bits of the number.                             *)
BlocksDistinct ==
    \A k, q \in Present : BlockOf(k) = BlockOf(q) => k = q

(* Pointers returned for a key stay good until something is removed or      *)
(* reset ("the memory changes at remove", RedBlackTree.cpp:192).            *)
PointersStable ==
    [][size' >= size => \A k \in Present : k \in Present' /\ BlockOf(k)' = BlockOf(k)]_vars

(* The map a user sees: the present keys that have a block. *)
Stored == {k \in Present : BlockOf(k) \in blocks}
Store  == INSTANCE KeyedStore WITH store <- [k \in Stored |-> data[BlockOf(k)]]

(* Through all the moving of nodes and copying of blocks, every operation   *)
(* is one operation of a bounded map: it touches the key it names only.     *)
ImplementsKeyedStore == Store!Spec

(* What Remove checks before it moves anything, and reports as "Last node   *)
(* info not currect" (SharedMemoryTree.cpp:177): the node in the last slot  *)
(* carries the last number.                                                 *)
LastNodeInfoCorrect == size > 0 => LastValue = size - 1
=============================================================================
