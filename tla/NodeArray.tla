------------------------------ MODULE NodeArray ------------------------------
(***************************************************************************)
(* What RedBlackTree (RedBlackTree/RedBlackTree.cpp) promises to the code   *)
(* built on it: a dense array of `size` live nodes, each a (Key, Value)     *)
(* pair, addressed by slot.  Links, colours and the search path are absent: *)
(* module RedBlackTree has them and is checked to implement this module.    *)
(*                                                                          *)
(* The slot of a node is visible to callers, which keep RBTreeNode pointers *)
(* and ask for the node of the last slot (getLastNode), so the array says   *)
(* exactly which slots a removal rewrites.                                  *)
(***************************************************************************)
EXTENDS Integers

CONSTANTS MaxSize,   \* m_header->maxSize
          Keys       \* the keys callers use

ASSUME SizeAssumption == MaxSize \in Nat \ {0}
ASSUME KeyAssumption  == Keys \subseteq Nat

VARIABLES size,      \* m_header->size
          node       \* the array at memStart

Slots    == 0 .. MaxSize - 1
Values   == Slots                    \* every caller stores a slot number
ZeroNode == [Key |-> 0, Value |-> 0] \* what memset leaves behind
Nodes    == [Key : Keys \cup {0}, Value : Values]

Live == 0 .. size - 1

Present == {node[i].Key : i \in Live}

(* The slots whose node carries key k: one, by KeysDistinct, or none. *)
SlotsOf(k) == {i \in Live : node[i].Key = k}

(* The slot holding the greatest key below that of slot i: the node that    *)
(* RemoveNode takes out in place of i when i has a left child.              *)
Predecessors(i) ==
    {j \in Live : /\ node[j].Key < node[i].Key
                  /\ \A l \in Live : node[l].Key < node[i].Key
                                        => node[l].Key <= node[j].Key}

(* As AfterRemove, without moving the last node into the freed slot. *)
AfterRemoveMutant(nd, n, i, j) ==
    [nd EXCEPT ![i] = nd[j], ![n - 1] = ZeroNode]

(* The array nd of n nodes after Remove takes out slot i by copying the     *)
(* pair of slot j over it and then moving the last node into slot j.        *)
AfterRemove(nd, n, i, j) ==
    LET merged == [nd EXCEPT ![i] = nd[j]]
    IN  [l \in Slots |-> IF l = n - 1 THEN ZeroNode
                         ELSE IF l = j THEN merged[n - 1] ELSE merged[l]]

HasRoomMutant == size <= MaxSize

HasRoom == size < MaxSize

AfterInsert(nd, n, k, v) == [nd EXCEPT ![n] = [Key |-> k, Value |-> v]]

arrayVars == <<size, node>>
-----------------------------------------------------------------------------
ArrayInit == /\ size = 0
             /\ node = [i \in Slots |-> ZeroNode]

(* insert(key, value): a present key only gets a new Value, a full array    *)
(* refuses, otherwise the pair is appended.                                 *)
InsertNode(k, v) ==
    \/ /\ k \in Present
       /\ \E i \in SlotsOf(k) : node' = [node EXCEPT ![i].Value = v]
       /\ UNCHANGED size
    \/ /\ k \notin Present
       /\ HasRoom
       /\ node' = AfterInsert(node, size, k, v)
       /\ size' = size + 1
    \/ /\ k \notin Present
       /\ ~ HasRoom
       /\ UNCHANGED arrayVars

(* Remove(key): which of the two slots goes depends on the shape of the     *)
(* tree, which callers cannot see.                                          *)
DeleteNode(k) ==
    \/ /\ k \in Present
       /\ \E i \in SlotsOf(k) : \E j \in {i} \cup Predecessors(i) :
             node' = AfterRemove(node, size, i, j)
       /\ size' = size - 1
    \/ /\ k \notin Present
       /\ UNCHANGED arrayVars

(* getLastNode()->value.Value = v, the write SharedMemoryTree makes.        *)
SetLastValue(v) ==
    /\ size > 0
    /\ node' = [node EXCEPT ![size - 1].Value = v]
    /\ UNCHANGED size

ClearNodes == /\ size' = 0
              /\ node' = [i \in Slots |-> ZeroNode]

ArrayNext == \/ \E k \in Keys, v \in Values : InsertNode(k, v)
             \/ \E k \in Keys : DeleteNode(k)
             \/ \E v \in Values : SetLastValue(v)
             \/ ClearNodes

ArraySpec == ArrayInit /\ [][ArrayNext]_arrayVars
=============================================================================
