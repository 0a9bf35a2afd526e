----------------------------- MODULE RedBlackTree -----------------------------
(***************************************************************************)
(* RedBlackTree (RedBlackTree/RedBlackTree.cpp): a red-black tree whose     *)
(* nodes are the first `size` elements of an array in shared memory.        *)
(*                                                                          *)
(* A tree is a record: the root slot, the number of nodes and the array.    *)
(* A link is a slot or Nil (-1).  The mirrored halves of the code are one   *)
(* operator with a side; Other turns it round.  Operators take a tree and   *)
(* give the tree the C++ function leaves behind; the four actions are the   *)
(* public functions that change it.  The field `index` of a node is its     *)
(* slot, which the code restores whenever it moves a node (line 255).       *)
(*                                                                          *)
(* The loops and the tail recursions of the code run for at most MaxTurns   *)
(* turns.  A search, which changes nothing, comes back to a slot within     *)
(* them or has ended.  Endless stands for a call that does not return.      *)
(***************************************************************************)
EXTENDS Integers, FiniteSets

CONSTANTS MaxSize,      \* m_header->maxSize
          Keys,         \* natural numbers
          InsertValues  \* the values callers store, a subset of the slots

ASSUME TreeAssumption == /\ MaxSize \in Nat \ {0}
                         /\ Keys \subseteq Nat
                         /\ InsertValues \subseteq 0 .. MaxSize - 1

VARIABLE tree

Nil   == -1
Slots == 0 .. MaxSize - 1

Endless  == -3
MaxTurns == MaxSize + 1

Other(side) == IF side = "left" THEN "right" ELSE "left"

(* What memset leaves in a node. *)
ZeroNode == [left |-> 0, right |-> 0, parent |-> 0, index |-> 0,
             Key |-> 0, Value |-> 0, color |-> "BLACK"]

ColorOf(t, i) == IF i = Nil THEN "BLACK" ELSE t.node[i].color

(* Write a link or the colour of the node in slot i. *)
Put(t, i, field, v) == [t EXCEPT !.node[i][field] = v]
PutRoot(t, i) == [t EXCEPT !.root = i]

Paint(t, i, c) == Put(t, i, "color", c)

EmptyTree == [root |-> Nil, size |-> 0, node |-> [i \in Slots |-> ZeroNode]]

(* A new segment.  It is asked for as MaxSize nodes (line 65) while the      *)
(* nodes begin one node in (line 92): the last slot lies behind what was     *)
(* asked for.  Here every slot can be used.                                  *)
Init == tree = EmptyTree
-----------------------------------------------------------------------------
(* find: the slot of key k, Nil, or Broken when the search meets a node     *)
(* that is its own child.  A zeroed node is its own child 0.                *)
Broken == -2

LooksBroken(t, i) == t.node[i].index \in {t.node[i].left, t.node[i].right}

SearchEnds(t, k, i) == \/ i \in {Nil, Broken}
                       \/ ~ LooksBroken(t, i) /\ t.node[i].Key = k

Child(t, k, i) == t.node[i][IF k < t.node[i].Key THEN "left" ELSE "right"]

(* One turn of the search of key q.key in q.tree, which is at slot i. *)
SearchTurn(q, i) == IF SearchEnds(q.tree, q.key, i) THEN i
                    ELSE IF LooksBroken(q.tree, i) THEN Broken
                    ELSE Child(q.tree, q.key, i)

SearchOver(q, i) == SearchEnds(q.tree, q.key, i)

SearchLoop == INSTANCE Loop WITH Step <- SearchTurn, Ends <- SearchOver

Find(t, k) ==
    SearchLoop!Result([tree |-> t, key |-> k], t.root, MaxTurns, Endless)
-----------------------------------------------------------------------------
(* The child of x that a rotation hands to x's old parent. *)
Crossing(t, x, side) == t.node[x][Other(side)]

(* RightRotate(x) when side is "left", LeftRotate(x) when it is "right":    *)
(* x, the child on that side, takes its parent's place.  The code prints    *)
(* integrity errors and goes on; it stops only if x is not on that side     *)
(* but on the other one.                                                    *)
Turned(t, x, side) ==
    LET p == t.node[x].parent
        g == t.node[p].parent
        lifted == IF g = Nil THEN PutRoot(t, x)
                  ELSE Put(t, g, IF t.node[g].right = p THEN "right" ELSE "left", x)
    IN  Put(Put(Put(Put(lifted, x, "parent", g), x, Other(side), p),
                p, "parent", x), p, side, Crossing(t, x, side))

Rotate(t, x, side) ==
    LET p == t.node[x].parent
        c == Crossing(t, x, side)
    IN  IF p = Nil \/ t.node[p][Other(side)] = x THEN t
        ELSE IF c = Nil THEN Turned(t, x, side)
        ELSE Put(Turned(t, x, side), c, "parent", p)

(* Rotate(x): whichever side x is on. *)
RotateUp(t, x) ==
    LET p == t.node[x].parent
    IN  IF p # Nil /\ t.node[p].left = x THEN Rotate(t, x, "left")
        ELSE IF p # Nil /\ t.node[p].right = x THEN Rotate(t, x, "right")
        ELSE t

SideOf(t, x) == IF t.node[t.node[x].parent].left = x THEN "left" ELSE "right"

(* As Restructuring, with one rotation in every case. *)
RestructuringMutant(t, x) ==
    LET p == t.node[x].parent
        g == t.node[p].parent
    IN  Paint(Paint(Rotate(t, p, SideOf(t, p)), p, "BLACK"), g, "RED")

(* Restructuring(x): x and its parent p are red, the uncle is black. *)
Restructuring(t, x) ==
    LET p    == t.node[x].parent
        g    == t.node[p].parent
        side == SideOf(t, x)
        zigzag  == t.node[g][Other(side)] = p
        top     == IF zigzag THEN x ELSE p
        rotated == IF zigzag THEN Rotate(Rotate(t, x, side), x, Other(side))
                             ELSE Rotate(t, p, side)
    IN  IF g = Nil THEN t ELSE Paint(Paint(rotated, top, "BLACK"), g, "RED")

(* A repair that has returned, and what one leaves that has not: a root     *)
(* that is no slot, which TypeOK excludes.                                  *)
Returned == -4
RepairOver(none, s) == s.at = Returned

Hung(t) == [tree |-> PutRoot(t, Endless), at |-> Returned]

(* One call of CheckTree(s.at), up to its call of itself: repair two reds   *)
(* in a row.                                                                *)
CheckTurn(none, s) ==
    LET t == s.tree
        x == s.at
        p == t.node[x].parent
        g == t.node[p].parent
        u == t.node[g][Other(SideOf(t, p))]
        recolored == Paint(Paint(Paint(t, u, "BLACK"), p, "BLACK"), g,
                           IF g = t.root THEN "BLACK" ELSE "RED")
        Return(result) == [tree |-> result, at |-> Returned]
    IN  IF x = Returned THEN s
        ELSE IF p = Nil THEN Return(t)
        ELSE IF t.node[x].color = "BLACK" \/ t.node[p].color = "BLACK" THEN Return(t)
        ELSE IF g = Nil THEN Return(t)                      \* "root == RED !!"
        ELSE IF ColorOf(t, u) = "BLACK" THEN Return(Restructuring(t, x))
        ELSE [tree |-> recolored, at |-> g]

CheckLoop == INSTANCE Loop WITH Step <- CheckTurn, Ends <- RepairOver

CheckTree(t, x) ==
    CheckLoop!Result(Nil, [tree |-> t, at |-> x], MaxTurns, Hung(t)).tree

(* insert(insertNode, parentNode): go down from slot i to a free link. *)
SideFor(t, x, i) == IF t.node[x].Key < t.node[i].Key THEN "left" ELSE "right"

DescentEnds(t, x, i) == \/ t.node[x].Key = t.node[i].Key
                        \/ t.node[i][SideFor(t, x, i)] = Nil

DescentTurn(q, i) == IF DescentEnds(q.tree, q.new, i) THEN i
                     ELSE q.tree.node[i][SideFor(q.tree, q.new, i)]

DescentOver(q, i) == DescentEnds(q.tree, q.new, i)

DescentLoop == INSTANCE Loop WITH Step <- DescentTurn, Ends <- DescentOver

LinkedBelow(t, x, i) ==
    IF i = Endless THEN PutRoot(t, Endless)
    ELSE IF t.node[x].Key = t.node[i].Key THEN t
    ELSE CheckTree(Put(Put(t, i, SideFor(t, x, i), x), x, "parent", i), x)

Attach(t, x, start) ==
    CHOOSE u \in {LinkedBelow(t, x, i) : i \in
                   {DescentLoop!Result([tree |-> t, new |-> x], start, MaxTurns, Endless)}} : TRUE

(* The tree after a new node for a missing key has been written to the      *)
(* first free slot and linked.                                              *)
Inserted(t, k, v) ==
    LET x     == t.size
        fresh == [t EXCEPT !.node[x] =
                    [left |-> Nil, right |-> Nil, parent |-> Nil, index |-> x,
                     Key |-> k, Value |-> v, color |-> "RED"]]
        linked == IF t.root = Nil THEN Paint(PutRoot(fresh, x), x, "BLACK")
                                  ELSE Attach(fresh, x, t.root)
    IN  [linked EXCEPT !.size = @ + 1]
-----------------------------------------------------------------------------
(* One call of RemoveDoubleBlack(s.short, s.at), up to its call of itself:  *)
(* below s.at, the side of s.short is one black short.                      *)
DoubleBlackTurn(none, s) ==
    LET t == s.tree
        d == s.short
        p == s.at
        side == IF t.node[p].left = d THEN "left" ELSE "right"
        far  == Other(side)
        b    == t.node[p][far]                                      \* sbling
        far_nephew  == t.node[b][far]
        near_nephew == t.node[b][side]
        Again(result, d2, p2) == [tree |-> result, short |-> d2, at |-> p2]
        Return(result) == Again(result, d, Returned)
        Case0 == Again(Paint(Paint(RotateUp(t, b), b, "BLACK"), p, "RED"), d, p)
        Case1 == LET reddened == Paint(t, b, "RED")
                 IN  IF t.node[p].color = "RED" THEN Return(Paint(reddened, p, "BLACK"))
                     ELSE IF t.root = p THEN Return(reddened)
                     ELSE Again(reddened, p, t.node[p].parent)
        Case24 == Return(Paint(Paint(Paint(Rotate(t, b, far), b, "RED"), p, "BLACK"),
                               far_nephew, "BLACK"))
        Case35 == LET painted == Paint(Paint(t, near_nephew, t.node[p].color), p, "BLACK")
                  IN  Return(Rotate(Rotate(painted, near_nephew, side), near_nephew, far))
    IN  IF p = Returned THEN s
        ELSE IF d \notin {t.node[p].left, t.node[p].right} THEN Return(t)
        ELSE IF b = Nil THEN Return(t)                        \* "sbling is NULL"
        ELSE IF t.node[b].color = "RED" THEN Case0
        ELSE IF {ColorOf(t, far_nephew), ColorOf(t, near_nephew)} = {"BLACK"} THEN Case1
        ELSE IF ColorOf(t, far_nephew) = "RED" THEN Case24
        ELSE Case35

DoubleBlackLoop == INSTANCE Loop WITH Step <- DoubleBlackTurn, Ends <- RepairOver

RemoveDoubleBlack(t, d, p) ==
    DoubleBlackLoop!Result(Nil, [tree |-> t, short |-> d, at |-> p], 2 * MaxTurns,
                            Hung(t)).tree

(* Take the node in slot x, which has no child on one side, out of the      *)
(* links: its parent adopts `child`.                                        *)
Bypass(t, x, child) ==
    LET p == t.node[x].parent
    IN  Put(t, p, IF t.node[p].left = x THEN "left" ELSE "right", child)

(* As Adopt, without the new parent. *)
AdoptMutant(t, child, p) == Paint(t, child, "BLACK")

Adopt(t, child, p) == Paint(Put(t, child, "parent", p), child, "BLACK")

(* RemoveNode when the node in slot i has no left child.  The parent of a   *)
(* red node adopts its right child without being told to it (line 301).     *)
UnlinkedWithoutLeft(t, i) ==
    LET right    == t.node[i].right
        p        == t.node[i].parent
        bypassed == Bypass(t, i, right)
    IN  IF i = t.root
        THEN IF right = Nil THEN PutRoot(t, Nil)
                            ELSE Adopt(PutRoot(t, right), right, Nil)
        ELSE IF t.node[i].color = "RED" THEN bypassed
        ELSE IF right # Nil THEN Adopt(bypassed, right, p)
        ELSE RemoveDoubleBlack(bypassed, Nil, p)

RightEnds(t, i) == t.node[i].right = Nil

RightTurn(t, i) == IF RightEnds(t, i) THEN i ELSE t.node[i].right

RightLoop == INSTANCE Loop WITH Step <- RightTurn, Ends <- RightEnds

Rightmost(t, i) == RightLoop!Result(t, i, MaxTurns, Endless)

(* memcpy of the NodeValue of slot x over that of slot i. *)
CopyPairMutant(t, i, x) == t

CopyPair(t, i, x) == [t EXCEPT !.node[i].Key   = t.node[x].Key,
                               !.node[i].Value = t.node[x].Value]

(* RemoveNode when it has one: its greatest smaller node x gives its pair   *)
(* to slot i and is unlinked instead.                                       *)
UnlinkedPredecessor(t, i, x) ==
    LET left     == t.node[x].left
        p        == t.node[x].parent
        bypassed == Bypass(CopyPair(t, i, x), x, left)
    IN  IF left # Nil THEN Adopt(bypassed, left, p)
        ELSE IF t.node[x].color = "BLACK" THEN RemoveDoubleBlack(bypassed, Nil, p)
        ELSE bypassed

SizeAfterRemovalMutant(t) == t.size - 2

SizeAfterRemoval(t) == t.size - 1

(* The end of Remove: the last node moves to the unlinked slot x, and its   *)
(* neighbours (or the root) follow it.                                      *)
Compacted(t, x) ==
    LET last == t.size - 1
        m    == t.node[last]
        Follow(link) == IF link = last THEN x ELSE link
        moved == [i \in Slots |->
                    LET n == IF i = x THEN m ELSE t.node[i]
                    IN  IF i = last THEN ZeroNode
                        ELSE [n EXCEPT
                                !.index  = IF i = x THEN x ELSE @,
                                !.left   = IF i = m.parent /\ n.right # last THEN Follow(@) ELSE @,
                                !.right  = IF i = m.parent THEN Follow(@) ELSE @,
                                !.parent = IF i \in {m.left, m.right} THEN x ELSE @]]
    IN  [root |-> IF x # last THEN Follow(t.root) ELSE t.root,
         size |-> SizeAfterRemoval(t),
         node |-> IF x = last THEN [t.node EXCEPT ![last] = ZeroNode] ELSE moved]

(* The slot RemoveNode unlinks in order to remove the node in slot i. *)
Unlinked(t, i) == IF t.node[i].left = Nil THEN i ELSE Rightmost(t, t.node[i].left)

WithoutNode(t, i, x) == IF x = i THEN UnlinkedWithoutLeft(t, i)
                                 ELSE UnlinkedPredecessor(t, i, x)
-----------------------------------------------------------------------------
(* insert(key, value), for a key that the search has not found in t. *)
Append(t, k, v) == \/ /\ t.size < MaxSize
                      /\ tree' = Inserted(t, k, v)
                   \/ /\ t.size = MaxSize
                      /\ tree' = t

Insert(k, v) ==
    \E found \in {Find(tree, k)} :
       \/ /\ found \in Slots
          /\ tree' = [tree EXCEPT !.node[found].Value = v]
       \/ found = Nil /\ Append(tree, k, v)
       \/ found = Broken /\ Append(EmptyTree, k, v)

(* Remove(key) *)
Remove(k) ==
    \E found \in {Find(tree, k)} :
       \/ /\ found \in Slots
          /\ \E x \in {Unlinked(tree, found)} \ {Endless} :
                \E t \in {WithoutNode(tree, found, x)} : tree' = Compacted(t, x)
       \/ /\ found = Nil
          /\ UNCHANGED tree
       \/ /\ found = Broken
          /\ tree' = EmptyTree

(* getLastNode()->value.Value = v *)
SetLastValue(v) ==
    /\ tree.size > 0
    /\ tree' = [tree EXCEPT !.node[tree.size - 1].Value = v]

Reset == tree' = EmptyTree

Insertion == \E k \in Keys, v \in InsertValues : Insert(k, v)

Removal == \E k \in Keys : Remove(k)

Next == \/ Insertion
        \/ Removal
        \/ \E v \in InsertValues : SetLastValue(v)
        \/ Reset

Spec == Init /\ [][Next]_tree

-----------------------------------------------------------------------------
Live == 0 .. tree.size - 1

Nodes == [left : Slots \cup {Nil}, right : Slots \cup {Nil},
          parent : Slots \cup {Nil}, index : Slots, Key : Keys \cup {0},
          Value : 0 .. MaxSize - 1, color : {"BLACK", "RED"}]

(* Types of the shared memory segment. *)
TypeOK == tree \in [root : Slots \cup {Nil}, size : 0 .. MaxSize,
                    node : [Slots -> Nodes]]

(* Every live node can be found: the search of its key ends in its slot,    *)
(* whatever rotations have happened.  The guard against endless loops       *)
(* (line 372), which empties the whole tree, never fires, nor is it missed. *)
FindsEveryKey ==
    /\ \A i \in Live : Find(tree, tree.node[i].Key) = i
    /\ \A k \in Keys \ {tree.node[i].Key : i \in Live} : Find(tree, k) = Nil

(* Links stay within the live nodes and agree in both directions, no node   *)
(* is a child twice, and the index of a node is its slot.  The rotations    *)
(* check parts of it and print "TREE Integrity Error", and Remove prints    *)
(* "Parent node index not currect" (lines 239, 454).                        *)
LinksAgree ==
    /\ tree.root \in Live \cup {Nil}
    /\ tree.root = Nil <=> tree.size = 0
    /\ \A i \in Live :
          /\ {tree.node[i].left, tree.node[i].right, tree.node[i].parent}
                \subseteq Live \cup {Nil}
          /\ \A c \in {tree.node[i].left, tree.node[i].right} \ {Nil} :
                tree.node[c].parent = i
          /\ tree.node[i].left = tree.node[i].right => tree.node[i].left = Nil
          /\ tree.node[i].index = i
          /\ tree.node[i].parent = Nil <=> i = tree.root

(* The dense array that callers see: the pairs without links and colours. *)
Array == INSTANCE NodeArray WITH
            size <- tree.size,
            node <- [i \in Slots |-> [Key   |-> tree.node[i].Key,
                                      Value |-> tree.node[i].Value]]

-----------------------------------------------------------------------------
(* A red node with a right child and no left one: what removal leaves out   *)
(* of account ("nothing more to do", line 301).                             *)
RedHalfNode == \E i \in Live : /\ tree.node[i].color = "RED"
                               /\ tree.node[i].left = Nil
                               /\ tree.node[i].right # Nil

Sound == TypeOK /\ LinksAgree /\ FindsEveryKey

(* Removal (RemoveNode, RemoveDoubleBlack, the move of the last node) keeps *)
(* the links consistent and every key findable, whatever the colours are,   *)
(* as long as no node is a red half node.                                   *)
UpdatesKeepTreeSound == [][tree' # tree /\ Sound /\ ~ RedHalfNode => Sound']_tree

(* Every insertion into a sound tree, and every removal from one, does to   *)
(* the array of pairs what NodeArray says of it, for the key it names,      *)
(* whatever the colours are and whatever the repairs do to the links.       *)
UpdatesImplementArray ==
    [][tree' # tree /\ Sound =>
         /\ \A k \in Keys, v \in InsertValues : Insert(k, v) => Array!InsertNode(k, v)
         /\ \A k \in Keys : Remove(k) => Array!DeleteNode(k)]_tree

(* One turn of the way from a slot up to the root, counting the black nodes *)
(* it passes.                                                               *)
UpEnds(t, s) == s.at = Nil

UpTurn(t, s) ==
    IF UpEnds(t, s) THEN s
    ELSE [at     |-> t.node[s.at].parent,
          blacks |-> s.blacks + IF t.node[s.at].color = "BLACK" THEN 1 ELSE 0]

UpLoop == INSTANCE Loop WITH Step <- UpTurn, Ends <- UpEnds

(* The black nodes from slot i, included, up to the root. *)
BlacksAbove(t, i) ==
    UpLoop!Result(t, [at |-> i, blacks |-> 0], 2 * MaxTurns, [blacks |-> Endless]).blacks

(* The root is black: CheckTree reports a red one as an error (line 619).   *)
RootBlack == tree.root # Nil => tree.node[tree.root].color = "BLACK"

(* No red node has a red parent. *)
NoTwoReds == \A i \in Live \ {tree.root} :
                tree.node[i].color = "RED" => tree.node[tree.node[i].parent].color = "BLACK"

(* All ways from the root to a free link pass the same number of blacks. *)
SameBlackHeight ==
    \A i, j \in {l \in Live : Nil \in {tree.node[l].left, tree.node[l].right}} :
        BlacksAbove(tree, i) = BlacksAbove(tree, j)

(* A red-black tree. *)
RedBlackInvariant == RootBlack /\ NoTwoReds /\ SameBlackHeight

(* An insertion into a red-black tree gives a red-black tree, also when the *)
(* tree has seen removals (CheckTree, Restructuring).                       *)
InsertKeepsRedBlack ==
    [][tree.size < tree'.size /\ RedBlackInvariant => RedBlackInvariant']_tree
=============================================================================
