---------------------------- MODULE MCRedBlackTree ----------------------------
(* Instances of RedBlackTree for TLC.  A behaviour belongs to one phase,    *)
(* which bounds the shapes it visits: insertions alone reach trees in which *)
(* rotations move whole subtrees, any mixture of calls reaches every small  *)
(* tree, and removals from a large tree reach the deep repairs.             *)
EXTENDS RedBlackTree

Seqs == INSTANCE SequencesExt

CONSTANT Phases    \* a subset of {"grow", "mix", "shrink"}

VARIABLE phase

(* The tree once the keys of a sequence are inserted, each with a value of  *)
(* its own.                                                                 *)
TreeOf(keys) == Seqs!FoldLeft(LAMBDA t, k : Inserted(t, k, t.size), EmptyTree, keys)

(* Growing starts near either end of the keys: a rotation moves a subtree   *)
(* only when six of eight nodes lie on one side of the root.  Removals that *)
(* leave the code's assumptions about colours need about ten nodes.         *)
PhaseInit ==
    /\ phase \in Phases
    /\ \/ phase = "grow" /\ tree \in {TreeOf(<<7, 8>>), TreeOf(<<2, 1>>)}
       \/ phase = "mix" /\ tree = EmptyTree
       \/ phase = "shrink" /\ tree = TreeOf(<<4, 2, 1, 5, 3, 6, 10, 7, 9, 8>>)

(* At most `size` nodes, with keys up to `key`. *)
Within(size, key) == /\ tree.size <= size
                     /\ \A i \in Live : tree.node[i].Key <= key

PhaseNext ==
    /\ UNCHANGED phase
    /\ \/ phase = "grow" /\ Insertion /\ Within(8, 8)'
       \/ phase = "mix" /\ Next /\ Within(5, 6)'
       \/ phase = "shrink" /\ Removal
       \/ phase = "shrink" /\ Insertion /\ UNCHANGED tree

PhaseSpec == PhaseInit /\ [][PhaseNext]_<<tree, phase>>
=============================================================================
