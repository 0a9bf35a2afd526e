----------------------------- MODULE KeyedStore -----------------------------
(***************************************************************************)
(* What CSharedMemoryTree promises to its users: a bounded map from keys to *)
(* data blocks.  Adding a key leaves the content of its block open (the     *)
(* code clears a block only the first time it is allocated), writing one    *)
(* key's block touches no other key, removing a key touches no other key.   *)
(***************************************************************************)
EXTENDS Integers, FiniteSets, Functions

CONSTANTS MaxSize, Keys, Data

VARIABLE store       \* a function from the present keys to their data

Add(k) == /\ k \notin DOMAIN store
          /\ Cardinality(DOMAIN store) < MaxSize
          /\ \E d \in Data :
                store' = [q \in DOMAIN store \cup {k} |->
                             IF q = k THEN d ELSE store[q]]

Write(k) == /\ k \in DOMAIN store
            /\ \E d \in Data : store' = [store EXCEPT ![k] = d]

Delete(k) == /\ k \in DOMAIN store
             /\ store' = Restrict(store, DOMAIN store \ {k})

Clear == store' = [q \in {} |-> q]

Init == store = [q \in {} |-> q]

Next == \/ \E k \in Keys : Add(k) \/ Write(k) \/ Delete(k)
        \/ Clear

Spec == Init /\ [][Next]_store
=============================================================================
