------------------------------ MODULE XMLTable ------------------------------
(***************************************************************************)
(* The tables of game data in shared memory: the XML loaders put a row in   *)
(* each slot, in the order of the file, and other processes look a row up   *)
(* by its key with XML::GetXMLData, a binary search over the slots.  Nothing *)
(* keeps them apart: rows are written between two probes of a search.  The  *)
(* hash table of shared memory (hashshm) is external: a slot that was never *)
(* written is answered NOT_FOUND.                                           *)
(***************************************************************************)
EXTENDS Integers

CONSTANTS
    MaxSize,      \* XML_SIZE of a table, and the maxSize of its readers
    Rows          \* what a slot holds: records with a key, a UINT32

ASSUME TableAssumption == MaxSize \in Nat /\ \A r \in Rows : r.key \in Nat

VARIABLES
    table,        \* the slots that were written
    phase,        \* of GetXMLData: "idle", "probing", or its answer
    dataKey,      \* its parameter
    low, high,
    steady        \* history: see InOrder; no search is steady that meets a moment without

tableVars  == <<table>>
searchVars == <<phase, dataKey, low, high, steady>>

Slots == 0 .. MaxSize - 1

(* The key is in slot s, behind smaller keys and before larger ones. *)
Divides(s, k) == /\ s \in DOMAIN table /\ table[s].key = k
                 /\ 0 .. s \subseteq DOMAIN table
                 /\ \A j \in DOMAIN table : /\ j < s => table[j].key < k
                                            /\ j > s => table[j].key > k
InOrder(k) == \E s \in Slots : Divides(s, k)

TableInit == /\ table = [s \in {} |-> 0]
             /\ phase = "idle" /\ dataKey = 0 /\ low = 0 /\ high = 0
             /\ steady = FALSE

(* Get_hashed_shm, New_hashed_shm where the slot is new, and the memcpy.    *)
(* Between the last two a new slot holds zeroes for a moment; its row is    *)
(* out of order then, so that a search which meets it is not a steady one.  *)
Store(i, row) ==
    /\ table' = [s \in DOMAIN table \cup {i} |-> IF s = i THEN row ELSE table[s]]
    /\ UNCHANGED <<phase, dataKey, low, high>>
    /\ steady' = (steady /\ InOrder(dataKey)')

GetXMLData(k) ==
    /\ phase # "probing"
    /\ phase' = "probing" /\ dataKey' = k
    /\ low' = 0 /\ high' = MaxSize
    /\ steady' = InOrder(k)
    /\ UNCHANGED table

(* One turn of the loop; a slot that is not found counts as a larger key. *)
SearchPoint == (low + high) \div 2
FoundKey == IF SearchPoint \in DOMAIN table THEN table[SearchPoint].key ELSE dataKey + 1

ProbeMutant ==
    /\ phase = "probing"
    /\ low'  = IF FoundKey < dataKey THEN SearchPoint + 1 ELSE low
    /\ high' = IF FoundKey > dataKey THEN SearchPoint - 1 ELSE high
    /\ phase' = IF FoundKey = dataKey THEN "found"
                ELSE IF high' <= low' THEN "missing" ELSE "probing"
    /\ UNCHANGED <<table, dataKey, steady>>

Probe ==
    /\ phase = "probing"
    /\ low'  = IF FoundKey < dataKey THEN SearchPoint + 1 ELSE low
    /\ high' = IF FoundKey > dataKey THEN SearchPoint - 1 ELSE high
    /\ phase' = IF FoundKey = dataKey THEN "found"
                ELSE IF high' < low' THEN "missing" ELSE "probing"
    /\ UNCHANGED <<table, dataKey, steady>>

TableNext == \/ \E i \in Slots, row \in Rows : Store(i, row)
             \/ \E k \in Nat : GetXMLData(k)
             \/ Probe

TableSpec == TableInit /\ [][TableNext]_<<tableVars, searchVars>>
-----------------------------------------------------------------------------
(* A key that is in the table, behind smaller and before larger ones, all   *)
(* the time a search for it lasts is found, whatever rows are written       *)
(* meanwhile.                                                               *)
SteadyFound == phase = "missing" => ~ steady
=============================================================================
