--------------------------- MODULE XMLTableProofs ---------------------------
(***************************************************************************)
(* The binary search over a table that is being rewritten, for tables of    *)
(* any size.                                                                *)
(***************************************************************************)
EXTENDS XMLTable, TLAPS

TableTypeOK == /\ DOMAIN table \subseteq Slots
               /\ \A s \in DOMAIN table : table[s] \in Rows
               /\ phase \in {"idle", "probing", "found", "missing"}
               /\ dataKey \in Nat
               /\ low \in Nat /\ high \in Int
               /\ (phase = "probing" => low <= high)
               /\ steady \in BOOLEAN

(* The slot of the key stays between the bounds of the search. *)
Enclosed == /\ steady => InOrder(dataKey)
            /\ phase = "probing" /\ steady =>
                   \A s \in Slots : Divides(s, dataKey) => low <= s /\ s <= high
            /\ phase = "missing" => ~ steady

TableInv == TableTypeOK /\ Enclosed

LEMMA TableInitInv == TableInit => TableInv
<1>. SUFFICES ASSUME TableInit  PROVE TableInv
  OBVIOUS
<1>1. DOMAIN table = {}
  BY DEF TableInit
<1>2. TableTypeOK
  <2>1. DOMAIN table \subseteq Slots /\ \A s \in DOMAIN table : table[s] \in Rows
    BY <1>1
  <2>2. phase = "idle" /\ dataKey = 0 /\ low = 0 /\ high = 0 /\ steady \in BOOLEAN
    BY DEF TableInit
  <2>. QED  BY <2>1, <2>2 DEF TableTypeOK
<1>. QED  BY <1>2 DEF TableInit, TableInv, Enclosed

(* A row that is written moves no key that is in order before and after. *)
LEMMA KeyStays ==
    ASSUME TableTypeOK, NEW i \in Slots, NEW row \in Rows, Store(i, row),
           NEW s \in Slots, NEW t \in Slots, Divides(s, dataKey), Divides(t, dataKey)'
    PROVE  s = t
<1>. SUFFICES ASSUME s # t  PROVE FALSE
  OBVIOUS
<1>1. /\ DOMAIN table' = DOMAIN table \cup {i} /\ dataKey' = dataKey
      /\ \A j \in DOMAIN table' : table'[j] = IF j = i THEN row ELSE table[j]
  BY DEF Store
<1>2. s \in DOMAIN table' /\ t \in DOMAIN table'
  BY <1>1 DEF Divides
<1>3. s \in Int /\ t \in Int /\ dataKey \in Nat
  BY DEF Slots, TableTypeOK
<1>4. table'[s].key # dataKey
  BY <1>1, <1>2, <1>3 DEF Divides
<1>5. i = s
  BY <1>1, <1>2, <1>4 DEF Divides
<1>6. t \in DOMAIN table /\ table[t].key = dataKey
  BY <1>1, <1>2, <1>5 DEF Divides
<1>. QED  BY <1>3, <1>6 DEF Divides

LEMMA TableNextInv == TableInv /\ [TableNext]_<<tableVars, searchVars>> => TableInv'
<1>. SUFFICES ASSUME TableInv, [TableNext]_<<tableVars, searchVars>>  PROVE TableInv'
  OBVIOUS
<1>. USE TableAssumption
<1>0. TableTypeOK /\ Enclosed
  BY DEF TableInv
<1>1. ASSUME NEW i \in Slots, NEW row \in Rows, Store(i, row)  PROVE TableInv'
  <2>1. TableTypeOK'
    BY <1>0, <1>1 DEF Store, TableTypeOK
  <2>2. ASSUME phase = "probing", steady', NEW t \in Slots, Divides(t, dataKey)'
        PROVE  low <= t /\ t <= high
    <3>1. PICK s \in Slots : Divides(s, dataKey)
      BY <1>0, <1>1, <2>2 DEF Store, Enclosed, InOrder
    <3>2. s = t
      BY <1>0, <1>1, <2>2, <3>1, KeyStays
    <3>. QED  BY <1>0, <1>1, <2>2, <3>1, <3>2 DEF Store, Enclosed
  <2>. QED  BY <1>0, <1>1, <2>1, <2>2 DEF Store, TableInv, Enclosed
<1>2. ASSUME NEW k \in Nat, GetXMLData(k)  PROVE TableInv'
  <2>1. InOrder(k)' <=> InOrder(k)
    BY <1>2 DEF GetXMLData, InOrder, Divides
  <2>2. \A s \in Slots : 0 <= s /\ s <= MaxSize
    BY DEF Slots
  <2>3. TableTypeOK'
    BY <1>0, <1>2 DEF GetXMLData, TableTypeOK, InOrder
  <2>4. Enclosed'
    BY <1>2, <2>1, <2>2 DEF GetXMLData, Enclosed
  <2>. QED  BY <2>3, <2>4 DEF TableInv
<1>3. CASE Probe
  <2>. DEFINE p == SearchPoint
  <2>1. low \in Nat /\ high \in Nat /\ p \in Nat /\ low <= p /\ p <= high /\ dataKey \in Nat
    <3>1. low \in Nat /\ high \in Nat /\ low <= high /\ dataKey \in Nat
      BY <1>0, <1>3 DEF Probe, TableTypeOK
    <3>. QED  BY <3>1 DEF SearchPoint
  <2>2. /\ table' = table /\ dataKey' = dataKey /\ steady' = steady
        /\ low' = IF FoundKey < dataKey THEN p + 1 ELSE low
        /\ high' = IF FoundKey > dataKey THEN p - 1 ELSE high
        /\ phase' = IF FoundKey = dataKey THEN "found"
                    ELSE IF high' < low' THEN "missing" ELSE "probing"
    BY <1>3 DEF Probe
  <2>3. FoundKey \in Nat
    BY <1>0, <2>1 DEF FoundKey, TableTypeOK
  <2>4. ASSUME steady, NEW s \in Slots, Divides(s, dataKey)
        PROVE  /\ low <= s /\ s <= high
               /\ FoundKey < dataKey => p < s
               /\ FoundKey > dataKey => s < p
    <3>1. s \in Nat /\ low <= s /\ s <= high
      BY <1>0, <1>3, <2>4 DEF Probe, Enclosed, Slots
    <3>2. CASE p \in DOMAIN table
      <4>1. FoundKey = table[p].key
        BY <3>2 DEF FoundKey
      <4>2. table[s].key = dataKey /\ (p < s => table[p].key < dataKey) /\ (p > s => table[p].key > dataKey)
        BY <2>4, <3>2 DEF Divides
      <4>. HIDE DEF p
      <4>. QED  BY <2>1, <2>3, <3>1, <4>1, <4>2
    <3>3. CASE p \notin DOMAIN table
      <4>1. FoundKey = dataKey + 1 /\ p \notin 0 .. s
        BY <2>4, <3>3 DEF FoundKey, Divides
      <4>. HIDE DEF p
      <4>. QED  BY <2>1, <3>1, <4>1
    <3>. QED  BY <3>1, <3>2, <3>3
  <2>5. \A s : Divides(s, dataKey)' <=> Divides(s, dataKey)
    BY <2>2 DEF Divides
  <2>6. ASSUME steady, NEW s \in Slots, Divides(s, dataKey), FoundKey # dataKey
        PROVE  low' <= s /\ s <= high'
    <3>1. s \in Nat
      BY DEF Slots
    <3>. HIDE DEF p
    <3>. QED  BY <2>1, <2>2, <2>3, <2>4, <2>6, <3>1
  <2>7. steady => InOrder(dataKey)'
    BY <1>0, <2>5 DEF Enclosed, InOrder
  <2>8. phase' = "missing" => ~ steady'
    <3>. SUFFICES ASSUME phase' = "missing", steady  PROVE FALSE
      BY <2>2
    <3>1. FoundKey # dataKey /\ high' < low'
      BY <2>2
    <3>2. PICK s \in Slots : Divides(s, dataKey)
      BY <1>0 DEF Enclosed, InOrder
    <3>3. low' <= s /\ s <= high'
      BY <2>6, <3>1, <3>2
    <3>4. low' \in Int /\ high' \in Int /\ s \in Int
      BY <2>1, <2>2 DEF Slots
    <3>. QED  BY <3>1, <3>3, <3>4
  <2>9. TableTypeOK'
    <3>1. low' \in Nat /\ high' \in Int /\ (phase' = "probing" => low' <= high')
      <4>. HIDE DEF p
      <4>. QED  BY <2>1, <2>2
    <3>. QED  BY <1>0, <2>2, <3>1 DEF TableTypeOK
  <2>10. phase' = "probing" => FoundKey # dataKey
    BY <2>2
  <2>. QED  BY <2>2, <2>5, <2>6, <2>7, <2>8, <2>9, <2>10 DEF TableInv, Enclosed
<1>4. CASE UNCHANGED <<tableVars, searchVars>>
  BY <1>0, <1>4 DEF tableVars, searchVars, TableInv, TableTypeOK, Enclosed, InOrder, Divides
<1>. QED  BY <1>1, <1>2, <1>3, <1>4 DEF TableNext

(* A key that stays in order is found while rows are rewritten. *)
THEOREM SearchIsSound == TableSpec => []SteadyFound
<1>1. TableInv => SteadyFound
  BY DEF TableInv, Enclosed, SteadyFound
<1>. QED  BY <1>1, TableInitInv, TableNextInv, PTL DEF TableSpec
=============================================================================
