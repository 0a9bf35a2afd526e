--------------------- MODULE UniversalVariableSpaceProofs ---------------------
(***************************************************************************)
(* Proofs about UniversalVariableSpace, for any number of infos, size of    *)
(* the space and sizes of variables.                                        *)
(*                                                                          *)
(* Line 73 can put a new variable over an old one (ExactFit).  As long as   *)
(* that does not happen, the list stays sound, the variables apart and      *)
(* their bytes as they were stored.  The argument orders the list by a key  *)
(* of each info: the place of its data and, while SortList moves the new    *)
(* info up, for this one the place between its neighbours.                  *)
(***************************************************************************)
EXTENDS UniversalVariableSpace, FiniteSetTheorems, TLAPS

Info == [pre : Infos \cup {-1}, next : Infos \cup {-1}, index : Nat, size : Nat]

Add == [pc : {"idle", "search", "index", "sort"},
        size : Sizes \cup {0}, value : Values \cup {0}, iter : Infos, start : Nat,
        useable : Int, indexFull : BOOLEAN, dataFull : BOOLEAN]

Typed == /\ info \in [Infos -> Info]
         /\ data \in [Bytes -> Values \cup {0}]
         /\ head \in Int /\ tail \in Int
         /\ current \in -1 .. MaxInfo
         /\ add \in Add
         /\ add.pc # "idle" => add.size \in Sizes /\ add.value \in Values /\ current \in Infos
         /\ stored \in [Live -> Values]

(* The following speak of any infos f, bytes d, values s and ends h and t of *)
(* the list, as MemoryFree is called twice in one round of the search.      *)
LiveIn(f) == {i \in Infos : f[i].size # 0}

Fits(f)  == /\ \A i \in LiveIn(f) : EndOf(f[i]) <= Space
            /\ \A i, j \in LiveIn(f) : i # j => \/ EndOf(f[i]) <= f[j].index
                                                \/ EndOf(f[j]) <= f[i].index
Kept(f, d, s) == \A i \in LiveIn(f) : \A b \in f[i].index .. EndOf(f[i]) - 1 : d[b] = s[i]

(* The list runs through the used infos in the order of their keys.         *)
NextInList(f, t, K) ==
    \A i \in LiveIn(f) \ {t} :
        /\ f[i].next \in LiveIn(f) /\ f[f[i].next].pre = i
        /\ K[i] < K[f[i].next]
        /\ \A j \in LiveIn(f) : K[j] <= K[i] \/ K[f[i].next] <= K[j]
PreInList(f, h) ==
    \A i \in LiveIn(f) \ {h} : f[i].pre \in LiveIn(f) /\ f[f[i].pre].next = i
EndsOfList(f, h, t, K) ==
    LiveIn(f) # {} => /\ h \in LiveIn(f) /\ f[h].pre = -1
                      /\ t \in LiveIn(f) /\ f[t].next = -1
                      /\ \A j \in LiveIn(f) : K[h] <= K[j] /\ K[j] <= K[t]
Distinct(f, K) == \A i, j \in LiveIn(f) : i # j => K[i] # K[j]
InList(f, h, t, K) == /\ NextInList(f, t, K) /\ PreInList(f, h)
                      /\ EndsOfList(f, h, t, K) /\ Distinct(f, K)

(* The key is the place of the data, but for the info that is being sorted. *)
PlaceIn(f) == [i \in Infos |-> f[i].index]
SortKey == [i \in Infos |-> IF i # current THEN 2 * info[i].index
                            ELSE IF info[i].pre = -1 THEN -1
                            ELSE 2 * info[info[i].pre].index + 1]

FreeZero == \A i \in Infos \ Live : info[i] = FreeInfo
Counted  == count = Cardinality(Live)

(* Where the search goes on from: a used info, or info 0 when a search that *)
(* ran out of infos left it to start at a free one.                         *)
AtUsed(i) == i \in Live \/ (i = 0 /\ 0 \notin Live)

CurrentOK == add.pc = "idle" /\ Live # {} => current = MaxInfo \/ AtUsed(current)
SearchOK  == add.pc = "search" =>
                 /\ Live # {} /\ AtUsed(current)
                 /\ AtUsed(add.iter) /\ add.start <= EndOf(info[add.iter])
                 /\ add.useable < add.size
GapOK     == add.pc = "index" =>
                 /\ Live # {}
                 /\ add.start + add.size <= Space
                 /\ \A i \in Live : \/ EndOf(info[i]) <= add.start
                                    \/ add.start + add.size <= info[i].index
ListOK    == add.pc # "sort" => InList(info, head, tail, PlaceIn(info))
SortOK    == add.pc = "sort" =>
                 /\ current \in Live
                 /\ InList(info, head, tail, SortKey)
                 /\ \A i \in Live : SortKey[current] < SortKey[i] => info[current].index < info[i].index

SpaceInv == /\ Typed /\ Counted /\ FreeZero
            /\ Fits(info) /\ Kept(info, data, stored)
            /\ CurrentOK /\ SearchOK /\ GapOK /\ ListOK /\ SortOK

-----------------------------------------------------------------------------
LEMMA ConstantFacts == /\ MaxInfo \in Nat /\ Space \in Nat /\ MaxLive \in Nat
                       /\ \A s \in Sizes : s \in Nat /\ s > 0
                       /\ 0 \in Infos /\ -1 \notin Infos /\ MaxInfo \notin Infos
                       /\ \A i \in Infos : i \in 0 .. MaxInfo - 1 /\ i \in Nat
                       /\ IsFiniteSet(Infos)
<1>1. IsFiniteSet(0 .. MaxInfo - 1)
  BY InfoAssumption, FS_Interval
<1>. QED  BY <1>1, InfoAssumption, SizesAssumption DEF Infos

(* An interval of addresses that ends inside the space lies in the space.   *)
LEMMA InBytes ==
    ASSUME NEW lo \in Nat, NEW hi \in Nat, hi <= Space, NEW b \in lo .. hi - 1
    PROVE  b \in Bytes
BY ConstantFacts DEF Bytes

(* The fields of an info are numbers. *)
LEMMA InfoFacts ==
    ASSUME NEW f \in [Infos -> Info]
    PROVE  \A i \in Infos : /\ f[i] \in Info /\ f[i].index \in Nat /\ f[i].size \in Nat
                            /\ f[i].pre \in Infos \cup {-1} /\ f[i].next \in Infos \cup {-1}
                            /\ EndOf(f[i]) = f[i].index + f[i].size /\ EndOf(f[i]) \in Nat
                            /\ f[i].size # 0 <=> i \in LiveIn(f)
                            /\ i \in LiveIn(f) => f[i].index < EndOf(f[i])
BY DEF Info, EndOf, LiveIn

(* MemoryFree changes where one variable lies, and nothing else.            *)
LEMMA MovedFacts ==
    ASSUME NEW f \in [Infos -> Info], NEW n \in Infos, NEW to \in Nat
    PROVE  LET g == MovedInfo(f, n, to)
           IN  /\ g \in [Infos -> Info]
               /\ \A i \in Infos : /\ g[i].pre = f[i].pre /\ g[i].next = f[i].next
                                   /\ g[i].size = f[i].size
                                   /\ i # n => g[i] = f[i] /\ g[i].index = f[i].index
               /\ g[n].index = to /\ LiveIn(g) = LiveIn(f)
<1>. DEFINE g == MovedInfo(f, n, to)
<1>1. g = [f EXCEPT ![n] = [f[n] EXCEPT !.index = to]]
  BY DEF MovedInfo
<1>2. [f[n] EXCEPT !.index = to] = [pre |-> f[n].pre, next |-> f[n].next, index |-> to, size |-> f[n].size]
  BY DEF Info
<1>3. g[n] = [pre |-> f[n].pre, next |-> f[n].next, index |-> to, size |-> f[n].size]
  BY <1>1, <1>2
<1>4. \A i \in Infos : i # n => g[i] = f[i]
  BY <1>1
<1>5. g[n] \in Info
  BY <1>3 DEF Info
<1>6. g \in [Infos -> Info]
  <2>. HIDE DEF g
  <2>. QED  BY <1>1, <1>2, <1>3, <1>5
<1>7. \A i \in Infos : g[i].pre = f[i].pre /\ g[i].next = f[i].next /\ g[i].size = f[i].size
  <2>. HIDE DEF g
  <2>. QED  BY <1>3, <1>4
<1>8. LiveIn(g) = LiveIn(f)
  <2>. HIDE DEF g
  <2>. QED  BY <1>7 DEF LiveIn
<1>9. g[n].index = to
  BY <1>3
<1>. QED
  <2>. HIDE DEF g
  <2>1. \A i \in Infos : i # n => g[i].index = f[i].index
    BY <1>4
  <2>. QED  BY <1>4, <1>6, <1>7, <1>8, <1>9, <2>1 DEF g

(* Moving data down over bytes that are not in use keeps the variables      *)
(* apart and in their order, and every variable its bytes.                  *)
LEMMA MoveDown ==
    ASSUME NEW f \in [Infos -> Info], NEW d \in [Bytes -> Values \cup {0}],
           NEW s, NEW h, NEW t,
           Fits(f), Kept(f, d, s), InList(f, h, t, PlaceIn(f)),
           NEW n \in LiveIn(f), NEW to \in Nat, to <= f[n].index,
           \A j \in LiveIn(f) : j # n => EndOf(f[j]) <= to \/ EndOf(f[n]) <= f[j].index
    PROVE  LET g == MovedInfo(f, n, to)
               e == MovedBytes(f, d, n, to)
           IN  /\ e \in [Bytes -> Values \cup {0}]
               /\ Fits(g) /\ Kept(g, e, s) /\ InList(g, h, t, PlaceIn(g))
<1>. DEFINE g == MovedInfo(f, n, to)
            e == MovedBytes(f, d, n, to)
            L == LiveIn(f)
<1>0. n \in L /\ n \in Infos /\ L \subseteq Infos /\ to \in Nat /\ to <= f[n].index
  BY DEF LiveIn
<1>1. /\ g \in [Infos -> Info]
      /\ \A i \in Infos : /\ g[i].pre = f[i].pre /\ g[i].next = f[i].next
                          /\ g[i].size = f[i].size
                          /\ i # n => g[i] = f[i] /\ g[i].index = f[i].index
      /\ g[n].index = to /\ LiveIn(g) = L
  BY <1>0, MovedFacts
<1>. HIDE DEF g, L
<1>2. \A i \in Infos : /\ f[i].index \in Nat /\ f[i].size \in Nat /\ EndOf(f[i]) = f[i].index + f[i].size
                       /\ g[i].index \in Nat /\ g[i].size \in Nat /\ EndOf(g[i]) = g[i].index + g[i].size
                       /\ i \in L => f[i].index < EndOf(f[i]) /\ f[i].size > 0
  <2>1. \A i \in Infos : /\ f[i].index \in Nat /\ f[i].size \in Nat /\ EndOf(f[i]) = f[i].index + f[i].size
                         /\ (f[i].size # 0 <=> i \in L)
                         /\ i \in L => f[i].index < EndOf(f[i])
    BY InfoFacts DEF L
  <2>2. \A i \in Infos : g[i].index \in Nat /\ g[i].size \in Nat /\ EndOf(g[i]) = g[i].index + g[i].size
    BY <1>1, InfoFacts
  <2>. QED  BY <2>1, <2>2
<1>3. /\ EndOf(g[n]) <= EndOf(f[n])
      /\ \A j \in L : j # n => EndOf(g[j]) = EndOf(f[j])
  BY <1>0, <1>1, <1>2
<1>4. \A i, j \in L : i # j => EndOf(f[i]) <= f[j].index \/ EndOf(f[j]) <= f[i].index
  BY DEF Fits, L
<1>5. \A i \in L : EndOf(f[i]) <= Space
  BY DEF Fits, L
<1>6. Fits(g)
  <2>1. \A i \in L : EndOf(g[i]) <= Space
    BY <1>0, <1>1, <1>2, <1>3, <1>5, ConstantFacts
  <2>2. \A i, j \in L : i # j => EndOf(g[i]) <= g[j].index \/ EndOf(g[j]) <= g[i].index
    <3>1. \A j \in L : j # n => EndOf(g[j]) <= g[n].index \/ EndOf(g[n]) <= g[j].index
      BY <1>0, <1>1, <1>2, <1>3 DEF L
    <3>. QED  BY <1>0, <1>1, <1>2, <1>3, <1>4, <3>1
  <2>. QED  BY <1>1, <2>1, <2>2 DEF Fits
<1>7. \A b \in Bytes : e[b] = IF b \in to .. to + f[n].size - 1 THEN d[b + f[n].index - to] ELSE d[b]
  BY DEF MovedBytes
<1>8. e \in [Bytes -> Values \cup {0}]
  <2>1. \A b \in Bytes : b \in to .. to + f[n].size - 1 => b + f[n].index - to \in Bytes
    <3>1. /\ f[n].index \in Nat /\ f[n].size \in Nat /\ to \in Nat /\ to <= f[n].index
          /\ f[n].index + f[n].size <= Space /\ Space \in Nat
      BY <1>0, <1>2, <1>5, ConstantFacts
    <3>2. SUFFICES ASSUME NEW b \in Bytes, b \in to .. to + f[n].size - 1
                   PROVE  b + f[n].index - to \in Bytes
      OBVIOUS
    <3>3. b + f[n].index - to \in f[n].index .. (f[n].index + f[n].size) - 1
      BY <3>1, <3>2
    <3>4. /\ f[n].index + f[n].size \in Nat
          /\ b + f[n].index - to \in f[n].index .. (f[n].index + f[n].size) - 1
      BY <3>1, <3>3
    <3>. QED  BY <3>1, <3>4, InBytes, Zenon
  <2>2. e = [b \in Bytes |-> IF b \in to .. to + f[n].size - 1 THEN d[b + f[n].index - to] ELSE d[b]]
    BY DEF MovedBytes
  <2>. HIDE DEF e
  <2>. QED  BY <2>1, <2>2
<1>9. Kept(g, e, s)
  <2>. SUFFICES ASSUME NEW i \in L, NEW b \in g[i].index .. EndOf(g[i]) - 1
                PROVE  e[b] = s[i]
    BY <1>1 DEF Kept
  <2>1. i \in Infos /\ b \in Bytes
    <3>1. i \in Infos /\ g[i].index \in Nat /\ EndOf(g[i]) \in Nat /\ EndOf(g[i]) <= Space
      BY <1>0, <1>1, <1>2, <1>6 DEF Fits
    <3>. QED  BY <3>1, InBytes
  <2>2. \A k \in f[i].index .. EndOf(f[i]) - 1 : d[k] = s[i]
    BY DEF Kept, L
  <2>3. CASE i = n
    <3>1. b \in to .. to + f[n].size - 1 /\ b + f[n].index - to \in f[n].index .. EndOf(f[n]) - 1
      BY <1>0, <1>1, <1>2, <2>3
    <3>. QED  BY <1>7, <2>1, <2>2, <2>3, <3>1
  <2>4. CASE i # n
    <3>1. b \in f[i].index .. EndOf(f[i]) - 1
      BY <1>1, <1>3, <2>1, <2>4
    <3>2. EndOf(f[i]) <= to \/ EndOf(f[n]) <= f[i].index
      BY <2>4 DEF L
    <3>3. b \notin to .. to + f[n].size - 1
      BY <1>0, <1>2, <2>1, <3>1, <3>2
    <3>. QED  BY <1>7, <2>1, <2>2, <3>1, <3>3
  <2>. QED  BY <2>3, <2>4
<1>10. \A i, j \in L : /\ (f[i].index < f[j].index <=> g[i].index < g[j].index)
                       /\ (f[i].index <= f[j].index <=> g[i].index <= g[j].index)
                       /\ f[i].index # f[j].index => g[i].index # g[j].index
  <2>1. \A j \in L : j # n => /\ (f[n].index < f[j].index <=> to < f[j].index)
                              /\ (f[j].index < f[n].index <=> f[j].index < to)
                              /\ f[j].index # to
    <3>. SUFFICES ASSUME NEW j \in L, j # n
                  PROVE  /\ (f[n].index < f[j].index <=> to < f[j].index)
                         /\ (f[j].index < f[n].index <=> f[j].index < to)
                         /\ f[j].index # to
      OBVIOUS
    <3>1. EndOf(f[j]) <= to \/ EndOf(f[n]) <= f[j].index
      BY DEF L
    <3>. QED  BY <1>0, <1>2, <3>1
  <2>. QED  BY <1>0, <1>1, <1>2, <2>1
<1>11. InList(g, h, t, PlaceIn(g))
  <2>. DEFINE F == PlaceIn(f)
              G == PlaceIn(g)
  <2>0. \A i \in L : F[i] = f[i].index /\ G[i] = g[i].index /\ g[i].next = f[i].next /\ g[i].pre = f[i].pre
    BY <1>0, <1>1 DEF PlaceIn
  <2>1. \A i, j \in L : /\ (F[i] < F[j] <=> G[i] < G[j]) /\ (F[i] <= F[j] <=> G[i] <= G[j])
                        /\ F[i] # F[j] => G[i] # G[j]
    BY <1>10, <2>0
  <2>. HIDE DEF F, G
  <2>2. NextInList(g, t, G)
    <3>. SUFFICES ASSUME NEW i \in L, i # t
                  PROVE  /\ g[i].next \in L /\ g[g[i].next].pre = i
                         /\ G[i] < G[g[i].next]
                         /\ \A j \in L : G[j] <= G[i] \/ G[g[i].next] <= G[j]
      BY <1>1 DEF NextInList
    <3>1. /\ f[i].next \in L /\ f[f[i].next].pre = i
          /\ F[i] < F[f[i].next]
          /\ \A j \in L : F[j] <= F[i] \/ F[f[i].next] <= F[j]
      BY DEF InList, NextInList, L, F
    <3>. QED  BY <2>0, <2>1, <3>1
  <2>3. PreInList(g, h)
    BY <1>1, <2>0 DEF InList, PreInList, L
  <2>4. EndsOfList(g, h, t, G)
    <3>1. EndsOfList(f, h, t, F)
      BY DEF InList, F
    <3>. QED  BY <1>1, <2>0, <2>1, <3>1 DEF EndsOfList, L
  <2>5. Distinct(g, G)
    <3>1. Distinct(f, F)
      BY DEF InList, F
    <3>. QED  BY <1>1, <2>1, <3>1 DEF Distinct, L
  <2>. QED  BY <2>2, <2>3, <2>4, <2>5 DEF InList, G
<1>. QED  BY <1>6, <1>8, <1>9, <1>11 DEF g
-----------------------------------------------------------------------------
LEMMA LiveFacts ==
    ASSUME Typed, Counted
    PROVE  /\ Live = LiveIn(info) /\ Live \subseteq Infos /\ IsFiniteSet(Live)
           /\ count \in Nat /\ (count = 0 <=> Live = {})
<1>1. Live = LiveIn(info) /\ Live \subseteq Infos
  BY DEF Live, LiveIn
<1>2. IsFiniteSet(Live)
  BY <1>1, ConstantFacts, FS_Subset
<1>. QED  BY <1>1, <1>2, FS_CardinalityType, FS_EmptySet DEF Counted

(* In the search and the choice of an info the list, the places and the     *)
(* bytes stay as they are, but for the calls of MemoryFree.                 *)
Undisturbed == Counted /\ FreeZero /\ Fits(info) /\ Kept(info, data, stored) /\ ListOK /\ SortOK

LEMMA StaysUndisturbed ==
    ASSUME SpaceInv, add.pc # "sort", add'.pc # "sort",
           UNCHANGED <<info, data, head, tail, count, stored>>
    PROVE  Undisturbed'
<1>1. InList(info, head, tail, PlaceIn(info))
  BY DEF SpaceInv, ListOK
<1>2. InList(info, head, tail, PlaceIn(info))'
  BY <1>1
<1>3. Counted' /\ FreeZero' /\ Live' = Live
  BY DEF SpaceInv, Counted, FreeZero, Live
<1>4. Fits(info)' /\ Kept(info, data, stored)'
  BY DEF SpaceInv
<1>. QED  BY <1>2, <1>3, <1>4 DEF Undisturbed, ListOK, SortOK

LEMMA InitSpace == Init => SpaceInv
<1>. SUFFICES ASSUME Init  PROVE SpaceInv
  OBVIOUS
<1>1. info = [i \in Infos |-> FreeInfo] /\ FreeInfo \in Info
  BY ConstantFacts DEF Init, FreeInfo, Info
<1>2. Live = {} /\ LiveIn(info) = {}
  BY <1>1 DEF Live, LiveIn, FreeInfo
<1>3. Typed
  <2>1. info \in [Infos -> Info] /\ data \in [Bytes -> Values \cup {0}]
    BY <1>1 DEF Init
  <2>2. current \in -1 .. MaxInfo /\ head \in Int /\ tail \in Int
    BY ConstantFacts DEF Init
  <2>3. add \in Add /\ add.pc = "idle"
    BY ConstantFacts DEF Init, Idle, Add
  <2>4. stored \in [Live -> Values]
    BY <1>2 DEF Init
  <2>. QED  BY <2>1, <2>2, <2>3, <2>4 DEF Typed
<1>4. Counted
  BY <1>2, FS_EmptySet DEF Counted, Init
<1>5. FreeZero
  BY <1>1 DEF FreeZero
<1>6. Fits(info) /\ Kept(info, data, stored)
  BY <1>2 DEF Fits, Kept
<1>7. InList(info, head, tail, PlaceIn(info))
  BY <1>2 DEF InList, NextInList, PreInList, EndsOfList, Distinct
<1>8. add.pc = "idle"
  BY DEF Init, Idle
<1>. QED  BY <1>2, <1>3, <1>4, <1>5, <1>6, <1>7, <1>8
       DEF SpaceInv, CurrentOK, SearchOK, GapOK, ListOK, SortOK

(* The first variable of an empty space lies at its start, alone.           *)
LEMMA FirstSpace ==
    ASSUME SpaceInv, NEW size \in Sizes, NEW value \in Values, AddFirst(size, value)
    PROVE  SpaceInv'
<1>. DEFINE first == [pre |-> -1, next |-> -1, index |-> 0, size |-> size]
<1>1. /\ info \in [Infos -> Info] /\ data \in [Bytes -> Values \cup {0}]
      /\ add \in Add /\ add.pc = "idle" /\ add' = add
      /\ Live = {} /\ size \in Nat /\ size > 0 /\ size <= Space /\ 0 \in Infos
  BY LiveFacts, ConstantFacts DEF SpaceInv, Typed, AddFirst
<1>2. /\ info' = [info EXCEPT ![0] = first] /\ first \in Info
      /\ info'[0] = first /\ \A i \in Infos : i # 0 => info'[i] = info[i]
  BY <1>1 DEF AddFirst, Info
<1>3. Live' = {0} /\ LiveIn(info') = {0}
  <2>1. \A i \in Infos : info[i].size = 0
    BY <1>1 DEF Live
  <2>2. \A i \in Infos : info'[i].size # 0 <=> i = 0
    BY <1>1, <1>2, <2>1
  <2>. QED  BY <1>1, <2>2 DEF Live, LiveIn
<1>4. EndOf(info'[0]) = size /\ info'[0].index = 0 /\ info'[0].pre = -1 /\ info'[0].next = -1
  BY <1>1, <1>2 DEF EndOf
<1>5. /\ head' = 0 /\ tail' = 0 /\ current' = 0 /\ count' = 1
      /\ stored' = [i \in {0} |-> value] /\ data' = Written(0, size, value)
  BY DEF AddFirst
<1>6. Typed'
  <2>1. info' \in [Infos -> Info]
    BY <1>1, <1>2
  <2>2. data' \in [Bytes -> Values \cup {0}]
    BY <1>1, <1>5 DEF Written
  <2>3. stored' \in [Live' -> Values]
    BY <1>3, <1>5
  <2>4. current' \in -1 .. MaxInfo
    BY <1>1, <1>5, ConstantFacts
  <2>. QED  BY <1>1, <1>5, <2>1, <2>2, <2>3, <2>4 DEF Typed
<1>7. Counted'
  <2>1. Cardinality({0}) = 1
    BY FS_Singleton
  <2>. QED  BY <1>3, <1>5, <2>1 DEF Counted
<1>8. FreeZero'
  BY <1>1, <1>2, <1>3 DEF SpaceInv, FreeZero
<1>9. Fits(info)'
  BY <1>1, <1>3, <1>4, ConstantFacts DEF Fits
<1>10. Kept(info, data, stored)'
  <2>1. \A b \in 0 .. size - 1 : b \in Bytes
    BY <1>1, ConstantFacts DEF Bytes
  <2>2. \A b \in 0 .. size - 1 : data'[b] = value
    BY <1>1, <1>5, <2>1 DEF Written
  <2>. QED  BY <1>3, <1>4, <1>5, <2>2 DEF Kept
<1>11. InList(info, head, tail, PlaceIn(info))'
  <2>1. PlaceIn(info)'[0] = 0
    BY <1>1, <1>4 DEF PlaceIn
  <2>2. EndsOfList(info, head, tail, PlaceIn(info))'
    BY <1>3, <1>4, <1>5, <2>1 DEF EndsOfList
  <2>3. NextInList(info, tail, PlaceIn(info))' /\ PreInList(info, head)' /\ Distinct(info, PlaceIn(info))'
    BY <1>3, <1>5 DEF NextInList, PreInList, Distinct
  <2>. QED  BY <2>2, <2>3 DEF InList
<1>. QED  BY <1>1, <1>3, <1>5, <1>6, <1>7, <1>8, <1>9, <1>10, <1>11
       DEF SpaceInv, CurrentOK, SearchOK, GapOK, ListOK, SortOK, AtUsed

(* A search starts at the current info, or at info 0 when a search before   *)
(* it has run out of infos.                                                 *)
LEMMA AddSpace ==
    ASSUME SpaceInv, NEW size \in Sizes, NEW value \in Values, AddData(size, value)
    PROVE  SpaceInv'
<1>. DEFINE full == current = MaxInfo
            i    == IF full THEN 0 ELSE current
<1>1. /\ add.pc = "idle" /\ Live # {} /\ current' = i /\ i \in Infos /\ AtUsed(i)
      /\ size \in Nat /\ size > 0 /\ info \in [Infos -> Info]
  <2>1. /\ add.pc = "idle" /\ count >= 1 /\ current # -1 /\ current' = i
        /\ current \in -1 .. MaxInfo
    BY ConstantFacts, LiveFacts DEF AddData, SpaceInv, Typed
  <2>2. Live # {}
    BY <2>1, LiveFacts DEF SpaceInv
  <2>3. i \in Infos
    BY <2>1, ConstantFacts DEF Infos
  <2>4. AtUsed(i)
    BY <2>1, <2>2 DEF SpaceInv, CurrentOK, AtUsed
  <2>. QED  BY <2>1, <2>2, <2>3, <2>4, ConstantFacts DEF SpaceInv, Typed
<1>2. /\ add' = [pc |-> "search", size |-> size, value |-> value, iter |-> i,
                 start |-> EndOf(info[i]), useable |-> 0,
                 indexFull |-> full, dataFull |-> full]
      /\ UNCHANGED <<info, data, head, tail, count, stored>>
  BY DEF AddData
<1>. HIDE DEF i, full
<1>3. EndOf(info[i]) \in Nat
  BY <1>1, InfoFacts
<1>4. Live' = Live
  BY <1>2 DEF Live
<1>5. Typed'
  <2>1. add' \in Add
    <3>1. full \in BOOLEAN
      BY DEF full
    <3>. QED  BY <1>1, <1>2, <1>3, <3>1 DEF Add
  <2>2. current' \in -1 .. MaxInfo /\ current' \in Infos
    BY <1>1, ConstantFacts
  <2>. QED  BY <1>2, <1>4, <2>1, <2>2 DEF SpaceInv, Typed
<1>6. SearchOK'
  BY <1>1, <1>2, <1>3, <1>4 DEF SearchOK, AtUsed
<1>7. Undisturbed'
  BY <1>1, <1>2, StaysUndisturbed
<1>. QED  BY <1>2, <1>5, <1>6, <1>7 DEF SpaceInv, Undisturbed, CurrentOK, GapOK
-----------------------------------------------------------------------------
(* What is known when a round of the search begins.                         *)
LEMMA SearchFacts ==
    ASSUME SpaceInv, Searching
    PROVE  /\ info \in [Infos -> Info] /\ data \in [Bytes -> Values \cup {0}]
           /\ add.pc = "search" /\ add \in Add /\ add.size \in Nat /\ add.size > 0
           /\ add.size \in Sizes /\ add.value \in Values /\ current \in Infos
           /\ add.iter \in Infos /\ add.start \in Nat /\ add.start <= EndOf(info[add.iter])
           /\ Live = LiveIn(info) /\ Live # {} /\ AtUsed(current) /\ AtUsed(add.iter)
           /\ add.iter \notin Live => info[add.iter] = FreeInfo /\ add.start = 0
           /\ Fits(info) /\ Kept(info, data, stored)
           /\ InList(info, head, tail, PlaceIn(info))
<1>1. add.pc = "search"
  BY DEF Searching
<1>2. /\ info \in [Infos -> Info] /\ data \in [Bytes -> Values \cup {0}]
      /\ add \in Add /\ add.size \in Sizes /\ add.value \in Values /\ current \in Infos
  BY <1>1 DEF SpaceInv, Typed
<1>3. add.iter \in Infos /\ add.start \in Nat
  BY <1>2 DEF Add
<1>4. /\ Live # {} /\ AtUsed(current) /\ AtUsed(add.iter) /\ add.start <= EndOf(info[add.iter])
  BY <1>1 DEF SpaceInv, SearchOK
<1>5. add.iter \notin Live => info[add.iter] = FreeInfo /\ add.start = 0
  <2>1. add.iter \notin Live => info[add.iter] = FreeInfo
    BY <1>3 DEF SpaceInv, FreeZero
  <2>2. EndOf(FreeInfo) = 0
    BY DEF FreeInfo, EndOf
  <2>. QED  BY <1>3, <1>4, <2>1, <2>2
<1>6. InList(info, head, tail, PlaceIn(info))
  BY <1>1 DEF SpaceInv, ListOK
<1>7. Live = LiveIn(info)
  BY LiveFacts DEF SpaceInv
<1>. QED  BY <1>1, <1>2, <1>3, <1>4, <1>5, <1>6, <1>7, ConstantFacts DEF SpaceInv

(* At the end of the list there is room behind the last variable; at the    *)
(* end of the space that is so unless the new variable fits it exactly.     *)
LEMMA FoundSpace == ASSUME SpaceInv, FoundAtEnd, ~ ExactFit  PROVE SpaceInv'
<1>. DEFINE i == add.iter
<1>1. Searching /\ AtEnd /\ Space - LastStart >= add.size
      /\ add' = [add EXCEPT !.pc = "index", !.start = LastStart]
      /\ UNCHANGED <<info, data, head, tail, current, count, stored>>
  BY DEF FoundAtEnd
<1>2. i \in Infos /\ EndOf(info[i]) \in Nat /\ info \in [Infos -> Info]
  BY <1>1, SearchFacts, InfoFacts
<1>3. LastStart = EndOf(info[i]) /\ LastStart \in Nat /\ add.start <= LastStart
  <2>1. CASE info[i].size # 0
    BY <1>1, <1>2, <2>1, SearchFacts DEF LastStart
  <2>2. CASE info[i].size = 0
    <3>1. i \notin Live
      BY <2>2 DEF Live
    <3>2. EndOf(FreeInfo) = 0
      BY DEF FreeInfo, EndOf
    <3>. QED  BY <1>1, <1>2, <2>2, <3>1, <3>2, SearchFacts DEF LastStart
  <2>. QED  BY <2>1, <2>2
<1>4. info[i].next = -1
  <2>. SUFFICES ASSUME info[i].next # -1  PROVE FALSE
    OBVIOUS
  <2>1. add.start + add.size >= Space
    BY <1>1 DEF AtEnd
  <2>2. add.start + add.size = Space /\ LastStart = add.start
    BY <1>1, <1>3, <2>1, SearchFacts, ConstantFacts
  <2>. QED  BY <1>1, <2>2, SearchFacts DEF ExactFit
<1>5. i \in Live /\ i = tail
  <2>1. i \in Live
    BY <1>1, <1>4, SearchFacts DEF FreeInfo
  <2>2. i # tail => info[i].next \in LiveIn(info)
    BY <1>1, <2>1, SearchFacts DEF InList, NextInList
  <2>3. LiveIn(info) \subseteq Infos
    BY DEF LiveIn
  <2>. QED  BY <1>4, <2>1, <2>2, <2>3, ConstantFacts
<1>6. \A j \in Live : EndOf(info[j]) <= LastStart
  <2>. SUFFICES ASSUME NEW j \in Live, j # i  PROVE EndOf(info[j]) <= LastStart
    BY <1>2, <1>3
  <2>1. PlaceIn(info)[j] <= PlaceIn(info)[i]
    BY <1>1, <1>5, SearchFacts DEF InList, EndsOfList
  <2>2. /\ j \in Infos /\ info[j].index \in Nat /\ info[i].index \in Nat
        /\ info[i].index < EndOf(info[i]) /\ EndOf(info[j]) \in Nat
    BY <1>2, <1>5, InfoFacts, LiveFacts DEF SpaceInv
  <2>3. info[j].index <= info[i].index
    BY <1>2, <2>1, <2>2 DEF PlaceIn
  <2>4. EndOf(info[j]) <= info[i].index \/ EndOf(info[i]) <= info[j].index
    BY <1>1, <1>5, SearchFacts DEF Fits
  <2>. QED  BY <1>2, <1>3, <2>2, <2>3, <2>4
<1>7. /\ add'.pc = "index" /\ add'.start = LastStart /\ add'.size = add.size
      /\ add'.value = add.value /\ add' \in Add
  <2>. HIDE DEF i
  <2>. QED  BY <1>1, <1>3, SearchFacts DEF Add
<1>8. Live' = Live
  BY <1>1 DEF Live
<1>9. Typed'
  BY <1>1, <1>7, <1>8, SearchFacts DEF SpaceInv, Typed
<1>10. GapOK'
  <2>1. LastStart + add.size <= Space
    BY <1>1, <1>3, SearchFacts, ConstantFacts
  <2>. QED  BY <1>1, <1>6, <1>7, <1>8, <2>1, SearchFacts DEF GapOK
<1>11. Undisturbed'
  BY <1>1, <1>7, SearchFacts, StaysUndisturbed
<1>. QED  BY <1>7, <1>9, <1>10, <1>11 DEF SpaceInv, Undisturbed, CurrentOK, SearchOK

(* The search starts again at the first variable, or is given up.           *)
LEMMA AgainSpace == ASSUME SpaceInv, SearchAgain \/ SpaceFull  PROVE SpaceInv'
<1>1. Searching /\ UNCHANGED <<info, data, head, tail, current, count, stored>>
  BY DEF SearchAgain, SpaceFull
<1>2. Live' = Live
  BY <1>1 DEF Live
<1>3. CASE SearchAgain
  <2>1. add' = [add EXCEPT !.dataFull = TRUE, !.iter = head, !.start = 0, !.useable = 0]
    BY <1>3 DEF SearchAgain
  <2>2. head \in Live /\ head \in Infos
    BY <1>1, SearchFacts, LiveFacts DEF InList, EndsOfList, SpaceInv
  <2>3. /\ add'.pc = "search" /\ add'.start = 0 /\ add'.size = add.size /\ add'.useable = 0
        /\ add'.value = add.value /\ add'.iter = head /\ add' \in Add
    <3>1. add \in Add /\ add.pc = "search"
      BY <1>1, SearchFacts
    <3>2. 0 \in Nat /\ 0 \in Int /\ TRUE \in BOOLEAN
      OBVIOUS
    <3>. QED  BY <2>1, <2>2, <3>1, <3>2 DEF Add
  <2>4. Typed'
    BY <1>1, <1>2, <2>3, SearchFacts DEF SpaceInv, Typed
  <2>5. SearchOK'
    <3>1. EndOf(info[head]) \in Nat
      BY <1>1, <2>2, SearchFacts, InfoFacts
    <3>. QED  BY <1>1, <1>2, <2>2, <2>3, <3>1, SearchFacts DEF SearchOK, AtUsed
  <2>6. Undisturbed'
    BY <1>1, <2>3, SearchFacts, StaysUndisturbed
  <2>. QED  BY <2>3, <2>4, <2>5, <2>6 DEF SpaceInv, Undisturbed, CurrentOK, GapOK
<1>4. CASE SpaceFull
  <2>1. add' = Idle /\ add'.pc = "idle" /\ Idle \in Add
    BY <1>4, ConstantFacts DEF SpaceFull, Idle, Add
  <2>2. Typed'
    BY <1>1, <1>2, <2>1 DEF SpaceInv, Typed
  <2>3. Undisturbed'
    BY <1>1, <2>1, SearchFacts, StaysUndisturbed
  <2>4. CurrentOK'
    BY <1>1, <1>2, SearchFacts DEF CurrentOK, AtUsed
  <2>. QED  BY <2>1, <2>2, <2>3, <2>4 DEF SpaceInv, Undisturbed, SearchOK, GapOK
<1>. QED  BY <1>3, <1>4
-----------------------------------------------------------------------------
(* The next variable of the list lies behind, and nothing lies between.     *)
LEMMA BehindFacts ==
    ASSUME NEW f \in [Infos -> Info], NEW h, NEW t,
           Fits(f), InList(f, h, t, PlaceIn(f)),
           NEW i \in LiveIn(f), f[i].next # -1
    PROVE  LET n == f[i].next
           IN  /\ n \in LiveIn(f) /\ n # i /\ EndOf(f[i]) <= f[n].index
               /\ \A j \in LiveIn(f) : \/ j = n \/ EndOf(f[j]) <= EndOf(f[i])
                                       \/ EndOf(f[n]) <= f[j].index
<1>. DEFINE n == f[i].next
            K == PlaceIn(f)
            L == LiveIn(f)
<1>1. i \in L /\ i # t /\ L \subseteq Infos
  BY DEF InList, EndsOfList, LiveIn
<1>2. n \in L /\ K[i] < K[n] /\ \A j \in L : K[j] <= K[i] \/ K[n] <= K[j]
  BY <1>1 DEF InList, NextInList
<1>3. \A j \in L : /\ K[j] = f[j].index /\ f[j].index \in Nat
                   /\ EndOf(f[j]) \in Nat /\ f[j].index < EndOf(f[j])
  BY <1>1, InfoFacts DEF PlaceIn
<1>4. \A j, k \in L : j # k => EndOf(f[j]) <= f[k].index \/ EndOf(f[k]) <= f[j].index
  BY DEF Fits
<1>. HIDE DEF n, K, L
<1>5. n # i /\ EndOf(f[i]) <= f[n].index
  BY <1>1, <1>2, <1>3, <1>4
<1>6. ASSUME NEW j \in L, j # n
      PROVE  EndOf(f[j]) <= EndOf(f[i]) \/ EndOf(f[n]) <= f[j].index
  <2>1. f[j].index <= f[i].index \/ f[n].index <= f[j].index
    BY <1>1, <1>2, <1>3
  <2>2. j # i => EndOf(f[j]) <= f[i].index \/ EndOf(f[i]) <= f[j].index
    BY <1>1, <1>4
  <2>3. EndOf(f[j]) <= f[n].index \/ EndOf(f[n]) <= f[j].index
    BY <1>2, <1>4, <1>6
  <2>. QED  BY <1>1, <1>2, <1>3, <1>5, <2>1, <2>2, <2>3
<1>. QED  BY <1>2, <1>5, <1>6 DEF n, L

(* The first variable of the list lies before all others.                   *)
LEMMA FirstFacts ==
    ASSUME NEW f \in [Infos -> Info], NEW h, NEW t,
           Fits(f), InList(f, h, t, PlaceIn(f)),
           NEW i \in LiveIn(f), f[i].pre = -1,
           NEW j \in LiveIn(f), j # i
    PROVE  EndOf(f[i]) <= f[j].index
<1>1. LiveIn(f) \subseteq Infos
  BY DEF LiveIn
<1>2. i = h
  BY <1>1, ConstantFacts DEF InList, PreInList
<1>3. PlaceIn(f)[i] <= PlaceIn(f)[j]
  BY <1>2 DEF InList, EndsOfList
<1>4. f[i].index <= f[j].index
  BY <1>1, <1>3 DEF PlaceIn
<1>5. EndOf(f[i]) <= f[j].index \/ EndOf(f[j]) <= f[i].index
  BY DEF Fits
<1>6. /\ f[i].index \in Nat /\ f[j].index \in Nat
      /\ EndOf(f[j]) \in Nat /\ f[j].index < EndOf(f[j])
  BY <1>1, InfoFacts
<1>. QED  BY <1>4, <1>5, <1>6

(* A round of the search closes the gap it passes, or finds it large enough.*)
LEMMA BehindSpace == ASSUME SpaceInv, LookBehind  PROVE SpaceInv'
<1>. DEFINE i     == add.iter
            n     == info[i].next
            first == info[i].pre = -1 /\ info[i].index # 0
            info1 == IF first THEN MovedInfo(info, i, 0) ELSE info
            data1 == IF first THEN MovedBytes(info, data, i, 0) ELSE data
            end   == EndOf(info1[i])
            room  == info1[n].index - end
            info2 == MovedInfo(info1, n, end)
            data2 == MovedBytes(info1, data1, n, end)
<1>1. /\ Searching /\ ~ AtEnd /\ info[i].size # 0
      /\ UNCHANGED <<head, tail, current, count, stored>>
      /\ \/ /\ room >= add.size
            /\ info' = info1 /\ data' = data1
            /\ add' = [add EXCEPT !.pc = "index", !.start = end]
         \/ /\ ~ (room >= add.size)
            /\ info' = info2 /\ data' = data2
            /\ add' = [add EXCEPT !.iter = n, !.useable = room,
                                  !.start = IF room = 0 THEN end ELSE EndOf(info'[n])]
  BY DEF LookBehind
<1>2. /\ i \in LiveIn(info) /\ i \in Infos /\ n # -1
      /\ info \in [Infos -> Info] /\ data \in [Bytes -> Values \cup {0}]
      /\ Fits(info) /\ Kept(info, data, stored) /\ InList(info, head, tail, PlaceIn(info))
      /\ Live = LiveIn(info)
  BY <1>1, SearchFacts DEF AtEnd, LiveIn
<1>. HIDE DEF i
<1>3. /\ info1 \in [Infos -> Info] /\ data1 \in [Bytes -> Values \cup {0}]
      /\ Fits(info1) /\ Kept(info1, data1, stored) /\ InList(info1, head, tail, PlaceIn(info1))
      /\ LiveIn(info1) = Live
      /\ \A j \in Infos : info1[j].next = info[j].next /\ (j \notin Live => info1[j] = info[j])
  <2>1. CASE first
    <3>1. \A j \in LiveIn(info) : j # i => EndOf(info[i]) <= info[j].index
      BY <1>2, <2>1, FirstFacts
    <3>2. info[i].index \in Nat /\ 0 <= info[i].index /\ 0 \in Nat
      BY <1>2, InfoFacts
    <3>3. /\ info1 = MovedInfo(info, i, 0) /\ data1 = MovedBytes(info, data, i, 0)
      BY <2>1
    <3>. HIDE DEF info1, data1
    <3>4. /\ data1 \in [Bytes -> Values \cup {0}]
          /\ Fits(info1) /\ Kept(info1, data1, stored) /\ InList(info1, head, tail, PlaceIn(info1))
      BY <1>2, <3>1, <3>2, <3>3, MoveDown
    <3>5. /\ info1 \in [Infos -> Info] /\ LiveIn(info1) = LiveIn(info)
          /\ \A j \in Infos : info1[j].next = info[j].next /\ (j # i => info1[j] = info[j])
      BY <1>2, <3>2, <3>3, MovedFacts
    <3>. QED  BY <1>2, <3>4, <3>5
  <2>2. CASE ~ first
    BY <1>2, <2>2
  <2>. QED  BY <2>1, <2>2
<1>. HIDE DEF info1, data1
<1>4. /\ n = info1[i].next /\ n \in Live /\ n \in Infos /\ n # i /\ end <= info1[n].index
      /\ end \in Nat /\ info1[n].index \in Nat
      /\ \A j \in Live : j = n \/ EndOf(info1[j]) <= end \/ EndOf(info1[n]) <= info1[j].index
  <2>1. n = info1[i].next
    BY <1>2, <1>3
  <2>2. /\ n \in Live /\ n # i /\ end <= info1[n].index
        /\ \A j \in Live : j = n \/ EndOf(info1[j]) <= end \/ EndOf(info1[n]) <= info1[j].index
    <3>. HIDE DEF n
    <3>. QED  BY <1>2, <1>3, <2>1, BehindFacts
  <2>3. n \in Infos
    BY <2>2 DEF Live
  <2>4. end \in Nat /\ info1[n].index \in Nat
    <3>. HIDE DEF n
    <3>. QED  BY <1>2, <1>3, <2>3, InfoFacts
  <2>. QED  BY <2>1, <2>2, <2>3, <2>4
<1>. HIDE DEF n, end
<1>5. room \in Nat /\ add \in Add /\ add.size \in Nat /\ add.pc = "search"
      /\ add.size \in Sizes /\ add.value \in Values /\ current \in Infos
      /\ Live # {} /\ AtUsed(current)
  <2>1. room \in Nat
    BY <1>4
  <2>. QED  BY <1>1, <2>1, SearchFacts
<1>6. CASE room >= add.size
  <2>1. /\ info' = info1 /\ data' = data1 /\ add' = [add EXCEPT !.pc = "index", !.start = end]
    BY <1>1, <1>6
  <2>2. Live' = Live
    BY <1>3, <2>1 DEF Live, LiveIn
  <2>3. /\ add'.pc = "index" /\ add'.start = end /\ add'.size = add.size
        /\ add'.value = add.value /\ add' \in Add
    BY <1>4, <1>5, <2>1 DEF Add
  <2>4. Typed'
    BY <1>1, <1>3, <1>5, <2>1, <2>2, <2>3 DEF SpaceInv, Typed
  <2>5. Counted' /\ FreeZero'
    BY <1>1, <1>3, <2>1, <2>2 DEF SpaceInv, Counted, FreeZero
  <2>6. Fits(info)' /\ Kept(info, data, stored)' /\ InList(info, head, tail, PlaceIn(info))'
    BY <1>1, <1>3, <2>1
  <2>7. GapOK'
    <3>1. end + add.size <= info1[n].index
      BY <1>4, <1>5, <1>6
    <3>2. \A j \in Live : j \in Infos /\ info1[j].index \in Nat /\ EndOf(info1[j]) \in Nat
                         /\ info1[j].index <= EndOf(info1[j]) /\ EndOf(info1[j]) <= Space
      <4>1. Live \subseteq Infos
        BY DEF Live
      <4>. QED  BY <1>3, <4>1, InfoFacts DEF Fits
    <3>3. end + add.size <= Space
      BY <1>4, <1>5, <3>1, <3>2, ConstantFacts
    <3>4. \A j \in Live : EndOf(info1[j]) <= end \/ end + add.size <= info1[j].index
      BY <1>4, <1>5, <3>1, <3>2
    <3>. QED  BY <1>5, <2>1, <2>2, <2>3, <3>3, <3>4 DEF GapOK
  <2>. QED  BY <2>3, <2>4, <2>5, <2>6, <2>7 DEF SpaceInv, CurrentOK, SearchOK, ListOK, SortOK
<1>7. CASE ~ (room >= add.size)
  <2>1. /\ info' = info2 /\ data' = data2
        /\ add' = [add EXCEPT !.iter = n, !.useable = room,
                              !.start = IF room = 0 THEN end ELSE EndOf(info'[n])]
    BY <1>1, <1>7
  <2>2. /\ info2 \in [Infos -> Info] /\ LiveIn(info2) = Live /\ info2[n].index = end
        /\ \A j \in Infos : j # n => info2[j] = info1[j]
    BY <1>3, <1>4, MovedFacts
  <2>3. /\ data2 \in [Bytes -> Values \cup {0}]
        /\ Fits(info2) /\ Kept(info2, data2, stored) /\ InList(info2, head, tail, PlaceIn(info2))
    BY <1>3, <1>4, MoveDown
  <2>. HIDE DEF info2, data2
  <2>4. Live' = Live
    BY <2>1, <2>2 DEF Live, LiveIn
  <2>5. EndOf(info2[n]) \in Nat /\ end <= EndOf(info2[n])
    BY <1>4, <2>2, InfoFacts
  <2>6. /\ add'.pc = "search" /\ add'.iter = n /\ add'.useable = room /\ add'.size = add.size
        /\ add'.value = add.value /\ add'.start \in Nat /\ add'.start <= EndOf(info2[n])
        /\ add' \in Add
    <3>. DEFINE st == IF room = 0 THEN end ELSE EndOf(info'[n])
    <3>1. st \in Nat /\ st <= EndOf(info2[n]) /\ room \in Int
      BY <1>4, <1>5, <2>1, <2>5
    <3>2. add' = [add EXCEPT !.iter = n, !.useable = room, !.start = st]
      BY <2>1
    <3>. HIDE DEF st, room
    <3>. QED  BY <1>4, <1>5, <3>1, <3>2 DEF Add
  <2>7. Typed'
    BY <1>1, <1>5, <2>1, <2>2, <2>3, <2>4, <2>6 DEF SpaceInv, Typed
  <2>8. Counted' /\ FreeZero'
    BY <1>1, <1>3, <1>4, <2>1, <2>2, <2>4 DEF SpaceInv, Counted, FreeZero
  <2>9. Fits(info)' /\ Kept(info, data, stored)' /\ InList(info, head, tail, PlaceIn(info))'
    BY <1>1, <2>1, <2>3
  <2>10. SearchOK'
    <3>1. room < add.size
      BY <1>5, <1>7
    <3>. HIDE DEF room
    <3>. QED  BY <1>1, <1>4, <1>5, <2>1, <2>4, <2>6, <3>1 DEF SearchOK, AtUsed
  <2>. QED  BY <2>6, <2>7, <2>8, <2>9, <2>10 DEF SpaceInv, CurrentOK, GapOK, ListOK, SortOK
<1>. QED  BY <1>6, <1>7

(* A search that starts at a free info stays there: its links lead to info  *)
(* 0, which is the free one.                                                *)
LEMMA SkipSpace == ASSUME SpaceInv, SkipFree  PROVE SpaceInv'
<1>1. /\ Searching /\ info[add.iter].size = 0
      /\ UNCHANGED <<head, tail, current, count, stored>>
  BY DEF SkipFree
<1>2. /\ add.iter = 0 /\ 0 \notin Live /\ info[0] = FreeInfo /\ add.start = 0 /\ 0 \in Infos
  <2>1. add.iter \notin Live
    BY <1>1 DEF Live
  <2>. QED  BY <1>1, <2>1, SearchFacts, ConstantFacts DEF AtUsed
<1>3. info[0].next = 0 /\ info[0].index = 0 /\ info[0].size = 0
  BY <1>2 DEF FreeInfo
<1>4. /\ info \in [Infos -> Info] /\ data \in [Bytes -> Values \cup {0}]
  BY <1>1, SearchFacts
<1>5. info' = info
  <2>1. info' = [info EXCEPT ![0] = [info[0] EXCEPT !.index = 0]]
    BY <1>2, <1>3 DEF SkipFree, MovedInfo
  <2>2. [info[0] EXCEPT !.index = 0] = info[0]
    BY <1>2 DEF FreeInfo
  <2>. QED  BY <1>2, <1>4, <2>1, <2>2
<1>6. data' = data
  <2>1. data' = MovedBytes(info, data, 0, 0)
    BY <1>2, <1>3 DEF SkipFree
  <2>2. \A b \in Bytes : b \notin 0 .. 0 + info[0].size - 1
    BY <1>3 DEF Bytes
  <2>. QED  BY <1>4, <2>1, <2>2 DEF MovedBytes
<1>7. add' = [add EXCEPT !.iter = 0, !.useable = 0, !.start = 0]
  <2>1. LET room == info[0].index - add.start
        IN  add' = [add EXCEPT !.iter = 0, !.useable = room,
                               !.start = IF room = 0 THEN add.start ELSE EndOf(info'[0])]
    BY <1>2, <1>3 DEF SkipFree
  <2>2. info[0].index - add.start = 0
    BY <1>2, <1>3
  <2>. QED  BY <1>2, <2>1, <2>2
<1>8. /\ add'.pc = "search" /\ add'.iter = 0 /\ add'.start = 0 /\ add'.useable = 0
      /\ add'.size = add.size /\ add'.value = add.value /\ add' \in Add
  <2>1. add \in Add /\ add.pc = "search" /\ 0 \in Infos
    BY <1>1, <1>2, SearchFacts
  <2>2. 0 \in Nat /\ 0 \in Int
    OBVIOUS
  <2>. QED  BY <1>7, <2>1, <2>2 DEF Add
<1>9. Live' = Live
  BY <1>5 DEF Live
<1>10. Typed'
  BY <1>1, <1>5, <1>6, <1>8, <1>9, SearchFacts DEF SpaceInv, Typed
<1>11. SearchOK'
  <2>1. EndOf(info[0]) = 0
    BY <1>3 DEF EndOf
  <2>. QED  BY <1>1, <1>2, <1>5, <1>8, <1>9, <2>1, SearchFacts DEF SearchOK, AtUsed
<1>12. Undisturbed'
  BY <1>1, <1>5, <1>6, <1>8, SearchFacts, StaysUndisturbed
<1>. QED  BY <1>8, <1>10, <1>11, <1>12 DEF SpaceInv, Undisturbed, CurrentOK, GapOK
-----------------------------------------------------------------------------
(* The choice of an info: each used one is passed, once around.             *)
LEMMA IndexSpace == ASSUME SpaceInv, NextIndex  PROVE SpaceInv'
<1>. DEFINE n == current + 1
<1>1. /\ add.pc = "index" /\ current \in Infos /\ current \in Nat /\ n <= MaxInfo
      /\ n \in Nat /\ MaxInfo \in Nat /\ add \in Add
      /\ info[current].size # 0 /\ UNCHANGED <<info, data, head, tail, count, stored>>
      /\ current' = IF n = MaxInfo /\ ~ add.indexFull THEN 0 ELSE n
      /\ add' = IF n < MaxInfo THEN add
                ELSE IF add.indexFull THEN Idle ELSE [add EXCEPT !.indexFull = TRUE]
  BY ConstantFacts DEF NextIndex, SpaceInv, Typed
<1>2. Live' = Live
  BY <1>1 DEF Live
<1>3. CASE n = MaxInfo /\ add.indexFull
  <2>1. add' = Idle /\ add'.pc = "idle" /\ Idle \in Add /\ current' = MaxInfo
    BY <1>1, <1>3, ConstantFacts DEF Idle, Add
  <2>2. Typed'
    BY <1>1, <1>2, <2>1, ConstantFacts DEF SpaceInv, Typed
  <2>3. Undisturbed'
    BY <1>1, <2>1, StaysUndisturbed
  <2>. QED  BY <2>1, <2>2, <2>3 DEF SpaceInv, Undisturbed, CurrentOK, SearchOK, GapOK
<1>4. CASE ~ (n = MaxInfo /\ add.indexFull)
  <2>1. /\ add'.pc = "index" /\ add'.start = add.start /\ add'.size = add.size
        /\ add'.value = add.value /\ add' \in Add
    <3>1. add' = add \/ add' = [add EXCEPT !.indexFull = TRUE]
      BY <1>1, <1>4
    <3>. QED  BY <1>1, <3>1 DEF Add
  <2>2. current' \in Infos
    <3>1. n < MaxInfo \/ n = MaxInfo
      BY <1>1
    <3>2. n < MaxInfo => n \in Infos
      BY <1>1 DEF Infos
    <3>. QED  BY <1>1, <1>4, <3>1, <3>2, ConstantFacts
  <2>3. Typed'
    <3>1. current' \in -1 .. MaxInfo
      BY <2>2, ConstantFacts
    <3>. QED  BY <1>1, <1>2, <2>1, <2>2, <3>1 DEF SpaceInv, Typed
  <2>4. GapOK'
    BY <1>1, <1>2, <2>1 DEF SpaceInv, GapOK
  <2>5. Undisturbed'
    BY <1>1, <2>1, StaysUndisturbed
  <2>. QED  BY <2>1, <2>3, <2>4, <2>5 DEF SpaceInv, Undisturbed, CurrentOK, SearchOK
<1>. QED  BY <1>3, <1>4

(* Keys that order the used infos the same way make the same list.          *)
LEMMA SameOrder ==
    ASSUME NEW f, NEW h, NEW t, NEW K, NEW M, InList(f, h, t, K),
           \A i \in LiveIn(f) : K[i] \in Int /\ M[i] \in Int,
           \A i, j \in LiveIn(f) : K[i] < K[j] => M[i] < M[j]
    PROVE  InList(f, h, t, M)
<1>. DEFINE L == LiveIn(f)
<1>1. \A i, j \in L : K[i] # K[j] <=> i # j
  BY DEF InList, Distinct
<1>2. \A i, j \in L : /\ K[i] < K[j] => M[i] < M[j]
                      /\ K[i] <= K[j] => M[i] <= M[j]
                      /\ i # j => M[i] # M[j]
  <2>1. \A i, j \in L : K[i] \in Int /\ M[i] \in Int /\ (K[i] < K[j] => M[i] < M[j])
    OBVIOUS
  <2>. HIDE DEF L
  <2>. QED  BY <1>1, <2>1
<1>3. NextInList(f, t, M)
  BY <1>2 DEF InList, NextInList
<1>4. EndsOfList(f, h, t, M)
  BY <1>2 DEF InList, EndsOfList
<1>5. Distinct(f, M)
  BY <1>2 DEF Distinct
<1>. QED  BY <1>3, <1>4, <1>5 DEF InList

(* What is known in SortList. *)
LEMMA SortFacts ==
    ASSUME SpaceInv, add.pc = "sort"
    PROVE  /\ info \in [Infos -> Info] /\ Live = LiveIn(info) /\ current \in Live /\ Live \subseteq Infos
           /\ InList(info, head, tail, SortKey)
           /\ \A i \in Live : /\ info[i].index \in Nat /\ SortKey[i] \in Int
                              /\ i # current => SortKey[i] = 2 * info[i].index
                              /\ SortKey[current] < SortKey[i] => info[current].index < info[i].index
           /\ \A i, j \in Live : i # j => info[i].index # info[j].index
           /\ SortKey[current] = IF info[current].pre = -1 THEN -1 ELSE 2 * info[info[current].pre].index + 1
           /\ info[current].pre # -1 => info[current].pre \in Live /\ info[info[current].pre].next = current
<1>1. /\ info \in [Infos -> Info] /\ Live = LiveIn(info) /\ current \in Live /\ Live \subseteq Infos
      /\ InList(info, head, tail, SortKey)
      /\ \A i \in Live : SortKey[current] < SortKey[i] => info[current].index < info[i].index
  BY LiveFacts DEF SpaceInv, Typed, SortOK
<1>2. \A i \in Live : info[i].index \in Nat /\ EndOf(info[i]) \in Nat /\ info[i].index < EndOf(info[i])
  BY <1>1, InfoFacts
<1>3. \A i, j \in Live : i # j => info[i].index # info[j].index
  BY <1>1, <1>2 DEF SpaceInv, Fits
<1>4. info[current].pre # -1 => info[current].pre \in Live /\ info[info[current].pre].next = current
  BY <1>1 DEF InList, PreInList, EndsOfList
<1>5. /\ SortKey[current] = IF info[current].pre = -1 THEN -1 ELSE 2 * info[info[current].pre].index + 1
      /\ \A i \in Live : i # current => SortKey[i] = 2 * info[i].index
  BY <1>1 DEF SortKey
<1>6. \A i \in Live : SortKey[i] \in Int
  BY <1>2, <1>4, <1>5
<1>. QED  BY <1>1, <1>2, <1>3, <1>4, <1>5, <1>6

(* Once the info before it lies before it, the new one is in its place.     *)
LEMMA InPlaceSpace == ASSUME SpaceInv, InPlace  PROVE SpaceInv'
<1>. DEFINE c == current
            p == info[c].pre
            K == SortKey
            M == PlaceIn(info)
<1>1. /\ add.pc = "sort" /\ add' = Idle /\ add'.pc = "idle" /\ Idle \in Add
      /\ (p = -1 \/ ~ (info[p].index > info[c].index))
      /\ UNCHANGED <<info, data, head, tail, current, count, stored>>
  BY ConstantFacts DEF InPlace, OutOfPlace, Idle, Add
<1>2. Live' = Live /\ c \in Live
  BY <1>1, SortFacts DEF Live
<1>3. \A i \in Live : K[i] \in Int /\ M[i] \in Int /\ M[i] = info[i].index /\ M[i] \in Nat
  BY <1>1, SortFacts DEF PlaceIn
<1>4. ASSUME NEW i \in Live, NEW j \in Live, K[i] < K[j]  PROVE M[i] < M[j]
  <2>1. CASE i = c
    BY <1>1, <1>2, <1>3, <1>4, <2>1, SortFacts
  <2>2. CASE i # c /\ j = c
    <3>1. K[i] = 2 * M[i]
      BY <1>1, <1>3, <2>2, SortFacts
    <3>2. p # -1
      BY <1>1, <1>3, <1>4, <2>2, <3>1, SortFacts
    <3>3. p \in Live /\ K[c] = 2 * M[p] + 1
      BY <1>1, <1>3, <3>2, SortFacts
    <3>4. M[i] <= M[p] /\ M[p] <= M[c]
      BY <1>1, <1>2, <1>3, <1>4, <2>2, <3>1, <3>2, <3>3
    <3>5. M[i] # M[c]
      BY <1>1, <1>2, <1>3, <2>2, SortFacts
    <3>. QED  BY <1>2, <1>3, <2>2, <3>3, <3>4, <3>5
  <2>3. CASE i # c /\ j # c
    <3>1. K[i] = 2 * M[i] /\ K[j] = 2 * M[j]
      BY <1>1, <1>3, <2>3, SortFacts
    <3>. QED  BY <1>3, <1>4, <3>1
  <2>. QED  BY <2>1, <2>2, <2>3
<1>5. InList(info, head, tail, M)
  <2>. HIDE DEF K, M
  <2>1. InList(info, head, tail, K) /\ Live = LiveIn(info)
    BY <1>1, SortFacts DEF K
  <2>. QED  BY <1>3, <1>4, <2>1, SameOrder
<1>6. InList(info, head, tail, PlaceIn(info))'
  BY <1>1, <1>5
<1>7. Typed'
  BY <1>1, <1>2 DEF SpaceInv, Typed
<1>8. Counted' /\ FreeZero' /\ Fits(info)' /\ Kept(info, data, stored)'
  BY <1>1, <1>2 DEF SpaceInv, Counted, FreeZero
<1>9. CurrentOK'
  BY <1>1, <1>2 DEF CurrentOK, AtUsed
<1>. QED  BY <1>1, <1>6, <1>7, <1>8, <1>9 DEF SpaceInv, SearchOK, GapOK, ListOK, SortOK

(* The new info becomes the last of the list, its data in the gap.          *)
LEMMA AppendSpace == ASSUME SpaceInv, Append  PROVE SpaceInv'
<1>. DEFINE c == current
            t == tail
            new == [pre |-> t, next |-> -1, index |-> add.start, size |-> add.size]
            K == PlaceIn(info)
            M == SortKey'
<1>1. /\ add.pc = "index" /\ c \in Infos /\ c \notin Live /\ add \in Add
      /\ add.start \in Nat /\ add.size \in Nat /\ add.size > 0 /\ add.size \in Sizes /\ add.value \in Values
      /\ info \in [Infos -> Info] /\ data \in [Bytes -> Values \cup {0}] /\ stored \in [Live -> Values]
      /\ info' = [info EXCEPT ![t].next = c, ![c] = new]
      /\ data' = Written(add.start, add.size, add.value)
      /\ tail' = c /\ count' = count + 1 /\ head' = head /\ current' = c
      /\ stored' = [i \in DOMAIN stored \cup {c} |-> IF i = c THEN add.value ELSE stored[i]]
      /\ add' = [add EXCEPT !.pc = "sort"]
  BY ConstantFacts DEF Append, SpaceInv, Typed, Live, Add
<1>2. /\ Live # {} /\ add.start + add.size <= Space
      /\ \A i \in Live : EndOf(info[i]) <= add.start \/ add.start + add.size <= info[i].index
      /\ InList(info, head, t, K) /\ Live = LiveIn(info) /\ Live \subseteq Infos
  BY <1>1, LiveFacts DEF SpaceInv, GapOK, ListOK
<1>3. t \in Live /\ head \in Live /\ t \in Infos /\ t # c
  BY <1>1, <1>2 DEF InList, EndsOfList
<1>4. \A i \in Live : K[i] = info[i].index /\ K[i] \in Nat /\ EndOf(info[i]) \in Nat /\ K[i] < EndOf(info[i])
  BY <1>1, <1>2, InfoFacts DEF PlaceIn
<1>5. /\ info' \in [Infos -> Info] /\ info'[c] = new
      /\ info'[t].next = c
      /\ \A i \in Infos \ {c} : /\ info'[i].pre = info[i].pre /\ info'[i].index = info[i].index
                                /\ info'[i].size = info[i].size
                                /\ i # t => info'[i] = info[i]
  <2>1. new \in Info
    BY <1>1, <1>3 DEF Info
  <2>2. [info[t] EXCEPT !.next = c] \in Info
    BY <1>1, <1>3 DEF Info
  <2>3. info' = [[info EXCEPT ![t] = [info[t] EXCEPT !.next = c]] EXCEPT ![c] = new]
    BY <1>1
  <2>4. info'[t] = [info[t] EXCEPT !.next = c]
    <3>. HIDE DEF new, c, t
    <3>. QED  BY <1>1, <1>3, <2>3
  <2>5. info'[c] = new /\ \A i \in Infos : i # c /\ i # t => info'[i] = info[i]
    <3>. HIDE DEF new, c, t
    <3>. QED  BY <1>1, <1>3, <2>3
  <2>6. info' \in [Infos -> Info]
    <3>. HIDE DEF new, c, t
    <3>. QED  BY <1>1, <1>3, <2>1, <2>2, <2>3
  <2>7. /\ info'[t].next = c /\ info'[t].pre = info[t].pre /\ info'[t].index = info[t].index
        /\ info'[t].size = info[t].size
    <3>. HIDE DEF c, t
    <3>. QED  BY <1>1, <1>3, <2>4 DEF Info
  <2>. HIDE DEF new
  <2>. QED  BY <2>5, <2>6, <2>7
<1>6. /\ info'[c].pre = t /\ info'[c].next = -1 /\ info'[c].index = add.start
      /\ info'[c].size = add.size /\ EndOf(info'[c]) = add.start + add.size
  BY <1>5 DEF EndOf
<1>. HIDE DEF new
<1>7. Live' = Live \cup {c} /\ LiveIn(info') = Live \cup {c}
  <2>1. \A i \in Infos : info'[i].size # 0 <=> i \in Live \/ i = c
    BY <1>1, <1>5, <1>6 DEF Live
  <2>. QED  BY <1>1, <1>2, <2>1 DEF Live, LiveIn
<1>8. /\ add'.pc = "sort" /\ add'.size = add.size /\ add'.value = add.value /\ add' \in Add
  BY <1>1 DEF Add
<1>9. Typed'
  <2>1. data' \in [Bytes -> Values \cup {0}]
    BY <1>1 DEF Written
  <2>2. stored' \in [Live' -> Values]
    BY <1>1, <1>7
  <2>3. tail' \in Int /\ current' \in -1 .. MaxInfo
    BY <1>1, ConstantFacts DEF SpaceInv, Typed
  <2>. QED  BY <1>1, <1>5, <1>8, <2>1, <2>2, <2>3 DEF SpaceInv, Typed
<1>10. Counted'
  <2>1. IsFiniteSet(Live) /\ count = Cardinality(Live)
    BY LiveFacts DEF SpaceInv, Counted
  <2>. QED  BY <1>1, <1>7, <2>1, FS_AddElement DEF Counted
<1>11. FreeZero'
  BY <1>3, <1>5, <1>7 DEF SpaceInv, FreeZero
<1>12. \A i \in Live : EndOf(info'[i]) = EndOf(info[i]) /\ info'[i].index = info[i].index
  BY <1>1, <1>2, <1>5 DEF EndOf
<1>13. Fits(info)'
  <2>1. \A i \in Live : EndOf(info[i]) <= Space
    BY <1>2 DEF SpaceInv, Fits
  <2>2. \A i, j \in Live : i # j => EndOf(info[i]) <= info[j].index \/ EndOf(info[j]) <= info[i].index
    BY <1>2 DEF SpaceInv, Fits
  <2>. QED  BY <1>2, <1>6, <1>7, <1>12, <2>1, <2>2 DEF Fits
<1>14. Kept(info, data, stored)'
  <2>1. \A b \in Bytes : data'[b] = IF b \in add.start .. add.start + add.size - 1
                                      THEN add.value ELSE data[b]
    BY <1>1 DEF Written
  <2>. HIDE DEF c, t, K, M
  <2>. SUFFICES ASSUME NEW i \in Live \cup {c}, NEW b \in info'[i].index .. EndOf(info'[i]) - 1
                PROVE  data'[b] = stored'[i]
    BY <1>7 DEF Kept
  <2>2. stored'[i] = IF i = c THEN add.value ELSE stored[i]
    BY <1>1
  <2>3. CASE i = c
    <3>1. info'[i].index = add.start /\ EndOf(info'[i]) = add.start + add.size
      BY <1>6, <2>3, Zenon
    <3>2. /\ add.start \in Nat /\ add.size \in Nat
          /\ add.start + add.size <= Space /\ Space \in Nat
      BY <1>1, <1>2, ConstantFacts
    <3>3. b \in add.start .. add.start + add.size - 1
      BY <3>1, <3>2
    <3>4. b \in Bytes
      BY <3>2, <3>3 DEF Bytes
    <3>. QED  BY <2>1, <2>2, <2>3, <3>3, <3>4, Zenon
  <2>4. CASE i # c
    <3>1. i \in Live /\ b \in info[i].index .. EndOf(info[i]) - 1
      BY <1>12, <2>4
    <3>2. EndOf(info[i]) <= Space
      BY <1>2, <3>1 DEF SpaceInv, Fits
    <3>3. b \in Bytes /\ b \notin add.start .. add.start + add.size - 1
      <4>1. EndOf(info[i]) <= add.start \/ add.start + add.size <= info[i].index
        BY <1>2, <3>1
      <4>2. /\ info[i].index \in Nat /\ EndOf(info[i]) \in Nat
            /\ add.start \in Nat /\ add.size \in Nat
        BY <1>1, <1>4, <3>1
      <4>. QED  BY <3>1, <3>2, <4>1, <4>2, ConstantFacts DEF Bytes
    <3>4. data[b] = stored[i]
      BY <1>2, <3>1 DEF SpaceInv, Kept
    <3>. QED  BY <2>1, <2>2, <2>4, <3>3, <3>4, Zenon
  <2>. QED  BY <2>3, <2>4
<1>15. M[c] = 2 * K[t] + 1 /\ \A i \in Live : M[i] = 2 * K[i]
  <2>1. M = [i \in Infos |-> IF i # c THEN 2 * info'[i].index
                             ELSE IF info'[i].pre = -1 THEN -1
                             ELSE 2 * info'[info'[i].pre].index + 1]
    BY <1>1 DEF SortKey
  <2>. HIDE DEF M, c, t, K
  <2>2. \A i \in Live : i \in Infos /\ i # c
    BY <1>1, <1>2
  <2>3. t # -1
    BY <1>3, ConstantFacts
  <2>4. M[c] = 2 * K[t] + 1
    BY <1>1, <1>3, <1>4, <1>6, <1>12, <2>1, <2>3
  <2>5. ASSUME NEW i \in Live  PROVE M[i] = 2 * info'[i].index
    BY <2>1, <2>2
  <2>6. ASSUME NEW i \in Live  PROVE info'[i].index = K[i]
    BY <1>4, <1>12
  <2>. QED  BY <2>4, <2>5, <2>6
<1>16. \A i \in Live : K[i] <= K[t] /\ M[i] < M[c] /\ M[i] \in Int /\ M[c] \in Int
  <2>1. \A i \in Live : K[i] <= K[t]
    BY <1>2 DEF InList, EndsOfList
  <2>. HIDE DEF M, K
  <2>. QED  BY <1>3, <1>4, <1>15, <2>1
<1>17. InList(info, head, tail, SortKey)'
  <2>. HIDE DEF M, K, c, t
  <2>0. head' = head /\ tail' = c /\ LiveIn(info') = Live' /\ Live' = Live \cup {c} /\ c \notin Live
    BY <1>1, <1>7
  <2>1. ASSUME NEW i \in Live
        PROVE  /\ info'[i].next \in Live' /\ info'[info'[i].next].pre = i
               /\ M[i] < M[info'[i].next]
               /\ \A j \in Live' : M[j] <= M[i] \/ M[info'[i].next] <= M[j]
    <3>1. CASE i = t
      BY <1>3, <1>4, <1>5, <1>6, <1>7, <1>15, <1>16, <3>1
    <3>2. CASE i # t
      <4>. DEFINE n == info[i].next
      <4>1. /\ n \in Live /\ info[n].pre = i /\ K[i] < K[n]
            /\ \A j \in Live : K[j] <= K[i] \/ K[n] <= K[j]
        BY <1>2, <3>2 DEF InList, NextInList
      <4>2. info'[i].next = n /\ n # c /\ i # c /\ info'[n].pre = i
        BY <1>1, <1>2, <1>5, <3>2, <4>1
      <4>. HIDE DEF n
      <4>3. M[i] < M[n] /\ \A j \in Live : M[j] <= M[i] \/ M[n] <= M[j]
        BY <1>4, <1>15, <4>1
      <4>4. M[n] <= M[c]
        BY <1>16, <4>1
      <4>. QED  BY <1>7, <4>1, <4>2, <4>3, <4>4
    <3>. QED  BY <3>1, <3>2
  <2>2. NextInList(info, tail, SortKey)'
    BY <2>0, <2>1 DEF NextInList, M
  <2>3. PreInList(info, head)'
    <3>. SUFFICES ASSUME NEW i \in Live', i # head
                  PROVE  info'[i].pre \in Live' /\ info'[info'[i].pre].next = i
      BY <2>0 DEF PreInList
    <3>1. CASE i = c
      BY <1>3, <1>5, <1>6, <1>7, <3>1
    <3>2. CASE i # c
      <4>1. i \in Live /\ info[i].pre \in Live /\ info[info[i].pre].next = i
        BY <1>2, <1>7, <3>2 DEF InList, PreInList
      <4>2. info[i].pre # t
        <5>1. info[t].next = -1
          BY <1>2 DEF InList, EndsOfList
        <5>. QED  BY <1>2, <4>1, <5>1, ConstantFacts
      <4>3. info'[i].pre = info[i].pre /\ info'[info[i].pre].next = info[info[i].pre].next
        BY <1>1, <1>2, <1>5, <4>1, <4>2
      <4>. QED  BY <1>7, <4>1, <4>3
    <3>. QED  BY <3>1, <3>2
  <2>4. EndsOfList(info, head, tail, SortKey)'
    <3>1. info[head].pre = -1 /\ \A i \in Live : K[head] <= K[i]
      BY <1>2 DEF InList, EndsOfList
    <3>2. head \in Infos /\ head # c
      BY <1>1, <1>2, <1>3
    <3>3. info'[head].pre = -1
      BY <1>5, <3>1, <3>2
    <3>4. \A i \in Live' : M[head] <= M[i] /\ M[i] <= M[c]
      BY <1>3, <1>4, <1>7, <1>15, <1>16, <3>1
    <3>. QED  BY <1>1, <1>3, <1>6, <1>7, <3>3, <3>4 DEF EndsOfList, M
  <2>5. Distinct(info, SortKey)'
    <3>1. \A i, j \in Live : i # j => K[i] # K[j]
      BY <1>2 DEF InList, Distinct
    <3>2. \A i, j \in Live' : i # j => M[i] # M[j]
      BY <1>4, <1>7, <1>15, <1>16, <3>1
    <3>. QED  BY <1>7, <3>2 DEF Distinct, M
  <2>. QED  BY <2>2, <2>3, <2>4, <2>5 DEF InList
<1>18. SortOK'
  <2>1. \A i \in Live' : ~ (M[c] < M[i])
    <3>. HIDE DEF M
    <3>. QED  BY <1>3, <1>7, <1>16
  <2>. QED  BY <1>1, <1>7, <1>17, <2>1 DEF SortOK
<1>. QED  BY <1>8, <1>9, <1>10, <1>11, <1>13, <1>14, <1>18 DEF SpaceInv, CurrentOK, SearchOK, GapOK, ListOK

(* Moving the new info up the list exchanges it with the one before it.     *)
LEMMA SwapFacts ==
    ASSUME SpaceInv, MoveUp
    PROVE  LET c == current
               p == info[c].pre
               a == info[c].next
               q == info[p].pre
           IN  /\ add.pc = "sort" /\ c \in Live /\ p \in Live /\ p # c /\ info[p].next = c
               /\ info[p].index > info[c].index
               /\ IF c = tail THEN a = -1
                              ELSE a \in Live /\ a # c /\ a # p /\ info[a].pre = c
               /\ IF p = head THEN q = -1
                              ELSE q \in Live /\ q # c /\ q # p /\ q # a /\ info[q].next = p
               /\ info' \in [Infos -> Info]
               /\ \A j \in Infos :
                     /\ info'[j].index = info[j].index /\ info'[j].size = info[j].size
                     /\ info'[j].next = IF j = p THEN a ELSE IF j = c THEN p
                                        ELSE IF j = q THEN c ELSE info[j].next
                     /\ info'[j].pre = IF j = p THEN c ELSE IF j = c THEN q
                                       ELSE IF j = a THEN p ELSE info[j].pre
                     /\ j \notin Live => info'[j] = info[j]
               /\ tail' = (IF c = tail THEN p ELSE tail)
               /\ head' = (IF p = head THEN c ELSE head)
<1>. DEFINE c == current
            p == info[c].pre
            a == info[c].next
            q == info[p].pre
            K == SortKey
            linked == [info EXCEPT ![p].next = a, ![p].pre = c, ![c].next = p, ![c].pre = q]
            behind == IF a = -1 THEN linked ELSE [linked EXCEPT ![a].pre = p]
            swapped == IF q = -1 THEN behind ELSE [behind EXCEPT ![q].next = c]
<1>1. /\ add.pc = "sort" /\ p # -1 /\ info[p].index > info[c].index
      /\ tail' = (IF a = -1 THEN p ELSE tail) /\ head' = (IF q = -1 THEN c ELSE head)
      /\ info' = swapped
  BY DEF MoveUp, OutOfPlace, Swapped
<1>2. /\ info \in [Infos -> Info] /\ Live = LiveIn(info) /\ Live \subseteq Infos
      /\ c \in Live /\ p \in Live /\ info[p].next = c
      /\ InList(info, head, tail, K)
      /\ \A j \in Live : K[j] \in Int
  BY <1>1, SortFacts
<1>. HIDE DEF K
<1>3. p # tail /\ c # head /\ p # c
  <2>1. info[tail].next = -1 /\ info[head].pre = -1
    BY <1>2 DEF InList, EndsOfList
  <2>2. p # tail /\ c # head
    BY <1>1, <1>2, <2>1, ConstantFacts
  <2>3. K[p] < K[c]
    BY <1>2, <2>2 DEF InList, NextInList
  <2>. QED  BY <1>2, <2>2, <2>3
<1>4. IF c = tail THEN a = -1 ELSE a \in Live /\ a # c /\ a # p /\ info[a].pre = c
  <2>1. CASE c = tail
    BY <1>2, <2>1 DEF InList, EndsOfList
  <2>2. CASE c # tail
    <3>1. a \in Live /\ info[a].pre = c /\ K[c] < K[a]
      BY <1>2, <2>2 DEF InList, NextInList
    <3>2. K[p] < K[c]
      BY <1>2, <1>3 DEF InList, NextInList
    <3>. QED  BY <1>2, <2>2, <3>1, <3>2
  <2>. QED  BY <2>1, <2>2
<1>5. IF p = head THEN q = -1 ELSE q \in Live /\ q # c /\ q # p /\ q # a /\ info[q].next = p
  <2>1. CASE p = head
    BY <1>2, <2>1 DEF InList, EndsOfList
  <2>2. CASE p # head
    <3>1. q \in Live /\ info[q].next = p
      BY <1>2, <2>2 DEF InList, PreInList
    <3>2. q # tail
      <4>1. info[tail].next = -1
        BY <1>2 DEF InList, EndsOfList
      <4>. QED  BY <1>2, <3>1, <4>1, ConstantFacts
    <3>3. K[q] < K[p] /\ K[p] < K[c]
      BY <1>2, <1>3, <3>1, <3>2 DEF InList, NextInList
    <3>4. a # -1 => K[c] < K[a]
      BY <1>2, <1>4 DEF InList, NextInList
    <3>5. q # -1
      BY <1>2, <3>1, ConstantFacts
    <3>. QED  BY <1>2, <1>4, <2>2, <3>1, <3>3, <3>4, <3>5
  <2>. QED  BY <2>1, <2>2
<1>6. /\ c \in Infos /\ p \in Infos /\ p # c
      /\ a # -1 => a \in Live /\ a \in Infos /\ a # c /\ a # p
      /\ q # -1 => q \in Live /\ q \in Infos /\ q # c /\ q # p /\ q # a
      /\ a \in Infos \cup {-1} /\ q \in Infos \cup {-1}
      /\ (a = -1 <=> c = tail) /\ (q = -1 <=> p = head) /\ c \in Live /\ p \in Live
      /\ -1 \notin Infos
  BY <1>2, <1>3, <1>4, <1>5, ConstantFacts
<1>. HIDE DEF c, p, a, q
<1>7. \A f \in [Infos -> Info] : \A i \in Infos : \A v \in Infos \cup {-1} :
          /\ [f EXCEPT ![i].next = v] \in [Infos -> Info] /\ [f EXCEPT ![i].pre = v] \in [Infos -> Info]
          /\ \A j \in Infos : /\ j # i => [f EXCEPT ![i].next = v][j] = f[j] /\ [f EXCEPT ![i].pre = v][j] = f[j]
                              /\ [f EXCEPT ![i].next = v][i] = [f[i] EXCEPT !.next = v]
                              /\ [f EXCEPT ![i].pre = v][i] = [f[i] EXCEPT !.pre = v]
  BY DEF Info
<1>8. \A e \in Info : \A v \in Infos \cup {-1} :
          /\ [e EXCEPT !.next = v] \in Info /\ [e EXCEPT !.pre = v] \in Info
          /\ [e EXCEPT !.next = v].pre = e.pre /\ [e EXCEPT !.next = v].next = v
          /\ [e EXCEPT !.next = v].index = e.index /\ [e EXCEPT !.next = v].size = e.size
          /\ [e EXCEPT !.pre = v].pre = v /\ [e EXCEPT !.pre = v].next = e.next
          /\ [e EXCEPT !.pre = v].index = e.index /\ [e EXCEPT !.pre = v].size = e.size
  BY DEF Info
<1>9. /\ linked \in [Infos -> Info]
      /\ \A j \in Infos : j # p /\ j # c => linked[j] = info[j]
      /\ linked[p] = [[info[p] EXCEPT !.next = a] EXCEPT !.pre = c]
      /\ linked[c] = [[info[c] EXCEPT !.next = p] EXCEPT !.pre = q]
  <2>. DEFINE f1 == [info EXCEPT ![p].next = a]
              f2 == [f1 EXCEPT ![p].pre = c]
              f3 == [f2 EXCEPT ![c].next = p]
              f4 == [f3 EXCEPT ![c].pre = q]
  <2>1. linked = f4
    OBVIOUS
  <2>2. f1 \in [Infos -> Info] /\ f1[p] = [info[p] EXCEPT !.next = a] /\ \A j \in Infos : j # p => f1[j] = info[j]
    <3>1. info \in [Infos -> Info] /\ p \in Infos /\ a \in Infos \cup {-1}
      BY <1>2, <1>6
    <3>. HIDE DEF linked, behind, swapped
    <3>. QED  BY <1>7, <3>1
  <2>. HIDE DEF f1
  <2>3. f2 \in [Infos -> Info] /\ f2[p] = [f1[p] EXCEPT !.pre = c] /\ \A j \in Infos : j # p => f2[j] = f1[j]
    BY <1>6, <1>7, <2>2
  <2>. HIDE DEF f2
  <2>4. f3 \in [Infos -> Info] /\ f3[c] = [f2[c] EXCEPT !.next = p] /\ \A j \in Infos : j # c => f3[j] = f2[j]
    BY <1>6, <1>7, <2>3
  <2>. HIDE DEF f3
  <2>5. f4 \in [Infos -> Info] /\ f4[c] = [f3[c] EXCEPT !.pre = q] /\ \A j \in Infos : j # c => f4[j] = f3[j]
    BY <1>6, <1>7, <2>4
  <2>. HIDE DEF f4, linked
  <2>6. f4[p] = f2[p] /\ f3[c] = [f2[c] EXCEPT !.next = p] /\ f2[c] = info[c]
    BY <1>6, <2>2, <2>3, <2>4, <2>5
  <2>7. \A j \in Infos : j # p /\ j # c => f4[j] = info[j]
    BY <2>2, <2>3, <2>4, <2>5
  <2>. QED  BY <2>1, <2>2, <2>3, <2>5, <2>6, <2>7
<1>. HIDE DEF linked
<1>10. /\ behind \in [Infos -> Info]
       /\ \A j \in Infos : behind[j] = IF a # -1 /\ j = a THEN [linked[j] EXCEPT !.pre = p] ELSE linked[j]
  <2>1. CASE a = -1
    BY <1>9, <2>1
  <2>2. CASE a # -1
    <3>1. behind = [linked EXCEPT ![a].pre = p]
      BY <2>2
    <3>. HIDE DEF behind
    <3>. QED  BY <1>6, <1>7, <1>9, <2>2, <3>1
  <2>. QED  BY <2>1, <2>2
<1>. HIDE DEF behind
<1>11. /\ info' \in [Infos -> Info]
       /\ \A j \in Infos : info'[j] = IF q # -1 /\ j = q THEN [behind[j] EXCEPT !.next = c] ELSE behind[j]
  <2>1. CASE q = -1
    BY <1>1, <1>10, <2>1
  <2>2. CASE q # -1
    <3>1. info' = [behind EXCEPT ![q].next = c]
      BY <1>1, <2>2
    <3>. QED  BY <1>6, <1>7, <1>10, <2>2, <3>1
  <2>. QED  BY <2>1, <2>2
<1>12. ASSUME NEW j \in Infos
       PROVE  /\ info'[j].index = info[j].index /\ info'[j].size = info[j].size
              /\ info'[j].next = IF j = p THEN a ELSE IF j = c THEN p
                                 ELSE IF j = q THEN c ELSE info[j].next
              /\ info'[j].pre = IF j = p THEN c ELSE IF j = c THEN q
                                ELSE IF j = a THEN p ELSE info[j].pre
              /\ j \notin Live => info'[j] = info[j]
  <2>1. info[j] \in Info /\ info[p] \in Info /\ info[c] \in Info /\ j # -1
    BY <1>2, <1>6
  <2>2. CASE j = p
    <3>1. info'[j] = [[info[p] EXCEPT !.next = a] EXCEPT !.pre = c]
      BY <1>6, <1>9, <1>10, <1>11, <2>2
    <3>. QED  BY <1>6, <1>8, <2>1, <2>2, <3>1
  <2>3. CASE j = c
    <3>1. info'[j] = [[info[c] EXCEPT !.next = p] EXCEPT !.pre = q]
      BY <1>6, <1>9, <1>10, <1>11, <2>3
    <3>. QED  BY <1>6, <1>8, <2>1, <2>3, <3>1
  <2>4. CASE j # p /\ j # c /\ j = a
    <3>1. info'[j] = [info[j] EXCEPT !.pre = p] /\ j # q
      BY <1>6, <1>9, <1>10, <1>11, <2>1, <2>4
    <3>. QED  BY <1>6, <1>8, <2>1, <2>4, <3>1
  <2>5. CASE j # p /\ j # c /\ j # a /\ j = q
    <3>1. info'[j] = [info[j] EXCEPT !.next = c]
      BY <1>6, <1>9, <1>10, <1>11, <2>1, <2>5
    <3>. QED  BY <1>6, <1>8, <2>1, <2>5, <3>1
  <2>6. CASE j # p /\ j # c /\ j # a /\ j # q
    <3>1. info'[j] = info[j]
      BY <1>9, <1>10, <1>11, <2>6
    <3>. QED  BY <2>6, <3>1
  <2>. QED  BY <2>2, <2>3, <2>4, <2>5, <2>6
<1>13. tail' = (IF c = tail THEN p ELSE tail) /\ head' = (IF p = head THEN c ELSE head)
  BY <1>1, <1>6
<1>. QED  BY <1>1, <1>2, <1>3, <1>4, <1>5, <1>11, <1>12, <1>13 DEF c, p, a, q

LEMMA MoveUpSpace == ASSUME SpaceInv, MoveUp  PROVE SpaceInv'
<1>. DEFINE c == current
            p == info[c].pre
            a == info[c].next
            q == info[p].pre
            K == SortKey
            M == SortKey'
            x == PlaceIn(info)
<1>1. /\ add.pc = "sort" /\ c \in Live /\ p \in Live /\ p # c /\ info[p].next = c
      /\ info[p].index > info[c].index
      /\ IF c = tail THEN a = -1 ELSE a \in Live /\ a # c /\ a # p /\ info[a].pre = c
      /\ IF p = head THEN q = -1
                     ELSE q \in Live /\ q # c /\ q # p /\ q # a /\ info[q].next = p
      /\ tail' = (IF c = tail THEN p ELSE tail)
      /\ head' = (IF p = head THEN c ELSE head)
  BY SwapFacts
<1>2. /\ info' \in [Infos -> Info]
      /\ \A j \in Infos : /\ info'[j].index = info[j].index /\ info'[j].size = info[j].size
                          /\ info'[j].next = IF j = p THEN a ELSE IF j = c THEN p
                                             ELSE IF j = q THEN c ELSE info[j].next
                          /\ info'[j].pre = IF j = p THEN c ELSE IF j = c THEN q
                                            ELSE IF j = a THEN p ELSE info[j].pre
                          /\ j \notin Live => info'[j] = info[j]
  BY SwapFacts
<1>3. /\ info \in [Infos -> Info] /\ Live = LiveIn(info) /\ Live \subseteq Infos /\ -1 \notin Infos
      /\ InList(info, head, tail, K) /\ UNCHANGED <<data, current, count, add, stored>>
  BY <1>1, SortFacts, ConstantFacts DEF MoveUp
<1>4. Live' = Live /\ LiveIn(info') = Live
  BY <1>2, <1>3 DEF Live, LiveIn
<1>5. \A j \in Live : x[j] = info[j].index /\ x[j] \in Nat /\ K[j] \in Int
  BY <1>1, <1>3, SortFacts DEF PlaceIn
<1>6. /\ \A j \in Live : j # c => K[j] = 2 * x[j] /\ M[j] = 2 * x[j]
      /\ K[c] = 2 * x[p] + 1
      /\ M[c] = IF q = -1 THEN -1 ELSE 2 * x[q] + 1
  <2>1. K = [i \in Infos |-> IF i # c THEN 2 * info[i].index
                             ELSE IF info[i].pre = -1 THEN -1
                             ELSE 2 * info[info[i].pre].index + 1]
    BY DEF SortKey
  <2>2. M = [i \in Infos |-> IF i # c THEN 2 * info'[i].index
                             ELSE IF info'[i].pre = -1 THEN -1
                             ELSE 2 * info'[info'[i].pre].index + 1]
    BY <1>3 DEF SortKey
  <2>. HIDE DEF c, p, a, q, K, M, x
  <2>3. \A j \in Live : j # c => K[j] = 2 * x[j] /\ M[j] = 2 * x[j]
    BY <1>2, <1>3, <1>5, <2>1, <2>2
  <2>4. c \in Infos /\ p \in Infos /\ info'[c].pre = q /\ info[c].pre = p /\ p # -1
    BY <1>1, <1>2, <1>3 DEF p
  <2>5. K[c] = 2 * x[p] + 1
    BY <1>1, <1>3, <1>5, <2>1, <2>4
  <2>6. q # -1 => q \in Live
    BY <1>1
  <2>7. M[c] = IF q = -1 THEN -1 ELSE 2 * x[q] + 1
    BY <1>2, <1>3, <1>5, <2>2, <2>4, <2>6
  <2>. QED  BY <2>3, <2>5, <2>7
<1>7. \A j \in Live : SortKey[c] < SortKey[j] => info[c].index < info[j].index
  BY <1>1, SortFacts
<1>8. /\ \A i \in Live : i # tail =>
            /\ info[i].next \in Live /\ info[info[i].next].pre = i
            /\ K[i] < K[info[i].next]
            /\ \A j \in Live : K[j] <= K[i] \/ K[info[i].next] <= K[j]
      /\ \A i \in Live : i # head => info[i].pre \in Live /\ info[info[i].pre].next = i
      /\ head \in Live /\ tail \in Live /\ info[head].pre = -1 /\ info[tail].next = -1
      /\ \A j \in Live : K[head] <= K[j] /\ K[j] <= K[tail]
      /\ \A i, j \in Live : i # j => K[i] # K[j]
  BY <1>1, <1>3 DEF InList, NextInList, PreInList, EndsOfList, Distinct
<1>9. p # tail /\ c # head /\ q # tail
  BY <1>1, <1>3, <1>8
<1>. HIDE DEF K, M, x
<1>10. (q # -1 => q \in Live /\ q # tail /\ info[q].next = p /\ K[q] < K[p]) /\ (q = -1 => p = head)
  BY <1>1, <1>3, <1>8, <1>9
<1>11. (a # -1 => a \in Live /\ K[c] < K[a]) /\ (a = -1 <=> c = tail)
  BY <1>1, <1>3, <1>8
<1>. HIDE DEF c, p, a, q
<1>12. \A j \in Live : j # c /\ j # p => K[c] < K[j] \/ (q # -1 /\ K[j] <= K[q])
  <2>. SUFFICES ASSUME NEW j \in Live, j # c, j # p
                PROVE  K[c] < K[j] \/ (q # -1 /\ K[j] <= K[q])
    OBVIOUS
  <2>1. K[j] <= K[p] \/ K[c] <= K[j]
    BY <1>1, <1>8, <1>9
  <2>2. K[j] # K[p] /\ K[j] # K[c] /\ K[p] < K[c]
    BY <1>1, <1>8, <1>9
  <2>3. q = -1 => K[p] <= K[j]
    BY <1>8, <1>10
  <2>4. q # -1 => K[j] <= K[q] \/ K[p] <= K[j]
    BY <1>8, <1>10
  <2>. QED  BY <1>1, <1>5, <1>10, <2>1, <2>2, <2>3, <2>4
<1>13. /\ \A j \in Live : j # c => M[j] = K[j] /\ M[j] \in Int
       /\ M[c] \in Int /\ M[c] < M[p] /\ K[p] < K[c] /\ M[p] = K[p]
       /\ q # -1 => K[q] < M[c]
  <2>1. \A j \in Live : j # c => M[j] = K[j] /\ M[j] \in Int
    BY <1>5, <1>6
  <2>2. CASE q = -1
    BY <1>1, <1>5, <1>6, <2>1, <2>2
  <2>3. CASE q # -1
    <3>1. x[q] \in Nat /\ x[p] \in Nat /\ K[q] = 2 * x[q] /\ K[p] = 2 * x[p] /\ q # c
      BY <1>1, <1>3, <1>5, <1>6, <1>8, <1>10, <2>3
    <3>. QED  BY <1>1, <1>6, <1>10, <2>1, <2>3, <3>1
  <2>. QED  BY <2>2, <2>3
<1>14. NextInList(info, tail, SortKey)'
  <2>. SUFFICES ASSUME NEW i \in Live, i # tail'
                PROVE  /\ info'[i].next \in Live /\ info'[info'[i].next].pre = i
                       /\ M[i] < M[info'[i].next]
                       /\ \A j \in Live : M[j] <= M[i] \/ M[info'[i].next] <= M[j]
    BY <1>4 DEF NextInList, M
  <2>1. CASE i = c
    <3>1. info'[i].next = p /\ info'[p].pre = c
      BY <1>1, <1>2, <1>3, <2>1
    <3>2. \A j \in Live : M[j] <= M[c] \/ M[p] <= M[j]
      BY <1>1, <1>5, <1>12, <1>13, <1>10
    <3>. QED  BY <1>1, <1>13, <2>1, <3>1, <3>2
  <2>2. CASE i = p
    <3>1. a \in Live /\ a # c /\ a # p /\ c # tail /\ a # -1
      BY <1>1, <1>3, <2>2
    <3>2. info'[i].next = a /\ info'[a].pre = p
      BY <1>1, <1>2, <1>3, <2>2, <3>1
    <3>3. K[c] < K[a] /\ \A j \in Live : K[j] <= K[c] \/ K[a] <= K[j]
      BY <1>1, <1>8, <1>11, <3>1 DEF a
    <3>4. \A j \in Live : M[j] <= M[p] \/ M[a] <= M[j]
      BY <1>1, <1>5, <1>10, <1>12, <1>13, <3>1, <3>3
    <3>5. M[p] < M[a]
      BY <1>1, <1>5, <1>13, <3>1, <3>3
    <3>. QED  BY <2>2, <3>1, <3>2, <3>4, <3>5
  <2>3. CASE i # c /\ i # p /\ i = q
    <3>1. q # -1
      BY <1>3, <2>3
    <3>2. info'[i].next = c /\ info'[c].pre = q
      BY <1>1, <1>2, <1>3, <2>3
    <3>3. M[q] < M[c] /\ M[q] = K[q]
      BY <1>13, <2>3, <3>1
    <3>4. \A j \in Live : M[j] <= M[q] \/ M[c] <= M[j]
      BY <1>1, <1>5, <1>12, <1>13, <3>1, <3>3
    <3>. QED  BY <1>1, <2>3, <3>2, <3>3, <3>4
  <2>4. CASE i # c /\ i # p /\ i # q
    <3>. DEFINE n == info[i].next
    <3>1. i # tail
      BY <1>1, <2>4
    <3>2. n \in Live /\ info[n].pre = i /\ K[i] < K[n] /\ \A j \in Live : K[j] <= K[i] \/ K[n] <= K[j]
      BY <1>8, <3>1
    <3>3. n # c /\ n # p
      BY <2>4, <3>2 DEF p, q
    <3>4. n # a
      BY <1>1, <1>3, <2>4, <3>2
    <3>5. info'[i].next = n /\ info'[n].pre = i
      BY <1>2, <1>3, <2>4, <3>2, <3>3, <3>4
    <3>. HIDE DEF n
    <3>6. M[c] <= M[i] \/ M[n] <= M[c]
      <4>1. K[p] <= K[i] \/ K[n] <= K[p]
        BY <1>1, <3>2
      <4>2. K[n] # K[p]
        BY <1>1, <1>8, <3>2, <3>3
      <4>3. K[c] < K[n] \/ (q # -1 /\ K[n] <= K[q])
        BY <1>12, <3>2, <3>3
      <4>. QED  BY <1>1, <1>5, <1>10, <1>13, <2>4, <3>2, <3>3, <4>1, <4>2, <4>3
    <3>. QED  BY <1>13, <2>4, <3>2, <3>3, <3>5, <3>6
  <2>. QED  BY <2>1, <2>2, <2>3, <2>4
<1>15. PreInList(info, head)'
  <2>. SUFFICES ASSUME NEW i \in Live, i # head'
                PROVE  info'[i].pre \in Live /\ info'[info'[i].pre].next = i
    BY <1>4 DEF PreInList
  <2>1. CASE i = p
    BY <1>1, <1>2, <1>3, <2>1
  <2>2. CASE i = c
    BY <1>1, <1>2, <1>3, <2>2
  <2>3. CASE i # p /\ i # c /\ i = a
    BY <1>1, <1>2, <1>3, <2>3
  <2>4. CASE i # p /\ i # c /\ i # a
    <3>. DEFINE r == info[i].pre
    <3>1. i # head
      BY <1>1, <2>4
    <3>2. r \in Live /\ info[r].next = i
      BY <1>8, <3>1
    <3>3. r # p /\ r # c /\ r # q
      BY <1>1, <1>3, <1>10, <2>4, <3>2 DEF a
    <3>. HIDE DEF r
    <3>4. info'[i].pre = r
      BY <1>2, <1>3, <2>4 DEF r
    <3>. QED  BY <1>2, <1>3, <3>2, <3>3, <3>4
  <2>. QED  BY <2>1, <2>2, <2>3, <2>4
<1>16. EndsOfList(info, head, tail, SortKey)'
  <2>1. head' \in Live /\ info'[head'].pre = -1 /\ \A j \in Live : M[head'] <= M[j]
    <3>1. CASE p = head
      <4>1. q = -1 /\ head' = c /\ M[c] = -1
        BY <1>1, <1>6, <3>1
      <4>2. info'[c].pre = -1
        BY <1>1, <1>2, <1>3, <4>1
      <4>. QED  BY <1>1, <1>5, <1>6, <4>1, <4>2
    <3>2. CASE p # head
      <4>1. head' = head /\ q # -1 /\ head # c /\ head # p /\ head # a
        BY <1>1, <1>3, <1>8, <1>9, <3>2
      <4>2. info'[head].pre = -1
        BY <1>2, <1>3, <1>8, <4>1
      <4>3. K[head] <= K[q] /\ q \in Live
        BY <1>8, <1>10, <4>1
      <4>. QED  BY <1>5, <1>8, <1>13, <4>1, <4>2, <4>3
    <3>. QED  BY <3>1, <3>2
  <2>2. tail' \in Live /\ info'[tail'].next = -1 /\ \A j \in Live : M[j] <= M[tail']
    <3>1. CASE c = tail
      <4>1. tail' = p /\ a = -1 /\ info'[p].next = -1
        BY <1>1, <1>2, <1>3, <3>1
      <4>2. ASSUME NEW j \in Live  PROVE M[j] <= M[p]
        <5>1. K[j] <= K[c]
          BY <1>8, <3>1
        <5>. QED  BY <1>1, <1>5, <1>10, <1>12, <1>13, <5>1
      <4>. QED  BY <1>1, <4>1, <4>2
    <3>2. CASE c # tail
      <4>1. tail' = tail /\ tail # c /\ tail # p /\ tail # q
        BY <1>1, <1>9, <3>2
      <4>2. info'[tail].next = -1
        BY <1>2, <1>3, <1>8, <4>1
      <4>. QED  BY <1>1, <1>5, <1>8, <1>13, <4>1, <4>2
    <3>. QED  BY <3>1, <3>2
  <2>. QED  BY <1>4, <2>1, <2>2 DEF EndsOfList, M
<1>17. \A j \in Live : j # c => M[j] # M[c]
  BY <1>1, <1>5, <1>10, <1>12, <1>13
<1>18. Distinct(info, SortKey)'
  BY <1>4, <1>8, <1>13, <1>17 DEF Distinct, M
<1>19. \A i \in Live : M[c] < M[i] => info[c].index < info[i].index
  <2>. SUFFICES ASSUME NEW i \in Live, M[c] < M[i]  PROVE info[c].index < info[i].index
    OBVIOUS
  <2>1. CASE i = p
    BY <1>1, <1>5, <2>1
  <2>2. CASE i # p
    <3>1. i # c
      BY <1>13
    <3>2. K[c] < K[i]
      BY <1>5, <1>10, <1>12, <1>13, <2>2, <3>1
    <3>. QED  BY <1>7, <3>2 DEF K
  <2>. QED  BY <2>1, <2>2
<1>20. SortOK'
  <2>1. InList(info, head, tail, SortKey)'
    BY <1>14, <1>15, <1>16, <1>18 DEF InList
  <2>2. \A i \in Live' : SortKey'[current'] < SortKey'[i] => info'[current'].index < info'[i].index
    BY <1>1, <1>2, <1>3, <1>4, <1>19 DEF c, M
  <2>. QED  BY <1>1, <1>3, <1>4, <2>1, <2>2 DEF SortOK, c
<1>21. Typed'
  <2>1. head' \in Int /\ tail' \in Int
    BY <1>1, <1>3, ConstantFacts DEF SpaceInv, Typed
  <2>. QED  BY <1>2, <1>3, <1>4, <2>1 DEF SpaceInv, Typed
<1>22. Counted' /\ FreeZero'
  BY <1>2, <1>3, <1>4 DEF SpaceInv, Counted, FreeZero
<1>23. Fits(info)' /\ Kept(info, data, stored)'
  <2>1. \A j \in Live : EndOf(info'[j]) = EndOf(info[j]) /\ info'[j].index = info[j].index
    BY <1>2, <1>3 DEF EndOf
  <2>2. Fits(info')
    BY <1>3, <1>4, <2>1 DEF SpaceInv, Fits
  <2>3. Kept(info', data, stored)
    BY <1>3, <1>4, <2>1 DEF SpaceInv, Kept
  <2>. QED  BY <1>3, <2>2, <2>3
<1>24. add'.pc = "sort"
  BY <1>1, <1>3
<1>. QED  BY <1>20, <1>21, <1>22, <1>23, <1>24 DEF SpaceInv, CurrentOK, SearchOK, GapOK, ListOK
-----------------------------------------------------------------------------
(* RemoveIndex: the two neighbours of i are linked to one another.          *)
LEMMA UnlinkedFacts ==
    ASSUME SpaceInv, NEW i \in Infos, RemoveData(i)
    PROVE  LET p == info[i].pre
               n == info[i].next
           IN  /\ i \in Live /\ InList(info, head, tail, PlaceIn(info))
               /\ IF i = head THEN p = -1 ELSE p \in Live /\ p # i /\ info[p].next = i
               /\ IF i = tail THEN n = -1 ELSE n \in Live /\ n # i /\ info[n].pre = i
               /\ p # -1 => p # n
               /\ info' \in [Infos -> Info] /\ info'[i] = FreeInfo
               /\ \A j \in Infos : j # i =>
                     /\ info'[j].index = info[j].index /\ info'[j].size = info[j].size
                     /\ info'[j].next = IF j = p THEN n ELSE info[j].next
                     /\ info'[j].pre = IF j = n THEN p ELSE info[j].pre
                     /\ j # p /\ j # n => info'[j] = info[j]
<1>. DEFINE p == info[i].pre
            n == info[i].next
            K == PlaceIn(info)
            before == IF p = -1 THEN info ELSE [info EXCEPT ![p].next = n]
            behind == IF n = -1 THEN before ELSE [before EXCEPT ![n].pre = p]
<1>1. /\ add.pc = "idle" /\ i \in Live /\ info \in [Infos -> Info] /\ Live = LiveIn(info)
      /\ Live \subseteq Infos /\ -1 \notin Infos /\ FreeInfo \in Info
  <2>1. FreeInfo \in Info
    BY ConstantFacts DEF FreeInfo, Info
  <2>. QED  BY <2>1, LiveFacts, ConstantFacts DEF SpaceInv, Typed, RemoveData, Live
<1>2. InList(info, head, tail, K)
  BY <1>1 DEF SpaceInv, ListOK
<1>3. info' = [behind EXCEPT ![i] = FreeInfo]
  BY DEF RemoveData, Unlinked
<1>4. \A j \in Live : K[j] \in Nat
  BY <1>1, InfoFacts DEF PlaceIn
<1>. HIDE DEF K, before, behind, p, n
<1>5. IF i = tail THEN n = -1
      ELSE n \in Live /\ info[n].pre = i /\ K[i] < K[n]
  BY <1>1, <1>2 DEF InList, NextInList, EndsOfList, n
<1>6. IF i = head THEN p = -1
      ELSE p \in Live /\ info[p].next = i
  BY <1>1, <1>2 DEF InList, PreInList, EndsOfList, p
<1>7. p # -1 => K[p] < K[i]
  <2>. SUFFICES ASSUME p # -1  PROVE K[p] < K[i]
    OBVIOUS
  <2>1. p \in Live /\ info[p].next = i
    BY <1>6
  <2>2. p # tail
    <3>1. info[tail].next = -1 /\ i # -1
      BY <1>1, <1>2 DEF InList, EndsOfList
    <3>. QED  BY <2>1, <3>1
  <2>3. K[p] < K[info[p].next]
    BY <1>1, <1>2, <2>1, <2>2 DEF InList, NextInList
  <2>. QED  BY <2>1, <2>3
<1>8. n # i /\ p # i /\ (p # -1 => p # n)
  BY <1>1, <1>4, <1>5, <1>6, <1>7
<1>9. \A e \in Info, v \in Infos \cup {-1} :
          /\ [e EXCEPT !.next = v] \in Info /\ [e EXCEPT !.pre = v] \in Info
          /\ [e EXCEPT !.next = v].next = v /\ [e EXCEPT !.next = v].pre = e.pre
          /\ [e EXCEPT !.next = v].index = e.index /\ [e EXCEPT !.next = v].size = e.size
          /\ [e EXCEPT !.pre = v].pre = v /\ [e EXCEPT !.pre = v].next = e.next
          /\ [e EXCEPT !.pre = v].index = e.index /\ [e EXCEPT !.pre = v].size = e.size
  BY DEF Info
<1>10. p \in Infos \cup {-1} /\ n \in Infos \cup {-1}
  BY <1>1, <1>5, <1>6
<1>11. /\ before \in [Infos -> Info]
       /\ \A j \in Infos : before[j] = IF j = p THEN [info[j] EXCEPT !.next = n] ELSE info[j]
  <2>1. CASE p = -1
    BY <1>1, <2>1 DEF before
  <2>2. CASE p # -1
    <3>1. before = [info EXCEPT ![p].next = n] /\ p \in Infos
      BY <1>10, <2>2 DEF before
    <3>. QED  BY <1>1, <1>9, <1>10, <3>1
  <2>. QED  BY <2>1, <2>2
<1>12. /\ behind \in [Infos -> Info]
       /\ \A j \in Infos : behind[j] = IF j = n THEN [before[j] EXCEPT !.pre = p] ELSE before[j]
  <2>1. CASE n = -1
    BY <1>1, <1>11, <2>1 DEF behind
  <2>2. CASE n # -1
    <3>1. behind = [before EXCEPT ![n].pre = p] /\ n \in Infos
      BY <1>10, <2>2 DEF behind
    <3>. QED  BY <1>9, <1>10, <1>11, <3>1
  <2>. QED  BY <2>1, <2>2
<1>13. info' \in [Infos -> Info] /\ info'[i] = FreeInfo /\ \A j \in Infos : j # i => info'[j] = behind[j]
  BY <1>1, <1>3, <1>12
<1>14. ASSUME NEW j \in Infos, j # i
       PROVE  /\ info'[j].index = info[j].index /\ info'[j].size = info[j].size
              /\ info'[j].next = IF j = p THEN n ELSE info[j].next
              /\ info'[j].pre = IF j = n THEN p ELSE info[j].pre
              /\ j # p /\ j # n => info'[j] = info[j]
  <2>1. info[j] \in Info
    BY <1>1
  <2>2. CASE j = p
    <3>1. j # n /\ info'[j] = [info[j] EXCEPT !.next = n]
      BY <1>1, <1>8, <1>11, <1>12, <1>13, <1>14, <2>2
    <3>. QED  BY <1>9, <1>10, <2>1, <2>2, <3>1
  <2>3. CASE j # p /\ j = n
    <3>1. info'[j] = [info[j] EXCEPT !.pre = p]
      BY <1>11, <1>12, <1>13, <1>14, <2>3
    <3>. QED  BY <1>9, <1>10, <2>1, <2>3, <3>1
  <2>4. CASE j # p /\ j # n
    BY <1>11, <1>12, <1>13, <1>14, <2>4
  <2>. QED  BY <2>2, <2>3, <2>4
<1>. QED  BY <1>1, <1>2, <1>5, <1>6, <1>8, <1>13, <1>14 DEF K, p, n

LEMMA RemoveSpace == ASSUME SpaceInv, NEW i \in Infos, RemoveData(i)  PROVE SpaceInv'
<1>. DEFINE p == info[i].pre
            n == info[i].next
            K == PlaceIn(info)
            M == PlaceIn(info')
<1>1. /\ i \in Live /\ InList(info, head, tail, K)
      /\ IF i = head THEN p = -1 ELSE p \in Live /\ p # i /\ info[p].next = i
      /\ IF i = tail THEN n = -1 ELSE n \in Live /\ n # i /\ info[n].pre = i
      /\ p # -1 => p # n
  BY UnlinkedFacts
<1>2. /\ info' \in [Infos -> Info] /\ info'[i] = FreeInfo
      /\ \A j \in Infos : j # i =>
            /\ info'[j].index = info[j].index /\ info'[j].size = info[j].size
            /\ info'[j].next = IF j = p THEN n ELSE info[j].next
            /\ info'[j].pre = IF j = n THEN p ELSE info[j].pre
            /\ j # p /\ j # n => info'[j] = info[j]
  BY UnlinkedFacts
<1>3. /\ add.pc = "idle" /\ current' = Successor(i) /\ count' = count - 1
      /\ head' = (IF p = -1 THEN n ELSE head) /\ tail' = (IF n = -1 THEN p ELSE tail)
      /\ stored' = Restrict(stored, DOMAIN stored \ {i})
      /\ data' = data /\ add' = add
  BY DEF RemoveData
<1>4. /\ info \in [Infos -> Info] /\ Live = LiveIn(info) /\ Live \subseteq Infos /\ -1 \notin Infos
      /\ IsFiniteSet(Live) /\ stored \in [Live -> Values] /\ current \in -1 .. MaxInfo
      /\ MaxInfo \notin Infos /\ MaxInfo \in Nat /\ Infos \subseteq 0 .. MaxInfo - 1
  BY LiveFacts, ConstantFacts DEF SpaceInv, Typed
<1>. HIDE DEF p, n, K, M
<1>5. Live' = Live \ {i} /\ LiveIn(info') = Live \ {i}
  <2>1. info'[i].size = 0
    BY <1>2 DEF FreeInfo
  <2>2. \A j \in Infos : j # i => info'[j].size = info[j].size
    BY <1>2
  <2>3. Live' = Live \ {i}
    BY <2>1, <2>2 DEF Live
  <2>4. LiveIn(info') = LiveIn(info) \ {i}
    BY <2>1, <2>2 DEF LiveIn
  <2>. QED  BY <1>4, <2>3, <2>4
<1>6. /\ \A j \in Live : K[j] = info[j].index /\ K[j] \in Nat
      /\ \A j \in Live \ {i} : M[j] = K[j]
  BY <1>2, <1>4, InfoFacts DEF PlaceIn, K, M
<1>7. /\ \A j \in Live : j # tail =>
            /\ info[j].next \in Live /\ info[info[j].next].pre = j
            /\ K[j] < K[info[j].next]
            /\ \A k \in Live : K[k] <= K[j] \/ K[info[j].next] <= K[k]
      /\ \A j \in Live : j # head => info[j].pre \in Live /\ info[info[j].pre].next = j
      /\ head \in Live /\ tail \in Live /\ info[head].pre = -1 /\ info[tail].next = -1
      /\ \A j \in Live : K[head] <= K[j] /\ K[j] <= K[tail]
      /\ \A j, k \in Live : j # k => K[j] # K[k]
  BY <1>1, <1>4 DEF InList, NextInList, PreInList, EndsOfList, Distinct
<1>8. (p = -1 <=> i = head) /\ (n = -1 <=> i = tail)
  BY <1>1, <1>4
<1>9. Live \ {i} # {} => p # -1 \/ n # -1
  <2>. SUFFICES ASSUME NEW j \in Live, j # i, i = head, i = tail  PROVE FALSE
    BY <1>8
  <2>. QED  BY <1>1, <1>6, <1>7
<1>10. NextInList(info', tail', M)
  <2>. SUFFICES ASSUME NEW j \in Live, j # i, j # tail'
                PROVE  /\ info'[j].next \in Live \ {i} /\ info'[info'[j].next].pre = j
                       /\ M[j] < M[info'[j].next]
                       /\ \A k \in Live \ {i} : M[k] <= M[j] \/ M[info'[j].next] <= M[k]
    BY <1>5 DEF NextInList
  <2>1. CASE j = p
    <3>1. n # -1 /\ n \in Live /\ n # i /\ i # tail /\ i # head /\ j # n
      BY <1>1, <1>3, <1>4, <1>8, <2>1
    <3>2. info'[j].next = n /\ info'[n].pre = j
      BY <1>2, <1>4, <2>1, <3>1
    <3>3. j # tail /\ info[j].next = i /\ info[i].next = n
      <4>1. info[p].next = i /\ i # -1
        BY <1>1, <1>4, <3>1
      <4>2. info[tail].next = -1
        BY <1>7
      <4>. QED  BY <2>1, <4>1, <4>2 DEF n
    <3>4. /\ K[j] < K[i] /\ K[i] < K[n]
          /\ \A k \in Live : K[k] <= K[j] \/ K[i] <= K[k]
          /\ \A k \in Live : K[k] <= K[i] \/ K[n] <= K[k]
      BY <1>1, <1>7, <3>1, <3>3
    <3>5. \A k \in Live : k # i => K[k] <= K[j] \/ K[n] <= K[k]
      BY <1>1, <1>6, <1>7, <3>4
    <3>6. K[j] < K[n]
      BY <1>1, <1>6, <3>1, <3>4
    <3>. QED  BY <1>6, <3>1, <3>2, <3>5, <3>6
  <2>2. CASE j # p
    <3>. DEFINE k == info[j].next
    <3>1. j # tail
      BY <1>1, <1>3, <1>8, <2>2
    <3>2. /\ k \in Live /\ info[k].pre = j /\ K[j] < K[k]
          /\ \A l \in Live : K[l] <= K[j] \/ K[k] <= K[l]
      BY <1>7, <3>1
    <3>3. k # i
      BY <2>2, <3>2 DEF p
    <3>4. k # n
      BY <1>1, <1>4, <3>2
    <3>. HIDE DEF k
    <3>5. info'[j].next = k /\ info'[k].pre = j
      BY <1>2, <1>4, <2>2, <3>2, <3>3, <3>4 DEF k
    <3>. QED  BY <1>6, <3>2, <3>3, <3>5
  <2>. QED  BY <2>1, <2>2
<1>11. PreInList(info', head')
  <2>. SUFFICES ASSUME NEW j \in Live, j # i, j # head'
                PROVE  info'[j].pre \in Live \ {i} /\ info'[info'[j].pre].next = j
    BY <1>5 DEF PreInList
  <2>1. CASE j = n
    <3>1. p # -1 /\ p \in Live /\ p # i
      BY <1>1, <1>3, <1>4, <1>8, <2>1
    <3>. QED  BY <1>2, <1>4, <2>1, <3>1
  <2>2. CASE j # n
    <3>. DEFINE k == info[j].pre
    <3>1. j # head
      BY <1>1, <1>3, <1>8, <2>2
    <3>2. k \in Live /\ info[k].next = j
      BY <1>7, <3>1
    <3>3. k # i
      BY <2>2, <3>2 DEF n
    <3>4. k # p
      BY <1>1, <1>4, <3>2
    <3>. HIDE DEF k
    <3>5. info'[j].pre = k /\ info'[k].next = j
      BY <1>2, <1>4, <2>2, <3>2, <3>3, <3>4 DEF k
    <3>. QED  BY <3>2, <3>3, <3>5
  <2>. QED  BY <2>1, <2>2
<1>12. EndsOfList(info', head', tail', M)
  <2>. SUFFICES ASSUME Live \ {i} # {}
                PROVE  /\ head' \in Live \ {i} /\ info'[head'].pre = -1
                       /\ tail' \in Live \ {i} /\ info'[tail'].next = -1
                       /\ \A j \in Live \ {i} : M[head'] <= M[j] /\ M[j] <= M[tail']
    BY <1>5 DEF EndsOfList
  <2>1. head' \in Live \ {i} /\ info'[head'].pre = -1 /\ \A j \in Live \ {i} : K[head'] <= K[j]
    <3>1. CASE i = head
      <4>1. n \in Live /\ n # i /\ p = -1 /\ head' = n /\ i # tail
        BY <1>1, <1>3, <1>4, <1>8, <1>9, <3>1
      <4>2. info'[n].pre = -1
        BY <1>2, <1>4, <4>1
      <4>3. \A j \in Live : K[j] <= K[i] \/ K[n] <= K[j]
        BY <1>1, <1>7, <4>1 DEF n
      <4>4. \A j \in Live \ {i} : K[i] <= K[j] /\ K[j] # K[i]
        BY <1>1, <1>7, <3>1
      <4>5. \A j \in Live \ {i} : K[n] <= K[j]
        BY <1>1, <1>6, <4>3, <4>4
      <4>. QED  BY <4>1, <4>2, <4>5
    <3>2. CASE i # head
      <4>1. head' = head /\ head # n
        BY <1>1, <1>3, <1>4, <1>7, <1>8, <3>2
      <4>2. info'[head].pre = -1
        BY <1>2, <1>4, <1>7, <3>2, <4>1
      <4>. QED  BY <1>7, <3>2, <4>1, <4>2
    <3>. QED  BY <3>1, <3>2
  <2>2. tail' \in Live \ {i} /\ info'[tail'].next = -1 /\ \A j \in Live \ {i} : K[j] <= K[tail']
    <3>1. CASE i = tail
      <4>1. p \in Live /\ p # i /\ n = -1 /\ tail' = p /\ i # head /\ info[p].next = i
        BY <1>1, <1>3, <1>4, <1>8, <1>9, <3>1
      <4>2. info'[p].next = -1
        BY <1>2, <1>4, <4>1
      <4>3. \A j \in Live : K[j] <= K[p] \/ K[i] <= K[j]
        BY <1>7, <3>1, <4>1
      <4>4. \A j \in Live \ {i} : K[j] <= K[i] /\ K[j] # K[i]
        BY <1>1, <1>7, <3>1
      <4>5. \A j \in Live \ {i} : K[j] <= K[p]
        BY <1>1, <1>6, <4>3, <4>4
      <4>. QED  BY <4>1, <4>2, <4>5
    <3>2. CASE i # tail
      <4>1. tail' = tail /\ tail # p
        BY <1>1, <1>3, <1>4, <1>7, <1>8, <3>2
      <4>2. info'[tail].next = -1
        BY <1>2, <1>4, <1>7, <3>2, <4>1
      <4>. QED  BY <1>7, <3>2, <4>1, <4>2
    <3>. QED  BY <3>1, <3>2
  <2>. QED  BY <1>6, <2>1, <2>2
<1>13. Distinct(info', M)
  BY <1>5, <1>6, <1>7 DEF Distinct
<1>14. ListOK'
  <2>1. InList(info', head', tail', M)
    BY <1>10, <1>11, <1>12, <1>13 DEF InList
  <2>. QED  BY <2>1 DEF ListOK, M
<1>15. \A j \in Live \ {i} : EndOf(info'[j]) = EndOf(info[j]) /\ info'[j].index = info[j].index
  BY <1>2, <1>4 DEF EndOf
<1>16. Fits(info)' /\ Kept(info, data, stored)'
  <2>1. Fits(info')
    BY <1>4, <1>5, <1>15 DEF SpaceInv, Fits
  <2>2. \A j \in Live \ {i} : stored'[j] = stored[j]
    BY <1>3, <1>4 DEF Restrict
  <2>3. Kept(info', data, stored')
    BY <1>4, <1>5, <1>15, <2>2 DEF SpaceInv, Kept
  <2>. QED  BY <1>3, <2>1, <2>3
<1>17. stored' \in [Live' -> Values]
  BY <1>3, <1>4, <1>5 DEF Restrict
<1>18. current' \in -1 .. MaxInfo /\ (Live' # {} => current' = MaxInfo \/ AtUsed(current)')
  <2>1. CASE current # i
    <3>1. current' = current
      BY <1>3, <2>1 DEF Successor
    <3>2. current = MaxInfo \/ AtUsed(current)
      BY <1>1, <1>3 DEF SpaceInv, CurrentOK
    <3>3. AtUsed(current)' <=> current \in Live' \/ (current = 0 /\ 0 \notin Live')
      BY <3>1 DEF AtUsed
    <3>4. AtUsed(current) => current \in Live' \/ (current = 0 /\ 0 \notin Live')
      BY <1>5, <2>1 DEF AtUsed
    <3>. QED  BY <1>4, <3>1, <3>2, <3>3, <3>4
  <2>2. CASE current = i
    <3>1. current' = IF p = -1 THEN n ELSE p
      BY <1>3, <2>2 DEF Successor, p, n
    <3>2. p \in Infos \cup {-1} /\ n \in Infos \cup {-1}
      BY <1>1, <1>4
    <3>3. current' \in -1 .. MaxInfo
      BY <1>4, <3>1, <3>2
    <3>4. Live \ {i} # {} => current' \in Live \ {i}
      BY <1>1, <1>8, <1>9, <3>1
    <3>5. current' \in Live' => AtUsed(current)'
      BY DEF AtUsed
    <3>. QED  BY <1>5, <3>3, <3>4, <3>5
  <2>. QED  BY <2>1, <2>2
<1>19. Typed'
  <2>1. head \in Int /\ tail \in Int /\ data \in [Bytes -> Values \cup {0}] /\ add \in Add
    BY DEF SpaceInv, Typed
  <2>2. p \in Int /\ n \in Int
    <3>1. p \in Infos \cup {-1} /\ n \in Infos \cup {-1}
      BY <1>1, <1>4
    <3>. QED  BY <3>1 DEF Infos
  <2>3. head' \in Int /\ tail' \in Int
    BY <1>3, <2>1, <2>2
  <2>. QED  BY <1>2, <1>3, <1>17, <1>18, <2>1, <2>3 DEF Typed
<1>20. Counted' /\ FreeZero'
  <2>1. Cardinality(Live \ {i}) = Cardinality(Live) - 1
    BY <1>1, <1>4, FS_RemoveElement
  <2>2. Counted'
    BY <1>3, <1>5, <2>1 DEF SpaceInv, Counted
  <2>3. p # -1 => p \in Live
    BY <1>1
  <2>4. n # -1 => n \in Live
    BY <1>1
  <2>5. FreeZero'
    BY <1>2, <1>4, <1>5, <2>3, <2>4 DEF SpaceInv, FreeZero
  <2>. QED  BY <2>2, <2>5
<1>21. CurrentOK' /\ SearchOK' /\ GapOK' /\ SortOK'
  <2>1. add'.pc = "idle"
    BY <1>3
  <2>2. CurrentOK'
    BY <1>18 DEF CurrentOK
  <2>. QED  BY <2>1, <2>2 DEF SearchOK, GapOK, SortOK
<1>. QED  BY <1>14, <1>16, <1>19, <1>20, <1>21 DEF SpaceInv
-----------------------------------------------------------------------------
LEMMA NextSpace == ASSUME SpaceInv, ~ ExactFit, [Next]_vars  PROVE SpaceInv'
<1>1. ASSUME NEW size \in Sizes, NEW value \in Values, AddFirst(size, value)  PROVE SpaceInv'
  BY <1>1, FirstSpace
<1>2. ASSUME NEW size \in Sizes, NEW value \in Values, AddData(size, value)  PROVE SpaceInv'
  BY <1>2, AddSpace
<1>3. CASE FoundAtEnd
  BY <1>3, FoundSpace
<1>4. CASE SearchAgain \/ SpaceFull
  BY <1>4, AgainSpace
<1>5. CASE LookBehind
  BY <1>5, BehindSpace
<1>6. CASE SkipFree
  BY <1>6, SkipSpace
<1>7. CASE NextIndex
  BY <1>7, IndexSpace
<1>8. CASE Append
  BY <1>8, AppendSpace
<1>9. CASE MoveUp
  BY <1>9, MoveUpSpace
<1>10. CASE InPlace
  BY <1>10, InPlaceSpace
<1>11. ASSUME NEW i \in Infos, RemoveData(i)  PROVE SpaceInv'
  BY <1>11, RemoveSpace
<1>12. CASE UNCHANGED vars
  <2>1. UNCHANGED <<info, data, head, tail, current, count, add, stored>>
    BY <1>12 DEF vars
  <2>2. Live' = Live /\ SortKey' = SortKey
    BY <2>1 DEF Live, SortKey
  <2>3. Typed' /\ Counted' /\ FreeZero'
    BY <2>1, <2>2 DEF SpaceInv, Typed, Counted, FreeZero
  <2>4. Fits(info)' /\ Kept(info, data, stored)'
    BY <2>1 DEF SpaceInv
  <2>5. CurrentOK' /\ SearchOK' /\ GapOK'
    BY <2>1, <2>2 DEF SpaceInv, CurrentOK, SearchOK, GapOK, AtUsed
  <2>6. ListOK' /\ SortOK'
    BY <2>1, <2>2 DEF SpaceInv, ListOK, SortOK
  <2>. QED  BY <2>3, <2>4, <2>5, <2>6 DEF SpaceInv
<1>. QED
  BY <1>1, <1>2, <1>3, <1>4, <1>5, <1>6, <1>7, <1>8, <1>9, <1>10, <1>11, <1>12 DEF Next, AddStep
-----------------------------------------------------------------------------
LEMMA InvariantParts ==
    ASSUME SpaceInv
    PROVE  ListSound /\ VariablesApart /\ DataKept /\ (add.pc = "search" => Searching)
<1>1. Live = LiveIn(info) /\ info \in [Infos -> Info] /\ DOMAIN stored = Live /\ Live \subseteq Infos
  BY LiveFacts DEF SpaceInv, Typed
<1>2. DataKept
  BY <1>1 DEF DataKept, SpaceInv, Kept
<1>3. VariablesApart
  BY <1>1 DEF VariablesApart, SpaceInv, Fits
<1>4. \E K : InList(info, head, tail, K)
  BY DEF SpaceInv, ListOK, SortOK
<1>5. add.pc = "idle" => \A i \in Live \ {tail} : info[i].index < info[info[i].next].index
  <2>. SUFFICES ASSUME add.pc = "idle", NEW i \in Live, i # tail
                PROVE  info[i].index < info[info[i].next].index
    OBVIOUS
  <2>1. InList(info, head, tail, PlaceIn(info))
    BY DEF SpaceInv, ListOK
  <2>2. info[i].next \in Live /\ PlaceIn(info)[i] < PlaceIn(info)[info[i].next]
    BY <1>1, <2>1 DEF InList, NextInList
  <2>. QED  BY <1>1, <2>2 DEF PlaceIn
<1>6. Live # {} => /\ {head, tail} \subseteq Live
                   /\ info[head].pre = -1 /\ info[tail].next = -1
                   /\ \A i \in Live \ {tail} : info[i].next \in Live /\ info[info[i].next].pre = i
                   /\ \A i \in Live \ {head} : info[i].pre \in Live
  BY <1>1, <1>4 DEF InList, NextInList, PreInList, EndsOfList
<1>7. ListSound
  BY <1>1, <1>5, <1>6 DEF ListSound, SpaceInv, Counted
<1>. QED  BY <1>2, <1>3, <1>7 DEF SpaceInv, SearchOK, Searching

LEMMA SpaceHolds == Spec /\ [](~ ExactFit) => []SpaceInv
<1>1. Init => SpaceInv
  BY InitSpace
<1>2. SpaceInv /\ ~ ExactFit /\ [Next]_vars => SpaceInv'
  BY NextSpace
<1>. QED  BY <1>1, <1>2, PTL DEF Spec

(* The list of infos is sound, as long as AddData does not take the end of  *)
(* the space for the end of the list (line 73): through every search, move  *)
(* of data, insertion with SortList and RemoveIndex.                        *)
THEOREM ListStaysSound == Spec /\ [](~ ExactFit) => []ListSound
BY InvariantParts, SpaceHolds, PTL

(* Under the same condition no variable lies over another or over the end   *)
(* of the space: MemoryFree moves data into unused bytes only.              *)
THEOREM VariablesStayApart == Spec /\ [](~ ExactFit) => []VariablesApart
BY InvariantParts, SpaceHolds, PTL

(* Under the same condition GetData finds what was stored, wherever         *)
(* MemoryFree has moved it.                                                 *)
THEOREM DataStayKept == Spec /\ [](~ ExactFit) => []DataKept
BY InvariantParts, SpaceHolds, PTL

(* Under the same condition the search of AddData is never left by its loop *)
(* condition, useableSize < size, which would skip the choice of an info.   *)
THEOREM SearchGoesOn == Spec /\ [](~ ExactFit) => [](add.pc = "search" => Searching)
BY InvariantParts, SpaceHolds, PTL
-----------------------------------------------------------------------------
(* When the sizes of the variables never sum up to the size of the space,   *)
(* as with even sizes in a space of odd size, no variable fits exactly.  M  *)
(* holds the sums of sizes: the places where data can lie.                  *)
PlacesIn(M) == /\ \A i \in Infos : info[i].index \in M /\ (info[i].size # 0 => info[i].size \in Sizes)
               /\ add.start \in M

SumsOfSizes(M) == /\ M \subseteq Nat /\ 0 \in M /\ Space \notin M
                  /\ \A m \in M, s \in Sizes : m + s \in M

LEMMA NeverExact == ASSUME NEW M, SumsOfSizes(M), SpaceInv, PlacesIn(M)  PROVE ~ ExactFit
<1>. SUFFICES ASSUME ExactFit  PROVE FALSE
  OBVIOUS
<1>1. add.start \in M /\ add.size \in Sizes /\ add.start + add.size = Space
  BY DEF ExactFit, PlacesIn, SpaceInv, Typed
<1>. QED  BY <1>1 DEF SumsOfSizes

LEMMA MovedPlaces ==
    ASSUME NEW M, NEW f \in [Infos -> Info], NEW n \in Infos, NEW to \in M, SumsOfSizes(M),
           \A i \in Infos : f[i].index \in M /\ (f[i].size # 0 => f[i].size \in Sizes)
    PROVE  LET g == MovedInfo(f, n, to)
           IN  /\ g \in [Infos -> Info] /\ LiveIn(g) = LiveIn(f)
               /\ \A i \in Infos : /\ g[i].index \in M /\ (g[i].size # 0 => g[i].size \in Sizes)
                                   /\ EndOf(g[i]) \in M /\ g[i].next = f[i].next
<1>. DEFINE g == MovedInfo(f, n, to)
<1>1. to \in Nat
  BY DEF SumsOfSizes
<1>2. /\ g \in [Infos -> Info] /\ LiveIn(g) = LiveIn(f)
      /\ \A i \in Infos : /\ g[i].size = f[i].size /\ g[i].next = f[i].next
                          /\ i # n => g[i].index = f[i].index
      /\ g[n].index = to
  BY <1>1, MovedFacts
<1>. HIDE DEF g
<1>3. \A i \in Infos : g[i].index \in M /\ (g[i].size # 0 => g[i].size \in Sizes)
  BY <1>2
<1>4. \A i \in Infos : EndOf(g[i]) \in M
  <2>. SUFFICES ASSUME NEW i \in Infos  PROVE EndOf(g[i]) \in M
    OBVIOUS
  <2>1. CASE g[i].size = 0
    <3>1. EndOf(g[i]) = g[i].index + 0 /\ g[i].index \in Nat
      BY <1>3, <2>1 DEF EndOf, SumsOfSizes
    <3>. QED  BY <1>3, <3>1
  <2>2. CASE g[i].size # 0
    BY <1>3, <2>2 DEF EndOf, SumsOfSizes
  <2>. QED  BY <2>1, <2>2
<1>. QED  BY <1>2, <1>3, <1>4 DEF g

LEMMA PlacesFacts ==
    ASSUME NEW M, SumsOfSizes(M), SpaceInv, PlacesIn(M)
    PROVE  /\ info \in [Infos -> Info] /\ add \in Add /\ add.start \in M
           /\ \A i \in Infos : /\ info[i].index \in M /\ (info[i].size # 0 => info[i].size \in Sizes)
                               /\ EndOf(info[i]) \in M
<1>1. /\ info \in [Infos -> Info] /\ add \in Add /\ add.start \in M
      /\ \A i \in Infos : info[i].index \in M /\ (info[i].size # 0 => info[i].size \in Sizes)
  BY DEF SpaceInv, Typed, PlacesIn
<1>2. ASSUME NEW i \in Infos  PROVE EndOf(info[i]) \in M
  <2>1. CASE info[i].size = 0
    <3>1. EndOf(info[i]) = info[i].index + 0 /\ info[i].index \in Nat
      BY <1>1, <2>1 DEF EndOf, SumsOfSizes
    <3>. QED  BY <1>1, <3>1
  <2>2. CASE info[i].size # 0
    BY <1>1, <2>2 DEF EndOf, SumsOfSizes
  <2>. QED  BY <2>1, <2>2
<1>. QED  BY <1>1, <1>2

LEMMA PlacesNext ==
    ASSUME NEW M, SumsOfSizes(M), SpaceInv, PlacesIn(M), [Next]_vars
    PROVE  PlacesIn(M)'
<1>1. /\ info \in [Infos -> Info] /\ add \in Add /\ add.start \in M /\ 0 \in M
      /\ \A i \in Infos : /\ info[i].index \in M /\ (info[i].size # 0 => info[i].size \in Sizes)
                          /\ EndOf(info[i]) \in M
  BY PlacesFacts DEF SumsOfSizes
<1>2. /\ \A st \in M, s \in Sizes : /\ [add EXCEPT !.start = st].start = st
                                    /\ [add EXCEPT !.pc = "index", !.start = st].start = st
      /\ Idle.start = 0
  BY <1>1 DEF Add, Idle
<1>3. ASSUME NEW size \in Sizes, NEW value \in Values, AddFirst(size, value)  PROVE PlacesIn(M)'
  <2>1. info' = [info EXCEPT ![0] = [pre |-> -1, next |-> -1, index |-> 0, size |-> size]] /\ add' = add
    BY <1>3 DEF AddFirst
  <2>2. \A i \in Infos : /\ i # 0 => info'[i] = info[i]
                        /\ i = 0 => info'[i] = [pre |-> -1, next |-> -1, index |-> 0, size |-> size]
    BY <1>1, <2>1
  <2>. QED  BY <1>1, <2>1, <2>2 DEF PlacesIn
<1>4. ASSUME NEW size \in Sizes, NEW value \in Values, AddData(size, value)  PROVE PlacesIn(M)'
  <2>. DEFINE i == IF current = MaxInfo THEN 0 ELSE current
  <2>1. info' = info /\ add'.start = EndOf(info[i])
    BY <1>4 DEF AddData
  <2>2. i \in Infos
    <3>1. Live # {} /\ add.pc = "idle"
      BY <1>4, LiveFacts DEF AddData, SpaceInv
    <3>. QED  BY <3>1, ConstantFacts DEF SpaceInv, CurrentOK, AtUsed, Live
  <2>. HIDE DEF i
  <2>. QED  BY <1>1, <2>1, <2>2 DEF PlacesIn
<1>5. CASE FoundAtEnd
  <2>1. info' = info /\ add' = [add EXCEPT !.pc = "index", !.start = LastStart] /\ Searching
    BY <1>5 DEF FoundAtEnd
  <2>2. LastStart \in M
    BY <1>1, <2>1, SearchFacts DEF LastStart
  <2>3. add'.start = LastStart
    BY <1>1, <2>1 DEF Add
  <2>. QED  BY <1>1, <2>1, <2>2, <2>3 DEF PlacesIn
<1>6. CASE SearchAgain
  <2>1. /\ info' = info /\ add' = [add EXCEPT !.dataFull = TRUE, !.iter = head, !.start = 0, !.useable = 0]
    BY <1>6 DEF SearchAgain
  <2>2. add'.start = 0
    BY <1>1, <2>1 DEF Add
  <2>. QED  BY <1>1, <2>1, <2>2 DEF PlacesIn
<1>7. CASE SpaceFull \/ InPlace
  <2>1. info' = info /\ add' = Idle
    BY <1>7 DEF SpaceFull, InPlace
  <2>. QED  BY <1>1, <1>2, <2>1 DEF PlacesIn
<1>8. CASE LookBehind
  <2>. DEFINE i     == add.iter
              n     == info[i].next
              first == info[i].pre = -1 /\ info[i].index # 0
              info1 == IF first THEN MovedInfo(info, i, 0) ELSE info
              end   == EndOf(info1[i])
              room  == info1[n].index - end
              info2 == MovedInfo(info1, n, end)
  <2>1. /\ Searching /\ i \in Infos /\ n # -1 /\ n \in Infos \cup {-1}
    BY <1>8, SearchFacts, InfoFacts DEF LookBehind, AtEnd
  <2>2. \/ info' = info1 /\ add' = [add EXCEPT !.pc = "index", !.start = end]
        \/ /\ info' = info2
           /\ add' = [add EXCEPT !.iter = n, !.useable = room,
                                 !.start = IF room = 0 THEN end ELSE EndOf(info'[n])]
    BY <1>8 DEF LookBehind
  <2>. HIDE DEF i, n
  <2>3. /\ info1 \in [Infos -> Info]
        /\ \A j \in Infos : /\ info1[j].index \in M /\ (info1[j].size # 0 => info1[j].size \in Sizes)
                            /\ EndOf(info1[j]) \in M
    BY <1>1, <2>1, MovedPlaces
  <2>. HIDE DEF info1
  <2>4. end \in M /\ n \in Infos
    BY <2>1, <2>3
  <2>. HIDE DEF end, room
  <2>5. \A j \in Infos : /\ info2[j].index \in M /\ (info2[j].size # 0 => info2[j].size \in Sizes)
                        /\ EndOf(info2[j]) \in M
    BY <2>3, <2>4, MovedPlaces
  <2>. HIDE DEF info2
  <2>6. CASE info' = info1 /\ add' = [add EXCEPT !.pc = "index", !.start = end]
    <3>1. add'.start = end
      BY <1>1, <2>6 DEF Add
    <3>. QED  BY <2>3, <2>4, <2>6, <3>1 DEF PlacesIn
  <2>7. CASE /\ info' = info2
             /\ add' = [add EXCEPT !.iter = n, !.useable = room,
                                   !.start = IF room = 0 THEN end ELSE EndOf(info'[n])]
    <3>1. add'.start = IF room = 0 THEN end ELSE EndOf(info2[n])
      BY <1>1, <2>7 DEF Add
    <3>. QED  BY <2>4, <2>5, <2>7, <3>1 DEF PlacesIn
  <2>. QED  BY <2>2, <2>6, <2>7
<1>9. CASE SkipFree
  <2>. DEFINE n    == info[add.iter].next
              room == info[n].index - add.start
              info1 == MovedInfo(info, n, add.start)
  <2>1. n # -1 /\ n \in Infos \cup {-1}
    BY <1>9, SearchFacts, InfoFacts DEF SkipFree, AtEnd
  <2>2. /\ info' = info1
        /\ add' = [add EXCEPT !.iter = n, !.useable = room,
                              !.start = IF room = 0 THEN add.start ELSE EndOf(info'[n])]
    BY <1>9 DEF SkipFree
  <2>. HIDE DEF n, room
  <2>3. \A j \in Infos : /\ info1[j].index \in M /\ (info1[j].size # 0 => info1[j].size \in Sizes)
                        /\ EndOf(info1[j]) \in M
    BY <1>1, <2>1, MovedPlaces
  <2>. HIDE DEF info1
  <2>4. add'.start = IF room = 0 THEN add.start ELSE EndOf(info1[n])
    BY <1>1, <2>2 DEF Add
  <2>. QED  BY <1>1, <2>1, <2>2, <2>3, <2>4 DEF PlacesIn
<1>10. CASE NextIndex
  <2>1. info' = info /\ (add' = add \/ add' = Idle \/ add' = [add EXCEPT !.indexFull = TRUE])
    BY <1>10 DEF NextIndex
  <2>2. [add EXCEPT !.indexFull = TRUE].start = add.start
    BY <1>1 DEF Add
  <2>. QED  BY <1>1, <1>2, <2>1, <2>2 DEF PlacesIn
<1>11. CASE Append
  <2>. DEFINE new  == [pre |-> tail, next |-> -1, index |-> add.start, size |-> add.size]
              last == [info[tail] EXCEPT !.next = current]
  <2>1. /\ info' = [[info EXCEPT ![tail] = last] EXCEPT ![current] = new]
        /\ add' = [add EXCEPT !.pc = "sort"] /\ add.pc = "index"
    BY <1>11 DEF Append
  <2>2. add.size \in Sizes
    BY <2>1 DEF SpaceInv, Typed
  <2>3. \A i \in Infos : info'[i] = IF i = current THEN new ELSE IF i = tail THEN last ELSE info[i]
    <3>. HIDE DEF new, last
    <3>. QED  BY <1>1, <2>1
  <2>4. tail \in Infos => last.index = info[tail].index /\ last.size = info[tail].size
    BY <1>1 DEF Info
  <2>5. new.index = add.start /\ new.size = add.size
    OBVIOUS
  <2>6. add'.start = add.start
    BY <1>1, <2>1 DEF Add
  <2>. HIDE DEF new, last
  <2>. QED  BY <1>1, <2>2, <2>3, <2>4, <2>5, <2>6 DEF PlacesIn
<1>12. CASE MoveUp
  <2>1. add' = add /\ \A j \in Infos : info'[j].index = info[j].index /\ info'[j].size = info[j].size
    BY <1>12, SwapFacts DEF MoveUp
  <2>. QED  BY <1>1, <2>1 DEF PlacesIn
<1>13. ASSUME NEW i \in Infos, RemoveData(i)  PROVE PlacesIn(M)'
  <2>1. /\ add' = add /\ info'[i] = FreeInfo
        /\ \A j \in Infos : j # i => info'[j].index = info[j].index /\ info'[j].size = info[j].size
    BY <1>13, UnlinkedFacts DEF RemoveData
  <2>2. FreeInfo.index = 0 /\ FreeInfo.size = 0
    BY DEF FreeInfo
  <2>. QED  BY <1>1, <2>1, <2>2 DEF PlacesIn
<1>14. CASE UNCHANGED vars
  BY <1>14 DEF vars, PlacesIn
<1>. QED
  BY <1>3, <1>4, <1>5, <1>6, <1>7, <1>8, <1>9, <1>10, <1>11, <1>12, <1>13, <1>14 DEF Next, AddStep

(* Callers whose sizes never sum up to the size of the space need no other  *)
(* condition: the list stays sound, the variables apart, and their data are *)
(* found as they were stored.                                               *)
THEOREM SoundWithoutExactSums ==
    ASSUME NEW CONSTANT M, SumsOfSizes(M)
    PROVE  Spec => [](ListSound /\ VariablesApart /\ DataKept)
<1>1. Init => SpaceInv /\ PlacesIn(M)
  <2>. SUFFICES ASSUME Init  PROVE PlacesIn(M)
    BY InitSpace
  <2>1. \A i \in Infos : info[i].index = 0 /\ info[i].size = 0
    BY DEF Init, FreeInfo
  <2>2. add.start = 0
    BY DEF Init, Idle
  <2>. QED  BY <2>1, <2>2 DEF PlacesIn, SumsOfSizes
<1>2. SpaceInv /\ PlacesIn(M) /\ [Next]_vars => SpaceInv' /\ PlacesIn(M)'
  BY NeverExact, NextSpace, PlacesNext
<1>3. SpaceInv => ListSound /\ VariablesApart /\ DataKept
  BY InvariantParts
<1>. QED  BY <1>1, <1>2, <1>3, PTL DEF Spec
=============================================================================
