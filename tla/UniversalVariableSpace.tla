------------------------ MODULE UniversalVariableSpace ------------------------
(***************************************************************************)
(* CUniversalVariableSpace (UniversalVariableSpace/...cpp): an allocator of *)
(* variables of any size in a fixed byte array.  An array of infos, linked  *)
(* in the order of their data, says where each variable lies; its index is  *)
(* the variable's key.  AddData looks for a gap, closing the gaps it passes *)
(* by moving data down (MemoryFree), then for a free info, links it last    *)
(* and moves it up the list to its place (SortList).                        *)
(*                                                                          *)
(* The loops of AddData are steps: whether they end is a question of its    *)
(* own.  Nothing else runs between them, as one process uses the space.     *)
(***************************************************************************)
EXTENDS Integers, FiniteSets, Functions

CONSTANTS MaxInfo,   \* MAX_UNIVERSAL_VARIABLE_INFO
          Space,     \* MAX_UNIVERSAL_VARIABLE_SPACE
          MaxLive,   \* how many variables the callers keep at a time
          Sizes,     \* of the variables they add
          Values     \* what a variable's bytes hold

ASSUME InfoAssumption  == MaxInfo \in Nat \ {0} /\ MaxLive \in Nat
ASSUME SizesAssumption == Sizes \subseteq Nat \ {0} /\ Space \in Nat \ {0}

VARIABLES info,      \* stUVIArray
          data,      \* m_pData
          head, tail, current, count,   \* m_InfoHead, ..., m_InfoCount
          add,       \* the AddData under way: its locals
          stored     \* ghost: what the callers have stored, by key

vars == <<info, data, head, tail, current, count, add, stored>>

Infos == 0 .. MaxInfo - 1
Bytes == 0 .. Space - 1

(* A free info is all zeroes, its links too; -1 ends the list. *)
FreeInfo == [pre |-> 0, next |-> 0, index |-> 0, size |-> 0]
EndOf(e) == e.index + e.size
Live     == {i \in Infos : info[i].size # 0}

Idle == [pc |-> "idle", size |-> 0, value |-> 0, iter |-> 0, start |-> 0,
         useable |-> 0, indexFull |-> FALSE, dataFull |-> FALSE]

(* The object lies in zeroed memory: its constructor does not clear the     *)
(* infos, and an info is free when its size is 0.                           *)
Init == /\ info = [i \in Infos |-> FreeInfo]
        /\ data = [b \in Bytes |-> 0]
        /\ head = 0 /\ tail = 0 /\ current = -1 /\ count = 0
        /\ add = Idle
        /\ stored = [i \in {} |-> 0]
-----------------------------------------------------------------------------
(* memcpy to P_DATA(start) *)
Written(start, size, value) ==
    [b \in Bytes |-> IF b \in start .. start + size - 1 THEN value ELSE data[b]]

(* Lines 31-46: the first variable of an empty space. *)
AddFirst(size, value) ==
    /\ add.pc = "idle"
    /\ count = 0
    /\ size <= Space
    /\ info' = [info EXCEPT ![0] = [pre |-> -1, next |-> -1, index |-> 0, size |-> size]]
    /\ data' = Written(0, size, value)
    /\ head' = 0 /\ tail' = 0 /\ current' = 0 /\ count' = 1
    /\ stored' = [i \in {0} |-> value]
    /\ UNCHANGED add

(* Lines 48-69: the search starts after the current info.  After a search   *)
(* that ran out of infos it starts at info 0, and is on its last round.     *)
AddData(size, value) ==
    LET full == current = MaxInfo
        i    == IF full THEN 0 ELSE current
    IN  /\ add.pc = "idle"
        /\ count \in 1 .. MaxLive - 1
        /\ current # -1
        /\ current' = i
        /\ add' = [pc |-> "search", size |-> size, value |-> value, iter |-> i,
                   start |-> EndOf(info[i]), useable |-> 0,
                   indexFull |-> full, dataFull |-> full]
        /\ UNCHANGED <<info, data, head, tail, count, stored>>
-----------------------------------------------------------------------------
(* while(useableSize < size).  The loop is left by a break or a return: its *)
(* condition stays true, as what LookBehind and SkipFree leave in useable   *)
(* is less than size.  Were it ever false, the search would deadlock here.  *)

Searching == add.pc = "search" /\ add.useable < add.size

(* MemoryFree: the infos and the bytes once the data of i, which are those  *)
(* of `infos` and `bytes`, start at `to`.                                   *)
MovedInfoMutant(infos, i, to) == infos

MovedInfo(infos, i, to) == [infos EXCEPT ![i].index = to]

MovedBytesMutant(infos, bytes, i, to) == bytes

MovedBytes(infos, bytes, i, to) ==
    LET from == infos[i].index
    IN  [b \in Bytes |-> IF b \in to .. to + infos[i].size - 1
                         THEN bytes[b + from - to] ELSE bytes[b]]

(* Line 73: the end of the list, or of the space, has been reached. *)
AtEnd == \/ info[add.iter].next = -1
         \/ add.start + add.size >= Space

LastStartMutant == add.start

LastStart == IF info[add.iter].size # 0 THEN EndOf(info[add.iter]) ELSE add.start

(* Line 73 takes the end of the space for the end of the list, when the     *)
(* data of iter and the new ones would fill the space exactly and others    *)
(* lie there.                                                               *)
ExactFit == /\ add.pc = "search"
            /\ info[add.iter].next # -1
            /\ add.start + add.size = Space /\ LastStart = add.start

(* Lines 81-91: the room behind the last data is enough. *)
FoundAtEnd == /\ Searching
              /\ AtEnd
              /\ Space - LastStart >= add.size
              /\ add' = [add EXCEPT !.pc = "index", !.start = LastStart]
              /\ UNCHANGED <<info, data, head, tail, current, count, stored>>

(* Lines 84-89: it is not; the search starts again at the head, once. *)
SearchAgain == /\ Searching
               /\ AtEnd
               /\ Space - LastStart < add.size
               /\ ~ add.dataFull
               /\ add' = [add EXCEPT !.dataFull = TRUE, !.iter = head,
                                     !.start = 0, !.useable = 0]
               /\ UNCHANGED <<info, data, head, tail, current, count, stored>>

SpaceFull == /\ Searching
             /\ AtEnd
             /\ Space - LastStart < add.size
             /\ add.dataFull
             /\ add' = Idle
             /\ UNCHANGED <<info, data, head, tail, current, count, stored>>

(* Lines 95-116: look between the data of iter and the next.  The first     *)
(* data of the list are moved to 0, the next are moved up to iter's.        *)
LookBehind ==
    LET i      == add.iter
        n      == info[i].next
        first  == info[i].pre = -1 /\ info[i].index # 0
        info1  == IF first THEN MovedInfo(info, i, 0) ELSE info
        data1  == IF first THEN MovedBytes(info, data, i, 0) ELSE data
        end    == EndOf(info1[i])
        room   == info1[n].index - end
    IN  /\ Searching
        /\ ~ AtEnd
        /\ info[i].size # 0
        /\ IF room >= add.size
           THEN /\ info' = info1 /\ data' = data1
                /\ add' = [add EXCEPT !.pc = "index", !.start = end]
           ELSE /\ info' = MovedInfo(info1, n, end)
                /\ data' = MovedBytes(info1, data1, n, end)
                /\ add' = [add EXCEPT !.iter = n, !.useable = room,
                                      !.start = IF room = 0 THEN end
                                                ELSE EndOf(info'[n])]
        /\ UNCHANGED <<head, tail, current, count, stored>>

(* Lines 119-124: iter is a free info. *)
SkipFree ==
    LET n    == info[add.iter].next
        room == info[n].index - add.start
    IN  /\ Searching
        /\ ~ AtEnd
        /\ info[add.iter].size = 0
        /\ info' = MovedInfo(info, n, add.start)
        /\ data' = MovedBytes(info, data, n, add.start)
        /\ add' = [add EXCEPT !.iter = n, !.useable = room,
                              !.start = IF room = 0 THEN @ ELSE EndOf(info'[n])]
        /\ UNCHANGED <<head, tail, current, count, stored>>
-----------------------------------------------------------------------------
(* Lines 127-139: the next free info, from the current one on, once around. *)
NextIndex ==
    LET n == current + 1
    IN  /\ add.pc = "index"
        /\ info[current].size # 0
        /\ current' = IF n = MaxInfo /\ ~ add.indexFull THEN 0 ELSE n
        /\ add' = IF n < MaxInfo THEN add
                  ELSE IF add.indexFull THEN Idle
                  ELSE [add EXCEPT !.indexFull = TRUE]
        /\ UNCHANGED <<info, data, head, tail, count, stored>>

(* Lines 141-151: the info becomes the last of the list. *)
Append == /\ add.pc = "index"
          /\ info[current].size = 0
          /\ info' = [info EXCEPT ![tail].next = current,
                                  ![current] = [pre |-> tail, next |-> -1,
                                                index |-> add.start, size |-> add.size]]
          /\ data' = Written(add.start, add.size, add.value)
          /\ tail' = current
          /\ count' = count + 1
          /\ stored' = [i \in DOMAIN stored \cup {current} |->
                           IF i = current THEN add.value ELSE stored[i]]
          /\ add' = [add EXCEPT !.pc = "sort"]
          /\ UNCHANGED <<head, current>>

(* The infos once i and the one before it, p, have changed places. *)
SwappedMutant(i, p) ==
    LET linked == [info EXCEPT ![p].next = info[i].next, ![p].pre = i,
                               ![i].next = p, ![i].pre = info[p].pre]
    IN  IF info[p].pre = -1 THEN linked ELSE [linked EXCEPT ![info[p].pre].next = i]

Swapped(i, p) ==
    LET linked == [info EXCEPT ![p].next = info[i].next, ![p].pre = i,
                               ![i].next = p, ![i].pre = info[p].pre]
        behind == IF info[i].next = -1 THEN linked
                                       ELSE [linked EXCEPT ![info[i].next].pre = p]
    IN  IF info[p].pre = -1 THEN behind ELSE [behind EXCEPT ![info[p].pre].next = i]

(* SortList: the new info moves up, past those whose data lie behind its.   *)
OutOfPlace == /\ info[current].pre # -1
              /\ info[info[current].pre].index > info[current].index

MoveUp == LET p == info[current].pre
          IN  /\ add.pc = "sort"
              /\ OutOfPlace
              /\ info' = Swapped(current, p)
              /\ tail' = IF info[current].next = -1 THEN p ELSE tail
              /\ head' = IF info[p].pre = -1 THEN current ELSE head
              /\ UNCHANGED <<data, current, count, add, stored>>

InPlace == /\ add.pc = "sort"
           /\ ~ OutOfPlace
           /\ add' = Idle
           /\ UNCHANGED <<info, data, head, tail, current, count, stored>>
-----------------------------------------------------------------------------
(* RemoveIndex *)

(* The info that is current once i is gone. *)
SuccessorMutant(i) == current

Successor(i) == IF current # i THEN current
                ELSE IF info[i].pre = -1 THEN info[i].next ELSE info[i].pre

Unlinked(i) ==
    LET before == IF info[i].pre = -1 THEN info
                  ELSE [info EXCEPT ![info[i].pre].next = info[i].next]
    IN  IF info[i].next = -1 THEN before
        ELSE [before EXCEPT ![info[i].next].pre = info[i].pre]

RemoveData(i) ==
    /\ add.pc = "idle"
    /\ info[i].size # 0
    /\ current' = Successor(i)
    /\ head' = IF info[i].pre = -1 THEN info[i].next ELSE head
    /\ tail' = IF info[i].next = -1 THEN info[i].pre ELSE tail
    /\ info' = [Unlinked(i) EXCEPT ![i] = FreeInfo]
    /\ count' = count - 1
    /\ stored' = Restrict(stored, DOMAIN stored \ {i})
    /\ UNCHANGED <<data, add>>

(* GetData, and AddData of a size that is 0, leave the state alone; so does *)
(* one of a size larger than the space when the space is empty.             *)
-----------------------------------------------------------------------------
AddStep == \/ FoundAtEnd \/ SearchAgain \/ SpaceFull \/ LookBehind \/ SkipFree
           \/ NextIndex \/ Append \/ MoveUp \/ InPlace

Next == \/ \E size \in Sizes, value \in Values : AddFirst(size, value) \/ AddData(size, value)
        \/ AddStep
        \/ \E i \in Infos : RemoveData(i)

Spec     == Init /\ [][Next]_vars
FairSpec == Spec /\ WF_vars(AddStep)
-----------------------------------------------------------------------------
(* Properties *)

(* Variables lie inside the space, and apart. *)
VariablesApart == /\ \A i \in Live : EndOf(info[i]) <= Space
                  /\ \A i, j \in Live : i # j => \/ EndOf(info[i]) <= info[j].index
                                                 \/ EndOf(info[j]) <= info[i].index

(* GetData with a variable's key finds what was stored under it, however    *)
(* often its data have been moved.                                          *)
DataKept == \A i \in DOMAIN stored :
               \A b \in info[i].index .. EndOf(info[i]) - 1 : data[b] = stored[i]

(* The list holds the used infos and no other, linked both ways from head   *)
(* to tail, and between the calls in the order of the data.                 *)
ListSound ==
    /\ count = Cardinality(Live)
    /\ DOMAIN stored = Live
    /\ Live # {} =>
          /\ {head, tail} \subseteq Live
          /\ info[head].pre = -1 /\ info[tail].next = -1
          /\ \A i \in Live \ {tail} : /\ info[i].next \in Live
                                      /\ info[info[i].next].pre = i
                                      /\ add.pc = "idle" => info[i].index < info[info[i].next].index
          /\ \A i \in Live \ {head} : info[i].pre \in Live

(* A variable is refused only when the free bytes, gaps included, are too   *)
(* few for it; or it is the second one.                                     *)
BytesInUse == FoldFunctionOnSet(LAMBDA x, y : x + y, 0,
                                [i \in Infos |-> info[i].size], Live)
Refused    == SpaceFull /\ BytesInUse + add.size <= Space
RefusedOnlyWhenFull == [][Refused => count = 1 \/ add.indexFull]_vars

(* AddData returns, unless the infos ran out before: its last round then    *)
(* starts at info 0, and when that is free, it goes round a list it is not  *)
(* part of.                                                                 *)
AddReturns == add.pc # "idle" /\ ~ add.indexFull ~> add.pc = "idle"
=============================================================================
