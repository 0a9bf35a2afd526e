------------------------ MODULE PacketTrafficProofs ------------------------
(***************************************************************************)
(* Proofs about PacketTraffic, for any number of processes, kinds, records  *)
(* and message sizes.                                                       *)
(***************************************************************************)
EXTENDS PacketTraffic, FiniteSetTheorems, SequenceTheorems, TLAPS

(* A kind has one number; a call holds its kind until its packets are        *)
(* recorded.                                                                *)
KindsDistinct == \A i, j \in DOMAIN kinds : kinds[i] = kinds[j] => i = j
ArgsReal      == \A w \in Writers : pc[w] \in Recording => arg[w].id \in Ids
HistoryOK     == /\ added \in [Writers -> Seq(Records)]
                 /\ sent  \in [Writers -> Seq(Records)]
                 /\ starts \in Nat

TInv == TypeOK /\ KindsDistinct /\ ArgsReal /\ HistoryOK

(* The constants are numbers. *)
LEMMA ConstantFacts == /\ MaxKind \in Nat /\ MaxKind > 1
                       /\ CountSpace \in Nat /\ CountSpace > 0
                       /\ QueueMax \in Nat /\ QueueMax > 0
                       /\ Quantities \subseteq 1 .. CountSpace - 1
                       /\ 1 \in Slots
                       /\ Zero \in Records
BY SizesAssumption DEF Slots, Zero, Records

(* The sum of two USHORTs is a USHORT. *)
LEMMA PlusType == \A m, n \in Nat : Plus(m, n) \in 0 .. CountSpace - 1
BY ConstantFacts DEF Plus

(* A list of different kinds fits the index. *)
LEMMA DistinctFits ==
    ASSUME NEW q \in Seq(Ids), \A i, j \in DOMAIN q : q[i] = q[j] => i = j
    PROVE  Len(q) <= MaxKind
<1>. DEFINE n == Len(q)
<1>0. IsFiniteSet(Ids) /\ Cardinality(Ids) <= MaxKind
  BY IdsAssumption, Zenon
<1>1. n \in Nat /\ DOMAIN q = 1 .. n /\ q \in [1 .. n -> Ids]
  OBVIOUS
<1>2. q \in Injection(1 .. n, Ids)
  BY <1>1 DEF Injection, IsInjective
<1>3. Cardinality(1 .. n) <= Cardinality(Ids)
  BY <1>0, <1>2, FS_Injection
<1>4. Cardinality(1 .. n) = n
  BY <1>1, FS_Interval
<1>5. Cardinality(Ids) \in Nat
  BY <1>0, FS_CardinalityType
<1>. QED  BY <1>0, <1>1, <1>3, <1>4, <1>5, ConstantFacts

(* What operator[] of the index does to the list of kinds and returns. *)
LEMMA FindFacts ==
    ASSUME TInv, NEW w \in Writers, Find(w)
    PROVE  /\ kinds' \in Seq(Ids) /\ KindsDistinct'
           /\ at'[w] + 1 \in DOMAIN kinds' /\ kinds'[at'[w] + 1] = arg[w].id
           /\ at' \in [Writers -> Blocks]
           /\ \/ kinds' = kinds
              \/ /\ kinds' = Append(kinds, arg[w].id)
                 /\ \A i \in DOMAIN kinds : kinds[i] # arg[w].id
                 /\ at'[w] = Len(kinds)
<1>. DEFINE id == arg[w].id
            pos == CHOOSE i \in DOMAIN kinds' : kinds'[i] = id
<1>1. id \in Ids /\ kinds \in Seq(Ids)
  BY DEF Find, Go, TInv, ArgsReal, Recording, TypeOK
<1>0. at \in [Writers -> Blocks]
  BY DEF TInv, TypeOK
<1>2. CASE id \in Range(kinds)
  <2>1. kinds' = kinds
    BY <1>2 DEF Find
  <2>2. \E i \in DOMAIN kinds' : kinds'[i] = id
    BY <1>2, <2>1 DEF Range
  <2>3. pos \in DOMAIN kinds' /\ kinds'[pos] = id
    BY <2>2
  <2>4. pos \in 1 .. Len(kinds) /\ Len(kinds) <= MaxKind /\ Len(kinds) \in Nat
    BY <1>1, <2>1, <2>3, DistinctFits DEF TInv, KindsDistinct
  <2>5. at' = [at EXCEPT ![w] = pos - 1]
    BY DEF Find
  <2>6. pos - 1 \in Blocks
    BY <2>4, ConstantFacts DEF Blocks
  <2>7. at'[w] = pos - 1 /\ at' \in [Writers -> Blocks]
    BY <1>0, <2>5, <2>6
  <2>. QED  BY <1>1, <2>1, <2>3, <2>4, <2>7 DEF TInv, KindsDistinct
<1>3. CASE id \notin Range(kinds)
  <2>1. kinds' = Append(kinds, id)
    BY <1>3 DEF Find
  <2>2. \A i \in DOMAIN kinds : kinds[i] # id
    BY <1>3 DEF Range
  <2>3. /\ kinds' \in Seq(Ids) /\ Len(kinds') = Len(kinds) + 1
        /\ DOMAIN kinds' = 1 .. Len(kinds) + 1
        /\ \A i \in 1 .. Len(kinds) : kinds'[i] = kinds[i]
        /\ kinds'[Len(kinds) + 1] = id
    BY <1>1, <2>1
  <2>4. KindsDistinct'
    BY <1>1, <2>2, <2>3 DEF TInv, KindsDistinct
  <2>5. Len(kinds') <= MaxKind
    BY <2>3, <2>4, DistinctFits DEF KindsDistinct
  <2>6. pos \in DOMAIN kinds' /\ kinds'[pos] = id
    <3>1. Len(kinds) + 1 \in DOMAIN kinds'
      BY <1>1, <2>3
    <3>. QED  BY <2>3, <3>1
  <2>7. pos = Len(kinds) + 1 /\ Len(kinds) \in Nat
    BY <1>1, <2>2, <2>3, <2>6
  <2>8. at' = [at EXCEPT ![w] = pos - 1]
    BY DEF Find
  <2>9. pos - 1 \in Blocks
    BY <2>3, <2>5, <2>7, ConstantFacts DEF Blocks
  <2>10. pos - 1 = Len(kinds)
    <3>. HIDE DEF pos
    <3>. QED  BY <2>7
  <2>11. at'[w] = Len(kinds) /\ at' \in [Writers -> Blocks]
    <3>. HIDE DEF pos
    <3>. QED  BY <1>0, <2>8, <2>9, <2>10
  <2>. QED  BY <1>1, <2>1, <2>2, <2>3, <2>4, <2>7, <2>11
<1>. QED  BY <1>2, <1>3

-----------------------------------------------------------------------------
(* The typing invariant holds at the start. *)
LEMMA InitTInv == Init => TInv
<1>. SUFFICES ASSUME Init  PROVE TInv
  OBVIOUS
<1>. USE ConstantFacts DEF Init
<1>1. TypeOK
  <2>1. <<>> \in Seq(Records) /\ Len(<<>>) = 0 /\ <<>> \in Seq([n : Nat, data : Seq(Records)])
    OBVIOUS
  <2>2. 0 \in Blocks
    BY DEF Blocks
  <2>3. /\ 0 \in 0 .. CountSpace - 1 /\ CountSpace - 1 \in Nat
        /\ <<>> \in Seq(Ids)
        /\ pc \in [Writers -> PCs]
    BY DEF PCs, Out
  <2>4. /\ kinds \in Seq(Ids) /\ queue \in [Writers -> Seq(Records)]
        /\ mq \in Seq([n : Nat, data : Seq(Records)])
        /\ \A w \in Writers : Len(queue[w]) <= QueueMax
    BY <2>1, <2>3
  <2>5. /\ block \in [Blocks -> Nat] /\ record \in [Slots -> Records]
        /\ at \in [Writers -> Blocks] /\ slot \in [Writers -> Nat]
    BY <2>2
  <2>6. /\ arg \in [Writers -> Records] /\ buffer \in [1 .. QueueMax -> Records]
        /\ tally \in [Ids -> 0 .. CountSpace - 1]
        /\ raised \in BOOLEAN /\ due \in BOOLEAN /\ count \in Nat
    BY <2>3
  <2>. QED  BY <2>3, <2>4, <2>5, <2>6 DEF TypeOK, Init
<1>2. KindsDistinct /\ ArgsReal /\ HistoryOK
  BY DEF KindsDistinct, ArgsReal, HistoryOK, Recording
<1>. QED  BY <1>1, <1>2 DEF TInv

(* Each step keeps it. *)
LEMMA NextTInv == TInv /\ [Next]_vars => TInv'
<1>. SUFFICES ASSUME TInv, [Next]_vars  PROVE TInv'
  OBVIOUS
<1>. USE ConstantFacts
<1>0. TypeOK /\ KindsDistinct /\ ArgsReal /\ HistoryOK
  BY DEF TInv
<1>z. 0 \in Blocks
  BY DEF Blocks
<1>1. ASSUME NEW w \in Writers, Start(w)  PROVE TInv'
  <2>1. TypeOK'
    BY <1>0, <1>1 DEF Start, LosesMemory, TypeOK, agent, PCs, Out
  <2>. QED  BY <1>0, <1>1, <2>1 DEF Start, LosesMemory, TInv, TypeOK, KindsDistinct, ArgsReal, HistoryOK, Recording, agent
<1>2. ASSUME NEW w \in Writers, NEW id \in Ids, NEW n \in Quantities, Call(w, id, n)
      PROVE  TInv'
  <2>1. n \in Nat /\ [id |-> id, n |-> n] \in Records
    BY DEF Records
  <2>2. arg' \in [Writers -> Records] /\ arg'[w].id = id
    BY <1>0, <1>2, <2>1 DEF Call, TypeOK
  <2>3. tally' \in [Ids -> 0 .. CountSpace - 1]
    <3>1. tally[id] \in Nat
      BY <1>0 DEF TypeOK
    <3>. QED  BY <1>0, <1>2, <2>1, <3>1, PlusType DEF Call, TypeOK
  <2>4. TypeOK'
    BY <1>0, <1>2, <2>2, <2>3 DEF Call, Go, TypeOK, PCs, Recording, shared, agent
  <2>5. ArgsReal'
    BY <1>0, <1>2, <2>2 DEF Call, Go, TypeOK, ArgsReal, Recording
  <2>. QED  BY <1>0, <1>2, <2>4, <2>5 DEF Call, TInv, KindsDistinct, HistoryOK, shared
<1>3. ASSUME NEW w \in Writers, Pass(w)  PROVE TInv'
  <2>1. TypeOK'
    BY <1>0, <1>3 DEF Pass, Go, TypeOK, PCs, Recording, shared, agent, history
  <2>. QED  BY <1>0, <1>3, <2>1 DEF Pass, Go, TInv, TypeOK, KindsDistinct, ArgsReal, HistoryOK, Recording, shared, history
<1>4. ASSUME NEW w \in Writers, Find(w)  PROVE TInv'
  <2>1. /\ kinds' \in Seq(Ids) /\ KindsDistinct' /\ at' \in [Writers -> Blocks]
    BY <1>4, FindFacts
  <2>2. TypeOK'
    BY <1>0, <1>4, <2>1 DEF Find, Go, TypeOK, PCs, Recording, agent, history
  <2>. QED  BY <1>0, <1>4, <2>1, <2>2 DEF Find, Go, TInv, TypeOK, ArgsReal, HistoryOK, Recording, history
<1>5. ASSUME NEW w \in Writers, TakeSlot(w)  PROVE TInv'
  <2>1. TypeOK'
    BY <1>0, <1>5 DEF TakeSlot, Go, TypeOK, PCs, Recording, shared, agent, history
  <2>. QED  BY <1>0, <1>5, <2>1 DEF TakeSlot, Go, TInv, TypeOK, KindsDistinct, ArgsReal, HistoryOK, Recording, shared, history
<1>5a. ASSUME NEW w \in Writers, WriteCount(w)  PROVE TInv'
  <2>1. TypeOK'
    BY <1>0, <1>5a DEF WriteCount, Go, TypeOK, PCs, Recording, agent, history
  <2>. QED  BY <1>0, <1>5a, <2>1 DEF WriteCount, Go, TInv, TypeOK, KindsDistinct, ArgsReal, HistoryOK, Recording, history
<1>6. ASSUME NEW w \in Writers, OpenSlot(w)  PROVE TInv'
  <2>1. /\ pc' \in [Writers -> PCs] /\ arg' \in [Writers -> Records]
        /\ at' \in [Writers -> Blocks] /\ slot' \in [Writers -> Nat]
    <3>1. CASE count \in Slots
      BY <1>0, <1>6, <3>1 DEF OpenSlot, TypeOK, PCs, Recording
    <3>2. CASE count \notin Slots
      <4>1. /\ pc' = [pc EXCEPT ![w] = "idle"] /\ arg' = [arg EXCEPT ![w] = Zero]
            /\ at' = [at EXCEPT ![w] = 0] /\ slot' = [slot EXCEPT ![w] = 0]
        BY <1>6, <3>2 DEF OpenSlot, EndsRecording
      <4>. QED  BY <1>0, <1>z, <4>1 DEF TypeOK, PCs, Recording, Out
    <3>. QED  BY <3>1, <3>2
  <2>2. TypeOK'
    BY <1>0, <1>6, <2>1 DEF OpenSlot, TypeOK, shared, agent, history
  <2>. QED  BY <1>0, <1>6, <2>2 DEF OpenSlot, EndsRecording, TInv, TypeOK, KindsDistinct, ArgsReal, HistoryOK, Recording, shared, history
<1>7. ASSUME NEW w \in Writers, FillSlot(w)  PROVE TInv'
  <2>1. /\ pc' \in [Writers -> PCs]
        /\ \A v \in Writers : pc'[v] \in Recording => pc[v] \in Recording
    BY <1>0, <1>7 DEF FillSlot, Go, TypeOK, PCs, Recording
  <2>2. record' \in [Slots -> Records]
    <3>1. arg[w] \in Records
      BY <1>0 DEF TypeOK
    <3>2. ASSUME NEW r \in Records
          PROVE  [r EXCEPT !.id = arg[w].id] \in Records /\ [r EXCEPT !.n = arg[w].n] \in Records
      BY <3>1 DEF Records
    <3>. DEFINE Written(r) == record' = [record EXCEPT ![slot[w]] = r]
    <3>3. \/ Written([record[slot[w]] EXCEPT !.id = arg[w].id])
          \/ Written([record[slot[w]] EXCEPT !.n = arg[w].n])
      BY <1>7, Zenon DEF FillSlot
    <3>4. CASE slot[w] \in Slots
      <4>1. \E r \in Records : Written(r)
        <5>1. record[slot[w]] \in Records
          BY <1>0, <3>4 DEF TypeOK
        <5>. QED  BY <3>2, <3>3, <5>1, Zenon
      <4>. QED  BY <1>0, <4>1 DEF TypeOK
    <3>5. CASE slot[w] \notin Slots
      <4>1. \E r : Written(r)
        BY <3>3, Zenon
      <4>. QED  BY <1>0, <3>5, <4>1 DEF TypeOK
    <3>. QED  BY <3>4, <3>5
  <2>3. TypeOK'
    BY <1>0, <1>7, <2>1, <2>2 DEF FillSlot, TypeOK, agent, history
  <2>. QED  BY <1>0, <1>7, <2>1, <2>3 DEF FillSlot, TInv, KindsDistinct, ArgsReal, HistoryOK, history
<1>7a. ASSUME NEW w \in Writers, NoteSlot(w)  PROVE TInv'
  <2>1. TypeOK'
    BY <1>0, <1>7a, <1>z DEF NoteSlot, Go, EndsRecording, TypeOK, PCs, Recording, agent, history
  <2>. QED  BY <1>0, <1>7a, <2>1 DEF NoteSlot, Go, EndsRecording, TInv, TypeOK, KindsDistinct, ArgsReal, HistoryOK, Recording, history
<1>8. ASSUME NEW w \in Writers, Accumulate(w)  PROVE TInv'
  <2>. DEFINE s == block[at[w]]
  <2>1. CASE s \in Slots
    <3>0. pc[w] = "count" /\ arg[w].id \in Ids
      BY <1>0, <1>8 DEF Accumulate, ArgsReal, Recording
    <3>1. /\ pc' = [pc EXCEPT ![w] = "sum"] /\ slot' = [slot EXCEPT ![w] = s] /\ at' = at
          /\ arg' = [arg EXCEPT ![w] = [arg[w] EXCEPT !.n = Plus(record[s].n, arg[w].n)]]
          /\ queue' = queue /\ added' = added
      BY <1>8, <2>1 DEF Accumulate
    <3>2. record[s] \in Records /\ arg[w] \in Records /\ s \in Nat
      BY <1>0, <2>1 DEF TypeOK, Slots
    <3>3. Plus(record[s].n, arg[w].n) \in 0 .. CountSpace - 1
      <4>. HIDE DEF s
      <4>1. record[s].n \in Nat /\ arg[w].n \in Nat
        BY <3>2 DEF Records
      <4>. QED  BY <4>1, PlusType
    <3>. HIDE DEF s
    <3>4. [arg[w] EXCEPT !.n = Plus(record[s].n, arg[w].n)] \in Records
      BY <3>2, <3>3 DEF Records
    <3>5. /\ arg' \in [Writers -> Records] /\ arg'[w].id = arg[w].id
          /\ \A v \in Writers : v # w => arg'[v] = arg[v]
      BY <1>0, <3>1, <3>2, <3>4 DEF TypeOK, Records
    <3>6. TypeOK'
      BY <1>0, <1>8, <3>1, <3>2, <3>5 DEF Accumulate, TypeOK, PCs, Recording, shared, agent
    <3>7. ArgsReal'
      BY <1>0, <3>0, <3>1, <3>5 DEF TypeOK, ArgsReal
    <3>. QED  BY <1>0, <1>8, <3>1, <3>6, <3>7 DEF Accumulate, TInv, KindsDistinct, HistoryOK, shared
  <2>2. CASE s \notin Slots
    <3>1. /\ pc' = [pc EXCEPT ![w] = "dead"] /\ slot' = [slot EXCEPT ![w] = 0]
          /\ at' = [at EXCEPT ![w] = 0] /\ arg' = [arg EXCEPT ![w] = Zero]
          /\ queue' = [queue EXCEPT ![w] = <<>>] /\ added' = [added EXCEPT ![w] = sent[w]]
      BY <1>8, <2>2 DEF Accumulate, EndsRecording, LosesMemory
    <3>2. TypeOK'
      BY <1>0, <1>8, <1>z, <3>1 DEF Accumulate, TypeOK, PCs, Recording, Out, shared, agent
    <3>3. ArgsReal' /\ HistoryOK'
      BY <1>0, <1>8, <3>1 DEF Accumulate, TypeOK, ArgsReal, HistoryOK, Recording
    <3>. QED  BY <1>0, <1>8, <3>2, <3>3 DEF Accumulate, TInv, KindsDistinct, shared
  <2>. QED  BY <2>1, <2>2
<1>8a. ASSUME NEW w \in Writers, WriteSum(w)  PROVE TInv'
  <2>1. record' \in [Slots -> Records]
    <3>1. arg[w] \in Records
      BY <1>0 DEF TypeOK
    <3>2. ASSUME NEW r \in Records  PROVE [r EXCEPT !.n = arg[w].n] \in Records
      BY <3>1 DEF Records
    <3>. QED  BY <1>0, <1>8a, <3>2 DEF WriteSum, TypeOK
  <2>2. TypeOK'
    BY <1>0, <1>8a, <1>z, <2>1 DEF WriteSum, Go, EndsRecording, TypeOK, PCs, Recording, agent, history
  <2>. QED  BY <1>0, <1>8a, <2>2 DEF WriteSum, Go, EndsRecording, TInv, TypeOK, KindsDistinct, ArgsReal, HistoryOK, Recording, history
<1>9. ASSUME NEW w \in Writers, TestFlag(w)  PROVE TInv'
  <2>1. TypeOK'
    BY <1>0, <1>9 DEF TestFlag, TypeOK, PCs, Out, shared, agent, history
  <2>. QED  BY <1>0, <1>9, <2>1 DEF TestFlag, TInv, TypeOK, KindsDistinct, ArgsReal, HistoryOK, Recording, shared, history
<1>10. ASSUME NEW w \in Writers, RaiseFlag(w) \/ ReadClock(w) \/ TestEmpty(w)  PROVE TInv'
  <2>1. TypeOK'
    BY <1>0, <1>10 DEF RaiseFlag, ReadClock, TestEmpty, Go, TypeOK, PCs, Holding, shared, agent, history
  <2>. QED  BY <1>0, <1>10, <2>1 DEF RaiseFlag, ReadClock, TestEmpty, Go, TInv, TypeOK, KindsDistinct,
                                     ArgsReal, HistoryOK, Recording, shared, history
<1>11. ASSUME NEW w \in Writers, AddRecords(w)  PROVE TInv'
  <2>0. record[1] \in Records
    BY <1>0 DEF TypeOK
  <2>1. /\ queue' \in [Writers -> Seq(Records)] /\ added' \in [Writers -> Seq(Records)]
        /\ \A v \in Writers : Len(queue'[v]) <= QueueMax
    <3>1. CASE queue' = queue /\ added' = added
      BY <1>0, <3>1 DEF TypeOK, HistoryOK
    <3>2. CASE /\ Len(queue[w]) < QueueMax
               /\ queue' = [queue EXCEPT ![w] = Append(queue[w], record[1])]
               /\ added' = [added EXCEPT ![w] = Append(added[w], record[1])]
      <4>1. queue[w] \in Seq(Records) /\ added[w] \in Seq(Records)
        BY <1>0 DEF TypeOK, HistoryOK
      <4>2. /\ Append(queue[w], record[1]) \in Seq(Records)
            /\ Append(added[w], record[1]) \in Seq(Records)
            /\ Len(Append(queue[w], record[1])) <= QueueMax
        BY <2>0, <3>2, <4>1
      <4>. QED  BY <1>0, <3>2, <4>2 DEF TypeOK, HistoryOK
    <3>3. CASE queue' = [queue EXCEPT ![w] = <<>>] /\ added' = [added EXCEPT ![w] = sent[w]]
      BY <1>0, <3>3 DEF TypeOK, HistoryOK
    <3>. QED  BY <1>11, <3>1, <3>2, <3>3 DEF AddRecords, LosesMemory
  <2>2. record' \in [Slots -> Records]
    BY <1>0, <1>11 DEF AddRecords, TypeOK
  <2>3. pc' \in [Writers -> PCs] /\ pc'[w] \in {"send", "dead"} /\ \A v \in Writers : v # w => pc'[v] = pc[v]
    BY <1>0, <1>11 DEF AddRecords, TypeOK, PCs, Holding, Out
  <2>4. TypeOK'
    BY <1>0, <1>11, <2>1, <2>2, <2>3 DEF AddRecords, TypeOK, agent
  <2>5. ArgsReal'
    BY <1>0, <1>11, <2>3 DEF AddRecords, ArgsReal, Recording
  <2>. QED  BY <1>0, <1>11, <2>1, <2>4, <2>5 DEF AddRecords, TInv, KindsDistinct, HistoryOK
<1>12. ASSUME NEW w \in Writers, Send(w)  PROVE TInv'
  <2>0. queue[w] \in Seq(Records) /\ sent[w] \in Seq(Records) /\ count \in Nat
    BY <1>0 DEF TypeOK, HistoryOK
  <2>1. /\ queue' \in [Writers -> Seq(Records)] /\ sent' \in [Writers -> Seq(Records)]
        /\ mq' \in Seq([n : Nat, data : Seq(Records)])
        /\ \A v \in Writers : Len(queue'[v]) <= QueueMax
    <3>1. CASE queue' = queue /\ sent' = sent /\ mq' = mq
      BY <1>0, <3>1 DEF TypeOK, HistoryOK
    <3>2. CASE /\ mq' = Append(mq, [n |-> count, data |-> queue[w]])
               /\ sent' = [sent EXCEPT ![w] = sent[w] \o queue[w]]
               /\ queue' = [queue EXCEPT ![w] = <<>>]
      <4>1. sent[w] \o queue[w] \in Seq(Records) /\ <<>> \in Seq(Records) /\ Len(<<>>) = 0
        BY <2>0
      <4>2. [n |-> count, data |-> queue[w]] \in [n : Nat, data : Seq(Records)]
        BY <2>0
      <4>3. mq' \in Seq([n : Nat, data : Seq(Records)])
        BY <1>0, <3>2, <4>2 DEF TypeOK
      <4>. QED  BY <1>0, <3>2, <4>1, <4>3 DEF TypeOK, HistoryOK
    <3>. QED  BY <1>12, <3>1, <3>2 DEF Send
  <2>2. TypeOK'
    BY <1>0, <1>12, <2>1 DEF Send, Go, TypeOK, PCs, Holding, shared
  <2>3. ArgsReal'
    BY <1>0, <1>12 DEF Send, Go, TypeOK, ArgsReal, Recording
  <2>. QED  BY <1>0, <1>12, <2>1, <2>2, <2>3 DEF Send, TInv, KindsDistinct, HistoryOK, shared
<1>13. ASSUME NEW w \in Writers, ResetCount(w)  PROVE TInv'
  <2>1. TypeOK'
    BY <1>0, <1>13 DEF ResetCount, Go, TypeOK, PCs, Holding, agent, history
  <2>. QED  BY <1>0, <1>13, <2>1 DEF ResetCount, Go, TInv, TypeOK, KindsDistinct, ArgsReal, HistoryOK, Recording, history
<1>14. ASSUME NEW w \in Writers, ResetIndex(w)  PROVE TInv'
  <2>0. /\ pc' \in [Writers -> PCs] /\ <<>> \in Seq(Ids)
        /\ block' \in [Blocks -> Nat]
        /\ tally' \in [Ids -> 0 .. CountSpace - 1]
    <3>1. pc' \in [Writers -> PCs]
      BY <1>0, <1>14 DEF ResetIndex, Go, TypeOK, PCs, Holding, Out
    <3>2. block' \in [Blocks -> Nat]
      BY <1>0, <1>14 DEF ResetIndex, TypeOK
    <3>3. 0 \in 0 .. CountSpace - 1 /\ <<>> \in Seq(Ids)
      OBVIOUS
    <3>4. tally' \in [Ids -> 0 .. CountSpace - 1]
      BY <1>14, <3>3 DEF ResetIndex
    <3>. QED  BY <3>1, <3>2, <3>3, <3>4
  <2>1. TypeOK'
    BY <1>0, <1>14, <2>0 DEF ResetIndex, TypeOK, agent
  <2>2. ArgsReal' /\ KindsDistinct'
    BY <1>0, <1>14 DEF ResetIndex, Go, TypeOK, ArgsReal, Recording, KindsDistinct
  <2>. QED  BY <1>0, <1>14, <2>1, <2>2 DEF ResetIndex, TInv, HistoryOK
<1>15. ASSUME NEW w \in Writers, ClearFlag(w)  PROVE TInv'
  <2>1. TypeOK'
    BY <1>0, <1>15 DEF ClearFlag, Go, TypeOK, PCs, Out, agent, history
  <2>. QED  BY <1>0, <1>15, <2>1 DEF ClearFlag, Go, TInv, TypeOK, KindsDistinct, ArgsReal, HistoryOK, Recording, history
<1>16. ASSUME NEW w \in Writers, Kill(w)  PROVE TInv'
  <2>1. TypeOK'
    BY <1>0, <1>16, <1>z DEF Kill, EndsRecording, LosesMemory, TypeOK, PCs, Out, shared, agent
  <2>. QED  BY <1>0, <1>16, <2>1 DEF Kill, EndsRecording, LosesMemory, TInv, TypeOK, KindsDistinct, ArgsReal, HistoryOK, Recording, shared
<1>17. CASE Tick
  BY <1>0, <1>17 DEF Tick, TInv, TypeOK, KindsDistinct, ArgsReal, HistoryOK, Recording, local, agent, history
<1>18. CASE Receive
  <2>1. mq' \in Seq([n : Nat, data : Seq(Records)])
    BY <1>0, <1>18 DEF Receive, TypeOK
  <2>2. buffer' \in [1 .. QueueMax -> Records]
    <3>. DEFINE m == Head(mq)
    <3>1. m.data \in Seq(Records)
      <4>1. m \in [n : Nat, data : Seq(Records)]
        <5>1. mq # <<>> /\ mq \in Seq([n : Nat, data : Seq(Records)])
          BY <1>0, <1>18 DEF Receive, TypeOK
        <5>. QED  BY <5>1, HeadTailProperties
      <4>. HIDE DEF m
      <4>. QED  BY <4>1
    <3>2. buffer' = [i \in 1 .. QueueMax |-> IF i <= Len(m.data) THEN m.data[i] ELSE buffer[i]]
      BY <1>18 DEF Receive
    <3>3. \A i \in 1 .. QueueMax : i <= Len(m.data) => m.data[i] \in Records
      BY <3>1
    <3>. HIDE DEF m
    <3>. QED  BY <1>0, <3>2, <3>3 DEF TypeOK
  <2>. QED  BY <1>0, <1>18, <2>1, <2>2 DEF Receive, TInv, TypeOK, KindsDistinct, ArgsReal, HistoryOK, Recording, shared, local, history
<1>19. CASE UNCHANGED vars
  BY <1>0, <1>19 DEF vars, TInv, TypeOK, KindsDistinct, ArgsReal, HistoryOK, Recording, shared, local, agent, history
<1>. QED  BY <1>1, <1>2, <1>3, <1>4, <1>5, <1>5a, <1>6, <1>7, <1>7a, <1>8, <1>8a, <1>9, <1>10, <1>11, <1>12,
            <1>13, <1>14, <1>15, <1>16, <1>17, <1>18, <1>19 DEF Next, Log, Flush

LEMMA Typed == Spec => []TInv
BY InitTInv, NextTInv, PTL DEF Spec

(* The variables keep their types, for any number of processes, kinds and   *)
(* slots; a buffer never holds more records than a message takes.           *)
THEOREM TypeCorrect == Spec => []TypeOK
<1>1. TInv => TypeOK
  BY DEF TInv
<1>. QED  BY <1>1, Typed, PTL
-----------------------------------------------------------------------------
(* Appending to the second of two lists. *)
LEMMA AppendToConcat ==
    \A s, t \in Seq(Records) : \A e \in Records : Append(s \o t, e) = s \o Append(t, e)
<1>. SUFFICES ASSUME NEW s \in Seq(Records), NEW t \in Seq(Records), NEW e \in Records
              PROVE  Append(s \o t, e) = s \o Append(t, e)
  OBVIOUS
<1>1. s \o t \in Seq(Records) /\ Len(s \o t) = Len(s) + Len(t)
  OBVIOUS
<1>2. Append(t, e) \in Seq(Records) /\ Len(Append(t, e)) = Len(t) + 1
  OBVIOUS
<1>3. /\ Append(s \o t, e) \in Seq(Records) /\ Len(Append(s \o t, e)) = Len(s) + Len(t) + 1
      /\ s \o Append(t, e) \in Seq(Records) /\ Len(s \o Append(t, e)) = Len(s) + Len(t) + 1
  BY <1>1, <1>2
<1>4. ASSUME NEW i \in 1 .. Len(s) + Len(t) + 1
      PROVE  Append(s \o t, e)[i] = (s \o Append(t, e))[i]
  BY <1>1, <1>2, <1>3, <1>4
<1>. DEFINE a == Append(s \o t, e)
            b == s \o Append(t, e)
<1>5. a \in Seq(Records) /\ b \in Seq(Records) /\ Len(a) = Len(b) /\ \A i \in 1 .. Len(a) : a[i] = b[i]
  BY <1>3, <1>4
<1>. HIDE DEF a, b
<1>6. a = b
  BY <1>5, SeqEqual
<1>. QED  BY <1>6 DEF a, b

(* No step loses a record that waits in a buffer, or sends one twice. *)
LEMMA NextKept == TInv /\ KeptUntilSent /\ [Next]_vars => KeptUntilSent'
<1>. SUFFICES ASSUME TInv, KeptUntilSent, [Next]_vars,
                     NEW v \in Writers, pc'[v] \notin {"down", "dead"}
              PROVE  added'[v] = sent'[v] \o queue'[v]
  BY DEF KeptUntilSent
<1>. DEFINE Same == added' = added /\ sent' = sent /\ queue' = queue
            Alive(w) == pc[w] \notin {"down", "dead"}
<1>0. /\ pc \in [Writers -> PCs] /\ queue \in [Writers -> Seq(Records)]
      /\ added \in [Writers -> Seq(Records)] /\ sent \in [Writers -> Seq(Records)]
      /\ record \in [Slots -> Records]
  BY DEF TInv, TypeOK, HistoryOK
<1>1. Alive(v) => added[v] = sent[v] \o queue[v]
  BY DEF KeptUntilSent
<1>2. ASSUME Alive(v), Same  PROVE added'[v] = sent'[v] \o queue'[v]
  BY <1>1, <1>2
<1>. DEFINE Frames(w) == sent' = sent /\ \A u \in Writers : u # w => pc'[u] = pc[u]
<1>3. ASSUME NEW w \in Writers, LosesMemory(w), Frames(w)  PROVE added'[v] = sent'[v] \o queue'[v]
  <2>1. CASE v = w
    <3>1. added'[v] = sent[v] /\ queue'[v] = <<>> /\ sent' = sent
      BY <1>0, <1>3, <2>1 DEF LosesMemory
    <3>2. sent[v] \o <<>> = sent[v]
      BY <1>0
    <3>. QED  BY <3>1, <3>2
  <2>2. CASE v # w
    BY <1>0, <1>1, <1>3, <2>2 DEF LosesMemory
  <2>. QED  BY <2>1, <2>2
<1>3a. ASSUME NEW w \in Writers, Start(w) \/ Kill(w)  PROVE added'[v] = sent'[v] \o queue'[v]
  <2>1. LosesMemory(w) /\ Frames(w)
    BY <1>0, <1>3a DEF Start, Kill
  <2>. QED  BY <1>3, <2>1
<1>3b. ASSUME NEW w \in Writers, Accumulate(w)  PROVE added'[v] = sent'[v] \o queue'[v]
  <2>1. Alive(v) /\ Frames(w)
    BY <1>0, <1>3b DEF Accumulate
  <2>2. CASE LosesMemory(w)
    BY <1>3, <2>1, <2>2
  <2>3. CASE queue' = queue /\ added' = added
    BY <1>2, <2>1, <2>3
  <2>. QED  BY <1>3b, <2>2, <2>3 DEF Accumulate
<1>4. ASSUME NEW w \in Writers, AddRecords(w)  PROVE added'[v] = sent'[v] \o queue'[v]
  <2>1. Alive(v) /\ sent' = sent
    BY <1>0, <1>4 DEF AddRecords
  <2>2. CASE queue' = queue /\ added' = added
    BY <1>1, <2>1, <2>2
  <2>3. CASE /\ queue' = [queue EXCEPT ![w] = Append(queue[w], record[1])]
             /\ added' = [added EXCEPT ![w] = Append(added[w], record[1])]
    <3>1. CASE v = w
      <4>1. record[1] \in Records
        BY <1>0, ConstantFacts
      <4>2. Append(sent[v] \o queue[v], record[1]) = sent[v] \o Append(queue[v], record[1])
        <5>1. sent[v] \in Seq(Records) /\ queue[v] \in Seq(Records)
          BY <1>0
        <5>. QED  BY <4>1, <5>1, AppendToConcat
      <4>3. added'[v] = Append(added[v], record[1])
        BY <1>0, <2>3, <3>1, Zenon
      <4>4. queue'[v] = Append(queue[v], record[1])
        BY <1>0, <2>3, <3>1, Zenon
      <4>5. added[v] = sent[v] \o queue[v] /\ sent'[v] = sent[v]
        BY <1>1, <2>1
      <4>. QED  BY <4>2, <4>3, <4>4, <4>5
    <3>2. CASE v # w
      BY <1>0, <1>1, <2>1, <2>3, <3>2
    <3>. QED  BY <3>1, <3>2
  <2>4. CASE LosesMemory(w)
    <3>1. Frames(w)
      BY <1>0, <1>4 DEF AddRecords
    <3>. QED  BY <1>3, <2>4, <3>1
  <2>. QED  BY <1>4, <2>2, <2>3, <2>4 DEF AddRecords
<1>5. ASSUME NEW w \in Writers, Send(w)  PROVE added'[v] = sent'[v] \o queue'[v]
  <2>1. Alive(v) /\ added' = added
    BY <1>0, <1>5 DEF Send, Go
  <2>2. CASE queue' = queue /\ sent' = sent
    BY <1>1, <2>1, <2>2
  <2>3. CASE /\ sent' = [sent EXCEPT ![w] = sent[w] \o queue[w]]
             /\ queue' = [queue EXCEPT ![w] = <<>>]
    <3>1. CASE v = w
      <4>1. sent'[v] = sent[v] \o queue[v] /\ queue'[v] = <<>>
        BY <1>0, <2>3, <3>1
      <4>2. sent'[v] \in Seq(Records)
        BY <1>0, <4>1
      <4>3. sent'[v] \o <<>> = sent'[v]
        BY <4>2
      <4>. QED  BY <1>1, <2>1, <4>1, <4>3
    <3>2. CASE v # w
      BY <1>0, <1>1, <2>1, <2>3, <3>2
    <3>. QED  BY <3>1, <3>2
  <2>. QED  BY <1>5, <2>2, <2>3 DEF Send
<1>6. ASSUME NEW w \in Writers,
             \/ \E id \in Ids, n \in Quantities : Call(w, id, n)
             \/ Pass(w) \/ Find(w) \/ TakeSlot(w) \/ WriteCount(w) \/ OpenSlot(w) \/ FillSlot(w)
             \/ NoteSlot(w) \/ WriteSum(w) \/ TestFlag(w) \/ RaiseFlag(w) \/ ReadClock(w)
             \/ TestEmpty(w) \/ ResetCount(w) \/ ResetIndex(w) \/ ClearFlag(w)
      PROVE  Same /\ Alive(v)
  <2>1. Same
    BY <1>6 DEF Call, Pass, Find, TakeSlot, WriteCount, OpenSlot, FillSlot, NoteSlot, WriteSum, TestFlag,
                RaiseFlag, ReadClock, TestEmpty, ResetCount, ResetIndex, ClearFlag, local, history
  <2>2. Alive(w) /\ \A u \in Writers : u # w => pc'[u] = pc[u]
    BY <1>0, <1>6 DEF Call, Pass, Find, TakeSlot, WriteCount, OpenSlot, FillSlot, NoteSlot, WriteSum, TestFlag,
                      RaiseFlag, ReadClock, TestEmpty, ResetCount, ResetIndex, ClearFlag, Go
  <2>. QED  BY <2>1, <2>2
<1>7. CASE Tick \/ Receive \/ UNCHANGED vars
  BY <1>2, <1>7 DEF Tick, Receive, vars, local, history
<1>. QED  BY <1>2, <1>3a, <1>3b, <1>4, <1>5, <1>6, <1>7 DEF Next, Log, Flush

(* What a process has added to its buffer is what it has sent followed by   *)
(* what still waits, whatever sends fail.                                   *)
THEOREM BufferKept == Spec => []KeptUntilSent
<1>1. Init => KeptUntilSent
  BY DEF Init, KeptUntilSent
<1>. QED  BY <1>1, Typed, NextKept, PTL DEF Spec

(* The flag is up only while a process that raised it is between raising    *)
(* and lowering it, or one has died there.                                  *)
FlagOwned == raised => orphaned \/ \E w \in Writers : pc[w] \in Holding

(* No process leaves the flushing code with the flag up: a caller of dDBLog *)
(* waits for a process that is in it, unless one has died there.            *)
THEOREM FlagIsOwned == Spec => []FlagOwned
<1>1. Init => FlagOwned
  BY DEF Init, FlagOwned
<1>2. TInv /\ FlagOwned /\ [Next]_vars => FlagOwned'
  <2>. SUFFICES ASSUME TInv, FlagOwned, [Next]_vars, raised'  PROVE FlagOwned'
    BY DEF FlagOwned
  <2>0. pc \in [Writers -> PCs]
    BY DEF TInv, TypeOK
  <2>1. ASSUME NEW w \in Writers, RaiseFlag(w)  PROVE FlagOwned'
    BY <2>0, <2>1 DEF RaiseFlag, Go, FlagOwned, Holding
  <2>2. ASSUME NEW w \in Writers, AddRecords(w) \/ Kill(w)  PROVE FlagOwned'
    <3>1. \A u \in Writers : u # w => pc'[u] = pc[u]
      BY <2>0, <2>2 DEF AddRecords, Kill
    <3>2. raised' = raised /\ (orphaned => orphaned') /\ (pc[w] \in Holding => orphaned' \/ pc'[w] \in Holding)
      BY <2>0, <2>2 DEF AddRecords, Kill, shared, Holding
    <3>. QED  BY <3>1, <3>2 DEF FlagOwned
  <2>3. ASSUME NEW w \in Writers,
               \/ \E id \in Ids, n \in Quantities : Call(w, id, n)
               \/ Start(w) \/ Pass(w) \/ Find(w) \/ TakeSlot(w) \/ WriteCount(w) \/ OpenSlot(w) \/ FillSlot(w)
               \/ NoteSlot(w) \/ Accumulate(w) \/ WriteSum(w) \/ TestFlag(w) \/ ReadClock(w) \/ TestEmpty(w)
               \/ Send(w) \/ ResetCount(w) \/ ResetIndex(w)
        PROVE  FlagOwned'
    <3>1. \A u \in Writers : u # w => pc'[u] = pc[u]
      BY <2>0, <2>3 DEF Call, Start, Pass, Find, TakeSlot, WriteCount, OpenSlot, FillSlot, NoteSlot, Accumulate,
                        WriteSum, TestFlag, ReadClock, TestEmpty, Send, ResetCount, ResetIndex, Go
    <3>2. raised' = raised /\ orphaned' = orphaned
      BY <2>3 DEF Call, Start, Pass, Find, TakeSlot, WriteCount, OpenSlot, FillSlot, NoteSlot, Accumulate,
                  WriteSum, TestFlag, ReadClock, TestEmpty, Send, ResetCount, ResetIndex, shared, history
    <3>3. pc[w] \in Holding => pc'[w] \in Holding
      BY <2>0, <2>3 DEF Call, Start, Pass, Find, TakeSlot, WriteCount, OpenSlot, FillSlot, NoteSlot, Accumulate,
                        WriteSum, TestFlag, ReadClock, TestEmpty, Send, ResetCount, ResetIndex, Go, Holding
    <3>. QED  BY <3>1, <3>2, <3>3 DEF FlagOwned
  <2>4. ASSUME NEW w \in Writers, ClearFlag(w)  PROVE FALSE
    BY <2>4 DEF ClearFlag
  <2>5. CASE Tick \/ Receive \/ UNCHANGED vars
    BY <2>5 DEF Tick, Receive, vars, shared, local, history, FlagOwned
  <2>. QED  BY <2>1, <2>2, <2>3, <2>4, <2>5 DEF Next, Log, Flush
<1>. QED  BY <1>1, <1>2, Typed, PTL DEF Spec
-----------------------------------------------------------------------------
(***************************************************************************)
(* One process that was started once.  Its kinds get slots in the order of  *)
(* their numbers; the kind numbered MaxKind gets none.  What its current    *)
(* call counts is owed until it is recorded.                                *)
(***************************************************************************)
Owed(w, id) == IF arg[w].id = id THEN arg[w].n ELSE 0

(* The first m kinds have slots, as far as there are slots. *)
Kept(m) == \A b \in Blocks : block[b] = IF b < m /\ b + 1 \in Slots THEN b + 1 ELSE 0

(* Their records are up to date; nothing is recorded of the other kinds. *)
Listed(w, m) == \A i \in 1 .. m : i \in Slots =>
                    /\ record[i].id = kinds[i]
                    /\ tally[kinds[i]] = Plus(record[i].n, Owed(w, kinds[i]))
Unlisted(w, m) == \A id \in Ids :
                    (\A i \in 1 .. Len(kinds) : i <= m \/ i = MaxKind => kinds[i] # id)
                        => tally[id] = Owed(w, id)
Tallied(w, m) == Listed(w, m) /\ Unlisted(w, m)

(* A count of slots that fits m kinds; a kind without a slot takes one each *)
(* time it is logged.                                                       *)
Fits(c, m) == IF m < MaxKind THEN c = m ELSE c >= MaxKind
Counted(m) == Fits(count, m)

Sound(w) == Kept(Len(kinds)) /\ Tallied(w, Len(kinds)) /\ Counted(Len(kinds))

(* The kind of the call is the last one and has no slot yet. *)
Fresh(w) == /\ at[w] + 1 = Len(kinds) /\ kinds[Len(kinds)] = arg[w].id
            /\ Kept(at[w]) /\ Tallied(w, at[w])

(* Its slot is taken and not yet noted in the index. *)
Filling(w) == Fresh(w) /\ Len(kinds) < MaxKind /\ count = Len(kinds) /\ slot[w] = count

Found(w) == at[w] + 1 \in 1 .. Len(kinds) /\ kinds[at[w] + 1] = arg[w].id

(* The sum that `+=` is to write is the tally of the kind. *)
Summing(w) == /\ Found(w) /\ slot[w] = at[w] + 1 /\ slot[w] \in Slots
              /\ Kept(Len(kinds)) /\ Counted(Len(kinds)) /\ Unlisted(w, Len(kinds))
              /\ \A i \in 1 .. Len(kinds) : i \in Slots =>
                    /\ record[i].id = kinds[i]
                    /\ tally[kinds[i]] = IF i = slot[w] THEN arg[w].n ELSE record[i].n

Solo(w) ==
    /\ \A v \in Writers : v # w => pc[v] = "down"
    /\ pc[w] \in Settled \cup {"spin", "find"} => Sound(w)
    /\ pc[w] = "count" => Found(w) /\ (Sound(w) \/ (Fresh(w) /\ Counted(at[w])))
    /\ pc[w] = "take" => Fresh(w) /\ Fits(slot[w] + 1, Len(kinds))
    /\ pc[w] = "open" => Fresh(w) /\ Counted(Len(kinds))
    /\ pc[w] = "fill" => Filling(w)
    /\ pc[w] \in {"amount", "note"} => Filling(w) /\ record[slot[w]].id = arg[w].id
    /\ pc[w] = "note" => record[slot[w]].n = arg[w].n
    /\ pc[w] = "sum" => Summing(w)
    /\ pc[w] \in {"wipe", "erase"} => count = 0
    /\ pc[w] = "dead" => Len(kinds) = MaxKind

Untouched == /\ \A v \in Writers : pc[v] = "down"
             /\ count = 0 /\ kinds = <<>>
             /\ block = [b \in Blocks |-> 0]

SoloInv == /\ \A v \in Writers : pc[v] \notin Recording => arg[v] = Zero
           /\ starts = 0 => Untouched
           /\ starts = 1 => \E w \in Writers : Solo(w)

(* Adding nothing, and adding to nothing. *)
LEMMA PlusZero == \A n \in 0 .. CountSpace - 1 : Plus(n, 0) = n /\ Plus(0, n) = n
BY ConstantFacts DEF Plus

(* What is known of the lists of kinds, slots and records in any state. *)
LEMMA ListFacts ==
    ASSUME TInv
    PROVE  /\ Len(kinds) \in Nat /\ Len(kinds) <= MaxKind /\ DOMAIN kinds = 1 .. Len(kinds)
           /\ \A i \in 1 .. Len(kinds) : kinds[i] \in Ids
           /\ \A i, j \in 1 .. Len(kinds) : kinds[i] = kinds[j] => i = j
           /\ \A i \in Slots : record[i].n \in 0 .. CountSpace - 1
           /\ \A v \in Writers : arg[v].n \in 0 .. CountSpace - 1
<1>1. kinds \in Seq(Ids) /\ \A i, j \in DOMAIN kinds : kinds[i] = kinds[j] => i = j
  BY DEF TInv, TypeOK, KindsDistinct
<1>2. Len(kinds) <= MaxKind
  BY <1>1, DistinctFits
<1>3. record \in [Slots -> Records] /\ arg \in [Writers -> Records]
  BY DEF TInv, TypeOK
<1>. QED  BY <1>1, <1>2, <1>3 DEF Records

(* A call adds to the tally what it owes. *)
LEMMA SoloCall ==
    ASSUME TInv, SoloInv, starts = 1, NEW w \in Writers, Solo(w),
           NEW id \in Ids, NEW n \in Quantities, Call(w, id, n)
    PROVE  Sound(w)'
<1>1. Sound(w) /\ arg[w] = Zero
  BY DEF Call, Go, Solo, SoloInv, Settled, Recording
<1>2. /\ kinds' = kinds /\ block' = block /\ record' = record /\ count' = count
      /\ tally' = [tally EXCEPT ![id] = Plus(tally[id], n)]
      /\ arg' = [arg EXCEPT ![w] = [id |-> id, n |-> n]]
  BY DEF Call, shared
<1>3. arg'[w] = [id |-> id, n |-> n] /\ n \in 0 .. CountSpace - 1
  BY <1>2, ConstantFacts DEF TInv, TypeOK
<1>4. /\ \A k \in Ids : Owed(w, k) = 0
      /\ \A k \in Ids : Owed(w, k)' = IF k = id THEN n ELSE 0
  BY <1>1, <1>3 DEF Owed, Zero
<1>5. \A k \in Ids : tally'[k] = IF k = id THEN Plus(tally[k], n) ELSE tally[k]
  BY <1>2 DEF TInv, TypeOK
<1>6. Listed(w, Len(kinds))'
  <2>. SUFFICES ASSUME NEW i \in 1 .. Len(kinds), i \in Slots
                PROVE  /\ record[i].id = kinds[i]
                       /\ tally'[kinds[i]] = Plus(record[i].n, IF kinds[i] = id THEN n ELSE 0)
    BY <1>2, <1>3, ListFacts DEF Listed, Owed
  <2>1. kinds[i] \in Ids /\ record[i].n \in 0 .. CountSpace - 1
    BY ListFacts
  <2>2. record[i].id = kinds[i] /\ tally[kinds[i]] = record[i].n
    BY <1>1, <1>4, <2>1, PlusZero DEF Sound, Tallied, Listed
  <2>3. CASE kinds[i] = id
    BY <1>5, <2>1, <2>2, <2>3
  <2>4. CASE kinds[i] # id
    <3>1. tally'[kinds[i]] = record[i].n
      BY <1>5, <2>1, <2>2, <2>4
    <3>. QED  BY <2>1, <2>2, <2>4, <3>1, PlusZero
  <2>. QED  BY <2>3, <2>4
<1>7. Unlisted(w, Len(kinds))'
  <2>. SUFFICES ASSUME NEW k \in Ids,
                       \A i \in 1 .. Len(kinds) : i <= Len(kinds) \/ i = MaxKind => kinds[i] # k
                PROVE  tally'[k] = Owed(w, k)'
    BY <1>2 DEF Unlisted
  <2>1. tally[k] = 0
    BY <1>1, <1>4 DEF Sound, Tallied, Unlisted
  <2>. QED  BY <1>3, <1>4, <1>5, <2>1, PlusZero
<1>8. Kept(Len(kinds))' /\ Counted(Len(kinds))'
  BY <1>1, <1>2 DEF Sound, Kept, Counted, Fits
<1>. QED  BY <1>6, <1>7, <1>8 DEF Sound, Tallied

(* The index answers with the number the kind has or the next one. *)
LEMMA SoloFind ==
    ASSUME TInv, NEW w \in Writers, Solo(w), Find(w)
    PROVE  Found(w)' /\ (Sound(w)' \/ (Fresh(w)' /\ Counted(at[w])'))
<1>1. Sound(w)
  BY DEF Find, Go, Solo
<1>2. /\ block' = block /\ record' = record /\ count' = count /\ tally' = tally /\ arg' = arg
      /\ arg'[w].id = arg[w].id
  BY DEF Find, history
<1>3. /\ kinds' \in Seq(Ids) /\ at'[w] + 1 \in DOMAIN kinds' /\ kinds'[at'[w] + 1] = arg[w].id
      /\ \/ kinds' = kinds
         \/ /\ kinds' = Append(kinds, arg[w].id)
            /\ \A i \in DOMAIN kinds : kinds[i] # arg[w].id
            /\ at'[w] = Len(kinds)
  BY FindFacts
<1>4. Found(w)'
  BY <1>2, <1>3 DEF Found
<1>5. CASE kinds' = kinds
  BY <1>1, <1>2, <1>4, <1>5 DEF Sound, Kept, Tallied, Listed, Unlisted, Counted, Fits, Owed
<1>6. CASE /\ kinds' = Append(kinds, arg[w].id)
           /\ \A i \in DOMAIN kinds : kinds[i] # arg[w].id
           /\ at'[w] = Len(kinds)
  <2>. DEFINE m == Len(kinds)
  <2>1. m \in Nat /\ DOMAIN kinds = 1 .. m /\ kinds \in Seq(Ids) /\ m <= MaxKind
    BY ListFacts DEF TInv, TypeOK
  <2>2. /\ Len(kinds') = m + 1 /\ DOMAIN kinds' = 1 .. m + 1
        /\ kinds'[m + 1] = arg[w].id /\ \A i \in 1 .. m : kinds'[i] = kinds[i]
    <3>1. arg[w].id \in Ids
      BY DEF Find, Go, TInv, ArgsReal, Recording
    <3>. HIDE DEF m
    <3>. QED  BY <1>6, <2>1, <3>1 DEF m
  <2>3. Kept(at[w])' /\ Counted(at[w])'
    BY <1>1, <1>2, <1>6 DEF Sound, Kept, Counted, Fits
  <2>4. Listed(w, at[w])'
    BY <1>1, <1>2, <1>6, <2>2 DEF Sound, Tallied, Listed, Owed
  <2>5. Unlisted(w, at[w])'
    <3>. SUFFICES ASSUME NEW k \in Ids,
                         \A i \in 1 .. m + 1 : i <= m \/ i = MaxKind => kinds'[i] # k
                  PROVE  tally[k] = Owed(w, k)
      BY <1>2, <1>6, <2>2 DEF Unlisted, Owed
    <3>1. \A i \in 1 .. m : kinds[i] # k
      BY <2>1, <2>2
    <3>. QED  BY <1>1, <3>1 DEF Sound, Tallied, Unlisted
  <2>. QED  BY <1>2, <1>4, <1>6, <2>2, <2>3, <2>4, <2>5 DEF Fresh, Tallied
<1>. QED  BY <1>3, <1>5, <1>6

(* A kind without a slot is the last one. *)
LEMMA SoloTakeSlot ==
    ASSUME TInv, NEW w \in Writers, Solo(w), TakeSlot(w)
    PROVE  Fresh(w)' /\ Fits(slot[w] + 1, Len(kinds))'
<1>. DEFINE m == Len(kinds)
<1>1. /\ Found(w) /\ (Sound(w) \/ (Fresh(w) /\ Counted(at[w])))
      /\ block[at[w]] = 0 /\ slot'[w] = count
      /\ kinds' = kinds /\ block' = block /\ record' = record /\ at' = at /\ arg' = arg /\ tally' = tally
  BY DEF TakeSlot, Go, Solo, shared, history, TInv, TypeOK
<1>2. at[w] \in Blocks /\ at[w] \in Nat /\ count \in Nat
  BY DEF TInv, TypeOK, Blocks
<1>3. CASE Fresh(w) /\ Counted(at[w])
  <2>1. Fits(slot[w] + 1, Len(kinds))'
    <3>1. at[w] + 1 = m /\ Counted(at[w]) /\ slot'[w] = count /\ kinds' = kinds /\ m <= MaxKind
      BY <1>1, <1>3, ListFacts DEF Fresh
    <3>. HIDE DEF m
    <3>2. count = at[w] /\ (IF m < MaxKind THEN count + 1 = m ELSE count + 1 >= MaxKind)
      BY <1>2, <3>1, ConstantFacts DEF Counted, Fits
    <3>. QED  BY <3>1, <3>2 DEF Fits, m
  <2>. QED  BY <1>1, <1>3, <2>1 DEF Fresh, Kept, Tallied, Listed, Unlisted, Owed
<1>4. CASE Sound(w)
  <2>1. at[w] + 1 = MaxKind /\ m = MaxKind
    <3>1. block[at[w]] = IF at[w] < m /\ at[w] + 1 \in Slots THEN at[w] + 1 ELSE 0
      BY <1>2, <1>4 DEF Sound, Kept
    <3>2. at[w] + 1 \in 1 .. m
      BY <1>1 DEF Found
    <3>3. block[at[w]] = 0 /\ m \in Nat /\ m <= MaxKind
      BY <1>1, ListFacts
    <3>. HIDE DEF m
    <3>. QED  BY <1>2, <3>1, <3>2, <3>3, ConstantFacts DEF Slots
  <2>2. Kept(at[w])
    BY <1>2, <1>4, <2>1, ConstantFacts DEF Sound, Kept, Slots, Blocks
  <2>3. Listed(w, at[w])
    BY <1>2, <1>4, <2>1 DEF Sound, Tallied, Listed
  <2>4. Unlisted(w, at[w])
    <3>. SUFFICES ASSUME NEW k \in Ids,
                         \A i \in 1 .. m : i <= at[w] \/ i = MaxKind => kinds[i] # k
                  PROVE  tally[k] = Owed(w, k)
      BY DEF Unlisted
    <3>1. \A i \in 1 .. m : kinds[i] # k
      BY <1>2, <2>1, ConstantFacts
    <3>. QED  BY <1>4, <3>1 DEF Sound, Tallied, Unlisted
  <2>5. Fits(slot[w] + 1, Len(kinds))'
    BY <1>1, <1>2, <1>4, <2>1, ConstantFacts DEF Sound, Counted, Fits
  <2>. QED  BY <1>1, <2>1, <2>2, <2>3, <2>4, <2>5
            DEF Found, Fresh, Kept, Tallied, Listed, Unlisted, Owed
<1>. QED  BY <1>1, <1>3, <1>4

(* A slot there is goes to the kind; past the last slot the call is dropped, *)
(* and the kind is the one that is not counted.                              *)
LEMMA SoloOpenSlot ==
    ASSUME TInv, NEW w \in Writers, Solo(w), OpenSlot(w)
    PROVE  /\ pc'[w] = "fill" => Filling(w)'
           /\ pc'[w] = "idle" => Sound(w)'
           /\ pc'[w] \in {"fill", "idle"}
<1>. DEFINE m == Len(kinds)
<1>1. /\ Fresh(w) /\ Counted(m)
      /\ kinds' = kinds /\ block' = block /\ record' = record /\ count' = count /\ tally' = tally
  BY DEF OpenSlot, Solo, shared, history
<1>2. /\ pc \in [Writers -> PCs] /\ slot \in [Writers -> Nat] /\ arg \in [Writers -> Records]
      /\ at[w] \in Nat /\ count \in Nat
  BY DEF TInv, TypeOK, Blocks
<1>3. CASE count \in Slots
  <2>1. pc'[w] = "fill" /\ slot'[w] = count /\ at' = at /\ arg' = arg
    BY <1>2, <1>3 DEF OpenSlot
  <2>2. count = m /\ m < MaxKind
    <3>1. Counted(m) /\ m \in Nat
      BY <1>1, ListFacts
    <3>. HIDE DEF m
    <3>. QED  BY <1>2, <1>3, <3>1, ConstantFacts DEF Counted, Fits, Slots
  <2>. QED  BY <1>1, <2>1, <2>2 DEF Filling, Fresh, Kept, Tallied, Listed, Unlisted, Owed
<1>4. CASE count \notin Slots
  <2>1. pc'[w] = "idle" /\ arg'[w] = Zero
    BY <1>2, <1>4 DEF OpenSlot, EndsRecording
  <2>2. m = MaxKind /\ at[w] + 1 = m
    <3>1. Counted(m) /\ m \in Nat /\ m <= MaxKind /\ at[w] + 1 = m
      BY <1>1, ListFacts DEF Fresh
    <3>. HIDE DEF m
    <3>. QED  BY <1>2, <1>4, <3>1, ConstantFacts DEF Counted, Fits, Slots
  <2>3. Kept(m)' /\ Counted(m)'
    BY <1>1, <1>2, <2>2, ConstantFacts DEF Fresh, Kept, Slots, Blocks, Counted, Fits
  <2>4. Listed(w, m)'
    <3>. SUFFICES ASSUME NEW i \in 1 .. m, i \in Slots
                  PROVE  record[i].id = kinds[i] /\ tally[kinds[i]] = Plus(record[i].n, 0)
      BY <1>1, <2>1 DEF Listed, Owed, Zero
    <3>1. i <= at[w] /\ i # m
      BY <1>2, <2>2, ConstantFacts DEF Slots
    <3>2. kinds[i] # arg[w].id
      BY <1>1, <2>2, <3>1, ListFacts, ConstantFacts DEF Fresh
    <3>. QED  BY <1>1, <1>2, <3>1, <3>2 DEF Fresh, Tallied, Listed, Owed
  <2>5. Unlisted(w, m)'
    <3>. SUFFICES ASSUME NEW k \in Ids, \A i \in 1 .. m : i <= m \/ i = MaxKind => kinds[i] # k
                  PROVE  tally[k] = 0
      BY <1>1, <2>1 DEF Unlisted, Owed, Zero
    <3>1. \A i \in 1 .. m : kinds[i] # k
      OBVIOUS
    <3>2. arg[w].id # k
      BY <1>1, <2>2, <3>1, ConstantFacts DEF Fresh
    <3>. QED  BY <1>1, <3>1, <3>2 DEF Fresh, Tallied, Unlisted, Owed
  <2>. QED  BY <1>1, <2>1, <2>3, <2>4, <2>5 DEF Sound, Tallied
<1>. QED  BY <1>3, <1>4

(* The fields of a record that is being filled concern no other kind. *)
LEMMA SoloFillSlot ==
    ASSUME TInv, NEW w \in Writers, Solo(w), FillSlot(w)
    PROVE  /\ Filling(w)' /\ record'[slot'[w]].id = arg'[w].id
           /\ pc'[w] = "note" => record'[slot'[w]].n = arg'[w].n
           /\ pc'[w] \in {"amount", "note"}
<1>. DEFINE m == Len(kinds)
            s == slot[w]
<1>1. /\ Fresh(w) /\ m < MaxKind /\ count = m /\ s = m /\ at[w] + 1 = m
      /\ kinds' = kinds /\ count' = count /\ block' = block /\ tally' = tally
      /\ arg' = arg /\ at' = at /\ slot' = slot
  BY DEF FillSlot, Go, Solo, Filling, Fresh, history
<1>2. /\ record \in [Slots -> Records] /\ arg[w] \in Records /\ pc \in [Writers -> PCs]
      /\ at[w] \in Nat /\ m \in Nat /\ s \in Slots
  <2>1. /\ record \in [Slots -> Records] /\ arg[w] \in Records /\ pc \in [Writers -> PCs]
        /\ at[w] \in Nat /\ m \in Nat
    BY ListFacts DEF TInv, TypeOK, Blocks
  <2>2. m < MaxKind /\ s = m /\ at[w] + 1 = m
    BY <1>1
  <2>. HIDE DEF s, m
  <2>3. s \in Slots
    BY <2>1, <2>2, ConstantFacts DEF Slots
  <2>. QED  BY <2>1, <2>3
<1>3. \/ /\ pc'[w] = "amount"
         /\ record' = [record EXCEPT ![s] = [record[s] EXCEPT !.id = arg[w].id]]
      \/ /\ pc'[w] = "note" /\ record[s].id = arg[w].id
         /\ record' = [record EXCEPT ![s] = [record[s] EXCEPT !.n = arg[w].n]]
  <2>1. \/ /\ Go(w, "fill", "amount")
           /\ record' = [record EXCEPT ![s] = [record[s] EXCEPT !.id = arg[w].id]]
        \/ /\ Go(w, "amount", "note")
           /\ record' = [record EXCEPT ![s] = [record[s] EXCEPT !.n = arg[w].n]]
    BY Zenon DEF FillSlot
  <2>2. pc[w] = "amount" => record[s].id = arg[w].id
    BY DEF Solo
  <2>3. /\ Go(w, "fill", "amount") => pc'[w] = "amount"
        /\ Go(w, "amount", "note") => pc[w] = "amount" /\ pc'[w] = "note"
    BY <1>2 DEF Go
  <2>. QED  BY <2>1, <2>2, <2>3, Zenon
<1>4. /\ \A i \in Slots : i # s => record'[i] = record[i]
      /\ record'[s].id = arg[w].id
      /\ pc'[w] = "note" => record'[s].n = arg[w].n
      /\ pc'[w] \in {"amount", "note"}
  <2>. HIDE DEF s
  <2>. QED  BY <1>2, <1>3 DEF Records
<1>5. Listed(w, at[w])'
  <2>. SUFFICES ASSUME NEW i \in 1 .. at[w], i \in Slots
                PROVE  /\ record'[i].id = kinds[i]
                       /\ tally[kinds[i]] = Plus(record'[i].n, Owed(w, kinds[i]))
    BY <1>1 DEF Listed, Owed
  <2>1. record'[i] = record[i]
    BY <1>1, <1>2, <1>4
  <2>. QED  BY <1>1, <2>1 DEF Fresh, Tallied, Listed
<1>6. Fresh(w)'
  BY <1>1, <1>5 DEF Fresh, Kept, Tallied, Unlisted, Owed
<1>. QED  BY <1>1, <1>4, <1>6 DEF Filling

(* The record of a kind that gets its slot counts what the call owes. *)
LEMMA SoloNoteSlot ==
    ASSUME TInv, NEW w \in Writers, Solo(w), NoteSlot(w)
    PROVE  Sound(w)'
<1>. DEFINE m == Len(kinds)
<1>1. /\ Fresh(w) /\ m < MaxKind /\ count = m /\ slot[w] = m
      /\ record[m].id = arg[w].id /\ record[m].n = arg[w].n
      /\ kinds' = kinds /\ count' = count /\ tally' = tally
      /\ record' = record /\ block' = [block EXCEPT ![at[w]] = m]
  BY DEF NoteSlot, Go, Solo, Filling, history
<1>2. /\ record \in [Slots -> Records] /\ block \in [Blocks -> Nat] /\ arg \in [Writers -> Records]
      /\ at[w] \in Nat /\ at[w] \in Blocks /\ m \in Nat
  BY ListFacts DEF TInv, TypeOK, Blocks
<1>3. arg'[w] = Zero /\ at[w] = m - 1 /\ m \in Slots /\ arg[w].id = kinds[m]
  <2>1. arg' = [arg EXCEPT ![w] = Zero]
    BY DEF NoteSlot, EndsRecording
  <2>2. at[w] + 1 = m /\ kinds[m] = arg[w].id
    BY <1>1 DEF Fresh
  <2>3. m < MaxKind
    BY <1>1
  <2>. HIDE DEF m
  <2>. QED  BY <1>2, <2>1, <2>2, <2>3, ConstantFacts DEF Slots
<1>4. /\ block'[m - 1] = m /\ \A b \in Blocks : b # m - 1 => block'[b] = block[b]
  BY <1>1, <1>2, <1>3
<1>5. Kept(m)' /\ Counted(m)'
  <2>. SUFFICES ASSUME NEW b \in Blocks
                PROVE  block'[b] = IF b < m /\ b + 1 \in Slots THEN b + 1 ELSE 0
    BY <1>1 DEF Kept, Counted, Fits
  <2>1. block[b] = IF b < m - 1 /\ b + 1 \in Slots THEN b + 1 ELSE 0
    BY <1>1, <1>3 DEF Fresh, Kept
  <2>. QED  BY <1>2, <1>3, <1>4, <2>1 DEF Blocks
<1>6. Listed(w, m)'
  <2>. SUFFICES ASSUME NEW i \in 1 .. m, i \in Slots
                PROVE  record'[i].id = kinds[i] /\ tally[kinds[i]] = Plus(record'[i].n, 0)
    BY <1>1, <1>3 DEF Listed, Owed, Zero
  <2>1. CASE i = m
    <3>1. \A j \in 1 .. m : j <= m - 1 \/ j = MaxKind => kinds[j] # kinds[m]
      BY <1>1, <1>2, ListFacts
    <3>2. kinds[m] \in Ids
      BY <1>2, <1>3, ListFacts DEF Slots
    <3>3. tally[kinds[m]] = arg[w].n
      BY <1>1, <1>3, <3>1, <3>2 DEF Fresh, Tallied, Unlisted, Owed
    <3>4. Plus(arg[w].n, 0) = arg[w].n
      BY ListFacts, PlusZero
    <3>. QED  BY <1>1, <1>3, <2>1, <3>3, <3>4
  <2>2. CASE i # m
    <3>1. i <= m - 1 /\ kinds[i] # arg[w].id
      <4>1. m \in 1 .. m /\ m \in Nat
        BY <1>2, <1>3 DEF Slots
      <4>2. kinds[i] = kinds[m] => i = m
        BY <4>1, ListFacts
      <4>. HIDE DEF m
      <4>. QED  BY <1>3, <2>2, <4>1, <4>2
    <3>2. i \in 1 .. at[w] /\ Listed(w, at[w])
      BY <1>1, <1>2, <1>3, <3>1 DEF Fresh, Tallied
    <3>3. record[i].id = kinds[i] /\ tally[kinds[i]] = Plus(record[i].n, 0)
      BY <3>1, <3>2 DEF Listed, Owed
    <3>. QED  BY <1>1, <3>3
  <2>. QED  BY <2>1, <2>2
<1>7. Unlisted(w, m)'
  <2>. SUFFICES ASSUME NEW k \in Ids, \A i \in 1 .. m : i <= m \/ i = MaxKind => kinds[i] # k
                PROVE  tally[k] = 0
    BY <1>1, <1>3 DEF Unlisted, Owed, Zero
  <2>1. \A i \in 1 .. m : kinds[i] # k
    OBVIOUS
  <2>2. arg[w].id # k
    BY <1>2, <1>3, <2>1 DEF Slots
  <2>. QED  BY <1>1, <2>1, <2>2 DEF Fresh, Tallied, Unlisted, Owed
<1>. QED  BY <1>1, <1>5, <1>6, <1>7 DEF Sound, Tallied

(* A kind that has a slot has its own, and the sum is what is owed there. *)
LEMMA SoloAccumulate ==
    ASSUME TInv, NEW w \in Writers, Solo(w), Accumulate(w)
    PROVE  pc'[w] = "sum" /\ Summing(w)'
<1>. DEFINE m == Len(kinds)
            s == at[w] + 1
<1>1. /\ Found(w) /\ (Sound(w) \/ Fresh(w)) /\ block[at[w]] # 0
      /\ kinds' = kinds /\ block' = block /\ count' = count /\ tally' = tally /\ record' = record
  BY DEF Accumulate, Solo, shared
<1>2. /\ record \in [Slots -> Records] /\ arg \in [Writers -> Records] /\ pc \in [Writers -> PCs]
      /\ slot \in [Writers -> Nat] /\ at[w] \in Nat /\ at[w] \in Blocks /\ m \in Nat
  BY ListFacts DEF TInv, TypeOK, Blocks
<1>3. Sound(w)
  <2>1. CASE Fresh(w)
    <3>1. block[at[w]] = 0
      BY <1>2, <2>1 DEF Fresh, Kept
    <3>. QED  BY <1>1, <3>1
  <2>. QED  BY <1>1, <2>1
<1>4. block[at[w]] = s /\ s \in Slots /\ s \in 1 .. m /\ kinds[s] = arg[w].id
  BY <1>1, <1>2, <1>3 DEF Sound, Kept, Found
<1>5. /\ pc'[w] = "sum" /\ at' = at /\ slot'[w] = s
      /\ arg'[w].id = arg[w].id /\ arg'[w].n = Plus(record[s].n, arg[w].n)
  <2>1. /\ pc' = [pc EXCEPT ![w] = "sum"] /\ at' = at /\ slot' = [slot EXCEPT ![w] = s]
        /\ arg' = [arg EXCEPT ![w] = [arg[w] EXCEPT !.n = Plus(record[s].n, arg[w].n)]]
    BY <1>4 DEF Accumulate
  <2>. HIDE DEF s
  <2>. QED  BY <1>2, <2>1 DEF Records
<1>6. Kept(m)' /\ Counted(m)' /\ Found(w)'
  BY <1>1, <1>3, <1>5 DEF Sound, Kept, Counted, Fits, Found
<1>7. ASSUME NEW i \in 1 .. m, i \in Slots
      PROVE  /\ record[i].id = kinds[i]
             /\ tally[kinds[i]] = IF i = s THEN arg'[w].n ELSE record[i].n
  <2>1. record[i].id = kinds[i] /\ tally[kinds[i]] = Plus(record[i].n, Owed(w, kinds[i]))
    BY <1>3, <1>7 DEF Sound, Tallied, Listed
  <2>2. CASE i = s
    BY <1>4, <1>5, <2>1, <2>2 DEF Owed
  <2>3. CASE i # s
    <3>1. kinds[i] # arg[w].id
      <4>. HIDE DEF s
      <4>. QED  BY <1>4, <2>3, ListFacts
    <3>2. tally[kinds[i]] = Plus(record[i].n, 0)
      BY <2>1, <3>1 DEF Owed
    <3>. QED  BY <1>7, <2>1, <2>3, <3>2, ListFacts, PlusZero
  <2>. QED  BY <2>2, <2>3
<1>8. Unlisted(w, m)'
  <2>. SUFFICES ASSUME NEW k \in Ids, \A i \in 1 .. m : i <= m \/ i = MaxKind => kinds[i] # k
                PROVE  tally[k] = Owed(w, k)'
    BY <1>1 DEF Unlisted
  <2>1. tally[k] = Owed(w, k)
    BY <1>3 DEF Sound, Tallied, Unlisted
  <2>2. arg[w].id # k
    <3>. HIDE DEF s
    <3>. QED  BY <1>4
  <2>. QED  BY <1>5, <2>1, <2>2 DEF Owed
<1>. QED  BY <1>1, <1>4, <1>5, <1>6, <1>7, <1>8 DEF Summing

(* The record takes the sum. *)
LEMMA SoloWriteSum ==
    ASSUME TInv, NEW w \in Writers, Solo(w), WriteSum(w)
    PROVE  Sound(w)'
<1>. DEFINE m == Len(kinds)
            s == slot[w]
<1>1. /\ Summing(w)
      /\ kinds' = kinds /\ block' = block /\ count' = count /\ tally' = tally
      /\ arg' = [arg EXCEPT ![w] = Zero]
      /\ record' = [record EXCEPT ![s] = [record[s] EXCEPT !.n = arg[w].n]]
  BY DEF WriteSum, Go, EndsRecording, Solo, history
<1>2. /\ record \in [Slots -> Records] /\ arg \in [Writers -> Records]
      /\ s \in Slots /\ s \in 1 .. m /\ kinds[s] = arg[w].id
  BY <1>1 DEF Summing, Found, TInv, TypeOK
<1>3. /\ arg'[w] = Zero /\ record'[s].id = record[s].id /\ record'[s].n = arg[w].n
      /\ \A i \in Slots : i # s => record'[i] = record[i]
  <2>. HIDE DEF s
  <2>. QED  BY <1>1, <1>2 DEF Records
<1>4. Kept(m)' /\ Counted(m)'
  BY <1>1 DEF Summing, Kept, Counted, Fits
<1>5. Listed(w, m)'
  <2>. SUFFICES ASSUME NEW i \in 1 .. m, i \in Slots
                PROVE  record'[i].id = kinds[i] /\ tally[kinds[i]] = Plus(record'[i].n, 0)
    BY <1>1, <1>3 DEF Listed, Owed, Zero
  <2>1. record[i].id = kinds[i] /\ tally[kinds[i]] = IF i = s THEN arg[w].n ELSE record[i].n
    BY <1>1 DEF Summing
  <2>2. record'[i].id = kinds[i] /\ tally[kinds[i]] = record'[i].n
    <3>. HIDE DEF s
    <3>. QED  BY <1>3, <2>1
  <2>3. record'[i].n \in 0 .. CountSpace - 1
    <3>. HIDE DEF s
    <3>. QED  BY <1>3, ListFacts
  <2>. QED  BY <2>2, <2>3, PlusZero
<1>6. Unlisted(w, m)'
  <2>. SUFFICES ASSUME NEW k \in Ids, \A i \in 1 .. m : i <= m \/ i = MaxKind => kinds[i] # k
                PROVE  tally[k] = 0
    BY <1>1, <1>3 DEF Unlisted, Owed, Zero
  <2>1. tally[k] = Owed(w, k)
    BY <1>1 DEF Summing, Unlisted
  <2>2. arg[w].id # k
    <3>. HIDE DEF s
    <3>. QED  BY <1>2
  <2>. QED  BY <2>1, <2>2 DEF Owed
<1>. QED  BY <1>1, <1>4, <1>5, <1>6 DEF Sound, Tallied

(* After a flush nothing is recorded and no kind has a slot. *)
LEMMA SoloResetIndex ==
    ASSUME TInv, SoloInv, Cleared = Blocks, NEW w \in Writers, Solo(w), ResetIndex(w)
    PROVE  Sound(w)'
<1>1. count' = 0 /\ kinds' = <<>> /\ arg' = arg /\ arg[w] = Zero
  BY DEF ResetIndex, Go, Solo, SoloInv, Recording
<1>2. /\ \A b \in Blocks : block'[b] = 0
      /\ \A k \in Ids : tally'[k] = 0
  BY DEF ResetIndex
<1>3. Len(kinds') = 0
  BY <1>1
<1>4. \A b \in Blocks : b \in Nat
  BY DEF Blocks
<1>5. Kept(Len(kinds))' /\ Counted(Len(kinds))'
  BY <1>1, <1>2, <1>3, <1>4, ConstantFacts DEF Kept, Counted, Fits
<1>6. Listed(w, Len(kinds))'
  BY <1>3 DEF Listed
<1>7. Unlisted(w, Len(kinds))'
  BY <1>1, <1>2 DEF Unlisted, Owed, Zero
<1>. QED  BY <1>5, <1>6, <1>7 DEF Sound, Tallied

(* The first start finds the segments as they were created. *)
LEMMA SoloStart ==
    ASSUME TInv, SoloInv, starts = 0, NEW w \in Writers, Start(w)
    PROVE  Solo(w)'
<1>1. /\ Untouched /\ arg[w] = Zero
  BY DEF SoloInv, Recording, Untouched
<1>2. /\ kinds' = <<>> /\ count' = 0 /\ block' = block /\ arg' = arg
      /\ \A k \in Ids : tally'[k] = 0
      /\ pc'[w] = "idle" /\ \A v \in Writers : v # w => pc'[v] = "down"
  BY <1>1 DEF Start, Untouched, TInv, TypeOK
<1>3. Len(kinds') = 0 /\ \A b \in Blocks : b \in Nat
  BY <1>2 DEF Blocks
<1>4. Kept(Len(kinds))' /\ Counted(Len(kinds))'
  BY <1>1, <1>2, <1>3, ConstantFacts DEF Kept, Counted, Fits, Untouched
<1>5. Listed(w, Len(kinds))'
  BY <1>3 DEF Listed
<1>6. Unlisted(w, Len(kinds))'
  BY <1>1, <1>2 DEF Unlisted, Owed, Zero
<1>7. Sound(w)'
  BY <1>4, <1>5, <1>6 DEF Sound, Tallied
<1>. QED  BY <1>2, <1>7 DEF Solo, Settled

LEMMA SoundFrame ==
    ASSUME NEW w \in Writers, Sound(w), UNCHANGED <<kinds, block, record, count, tally, arg>>
    PROVE  Sound(w)'
BY DEF Sound, Kept, Tallied, Listed, Unlisted, Counted, Fits, Owed

(* Every step of the one process. *)
LEMMA SoloStep ==
    ASSUME TInv, SoloInv, Cleared = Blocks, starts = 1, NEW w \in Writers, Solo(w),
           \/ \E id \in Ids, n \in Quantities : Call(w, id, n)
           \/ Log(w) \/ Flush(w) \/ Kill(w)
    PROVE  Solo(w)'
<1>0. /\ pc \in [Writers -> PCs] /\ count \in Nat
      /\ \A v \in Writers : v # w => pc[v] = "down"
  BY DEF TInv, TypeOK, Solo
<1>. DEFINE Goes(to) == pc'[w] = to /\ \A v \in Writers : v # w => pc'[v] = "down"
<1>1. ASSUME NEW id \in Ids, NEW n \in Quantities, Call(w, id, n)  PROVE Solo(w)'
  <2>1. Goes("spin")
    BY <1>0, <1>1 DEF Call, Go
  <2>2. Sound(w)'
    BY <1>1, SoloCall
  <2>. QED  BY <2>1, <2>2 DEF Solo, Settled
<1>2. CASE Pass(w)
  <2>1. Goes("find") /\ Sound(w)
    BY <1>0, <1>2 DEF Pass, Go, Solo
  <2>2. Sound(w)'
    BY <1>2, <2>1, SoundFrame DEF Pass, shared, history
  <2>. QED  BY <2>1, <2>2 DEF Solo, Settled
<1>3. CASE Find(w)
  <2>1. Goes("count")
    BY <1>0, <1>3 DEF Find, Go
  <2>. QED  BY <1>3, <2>1, SoloFind DEF Solo, Settled
<1>4. CASE TakeSlot(w)
  <2>1. Goes("take")
    BY <1>0, <1>4 DEF TakeSlot, Go
  <2>. QED  BY <1>4, <2>1, SoloTakeSlot DEF Solo, Settled
<1>4a. CASE WriteCount(w)
  <2>1. Goes("open")
    BY <1>0, <1>4a DEF WriteCount, Go
  <2>2. Fresh(w) /\ Fits(slot[w] + 1, Len(kinds)) /\ count' = slot[w] + 1
    BY <1>4a DEF WriteCount, Go, Solo
  <2>3. Fresh(w)' /\ Counted(Len(kinds))'
    BY <1>4a, <2>2 DEF WriteCount, Fresh, Kept, Tallied, Listed, Unlisted, Owed, Counted, Fits, history
  <2>. QED  BY <2>1, <2>3 DEF Solo, Settled
<1>5. CASE OpenSlot(w)
  <2>1. \A v \in Writers : v # w => pc'[v] = "down"
    BY <1>0, <1>5 DEF OpenSlot
  <2>. QED  BY <1>5, <2>1, SoloOpenSlot DEF Solo, Settled
<1>6. CASE FillSlot(w)
  <2>1. \A v \in Writers : v # w => pc'[v] = "down"
    BY <1>0, <1>6 DEF FillSlot, Go
  <2>. QED  BY <1>6, <2>1, SoloFillSlot DEF Solo, Settled
<1>6a. CASE NoteSlot(w)
  <2>1. Goes("test")
    BY <1>0, <1>6a DEF NoteSlot, Go
  <2>. QED  BY <1>6a, <2>1, SoloNoteSlot DEF Solo, Settled
<1>7. CASE Accumulate(w)
  <2>1. Goes("sum")
    <3>1. \A v \in Writers : v # w => pc'[v] = pc[v]
      BY <1>0, <1>7 DEF Accumulate
    <3>. QED  BY <1>0, <1>7, <3>1, SoloAccumulate
  <2>. QED  BY <1>7, <2>1, SoloAccumulate DEF Solo, Settled
<1>7a. CASE WriteSum(w)
  <2>1. Goes("test")
    BY <1>0, <1>7a DEF WriteSum, Go
  <2>. QED  BY <1>7a, <2>1, SoloWriteSum DEF Solo, Settled
<1>8. CASE TestFlag(w)
  <2>1. Goes("idle") \/ Goes("due")
    BY <1>0, <1>8 DEF TestFlag
  <2>2. Sound(w)'
    <3>1. Sound(w)
      BY <1>8 DEF TestFlag, Solo, Settled
    <3>. QED  BY <1>8, <3>1, SoundFrame DEF TestFlag, shared, history
  <2>. QED  BY <2>1, <2>2 DEF Solo, Settled
<1>9. CASE RaiseFlag(w) \/ ReadClock(w) \/ TestEmpty(w)
  <2>1. Goes("clock") \/ Goes("clear") \/ Goes("empty") \/ Goes("forget") \/ Goes("add")
    BY <1>0, <1>9 DEF RaiseFlag, ReadClock, TestEmpty, Go
  <2>2. Sound(w)'
    <3>1. Sound(w)
      BY <1>9 DEF RaiseFlag, ReadClock, TestEmpty, Go, Solo, Settled
    <3>. QED  BY <1>9, <3>1, SoundFrame DEF RaiseFlag, ReadClock, TestEmpty, shared, history
  <2>. QED  BY <2>1, <2>2 DEF Solo, Settled
<1>10. CASE AddRecords(w)
  <2>1. Goes("send") \/ (Goes("dead") /\ count >= MaxKind)
    BY <1>0, <1>10, ConstantFacts DEF AddRecords
  <2>2. Counted(Len(kinds)) /\ kinds' = kinds
    BY <1>10 DEF AddRecords, Solo, Settled, Sound
  <2>3. count >= MaxKind => Len(kinds) = MaxKind
    <3>. DEFINE m == Len(kinds)
    <3>1. Counted(m) /\ m \in Nat /\ m <= MaxKind
      BY <2>2, ListFacts
    <3>. HIDE DEF m
    <3>2. count >= MaxKind => m = MaxKind
      BY <1>0, <3>1, ConstantFacts DEF Counted, Fits
    <3>. QED  BY <3>2 DEF m
  <2>. QED  BY <2>1, <2>2, <2>3 DEF Solo, Settled
<1>11. CASE Send(w)
  <2>1. Goes("reset")
    BY <1>0, <1>11 DEF Send, Go
  <2>. QED  BY <2>1 DEF Solo, Settled
<1>12. CASE ResetCount(w)
  <2>1. Goes("wipe") \/ Goes("erase")
    BY <1>0, <1>12 DEF ResetCount, Go
  <2>2. count' = 0
    BY <1>12 DEF ResetCount
  <2>. QED  BY <2>1, <2>2 DEF Solo, Settled
<1>13. CASE ResetIndex(w)
  <2>1. Goes("clear") \/ Goes("idle")
    BY <1>0, <1>13 DEF ResetIndex, Go
  <2>. QED  BY <1>13, <2>1, SoloResetIndex DEF Solo, Settled
<1>14. CASE ClearFlag(w)
  <2>1. CASE pc[w] = "forget"
    <3>1. Goes("zero")
      BY <1>0, <1>14, <2>1 DEF ClearFlag, Go
    <3>. QED  BY <3>1 DEF Solo, Settled
  <2>2. CASE pc[w] = "clear"
    <3>1. Goes("idle") /\ Sound(w)
      BY <1>0, <1>14, <2>2 DEF ClearFlag, Go, Solo, Settled
    <3>2. Sound(w)'
      BY <1>14, <3>1, SoundFrame DEF ClearFlag, history
    <3>. QED  BY <3>1, <3>2 DEF Solo, Settled
  <2>. QED  BY <1>14, <2>1, <2>2 DEF ClearFlag, Go
<1>15. CASE Kill(w)
  <2>1. Goes("down")
    BY <1>0, <1>15 DEF Kill
  <2>. QED  BY <2>1 DEF Solo, Settled
<1>. QED  BY <1>1, <1>2, <1>3, <1>4, <1>4a, <1>5, <1>6, <1>6a, <1>7, <1>7a, <1>8, <1>9, <1>10, <1>11,
            <1>12, <1>13, <1>14, <1>15 DEF Log, Flush

LEMMA InitSolo == Init => SoloInv
BY DEF Init, SoloInv, Untouched

LEMMA NextSolo ==
    ASSUME Cleared = Blocks
    PROVE  TInv /\ SoloInv /\ [Next]_vars => SoloInv'
<1>. SUFFICES ASSUME TInv, SoloInv, [Next]_vars  PROVE SoloInv'
  OBVIOUS
<1>0. pc \in [Writers -> PCs] /\ arg \in [Writers -> Records] /\ starts \in Nat
  BY DEF TInv, TypeOK, HistoryOK
<1>. DEFINE Quiet == \A v \in Writers : pc[v] \notin Recording => arg[v] = Zero
            Steps(w) == \/ \E id \in Ids, n \in Quantities : Call(w, id, n)
                        \/ Log(w) \/ Flush(w) \/ Kill(w)
<1>1. ASSUME NEW w \in Writers, Start(w)  PROVE SoloInv'
  <2>1. Quiet'
    BY <1>0, <1>1 DEF Start, SoloInv, Recording
  <2>2. starts' = starts + 1
    BY <1>1 DEF Start
  <2>. QED  BY <1>0, <1>1, <2>1, <2>2, SoloStart DEF SoloInv
<1>2. ASSUME NEW w \in Writers, Steps(w)  PROVE SoloInv'
  <2>1. starts' = starts /\ pc[w] # "down"
    BY <1>2 DEF Call, Log, Flush, Pass, Find, TakeSlot, WriteCount, OpenSlot, FillSlot, NoteSlot, Accumulate, WriteSum,
                TestFlag, RaiseFlag, ReadClock, TestEmpty, AddRecords, Send, ResetCount, ResetIndex, ClearFlag, Kill, Go, history
  <2>2. Quiet'
    <3>1. \A v \in Writers : v # w => pc'[v] = pc[v] /\ arg'[v] = arg[v]
      BY <1>0, <1>2 DEF Call, Log, Flush, Pass, Find, TakeSlot, WriteCount, OpenSlot, FillSlot, NoteSlot, Accumulate, WriteSum,
                TestFlag, RaiseFlag, ReadClock, TestEmpty, AddRecords, Send, ResetCount, ResetIndex, ClearFlag, Kill, Go, EndsRecording
    <3>2. pc'[w] \notin Recording => arg'[w] = Zero
      BY <1>0, <1>2 DEF Call, Log, Flush, Pass, Find, TakeSlot, WriteCount, OpenSlot, FillSlot, NoteSlot, Accumulate, WriteSum,
                TestFlag, RaiseFlag, ReadClock, TestEmpty, AddRecords, Send, ResetCount, ResetIndex, ClearFlag, Kill, Go, EndsRecording, SoloInv, Recording
    <3>. QED  BY <3>1, <3>2 DEF SoloInv
  <2>3. starts # 0
    BY <2>1 DEF SoloInv, Untouched
  <2>4. ASSUME starts = 1  PROVE \E v \in Writers : Solo(v)'
    <3>1. PICK v \in Writers : Solo(v)
      BY <2>4 DEF SoloInv
    <3>2. v = w
      BY <2>1, <3>1 DEF Solo
    <3>. QED  BY <1>2, <2>4, <3>1, <3>2, SoloStep
  <2>. QED  BY <2>1, <2>2, <2>3, <2>4 DEF SoloInv
<1>3. CASE Tick \/ Receive \/ UNCHANGED vars
  <2>1. UNCHANGED <<pc, arg, at, slot, kinds, block, record, count, tally, starts>>
    BY <1>3 DEF Tick, Receive, vars, shared, local, history
  <2>. QED  BY <2>1 DEF SoloInv, Untouched, Solo, Found, Fresh, Filling, Summing, Sound, Kept, Tallied, Listed,
                         Unlisted, Counted, Fits, Owed
<1>. QED  BY <1>1, <1>2, <1>3 DEF Next

LEMMA OneProcess == ASSUME Cleared = Blocks  PROVE Spec => []SoloInv
BY InitSolo, NextSolo, Typed, PTL DEF Spec

(* With one process that was started once, each record counts the packets   *)
(* of one kind that were logged since the last reset.                       *)
THEOREM CountsAreExact == ASSUME Cleared = Blocks  PROVE Spec => []CountsExact
<1>1. TInv /\ SoloInv => CountsExact
  <2>. SUFFICES ASSUME TInv, SoloInv, starts = 1, NEW v \in Writers, pc[v] \in Settled,
                       NEW i \in DOMAIN kinds, block[i - 1] # 0
                PROVE  LET s == block[i - 1]
                       IN  /\ s \in Slots /\ s <= count
                           /\ record[s] = [id |-> kinds[i], n |-> tally[kinds[i]]]
    BY DEF CountsExact
  <2>1. PICK w \in Writers : Solo(w)
    BY DEF SoloInv
  <2>2. v = w /\ Sound(v) /\ arg[v] = Zero
    BY <2>1 DEF Solo, Settled, SoloInv, Recording
  <2>3. i \in 1 .. Len(kinds) /\ Len(kinds) <= MaxKind /\ Len(kinds) \in Nat
    BY ListFacts
  <2>4. block[i - 1] = i /\ i \in Slots
    <3>1. i - 1 \in Blocks /\ i - 1 + 1 = i
      BY <2>3, ConstantFacts DEF Blocks
    <3>. QED  BY <2>2, <2>3, <3>1 DEF Sound, Kept
  <2>5. i <= count
    BY <2>2, <2>3, <2>4, ConstantFacts DEF Sound, Counted, Fits, Slots, TInv, TypeOK
  <2>6. record[i].id = kinds[i] /\ tally[kinds[i]] = Plus(record[i].n, 0)
    <3>1. Owed(v, kinds[i]) = 0
      BY <2>2 DEF Owed, Zero
    <3>. QED  BY <2>2, <2>3, <2>4, <3>1 DEF Sound, Tallied, Listed
  <2>7. tally[kinds[i]] = record[i].n
    BY <2>4, <2>6, ListFacts, PlusZero
  <2>8. record[i] = [id |-> record[i].id, n |-> record[i].n]
    BY <2>4 DEF TInv, TypeOK, Records
  <2>. QED  BY <2>4, <2>5, <2>6, <2>7, <2>8
<1>. QED  BY <1>1, OneProcess, Typed, PTL

(* One process alone follows no NULL record, as long as a kind is left that *)
(* it has not met since the last reset.                                     *)
THEOREM AloneNeverFaults == ASSUME Cleared = Blocks  PROVE Spec => []NoFault
<1>1. SoloInv => NoFault
  BY ConstantFacts DEF SoloInv, Solo, NoFault
<1>. QED  BY <1>1, OneProcess, PTL
-----------------------------------------------------------------------------
(* What a record can come from: a buffer that was sent, or memory of the    *)
(* agent that no message has reached.                                       *)
Sent == UNION {Range(sent[w]) : w \in Writers}

(* The records that wait in the kernel's queue, or lie in the buffer of the *)
(* agent, were sent; a row is the number SQL makes of the kind of one.      *)
MessagesSent == \A j \in DOMAIN mq : \A i \in DOMAIN mq[j].data : mq[j].data[i] \in Sent
BufferSent   == \A i \in 1 .. QueueMax : buffer[i] \in Sent \cup {Zero}
RowsReal     == \A r \in rows : \E q \in Records : /\ q \in Sent \cup {Zero}
                                                 /\ Accepted(q) /\ r = Row(q)
SentInv      == MessagesSent /\ BufferSent /\ RowsReal

(* What a message brings is what its process had in its buffer; nothing is  *)
(* taken back from what was sent.                                           *)
LEMMA SendFacts ==
    ASSUME TInv, NEW w \in Writers, Send(w)
    PROVE  /\ Sent \subseteq Sent'
           /\ MessagesSent => MessagesSent'
<1>1. queue \in [Writers -> Seq(Records)] /\ sent \in [Writers -> Seq(Records)]
  BY DEF TInv, TypeOK, HistoryOK
<1>2. CASE UNCHANGED <<mq, sent>>
  BY <1>2 DEF Sent, MessagesSent
<1>3. CASE /\ mq' = Append(mq, [n |-> count, data |-> queue[w]])
           /\ sent' = [sent EXCEPT ![w] = sent[w] \o queue[w]]
  <2>1. sent'[w] = sent[w] \o queue[w] /\ \A v \in Writers : v # w => sent'[v] = sent[v]
    BY <1>1, <1>3
  <2>2. Range(sent[w]) \subseteq Range(sent'[w])
    <3>. SUFFICES ASSUME NEW i \in DOMAIN sent[w]  PROVE \E j \in DOMAIN sent'[w] : sent'[w][j] = sent[w][i]
      BY DEF Range
    <3>1. i \in DOMAIN sent'[w] /\ sent'[w][i] = sent[w][i]
      BY <1>1, <2>1
    <3>. QED  BY <3>1
  <2>3. \A i \in DOMAIN queue[w] : queue[w][i] \in Range(sent'[w])
    <3>. SUFFICES ASSUME NEW i \in DOMAIN queue[w]  PROVE queue[w][i] \in Range(sent'[w])
      OBVIOUS
    <3>. DEFINE j == Len(sent[w]) + i
    <3>1. j \in DOMAIN sent'[w] /\ sent'[w][j] = queue[w][i]
      BY <1>1, <2>1
    <3>. QED  BY <3>1 DEF Range
  <2>4. Sent \subseteq Sent'
    <3>. SUFFICES ASSUME NEW v \in Writers, NEW r \in Range(sent[v])  PROVE r \in Range(sent'[v])
      BY DEF Sent
    <3>. QED  BY <2>1, <2>2
  <2>5. ASSUME MessagesSent, NEW j \in DOMAIN mq', NEW i \in DOMAIN mq'[j].data
        PROVE  mq'[j].data[i] \in Sent'
    <3>1. mq \in Seq([n : Nat, data : Seq(Records)]) /\ count \in Nat
      BY DEF TInv, TypeOK
    <3>2. CASE j \in DOMAIN mq
      BY <1>3, <2>4, <2>5, <3>1, <3>2 DEF MessagesSent
    <3>3. CASE j \notin DOMAIN mq
      <4>1. mq'[j] = [n |-> count, data |-> queue[w]]
        BY <1>3, <3>1, <3>3
      <4>. QED  BY <2>3, <2>5, <4>1 DEF Sent
    <3>. QED  BY <3>2, <3>3
  <2>. QED  BY <2>4, <2>5 DEF MessagesSent
<1>. QED  BY <1>2, <1>3 DEF Send

(* The agent's rows come from records that were sent.                       *)
LEMMA ReceiveSent == ASSUME TInv, SentInv, Receive  PROVE SentInv'
<1>. DEFINE m == Head(mq)
<1>1. /\ mq \in Seq([n : Nat, data : Seq(Records)]) /\ mq # <<>>
      /\ sent' = sent /\ Sent' = Sent
      /\ buffer \in [1 .. QueueMax -> Records] /\ buffer' \in [1 .. QueueMax -> Records]
  <2>1. TInv'
    BY NextTInv DEF Next
  <2>. QED  BY <2>1 DEF Receive, history, Sent, TInv, TypeOK
<1>2. m \in [n : Nat, data : Seq(Records)] /\ m = mq[1] /\ 1 \in DOMAIN mq
  <2>. DEFINE M == [n : Nat, data : Seq(Records)]
  <2>1. mq \in Seq(M) /\ mq # <<>>
    BY <1>1
  <2>. HIDE DEF M
  <2>2. Head(mq) \in M /\ Head(mq) = mq[1] /\ 1 \in DOMAIN mq
    BY <2>1
  <2>. QED  BY <2>2 DEF M
<1>3. \A i \in DOMAIN m.data : m.data[i] \in Sent
  BY <1>2 DEF SentInv, MessagesSent
<1>4. BufferSent'
  <2>. SUFFICES ASSUME NEW i \in 1 .. QueueMax  PROVE buffer'[i] \in Sent \cup {Zero}
    BY <1>1 DEF BufferSent
  <2>1. buffer'[i] = IF i <= Len(m.data) THEN m.data[i] ELSE buffer[i]
    BY DEF Receive
  <2>2. i <= Len(m.data) => i \in DOMAIN m.data
    <3>1. m.data \in Seq(Records)
      BY <1>2
    <3>. HIDE DEF m
    <3>. QED  BY <3>1
  <2>3. buffer[i] \in Sent \cup {Zero}
    BY DEF SentInv, BufferSent
  <2>. QED  BY <1>3, <2>1, <2>2, <2>3
<1>5. MessagesSent'
  <2>1. mq' = Tail(mq)
    BY DEF Receive
  <2>2. \A j \in DOMAIN mq' : j + 1 \in DOMAIN mq /\ mq'[j] = mq[j + 1]
    BY <1>1, <2>1
  <2>. QED  BY <1>1, <2>2 DEF SentInv, MessagesSent
<1>6. RowsReal'
  <2>. SUFFICES ASSUME NEW r \in rows'
                PROVE  \E q \in Records : q \in Sent \cup {Zero} /\ Accepted(q) /\ r = Row(q)
    BY <1>1 DEF RowsReal
  <2>1. CASE r \in rows
    BY <2>1 DEF SentInv, RowsReal
  <2>2. CASE r \notin rows
    <3>1. PICK i \in Visited(m.n) : Accepted(buffer'[i]) /\ r = Row(buffer'[i])
      BY <2>2 DEF Receive
    <3>2. i \in 1 .. QueueMax
      BY <3>1 DEF Visited
    <3>3. buffer'[i] \in Records /\ buffer'[i] \in Sent \cup {Zero}
      BY <1>1, <1>4, <3>2 DEF BufferSent
    <3>. QED  BY <3>1, <3>3
  <2>. QED  BY <2>1, <2>2
<1>. QED  BY <1>4, <1>5, <1>6 DEF SentInv

LEMMA InitSent == Init => SentInv
BY DEF Init, SentInv, MessagesSent, BufferSent, RowsReal

LEMMA NextSent == TInv /\ SentInv /\ [Next]_vars => SentInv'
<1>. SUFFICES ASSUME TInv, SentInv, [Next]_vars  PROVE SentInv'
  OBVIOUS
<1>1. ASSUME NEW w \in Writers, Send(w)  PROVE SentInv'
  <2>1. Sent \subseteq Sent' /\ MessagesSent' /\ buffer' = buffer /\ rows' = rows
    BY <1>1, SendFacts DEF SentInv, Send
  <2>2. BufferSent'
    BY <2>1 DEF SentInv, BufferSent
  <2>3. RowsReal'
    BY <2>1 DEF SentInv, RowsReal
  <2>. QED  BY <2>1, <2>2, <2>3 DEF SentInv
<1>2. CASE Receive
  BY <1>2, ReceiveSent
<1>3. ASSUME NEW w \in Writers,
             \/ \E id \in Ids, n \in Quantities : Call(w, id, n)
             \/ Start(w) \/ Log(w) \/ ReadClock(w) \/ TestEmpty(w) \/ AddRecords(w)
             \/ ResetCount(w) \/ ResetIndex(w) \/ ClearFlag(w) \/ Kill(w)
      PROVE  UNCHANGED <<agent, sent>>
  BY <1>3 DEF Call, Start, Log, Pass, Find, TakeSlot, WriteCount, OpenSlot, FillSlot, NoteSlot, Accumulate,
              WriteSum, TestFlag, RaiseFlag, ReadClock, TestEmpty, AddRecords, ResetCount, ResetIndex,
              ClearFlag, Kill, history
<1>4. Tick \/ UNCHANGED vars => UNCHANGED <<agent, sent>>
  BY DEF Tick, vars, history
<1>5. UNCHANGED <<agent, sent>> => SentInv'
  BY DEF agent, SentInv, MessagesSent, BufferSent, RowsReal, Sent
<1>. QED  BY <1>1, <1>2, <1>3, <1>4, <1>5 DEF Next, Flush

(* Every row of the data base is what SQL makes of one record that a        *)
(* process has sent, or of memory no message has reached: the agent puts no *)
(* row together from two records, whatever earlier messages have left in    *)
(* its buffer and however far it reads on.                                  *)
THEOREM RowsAreSent == Spec => []RowsWereSent
<1>1. SentInv => RowsWereSent
  BY DEF SentInv, RowsReal, RowsWereSent, Sent
<1>. QED  BY <1>1, InitSent, NextSent, Typed, PTL DEF Spec
=============================================================================
