---------------------------- MODULE PacketTraffic ----------------------------
(***************************************************************************)
(* The packet traffic log (DBLOG): processes of a server count the packets  *)
(* they handle, by kind, in records of shared memory (dDBLog,               *)
(* WriteDBLog.cpp), and from time to time one of them sends records to the  *)
(* agent, which inserts them into a data base (DBLogAgent.cpp).             *)
(*                                                                          *)
(* Slot 0 of the records is a header: its msgId is the flag `raised`, its   *)
(* count the number of slots in use, its dataSize the time of the last      *)
(* flush.  The index is a CSharedMemoryTree from kinds to slots: nothing is *)
(* ever removed from it, so the number of a kind is its position among the  *)
(* kinds added since the last reset, and a user holds a pointer to a block. *)
(* Nothing but the flag keeps processes apart, so `++` and `+=` on shared   *)
(* memory are a read and a write, with the accesses of other processes in   *)
(* between.  Atomic are a look-up in the index and its reset, the clearing  *)
(* of all records, and the copy of a record.  The bytes counted next to the *)
(* packets are left out: they are written where the counts are.             *)
(***************************************************************************)
EXTENDS Naturals, Sequences, Functions, FiniteSets

CONSTANTS
    Writers,      \* processes that log, numbered in the order they are first started
    Ids,          \* kinds of packets (msgId)
    Quantities,   \* what a call counts
    MaxKind,      \* MAX_KIND_OF_PACKET: blocks of the index; records, header included
    CountSpace,   \* values of a USHORT: 2^16
    QueueMax,     \* records in a message: 2048 \div 16
    Stride,       \* records the agent moves on for each row: 16
    Cleared,      \* blocks of the index the memset of Reset reaches
    Backlog,      \* messages the kernel's queue takes
    MaxStarts,    \* bound on calls of InitDBLog
    MaxCalls      \* bound on calls of dDBLog

(* msgId is a USHORT; the index and the allocator have room for every kind. *)
ASSUME IdsAssumption   == /\ Ids \subseteq 0 .. 2^16 - 1
                          /\ IsFiniteSet(Ids) /\ Cardinality(Ids) <= MaxKind
ASSUME SizesAssumption == /\ Writers \subseteq Nat
                          /\ {MaxKind, CountSpace, QueueMax, Stride, Backlog} \subseteq Nat \ {0}
                          /\ MaxKind > 1
                          /\ Quantities \subseteq 1 .. CountSpace - 1
ASSUME BlocksAssumption == 0 \in Cleared /\ Cleared \subseteq 0 .. MaxKind - 1

VARIABLES
    raised,       \* header.msgId = 1
    count,        \* header.count, without its limit of 16 bits
    due,          \* more than 1000 seconds since header.dataSize
    kinds,        \* the keys of the index in the order of their numbers
    block,        \* the blocks of the index: the slot of a kind, or 0
    record,       \* the records, by slot
    pc,           \* where a writer is in dDBLog
    arg,          \* until its packets are recorded: the parameters of its call (and
                  \*   the sum that `+=` is to write), the block `index` points to,
    at, slot,     \*   the slot of `packetData` (before it, what `++` has read)
    queue,        \* m_dataQueue.pData up to dataSize, of each writer
    mq,           \* the kernel's message queue
    buffer,       \* the agent's message buffer
    calls, starts, orphaned, tally, added, sent, rows   \* history

shared  == <<raised, count, due, kinds, block, record>>
local   == <<pc, arg, at, slot, queue>>
agent   == <<mq, buffer, rows>>
history == <<calls, starts, orphaned, tally, added, sent>>
vars    == <<shared, local, agent, history>>

Slots   == 1 .. MaxKind - 1
Blocks  == 0 .. MaxKind - 1
Records == [id : Ids \cup {0}, n : 0 .. CountSpace - 1]
Zero    == [id |-> 0, n |-> 0]
Out     == {"down", "dead", "idle"}     \* not inside dDBLog
Recording == {"spin", "find", "count", "take", "open", "fill", "amount", "note", "sum"}
Holding == {"clock", "empty", "forget", "add", "send", "reset", "wipe", "clear"}
PCs     == Out \cup Recording \cup Holding \cup {"test", "due", "zero", "erase"}

Init == /\ raised = FALSE /\ count = 0 /\ due = TRUE
        /\ kinds = <<>>
        /\ block  = [b \in Blocks |-> 0]
        /\ record = [s \in Slots |-> Zero]
        /\ pc = [w \in Writers |-> "down"]
        /\ arg = [w \in Writers |-> Zero]
        /\ at = [w \in Writers |-> 0]
        /\ slot = [w \in Writers |-> 0]
        /\ queue = [w \in Writers |-> <<>>]
        /\ mq = <<>>
        /\ buffer = [i \in 1 .. QueueMax |-> Zero]
        /\ calls = 0 /\ starts = 0 /\ orphaned = FALSE
        /\ tally = [i \in Ids |-> 0]
        /\ added = [w \in Writers |-> <<>>]
        /\ sent  = [w \in Writers |-> <<>>]
        /\ rows = {}

Go(w, from, to) == pc[w] = from /\ pc' = [pc EXCEPT ![w] = to]

(* The buffer of a process ends with it. *)
LosesMemory(w) == /\ queue' = [queue EXCEPT ![w] = <<>>]
                  /\ added' = [added EXCEPT ![w] = sent[w]]
-----------------------------------------------------------------------------
(* InitDBLog: the segments and the tree are found as they were left; only   *)
(* the number of slots in use is set back, and the buffer of the process is *)
(* new.  A process for which msgget fails or slot 0 is NULL sets nothing    *)
(* and ends in its first call, by a NULL header: it never starts here.      *)
Start(w) ==
    /\ starts < MaxStarts
    /\ starts = 0 => \A v \in Writers : w <= v
    /\ pc[w] \in {"down", "dead"}
    /\ pc' = [pc EXCEPT ![w] = "idle"]
    /\ count' = 0
    /\ LosesMemory(w)
    /\ starts' = starts + 1
    /\ tally' = [i \in Ids |-> 0]
    /\ UNCHANGED <<raised, due, kinds, block, record, arg, at, slot, agent,
                   calls, orphaned, sent>>

PlusMutant(m, n) == m + n

(* The sum of two USHORTs. *)
Plus(m, n) == (m + n) % CountSpace

(* dDBLog(msgId, count, dataSize) is called; a count of 0 returns at once.  *)
Call(w, id, n) ==
    /\ Go(w, "idle", "spin")
    /\ arg' = [arg EXCEPT ![w] = [id |-> id, n |-> n]]
    /\ calls' = calls + 1
    /\ calls' <= MaxCalls
    /\ tally' = IF starts = 1 THEN [tally EXCEPT ![id] = Plus(@, n)] ELSE tally
    /\ UNCHANGED <<shared, at, slot, queue, agent, starts, orphaned, added, sent>>

(* while(logHeader->msgId == 1) usleep(100) *)
Pass(w) ==
    /\ ~ raised
    /\ Go(w, "spin", "find")
    /\ UNCHANGED <<shared, arg, at, slot, queue, agent, history>>

(* shmDBLogIndex[msgId]: the block of the kind, which is added at need.     *)
Find(w) ==
    /\ Go(w, "find", "count")
    /\ kinds' = IF arg[w].id \in Range(kinds) THEN kinds ELSE Append(kinds, arg[w].id)
    /\ at' = [at EXCEPT ![w] = (CHOOSE i \in DOMAIN kinds' : kinds'[i] = arg[w].id) - 1]
    /\ UNCHANGED <<raised, count, due, block, record, arg, slot, queue, agent, history>>

(* The kind has no slot yet: logHeader->count++ takes one. *)
TakeSlot(w) ==
    /\ block[at[w]] = 0
    /\ Go(w, "count", "take")
    /\ slot' = [slot EXCEPT ![w] = count]
    /\ UNCHANGED <<shared, arg, at, queue, agent, history>>

WriteCount(w) ==
    /\ Go(w, "take", "open")
    /\ count' = slot[w] + 1
    /\ slot' = [slot EXCEPT ![w] = 0]
    /\ UNCHANGED <<raised, due, kinds, block, record, arg, at, queue, agent, history>>

(* The parameters and pointers of a call are not used again. *)
EndsRecording(w) == /\ arg'  = [arg  EXCEPT ![w] = Zero]
                    /\ at'   = [at   EXCEPT ![w] = 0]
                    /\ slot' = [slot EXCEPT ![w] = 0]

(* shmDBLog[logHeader->count], NULL past the last record. *)
OpenSlot(w) ==
    /\ pc[w] = "open"
    /\ \/ /\ count \in Slots
          /\ pc' = [pc EXCEPT ![w] = "fill"]
          /\ slot' = [slot EXCEPT ![w] = count]
          /\ UNCHANGED <<arg, at>>
       \/ /\ count \notin Slots                  \* "get packet traffic data FAIL"
          /\ pc' = [pc EXCEPT ![w] = "idle"]
          /\ EndsRecording(w)
    /\ UNCHANGED <<shared, queue, agent, history>>

(* The record is filled, a field at a time, and the index gets what the     *)
(* count is by then.                                                        *)
FillSlot(w) ==
    /\ \/ /\ Go(w, "fill", "amount")
          /\ record' = [record EXCEPT ![slot[w]].id = arg[w].id]
       \/ /\ Go(w, "amount", "note")
          /\ record' = [record EXCEPT ![slot[w]].n = arg[w].n]
    /\ UNCHANGED <<raised, count, due, kinds, block, arg, at, slot, queue, agent, history>>

NoteSlotMutant(w) ==
    /\ Go(w, "note", "test")
    /\ block'  = [block EXCEPT ![at[w]] = count + 1]
    /\ EndsRecording(w)
    /\ UNCHANGED <<raised, count, due, kinds, record, queue, agent, history>>

NoteSlot(w) ==
    /\ Go(w, "note", "test")
    /\ block'  = [block EXCEPT ![at[w]] = count]
    /\ EndsRecording(w)
    /\ UNCHANGED <<raised, count, due, kinds, record, queue, agent, history>>

(* The kind has a slot: its record goes up by packetData->count += count.   *)
(* A slot past the last record is a NULL pointer.                           *)
Accumulate(w) ==
    /\ block[at[w]] # 0
    /\ pc[w] = "count"
    /\ \/ /\ block[at[w]] \in Slots
          /\ slot' = [slot EXCEPT ![w] = block[at[w]]]
          /\ arg' = [arg EXCEPT ![w].n = Plus(record[block[at[w]]].n, @)]
          /\ pc' = [pc EXCEPT ![w] = "sum"]
          /\ UNCHANGED <<at, queue, added>>
       \/ /\ block[at[w]] \notin Slots
          /\ pc' = [pc EXCEPT ![w] = "dead"]
          /\ EndsRecording(w)
          /\ LosesMemory(w)
    /\ UNCHANGED <<shared, agent, calls, starts, orphaned, tally, sent>>

WriteSum(w) ==
    /\ Go(w, "sum", "test")
    /\ record' = [record EXCEPT ![slot[w]].n = arg[w].n]
    /\ EndsRecording(w)
    /\ UNCHANGED <<raised, count, due, kinds, block, queue, agent, history>>

(* if(logHeader->msgId == 1) return 0; *)
TestFlag(w) ==
    /\ pc[w] = "test"
    /\ pc' = [pc EXCEPT ![w] = IF raised THEN "idle" ELSE "due"]
    /\ UNCHANGED <<shared, arg, at, slot, queue, agent, history>>
-----------------------------------------------------------------------------
(* logHeader->msgId = 1 *)
RaiseFlag(w) ==
    /\ Go(w, "due", "clock")
    /\ raised' = TRUE
    /\ UNCHANGED <<count, due, kinds, block, record, arg, at, slot, queue, agent, history>>

(* The clock says whether to flush. *)
ReadClock(w) ==
    /\ pc[w] = "clock"
    /\ pc' = [pc EXCEPT ![w] = IF due THEN "empty" ELSE "clear"]
    /\ due' = FALSE
    /\ UNCHANGED <<raised, count, kinds, block, record, arg, at, slot, queue, agent, history>>

(* With no slot in use (another process has set the count back) the flag    *)
(* goes down before the reset.                                              *)
TestEmpty(w) ==
    /\ pc[w] = "empty"
    /\ pc' = [pc EXCEPT ![w] = IF count = 0 THEN "forget" ELSE "add"]
    /\ UNCHANGED <<shared, arg, at, slot, queue, agent, history>>

(* The loop over the records.  AddData answers 0 when it has added one,     *)
(* which the caller takes for a failure: the loop ends after the first      *)
(* record, which stays as it is.  With a full buffer it answers -1 and      *)
(* every record is cleared, up to the count: past the last record is NULL.  *)
AddRecords(w) ==
    /\ pc[w] = "add"
    /\ \/ /\ count > 0 /\ Len(queue[w]) < QueueMax
          /\ queue' = [queue EXCEPT ![w] = Append(@, record[1])]
          /\ added' = [added EXCEPT ![w] = Append(@, record[1])]
          /\ pc' = [pc EXCEPT ![w] = "send"]
          /\ UNCHANGED <<record, orphaned>>
       \/ /\ count = 0                          \* set back meanwhile
          /\ pc' = [pc EXCEPT ![w] = "send"]
          /\ UNCHANGED <<record, queue, added, orphaned>>
       \/ /\ count > 0 /\ Len(queue[w]) = QueueMax
          /\ record' = [s \in Slots |-> IF s <= count THEN Zero ELSE record[s]]
          /\ IF count < MaxKind
             THEN /\ pc' = [pc EXCEPT ![w] = "send"]
                  /\ UNCHANGED <<queue, added, orphaned>>
             ELSE /\ pc' = [pc EXCEPT ![w] = "dead"]
                  /\ orphaned' = TRUE
                  /\ LosesMemory(w)
    /\ UNCHANGED <<raised, count, due, kinds, block, arg, at, slot, agent,
                   calls, starts, tally, sent>>

(* msgsnd with IPC_NOWAIT, which may fail.  The message says how many slots *)
(* are in use, not how many records it carries; a buffer that was not sent  *)
(* is kept.                                                                 *)
SendLateMutant(w) ==
    /\ Go(w, "send", "reset")
    /\ \/ /\ Len(mq) < Backlog
          /\ mq' = Append(mq, [n |-> count, data |-> [i \in DOMAIN queue[w] |-> record[1]]])
          /\ sent' = [sent EXCEPT ![w] = @ \o queue[w]]
          /\ queue' = [queue EXCEPT ![w] = <<>>]
       \/ UNCHANGED <<mq, sent, queue>>
    /\ UNCHANGED <<shared, arg, at, slot, buffer, rows,
                   calls, starts, orphaned, tally, added>>

SendMutant(w) ==
    /\ Go(w, "send", "reset")
    /\ \/ /\ Len(mq) < Backlog
          /\ mq' = Append(mq, [n |-> count, data |-> queue[w]])
          /\ sent' = [sent EXCEPT ![w] = @ \o queue[w]]
       \/ UNCHANGED <<mq, sent>>
    /\ queue' = [queue EXCEPT ![w] = <<>>]
    /\ UNCHANGED <<shared, arg, at, slot, buffer, rows,
                   calls, starts, orphaned, tally, added>>

Send(w) ==
    /\ Go(w, "send", "reset")
    /\ \/ /\ Len(mq) < Backlog
          /\ mq' = Append(mq, [n |-> count, data |-> queue[w]])
          /\ sent' = [sent EXCEPT ![w] = @ \o queue[w]]
          /\ queue' = [queue EXCEPT ![w] = <<>>]
       \/ UNCHANGED <<mq, sent, queue>>
    /\ UNCHANGED <<shared, arg, at, slot, buffer, rows,
                   calls, starts, orphaned, tally, added>>

(* ResetData: the count, then the index. *)
ResetCount(w) ==
    /\ Go(w, "reset", "wipe") \/ Go(w, "zero", "erase")
    /\ count' = 0
    /\ UNCHANGED <<raised, due, kinds, block, record, arg, at, slot, queue, agent, history>>

ResetIndexMutant(w) ==
    /\ Go(w, "wipe", "clear") \/ Go(w, "erase", "idle")
    /\ kinds' = <<>>
    /\ tally' = [i \in Ids |-> 0]
    /\ UNCHANGED <<raised, count, due, block, record, arg, at, slot, queue, agent,
                   calls, starts, orphaned, added, sent>>

ResetIndex(w) ==
    /\ Go(w, "wipe", "clear") \/ Go(w, "erase", "idle")
    /\ kinds' = <<>>
    /\ block' = [b \in Blocks |-> IF b \in Cleared THEN 0 ELSE block[b]]
    /\ tally' = [i \in Ids |-> 0]
    /\ UNCHANGED <<raised, count, due, record, arg, at, slot, queue, agent,
                   calls, starts, orphaned, added, sent>>

ClearFlagMutant(w) ==
    /\ Go(w, "clear", "idle") \/ Go(w, "forget", "zero")
    /\ raised' = (pc[w] = "forget")
    /\ UNCHANGED <<count, due, kinds, block, record, arg, at, slot, queue, agent, history>>

(* logHeader->msgId = 0 *)
ClearFlag(w) ==
    /\ Go(w, "clear", "idle") \/ Go(w, "forget", "zero")
    /\ raised' = FALSE
    /\ UNCHANGED <<count, due, kinds, block, record, arg, at, slot, queue, agent, history>>
-----------------------------------------------------------------------------
(* A process is killed anywhere; its memory goes with it. *)
Kill(w) ==
    /\ pc[w] \notin {"down", "dead"}
    /\ pc' = [pc EXCEPT ![w] = "down"]
    /\ orphaned' = (orphaned \/ pc[w] \in Holding)
    /\ EndsRecording(w)
    /\ LosesMemory(w)
    /\ UNCHANGED <<shared, agent, calls, starts, tally, sent>>

(* 1000 seconds pass, while a process is still to read the clock. *)
Tick == /\ ~ due /\ due' = TRUE
        /\ \/ calls < MaxCalls
           \/ \E w \in Writers : pc[w] \in Recording \cup {"test", "due", "clock"}
        /\ UNCHANGED <<raised, count, kinds, block, record, local, agent, history>>

(* The digits of "%x": as many as the number has. *)
HexDigits(id) ==
    LET places == CHOOSE p \in 1 .. 4 : id < 16^p /\ \A q \in 1 .. p - 1 : id >= 16^q
    IN  [i \in 1 .. places |-> (id \div 16^(places - i)) % 16]

Decimal(digits) ==
    LET value[i \in 0 .. Len(digits)] == IF i = 0 THEN 0 ELSE 10 * value[i - 1] + digits[i]
    IN  value[Len(digits)]

(* DBLOG prints the kind in hexadecimal where SQL expects a number: digits  *)
(* without a letter are read as a decimal number, digits with one `e` (14)  *)
(* between them as a power of ten (0x1e5 is 1e5, 100000), and any other     *)
(* letter makes the statement one that is refused.                          *)
Exponents(digits) == {k \in 2 .. Len(digits) - 1 : digits[k] = 14}
Accepted(r) ==
    LET digits  == HexDigits(r.id)
        letters == {i \in DOMAIN digits : digits[i] > 9}
    IN  letters = {} \/ \E k \in Exponents(digits) : letters = {k}

Row(r) ==
    LET digits == HexDigits(r.id)
        number == IF Exponents(digits) = {} THEN Decimal(digits)
                  ELSE LET k == CHOOSE k \in Exponents(digits) : TRUE
                       IN  Decimal(SubSeq(digits, 1, k - 1))
                             * 10^Decimal(SubSeq(digits, k + 1, Len(digits)))
    IN  [r EXCEPT !.id = number]

(* The records SwitchMessage visits for a message that announces n. *)
Visited(n) == {i \in 1 .. QueueMax : i <= n * Stride /\ i % Stride = 1 % Stride}

(* RecvMessage and SwitchMessage: the message overwrites the front of the   *)
(* buffer, what earlier messages left behind it stays.  Past the buffer any *)
(* memory is read; those rows are not recorded here.                        *)
Receive ==
    /\ mq # <<>>
    /\ LET m == Head(mq)
       IN  /\ buffer' = [i \in 1 .. QueueMax |-> IF i <= Len(m.data) THEN m.data[i]
                                                                     ELSE buffer[i]]
           /\ rows' = rows \cup
                 {Row(r) : r \in {q \in {buffer'[i] : i \in Visited(m.n)} : Accepted(q)}}
    /\ mq' = Tail(mq)
    /\ UNCHANGED <<shared, local, history>>

Log(w) == \/ Pass(w) \/ Find(w) \/ TakeSlot(w) \/ WriteCount(w) \/ OpenSlot(w) \/ FillSlot(w)
          \/ NoteSlot(w) \/ Accumulate(w) \/ WriteSum(w) \/ TestFlag(w) \/ RaiseFlag(w)

Flush(w) == \/ ReadClock(w) \/ TestEmpty(w) \/ AddRecords(w) \/ Send(w)
            \/ ResetCount(w) \/ ResetIndex(w) \/ ClearFlag(w)

Next == \/ \E w \in Writers : \/ Start(w) \/ Log(w) \/ Flush(w) \/ Kill(w)
                              \/ \E id \in Ids, n \in Quantities : Call(w, id, n)
        \/ Tick
        \/ Receive

Spec == /\ Init /\ [][Next]_vars
        /\ \A w \in Writers : WF_vars(Flush(w))
-----------------------------------------------------------------------------
TypeOK == /\ raised \in BOOLEAN /\ due \in BOOLEAN
          /\ count \in Nat
          /\ kinds \in Seq(Ids)
          /\ block \in [Blocks -> Nat]
          /\ record \in [Slots -> Records]
          /\ pc \in [Writers -> PCs]
          /\ arg \in [Writers -> Records]
          /\ at \in [Writers -> Blocks]
          /\ slot \in [Writers -> Nat]
          /\ queue \in [Writers -> Seq(Records)]
          /\ mq \in Seq([n : Nat, data : Seq(Records)])
          /\ buffer \in [1 .. QueueMax -> Records]
          /\ \A w \in Writers : Len(queue[w]) <= QueueMax
          /\ tally \in [Ids -> 0 .. CountSpace - 1]

(* Where the calls a writer has begun are in the records. *)
Settled == {"idle", "test", "due", "clock", "empty", "add", "clear"}

(* With one process that was started once, the slot of a kind belongs to it *)
(* alone and counts what was logged since the last reset, as a USHORT does. *)
CountsExact ==
    (starts = 1 /\ \E w \in Writers : pc[w] \in Settled) =>
        \A i \in DOMAIN kinds :
            LET s == block[i - 1]
            IN  s # 0 => /\ s \in Slots /\ s <= count
                         /\ record[s] = [id |-> kinds[i], n |-> tally[kinds[i]]]

(* One process alone never follows a NULL record while kinds are left that  *)
(* it has not met since the last reset.                                     *)
NoFault == starts = 1 /\ Len(kinds) < MaxKind => \A w \in Writers : pc[w] # "dead"

(* Whatever sends fail, a record that was added to the buffer of a process  *)
(* is sent once, in its turn, or still waits in the buffer.                 *)
KeptUntilSent ==
    \A w \in Writers : pc[w] \notin {"down", "dead"} => added[w] = sent[w] \o queue[w]

(* Every row of the data base is the reading of one record that a process   *)
(* has sent, or of a part of the agent's buffer that no message has         *)
(* reached, kind and count together: rows are repeated, but no row is put   *)
(* together from two records or counts what was never sent.  Its number     *)
(* does not always tell the kind: 0x10 and 0x1e1 are both read as ten.      *)
RowsWereSent ==
    \A r \in rows : \E q \in {Zero} \cup UNION {Range(sent[w]) : w \in Writers} :
        Accepted(q) /\ r = Row(q)

(* The flag does not stay up, unless a process died between raising and     *)
(* lowering it.                                                             *)
FlagReleased == raised ~> (~ raised \/ orphaned)
=============================================================================
