--------------------------- MODULE EventTimerProofs ---------------------------
(***************************************************************************)
(* Proofs about EventTimerWheel, for any number of threads, entries, slots  *)
(* and calls.  When calls fall between ticks and into the functions of      *)
(* events (QuietSpec), also while the process is stopped anywhere and       *)
(* started again (RestartSpec), keys stay inside the event table and        *)
(* pointers inside the wheels.  There, and if the flag were a lock          *)
(* (LockedSpec), the flag is up exactly while the timer thread walks a      *)
(* list: every path of a tick gives it back.                                *)
(***************************************************************************)
EXTENDS EventTimerRestart, TLAPS

LEMMA ThreadsFacts == Timer \in Processes /\ \A c \in Clients : c \in Processes
BY DEF Processes

LEMMA SizeFacts ==
    /\ WheelSize \in Nat \ {0} /\ TicksPerMinute \in Nat \ {0} /\ MinutesPerHour \in Nat \ {0}
    /\ TicksPerHour \in Nat \ {0}
    /\ FixedEvents \in Nat \ {0} /\ EventSize \in Nat /\ FixedEvents + 1 < EventSize
    /\ Events = Keys \ {0} /\ 0 \in Keys /\ 0 \in Slots
<1>1. \A m, n \in Nat \ {0} : m * n \in Nat \ {0}
  OBVIOUS
<1>. QED  BY <1>1, WheelAssumption DEF TicksPerHour, Events, Keys, Slots

(* What remainders and quotients are. *)
LEMMA DivMod == \A n \in Nat, m \in Nat \ {0} : n % m \in 0 .. m - 1 /\ n \div m \in Nat
OBVIOUS

LEMMA PlaceType ==
    ASSUME TypeOK, NEW startTime \in Nat
    PROVE  Place(startTime) \in [wheel : Wheels, slot : Slots, leftCount : Nat, leftMilliSecond : Nat]
<1>1. /\ ptr["hour"] \in Nat /\ ptr["minute"] \in Nat /\ ptr["second"] \in Nat
      /\ minuteCurrent \in Nat /\ secondCurrent \in Nat
  BY SizeFacts DEF TypeOK, Slots, Wheels
<1>2. \A n \in Nat : n % WheelSize \in Slots
  BY SizeFacts, DivMod DEF Slots
<1>3. \A units \in Nat : units # 0 => Turns(units) \in Nat
  BY SizeFacts, DivMod DEF Turns
<1>4. startTime \div TicksPerHour \in Nat /\ startTime \div TicksPerMinute \in Nat
      /\ startTime \div WheelSize \in Nat
      /\ startTime % TicksPerHour \in Nat /\ startTime % TicksPerMinute \in Nat
  BY SizeFacts, DivMod
<1>5. minuteCurrent * TicksPerMinute \in Nat
  BY <1>1, SizeFacts
<1>6. LeftAtMinute(startTime) \in Nat
  BY <1>1, <1>4 DEF LeftAtMinute
<1>. DEFINE hour == startTime \div TicksPerHour
            minute == startTime \div TicksPerMinute
<1>7. CASE hour # 0
  <2>1. (hour - 1 + ptr["hour"]) % WheelSize \in Slots
    BY <1>1, <1>2, <1>4, <1>7
  <2>2. Turns(hour) \in Nat
    BY <1>3, <1>4, <1>7
  <2>. QED  BY <1>1, <1>4, <1>5, <1>7, <2>1, <2>2 DEF Place, Wheels
<1>8. CASE hour = 0 /\ minute # 0
  <2>1. (minute - 1 + ptr["minute"]) % WheelSize \in Slots
    BY <1>1, <1>2, <1>4, <1>8
  <2>2. Turns(minute) \in Nat
    BY <1>3, <1>4, <1>8
  <2>. QED  BY <1>6, <1>8, <2>1, <2>2 DEF Place, Wheels
<1>9. CASE hour = 0 /\ minute = 0
  <2>1. (startTime + ptr["second"]) % WheelSize \in Slots
    BY <1>1, <1>2
  <2>. QED  BY <1>4, <1>9, <2>1 DEF Place, Wheels
<1>. QED  BY <1>7, <1>8, <1>9

LEMMA NoEventType == NoEvent \in Entries
BY SizeFacts DEF NoEvent, Entries

LEMMA NoCallType == NoCall \in Calls /\ NoCall.pc = "none"
BY SizeFacts DEF NoCall, Calls

LEMMA DetachedType ==
    ASSUME TypeOK, NEW t \in Events
    PROVE  Detached(t) \in [Events -> Entries]
<1>. DEFINE e == ev[t]
            before == IF e.pre = 0 THEN ev ELSE [ev EXCEPT ![e.pre].next = e.next]
<1>1. e \in Entries /\ e.pre \in Keys /\ e.next \in Keys
  BY DEF TypeOK, Entries
<1>2. before \in [Events -> Entries]
  <2>1. CASE e.pre = 0
    BY <2>1 DEF TypeOK
  <2>2. CASE e.pre # 0
    <3>1. e.pre \in Events /\ ev[e.pre] \in Entries
      BY <1>1, <2>2, SizeFacts DEF TypeOK
    <3>2. [ev[e.pre] EXCEPT !.next = e.next] \in Entries
      BY <1>1, <3>1 DEF Entries
    <3>. QED  BY <2>2, <3>1, <3>2 DEF TypeOK
  <2>. QED  BY <2>1, <2>2
<1>3. CASE e.next = 0
  BY <1>2, <1>3 DEF Detached
<1>4. CASE e.next # 0
  <2>1. e.next \in Events /\ before[e.next] \in Entries
    BY <1>1, <1>2, <1>4, SizeFacts
  <2>2. [before[e.next] EXCEPT !.pre = e.pre] \in Entries
    BY <1>1, <2>1 DEF Entries
  <2>. QED  BY <1>2, <1>4, <2>1, <2>2 DEF Detached
<1>. QED  BY <1>3, <1>4

LEMMA PushedType ==
    ASSUME TypeOK, NEW t \in Events, NEW h \in {0} \cup Events
    PROVE  Pushed(t, h) \in [Events -> Entries]
<1>1. CASE h = 0
  BY <1>1 DEF Pushed, TypeOK
<1>2. CASE h # 0
  <2>1. h \in Events /\ h \in Keys /\ t \in Keys
    BY <1>2, SizeFacts
  <2>. DEFINE linked == [ev EXCEPT ![t].next = h]
  <2>2. [ev[t] EXCEPT !.next = h] \in Entries
    BY <2>1 DEF TypeOK, Entries
  <2>3. linked \in [Events -> Entries]
    BY <2>2 DEF TypeOK
  <2>4. [linked[h] EXCEPT !.pre = t] \in Entries
    BY <2>1, <2>3 DEF Entries
  <2>5. [linked EXCEPT ![h].pre = t] \in [Events -> Entries]
    BY <2>1, <2>3, <2>4
  <2>. QED  BY <1>2, <2>5 DEF Pushed
<1>. QED  BY <1>1, <1>2

LEMMA AgainType ==
    ASSUME NEW e \in Entries
    PROVE  Again(e) \in Calls /\ HasEntry(Again(e))
<1>1. NextCount(e) \in Int
  BY DEF NextCount, Entries
<1>. QED  BY <1>1 DEF Again, AddCall, Calls, HasEntry, Entries

(* A call of thread p is replaced. *)
LEMMA CallType ==
    ASSUME TypeOK, NEW p \in Processes, NEW c \in Calls, HasEntry(c),
           call' = [call EXCEPT ![p] = c]
    PROVE  call' \in [Processes -> Calls] /\ \A q \in Processes : HasEntry(call'[q])
<1>1. call' \in [Processes -> Calls]
  BY DEF TypeOK
<1>2. ASSUME NEW q \in Processes  PROVE HasEntry(call'[q])
  <2>1. CASE q = p
    BY <2>1 DEF TypeOK
  <2>2. CASE q # p
    <3>1. call'[q] = call[q]
      BY <2>2 DEF TypeOK
    <3>. QED  BY <3>1 DEF TypeOK
  <2>. QED  BY <2>1, <2>2
<1>. QED  BY <1>1, <1>2
-----------------------------------------------------------------------------
(* The steps of AddTimeOut and RemoveEvent *)

LEMMA SelectType ==
    ASSUME TypeOK, NEW p \in Processes, Select(p)
    PROVE  TypeOK'
<1>. DEFINE c    == call[p]
            want == IF c.tid = 0 THEN eventSerial + FixedEvents ELSE c.tid
<1>1. c \in Calls /\ want \in Events
  BY SizeFacts DEF TypeOK, Calls, Keys
<1>2. eventSerial' \in 0 .. EventSize - FixedEvents - 1
  <2>1. EventSize - FixedEvents \in Nat \ {0}
    BY SizeFacts
  <2>2. (eventSerial + 1) % (EventSize - FixedEvents) \in 0 .. EventSize - FixedEvents - 1
    BY <2>1, DivMod DEF TypeOK
  <2>. QED  BY <2>2 DEF Select, CountSerial, TypeOK
<1>3. call' \in [Processes -> Calls] /\ \A q \in Processes : HasEntry(call'[q])
  <2>1. ASSUME NEW t \in Events, NEW pc \in {"remove", "fill", "select"},
               call' = [call EXCEPT ![p] = [c EXCEPT !.tid = t, !.pc = pc]]
        PROVE  <1>3
    <3>1. [c EXCEPT !.tid = t, !.pc = pc] \in Calls /\ HasEntry([c EXCEPT !.tid = t, !.pc = pc])
      BY <1>1, SizeFacts DEF Calls, HasEntry
    <3>. QED  BY <2>1, <3>1, CallType
  <2>2. c.pc = "select" /\ call \in [Processes -> Calls]
    BY DEF Select, TypeOK
  <2>3. CASE call' = [call EXCEPT ![p].tid = want, ![p].pc = "remove"]
    <3>1. call' = [call EXCEPT ![p] = [c EXCEPT !.tid = want, !.pc = "remove"]]
      BY <2>2, <2>3
    <3>. QED  BY <1>1, <2>1, <3>1
  <2>4. CASE call' = [call EXCEPT ![p].tid = want]
    <3>1. call' = [call EXCEPT ![p] = [c EXCEPT !.tid = want, !.pc = "select"]]
      BY <1>1, <2>2, <2>4 DEF Calls
    <3>. QED  BY <1>1, <2>1, <3>1
  <2>5. ASSUME NEW t \in FirstFree(want), call' = [call EXCEPT ![p].tid = t, ![p].pc = "fill"]
        PROVE  <1>3
    <3>1. t \in Events
      BY DEF FirstFree
    <3>2. call' = [call EXCEPT ![p] = [c EXCEPT !.tid = t, !.pc = "fill"]]
      BY <2>2, <2>5
    <3>. QED  BY <2>1, <3>1, <3>2
  <2>. QED  BY <2>3, <2>4, <2>5 DEF Select
<1>. QED  BY <1>2, <1>3 DEF Select, TypeOK, wheelVars

LEMMA NoEntryType ==
    ASSUME TypeOK, NEW p \in Processes, NoEntry(p)
    PROVE  TypeOK'
<1>1. eventSerial' \in 0 .. EventSize - FixedEvents - 1
  <2>1. EventSize - FixedEvents \in Nat \ {0}
    BY SizeFacts
  <2>2. (eventSerial + 1) % (EventSize - FixedEvents) \in 0 .. EventSize - FixedEvents - 1
    BY <2>1, DivMod DEF TypeOK
  <2>. QED  BY <2>2 DEF NoEntry, CountSerial, TypeOK
<1>2. call' \in [Processes -> Calls] /\ \A q \in Processes : HasEntry(call'[q])
  BY CallType, NoCallType DEF NoEntry, HasEntry
<1>. QED  BY <1>1, <1>2 DEF NoEntry, TypeOK, wheelVars

LEMMA FillType ==
    ASSUME TypeOK, NEW p \in Processes, Fill(p)
    PROVE  TypeOK'
<1>. DEFINE c == call[p]
            t == c.tid
            filled == [ev[t] EXCEPT !.pre = 0, !.next = 0, !.tid = t, !.millisecond = c.repeatDelay,
                                    !.repeat = c.repeat, !.repeatCount = c.repeatCount]
<1>1. c \in Calls /\ t \in Events /\ t \in Keys /\ ev \in [Events -> Entries]
  BY SizeFacts DEF TypeOK, Fill, HasEntry
<1>2. filled \in Entries
  <2>1. ev[t] \in Entries /\ 0 \in Keys
    BY <1>1, SizeFacts
  <2>2. c.repeatDelay \in Nat /\ c.repeat \in BOOLEAN /\ c.repeatCount \in Int
    BY <1>1 DEF Calls
  <2>. HIDE DEF c
  <2>. QED  BY <1>1, <2>1, <2>2 DEF Entries
<1>3. ev' \in [Events -> Entries]
  <2>1. ev' = [ev EXCEPT ![t] = filled]
    BY <1>1 DEF Fill
  <2>. QED  BY <1>1, <1>2, <2>1
<1>4. call' \in [Processes -> Calls] /\ \A q \in Processes : HasEntry(call'[q])
  <2>1. \E pc \in {"ran", "link"} : call' = [call EXCEPT ![p] = [c EXCEPT !.pc = pc]]
    BY DEF Fill, TypeOK
  <2>2. PICK pc \in {"ran", "link"} : call' = [call EXCEPT ![p] = [c EXCEPT !.pc = pc]]
    BY <2>1
  <2>3. [c EXCEPT !.pc = pc] \in Calls /\ HasEntry([c EXCEPT !.pc = pc])
    BY <1>1 DEF Calls, HasEntry
  <2>. QED  BY <2>2, <2>3, CallType
<1>5. DOMAIN due' \subseteq Events
  <2>1. DOMAIN due \subseteq Events
    BY DEF TypeOK
  <2>2. CASE due' = Restrict(due, DOMAIN due \ {t})
    BY <2>1, <2>2 DEF Restrict
  <2>3. CASE due' = due
    BY <2>1, <2>3
  <2>4. CASE DOMAIN due' = DOMAIN due \cup {t}
    BY <1>1, <2>1, <2>4
  <2>. QED  BY <2>2, <2>3, <2>4 DEF Fill
<1>. QED  BY <1>3, <1>4, <1>5 DEF Fill, TypeOK

LEMMA RanType ==
    ASSUME TypeOK, NEW p \in Processes, Ran(p)
    PROVE  TypeOK'
<1>. DEFINE t == call[p].tid
<1>1. t \in Events /\ ev \in [Events -> Entries] /\ ev[t] \in Entries
  BY DEF TypeOK, Ran, HasEntry
<1>2. ev' \in [Events -> Entries]
  BY <1>1, NoEventType DEF Ran, Erased
<1>3. PICK c \in {Again(ev[t]), NoCall} : call' = [call EXCEPT ![p] = c]
  BY DEF Ran
<1>4. c \in Calls /\ HasEntry(c)
  BY <1>1, AgainType, NoCallType DEF HasEntry
<1>5. call' \in [Processes -> Calls] /\ \A q \in Processes : HasEntry(call'[q])
  BY <1>3, <1>4, CallType
<1>. QED  BY <1>2, <1>5 DEF Ran, TypeOK

LEMMA LockType ==
    ASSUME TypeOK, NEW p \in Processes, NEW held \in BOOLEAN, Lock(p, held)
    PROVE  saw' \in [Processes -> BOOLEAN] /\ flag' \in BOOLEAN
BY DEF Lock, TypeOK

LEMMA LinkType ==
    ASSUME TypeOK, NEW p \in Processes, Link(p)
    PROVE  TypeOK'
<1>. DEFINE t == call[p].tid
            place == Place(call[p].startTime)
            h == head[place.wheel][place.slot]
<1>1. t \in Events /\ call[p].startTime \in Nat
  BY DEF TypeOK, Link, HasEntry, Calls
<1>2. place \in [wheel : Wheels, slot : Slots, leftCount : Nat, leftMilliSecond : Nat]
  BY <1>1, PlaceType
<1>3. h \in {0} \cup Events
  BY <1>2 DEF TypeOK
<1>4. Pushed(t, h) \in [Events -> Entries]
  BY <1>1, <1>3, PushedType
<1>5. ev' \in [Events -> Entries]
  <2>. DEFINE e == [Pushed(t, h)[t] EXCEPT !.leftCount = place.leftCount,
                                           !.leftMilliSecond = place.leftMilliSecond]
  <2>1. e \in Entries
    <3>. HIDE DEF place, h
    <3>. QED  BY <1>1, <1>2, <1>4 DEF Entries
  <2>2. ev' = [Pushed(t, h) EXCEPT ![t] = e]
    <3>1. ev' = [Pushed(t, h) EXCEPT ![t].leftCount = place.leftCount,
                                     ![t].leftMilliSecond = place.leftMilliSecond]
      BY DEF Link
    <3>. HIDE DEF place, h
    <3>. QED  BY <1>1, <1>4, <3>1
  <2>. QED  BY <1>1, <1>4, <2>1, <2>2
<1>6. head' \in [Wheels -> [Slots -> {0} \cup Events]]
  <2>1. head' = [head EXCEPT ![place.wheel][place.slot] = t]
    BY DEF Link
  <2>. HIDE DEF place
  <2>. QED  BY <1>1, <1>2, <2>1 DEF TypeOK
<1>7. call' \in [Processes -> Calls] /\ \A q \in Processes : HasEntry(call'[q])
  BY CallType, NoCallType DEF Link, HasEntry
<1>8. saw' \in [Processes -> BOOLEAN] /\ flag' \in BOOLEAN
  BY LockType DEF Link
<1>. QED  BY <1>5, <1>6, <1>7, <1>8 DEF Link, TypeOK

LEMMA RemoveType ==
    ASSUME TypeOK, NEW p \in Processes, Remove(p)
    PROVE  TypeOK'
<1>. DEFINE t == call[p].tid
<1>1. t \in Events /\ ev[t] \in Entries /\ call[p] \in Calls
  BY DEF TypeOK, Remove, HasEntry
<1>2. ev' \in [Events -> Entries]
  BY <1>1, DetachedType, NoEventType DEF Remove
<1>3. head' \in [Wheels -> [Slots -> {0} \cup Events]]
  <2>1. head \in [Wheels -> [Slots -> {0} \cup Events]]
    BY DEF TypeOK
  <2>2. ev[t].next \in {0} \cup Events
    BY <1>1, SizeFacts DEF Entries
  <2>3. CASE head' = head
    BY <2>1, <2>3
  <2>4. ASSUME NEW w, NEW s, head' = [head EXCEPT ![w][s] = ev[t].next]
        PROVE  <1>3
    <3>1. CASE w \in Wheels
      <4>1. [head[w] EXCEPT ![s] = ev[t].next] \in [Slots -> {0} \cup Events]
        BY <2>1, <2>2, <3>1
      <4>. QED  BY <2>1, <2>4, <3>1, <4>1
    <3>2. CASE w \notin Wheels
      BY <2>1, <2>4, <3>2
    <3>. QED  BY <3>1, <3>2
  <2>. QED  BY <2>3, <2>4 DEF Remove
<1>4. PICK c \in {NoCall, [call[p] EXCEPT !.pc = "fill"]} : call' = [call EXCEPT ![p] = c]
  BY DEF Remove, TypeOK
<1>5. c \in Calls /\ HasEntry(c)
  BY <1>1, <1>4, NoCallType DEF Calls, HasEntry
<1>6. call' \in [Processes -> Calls] /\ \A q \in Processes : HasEntry(call'[q])
  BY <1>4, <1>5, CallType
<1>7. saw' \in [Processes -> BOOLEAN] /\ flag' \in BOOLEAN
  BY LockType DEF Remove
<1>8. DOMAIN due' \subseteq Events
  BY DEF Remove, TypeOK, Restrict
<1>. QED  BY <1>2, <1>3, <1>6, <1>7, <1>8 DEF Remove, TypeOK

LEMMA SeeFlagType ==
    ASSUME TypeOK, NEW p \in Processes, SeeFlag(p)
    PROVE  TypeOK'
BY DEF SeeFlag, TypeOK, wheelVars
-----------------------------------------------------------------------------
(* The steps of Tick *)

LEMMA GotoType ==
    ASSUME NEW pc \in TickPcs, NEW key \in {0} \cup Events, Goto(pc, key)
    PROVE  tick'.pc \in TickPcs /\ tick'.HeadKeyPointer \in {0} \cup Events
BY DEF Goto

LEMMA NextKeyType ==
    ASSUME TypeOK, NEW t \in Events
    PROVE  ev[t] \in Entries /\ ev[t].next \in {0} \cup Events
BY SizeFacts DEF TypeOK, Entries

LEMMA HeadsWithoutType ==
    ASSUME TypeOK, NEW t \in Events, NEW wheel \in Wheels
    PROVE  HeadsWithout(wheel, t) \in [Wheels -> [Slots -> {0} \cup Events]]
<1>1. head \in [Wheels -> [Slots -> {0} \cup Events]] /\ ptr[wheel] \in Slots
  BY DEF TypeOK
<1>2. ev[t].next \in {0} \cup Events
  BY NextKeyType
<1>3. [head[wheel] EXCEPT ![ptr[wheel]] = ev[t].next] \in [Slots -> {0} \cup Events]
  BY <1>1, <1>2
<1>. QED  BY <1>1, <1>3 DEF HeadsWithout

LEMMA WaitType ==
    ASSUME TypeOK, NEW wheel, Wait(wheel), tick.HeadKeyPointer # 0
    PROVE  TypeOK'
<1>. DEFINE t == tick.HeadKeyPointer
<1>1. t \in Events /\ tick.pc \in TickPcs
  BY DEF TypeOK
<1>2. ev[t] \in Entries /\ ev[t].next \in {0} \cup Events
  BY <1>1, NextKeyType
<1>3. ev' \in [Events -> Entries]
  <2>1. ev[t].leftCount - 1 \in Nat
    BY <1>2 DEF Entries, Wait
  <2>2. [ev[t] EXCEPT !.leftCount = @ - 1] \in Entries
    BY <1>2, <2>1 DEF Entries
  <2>3. ev' = [ev EXCEPT ![t] = [ev[t] EXCEPT !.leftCount = @ - 1]]
    BY <1>1 DEF Wait, TypeOK
  <2>. QED  BY <1>1, <2>2, <2>3 DEF TypeOK
<1>4. tick'.pc \in TickPcs /\ tick'.HeadKeyPointer \in {0} \cup Events
  BY <1>1, <1>2, GotoType DEF Wait
<1>. QED  BY <1>3, <1>4 DEF Wait, TypeOK

LEMMA FireType ==
    ASSUME TypeOK, Fire, tick.HeadKeyPointer # 0
    PROVE  TypeOK'
<1>. DEFINE t == tick.HeadKeyPointer
<1>1. t \in Events
  BY DEF TypeOK
<1>2. ev[t] \in Entries /\ ev[t].next \in {0} \cup Events
  BY <1>1, NextKeyType
<1>3. ev' \in [Events -> Entries]
  BY <1>1, DetachedType, NoEventType DEF Fire
<1>4. head' \in [Wheels -> [Slots -> {0} \cup Events]]
  <2>1. head' = HeadsWithout("second", t) /\ "second" \in Wheels
    BY DEF Fire, Wheels
  <2>. QED  BY <1>1, <2>1, HeadsWithoutType
<1>5. call' \in [Processes -> Calls] /\ \A q \in Processes : HasEntry(call'[q])
  <2>1. CASE call' = call
    BY <2>1 DEF TypeOK
  <2>2. ASSUME NEW c \in {NoCall, Again(ev[t])}, call' = [call EXCEPT ![Timer] = c]
        PROVE  <1>5
    <3>1. c \in Calls /\ HasEntry(c)
      BY <1>2, AgainType, NoCallType DEF HasEntry
    <3>. QED  BY <2>2, <3>1, CallType, ThreadsFacts
  <2>. QED  BY <2>1, <2>2 DEF Fire
<1>6. tick'.pc \in TickPcs /\ tick'.HeadKeyPointer \in {0} \cup Events
  BY <1>2, GotoType DEF Fire, TickPcs
<1>7. DOMAIN due' \subseteq Events
  BY DEF Fire, TypeOK, Restrict
<1>8. flag' \in BOOLEAN
  BY DEF Fire
<1>. QED  BY <1>3, <1>4, <1>5, <1>6, <1>7, <1>8 DEF Fire, TypeOK

LEMMA CascadeType ==
    ASSUME TypeOK, NEW wheel \in Coarse, Cascade(wheel), tick.HeadKeyPointer # 0
    PROVE  TypeOK'
<1>. DEFINE t == tick.HeadKeyPointer
            e == ev[t]
            c == AddCall(e.tid, e.leftMilliSecond, e.millisecond, e.repeat, e.repeatCount, TRUE)
<1>1. t \in Events
  BY DEF TypeOK
<1>2. e \in Entries /\ e.next \in {0} \cup Events
  BY <1>1, NextKeyType
<1>3. ev' \in [Events -> Entries]
  BY <1>1, DetachedType DEF Cascade
<1>4. head' \in [Wheels -> [Slots -> {0} \cup Events]]
  <2>1. head' = HeadsWithout(wheel, t) /\ wheel \in Wheels
    BY DEF Cascade, Wheels, Coarse
  <2>. QED  BY <1>1, <2>1, HeadsWithoutType
<1>5. call' \in [Processes -> Calls] /\ \A q \in Processes : HasEntry(call'[q])
  <2>1. c \in Calls /\ HasEntry(c)
    BY <1>2 DEF AddCall, Calls, HasEntry, Entries
  <2>2. call' = [call EXCEPT ![Timer] = c]
    BY DEF Cascade
  <2>. QED  BY <2>1, <2>2, CallType, ThreadsFacts
<1>6. tick'.pc \in TickPcs /\ tick'.HeadKeyPointer \in {0} \cup Events
  <2>1. Back[wheel] \in TickPcs
    BY DEF Back, Coarse, TickPcs
  <2>2. Goto(Back[wheel], e.next)
    BY DEF Cascade
  <2>. QED  BY <1>2, <2>1, <2>2, GotoType
<1>. QED  BY <1>3, <1>4, <1>5, <1>6 DEF Cascade, TypeOK

LEMMA EndType ==
    ASSUME TypeOK, EndSecond \/ EndMinute \/ EndHour
    PROVE  TypeOK'
<1>1. ASSUME NEW wheel \in Wheels, ptr' = Turn(wheel)  PROVE ptr' \in [Wheels -> Slots]
  <2>1. ptr[wheel] \in Nat
    BY <1>1, SizeFacts DEF TypeOK, Slots
  <2>2. (ptr[wheel] + 1) % WheelSize \in 0 .. WheelSize - 1
    <3>1. ptr[wheel] + 1 \in Nat /\ WheelSize \in Nat \ {0}
      BY <2>1, SizeFacts
    <3>. QED  BY <3>1, DivMod, Zenon
  <2>3. (ptr[wheel] + 1) % WheelSize \in Slots
    BY <2>2 DEF Slots
  <2>. QED  BY <1>1, <2>3 DEF Turn, TypeOK
<1>2. "second" \in Wheels /\ "minute" \in Wheels /\ "hour" \in Wheels
  BY DEF Wheels
<1>3. \A wheel \in Wheels : head[wheel][ptr[wheel]] \in {0} \cup Events
  BY DEF TypeOK
<1>4. {"sleep", "minute", "hour"} \subseteq TickPcs
  BY DEF TickPcs
<1>5. (secondCurrent + 1) % TicksPerMinute \in 0 .. TicksPerMinute - 1
      /\ (minuteCurrent + 1) % MinutesPerHour \in 0 .. MinutesPerHour - 1
  BY SizeFacts, DivMod DEF TypeOK
<1>6. CASE EndSecond
  <2>1. ptr' \in [Wheels -> Slots]
    BY <1>1, <1>2, <1>6 DEF EndSecond
  <2>2. \/ Goto("sleep", 0) /\ flag' = FALSE
        \/ Goto("minute", head["minute"][ptr["minute"]]) /\ UNCHANGED flag
    BY <1>6 DEF EndSecond
  <2>3. tick'.pc \in TickPcs /\ tick'.HeadKeyPointer \in {0} \cup Events
    BY <1>2, <1>3, <1>4, <2>2, GotoType
  <2>4. flag' \in BOOLEAN
    BY <2>2 DEF TypeOK
  <2>. QED  BY <1>5, <1>6, <2>1, <2>3, <2>4 DEF EndSecond, TypeOK
<1>7. CASE EndMinute
  <2>1. ptr' \in [Wheels -> Slots]
    BY <1>1, <1>2, <1>7 DEF EndMinute
  <2>2. \/ Goto("sleep", 0) /\ flag' = FALSE
        \/ Goto("hour", head["hour"][ptr["hour"]]) /\ UNCHANGED flag
    BY <1>7 DEF EndMinute
  <2>3. tick'.pc \in TickPcs /\ tick'.HeadKeyPointer \in {0} \cup Events
    BY <1>2, <1>3, <1>4, <2>2, GotoType
  <2>4. flag' \in BOOLEAN
    BY <2>2 DEF TypeOK
  <2>. QED  BY <1>5, <1>7, <2>1, <2>3, <2>4 DEF EndMinute, TypeOK
<1>8. CASE EndHour
  <2>1. ptr' \in [Wheels -> Slots]
    BY <1>1, <1>2, <1>8 DEF EndHour
  <2>2. tick'.pc \in TickPcs /\ tick'.HeadKeyPointer \in {0} \cup Events /\ flag' \in BOOLEAN
    BY <1>4, <1>8, GotoType DEF EndHour
  <2>. QED  BY <1>8, <2>1, <2>2 DEF EndHour, TypeOK
<1>. QED  BY <1>6, <1>7, <1>8

(* The steps that only wait for the flag or begin the tick. *)
LEMMA PauseType ==
    ASSUME TypeOK,
           TickBegins \/ TickLocks \/ BackFromRepeat \/ BackFromRun
             \/ \E wheel \in Coarse : BackFromCascade(wheel)
    PROVE  TypeOK'
<1>1. tick.HeadKeyPointer \in {0} \cup Events
  BY DEF TypeOK
<1>2. CASE TickBegins
  <2>1. tick'.pc \in TickPcs /\ tick'.HeadKeyPointer \in {0} \cup Events
    BY <1>2, GotoType DEF TickBegins, TickPcs
  <2>2. DOMAIN due' \subseteq Events
    BY <1>2 DEF TickBegins, TypeOK
  <2>. QED  BY <1>2, <2>1, <2>2 DEF TickBegins, TypeOK, wheelVars
<1>3. ASSUME NEW pc \in TickPcs, NEW key \in {0} \cup Events, NEW held \in BOOLEAN,
             Goto(pc, key), Lock(Timer, held), UNCHANGED <<wheelVars, eventSerial, call, due>>
      PROVE  TypeOK'
  <2>1. tick'.pc \in TickPcs /\ tick'.HeadKeyPointer \in {0} \cup Events
    BY <1>3, GotoType
  <2>2. saw' \in [Processes -> BOOLEAN] /\ flag' \in BOOLEAN
    BY <1>3, LockType, ThreadsFacts
  <2>. QED  BY <1>3, <2>1, <2>2 DEF TypeOK, wheelVars
<1>4. CASE TickLocks
  <2>1. Now \in {0} \cup Events
    BY DEF Now, TypeOK, Wheels
  <2>2. "sec" \in TickPcs
    BY DEF TickPcs
  <2>. QED  BY <1>3, <1>4, <2>1, <2>2 DEF TickLocks
<1>5. CASE BackFromRepeat \/ BackFromRun
  <2>1. "run" \in TickPcs /\ "sec" \in TickPcs
    BY DEF TickPcs
  <2>. QED  BY <1>1, <1>3, <1>5, <2>1 DEF BackFromRepeat, BackFromRun
<1>6. ASSUME NEW wheel \in Coarse, BackFromCascade(wheel)  PROVE TypeOK'
  <2>1. wheel \in TickPcs
    BY DEF Coarse, TickPcs
  <2>. QED  BY <1>1, <1>3, <1>6, <2>1 DEF BackFromCascade
<1>. QED  BY <1>2, <1>4, <1>5, <1>6

LEMMA EventErrorType == ASSUME TypeOK, EventError  PROVE TypeOK'
<1>1. tick'.pc \in TickPcs /\ tick'.HeadKeyPointer \in {0} \cup Events
  BY GotoType DEF EventError, TickPcs
<1>. QED  BY <1>1 DEF EventError, TypeOK, wheelVars

LEMMA StartCallType == ASSUME TypeOK, NEW p, StartCall(p)  PROVE TypeOK'
<1>1. PICK c \in ClientCalls \cup CallbackCalls : call' = [call EXCEPT ![p] = c]
  BY DEF StartCall
<1>2. p \in Processes
  BY ThreadsFacts DEF StartCall
<1>3. call' \in [Processes -> Calls] /\ \A q \in Processes : HasEntry(call'[q])
  BY <1>1, <1>2, CallsAssumption, CallType
<1>. QED  BY <1>3 DEF StartCall, TypeOK, wheelVars
-----------------------------------------------------------------------------
LEMMA InitType == Init => TypeOK
<1>. SUFFICES ASSUME Init  PROVE TypeOK
  OBVIOUS
<1>1. ev \in [Events -> Entries]
  BY NoEventType DEF Init
<1>2. head \in [Wheels -> [Slots -> {0} \cup Events]] /\ ptr \in [Wheels -> Slots]
  BY SizeFacts DEF Init
<1>3. call \in [Processes -> Calls] /\ \A p \in Processes : HasEntry(call[p])
  BY NoCallType DEF Init, HasEntry
<1>4. tick.pc \in TickPcs /\ tick.HeadKeyPointer \in {0} \cup Events
  BY DEF Init, TickPcs
<1>5. eventSerial \in 0 .. EventSize - FixedEvents - 1
  BY SizeFacts DEF Init
<1>. QED  BY <1>1, <1>2, <1>3, <1>4, <1>5 DEF Init, TypeOK

LEMMA NextType == TypeOK /\ [Next]_vars => TypeOK'
<1>. SUFFICES ASSUME TypeOK, [Next]_vars  PROVE TypeOK'
  OBVIOUS
<1>1. ASSUME NEW p \in Processes, CallStep(p)  PROVE TypeOK'
  BY <1>1, SeeFlagType, SelectType, NoEntryType, FillType, RanType, LinkType, RemoveType DEF CallStep
<1>2. CASE VisitSecond
  BY <1>2, WaitType, FireType, EventErrorType DEF VisitSecond
<1>3. ASSUME NEW wheel \in Coarse, VisitCoarse(wheel)  PROVE TypeOK'
  BY <1>3, WaitType, CascadeType DEF VisitCoarse
<1>4. CASE TickBegins \/ TickStep
  BY <1>2, <1>3, <1>4, EndType, PauseType DEF TickStep
<1>5. CASE UNCHANGED vars
  BY <1>5 DEF vars, TypeOK
<1>. QED  BY <1>1, <1>4, <1>5, StartCallType DEF Next, Step

LEMMA QuietIsNext == QuietNext => Next
BY DEF QuietNext, Next

LEMMA RestartType == TypeOK /\ Restart => TypeOK'
<1>. SUFFICES ASSUME TypeOK, Restart  PROVE TypeOK'
  OBVIOUS
<1>1. UNCHANGED <<ev, head, ptr>> /\ NewProcess
  BY DEF Restart, NewProcess
<1>2. \A p \in Processes : call'[p] = NoCall
  BY <1>1 DEF NewProcess
<1>3. call' \in [Processes -> Calls] /\ \A p \in Processes : HasEntry(call'[p])
  BY <1>1, <1>2, NoCallType DEF NewProcess, HasEntry
<1>4. eventSerial' \in 0 .. EventSize - FixedEvents - 1
  BY <1>1, SizeFacts DEF NewProcess
<1>5. tick'.pc \in TickPcs /\ tick'.HeadKeyPointer \in {0} \cup Events
  BY <1>1 DEF NewProcess, TickPcs
<1>6. DOMAIN due' \subseteq Events
  BY <1>1 DEF NewProcess, Restart, TypeOK, Restrict
<1>. QED  BY <1>1, <1>3, <1>4, <1>5, <1>6 DEF NewProcess, TypeOK

(* With calls between ticks and inside the functions of events, so that no  *)
(* two threads are at the lists at once, no key leaves the event table and  *)
(* no pointer its wheel: not behind an event error, and not when a restart, *)
(* a function that removes events or a repetition that has ended leaves     *)
(* stale links, which AddTimeOut, RemoveEvent and Tick then follow.         *)
THEOREM TypeCorrect == (QuietSpec => []TypeOK) /\ (RestartSpec => []TypeOK)
<1>1. TypeOK /\ [QuietNext]_vars => TypeOK'
  BY NextType, QuietIsNext
<1>2. QuietSpec => []TypeOK
  BY <1>1, InitType, PTL DEF QuietSpec
<1>3. RestartInit => TypeOK
  BY InitType DEF RestartInit
<1>4. TypeOK /\ [RestartNext]_restartVars => TypeOK'
  BY NextType, QuietIsNext, RestartType DEF RestartNext, restartVars
<1>5. RestartSpec => []TypeOK
  BY <1>3, <1>4, PTL DEF RestartSpec
<1>. QED  BY <1>2, <1>5
-----------------------------------------------------------------------------
Walking == tick.pc \in {"sec", "minute", "hour"}

(* The flag is up while the timer thread walks a list, and then only: no    *)
(* early return of Tick, AddTimeOut or RemoveEvent leaves it up.            *)
FlagHeld == flag <=> Walking

(* A thread that has seen the flag down is the only one, and still wants it. *)
SeenByOne == \A p \in Processes : saw[p] => /\ AtLock(p) /\ ~ flag
                                            /\ \A q \in Processes : saw[q] => q = p

(* Only behind an event that is added again does a tick wait for a call. *)
TimerFree == tick.pc \notin {"sec_back", "minute_back", "hour_back"} => call[Timer].pc = "none"

FInv == /\ flag \in BOOLEAN
        /\ saw \in [Processes -> BOOLEAN]
        /\ DOMAIN call = Processes
        /\ FlagHeld /\ SeenByOne /\ TimerFree

LEMMA ThreadFacts == Timer \in Processes /\ \A c \in Clients : c \in Processes /\ c # Timer
BY ThreadAssumption DEF Processes

(* Being at the lock is a thread's own affair. *)
LEMMA OthersAtLock ==
    ASSUME NEW p \in Processes, DOMAIN call = Processes, DOMAIN call' = Processes,
           \A q \in Processes \ {p} : call'[q] = call[q],
           p # Timer => tick' = tick
    PROVE  \A q \in Processes \ {p} : AtLock(q)' <=> AtLock(q)
BY ThreadFacts DEF AtLock

(* A step of p that leaves saw alone, does not raise the flag against a     *)
(* thread that saw it down, and keeps p at the lock if p saw it.            *)
LEMMA SeenKept ==
    ASSUME NEW p \in Processes, FInv, saw' = saw, DOMAIN call' = Processes,
           \A q \in Processes \ {p} : call'[q] = call[q],
           p # Timer => tick' = tick,
           flag' => flag,
           saw[p] => AtLock(p)'
    PROVE  SeenByOne'
<1>. SUFFICES ASSUME NEW r \in Processes, saw'[r]
              PROVE  AtLock(r)' /\ ~ flag' /\ \A q \in Processes : saw'[q] => q = r
  BY DEF SeenByOne
<1>1. saw[r] /\ AtLock(r) /\ ~ flag /\ \A q \in Processes : saw[q] => q = r
  BY DEF FInv, SeenByOne
<1>2. AtLock(r)'
  BY <1>1, OthersAtLock DEF FInv
<1>. QED  BY <1>1, <1>2

(* A step of p that takes the flag: nobody has seen it down any more.       *)
LEMMA LockTaken ==
    ASSUME NEW p \in Processes, FInv, NEW held, Lock(p, held)
    PROVE  SeenByOne' /\ ~ flag /\ ~ Walking /\ saw' \in [Processes -> BOOLEAN] /\ flag' = held
BY DEF FInv, SeenByOne, Lock, FlagHeld

(* A step inside AddTimeOut or RemoveEvent. *)
LEMMA CallStepKeeps ==
    ASSUME NEW p \in Processes, FInv, Locked(p), CallStep(p)
    PROVE  FInv'
<1>. USE DEF FInv
<1>1. tick' = tick /\ DOMAIN call' = Processes /\ \A q \in Processes \ {p} : call'[q] = call[q]
  BY DEF CallStep, SeeFlag, Select, NoEntry, Fill, Ran, Link, Remove
<1>2. CASE SeeFlag(p)
  <2>1. flag' = flag /\ call' = call /\ saw' \in [Processes -> BOOLEAN]
    BY <1>2 DEF SeeFlag
  <2>2. SeenByOne'
    <3>1. AtLock(p)' /\ ~ flag /\ saw' = [saw EXCEPT ![p] = TRUE]
      BY <1>1, <1>2, <2>1 DEF SeeFlag, AtLock
    <3>2. \A q \in Processes \ {p} : ~ saw[q]
      BY <1>2 DEF SeeFlag, Locked
    <3>. QED  BY <2>1, <3>1, <3>2 DEF SeenByOne
  <2>. QED  BY <1>1, <2>1, <2>2 DEF FlagHeld, Walking, TimerFree
<1>3. CASE Select(p) \/ NoEntry(p) \/ Fill(p) \/ Ran(p)
  <2>1. saw' = saw /\ flag' = flag
    BY <1>3 DEF Select, NoEntry, Fill, Ran
  <2>2. call[p].pc \in {"select", "fill", "ran"}
    BY <1>3 DEF Select, NoEntry, Fill, Ran
  <2>3. ~ saw[p]
    BY <2>2 DEF SeenByOne, AtLock
  <2>4. SeenByOne'
    BY <1>1, <2>1, <2>3, SeenKept
  <2>5. TimerFree'
    BY <1>1, <2>2, ThreadFacts DEF TimerFree
  <2>. QED  BY <1>1, <2>1, <2>4, <2>5 DEF FlagHeld, Walking
<1>4. CASE Link(p) \/ Remove(p)
  <2>1. Lock(p, FALSE) /\ call[p].pc \in {"link", "remove"}
    BY <1>4 DEF Link, Remove
  <2>2. SeenByOne' /\ ~ Walking /\ saw' \in [Processes -> BOOLEAN] /\ flag' = FALSE
    BY <2>1, LockTaken
  <2>3. TimerFree'
    BY <1>1, <2>1, ThreadFacts DEF TimerFree
  <2>. QED  BY <1>1, <2>2, <2>3 DEF FlagHeld, Walking
<1>. QED  BY <1>2, <1>3, <1>4 DEF CallStep

(* A step of a tick. *)
LEMMA TickStepKeeps ==
    ASSUME FInv, TickBegins \/ TickStep
    PROVE  FInv'
<1>. USE DEF FInv
<1>1. CASE TickBegins
  <2>1. saw' = saw /\ flag' = flag /\ call' = call /\ tick.pc = "sleep" /\ tick'.pc = "lock"
    BY <1>1 DEF TickBegins, Goto
  <2>2. saw[Timer] => AtLock(Timer)'
    BY <2>1, ThreadFacts DEF SeenByOne, AtLock
  <2>3. SeenByOne'
    BY <2>1, <2>2, SeenKept, ThreadFacts
  <2>. QED  BY <2>1, <2>3 DEF FlagHeld, Walking, TimerFree
<1>2. CASE TickLocks \/ BackFromRun \/ \E wheel \in Coarse : BackFromCascade(wheel)
  <2>1. tick'.pc \in {"sec", "minute", "hour"} /\ Lock(Timer, TRUE) /\ call' = call
    <3>1. CASE TickLocks
      BY <3>1 DEF TickLocks, Goto
    <3>2. CASE BackFromRun
      BY <3>2 DEF BackFromRun, Goto
    <3>3. ASSUME NEW wheel \in Coarse, BackFromCascade(wheel)
          PROVE  tick'.pc \in {"sec", "minute", "hour"} /\ Lock(Timer, TRUE) /\ call' = call
      BY <3>3 DEF BackFromCascade, Goto, Coarse
    <3>. QED  BY <1>2, <3>1, <3>2, <3>3
  <2>2. call[Timer].pc = "none"
    BY <1>2 DEF TickLocks, BackFromRun, BackFromCascade, TimerFree
  <2>3. SeenByOne' /\ saw' \in [Processes -> BOOLEAN] /\ flag' = TRUE
    BY <2>1, LockTaken, ThreadFacts
  <2>. QED  BY <2>1, <2>2, <2>3 DEF FlagHeld, Walking, TimerFree
<1>3. CASE BackFromRepeat
  <2>1. Lock(Timer, FALSE) /\ tick'.pc = "run" /\ call' = call /\ call[Timer].pc = "none"
    BY <1>3 DEF BackFromRepeat, Goto
  <2>. QED  BY <2>1, LockTaken, ThreadFacts DEF FlagHeld, Walking, TimerFree
<1>4. CASE VisitSecond \/ (\E wheel \in Coarse : VisitCoarse(wheel))
            \/ EndSecond \/ EndMinute \/ EndHour
  <2>1. Walking
    BY <1>4 DEF VisitSecond, VisitCoarse, EndSecond, EndMinute, EndHour, Walking, Coarse
  <2>2. flag /\ call[Timer].pc = "none" /\ \A p \in Processes : ~ saw[p]
    BY <2>1 DEF FlagHeld, SeenByOne, TimerFree, Walking
  <2> DEFINE Goes(on, pcs) == flag' = on /\ tick'.pc \in pcs
             Lists == {"sec", "minute", "hour"}
  <2>3. \/ saw' = saw /\ call' = call
              /\ (Goes(TRUE, Lists) \/ Goes(FALSE, {"run", "dead", "sleep"}))
        \/ saw' = saw /\ DOMAIN call' = Processes
              /\ Goes(FALSE, {"sec_back", "minute_back", "hour_back"})
    <3>1. ASSUME NEW wheel, Wait(wheel)  PROVE <2>3
      <4>1. tick'.pc = tick.pc /\ flag' = flag /\ saw' = saw /\ call' = call
        BY <3>1 DEF Wait, Goto
      <4>. QED  BY <2>1, <2>2, <4>1 DEF Walking
    <3>2. CASE Fire
      <4>1. flag' = FALSE /\ saw' = saw
        BY <3>2 DEF Fire
      <4>2. \/ tick'.pc = "sec_back" /\ DOMAIN call' = Processes
            \/ tick'.pc = "run" /\ call' = call
        BY <3>2 DEF Fire, Goto
      <4>. QED  BY <4>1, <4>2
    <3>3. CASE EventError
      BY <3>3 DEF EventError, Goto
    <3>4. ASSUME NEW wheel \in Coarse, Cascade(wheel)  PROVE <2>3
      <4>1. flag' = FALSE /\ saw' = saw /\ DOMAIN call' = Processes
        BY <3>4 DEF Cascade
      <4>2. tick'.pc \in {"minute_back", "hour_back"}
        BY <3>4 DEF Cascade, Goto, Back, Coarse
      <4>. QED  BY <4>1, <4>2
    <3>5. CASE EndSecond
      <4>1. saw' = saw /\ call' = call
        BY <3>5 DEF EndSecond
      <4>2. \/ tick'.pc = "sleep" /\ flag' = FALSE
            \/ tick'.pc = "minute" /\ flag' = flag
        BY <3>5 DEF EndSecond, Goto
      <4>. QED  BY <2>2, <4>1, <4>2
    <3>6. CASE EndMinute
      <4>1. saw' = saw /\ call' = call
        BY <3>6 DEF EndMinute
      <4>2. \/ tick'.pc = "sleep" /\ flag' = FALSE
            \/ tick'.pc = "hour" /\ flag' = flag
        BY <3>6 DEF EndMinute, Goto
      <4>. QED  BY <2>2, <4>1, <4>2
    <3>7. CASE EndHour
      BY <3>7 DEF EndHour, Goto
    <3>. QED  BY <1>4, <3>1, <3>2, <3>3, <3>4, <3>5, <3>6, <3>7 DEF VisitSecond, VisitCoarse
  <2>4. SeenByOne'
    BY <2>2, <2>3 DEF SeenByOne
  <2>. QED  BY <2>2, <2>3, <2>4 DEF FlagHeld, Walking, TimerFree
<1>. QED  BY <1>1, <1>2, <1>3, <1>4 DEF TickStep

(* A step of any thread that is ready for it. *)
LEMMA StepKeeps ==
    ASSUME NEW p \in Processes, FInv, (Locked(p) /\ Step(p)) \/ StartCall(p)
    PROVE  FInv'
<1>1. CASE StartCall(p)
  <2>1. /\ p # Timer /\ call[p].pc = "none" /\ tick' = tick /\ saw' = saw /\ flag' = flag
        /\ DOMAIN call' = Processes /\ \A q \in Processes \ {p} : call'[q] = call[q]
    BY <1>1, ThreadFacts DEF StartCall, FInv, wheelVars
  <2>2. ~ saw[p]
    BY <2>1 DEF FInv, SeenByOne, AtLock
  <2>3. SeenByOne'
    BY <2>1, <2>2, SeenKept
  <2>. QED  BY <2>1, <2>3, ThreadFacts DEF FInv, FlagHeld, Walking, TimerFree
<1>2. CASE Locked(p) /\ Step(p)
  BY <1>2, CallStepKeeps, TickStepKeeps DEF Step
<1>. QED  BY <1>1, <1>2

LEMMA InitFInv == Init => FInv
<1>. SUFFICES ASSUME Init  PROVE FInv
  OBVIOUS
<1>1. saw = [p \in Processes |-> FALSE] /\ call = [p \in Processes |-> NoCall]
      /\ flag = FALSE /\ tick.pc = "sleep"
  BY DEF Init
<1>2. NoCall.pc = "none"
  BY DEF NoCall
<1>3. DOMAIN call = Processes /\ TimerFree
  BY <1>1, <1>2, ThreadFacts DEF TimerFree
<1>. QED  BY <1>1, <1>3 DEF FInv, FlagHeld, Walking, SeenByOne

LEMMA Stutter == FInv /\ UNCHANGED vars => FInv'
BY DEF FInv, vars, FlagHeld, Walking, SeenByOne, AtLock, TimerFree

LEMMA LockedKeeps == FInv /\ [LockedNext]_vars => FInv'
<1>. SUFFICES ASSUME FInv, LockedNext  PROVE FInv'
  BY Stutter
<1>1. PICK p \in Processes : (Locked(p) /\ Step(p)) \/ StartCall(p)
  BY DEF LockedNext
<1>. QED  BY <1>1, StepKeeps

(* Under a true lock every path of a tick, an addition and a removal lowers *)
(* the flag it raised.                                                      *)
THEOREM FlagIsLowered == LockedSpec => []FlagHeld
<1>1. FInv => FlagHeld
  BY DEF FInv
<1>. QED  BY <1>1, LockedKeeps, InitFInv, PTL DEF LockedSpec

(* Under a true lock no other thread links or removes an entry while the    *)
(* timer thread walks a list.                                               *)
WalkUndisturbed == [][Walking => \A c \in Clients : ~ Link(c) /\ ~ Remove(c)]_vars

THEOREM WalkIsUndisturbed == LockedSpec => WalkUndisturbed
<1>1. FInv /\ [LockedNext]_vars => FInv'
  BY LockedKeeps
<1>2. FInv => (Walking => \A c \in Clients : ~ Link(c) /\ ~ Remove(c))
  BY LockTaken, ThreadFacts DEF Link, Remove
<1>3. FInv => [Walking => \A c \in Clients : ~ Link(c) /\ ~ Remove(c)]_vars
  BY <1>2
<1>. QED  BY <1>1, <1>3, InitFInv, PTL DEF LockedSpec, WalkUndisturbed
-----------------------------------------------------------------------------
(* A thread that is alone is the only one that can see the flag down.       *)
LEMMA AloneIsLocked == ASSUME NEW p \in Processes, FInv, Alone(p)  PROVE Locked(p)
<1>. SUFFICES ASSUME NEW q \in Processes \ {p}, saw[q]  PROVE FALSE
  BY DEF Locked
<1>1. AtLock(q) /\ AtRest(q)
  BY DEF FInv, SeenByOne, Alone
<1>2. CASE q = Timer
  <2>1. tick.pc \notin {"sleep", "dead"}
    BY <1>1, <1>2 DEF FInv, TimerFree, AtLock
  <2>2. InCallback
    BY <1>1, <1>2, <2>1 DEF AtRest
  <2>. QED  BY <1>1, <1>2, <2>2 DEF InCallback, AtLock
<1>3. CASE q # Timer
  <2>1. call[q] = NoCall
    BY <1>1, <1>3 DEF AtRest
  <2>2. call[q].pc = "none"
    BY <2>1 DEF NoCall
  <2>. QED  BY <1>1, <1>3, <2>2 DEF AtLock
<1>. QED  BY <1>2, <1>3

(* A process that starts has lowered the flag, whoever held it. *)
LEMMA RestartKeeps == ASSUME FInv, Restart  PROVE FInv'
<1>1. saw' = [p \in Processes |-> FALSE] /\ call' = [p \in Processes |-> NoCall]
      /\ flag' = FALSE /\ tick'.pc = "sleep"
  BY DEF Restart, NewProcess
<1>2. NoCall.pc = "none"
  BY DEF NoCall
<1>3. DOMAIN call' = Processes /\ TimerFree'
  BY <1>1, <1>2, ThreadFacts DEF TimerFree
<1>. QED  BY <1>1, <1>3 DEF FInv, FlagHeld, Walking, SeenByOne

(* Wherever the process was stopped, no thread of the next one finds the    *)
(* flag up but while its own timer thread walks a list.                     *)
THEOREM RestartLowersFlag == RestartSpec => []FlagHeld
<1>1. RestartInit => FInv
  BY InitFInv DEF RestartInit
<1>2. FInv /\ [RestartNext]_restartVars => FInv'
  <2>1. CASE Restart
    BY <2>1, RestartKeeps
  <2>2. ASSUME FInv, QuietNext  PROVE FInv'
    <3>1. PICK p \in Processes : Alone(p) /\ (Step(p) \/ StartCall(p))
      BY <2>2 DEF QuietNext
    <3>. QED  BY <2>2, <3>1, AloneIsLocked, StepKeeps
  <2>3. CASE UNCHANGED restartVars
    BY <2>3, Stutter DEF restartVars
  <2>. QED  BY <2>1, <2>2, <2>3 DEF RestartNext
<1>3. FInv => FlagHeld
  BY DEF FInv
<1>. QED  BY <1>1, <1>2, <1>3, PTL DEF RestartSpec
=============================================================================
