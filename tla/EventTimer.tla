------------------------------ MODULE EventTimer ------------------------------
(***************************************************************************)
(* EventTimerWheel (Timer/EventTimer.cpp): a hierarchical timing wheel in   *)
(* shared memory.  A wheel of hours, one of minutes and one of seconds hold *)
(* doubly linked lists of events; a thread turns the second wheel ten times *)
(* a second, runs the events that are due, and at every full minute (hour)  *)
(* moves events from a minute (hour) slot to a finer wheel by adding them   *)
(* again with the time they have left.  AddTimeOut and RemoveEvent run in   *)
(* other threads, and inside the functions that events call.                *)
(*                                                                          *)
(* `flag` is a spin lock whose test and set are separate steps.  What a     *)
(* thread does between setting it and letting it go (lines 290-375 of       *)
(* AddTimeOut, 405-454 of RemoveEvent) is one step, as is the search for a  *)
(* free entry: so nothing is said here of two threads that are inside at    *)
(* once, and every specification below keeps them apart, by a true lock or  *)
(* by its calls.  Time is counted in ticks: delays are whole ticks, so the  *)
(* remainder the second wheel drops (line 339) is 0.                        *)
(***************************************************************************)
EXTENDS Integers, FiniteSets, Sequences, Functions

CONSTANTS WheelSize,       \* TIMER_WHEEL_SIZE
          TicksPerMinute,  \* 60 * TIMER_WHEEL_TICK_PER_SECOND
          MinutesPerHour,
          EventSize,       \* TIMER_WHEEL_EVENT_SIZE
          FixedEvents,     \* FIXED_EVENT_SIZE
          Clients,         \* the other threads
          Timer,           \* the timer thread
          ClientCalls,     \* the calls other threads make
          CallbackCalls,   \* the calls made by the functions of events
          LateCap          \* bound: `due` counts no further below 0

ASSUME ThreadAssumption == Timer \notin Clients
ASSUME WheelAssumption  ==
    /\ {WheelSize, TicksPerMinute, MinutesPerHour} \subseteq Nat \ {0}
    /\ FixedEvents \in Nat \ {0} /\ EventSize \in Nat /\ FixedEvents + 1 < EventSize

VARIABLES ev,              \* the event entries
          head,            \* hourHead, minuteHead, secondHead
          ptr,             \* hourPointer, minutePointer, secondPointer
          minuteCurrent, secondCurrent, eventSerial, flag,
          call,            \* per thread, the AddTimeOut or RemoveEvent under way
          saw,             \* the thread has seen flag false, not yet set it
          tick,            \* the timer thread: where it is, HeadKeyPointer
          due              \* ghost: ticks left of the events that are awaited

vars == <<ev, head, ptr, minuteCurrent, secondCurrent, eventSerial, flag,
          call, saw, tick, due>>
wheelVars == <<ev, head, ptr, minuteCurrent, secondCurrent>>

TicksPerHour == TicksPerMinute * MinutesPerHour
Events    == 1 .. EventSize - 1
Slots     == 0 .. WheelSize - 1
Wheels    == {"hour", "minute", "second"}
Coarse    == {"minute", "hour"}
Back      == [minute |-> "minute_back", hour |-> "hour_back"]
Processes == Clients \cup {Timer}

(* An event entry; 0 is "no event", and an entry whose tid is 0 is free.    *)
NoEvent == [pre |-> 0, next |-> 0, tid |-> 0, millisecond |-> 0,
            leftCount |-> 0, leftMilliSecond |-> 0,
            repeat |-> FALSE, repeatCount |-> 0]

(* The arguments of AddTimeOut and RemoveEvent, and how far the call is.    *)
NoCall == [pc |-> "none", tid |-> 0, startTime |-> 0, repeatDelay |-> 0,
           repeat |-> FALSE, repeatCount |-> 0, overriding |-> FALSE]

AddCall(tid, startTime, repeatDelay, repeat, repeatCount, overriding) ==
    [pc |-> "select", tid |-> tid, startTime |-> startTime,
     repeatDelay |-> repeatDelay, repeat |-> repeat,
     repeatCount |-> repeatCount, overriding |-> overriding]

RemoveCall(tid) == [NoCall EXCEPT !.pc = "remove", !.tid = tid]

Keys    == 0 .. EventSize - 1
Entries == [pre : Keys, next : Keys, tid : Keys, millisecond : Nat, leftCount : Nat,
            leftMilliSecond : Nat, repeat : BOOLEAN, repeatCount : Int]
Calls   == [pc : {"none", "select", "fill", "ran", "link", "remove"}, tid : Keys,
            startTime : Nat, repeatDelay : Nat, repeat : BOOLEAN, repeatCount : Int,
            overriding : BOOLEAN]

(* A call that has its entry. *)
HasEntry(c) == c.pc \in {"fill", "ran", "link", "remove"} => c.tid \in Events

(* Calls name an entry of the table, or 0: AddTimeOut does not check it     *)
(* (line 235), the header has callers use tids up to FixedEvents only.      *)
ASSUME CallsAssumption ==
    \A c \in ClientCalls \cup CallbackCalls : c \in Calls /\ HasEntry(c)

Init == /\ ev = [t \in Events |-> NoEvent]
        /\ head = [w \in Wheels |-> [s \in Slots |-> 0]]
        /\ ptr = [w \in Wheels |-> 0]
        /\ minuteCurrent \in 0 .. MinutesPerHour - 1     \* from the clock
        /\ secondCurrent \in 0 .. TicksPerMinute - 1
        /\ eventSerial = 1
        /\ flag = FALSE
        /\ call = [p \in Processes |-> NoCall]
        /\ saw = [p \in Processes |-> FALSE]
        /\ tick = [pc |-> "sleep", HeadKeyPointer |-> 0]
        /\ due = [t \in {} |-> 0]
-----------------------------------------------------------------------------
(* while(flag) usleep; flag = true *)

AtLock(p) == \/ call[p].pc \in {"remove", "link"}
             \/ /\ p = Timer /\ call[p].pc = "none"
                /\ tick.pc \in {"lock", "sec_back", "run", "minute_back", "hour_back"}

SeeFlag(p) == /\ AtLock(p)
              /\ ~ saw[p]
              /\ ~ flag
              /\ saw' = [saw EXCEPT ![p] = TRUE]
              /\ UNCHANGED <<wheelVars, eventSerial, flag, call, tick, due>>

(* Set the flag, and leave it at `held` when the step is over. *)
Lock(p, held) == /\ saw[p]
                 /\ saw' = [saw EXCEPT ![p] = FALSE]
                 /\ flag' = held
-----------------------------------------------------------------------------
(* AddTimeOut *)

(* The free entry the search from tid comes to first: it goes to the end of *)
(* the table, and on from FixedEvents.                                      *)
FirstFree(tid) ==
    LET steps(t) == IF t >= tid THEN t - tid ELSE (EventSize - tid) + (t - FixedEvents)
        free     == {t \in Events : ev[t].tid = 0 /\ (t >= tid \/ t >= FixedEvents)}
    IN  {t \in free : \A u \in free : steps(t) <= steps(u)}

(* tid 0 asks for the next automatic entry. *)
CountSerial(c) == eventSerial' = IF c.tid = 0
                                 THEN (eventSerial + 1) % (EventSize - FixedEvents)
                                 ELSE eventSerial

(* A used entry is overridden or passed over.  With no free entry the       *)
(* search goes round for ever.                                              *)
Select(p) ==
    LET c    == call[p]
        want == IF c.tid = 0 THEN eventSerial + FixedEvents ELSE c.tid
    IN  /\ c.pc = "select"
        /\ CountSerial(c)
        /\ IF ev[want].tid # 0 /\ c.overriding
           THEN call' = [call EXCEPT ![p].tid = want, ![p].pc = "remove"]
           ELSE IF FirstFree(want) = {}
           THEN call' = [call EXCEPT ![p].tid = want]
           ELSE \E t \in FirstFree(want) :
                   call' = [call EXCEPT ![p].tid = t, ![p].pc = "fill"]
        /\ UNCHANGED <<wheelVars, flag, saw, tick, due>>

(* The memory of the entry that is wanted, or of one the search comes to,   *)
(* cannot be had: AddTimeOut returns -1.  An entry in use has its memory.   *)
NoEntry(p) ==
    LET c    == call[p]
        want == IF c.tid = 0 THEN eventSerial + FixedEvents ELSE c.tid
    IN  /\ c.pc = "select"
        /\ ev[want].tid = 0 \/ ~ c.overriding
        /\ CountSerial(c)
        /\ call' = [call EXCEPT ![p] = NoCall]
        /\ UNCHANGED <<wheelVars, flag, saw, tick, due>>

(* The second wheel has not turned yet in the tick under way. *)
BeforeTurn == tick.pc \in {"lock", "sec", "sec_back", "run"}

(* Lines 260-287 up to RunEvent.  A delay that starts between two ticks is  *)
(* over no earlier than one tick more than it has ticks.                    *)
Fill(p) ==
    LET c == call[p]
        t == c.tid
    IN  /\ c.pc = "fill"
        /\ ev' = [ev EXCEPT ![t].pre = 0, ![t].next = 0, ![t].tid = t,
                            ![t].millisecond = c.repeatDelay,
                            ![t].repeat = c.repeat,
                            ![t].repeatCount = c.repeatCount]
        /\ call' = [call EXCEPT ![p].pc = IF c.startTime = 0 THEN "ran" ELSE "link"]
        /\ due' = IF c.startTime = 0 THEN Restrict(due, DOMAIN due \ {t})
                  ELSE IF p = Timer /\ t \in DOMAIN due THEN due
                  ELSE [q \in DOMAIN due \cup {t} |->
                           IF q = t THEN c.startTime + (IF BeforeTurn THEN 0 ELSE 1)
                                    ELSE due[q]]
        /\ UNCHANGED <<head, ptr, minuteCurrent, secondCurrent, eventSerial,
                       flag, saw, tick>>

(* How often AddTimeOut is asked to repeat an event that has just run. *)
NextCount(e) == IF e.repeatCount < 0 THEN -1 ELSE e.repeatCount - 1

(* A repeating event is added again, with its period, under its tid. *)
Again(e) == AddCall(e.tid, e.millisecond, e.millisecond, TRUE, NextCount(e), TRUE)

(* The entries once t is erased. *)
ErasedMutant(t) == ev

Erased(t) == [ev EXCEPT ![t] = NoEvent]

(* Lines 274-285, after RunEvent has returned.  A repeating event with      *)
(* repeatCount 0 keeps its entry.                                           *)
Ran(p) ==
    LET c == call[p]
        e == ev[c.tid]
        repeats == e.repeat /\ c.repeatDelay # 0
    IN  /\ c.pc = "ran"
        /\ call' = [call EXCEPT ![p] = IF repeats /\ e.repeatCount # 0 THEN Again(e)
                                                                       ELSE NoCall]
        /\ ev' = IF repeats THEN ev ELSE Erased(c.tid)
        /\ UNCHANGED <<head, ptr, minuteCurrent, secondCurrent, eventSerial,
                       flag, saw, tick, due>>

(* The time left at the next full minute, counted from it. *)
LeftAtMinuteMutant(startTime) == startTime % TicksPerMinute

LeftAtMinute(startTime) == (startTime % TicksPerMinute) + secondCurrent

(* The turns of a coarse wheel after which its slot is the one wanted. *)
Turns(units) == (units - 1) \div WheelSize

(* The list an event with that delay goes to, the turns of that wheel it    *)
(* waits, and the time left when it is taken out (lines 292-342).           *)
Place(startTime) ==
    LET hour   == startTime \div TicksPerHour
        minute == startTime \div TicksPerMinute
    IN  IF hour # 0
        THEN [wheel |-> "hour", slot |-> (hour - 1 + ptr["hour"]) % WheelSize,
              leftCount |-> Turns(hour),
              leftMilliSecond |-> (startTime % TicksPerHour)
                                    + minuteCurrent * TicksPerMinute + secondCurrent]
        ELSE IF minute # 0
        THEN [wheel |-> "minute", slot |-> (minute - 1 + ptr["minute"]) % WheelSize,
              leftCount |-> Turns(minute),
              leftMilliSecond |-> LeftAtMinute(startTime)]
        ELSE [wheel |-> "second", slot |-> (startTime + ptr["second"]) % WheelSize,
              leftCount |-> startTime \div WheelSize, leftMilliSecond |-> 0]

(* The entries once t has been put in front of the list that starts at h.   *)
PushedMutant(t, h) == [ev EXCEPT ![t].next = h]

Pushed(t, h) == IF h = 0 THEN ev ELSE [ev EXCEPT ![t].next = h, ![h].pre = t]

(* Lines 289-375 *)
Link(p) ==
    LET t     == call[p].tid
        place == Place(call[p].startTime)
    IN  /\ call[p].pc = "link"
        /\ Lock(p, FALSE)
        /\ ev' = [Pushed(t, head[place.wheel][place.slot]) EXCEPT
                    ![t].leftCount = place.leftCount,
                    ![t].leftMilliSecond = place.leftMilliSecond]
        /\ head' = [head EXCEPT ![place.wheel][place.slot] = t]
        /\ call' = [call EXCEPT ![p] = NoCall]
        /\ UNCHANGED <<ptr, minuteCurrent, secondCurrent, eventSerial, tick, due>>
-----------------------------------------------------------------------------
(* RemoveEvent *)

(* The entries once the neighbours of t point past it. *)
DetachedMutant(t) == IF ev[t].next = 0 THEN ev
                     ELSE [ev EXCEPT ![ev[t].next].pre = ev[t].pre]

Detached(t) ==
    LET e      == ev[t]
        before == IF e.pre = 0 THEN ev ELSE [ev EXCEPT ![e.pre].next = e.next]
    IN  IF e.next = 0 THEN before ELSE [before EXCEPT ![e.next].pre = e.pre]

(* The search for the list that starts with t: slot by slot, the hours      *)
(* first.                                                                   *)
Heads(t)  == {ws \in Wheels \X Slots : head[ws[1]][ws[2]] = t}
Order(ws) == 3 * ws[2] + (CASE ws[1] = "hour"   -> 0
                            [] ws[1] = "minute" -> 1
                            [] ws[1] = "second" -> 2)
FirstHead(t) == {h \in Heads(t) : \A g \in Heads(t) : Order(h) <= Order(g)}

(* RemoveEvent(tid), by itself or as AddTimeOut's way to override. *)
Remove(p) ==
    LET t == call[p].tid
    IN  /\ call[p].pc = "remove"
        /\ Lock(p, FALSE)
        /\ head' = IF ev[t].pre # 0 \/ Heads(t) = {} THEN head
                   ELSE LET h == CHOOSE g \in FirstHead(t) : TRUE
                        IN  [head EXCEPT ![h[1]][h[2]] = ev[t].next]
        /\ ev' = [Detached(t) EXCEPT ![t] = NoEvent]
        /\ call' = [call EXCEPT ![p] = IF @.overriding THEN [@ EXCEPT !.pc = "fill"]
                                                       ELSE NoCall]
        /\ due' = IF p = Timer THEN due ELSE Restrict(due, DOMAIN due \ {t})
        /\ UNCHANGED <<ptr, minuteCurrent, secondCurrent, eventSerial, tick>>
-----------------------------------------------------------------------------
(* Tick *)

Now == head["second"][ptr["second"]]
TurnMutant(wheel) == [ptr EXCEPT ![wheel] = @ + 1]

Turn(wheel) == [ptr EXCEPT ![wheel] = (@ + 1) % WheelSize]
Goto(pc, key) == tick' = [pc |-> pc, HeadKeyPointer |-> key]

(* A tick is due: the awaited events are one tick closer. *)
TickBegins == /\ tick.pc = "sleep"
              /\ Goto("lock", 0)
              /\ due' = [t \in DOMAIN due |-> IF due[t] > - LateCap THEN due[t] - 1 ELSE due[t]]
              /\ UNCHANGED <<wheelVars, eventSerial, flag, call, saw>>

TickLocks == /\ tick.pc = "lock"
             /\ Lock(Timer, TRUE)
             /\ Goto("sec", Now)
             /\ UNCHANGED <<wheelVars, eventSerial, call, due>>

(* An event of the current second slot that has turns to wait. *)
Wait(wheel) ==
    LET t == tick.HeadKeyPointer
    IN  /\ ev[t].leftCount > 0
        /\ ev' = [ev EXCEPT ![t].leftCount = @ - 1]
        /\ Goto(tick.pc, ev[t].next)
        /\ UNCHANGED <<head, ptr, minuteCurrent, secondCurrent, eventSerial,
                       flag, call, saw, due>>

(* The heads once t has left the current slot of the wheel. *)
HeadsWithoutMutant(wheel, t) == [head EXCEPT ![wheel][ptr[wheel]] = ev[t].next]

HeadsWithout(wheel, t) ==
    IF head[wheel][ptr[wheel]] = ev[t].tid
    THEN [head EXCEPT ![wheel][ptr[wheel]] = ev[t].next] ELSE head

(* Lines 488-525: unlink the event; a repeating one is added again, any     *)
(* other is erased.  HeadKeyPointer is read here and used after RunEvent.   *)
Fire ==
    LET t == tick.HeadKeyPointer
        e == ev[t]
    IN  /\ e.tid # 0
        /\ e.leftCount <= 0
        /\ head' = HeadsWithout("second", t)
        /\ flag' = FALSE
        /\ due' = Restrict(due, DOMAIN due \ {t})
        /\ \/ /\ e.repeat
              /\ ev' = Detached(t)
              /\ call' = [call EXCEPT ![Timer] = IF e.repeatCount = 0 THEN NoCall
                                                                      ELSE Again(e)]
              /\ Goto("sec_back", e.next)
           \/ /\ ~ e.repeat
              /\ ev' = [Detached(t) EXCEPT ![t] = NoEvent]
              /\ UNCHANGED call
              /\ Goto("run", e.next)
        /\ UNCHANGED <<ptr, minuteCurrent, secondCurrent, eventSerial, saw>>

(* "event error": the entry has been freed under the traversal.  Tick       *)
(* returns -1 and the thread ends.                                          *)
EventError == /\ ev[tick.HeadKeyPointer].tid = 0
              /\ flag' = FALSE
              /\ Goto("dead", 0)
              /\ UNCHANGED <<wheelVars, eventSerial, call, saw, due>>

VisitSecond == /\ tick.pc = "sec"
               /\ tick.HeadKeyPointer # 0
               /\ \/ ev[tick.HeadKeyPointer].tid # 0 /\ Wait("second")
                  \/ Fire
                  \/ EventError

(* Lines 517-524, after a repeating event has been added again. *)
BackFromRepeat == /\ tick.pc = "sec_back"
                  /\ call[Timer].pc = "none"
                  /\ Lock(Timer, FALSE)
                  /\ Goto("run", tick.HeadKeyPointer)
                  /\ UNCHANGED <<wheelVars, eventSerial, call, due>>

(* RunEvent has returned. *)
BackFromRun == /\ tick.pc = "run"
               /\ Lock(Timer, TRUE)
               /\ Goto("sec", tick.HeadKeyPointer)
               /\ UNCHANGED <<wheelVars, eventSerial, call, due>>

(* The end of a slot's list: the wheel turns, and after a full round of the *)
(* clock the next coarser wheel is looked at.                               *)
EndSecond ==
    /\ tick.pc = "sec"
    /\ tick.HeadKeyPointer = 0
    /\ ptr' = Turn("second")
    /\ secondCurrent' = (secondCurrent + 1) % TicksPerMinute
    /\ IF secondCurrent' # 0 THEN Goto("sleep", 0) /\ flag' = FALSE
       ELSE Goto("minute", head["minute"][ptr["minute"]]) /\ UNCHANGED flag
    /\ UNCHANGED <<ev, head, minuteCurrent, eventSerial, call, saw, due>>

EndMinute ==
    /\ tick.pc = "minute"
    /\ tick.HeadKeyPointer = 0
    /\ ptr' = Turn("minute")
    /\ minuteCurrent' = (minuteCurrent + 1) % MinutesPerHour
    /\ IF minuteCurrent' # 0 THEN Goto("sleep", 0) /\ flag' = FALSE
       ELSE Goto("hour", head["hour"][ptr["hour"]]) /\ UNCHANGED flag
    /\ UNCHANGED <<ev, head, secondCurrent, eventSerial, call, saw, due>>

EndHour ==
    /\ tick.pc = "hour"
    /\ tick.HeadKeyPointer = 0
    /\ ptr' = Turn("hour")
    /\ flag' = FALSE
    /\ Goto("sleep", 0)
    /\ UNCHANGED <<ev, head, minuteCurrent, secondCurrent, eventSerial, call,
                   saw, due>>

(* Lines 552-580 and 600-626: an event of the current minute or hour slot   *)
(* is added again with the time it has left.                                *)
Cascade(wheel) ==
    LET t == tick.HeadKeyPointer
        e == ev[t]
    IN  /\ e.leftCount <= 0
        /\ ev' = Detached(t)
        /\ head' = HeadsWithout(wheel, t)
        /\ flag' = FALSE
        /\ call' = [call EXCEPT ![Timer] =
                      AddCall(e.tid, e.leftMilliSecond, e.millisecond, e.repeat,
                              e.repeatCount, TRUE)]
        /\ Goto(Back[wheel], e.next)
        /\ UNCHANGED <<ptr, minuteCurrent, secondCurrent, eventSerial, saw, due>>

VisitCoarse(wheel) == /\ tick.pc = wheel
                      /\ tick.HeadKeyPointer # 0
                      /\ Wait(wheel) \/ Cascade(wheel)

BackFromCascade(wheel) == /\ tick.pc = Back[wheel]
                          /\ call[Timer].pc = "none"
                          /\ Lock(Timer, TRUE)
                          /\ Goto(wheel, tick.HeadKeyPointer)
                          /\ UNCHANGED <<wheelVars, eventSerial, call, due>>
-----------------------------------------------------------------------------
(* Which thread takes a step, and who may interrupt it *)

(* The function of an event is running in the timer thread. *)
InCallback == \/ tick.pc = "run" /\ ~ saw[Timer]
              \/ call[Timer].pc = "ran"

(* A thread calls AddTimeOut or RemoveEvent.  The calls that an event's     *)
(* function makes are those of a client while the timer thread waits in it. *)
StartCall(c) == /\ c \in Clients
                /\ call[c].pc = "none"
                /\ \E new \in IF InCallback THEN CallbackCalls ELSE ClientCalls :
                      call' = [call EXCEPT ![c] = new]
                /\ UNCHANGED <<wheelVars, eventSerial, flag, saw, tick, due>>

CallStep(p) == \/ SeeFlag(p) \/ Select(p) \/ NoEntry(p) \/ Fill(p)
               \/ Ran(p) \/ Link(p) \/ Remove(p)

TickStep == \/ TickLocks \/ VisitSecond \/ BackFromRepeat \/ BackFromRun
            \/ EndSecond \/ EndMinute \/ EndHour
            \/ \E wheel \in Coarse : VisitCoarse(wheel) \/ BackFromCascade(wheel)

Step(p) == CallStep(p) \/ (p = Timer /\ (TickBegins \/ TickStep))

(* All steps; the specifications choose among their interleavings. *)
Next == \E p \in Processes : Step(p) \/ StartCall(p)

(* If flag were a lock: no thread is between its test and set when another  *)
(* tests it.                                                                *)
Locked(p) == \A q \in Processes \ {p} : AtLock(p) => ~ saw[q]

LockedNext == \E p \in Processes : (Locked(p) /\ Step(p)) \/ StartCall(p)
LockedSpec == Init /\ [][LockedNext]_vars

(* The calls are made between ticks and by the functions of events: a       *)
(* thread steps when the others wait for nothing but it.                    *)
AtRest(p) == IF p = Timer THEN tick.pc \in {"sleep", "dead"} \/ InCallback
                          ELSE call[p] = NoCall
Alone(p) == \A q \in Processes \ {p} : AtRest(q)

QuietNext == \E p \in Processes : Alone(p) /\ (Step(p) \/ StartCall(p))
QuietSpec == Init /\ [][QuietNext]_vars
-----------------------------------------------------------------------------
(* Properties *)

TickPcs == {"sleep", "lock", "sec", "sec_back", "run", "minute", "minute_back",
            "hour", "hour_back", "dead"}

(* Keys stay inside the event table, pointers inside the wheels, the clock  *)
(* inside its hour.                                                         *)
TypeOK == /\ ev \in [Events -> Entries]
          /\ head \in [Wheels -> [Slots -> {0} \cup Events]]
          /\ ptr \in [Wheels -> Slots]
          /\ minuteCurrent \in 0 .. MinutesPerHour - 1
          /\ secondCurrent \in 0 .. TicksPerMinute - 1
          /\ eventSerial \in 0 .. EventSize - FixedEvents - 1
          /\ flag \in BOOLEAN
          /\ call \in [Processes -> Calls] /\ \A p \in Processes : HasEntry(call[p])
          /\ saw \in [Processes -> BOOLEAN]
          /\ tick.pc \in TickPcs /\ tick.HeadKeyPointer \in {0} \cup Events
          /\ DOMAIN due \subseteq Events

(* The entries that can be reached from the slots: the smallest set that    *)
(* holds the heads of the slots and whatever follows an entry of its own.   *)
HoldsLists(S) == /\ \A w \in Wheels, s \in Slots : head[w][s] \in S \cup {0}
                 /\ \A t \in S : ev[t].next \in S \cup {0}

AllListed == {t \in Events : \A S \in SUBSET Events : HoldsLists(S) => t \in S}

(* Every slot's list ends, holds live entries only, and is linked both      *)
(* ways; no entry is in two lists: an entry has the one predecessor that    *)
(* its pre names, and the head of one slot has none.                        *)
WheelsSound ==
    /\ \A w \in Wheels, s \in Slots :
          head[w][s] # 0 => /\ ev[head[w][s]].pre = 0
                            /\ Heads(head[w][s]) = {<<w, s>>}
    /\ \A t \in AllListed : /\ ev[t].tid = t
                            /\ ev[t].next # 0 => ev[ev[t].next].pre = t

InHand == {call[p].tid : p \in Processes}

(* An event that is awaited is in a list, or in the hand of a thread that   *)
(* is adding it: the many hand-overs between wheels lose none.              *)
NoEventLost == DOMAIN due \subseteq AllListed \cup InHand

(* The entries in use are those of awaited events and of calls under way:   *)
(* entries do not leak.                                                     *)
NoEntryLeaks == {t \in Events : ev[t].tid # 0} \subseteq AllListed \cup InHand

(* "event error": Tick never meets an entry that has been freed, so the     *)
(* timer thread does not end.                                               *)
TimerAlive == tick.pc # "dead"

(* The timer thread lets the event run in this step. *)
Fires(t) == /\ t \in DOMAIN due \ DOMAIN due'
            /\ \A c \in Clients : call'[c] = call[c]

FireWithin(lateness) == \A t \in DOMAIN due : Fires(t) => - due[t] \in lateness

(* An event should run in the tick in which its delay is over, or in the    *)
(* one before when that ends a full minute.  What the wheels keep to: an    *)
(* event is on time, or late by a turn of the second wheel (it was added in *)
(* the tick, before the wheel turned), by all turns but one of the minute   *)
(* wheel or by all but one of the hour wheel (it went back to the slot that *)
(* was being emptied); never earlier, never later, and never two of these.  *)
Lateness == {-1, 0, WheelSize}
            \cup {turn - early : turn \in {(WheelSize - 1) * TicksPerMinute,
                                           (WheelSize - 1) * TicksPerHour},
                                 early \in {0, 1}}
LateByOneTurn == [][FireWithin(Lateness)]_vars
=============================================================================
