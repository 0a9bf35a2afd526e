-------------------------- MODULE EventTimerRestart --------------------------
(***************************************************************************)
(* The process of an EventTimerWheel ends and is started again.  The event  *)
(* table, the heads and the pointers are in shared memory, which            *)
(* InitSharedMemory finds as it was left; the flag, the serial number and   *)
(* the clock are the process's own and begin anew, and no thread goes on    *)
(* with its call.  A process ends between two steps of EventTimer: a death  *)
(* between two stores under the flag is not modelled.                       *)
(***************************************************************************)
EXTENDS EventTimer

CONSTANT MaxRestarts      \* bound on the restarts of a behaviour

VARIABLES restarts,       \* the restarts so far
          damaged         \* history: a process ended while it handed an event over

restartVars == <<vars, restarts, damaged>>

(* The timer thread has taken an event out of a list and not yet erased its *)
(* entry: the links in it are those of its old place.                       *)
HandingOver == \E t \in Events : /\ ev[t].tid # 0 /\ t \notin AllListed
                                 /\ ev[t].pre # 0 \/ ev[t].next # 0

(* What the process keeps itself begins anew, at any time of the hour; the  *)
(* events that were in the hand of a thread are lost.                       *)
NewProcess ==
    /\ restarts < MaxRestarts
    /\ restarts' = restarts + 1
    /\ damaged' = (damaged \/ HandingOver)
    /\ flag' = FALSE
    /\ eventSerial' = 1
    /\ minuteCurrent' \in 0 .. MinutesPerHour - 1
    /\ secondCurrent' \in 0 .. TicksPerMinute - 1
    /\ call' = [p \in Processes |-> NoCall]
    /\ saw' = [p \in Processes |-> FALSE]
    /\ tick' = [pc |-> "sleep", HeadKeyPointer |-> 0]
    /\ due' = Restrict(due, DOMAIN due \cap AllListed)

RestartMutant == /\ NewProcess
                 /\ head' = [w \in Wheels |-> [s \in Slots |-> 0]]
                 /\ UNCHANGED <<ev, ptr>>

Restart == /\ NewProcess
           /\ UNCHANGED <<ev, head, ptr>>

RestartInit == Init /\ restarts = 0 /\ damaged = FALSE
RestartNext == \/ QuietNext /\ UNCHANGED <<restarts, damaged>>
               \/ Restart

RestartSpec == /\ RestartInit /\ [][RestartNext]_restartVars
               /\ SF_restartVars(Alone(Timer) /\ Step(Timer) /\ UNCHANGED <<restarts, damaged>>)
               /\ \A c \in Clients :
                     SF_restartVars(Alone(c) /\ Step(c) /\ UNCHANGED <<restarts, damaged>>)
-----------------------------------------------------------------------------
(* The lists a process leaves behind are sound for the next one, and stay   *)
(* so, unless it ended while it handed an event over.                       *)
ListsSurvive == damaged \/ WheelsSound

(* A tick that has begun ends, whatever the functions of events call and    *)
(* wherever the process was stopped, with the flag up or down.              *)
TicksEnd == tick.pc # "sleep" ~> (tick.pc = "sleep" \/ damaged)

(* An event that is awaited, also from before a restart, runs, is removed   *)
(* or is overridden, whatever the clock shows by then.                      *)
EventsRun == \A t \in Events : t \in DOMAIN due ~> (t \notin DOMAIN due \/ damaged)
=============================================================================
