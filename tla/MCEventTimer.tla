----------------------------- MODULE MCEventTimer -----------------------------
(* The calls of the runs of EventTimer, by scenario. *)
EXTENDS EventTimer

CONSTANT Scenarios

(* A LateCap with which `due` only says which events are awaited. *)
NotCounted == -10 * TicksPerHour

OverMinute == TicksPerMinute + 1
OverHour   == TicksPerHour + 1
FarMinute  == (WheelSize + 1) * TicksPerMinute + 1    \* more than a turn of the wheel
FarHour    == (WheelSize + 1) * TicksPerHour + 1

(* Events that run once, under an automatic tid or one that is overridden.  *)
Automatic(delays)        == {AddCall(0, d, d, FALSE, -1, FALSE) : d \in delays}
Overriding(tids, delays) == {AddCall(t, d, d, FALSE, -1, TRUE) : t \in tids, d \in delays}

(* Events that repeat for ever. *)
Repeating(tids, delays, periods) ==
    {AddCall(t, d, p, TRUE, -1, FALSE) : t \in tids, d \in delays, p \in periods}

Removing(tids) == {RemoveCall(t) : t \in tids}

ClientCallsOf ==
    [once   |-> LET delays == {0, 1, OverMinute}
                IN  Automatic(delays) \cup Overriding({1}, delays) \cup Removing({1}),
     repeat |-> Repeating({1}, {0, OverMinute}, {WheelSize, OverMinute + 1})
                  \cup Removing({1}),
     far    |-> Overriding({1}, {OverHour, FarMinute, FarHour}) \cup Removing({1}),
     add    |-> LET delays == {0, 1, OverMinute}
                IN  Automatic(delays) \cup Overriding({1}, delays) \cup Removing({1}),
     remove |-> Automatic({1, OverMinute}) \cup Removing({1}),
     lock   |-> Automatic({0, 1}),
     live   |-> Overriding({1}, {1, OverMinute}) \cup Overriding({2}, {OverHour})
                  \cup Removing({1})]

(* What the functions of events call; nothing in the other scenarios. *)
CallbackCallsOf ==
    [s \in DOMAIN ClientCallsOf |->
        CASE s = "add"    -> Automatic({0, 1, OverMinute})
          [] s = "remove" -> Removing({1})
          [] OTHER        -> {}]

ScenarioClientCalls   == UNION {ClientCallsOf[s] : s \in Scenarios}
ScenarioCallbackCalls == UNION {CallbackCallsOf[s] : s \in Scenarios}
=============================================================================
