------------------------ MODULE MCEventTimerScenarios ------------------------
(* Several scenarios in one run of EventTimer. *)
EXTENDS MCEventTimer

VARIABLE scenario

ScenarioInit == Init /\ scenario \in Scenarios

(* A call that starts in this step is one of the scenario's. *)
CallsOfScenario ==
    \A c \in Clients : call[c] = NoCall /\ call'[c] # NoCall =>
        call'[c] \in IF InCallback THEN CallbackCallsOf[scenario] ELSE ClientCallsOf[scenario]

ScenarioNext == /\ IF scenario = "lock" THEN LockedNext ELSE QuietNext
                /\ CallsOfScenario
                /\ UNCHANGED scenario

ScenarioSpec == ScenarioInit /\ [][ScenarioNext]_<<vars, scenario>>

(* Functions that only add events never make the timer thread end.          *)
AddingKeepsAlive == scenario # "remove" => TimerAlive
=============================================================================
