CONSTANTS
    WheelSize = 2
    TicksPerMinute = 2
    MinutesPerHour = 2
    EventSize = 3
    FixedEvents = 1
    Clients = {c}
    Timer = timer
    LateCap <- NotCounted
    Scenarios = {"live"}
    MaxRestarts = 1
    ClientCalls <- ScenarioClientCalls
    CallbackCalls <- ScenarioCallbackCalls
SPECIFICATION RestartSpec
INVARIANTS ListsSurvive
PROPERTIES TicksEnd EventsRun
