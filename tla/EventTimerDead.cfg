CONSTANTS
    WheelSize = 2
    TicksPerMinute = 4
    MinutesPerHour = 2
    EventSize = 3
    FixedEvents = 1
    Clients = {c}
    Timer = timer
    LateCap <- NotCounted
    Scenarios = {"remove"}
    ClientCalls <- ScenarioClientCalls
    CallbackCalls <- ScenarioCallbackCalls
SPECIFICATION QuietSpec
INVARIANTS TimerAlive
