CONSTANTS
    WheelSize = 2
    TicksPerMinute = 4
    MinutesPerHour = 4
    EventSize = 3
    FixedEvents = 1
    Clients = {c}
    Timer = timer
    LateCap = 34
    Scenarios = {"once", "repeat", "far"}
    ClientCalls <- ScenarioClientCalls
    CallbackCalls <- ScenarioCallbackCalls
SPECIFICATION ScenarioSpec
INVARIANTS TypeOK WheelsSound NoEventLost NoEntryLeaks TimerAlive
PROPERTIES LateByOneTurn
