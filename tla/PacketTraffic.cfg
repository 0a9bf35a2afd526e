SPECIFICATION Spec
CONSTANTS
    Writers = {1, 2}
    Ids = {10, 481}
    Quantities = {1}
    MaxKind = 2
    CountSpace = 3
    QueueMax = 2
    Stride = 2
    Cleared = {0, 1}
    Backlog = 1
    MaxStarts = 2
    MaxCalls = 3
INVARIANTS TypeOK CountsExact NoFault KeptUntilSent 
 
CHECK_DEADLOCK FALSE
