CONSTANTS
    MaxValues = 3
    MaxSize = 3
    Rows <- MCRows
    Scripts <- MCScripts
SPECIFICATION Spec
CHECK_DEADLOCK FALSE
INVARIANTS TypeOK GroupsAsWritten ReadsToTheEnd RowsAsWritten SteadyFound
PROPERTY LoadEnds
