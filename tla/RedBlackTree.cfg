CONSTANTS
    MaxSize = 10
    Keys = {1, 2, 3, 4, 5, 6, 7, 8, 9, 10, 11}
    InsertValues = {0}
    Phases = {"grow", "mix", "shrink"}
SPECIFICATION PhaseSpec
INVARIANT TypeOK
PROPERTIES InsertKeepsRedBlack UpdatesKeepTreeSound UpdatesImplementArray
