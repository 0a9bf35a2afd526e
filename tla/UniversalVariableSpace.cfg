CONSTANTS
    MaxInfo = 4
    Space = 11
    MaxLive = 5
    Sizes = {2, 4}
    Values = {1, 2}
SPECIFICATION FairSpec
INVARIANTS VariablesApart DataKept ListSound
PROPERTIES RefusedOnlyWhenFull AddReturns
