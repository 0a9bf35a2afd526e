CONSTANTS
    MaxInfo = 4
    Space = 6
    MaxLive = 3
    Sizes = {1, 2, 3}
    Values = {1, 2}
SPECIFICATION Spec
INVARIANT DataKept
