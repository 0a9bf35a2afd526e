CONSTANTS
    MaxSize = 4
    Keys = {0, 1, 2, 3, 4}
    KeySpace = 4
    Data = {zero, a}
    ZeroData = zero
SPECIFICATION Spec
INVARIANT LastNodeInfoCorrect
