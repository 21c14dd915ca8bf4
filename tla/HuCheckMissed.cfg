CONSTANTS
    Values = {1, 2, 3}
    MaxHand = 9
SPECIFICATION Spec
INVARIANT
    SplitsAlwaysWin
