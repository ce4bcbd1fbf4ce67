SPECIFICATION LimiterSpec
CONSTANTS
    Limit = 2
    WindowSecs = 3
    MaxTime = 9
INVARIANTS
    AtMostTwiceTheLimit
    RefusedOnlyWhenUsedUp
