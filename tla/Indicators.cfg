SPECIFICATION Spec
CONSTANTS
    Closes = {1, 2, 3}
    Rules <- MCRules
    MacdLimit = 7
    RsiFloor = 5
    MaxCandles = 8
    GapsUntil = 1
CHECK_DEADLOCK FALSE
INVARIANTS
    TypeOK
    RsiFollowsPrice
    BreakNeedsPeriod
    MacdNeedsItsCandles
    MovesWithinWindow
PROPERTIES
    CrossesOnce
