SPECIFICATION FairSpec
CONSTANTS
    w1 = w1
    w2 = w2
    r1 = r1
    r2 = r2
    Null = Null
    Workers = {w1}
    Rules = {r1, r2}
    Cooldowns = {0, 3, Null}
    MaxTime = 3
    MaxEdits = 1
    MaxFaults = 1
CHECK_DEADLOCK FALSE
INVARIANTS
    CooldownSlack
PROPERTIES
    SessionRecovers
