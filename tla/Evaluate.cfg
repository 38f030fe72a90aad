SPECIFICATION Spec
CONSTANTS
    w1 = w1
    w2 = w2
    r1 = r1
    r2 = r2
    Null = Null
    Workers = {w1, w2}
    Rules = {r1}
    Cooldowns = {0, 3, Null}
    MaxTime = 4
    MaxEdits = 1
    MaxFaults = 1
SYMMETRY WorkerSymmetry
CHECK_DEADLOCK FALSE
INVARIANTS
    TypeOK
    CooldownSlack
    DeletedIsSilent
    LossIsOneCandle
