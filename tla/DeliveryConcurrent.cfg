SPECIFICATION Spec
CONSTANTS
    w1 = w1
    w2 = w2
    r1 = r1
    r2 = r2
    a1 = a1
    a2 = a2
    NoRule = NoRule
    NoAlert = NoAlert
    Workers <- TwoWorkers
    Rules = {r1}
    Alerts = {a1}
    RuleOf <- OneAlert
    MaxAttempts = 3
    BatchLimit = 1
    ChannelSets <- NoneOrBoth
    MaxFaults = 1
SYMMETRY WorkerSymmetry
CHECK_DEADLOCK FALSE
INVARIANTS
    TypeOK
    DeliveredIsTrue
    NoEarlyGiveUp
PROPERTIES
    RaisedOnce
    OutboxSpec
