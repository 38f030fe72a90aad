SPECIFICATION UrlsSpec
CONSTANTS
    w1 = w1
    w2 = w2
    r1 = r1
    r2 = r2
    a1 = a1
    a2 = a2
    NoRule = NoRule
    NoAlert = NoAlert
    Workers <- OneWorker
    Rules = {r1}
    Alerts = {a1, a2}
    RuleOf <- OneRule
    MaxAttempts = 2
    BatchLimit = 2
    ChannelSets <- EitherChannel
    MaxFaults = 1
CHECK_DEADLOCK FALSE
INVARIANTS
    RoundsOfOneWorker
    AuditIsComplete
    UrlsAreCurrent
