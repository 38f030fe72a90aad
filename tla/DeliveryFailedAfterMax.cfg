SPECIFICATION FairSpec
CONSTANTS
    w1 = w1
    w2 = w2
    r1 = r1
    r2 = r2
    a1 = a1
    a2 = a2
    NoRule = NoRule
    NoAlert = NoAlert
    Workers <- OneWorker
    Rules = {r1}
    Alerts = {a1}
    RuleOf <- OneAlert
    MaxAttempts = 1
    BatchLimit = 1
    ChannelSets <- DiscordOnly
    MaxFaults = 0
CHECK_DEADLOCK FALSE
PROPERTIES
    FailedAfterMax
