SPECIFICATION FairSpec
CONSTANTS
    w1 = w1
    w2 = w2
    r1 = r1
    r2 = r2
    a1 = a1
    a2 = a2
    NoRule = NoRule
    NoAlert = NoAlert
    Workers <- OneWorker
    Rules = {r1, r2}
    Alerts = {a1, a2}
    RuleOf <- TwoRules
    MaxAttempts = 2
    BatchLimit = 2
    ChannelSets <- DiscordOnly
    MaxFaults = 1
CHECK_DEADLOCK FALSE
PROPERTIES
    PendingIsSettled
