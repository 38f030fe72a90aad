SPECIFICATION FairSpec
CONSTANTS
    s1 = s1
    s2 = s2
    Symbols = {s1, s2}
    Modes = {"ws", "poll"}
    MaxTime = 3
    QueueBound = 1
    MaxFaults = 1
INVARIANTS
    TypeOK
    EvaluatedInOrder
    EvaluatedIsStored
    StoredAsEvaluated
    NoGapUnlessRestFails
PROPERTIES
    CatchesUp
