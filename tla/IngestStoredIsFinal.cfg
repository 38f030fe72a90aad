SPECIFICATION Spec
CONSTANTS
    s1 = s1
    s2 = s2
    Symbols = {s1}
    Modes = {"ws"}
    MaxTime = 3
    QueueBound = 0
    MaxFaults = 0
INVARIANTS
    StoredIsFinal
