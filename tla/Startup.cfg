SPECIFICATION FairSpec
CONSTANTS
    ApiTries = 2
    WorkerTries = 3
    MaxFaults = 2
    MaxDowngrades = 1
CHECK_DEADLOCK FALSE
INVARIANTS
    TypeOK
    VersionIsTrue
PROPERTIES
    NeverStuck
    ServesAtHead
    WorkerHasSchema
    ContainersComeUp
