CONSTANTS
    Partitions = {"p1", "p2"}
    Log <- MCLog
    IDs = {"kafka-0", "kafka-1"}
    NoID = ""
    GeneratedID <- MCGeneratedID
    BrokerFails = TRUE
    MayStop = TRUE
    MaxRebalances = 1
    MaxStops = 2
SPECIFICATION FairSpec
INVARIANTS
    LossIsInHand
    OneAlertPerProcess
    SkippedForAScoring
PROPERTIES
    CaughtUp
CHECK_DEADLOCK FALSE
