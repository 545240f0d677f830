SPECIFICATION FairSpec
CONSTANTS
    Id = {1, 2, 3, 4, 5}
    Session = {"s1"}
    Hash = {1, 2, 3}
    NoId = 0
    NoHash = 0
    TomlIntegerMax = 3
    Request = {"a", "b"}
    ask <- TwinAsk
    MaxFaults <- TwinFaults
    SaveMayFail = TRUE
    MaxNow = 0
    NoBatch = NoBatch
PROPERTY EveryRequestEnds
CHECK_DEADLOCK FALSE
