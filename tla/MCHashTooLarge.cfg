SPECIFICATION Spec
CONSTANTS
    Id = {1, 2, 3, 4, 5, 6}
    Session = {"s1"}
    Hash = {1, 2, 3}
    NoId = 0
    NoHash = 0
    TomlIntegerMax = 2
    Request = {"a", "b", "c"}
    ask <- SplitAsk
    MaxFaults <- NoFaults
    SaveMayFail = FALSE
    MaxNow = 0
    NoBatch = NoBatch
INVARIANT AnsweredIsDurable
CHECK_DEADLOCK FALSE
