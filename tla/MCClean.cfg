SPECIFICATION Spec
CONSTANTS
    Id = {1, 2, 3, 4}
    Session = {"s1", "s2"}
    Hash = {1, 2, 3}
    NoId = 0
    NoHash = 0
    TomlIntegerMax = 3
    Request = {"a", "b", "x", "e"}
    ask <- CleanAsk
    MaxFaults <- CleanFaults
    SaveMayFail = FALSE
    MaxNow = 1
    NoBatch = NoBatch
INVARIANTS
    NodesAreWhole
    AnswerCarriesRequest
    PublishedIsDelivered
    UndoneIsNotPublished
    CleanedStaysRemoved
    AnsweredIsDurable
PROPERTIES
    PromiseIsKept
CHECK_DEADLOCK FALSE
