SPECIFICATION Spec
CONSTANTS
    Id = {1, 2, 3, 4, 5, 6}
    Session = {"s1"}
    Hash = {1, 2, 3}
    NoId = 0
    NoHash = 0
    TomlIntegerMax = 3
    Request = {"a", "b", "c"}
    ask <- SplitAsk
    MaxFaults <- SplitFaults
    SaveMayFail = TRUE
    MaxNow = 1
    NoBatch = NoBatch
INVARIANTS
    TypeOK
    NodesAreWhole
    AckedPiecesAreChained
    AnswerCarriesRequest
    OneBatchPerRequest
    PublishedIsDelivered
    InteractionsHaveOneOwner
    UndoneIsNotPublished
PROPERTIES
    PublishedNeverChanges
    PiecesOnlyAdvance
CHECK_DEADLOCK FALSE
