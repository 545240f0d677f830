SPECIFICATION Spec
CONSTANTS
    Id = {1, 2, 3, 4}
    Session = {s1}
    Hash = {1, 2, 3, 4}
    NoId = 0
    NoHash = 0
    TomlIntegerMax = 4
    Requests <- MCRequests
    MaxNow = 1
INVARIANT BoundaryIsContinued
CHECK_DEADLOCK FALSE
