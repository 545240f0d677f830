SPECIFICATION Spec
CONSTANTS
    a = a
    None = None
    Writer = {a}
    Stem <- OneStem
    StemOrder <- OneOrder
    Capacity = 2
    MaxFileSize = 2
    MaxRotatedSize = 2
    FlushPeriod = TRUE
    Compression = TRUE
    HasExtension = TRUE
    PerSection = TRUE
    DiagnosticMode = "Error"
    ErrorLines = {1, 2, 3, 4}
    LineSize <- Sizes
    MaxDay = 2
    MaxFaults = 1
INVARIANTS TypeOK FilesWithinLimit
PROPERTIES OutputsAreOrderedLogs ChannelsDrain
CHECK_DEADLOCK FALSE
