SPECIFICATION Spec
CONSTANTS
    None = None
    BaseSize = 6
    ToolsSize = 5
    SystemSize = 2
    PrevSize = 3
    Placeholder = 4
    DelimSize <- MCDelimSize
    Requests <- MCRequests
    ProxyLimit = 30
    IdLength <- MCIdLength
    Shapes <- MCShapes
    ChunkSizes = {1, 2, 5}
    SseLimit = 25
    LineLimit = 6
INVARIANTS
    TypeOK PiecesFitTheLimit RequestArrivesInOrder AnswerIsWhole OneMessage
    OnlyTheFinalId IdIsFound
