SPECIFICATION Spec
CONSTANTS
    None = None
    Env <- MCEnv
    SecretFiles <- MCSecretFiles
    Addresses = {"127.0.0.1"}
    NoHeader <- MCNoHeader
    MaxSize = 2147483647
    Calls <- MCCalls
    Answers <- MCAnswers
    ChunkSizes = {1, 2, 5}
    DumpLimit = 3
    LineLimit = 5
    BytesLimit = 2097152
    HealthFiles <- MCHealthFiles
    Prober = {p1, p2}
    CacheTtl = 2
    CheckTimeout = 1
    MaxAge = 4
    p1 = p1
    p2 = p2
INVARIANTS
    TypeOK ReportedOnce DumpsTellTheTruth StreamIsTranslated EgressIsTransformed
    HealthIsRecent
