CONSTANTS
    NaN = NaN
    NoID = ""
    NoUser = ""
    NoAnalyst = ""
    Users = {"ana", "bob", ""}
    MaxHistory = 2
    Requests = {r1, r2}
    Kinds = {"single", "batch", "kafka"}
    Txs <- LiveTxs
    Batches <- LiveBatches
    MaxBatch = 2
    ClientIDs = {"t1", "s1"}
    LiveIDs = {}
    CaseIDs = {"t1", "s1"}
    BrokenFits = {TRUE, FALSE}
    RawScores = {60}
    SeedTxs <- Seeds
    SeedData <- SeedOne
    OverlappingDuplicates = FALSE
    AllRules <- MCRules
    RuleFiles <- OneFile
    Lower <- MCLower
    Within <- MCWithin
    Analysts = {"eve"}
    MaxNotes = 0
    MaxConfirms = 1
SPECIFICATION FairSpec
INVARIANTS
    AtMostOnceScored
    OneAlertEach
    AnswerIsOnFile
    StatsCountTransactions
PROPERTIES
    AnalystWorkIsKept
    ImplementsBook
    EveryRequestEnds
    ConfirmedIsMarked
