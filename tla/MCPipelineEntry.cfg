CONSTANTS
    NaN = NaN
    NoID = ""
    NoUser = ""
    NoAnalyst = ""
    Users = {"ana", "bob", ""}
    MaxHistory = 2
    Requests = {r1, r2}
    Kinds = {"single", "batch", "kafka"}
    Txs <- EntryTxs
    Batches <- EntryBatches
    MaxBatch = 2
    ClientIDs = {"t1", "s1"}
    LiveIDs = {"live1"}
    CaseIDs = {"t1", "s1", "live1"}
    BrokenFits = {TRUE, FALSE}
    RawScores = {10, 60}
    SeedTxs <- Seeds
    SeedData <- SeedOne
    OverlappingDuplicates = TRUE
    AllRules <- MCRules
    RuleFiles <- TwoFiles
    Lower <- MCLower
    Within <- MCWithin
    Analysts = {}
    MaxNotes = 0
    MaxConfirms = 1
SPECIFICATION Spec
INVARIANTS
    TypeOK
    CountersAgree
    CasesArePersisted
    FlaggedAnswerHasCase
    AcceptedIsRecorded
SYMMETRY RequestSymmetry
