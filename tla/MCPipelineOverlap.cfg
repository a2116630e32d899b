CONSTANTS
    NaN = NaN
    NoID = ""
    NoUser = ""
    NoAnalyst = ""
    Users = {"ana", "bob", ""}
    MaxHistory = 2
    Requests = {r1, r2, r3}
    Kinds = {"single"}
    Txs <- LiveTxs
    Batches <- NoBatches
    MaxBatch = 2
    ClientIDs = {"t1", "s1"}
    LiveIDs = {}
    CaseIDs = {"t1", "s1"}
    BrokenFits = {FALSE}
    RawScores = {10, 60}
    SeedTxs <- Seeds
    SeedData <- SeedOne
    OverlappingDuplicates = TRUE
    AllRules <- MCRules
    RuleFiles <- OneFile
    Lower <- MCLower
    Within <- MCWithin
    Analysts = {"eve"}
    MaxNotes = 0
    MaxConfirms = 1
SPECIFICATION Spec
INVARIANT AtMostOnceScored
