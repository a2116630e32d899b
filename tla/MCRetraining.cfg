CONSTANTS
    NaN = NaN
    NoID = ""
    NoAnalyst = ""
    Users = {"ana", "bob"}
    MaxHistory = 2
    CaseIDs = {"t1", "t2"}
    Txs <- MCTxs
    RawScores = {60}
    Analysts = {"eve"}
    MaxNotes = 0
    MaxConfirms = 1
SPECIFICATION FairSpec
INVARIANTS
    NoMixedCoefficients
    SettledIsLearned
    NaNComesFromAScore
PROPERTIES
    StandingVerdictIsLearned
