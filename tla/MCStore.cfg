CONSTANTS
    NaN = NaN
    NoID = ""
    Users = {"ana", "bob"}
    MaxHistory = 2
    MaxCalls = 4
    Txs <- MCTxs
    Risks <- MCRisks
SPECIFICATION ContractSpec
INVARIANTS
    HistoryIsNewestArrivals
    SeenIsEverRecorded
CHECK_DEADLOCK FALSE
