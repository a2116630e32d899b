CONSTANTS
    NaN = NaN
    NoID = NoID
    Users = {"ana", "bob"}
    MaxHistory = 3
    MinHistory = 2
    MinPopulation = 3
    MinProfile = 2
    Window = 1
    MaxTransactions = 1
    ThresholdKm = 2000
    SaturateKm = 8000
    Distance <- MCDistance
    TrustedThreshold = 2
    merchantRegistry <- MCRegistry
    KeysIn <- MCKeysIn
    HourLength = 1
    Hours = 3
    Days = 2
    QuietWindow = 2
    Logit <- MCLogit
    Templates <- MCTemplates
    MaxData = 5
SPECIFICATION Spec
INVARIANTS
    NaNIsAHistoryOfOne
    FiringRaises
    BurstOnlyHiddenByFlood
    MedianIsClean
    HomeIsNotFar
    QuietIsLeastBusy
    CalibrationIsFinite
CHECK_DEADLOCK FALSE
