CONSTANTS
    Alerts = {a1, a2}
    Numbers <- MCNumbers
SPECIFICATION FairSpec
INVARIANTS
    ErrorsDoNotBlock
PROPERTY NotifyEnds
CHECK_DEADLOCK FALSE
