CONSTANTS
    Alerts = {a1}
    Numbers <- MCNumbers
SPECIFICATION Spec
INVARIANT CriticalIsTexted
CHECK_DEADLOCK FALSE
