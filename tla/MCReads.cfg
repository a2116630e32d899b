CONSTANTS
    CaseIDs = {"c1", "c2"}
    Writers = {"w1", "w2"}
    Readers = {"r1"}
    Nobody = ""
    Decisions = {"confirmed"}
    Filters = {"open"}
    MaxNotes = 1
SPECIFICATION FairSpec
INVARIANTS
    StatsAreOfOneMoment
    UntouchedIsFaithful
PROPERTIES
    CallsReturn
    CallsAreAtomic
