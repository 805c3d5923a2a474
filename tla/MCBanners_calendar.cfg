SPECIFICATION Spec
CONSTANTS
    r1 = r1
    r2 = r2
    Absent = Absent
    Invalid = Invalid
    Null = Null
    Req <- TwoReqs
    Forms <- AllForms
    Start <- OneBanner
    Clock0 <- Hours
    MaxBanners = 3
    MaxTicks = 4
SYMMETRY ReqSymmetry
INVARIANTS
    RefusesExactlyInvalid
    StartsInSeoul
    MonthHoldsNow
    ListIsAsOfArrival
    AnsweredUpdateWasWritten
PROPERTIES
    RemovedIsFrozen
CHECK_DEADLOCK FALSE
