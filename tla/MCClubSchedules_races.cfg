SPECIFICATION Spec
CONSTANTS
    r1 = r1
    r2 = r2
    r3 = r3
    c1 = c1
    c2 = c2
    Null = Null
    Keep = Keep
    Req <- ThreeReqs
    Club <- MCClub
    Forms <- AllForms
    Schedules0 <- OneOfEach
    MaxSchedules = 3
    MaxDate = 3
    MaxConcurrent = 3
SYMMETRY ReqSymmetry
INVARIANTS
    AnsweredMeansWritten
    PublicViewsAgree
    OnlyReversedIsMissed
PROPERTIES
    OnlyGivenFieldsChange
    ReversedByRaceOnly
    SchedulesChangeInOneStep
CHECK_DEADLOCK FALSE
