SPECIFICATION Spec
CONSTANTS
    r1 = r1
    r2 = r2
    r3 = r3
    l0 = l0
    l1 = l1
    l2 = l2
    p0 = p0
    p1 = p1
    p2 = p2
    link = link
    Null = Null
    Keep = Keep
    LoginId <- MCLoginId
    Phone <- MCPhone
    Url <- MCUrl
    Req <- ThreeReqs
    Forms <- RaceForms
    Start <- EmptyOrPopulated
    MaxUsers = 5
    MaxClubs = 2
    MaxDate = 4
    MaxConcurrent = 3
    UniquePresident = TRUE
SYMMETRY ReqSymmetry
INVARIANTS
    BootstrapStaysClosed
    PresidentsAreLive
PROPERTIES
    SystemAccountsUntouched
    DeletedIsFinal
    AccountsClashByRaceOnly
    PeriodsReversedByRaceOnly
    RemovedUserWrittenByRaceOnly
CHECK_DEADLOCK FALSE
