SPECIFICATION ContentSpec
CONSTANTS
    r1 = r1
    r2 = r2
    w1 = w1
    w2 = w2
    l0 = l0
    l1 = l1
    p0 = p0
    p1 = p1
    link = link
    Null = Null
    Keep = Keep
    Gone = Gone
    LoginId <- MCLoginId
    Phone <- MCPhone
    Url <- MCUrl
    Req <- TwoReqs
    Forms <- ChangeForms
    Start <- OneTable
    MaxUsers = 2
    MaxClubs = 2
    MaxDate = 0
    MaxConcurrent = 1
    UniquePresident = TRUE
    Write <- TwoWrites
    Bodies <- MCBodies
    MaxReports = 3
    Reports0 <- Reports1
SYMMETRY WriteSymmetry
INVARIANTS
    RemovedOnce
    IconsExist
PROPERTIES
    WritesArePermitted
    RemovedStaysRemoved
CHECK_DEADLOCK FALSE
