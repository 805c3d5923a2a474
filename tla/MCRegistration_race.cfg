SPECIFICATION Spec
CONSTANTS
    k1 = k1
    k2 = k2
    r1 = r1
    r2 = r2
    r3 = r3
    s1 = s1
    loginA = loginA
    loginB = loginB
    phoneA = phoneA
    phoneB = phoneB
    Null = Null
    Key <- OneKey
    Req <- ThreeReqs
    Staff <- OneStaff
    LoginId <- MCLoginId
    Phone <- MCPhone
    Account <- MCAccount
    Forms <- RaceForms
    TTL = 1
    MaxClock = 2
    StampsNullable = TRUE
    UniquePresident = FALSE
SYMMETRY ReqSymmetry
INVARIANTS
    OneClubPerKey
    KeySpentIffClub
    AllOrNothing
    UsedBeforeExpiry
PROPERTIES
    RefusalIsJustified
    RegisterInOneStep
CHECK_DEADLOCK FALSE
