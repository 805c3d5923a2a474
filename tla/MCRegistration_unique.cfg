SPECIFICATION FairSpec
CONSTANTS
    k1 = k1
    k2 = k2
    r1 = r1
    r2 = r2
    r3 = r3
    s1 = s1
    loginA = loginA
    loginB = loginB
    phoneA = phoneA
    phoneB = phoneB
    Null = Null
    Key <- TwoKeys
    Req <- TwoReqs
    Staff <- OneStaff
    LoginId <- MCLoginId
    Phone <- MCPhone
    Account <- MCAccount
    Forms <- SamePresidentForms
    TTL = 1
    MaxClock = 2
    StampsNullable = TRUE
    UniquePresident = TRUE
INVARIANTS
    OneClubPerPresident
PROPERTY
    EveryFormIsAnswered
CHECK_DEADLOCK FALSE
