SPECIFICATION SessionSpec
CONSTANTS
    r1 = r1
    c1 = c1
    c2 = c2
    c3 = c3
    l0 = l0
    l1 = l1
    p0 = p0
    Null = Null
    Keep = Keep
    LoggedOut = LoggedOut
    LoginId <- TwoLoginIds
    Phone <- MCPhone
    Url <- NoUrl
    Req <- NoReqs
    Forms <- ChangeForms
    Start <- OneTable
    MaxUsers = 1
    MaxClubs = 2
    MaxDate = 0
    MaxConcurrent = 1
    UniquePresident = TRUE
    Call <- ThreeCalls
    MaxCalls = 2
    MaxClock = 2
    AccessTTL = 1
    RefreshTTL = 2
PROPERTY
    LogoutEndsSession
CHECK_DEADLOCK FALSE
