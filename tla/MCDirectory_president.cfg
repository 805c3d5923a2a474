SPECIFICATION Spec
CONSTANTS
    r1 = r1
    r2 = r2
    r3 = r3
    l0 = l0
    l1 = l1
    l2 = l2
    p0 = p0
    p1 = p1
    p2 = p2
    link = link
    Null = Null
    Keep = Keep
    LoginId <- MCLoginId
    Phone <- MCPhone
    Url <- MCUrl
    Req <- TwoReqs
    Forms <- PresidentForms
    Start <- Unpresided
    MaxUsers = 3
    MaxClubs = 2
    MaxDate = 4
    MaxConcurrent = 2
    UniquePresident = TRUE
INVARIANT
    NoDeletedPresident
CHECK_DEADLOCK FALSE
