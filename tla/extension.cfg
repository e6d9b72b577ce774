CONSTANTS
    s1 = s1
    s2 = s2
    o1 = o1
    o2 = o2
    UrlsOf <- MCUrls
    Secrets = {s1, s2}
    Origins = {o1, o2}
    Users = {u1, u2}
    SecondFactor = {u1}
    TwoTenants = {u2}
    PageSize = 1
    None = None
    MaxEvents = 2
SPECIFICATION FairSpec
INVARIANTS TypeOK FilledWhereAllowed
PROPERTY ListCatchesUp
CHECK_DEADLOCK FALSE
