SPECIFICATION Spec
SYMMETRY Tabs
CONSTANTS
    NoUser = NoUser
    u1 = u1
    u2 = u2
    s1 = s1
    s2 = s2
    s3 = s3
    Users = {u1}
    Sockets = {s1, s2}
    UserOf <- TwoTabs
    Sweepers = {1}
    Ttl = 2
    OneAtATime = FALSE
    MayFail = TRUE
INVARIANTS
    TypeOK
    FarewellsAreEarned
    GreetingsAreEarned
PROPERTIES
    OnlyJoinsMakePresent
