SPECIFICATION FairSpec
CONSTANTS
    NoUser = NoUser
    u1 = u1
    u2 = u2
    s1 = s1
    s2 = s2
    s3 = s3
    Users = {u1, u2}
    Sockets = {s1, s2, s3}
    UserOf <- TwoPeople
    Sweepers = {1}
    Ttl = 2
    OneAtATime = TRUE
    MayFail = FALSE
INVARIANTS
    OpenSessionsExpire
    PresentAreKnown
    IndexesAgree
    ListenersHaveSessions
PROPERTIES
    DeparturesAreAnnounced
    ImplementsAttendance
