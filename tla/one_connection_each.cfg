SPECIFICATION FairSpec
CONSTANTS
    NoUser = NoUser
    u1 = u1
    u2 = u2
    c1 = c1
    c2 = c2
    c3 = c3
    User = {u1, u2}
    Conn = {c1, c2}
    Owner <- OneEach
    RingTimeout = 1
    MaxCall = 2
    Kinds = {"requestDm", "acceptDm", "declineDm", "block", "unblock", "invite", "acceptCall", "endCall"}
    Standings = {"ok", "restricted", "inactive"}
INVARIANTS
    RequestsAreCurrent
PROPERTIES
    OnlyTheRungSideAnswers
    AnsweredOnce
    OnlyTheAskedSideOpens
    OnlyTheBlockerUnblocks
    ImplementsLadder
    LineFreesUp
