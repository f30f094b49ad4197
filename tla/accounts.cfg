SPECIFICATION Spec
CONSTANTS
    p = p
    q = q
    Pages = {p, q}
    MaxAttempts = 2
    MaxRequests = 2
    t = t
    u = u
    Tabs = {t, u}
    Tab = w
    b = b
    Browsers = {b}
    s1 = s1
    s2 = s2
    SessionIds = {s1, s2}
    SessionId = s0
    NoSession = NoSession
    MaxTokens = 3
    MaxTime = 3
    AccessTtl = 0
    RefreshTtl = 1
    m = m
    n = n
    Moderators = {m, n}
    r1 = r1
    r2 = r2
    ReportIds = {r1, r2}
    NoReportId = NoReportId
    b1 = b1
    b2 = b2
    BanIds = {b1, b2}
    MayStop = TRUE
SYMMETRY Alike
CHECK_DEADLOCK FALSE
INVARIANTS
    TypesOK
    SignUpHolds
    TokensHold
    RevokedStaysRevoked
    ReportsHold
    BansHold
