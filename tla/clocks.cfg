SPECIFICATION Spec
CONSTANTS
    r1 = r1
    r2 = r2
    Room = r1
    Rooms = {r1, r2}
    w1 = w1
    w2 = w2
    Server = w1
    Servers = {w1, w2}
    Patterns <- EveryMinuteOrOnce
    Horizon = 3
    SlugAttempts = 1
    MaxPerSweep = 1
    MaxFaults = 1
    LastMinute = 5
    Never = Never
    DayLength = 8
    Zones <- EastAndWest
    Timetables <- HoursAndPairs
    SearchDays = 2
    FirstDay = 8
    LastInstant = 36
    j1 = j1
    j2 = j2
    Joins = {j1, j2}
    HomeZones = {0, 1}
    DaySteps = 2
    LastStep = 8
    MaxMoves = 1
    NoDay = NoDay
    a1 = a1
    a2 = a2
    a3 = a3
    Appends = {a1, a2, a3}
    Reasons = {"room_session_completed", "kicked_from_room", "report_upheld", "banned"}
    Deltas <- TrustDeltas
    TrustMin <- LowestTrust
    TrustMax = 100
    RegularFrom = 25
    TrustedFrom = 60
    NoReason = NoReason
    Limit = 2
    WindowSec = 3
    LastSecond = 6
    MaxCalls = 6
    u1 = u1
    u2 = u2
    u3 = u3
    Users = {u1, u2, u3}
    f1 = f1
    f2 = f2
    Feelings = {f1, f2}
    PulseWindow = 2
    MinVoters = 2
    LastPulse = 4
    NoFeeling = NoFeeling
CHECK_DEADLOCK FALSE
INVARIANT ClocksHold
PROPERTY DueRoomsOpen
