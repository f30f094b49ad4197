SPECIFICATION Spec
CONSTANTS
    Sender = Sender
    Friend = Friend
    Stranger = Stranger
    s1 = s1
    s2 = s2
    Surprises = {s1, s2}
    Surprise = s1
    k1 = k1
    k2 = k2
    Codes = {k1, k2}
    Code = k1
    m1 = m1
    m2 = m2
    Moods = {m1, m2}
    Mood = m1
    TaskIndexes = {1, 2}
    q1 = q1
    q2 = q2
    Requests = {q1, q2}
    Ttl = 1
    MaxTime = 1
    MaxAttempts = 2
    MaxRedeems = 1
    Nobody = Nobody
    NoMood = NoMood
    NoSurprise = NoSurprise
    o1 = o1
    o2 = o2
    Owners = {o1, o2}
    e1 = e1
    e2 = e2
    Endpoints = {e1, e2}
    v1 = v1
    v2 = v2
    VapidKeys = {v1, v2}
    NoEndpoint = NoEndpoint
SYMMETRY Alike
CHECK_DEADLOCK FALSE
INVARIANTS
    SurprisesHold
    AddressesAreLive
