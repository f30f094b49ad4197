SPECIFICATION Spec
CONSTANTS
    x = x
    y = y
    Others = {x, y}
    Blocked = {y}
    m1 = m1
    Messages = {m1}
    MaxMoves = 2
    MaxDrops = 1
    MaxQueue = 2
    SdkRooms = {1, 2, 3}
    t1 = t1
    t2 = t2
    Tasks = {t1, t2}
    NoSdkRoom = NoSdkRoom
CHECK_DEADLOCK FALSE
INVARIANT ClientsHold
