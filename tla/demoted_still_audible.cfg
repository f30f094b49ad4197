SPECIFICATION Spec
CONSTANTS
    a = a
    Host = Host
    NoOne = NoOne
    Members = {a}
    MaxSpeakers = 1
    Operations = {"approve", "remove", "join", "connect"}
    MayFail = FALSE
SYMMETRY Alike
INVARIANTS
    SilencedStaySilent
