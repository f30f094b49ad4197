SPECIFICATION Spec
CONSTANTS
    a = a
    Host = Host
    NoOne = NoOne
    Members = {a}
    MaxSpeakers = 1
    Operations = {"approve", "remove", "stepDown", "mute", "hand", "kick", "leave", "join", "connect"}
    MayFail = TRUE
SYMMETRY Alike
INVARIANTS
    TypeOK
    OnlyApprovedSpeak
    RecordsAgree
PROPERTIES
    OnlyTheHostUnmutes
