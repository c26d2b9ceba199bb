SPECIFICATION Spec
CONSTANTS
    h = h
    a = a
    b = b
    Users = {h, a, b}
    Meetings = {m1, m2}
    Slots = {s1, s2}
    NoOne = NoOne
    NoMeeting = NoMeeting
    Beat = 1
    Fresh = 2
    MaxActive = 5
    Horizon = 7
    Environments <- Everything
SYMMETRY Symmetry
INVARIANTS
    AbandonedEnds
    NothingLost
PROPERTIES
    NobodyCutOff
CHECK_DEADLOCK FALSE
