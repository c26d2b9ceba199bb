SPECIFICATION Spec
CONSTANTS
    Interval = 1
    Horizon = 7
    Environments <- Everything
    Sessions = {g1}
    Slots = {s1, s2}
    Lead <- MCLead
    Stale <- MCStale
    Users <- MCUsers
    Rooms <- MCRooms
    Idle = 2
    Retry = 1
    MaxFailures = 2
SYMMETRY Symmetry
INVARIANTS
    RemindedOnce
    RemindedInTime
    ToldInTime
PROPERTIES
    MailsAreRare
CHECK_DEADLOCK FALSE
