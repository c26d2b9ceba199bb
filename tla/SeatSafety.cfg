SPECIFICATION Spec
CONSTANTS
    NoOne = NoOne
    NoIntent = NoIntent
    Unlimited = Unlimited
    Students = {u1, u2}
    Intents = {i1, i2}
    Slots = {s1, s2}
    MaxRequests = 2
    Environments <- Everything
SYMMETRY Symmetry
INVARIANTS
    SeatsWithinCap
    SeatIsBacked
    BooksMatchStripe
    ChargedOnce
    ChargeBuysSeat
PROPERTIES
    CaptureIsBooked
CHECK_DEADLOCK FALSE
