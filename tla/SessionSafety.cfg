SPECIFICATION Spec
CONSTANTS
    NoSession = NoSession
    NoIntent = NoIntent
    Sessions = {g1, g2}
    Intents = {i1, i2}
    Slots = {s1, s2}
    Environments <- Everything
SYMMETRY Symmetry
INVARIANTS
    TypeOK
    ChargeBuysSession
    SessionIsBacked
    BooksMatchStripe
PROPERTIES
    CaptureIsOnBooks
    LivesOnce
CHECK_DEADLOCK FALSE
