SPECIFICATION Spec
CONSTANTS
    NoSession = NoSession
    NoIntent = NoIntent
    Sessions = {g1}
    Intents = {i1}
    Slots = {s1, s2}
    Environments <- DoublePayment
SYMMETRY Symmetry
INVARIANTS
    OffersLapseUnpaid
CHECK_DEADLOCK FALSE
