SPECIFICATION Spec
CONSTANTS
    NoOne = NoOne
    NoIntent = NoIntent
    Unlimited = Unlimited
    Students = {u1, u2, u3}
    Intents = {i1, i2}
    Slots = {s1}
    MaxRequests = 3
    Environments <- InTurn
SYMMETRY Symmetry
INVARIANTS
    OffersInTurn
    NobodyWaitsForFreeSeat
    ChargeBuysSeat
CHECK_DEADLOCK FALSE
