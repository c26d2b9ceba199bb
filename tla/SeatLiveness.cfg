SPECIFICATION FairSpec
CONSTANTS
    NoOne = NoOne
    NoIntent = NoIntent
    Unlimited = Unlimited
    Students = {u1, u2}
    Intents = {i1}
    Slots = {s1, s2}
    MaxRequests = 3
    Environments <- InTheEnd
INVARIANTS
    OffersWithinCap
PROPERTIES
    RunsEnd
    OffersEnd
    HoldsEnd
    MoneySettles
CHECK_DEADLOCK FALSE
