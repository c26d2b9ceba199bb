SPECIFICATION FairSpec
CONSTANTS
    NoSession = NoSession
    NoIntent = NoIntent
    Sessions = {g1}
    Intents = {i1}
    Slots = {s1, s2}
    Environments <- InTheEnd
PROPERTIES
    SessionsDecided
    HoldsEnd
    MoneySettles
CHECK_DEADLOCK FALSE
