SPECIFICATION DeskSpec
CONSTANTS
    l1 = l1
    l2 = l2
    Links = {l1, l2}
    Charge = c
    Slots = {s1, s2}
    Nothing = Nothing
    Full = 2
    Life = 1
    MinLife = 1
    Horizon = 3
    Environments <- MCEnvironments
    b1 = b1
    b2 = b2
    b3 = b3
    Bookings = {b1, b2, b3}
    Clerks = {c1, c2}
    Rates <- MCRates
    Books <- MCBooks
    Desks <- MCDesks
INVARIANTS
    RefundsMatchStripe
    SeatGoesWithMoney
    PaidIsBooked
    LiveNetIsDue
    ChequesPay
PROPERTIES
    LinksSettle
CHECK_DEADLOCK FALSE
