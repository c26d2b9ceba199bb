SPECIFICATION Spec
CONSTANTS
    e1 = e1
    e2 = e2
    w1 = w1
    w2 = w2
    w3 = w3
    Events <- MCOneEvent
    Workers <- MCTwoWorkers
    Rejected = {}
    Environments <- MCRetry
INVARIANTS
    RetryNotSwallowed
