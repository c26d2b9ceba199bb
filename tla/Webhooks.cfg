SPECIFICATION FairSpec
CONSTANTS
    e1 = e1
    e2 = e2
    w1 = w1
    w2 = w2
    w3 = w3
    Events <- MCTwoEvents
    Workers <- MCThreeWorkers
    Rejected <- MCSecondRejected
    Environments <- MCBoth
INVARIANTS
    SingleOwner
    AppliedAtMostOnce
    RetryAloneNotSwallowed
PROPERTIES
    EventuallyApplied
