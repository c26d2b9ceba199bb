--------------------------- MODULE MCSeminarSeats ---------------------------
(* Small instances of SeminarSeats: the environments the runs are made in. *)
EXTENDS SeminarSeats, TLC

Symmetry == Permutations(Students) \cup Permutations(Slots)
                                   \cup Permutations(Intents)

(* A seminar with one seat that costs money, where nothing happens. *)
OneSeat ==
    [paid |-> TRUE, cap |-> 1, newCaps |-> {}, calls |-> {}, outcomes |-> {},
     faults |-> {}, maxCalls |-> 3, maxFaults |-> 1]

-----------------------------------------------------------------------------
(* Two students after one seat: by card, while the database and Stripe     *)
(* fail or while the seminar closes; after two seats, coming back for a    *)
(* second checkout; after free seats; or invited by the host.              *)
Cards == [OneSeat EXCEPT
    !.calls = {"register", "sweep"}, !.outcomes = {"hold"},
    !.faults = {"insert", "capture", "lost", "enroll", "refund"},
    !.maxFaults = 2]
ClosingCards == [OneSeat EXCEPT
    !.calls = {"register", "sweep", "delete", "start"}, !.outcomes = {"hold"},
    !.faults = {"insert", "capture", "enroll", "refund"}, !.maxCalls = 2]
DeletedCards == [OneSeat EXCEPT
    !.calls = {"register", "delete"}, !.outcomes = {"hold"},
    !.faults = {"insert", "capture", "enroll", "refund"}]
CardsTwice == [OneSeat EXCEPT
    !.cap = 2, !.calls = {"register", "sweep", "again"}, !.outcomes = {"hold"},
    !.faults = {"insert", "capture", "enroll"}]
FreeSeats == [OneSeat EXCEPT
    !.paid = FALSE, !.newCaps = {2}, !.faults = {"enroll"},
    !.calls = {"register", "request", "update", "drain", "delete", "start"}]
Invited == [OneSeat EXCEPT
    !.calls = {"invite", "pay", "sweep"}, !.outcomes = {"succeeded"},
    !.faults = {"enroll", "refund"}, !.maxFaults = 2]
LapsingOffers == [OneSeat EXCEPT
    !.calls = {"invite", "pay", "lapse"},
    !.outcomes = {"succeeded"}, !.faults = {"enroll"}]
TwoStudents ==
    {Cards, ClosingCards, DeletedCards, CardsTwice, FreeSeats, Invited,
     LapsingOffers}

-----------------------------------------------------------------------------
(* Two students, with restarts, forms submitted twice, wallets, and cards  *)
(* declined at first.                                                      *)
RestartedCards == [OneSeat EXCEPT
    !.calls = {"register", "sweep", "resubmit"}, !.outcomes = {"hold"},
    !.faults = {"insert", "capture", "enroll", "crash"}, !.maxCalls = 2]
Wallets == [OneSeat EXCEPT
    !.calls = {"register", "sweep"}, !.outcomes = {"processing", "succeeded"},
    !.faults = {"wallet", "enroll"}, !.maxCalls = 2]
ResubmittedOffers == [OneSeat EXCEPT
    !.calls = {"invite", "pay", "lapse", "resubmit"},
    !.outcomes = {"succeeded"}, !.faults = {"insert", "enroll"}]
ClearingOffers == [OneSeat EXCEPT
    !.calls = {"invite", "pay", "lapse"},
    !.outcomes = {"processing"}, !.faults = {"insert", "wallet"}, !.maxCalls = 2]
DeclinedCards == [OneSeat EXCEPT
    !.calls = {"register", "sweep"}, !.outcomes = {"hold"},
    !.faults = {"decline", "insert", "capture", "refund"},
    !.maxCalls = 2, !.maxFaults = 2]
LateCard == [OneSeat EXCEPT
    !.calls = {"register", "sweep", "late"},
    !.outcomes = {"hold", "processing"}, !.faults = {"crash", "insert"},
    !.maxCalls = 1]
LateOffers == [OneSeat EXCEPT
    !.calls = {"invite", "pay", "lapse", "sweep", "late"}, !.maxCalls = 2,
    !.outcomes = {"processing", "succeeded"}, !.faults = {"wallet"}]
Interrupted ==
    {RestartedCards, Wallets, ResubmittedOffers, ClearingOffers,
     DeclinedCards, LateCard, LateOffers}

Everything == TwoStudents \cup Interrupted

-----------------------------------------------------------------------------
(* A waitlist behind one seat: students come, leave, are offered the seat, *)
(* pay for it or let it lapse; and the same for a seminar that is free.    *)
Waiting == [OneSeat EXCEPT
    !.calls = {"register", "leave", "sweep", "request", "drain", "pay", "lapse"},
    !.outcomes = {"hold", "succeeded"}, !.faults = {"refund", "enroll"},
    !.maxCalls = 5]
WaitingFree == [OneSeat EXCEPT
    !.paid = FALSE, !.newCaps = {2}, !.maxCalls = 5,
    !.calls = {"register", "leave", "request", "drain", "update", "delete"}]
InTurn == {Waiting, WaitingFree}

-----------------------------------------------------------------------------
(* A waitlist whose first seat appears late, paid and free; and intents    *)
(* that failures and restarts leave behind.                                *)
LateSeat == [OneSeat EXCEPT
    !.cap = 0, !.newCaps = {1}, !.maxCalls = 4,
    !.calls = {"request", "update", "drain", "lapse", "sweep"}]
LateFreeSeats == [OneSeat EXCEPT
    !.paid = FALSE, !.cap = 0, !.newCaps = {2}, !.faults = {"enroll"},
    !.calls = {"register", "request", "update"}]
LeftBehind == [OneSeat EXCEPT
    !.calls = {"register", "sweep", "resubmit", "lapse"},
    !.outcomes = {"hold", "succeeded"}, !.maxCalls = 2,
    !.faults = {"insert", "capture", "enroll", "crash"}]
InTheEnd == {LateSeat, LateFreeSeats, LeftBehind}

=============================================================================
