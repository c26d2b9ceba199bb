-------------------------- MODULE MCExpertSessions --------------------------
(* Small instances of ExpertSessions: the environments of the runs. *)
EXTENDS ExpertSessions, TLC

Symmetry == Permutations(Slots) \cup Permutations(Intents)
            \cup Permutations(Sessions)

Nothing ==
    [price |-> "paid", calls |-> {}, modes |-> {"card"}, outcomes |-> {},
     faults |-> {}, maxCalls |-> 2, maxFaults |-> 1]

(* Requests by card: the expert accepts or declines, time runs out, the    *)
(* session starts; the database and Stripe fail.                           *)
CardRequests == [Nothing EXCEPT
    !.calls = {"request", "accept", "cancel", "sweep", "settle", "lapse", "start"},
    !.outcomes = {"hold"},
    !.faults = {"insert", "capture", "lost", "database", "refund", "expire"}]
AcceptedTwice == [Nothing EXCEPT
    !.calls = {"request", "accept", "twice", "cancel", "sweep", "settle"},
    !.outcomes = {"hold"}, !.maxCalls = 4, !.faults = {"lost"}]
SubmittedTwice == [Nothing EXCEPT
    !.calls = {"request", "resubmit", "accept", "cancel", "sweep", "settle"},
    !.outcomes = {"hold"}, !.maxCalls = 4,
    !.faults = {"insert", "capture", "lost", "refund"}]
TwoRequests == [Nothing EXCEPT
    !.calls = {"request", "again", "accept", "cancel", "sweep", "settle"},
    !.outcomes = {"hold"}, !.maxCalls = 4, !.faults = {"insert", "capture"}]

(* The expert's proposals, paid by card or by wallet. *)
Proposals == [Nothing EXCEPT
    !.calls = {"propose", "pay", "cancel", "sweep", "settle", "lapse", "start"},
    !.outcomes = {"hold", "succeeded"}, !.maxFaults = 2,
    !.faults = {"insert", "capture", "lost", "database", "refund", "expire"}]
ClearingProposals == [Nothing EXCEPT
    !.calls = {"propose", "pay", "cancel", "sweep", "lapse"},
    !.outcomes = {"processing"}, !.maxCalls = 3,
    !.faults = {"database", "lost", "wallet"}]

(* Requests by wallet: the student pays once the expert has said yes. *)
WalletRequests == [Nothing EXCEPT
    !.calls = {"request", "accept", "pay", "cancel", "sweep", "settle", "lapse", "start"},
    !.modes = {"wallet"}, !.maxCalls = 4, !.outcomes = {"succeeded"},
    !.faults = {"database", "lost", "refund", "crash"}]
ClearingRequests == [Nothing EXCEPT
    !.calls = {"request", "accept", "pay", "cancel", "sweep", "lapse"},
    !.modes = {"wallet"}, !.maxCalls = 4, !.outcomes = {"processing"},
    !.faults = {"database", "lost", "wallet"}]

(* Sessions that only cost the platform fee, and free ones. *)
FeeOnly == [Nothing EXCEPT
    !.price = "fee", !.outcomes = {"hold"}, !.maxCalls = 3,
    !.calls = {"request", "propose", "accept", "pay", "cancel", "sweep", "settle", "lapse"},
    !.faults = {"insert", "capture", "database"}]
FreeOfCharge == [Nothing EXCEPT
    !.price = "free", !.maxCalls = 3, !.faults = {"database"},
    !.calls = {"request", "propose", "accept", "pay", "cancel", "sweep", "lapse", "start"}]

(* Restarts between any two steps. *)
Restarted == [Nothing EXCEPT
    !.calls = {"request", "propose", "accept", "pay", "cancel", "sweep", "settle", "lapse", "start"},
    !.outcomes = {"hold"}, !.faults = {"crash"}, !.maxCalls = 3]

(* A card declined before it was accepted, on the intent of a request. *)
DeclinedRequests == [Nothing EXCEPT
    !.calls = {"request", "accept", "cancel", "sweep", "settle", "lapse", "start"},
    !.outcomes = {"hold"}, !.faults = {"decline"}, !.maxCalls = 3]

Everything ==
    {CardRequests, AcceptedTwice, SubmittedTwice, TwoRequests, Proposals,
     ClearingProposals, WalletRequests, ClearingRequests, FeeOnly, FreeOfCharge,
     Restarted, DeclinedRequests}

-----------------------------------------------------------------------------
(* One session and one intent, for the liveness properties: the same, with *)
(* every sweep at work on clearing payments, and payments submitted late   *)
(* or twice and requests accepted twice.                                   *)
Shorter(environment) == [environment EXCEPT !.maxCalls = 3]
Clearing(environment) == [environment EXCEPT !.calls = @ \cup {"settle"}]
LateProposals == [Nothing EXCEPT
    !.calls = {"propose", "pay", "late", "sweep", "settle", "lapse"},
    !.outcomes = {"hold", "succeeded"}, !.maxCalls = 3, !.faults = {"lost"}]
PaidTwice == [Nothing EXCEPT
    !.calls = {"propose", "pay", "resubmit", "cancel", "sweep", "settle", "lapse"},
    !.outcomes = {"hold", "succeeded"}, !.maxCalls = 4,
    !.faults = {"database", "refund"}]
AcceptedAgain == [Nothing EXCEPT
    !.calls = {"request", "accept", "twice", "cancel", "sweep", "settle", "lapse", "start"},
    !.outcomes = {"hold"}, !.faults = {"capture", "crash"}, !.maxFaults = 2,
    !.maxCalls = 3]
InTheEnd ==
    {CardRequests, Proposals, Clearing(ClearingProposals),
     Shorter(WalletRequests), Shorter(Clearing(ClearingRequests)), Restarted,
     DeclinedRequests, LateProposals, PaidTwice, AcceptedAgain}

-----------------------------------------------------------------------------
(* A proposal whose payment is submitted twice. *)
DoublePayment == {[Nothing EXCEPT
    !.calls = {"propose", "pay", "resubmit", "lapse"}, !.outcomes = {"hold"},
    !.maxCalls = 3]}
=============================================================================
