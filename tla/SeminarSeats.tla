---------------------------- MODULE SeminarSeats ----------------------------
(***************************************************************************)
(* The seats of one seminar and the money paid for them: every handler of  *)
(* SeatWaitlist, SeatRegistration and SeatReconciliation at once, with the *)
(* students, the host, Stripe, the webhooks, the sweeps and restarts of    *)
(* the backend interleaved.                                                *)
(***************************************************************************)
EXTENDS SeatReconciliation

Init ==
    /\ \E e \in Environments :
          /\ world = [env |-> e, calls |-> 0, faults |-> 0]
          /\ seminar = [status |-> "active", started |-> FALSE,
                        enrolled |-> {}, cap |-> e.cap]
    /\ requests = [r \in RequestIds |-> [status |-> "none", u |-> NoOne,
                                         lapsed |-> FALSE, i |-> NoIntent]]
    /\ ledger = [i \in Intents |-> [charge |-> "none", refunds |-> 0]]
    /\ stripe = [i \in Intents |->
                    [st |-> "none", u |-> NoOne, r |-> NoRequest,
                     refunded |-> FALSE, sent |-> FALSE, old |-> FALSE]]
    /\ events = {}
    /\ call = [s \in Slots |-> Idle]

(* A handler in slot s goes on to its next await. *)
Step(s) == WaitlistStep(s) \/ RegistrationStep(s) \/ ReconcileStep(s)

(* Somebody calls the backend. *)
Arrival(s) ==
    \/ WaitlistCall(s)
    \/ RegistrationCall(s)
    \/ \E u \in Students : Leave(s, u)

Time == SeminarStarts \/ \E r \in RequestIds : WindowLapses(r)

Next ==
    \/ \E s \in Slots :
          Step(s) \/ Arrival(s) \/ WebhookStep(s) \/ SweepStep(s)
    \/ StripeStep
    \/ DeleteSeminar
    \/ Time
    \/ Crash

Spec == Init /\ [][Next]_storeVars

(* A run that started goes on; Stripe delivers every event and resolves    *)
(* every wallet payment; a sweep visits every row and intent again and     *)
(* again, so it is not held up by the slots being taken now and then;      *)
(* time passes.  Nobody has to call anything.                              *)
Fairness ==
    /\ \A s \in Slots : WF_storeVars(Step(s))
    /\ \A i \in Intents :
        /\ SF_storeVars(\E s \in Slots : FailedEvent(s, i) \/ SucceededEvent(s, i))
        /\ SF_storeVars(\E s \in Slots : SweepPending(s, i) \/ SweepOrphan(s, i))
        /\ WF_storeVars(WalletClears(i))
    /\ \A r \in RequestIds :
        /\ SF_storeVars(\E s \in Slots : SweepOffer(s, r))
        /\ WF_storeVars(WindowLapses(r))

FairSpec == Spec /\ Fairness

-----------------------------------------------------------------------------
Labels == {"idle"} \cup WaitlistLabels \cup ClaimLabels \cup CaptureLabels
          \cup PayLabels \cup RefuseLabels \cup SettleLabels \cup UnenrollLabels

(* The variables have their types. *)
TypeOK ==
    /\ seminar \in Seminar
    /\ requests \in [RequestIds -> Request]
    /\ ledger \in [Intents -> Ledger]
    /\ stripe \in [Intents -> Intent]
    /\ events \subseteq Event
    /\ call \in [Slots -> Run(Labels)]
    /\ world \in [env : Environments, calls : Nat, faults : Nat]
    /\ world.calls <= world.env.maxCalls
    /\ world.faults <= world.env.maxFaults

Quiet == \A s \in Slots : At(s, "idle")

(* No run works for student u and no failed payment of u's is on its way. *)
SettledFor(u) ==
    /\ \A s \in Slots : call[s].u # u
    /\ \A i \in Intents : stripe[i].u = u => <<"failed", i>> \notin events

(* No payment fails while the registration it is for is under way: its     *)
(* release gives away a seat that the registration then confirms.          *)
PaymentsHold == Faults \cap {"decline", "wallet"} = {}

(* Never more students than maxAttendees: claimSeminarSeat decides on the  *)
(* document itself, whatever the callers read before.                      *)
SeatsWithinCap ==
    seminar.cap # Unlimited /\ PaymentsHold => Cardinality(seminar.enrolled) <= seminar.cap

(* Offers and students together fit once every offer loop has ended:       *)
(* concurrent offers that overshot have been rolled back.                  *)
OffersWithinCap ==
    Quiet /\ seminar.cap # Unlimited =>
        Cardinality(seminar.enrolled) + SoftHeld(NoOne) <= seminar.cap

(* First come, first served: no one is offered a seat while somebody who   *)
(* asked earlier still waits (offerNextWaitlistedSeat, FIFO by createdAt). *)
OffersInTurn ==
    Quiet => \A q, r \in RequestIds :
        q < r /\ requests[q].status = "pending"
            => requests[r].status # "awaiting_payment"

(* A seat given back reaches the waitlist: nobody waits for a free seat    *)
(* when nothing is under way.                                              *)
NobodyWaitsForFreeSeat ==
    Quiet /\ seminar.status = "active" /\ ~seminar.started
          /\ ~IsFull(seminar.enrolled, seminar.cap, SoftHeld(NoOne))
        => RowsOf("pending") = {}

(* A hold is captured only when its charge row exists, so a crash between  *)
(* capture and confirmation leaves a row for the sweep to settle.          *)
CaptureIsBooked ==
    [][\A i \in Intents :
          stripe[i].st = "hold" /\ stripe'[i].st = "succeeded" => Recorded(i)]_storeVars

(* utils/paymentIntegrity.ts, checkSeat: what the admin report says of a   *)
(* student enrolled in a seminar that costs something.                     *)
SeatVerdict(u) ==
    LET rows == {i \in Intents : stripe[i].u = u /\ Recorded(i)}
        some(statuses) == \E i \in rows : ledger[i].charge \in statuses
        paid == \E i \in rows :
                    ledger[i].charge = "completed" /\ ledger[i].refunds = 0
    IN  CASE paid                                      -> "paid"
          [] ~paid /\ some({"pending"})                -> "in_flight"
          [] ~paid /\ ~some({"pending"})
                   /\ some({"refunded", "completed"})  -> "refunded"
          [] OTHER                                     -> "unpaid"

(* Nobody keeps a seat without money behind it.  Once nothing works for    *)
(* the student, the verdict is not one the admin has to act on.            *)
SeatIsBacked ==
    Paid /\ PaymentsHold /\ "crash" \notin Faults /\ "resubmit" \notin Calls => \A u \in seminar.enrolled :
        SettledFor(u) => SeatVerdict(u) \in {"paid", "in_flight"}

(* The books agree with Stripe once no run works on the intent: a charge   *)
(* that failed took no money, a completed one did, a refunded one gave it  *)
(* back.                                                                   *)
BooksMatchStripe ==
    PaymentsHold /\ "late" \notin Calls => \A i \in Intents : (\A s \in Slots : call[s].i # i) =>
        CASE ledger[i].charge = "failed"    -> ~Taken(i)
          [] ledger[i].charge = "completed" -> stripe[i].st = "succeeded"
          [] ledger[i].charge = "refunded"  -> stripe[i].refunded
          [] OTHER -> TRUE

(* Money taken and booked as completed is matched by a seat, once no run   *)
(* is under way: a student who lost the seat was refunded.  Left out are a *)
(* capture whose answers are lost and a refused student's refund that      *)
(* fails (of a student who leaves it may); cards declined at first and     *)
(* second checkouts left behind, whose late event takes the seat of a      *)
(* registration on its way; and offers paid an hour after their checkout,  *)
(* which meet the sweep that is recording them.                            *)
ChargeBuysSeat ==
    /\ Faults \cap {"decline", "lost"} = {}
    /\ "refund" \notin Faults \/ "leave" \in Calls
    /\ ~ {"pay", "late"} \subseteq Calls /\ "again" \notin Calls
    /\ Quiet
    => \A i \in Intents :
          Taken(i) /\ ledger[i].charge = "completed"
              => stripe[i].u \in seminar.enrolled

(* A charge is for one seat: no student has two charges kept on the books. *)
ChargedOnce ==
    Quiet => \A u \in Students :
        Cardinality({i \in Intents : /\ stripe[i].u = u
                                     /\ Taken(i)
                                     /\ ledger[i].charge = "completed"}) <= 1

-----------------------------------------------------------------------------
(* Every run ends; in particular the offer loop does not offer forever. *)
RunsEnd == \A s \in Slots : ~At(s, "idle") ~> At(s, "idle")

(* An authorization is captured or released, whether or not the student    *)
(* ever submitted it and wherever a restart cut the handler off.           *)
HoldsEnd == \A i \in Intents :
    stripe[i].st = "hold" ~> stripe[i].st \in {"succeeded", "canceled"}

(* Money taken ends up as a booked seat or back with the student.          *)
MoneySettles == \A i \in Intents :
    Taken(i) ~> \/ stripe[i].refunded
                \/ ledger[i].charge = "completed" /\ stripe[i].u \in seminar.enrolled

(* An offer does not hold a seat for ever. *)
OffersEnd == \A r \in RequestIds :
    requests[r].status = "awaiting_payment" ~>
        requests[r].status # "awaiting_payment"
=============================================================================
