---------------------------- MODULE AdminPayments ----------------------------
(***************************************************************************)
(* What the admins do about the payment for a session a student has        *)
(* booked (stripe.controller.ts): they refund it, in full or in part,      *)
(* which takes the place away, and send links to pay it again; and they    *)
(* send links to pay something else.  The student pays links, Stripe tells *)
(* the webhook, and a sweep fails the records of links that lapsed.        *)
(***************************************************************************)
EXTENDS Integers, FiniteSets

CONSTANTS
    Links,         \* the links an admin may send
    Charge,        \* the payment the booking was made with
    Slots,         \* requests and deliveries that can be in flight together
    Nothing,
    Full,          \* the price, in units a refund can be made in
    Life,          \* RETRY_LINK_LIFETIME_MS
    MinLife,       \* MIN_RETRY_LINK_LIFETIME_MS
    Horizon,       \* bound on the clock
    Environments   \* how the booking stands, what the program may meet, and
                   \* until when it is watched

Payments == Links \cup {Charge}

ASSUME PaymentAssumption ==
    /\ Charge \notin Links /\ Nothing \notin Payments /\ IsFiniteSet(Links)
    /\ {Full, Life, MinLife} \subseteq Nat \ {0}
    /\ Horizon \in Nat
    /\ \A e \in Environments :
          /\ e.kind \in [Links -> {"retry", "adhoc"}]
          /\ e.charge \in {"completed", "failed"}
          /\ {e.maxCalls, e.maxFaults} \subseteq Nat
          /\ {e.start, e.over, e.until} \subseteq 0..Horizon

VARIABLES
    now,
    world,      \* the environment, the calls and the faults so far
    row,        \* row[p]: the record of payment p
    link,       \* link[p]: a link and its payment, as Stripe and the webhook go
    refunded,   \* refunded[p]: what Stripe has given back of p
    booked,     \* booked[p]: the sum of the refund records of p
    seated,     \* the student has the place
    run         \* what is in flight

moneyVars == <<row, link, refunded, booked>>
vars == <<now, world, moneyVars, seated, run>>

Env == world.env
Retry(p) == p \in Links /\ Env.kind[p] = "retry"

Pending(p) == row[p].st = "pending"

(* A record: its status, when its link expires, and the payment that       *)
(* completed it.                                                           *)
NoRow == [st |-> "none", expires |-> Horizon + 1, of |-> Nothing]

Idle == [at |-> "idle", p |-> Nothing, amount |-> 0, rows |-> {}, expires |-> 0]
At(s, l) == run[s].at = l
Goto(s, l) == run' = [run EXCEPT ![s].at = l]
Finish(s) == run' = [run EXCEPT ![s] = Idle]
Quiet == \A s \in Slots : At(s, "idle")

Calling(k) ==
    /\ k \in Env.calls
    /\ world.calls < Env.maxCalls
    /\ world' = [world EXCEPT !.calls = @ + 1]
Fault(f) ==
    /\ f \in Env.faults
    /\ world.faults < Env.maxFaults
    /\ world' = [world EXCEPT !.faults = @ + 1]

-----------------------------------------------------------------------------
(* processRefund.  A record with a payment behind it is refunded, unless   *)
(* that is still open.                                                     *)

RefundAsk(s, p, amount) ==
    /\ At(s, "idle")
    /\ row[p].of # Nothing /\ ~Pending(p)
    /\ Calling("refund")
    /\ run' = [run EXCEPT ![s] = [Idle EXCEPT !.at = "refund.sum", !.p = row[p].of,
                                              !.amount = amount]]
    /\ UNCHANGED <<now, moneyVars, seated>>

(* Not more than the records leave to refund. *)
RefundSum(s) ==
    /\ At(s, "refund.sum")
    /\ IF run[s].amount <= Full - booked[run[s].p] THEN Goto(s, "refund.stripe")
       ELSE Finish(s)
    /\ UNCHANGED <<now, world, moneyVars, seated>>

(* Stripe gives back no more than it took. *)
Refundable(p, amount) ==
    /\ p = Charge => Env.charge = "completed"
    /\ amount <= Full - refunded[p]

(* Mutant of RefundStripe: a charge that Stripe has given back already is  *)
(* booked as a refund again.                                               *)
MutRefundStripe(s) ==
    LET p == run[s].p IN
    /\ At(s, "refund.stripe")
    /\ IF Refundable(p, run[s].amount)
       THEN /\ refunded' = [refunded EXCEPT ![p] = @ + run[s].amount]
            /\ Goto(s, "refund.row")
       ELSE /\ IF refunded[p] = Full THEN Goto(s, "refund.row") ELSE Finish(s)
            /\ UNCHANGED refunded
    /\ UNCHANGED <<now, world, row, link, booked, seated>>

(* refundPaymentIntent: a refund that Stripe refuses is not booked,        *)
(* whatever the reason.                                                    *)
RefundStripe(s) ==
    LET p == run[s].p IN
    /\ At(s, "refund.stripe")
    /\ IF Refundable(p, run[s].amount)
       THEN /\ refunded' = [refunded EXCEPT ![p] = @ + run[s].amount]
            /\ Goto(s, "refund.row")
       ELSE Finish(s) /\ UNCHANGED refunded
    /\ UNCHANGED <<now, world, row, link, booked, seated>>

(* Given back, but the answer does not arrive: taken for a failure, or for *)
(* a charge that was refunded before.                                      *)
RefundStripeLost(s) ==
    LET p == run[s].p IN
    /\ At(s, "refund.stripe")
    /\ Refundable(p, run[s].amount)
    /\ Fault("lost")
    /\ refunded' = [refunded EXCEPT ![p] = @ + run[s].amount]
    /\ Finish(s)
    /\ UNCHANGED <<now, row, link, booked, seated>>

RefundRow(s) ==
    /\ At(s, "refund.row")
    /\ booked' = [booked EXCEPT ![run[s].p] = @ + run[s].amount]
    /\ Goto(s, "release")
    /\ UNCHANGED <<now, world, row, link, refunded, seated>>

-----------------------------------------------------------------------------
(* releaseSeatAfterAdminRefund *)

(* A payment for something else has no session. *)
Release(s) ==
    /\ At(s, "release")
    /\ IF (run[s].p = Charge \/ Retry(run[s].p)) /\ seated /\ now < Env.over
       THEN Goto(s, "release.rows") ELSE Finish(s)
    /\ UNCHANGED <<now, world, moneyVars, seated>>

(* studentStillPaidFor *)
Counts == {p \in Payments : row[p].st = "completed" /\ (p = Charge \/ Retry(p))}
StillPaid(rows) == \E p \in rows : booked[p] = 0

(* Mutant of ReleaseRows: a link not yet paid counts as a payment.         *)
MutReleaseRows(s) ==
    /\ At(s, "release.rows")
    /\ run' = [run EXCEPT ![s].at = "release.paid",
                          ![s].rows = Counts \cup {p \in Links : row[p].st = "pending"}]
    /\ UNCHANGED <<now, world, moneyVars, seated>>

ReleaseRows(s) ==
    /\ At(s, "release.rows")
    /\ run' = [run EXCEPT ![s].at = "release.paid", ![s].rows = Counts]
    /\ UNCHANGED <<now, world, moneyVars, seated>>

ReleasePaid(s) ==
    /\ At(s, "release.paid")
    /\ IF StillPaid(run[s].rows) THEN Finish(s) ELSE Goto(s, "release.seat")
    /\ UNCHANGED <<now, world, moneyVars, seated>>

(* A meeting of two is cancelled, a student taken off the seminar. *)
ReleaseSeat(s) ==
    /\ At(s, "release.seat")
    /\ seated' = FALSE
    /\ Finish(s)
    /\ UNCHANGED <<now, world, moneyVars>>

-----------------------------------------------------------------------------
(* sendPaymentLinkToUser, sendAdHocPaymentLink: the checkout at Stripe,    *)
(* the record, the mail.  Only the mail and the answer after it give the   *)
(* link away.                                                              *)

Earlier(a, b) == IF a < b THEN a ELSE b

(* retryLinkExpiry; a payment for something else never expires. *)
Expiry(p) == IF Retry(p) THEN Earlier(now + Life, Env.start) ELSE Horizon + 1

LinkAsk(s, p) ==
    /\ At(s, "idle")
    /\ link[p] = "none"
    /\ Expiry(p) - now >= MinLife
    /\ Calling("link")
    /\ link' = [link EXCEPT ![p] = "made"]
    /\ run' = [run EXCEPT ![s] = [Idle EXCEPT !.at = "link.row", !.p = p,
                                              !.expires = Expiry(p)]]
    /\ UNCHANGED <<now, row, refunded, booked, seated>>

(* Mutant of LinkRow: the record does not say when its link expires. *)
MutLinkRow(s) ==
    /\ At(s, "link.row")
    /\ row' = [row EXCEPT ![run[s].p].st = "pending"]
    /\ Goto(s, "link.mail")
    /\ UNCHANGED <<now, world, link, refunded, booked, seated>>

LinkRow(s) ==
    /\ At(s, "link.row")
    /\ row' = [row EXCEPT ![run[s].p].st = "pending",
                          ![run[s].p].expires = run[s].expires]
    /\ Goto(s, "link.mail")
    /\ UNCHANGED <<now, world, link, refunded, booked, seated>>

LinkMail(s) ==
    /\ At(s, "link.mail")
    /\ link' = [link EXCEPT ![run[s].p] = "sent"]
    /\ Finish(s)
    /\ UNCHANGED <<now, world, row, refunded, booked, seated>>

LinkMailFails(s) ==
    /\ At(s, "link.mail")
    /\ Fault("mail")
    /\ Finish(s)
    /\ UNCHANGED <<now, moneyVars, seated>>

(* The student pays; Stripe expires a checkout, but no other link. *)
Pay(p) ==
    /\ link[p] = "sent"
    /\ now < row[p].expires
    /\ link' = [link EXCEPT ![p] = "paid"]
    /\ UNCHANGED <<now, world, row, refunded, booked, seated, run>>

-----------------------------------------------------------------------------
(* handleStripeWebhook on checkout.session.completed.  Its claim of the    *)
(* event is WebhookDelivery's: it is deleted where the handler fails, and  *)
(* stays where the process dies.                                           *)

Hook(s, p) ==
    /\ At(s, "idle")
    /\ link[p] = "paid"
    /\ "overlap" \in Env.calls \/ \A z \in Slots : run[z].at \notin {"hook", "hook.save"}
    /\ link' = [link EXCEPT ![p] = "claimed"]
    /\ run' = [run EXCEPT ![s] = [Idle EXCEPT !.at = "hook", !.p = p]]
    /\ UNCHANGED <<now, world, row, refunded, booked, seated>>

(* Mutant of Found: a record counts only while it is pending. *)
MutFound(p) ==
    {q \in IF Retry(p) THEN {p} ELSE {r \in Links : ~Retry(r)} : Pending(q)}

(* A retry's record is found by its checkout, whatever its status; another *)
(* payment's is one pending for as much and the same, any of them here.    *)
Found(p) ==
    IF Retry(p) THEN {p} ELSE {q \in Links : ~Retry(q) /\ Pending(q)}

HookFind(s) ==
    LET p == run[s].p IN
    /\ At(s, "hook")
    /\ \/ /\ Found(p) = {}
          /\ link' = [link EXCEPT ![p] = "done"]
          /\ Finish(s)
       \/ \E q \in Found(p) :
             /\ run' = [run EXCEPT ![s].at = "hook.save", ![s].rows = {q}]
             /\ UNCHANGED link
    /\ UNCHANGED <<now, world, row, refunded, booked, seated>>

HookSave(s) ==
    /\ At(s, "hook.save")
    /\ row' = [q \in Payments |->
                  IF q \in run[s].rows
                  THEN [row[q] EXCEPT !.st = "completed", !.of = run[s].p] ELSE row[q]]
    /\ link' = [link EXCEPT ![run[s].p] = "done"]
    /\ Finish(s)
    /\ UNCHANGED <<now, world, refunded, booked, seated>>

(* The save fails: the claim is deleted, Stripe delivers again. *)
HookFails(s) ==
    /\ At(s, "hook.save")
    /\ Fault("save")
    /\ link' = [link EXCEPT ![run[s].p] = "paid"]
    /\ Finish(s)
    /\ UNCHANGED <<now, row, refunded, booked, seated>>

(* sweepExpiredRetryPaymentLinks, in one update. *)
Lapsed == {p \in Links : Retry(p) /\ Pending(p) /\ row[p].expires <= now}
Sweep ==
    /\ Lapsed # {}
    /\ row' = [p \in Payments |->
                  IF p \in Lapsed THEN [row[p] EXCEPT !.st = "failed"] ELSE row[p]]
    /\ UNCHANGED <<now, world, link, refunded, booked, seated, run>>

-----------------------------------------------------------------------------
Clock ==
    /\ now < Env.until
    /\ now' = now + 1
    /\ UNCHANGED <<world, moneyVars, seated, run>>

(* A restart of the backend. *)
Crash ==
    /\ ~Quiet
    /\ Fault("crash")
    /\ run' = [s \in Slots |-> Idle]
    /\ UNCHANGED <<now, moneyVars, seated>>

Init ==
    /\ \E e \in Environments :
          /\ world = [env |-> e, calls |-> 0, faults |-> 0]
          /\ row = [p \in Payments |-> IF p # Charge THEN NoRow
                       ELSE [NoRow EXCEPT !.st = e.charge, !.of = p]]
    /\ now = 0
    /\ link = [p \in Links |-> "none"]
    /\ refunded = [p \in Payments |-> 0]
    /\ booked = [p \in Payments |-> 0]
    /\ seated = TRUE
    /\ run = [s \in Slots |-> Idle]

RunStep(s) ==
    \/ RefundSum(s) \/ RefundStripe(s) \/ RefundRow(s)
    \/ Release(s) \/ ReleaseRows(s) \/ ReleasePaid(s) \/ ReleaseSeat(s)
    \/ LinkRow(s) \/ LinkMail(s) \/ HookFind(s) \/ HookSave(s)

Next ==
    \/ \E s \in Slots :
          \/ RunStep(s)
          \/ RefundStripeLost(s) \/ LinkMailFails(s) \/ HookFails(s)
          \/ \E p \in Payments, amount \in 1..Full : RefundAsk(s, p, amount)
          \/ \E p \in Links : LinkAsk(s, p) \/ Hook(s, p)
    \/ \E p \in Links : Pay(p)
    \/ Sweep \/ Clock \/ Crash

Spec == Init /\ [][Next]_vars

(* Requests run to their end, Stripe delivers, timers fire. *)
Fairness ==
    /\ \A s \in Slots : WF_vars(RunStep(s))
    /\ \A p \in Links : WF_vars(\E s \in Slots : Hook(s, p))
    /\ WF_vars(Sweep) /\ WF_vars(Clock)
FairSpec == Spec /\ Fairness

-----------------------------------------------------------------------------
Labels == {"idle", "refund.sum", "refund.stripe", "refund.row", "release",
           "release.rows", "release.paid", "release.seat", "link.row", "link.mail",
           "hook", "hook.save"}

Rows == [st: {"none", "pending", "failed", "completed"},
         expires: 0..Horizon + 1, of: Payments \cup {Nothing}]
Runs == [at: Labels, p: Payments \cup {Nothing}, amount: 0..Full,
         rows: SUBSET Payments, expires: 0..Horizon + 1]

(* The variables have their types. *)
TypeOK ==
    /\ now \in 0..Horizon
    /\ world \in [env: Environments, calls: Nat, faults: Nat]
    /\ row \in [Payments -> Rows]
    /\ link \in [Links -> {"none", "made", "sent", "paid", "claimed", "done"}]
    /\ refunded \in [Payments -> 0..Full]
    /\ booked \in [Payments -> Nat]
    /\ seated \in BOOLEAN
    /\ run \in [Slots -> Runs]

(* Admins who refund the same payment at once book what Stripe gave back,  *)
(* no more, and no less once they are done; unless the process died or the *)
(* answer was lost between the two.                                        *)
RefundsMatchStripe ==
    /\ \A p \in Payments : booked[p] <= refunded[p]
    /\ Quiet /\ Env.faults \cap {"crash", "lost"} = {} => booked = refunded

(* The place goes with the money: a student whose payments have all been   *)
(* refunded, by several admins at once or while another link of theirs was *)
(* being paid, keeps no place in a session that lies ahead; unless the     *)
(* process died over it.                                                   *)
SeatGoesWithMoney ==
    Quiet /\ seated /\ now < Env.over /\ "crash" \notin Env.faults
        => StillPaid(Counts) \/ \A p \in Counts : booked[p] = 0

(* Each link that was paid has completed a record, and a retry its own,    *)
(* once Stripe was answered, whether or not the sweep had given it up.     *)
(* Left out are events for like payments that are handled at once.         *)
PaidIsBooked ==
    "overlap" \notin Env.calls =>
        \A p \in Links : link[p] = "done" =>
            \E q \in Links : /\ row[q].st = "completed" /\ row[q].of = p
                             /\ Retry(p) => q = p

(* No record of a link to pay again stays pending, and one that was paid   *)
(* is completed unless the process died.                                   *)
LinksSettle ==
    \A p \in Links :
        /\ Retry(p) /\ Pending(p) ~> ~Pending(p)
        /\ Retry(p) /\ link[p] = "paid" /\ "crash" \notin Env.faults
              ~> row[p].st = "completed"
=============================================================================
