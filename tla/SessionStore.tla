---------------------------- MODULE SessionStore ----------------------------
(***************************************************************************)
(* What the handlers of 1:1 sessions share: the sessions of one student    *)
(* with one expert, the payment ledger and Stripe.                         *)
(*                                                                         *)
(* As in SeatStore, a handler is a run in a slot that keeps its locals in  *)
(* call[s] and goes from label to label, one await of the database or of   *)
(* Stripe after the other; runs interleave at every await.                 *)
(***************************************************************************)
EXTENDS Integers, FiniteSets

CONSTANTS
    Sessions,      \* GroupChat documents of type individual
    Intents,       \* Stripe payment intents
    Slots,         \* handler runs that can be in flight together
    NoSession, NoIntent,
    Environments   \* what the program may meet, see below

(* An environment says what a session costs (price: the advertised price,  *)
(* only the platform fee, or nothing at all), which handlers are called    *)
(* (calls), which way a request of the student pays (modes), how a         *)
(* checkout leaves an intent (outcomes), what may go wrong (faults), and   *)
(* bounds on how many calls are made and how often something goes wrong.   *)
Prices == {"paid", "fee", "free"}

ASSUME SessionAssumption ==
    /\ NoSession \notin Sessions
    /\ NoIntent \notin Intents
    /\ \A e \in Environments :
          /\ e.price \in Prices
          /\ e.outcomes \subseteq {"hold", "processing", "succeeded"}
          /\ e.maxCalls \in Nat /\ e.maxFaults \in Nat

VARIABLES
    session,    \* the GroupChat documents
    ledger,     \* PaymentHistory: per intent its charge row and refund rows
    stripe,     \* the payment intents at Stripe
    events,     \* webhook events Stripe has yet to deliver
    call,       \* call[s]: the handler run in slot s
    world       \* the environment, calls made and faults met so far

sessionVars == <<session, ledger, stripe, events, call, world>>

(* chargeDueForGroup: what the student is charged, and what is advertised. *)
Charged == world.env.price # "free"
Advertised == world.env.price = "paid"
Calls == world.env.calls
Outcomes == world.env.outcomes
Faults == world.env.faults

(* "none" and "deleted" are documents not created yet and removed again.   *)
SessionStatus == {"none", "pending", "active", "cancelled", "deleted"}
ChargeStatus == {"none", "pending", "withheld", "completed", "failed",
                 "released", "refunded"}
IntentStatus ==
    {"none", "hold", "processing", "succeeded", "canceled", "failed"}

(* decide, payBy: decisionDeadline and paymentDeadline. *)
Deadline == {"none", "set", "lapsed"}
Session == [st: SessionStatus, by: {"student", "expert"},
            mode: {"card", "wallet"}, decide: Deadline, payBy: Deadline,
            started: BOOLEAN]
Ledger == [charge: ChargeStatus, g: Sessions \cup {NoSession}, refunds: 0..2]

(* g: the session in the intent's metadata; the intent of a request names  *)
(* the expert only, its session does not exist yet.  sent, old: submitted  *)
(* by the student, created an hour ago.                                    *)
Intent == [st: IntentStatus, g: Sessions \cup {NoSession}, refunded: BOOLEAN,
           sent: BOOLEAN, old: BOOLEAN]
Event == {"succeeded", "failed", "canceled"} \X Intents

Submittable(i) ==
    /\ stripe[i].st # "none"
    /\ stripe[i].sent => "resubmit" \in Calls
    /\ stripe[i].old => "late" \in Calls
Submitted(i) == stripe' = [stripe EXCEPT ![i].sent = TRUE]

(* The locals of a run: the session and intent it works for; who called;   *)
(* lapsed, window: the decisionDeadline it read had passed, there was a    *)
(* paymentDeadline; pays: how it found the intent; row: it knows the       *)
(* withheld row (parkedRow); ret: where it goes on after a subroutine.     *)
Idle == [at |-> "idle", g |-> NoSession, i |-> NoIntent, who |-> "nobody",
         lapsed |-> FALSE, window |-> FALSE, pays |-> "none", row |-> FALSE,
         ret |-> "idle"]

Run(labels) == [at: labels, g: Sessions \cup {NoSession},
        i: Intents \cup {NoIntent}, who: {"nobody", "student", "expert"},
        lapsed: BOOLEAN, window: BOOLEAN,
        pays: {"none", "held", "settling", "settled"}, row: BOOLEAN,
        ret: labels]

At(s, l) == call[s].at = l
Goto(s, l) == call' = [call EXCEPT ![s].at = l]
Finish(s) == call' = [call EXCEPT ![s] = Idle]

(* A call of handler h starts in slot s, within the bound on calls. *)
Calling(s, h) ==
    /\ h \in Calls
    /\ At(s, "idle")
    /\ world.calls < world.env.maxCalls
    /\ world' = [world EXCEPT !.calls = @ + 1]

Fault(k) ==
    /\ k \in Faults
    /\ world.faults < world.env.maxFaults
    /\ world' = [world EXCEPT !.faults = @ + 1]

-----------------------------------------------------------------------------
(* Documents of GroupChat. *)

Exists(g) == session[g].st \notin {"none", "deleted"}
SetSession(g, st) == session' = [session EXCEPT ![g].st = st]

(* updateOne({ _id, status: from }, { status: to }) *)
MoveSession(g, from, to) ==
    IF session[g].st = from THEN SetSession(g, to) ELSE UNCHANGED session

(* Cancelled with both deadlines cleared. *)
Close(g) ==
    session' = [session EXCEPT ![g].st = "cancelled", ![g].decide = "none",
                               ![g].payBy = "none"]

-----------------------------------------------------------------------------
(* Rows of PaymentHistory.  paymentIntent is unique among charge rows. *)

Recorded(i) == ledger[i].charge # "none"
SetCharge(i, status) == ledger' = [ledger EXCEPT ![i].charge = status]
MoveCharge(i, from, to) ==
    IF ledger[i].charge = from THEN SetCharge(i, to) ELSE UNCHANGED ledger
InsertCharge(i, g, status) ==
    ledger' = [ledger EXCEPT ![i].charge = status, ![i].g = g]
AppendRefund(i) ==
    ledger' = [ledger EXCEPT ![i].refunds = IF @ < 2 THEN @ + 1 ELSE @]

RowsOf(g, statuses) ==
    {i \in Intents : ledger[i].g = g /\ ledger[i].charge \in statuses}

(* A payment secures the session: paid, being paid, or a parked hold. *)
Secured(g) == RowsOf(g, {"completed", "pending", "withheld"}) # {}

(* findParkedHold *)
Parked(g) == RowsOf(g, {"withheld"})

(* sessionHasLivePayment *)
LivePayment(g) ==
    \E i \in RowsOf(g, {"completed", "withheld", "pending"}) :
        ledger[i].refunds = 0

-----------------------------------------------------------------------------
(* Stripe, as BE/controllers/stripe.controller.ts calls it. *)
SetIntent(i, st) == stripe' = [stripe EXCEPT ![i].st = st]

Capture(i) ==
    /\ SetIntent(i, "succeeded")
    /\ events' = events \cup {<<"succeeded", i>>}

(* cancelPaymentIntent: releases a hold, refuses any other intent. *)
CancelHold(i) ==
    IF stripe[i].st = "hold"
    THEN /\ SetIntent(i, "canceled")
         /\ events' = events \cup {<<"canceled", i>>}
    ELSE UNCHANGED <<stripe, events>>

(* refundPaymentIntent: a repeat reports the refund that exists. *)
CanRefund(i) == stripe[i].st = "succeeded"
Refund(i) == stripe' = [stripe EXCEPT ![i].refunded = TRUE]

(* The student's money is with the platform. *)
Taken(i) == stripe[i].st = "succeeded" /\ ~stripe[i].refunded

(* How resolveBookingPayment finds an intent. *)
FoundAs(i) == CASE stripe[i].st = "hold"       -> "held"
                [] stripe[i].st = "processing" -> "settling"
                [] stripe[i].st = "succeeded"  -> "settled"
                [] OTHER                       -> "none"
=============================================================================
