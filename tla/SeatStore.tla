------------------------------ MODULE SeatStore ------------------------------
(***************************************************************************)
(* What the seminar handlers of BE/controllers/groupChat.controller.ts     *)
(* share: one seminar that is not part of a series, its seat requests, the *)
(* payment ledger, and Stripe as the handlers see it.                      *)
(*                                                                         *)
(* A handler is a run in a slot.  It keeps its locals in call[s] and moves *)
(* from label to label; every await on the database or on Stripe ends a    *)
(* step, so runs of all handlers interleave between awaits and a value     *)
(* read before an await is stale after it.                                 *)
(***************************************************************************)
EXTENDS Integers, FiniteSets

CONSTANTS
    Students,      \* students who may enrol
    Intents,       \* Stripe payment intents
    Slots,         \* handler runs that can be in flight together
    NoOne, NoIntent,
    Unlimited,     \* maxAttendees is null
    MaxRequests,   \* bound on the number of seat requests
    Environments   \* what the program may meet, see below

Caps == Nat \cup {Unlimited}

(* An environment says of the seminar whether it costs anything (paid),    *)
(* its maxAttendees (cap) and what the host may change that to (newCaps);  *)
(* which handlers are called (calls), how a checkout leaves an intent      *)
(* (outcomes), what may go wrong (faults), and bounds on how many calls    *)
(* are made and how often something goes wrong (maxCalls, maxFaults).      *)
ASSUME StoreAssumption ==
    /\ IsFiniteSet(Students)
    /\ NoOne \notin Students
    /\ NoIntent \notin Intents
    /\ Unlimited \notin Int
    /\ MaxRequests \in Nat
    /\ \A e \in Environments :
          /\ e.cap \in Caps
          /\ e.newCaps \subseteq Caps
          /\ e.maxCalls \in Nat
          /\ e.maxFaults \in Nat

VARIABLES
    seminar,    \* the GroupChat document: status, participants, maxAttendees
    requests,   \* SeminarSeatRequest rows, numbered in order of createdAt
    ledger,     \* PaymentHistory: per intent its charge row and refund rows
    stripe,     \* the payment intents at Stripe
    events,     \* webhook events Stripe has yet to deliver
    call,       \* call[s]: the handler run in slot s
    world       \* the environment, calls made and faults met so far

storeVars == <<seminar, requests, ledger, stripe, events, call, world>>

Paid == world.env.paid
Calls == world.env.calls
Outcomes == world.env.outcomes
Faults == world.env.faults

(* Statuses the code gives a seat request; "none" is a row not created yet. *)
RequestStatus ==
    {"none", "pending", "awaiting_payment", "approved", "expired", "failed"}
ChargeStatus == {"none", "pending", "completed", "failed", "refunded"}
IntentStatus ==
    {"none", "hold", "processing", "succeeded", "canceled", "failed"}

RequestIds == 1..MaxRequests
NoRequest == 0

Seminar == [status: {"active", "deleted"}, started: BOOLEAN,
            enrolled: SUBSET Students, cap: Caps]
Request == [status: RequestStatus, u: Students \cup {NoOne},
            lapsed: BOOLEAN, i: Intents \cup {NoIntent}]
Ledger == [charge: ChargeStatus, refunds: 0..2]
Intent == [st: IntentStatus, u: Students \cup {NoOne},
           r: 0..MaxRequests, refunded: BOOLEAN,
           sent: BOOLEAN, old: BOOLEAN]
Event == {"succeeded", "failed"} \X Intents

(* An intent is sent once the student has submitted it, and old an hour    *)
(* after it was created, when the sweeps may see it.  A second and a late  *)
(* submission are made only if "resubmit" and "late" are among the Calls.  *)
Submittable(i) ==
    /\ stripe[i].sent => "resubmit" \in Calls
    /\ stripe[i].old => "late" \in Calls

Submitted(i) == stripe' = [stripe EXCEPT ![i].sent = TRUE]

(* The locals of a run.  at: where it is; u, i, r: the student, intent and *)
(* seat request it works for; cap, seen: maxAttendees and participants as  *)
(* it last read them; soft: the soft holds it counted; pays: how the       *)
(* intent was found (resolveBookingPayment); row: it knows a pending       *)
(* charge row (pendingPaymentId); ret: where to go on after an offer loop. *)
Idle == [at |-> "idle", u |-> NoOne, i |-> NoIntent, r |-> NoRequest,
         cap |-> Unlimited, seen |-> {}, soft |-> 0, pays |-> "none",
         row |-> FALSE, ret |-> "idle"]

Run(labels) == [at : labels, u : Students \cup {NoOne},
        i : Intents \cup {NoIntent}, r : 0..MaxRequests, cap : Caps,
        seen : SUBSET Students, soft : 0..MaxRequests,
        pays : {"none", "held", "settling", "settled"},
        row : BOOLEAN, ret : labels]

At(s, l) == call[s].at = l
Goto(s, l) == call' = [call EXCEPT ![s].at = l]
Finish(s) == call' = [call EXCEPT ![s] = Idle]

(* A call of handler h starts in slot s, within the bound on calls. *)
Calling(s, h) ==
    /\ h \in Calls
    /\ At(s, "idle")
    /\ world.calls < world.env.maxCalls
    /\ world' = [world EXCEPT !.calls = @ + 1]

Fault(k) ==
    /\ k \in Faults
    /\ world.faults < world.env.maxFaults
    /\ world' = [world EXCEPT !.faults = @ + 1]

-----------------------------------------------------------------------------
(* utils/seminarCapacity.ts *)

(* seminarIsFull *)
IsFull(enrolled, cap, soft) ==
    cap # Unlimited /\ (cap <= 0 \/ Cardinality(enrolled) + soft >= cap)

(* claimableSeatCap *)
ClaimableCap(cap, soft) ==
    IF cap = Unlimited THEN Unlimited
    ELSE IF soft >= cap THEN 0 ELSE cap - soft

-----------------------------------------------------------------------------
(* Rows of SeminarSeatRequest. *)
RowsOf(status) == {r \in RequestIds : requests[r].status = status}

(* countSoftHeldSeats, without the offers of student u when u is given. *)
SoftHeld(u) ==
    Cardinality({r \in RowsOf("awaiting_payment") : requests[r].u # u})

Open == {"pending", "awaiting_payment"}
OpenRequest(u) ==
    \E r \in RequestIds : requests[r].status \in Open /\ requests[r].u = u

(* A unique partial index keeps one pending and one awaiting_payment row   *)
(* per student; a write that would break it fails with E11000.             *)
Indexed(u, status) == \E r \in RowsOf(status) : requests[r].u = u

NextRequest == {r \in RowsOf("none") : \A q \in RowsOf("none") : r <= q}

SetStatus(r, status) == requests' = [requests EXCEPT ![r].status = status]

(* updateOne({ _id, status: from }, { status: to }) *)
MoveStatus(r, from, to) ==
    IF requests[r].status = from THEN SetStatus(r, to) ELSE UNCHANGED requests

(* SeminarSeatRequest.create for student u, when the index admits it. *)
InsertRequest(r, u, status) ==
    requests' = [requests EXCEPT ![r] =
        [status |-> status, u |-> u, lapsed |-> FALSE, i |-> NoIntent]]

-----------------------------------------------------------------------------
(* Rows of PaymentHistory.  paymentIntent is unique among charge rows. *)
Recorded(i) == ledger[i].charge # "none"
SetCharge(i, status) == ledger' = [ledger EXCEPT ![i].charge = status]
AppendRefund(i) ==
    ledger' = [ledger EXCEPT ![i].refunds = IF @ < 2 THEN @ + 1 ELSE @]

(* A charge of u's on this seminar is booked as completed. *)
CompletedChargeOf(u) ==
    \E i \in Intents : stripe[i].u = u /\ ledger[i].charge = "completed"

-----------------------------------------------------------------------------
(* Participants. *)
SetEnrolled(S) == seminar' = [seminar EXCEPT !.enrolled = S]

(* $addToSet on the document, a no-op once it is deleted. *)
AddStudent(u) ==
    IF seminar.status = "active" THEN SetEnrolled(seminar.enrolled \cup {u})
    ELSE UNCHANGED seminar

(* unenrollSeminarSeries *)
Unenroll(u) == SetEnrolled(seminar.enrolled \ {u})

-----------------------------------------------------------------------------
(* Stripe, as BE/controllers/stripe.controller.ts calls it. *)
SetIntent(i, st) == stripe' = [stripe EXCEPT ![i].st = st]

CanCapture(i) == stripe[i].st = "hold"
Capture(i) ==
    /\ SetIntent(i, "succeeded")
    /\ events' = events \cup {<<"succeeded", i>>}

(* cancelPaymentIntent: releases a hold, refuses any other intent. *)
CancelHold(i) ==
    IF stripe[i].st = "hold"
    THEN /\ SetIntent(i, "canceled")
         /\ events' = events \cup {<<"failed", i>>}
    ELSE UNCHANGED <<stripe, events>>

(* refundPaymentIntent: Stripe gives the money back once; a repeat reports *)
(* the refund that exists.                                                 *)
CanRefund(i) == stripe[i].st = "succeeded"
Refund(i) == stripe' = [stripe EXCEPT ![i].refunded = TRUE]

(* The student's money is with the platform. *)
Taken(i) == stripe[i].st = "succeeded" /\ ~stripe[i].refunded
=============================================================================
