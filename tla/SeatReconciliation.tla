------------------------- MODULE SeatReconciliation --------------------------
(***************************************************************************)
(* Giving seats and money back: a student leaving, the webhook events of a *)
(* payment intent, and the two sweeps that settle what a handler left      *)
(* behind.                                                                 *)
(***************************************************************************)
EXTENDS SeatRegistration

-----------------------------------------------------------------------------
(* Where a run is that settles an intent, and where one is that takes a    *)
(* student off the list.                                                   *)
SettleLabels ==
    {"leave.refund", "leave.row", "leave.book", "failed.row", "failed.again",
     "succeeded.recorded", "succeeded.held", "succeeded.delivered",
     "succeeded.record", "sweep.succeeded", "sweep.authorized",
     "sweep.processing", "sweep.enrolled", "sweep.settle", "sweep.fail",
     "sweep.refund", "sweep.refunded", "sweep.cancel", "sweep.released",
     "orphan.held", "orphan.cancel", "orphan.delivered"}
UnenrollLabels ==
    {"leave.find", "leave.unenroll", "release.paid", "release.unenroll"}

-----------------------------------------------------------------------------
(* leftSeminar, with the policy that refunds the whole charge. *)

Leave(s, u) ==
    /\ Calling(s, "leave")
    /\ seminar.status = "active" /\ ~seminar.started
    /\ u \in seminar.enrolled
    /\ call' = [call EXCEPT ![s].at = "leave.find", ![s].u = u]
    /\ UNCHANGED <<seminar, requests, ledger, stripe, events>>

(* The payment is a completed charge; one still pending is not seen. *)
PaymentsOf(u) ==
    {i \in Intents : stripe[i].u = u /\ ledger[i].charge = "completed"}

LeaveFind(s) ==
    LET paid == PaymentsOf(call[s].u) IN
    /\ At(s, "leave.find")
    /\ IF paid = {} THEN Goto(s, "leave.unenroll")
       ELSE \E i \in paid : call' = [call EXCEPT ![s].i = i, ![s].at =
                IF ledger[i].refunds > 0 THEN "leave.unenroll"
                ELSE "leave.refund"]
    /\ UNCHANGED <<seminar, requests, ledger, stripe, events, world>>

LeaveRefund(s) ==
    LET i == call[s].i IN
    /\ At(s, "leave.refund")
    /\ IF CanRefund(i) THEN Refund(i) /\ Goto(s, "leave.row")
       ELSE Finish(s) /\ UNCHANGED stripe
    /\ UNCHANGED <<seminar, requests, ledger, events, world>>

(* Mutant of LeaveRefundFails: the student leaves although the refund was  *)
(* refused.                                                                *)
MutLeaveUnrefunded(s) ==
    /\ At(s, "leave.refund")
    /\ Fault("refund")
    /\ Goto(s, "leave.unenroll")
    /\ UNCHANGED <<seminar, requests, ledger, stripe, events>>

(* Answered 502: still enrolled. *)
LeaveRefundFails(s) ==
    /\ At(s, "leave.refund")
    /\ Fault("refund")
    /\ Finish(s)
    /\ UNCHANGED <<seminar, requests, ledger, stripe, events>>

LeaveRow(s) ==
    /\ At(s, "leave.row")
    /\ AppendRefund(call[s].i)
    /\ Goto(s, "leave.book")
    /\ UNCHANGED <<seminar, requests, stripe, events, world>>

LeaveBook(s) ==
    /\ At(s, "leave.book")
    /\ SetCharge(call[s].i, "refunded")
    /\ Goto(s, "leave.unenroll")
    /\ UNCHANGED <<seminar, requests, stripe, events, world>>

(* Mutant of LeaveUnenroll: the seat is not offered to the waitlist. *)
MutLeaveOffersNobody(s) ==
    /\ At(s, "leave.unenroll")
    /\ Unenroll(call[s].u)
    /\ Finish(s)
    /\ UNCHANGED <<requests, ledger, stripe, events, world>>

LeaveUnenroll(s) ==
    /\ At(s, "leave.unenroll")
    /\ Unenroll(call[s].u)
    /\ Offer(s, "idle")
    /\ UNCHANGED <<requests, ledger, stripe, events, world>>

-----------------------------------------------------------------------------
(* releaseUncapturedSeatClaim: unless the student paid for the seminar by  *)
(* another charge, the seat is taken back and offered to the next in line. *)

Release(s, i, ret) ==
    call' = [call EXCEPT ![s].at = "release.paid", ![s].i = i,
                         ![s].u = stripe[i].u, ![s].ret = ret]

ReleasePaid(s) ==
    /\ At(s, "release.paid")
    /\ IF seminar.status # "active" \/ CompletedChargeOf(call[s].u)
       THEN EndOffer(s) ELSE Goto(s, "release.unenroll")
    /\ UNCHANGED <<seminar, requests, ledger, stripe, events, world>>

ReleaseUnenroll(s) ==
    /\ At(s, "release.unenroll")
    /\ Unenroll(call[s].u)
    /\ Goto(s, "offer.read")
    /\ UNCHANGED <<requests, ledger, stripe, events, world>>

-----------------------------------------------------------------------------
(* handleBookingPaymentIntentEvent *)

(* updateOne({ _id, status: 'pending' }, { status }) on a charge row. *)
MoveCharge(i, status) ==
    IF ledger[i].charge = "pending" THEN SetCharge(i, status)
    ELSE UNCHANGED ledger

(* payment_failed and canceled: the pending row fails, and the seat goes   *)
(* back, once for the row and once for the intent's metadata.              *)
FailedEvent(s, i) ==
    /\ At(s, "idle")
    /\ <<"failed", i>> \in events
    /\ events' = events \ {<<"failed", i>>}
    /\ IF ledger[i].charge = "pending"
       THEN call' = [call EXCEPT ![s].at = "failed.row", ![s].i = i,
                                 ![s].u = stripe[i].u]
       ELSE Release(s, i, "idle")
    /\ UNCHANGED <<seminar, requests, ledger, stripe, world>>

FailedRow(s) ==
    LET i == call[s].i IN
    /\ At(s, "failed.row")
    /\ MoveCharge(i, "failed")
    /\ Release(s, i, "failed.again")
    /\ UNCHANGED <<seminar, requests, stripe, events, world>>

FailedAgain(s) ==
    /\ At(s, "failed.again")
    /\ Release(s, call[s].i, "idle")
    /\ UNCHANGED <<seminar, requests, ledger, stripe, events, world>>

(* succeeded: settle the pending row, or book a delivered seat nobody      *)
(* booked; money for a seat not delivered is left to the sweep.            *)
SucceededEvent(s, i) ==
    /\ At(s, "idle")
    /\ <<"succeeded", i>> \in events
    /\ events' = events \ {<<"succeeded", i>>}
    /\ IF ledger[i].charge = "pending"
       THEN SetCharge(i, "completed") /\ UNCHANGED call
       ELSE /\ call' = [call EXCEPT ![s].at = "succeeded.recorded", ![s].i = i]
            /\ UNCHANGED ledger
    /\ UNCHANGED <<seminar, requests, stripe, world>>

SucceededRecorded(s) ==
    /\ At(s, "succeeded.recorded")
    /\ IF Recorded(call[s].i) THEN Finish(s) ELSE Goto(s, "succeeded.held")
    /\ UNCHANGED <<seminar, requests, ledger, stripe, events, world>>

(* An approved request names the intent, or the intent names a request     *)
(* that its payment can still claim.                                       *)
HeldByRequest(i) ==
    \/ \E r \in RowsOf("approved") \cup RowsOf("pending") : requests[r].i = i
    \/ /\ stripe[i].r # NoRequest
       /\ requests[stripe[i].r].status \in {"awaiting_payment", "approved"}

SucceededHeld(s) ==
    /\ At(s, "succeeded.held")
    /\ IF HeldByRequest(call[s].i) THEN Finish(s)
       ELSE Goto(s, "succeeded.delivered")
    /\ UNCHANGED <<seminar, requests, ledger, stripe, events, world>>

(* orphanIntentWasDelivered: the student is a participant. *)
Delivered(i) == stripe[i].u \in seminar.enrolled

SucceededDelivered(s) ==
    /\ At(s, "succeeded.delivered")
    /\ IF Delivered(call[s].i) THEN Goto(s, "succeeded.record") ELSE Finish(s)
    /\ UNCHANGED <<seminar, requests, ledger, stripe, events, world>>

RecordCharge(s) ==
    LET i == call[s].i IN
    /\ At(s, "succeeded.record")
    /\ IF Recorded(i) THEN UNCHANGED ledger ELSE SetCharge(i, "completed")
    /\ Finish(s)
    /\ UNCHANGED <<seminar, requests, stripe, events, world>>

-----------------------------------------------------------------------------
(* PENDING_PAYMENT_GRACE_MS and ORPHAN_INTENT_GRACE_MS: the sweeps look at *)
(* an intent an hour old.  A run that works on it was submitted late, and  *)
(* for the first sweep also has not touched the charge row yet.            *)
BeforeRow == {"register.full", "register.find", "register.join",
              "register.consumed", "register.probe", "register.count",
              "register.take", "register.lookup", "register.why",
              "register.owned", "register.whyFull", "register.whyFind"}
InRow == {"register.insert", "register.capture", "register.confirm",
          "register.record", "pay.read", "pay.consumed", "pay.probe",
          "pay.clearing", "pay.count", "pay.take", "pay.approve", "pay.insert"}

HourPasses(i, running) ==
    /\ \A s \in Slots : call[s].i = i =>
           "late" \in Calls /\ call[s].at \in running
    /\ stripe' = [stripe EXCEPT ![i].old = TRUE]

(* sweepPendingSeminarPayments, on one pending row: three questions to     *)
(* Stripe, one after the other, then resolvePendingPayment.                *)
SweepPending(s, i) ==
    /\ At(s, "idle")
    /\ "sweep" \in Calls
    /\ ledger[i].charge = "pending"
    /\ HourPasses(i, BeforeRow)
    /\ call' = [call EXCEPT ![s].at = "sweep.succeeded", ![s].i = i,
                            ![s].u = stripe[i].u]
    /\ UNCHANGED <<seminar, requests, ledger, events, world>>

SweepSucceeded(s) ==
    /\ At(s, "sweep.succeeded")
    /\ Goto(s, IF stripe[call[s].i].st = "succeeded" THEN "sweep.enrolled"
               ELSE "sweep.authorized")
    /\ UNCHANGED <<seminar, requests, ledger, stripe, events, world>>

SweepAuthorized(s) ==
    /\ At(s, "sweep.authorized")
    /\ Goto(s, IF stripe[call[s].i].st = "hold" THEN "sweep.cancel"
               ELSE "sweep.processing")
    /\ UNCHANGED <<seminar, requests, ledger, stripe, events, world>>

(* A wallet payment still clearing is waited for. *)
SweepProcessing(s) ==
    /\ At(s, "sweep.processing")
    /\ IF stripe[call[s].i].st = "processing" THEN Finish(s)
       ELSE Goto(s, "sweep.fail")
    /\ UNCHANGED <<seminar, requests, ledger, stripe, events, world>>

SweepEnrolled(s) ==
    /\ At(s, "sweep.enrolled")
    /\ Goto(s, IF Delivered(call[s].i) THEN "sweep.settle" ELSE "sweep.refund")
    /\ UNCHANGED <<seminar, requests, ledger, stripe, events, world>>

SweepSettle(s) ==
    /\ At(s, "sweep.settle")
    /\ MoveCharge(call[s].i, "completed")
    /\ Finish(s)
    /\ UNCHANGED <<seminar, requests, stripe, events, world>>

SweepFail(s) ==
    /\ At(s, "sweep.fail")
    /\ MoveCharge(call[s].i, "failed")
    /\ Finish(s)
    /\ UNCHANGED <<seminar, requests, stripe, events, world>>

(* row: this refund is new, not one found at Stripe (preExistingRefund). *)
SweepRefund(s) ==
    LET i == call[s].i IN
    /\ At(s, "sweep.refund")
    /\ Refund(i)
    /\ call' = [call EXCEPT ![s].at = "sweep.refunded",
                            ![s].row = ~stripe[i].refunded]
    /\ UNCHANGED <<seminar, requests, ledger, events, world>>

SweepRefunded(s) ==
    LET i == call[s].i IN
    /\ At(s, "sweep.refunded")
    /\ MoveCharge(i, "refunded")
    /\ IF ledger[i].charge = "pending" /\ call[s].row
       THEN Release(s, i, "idle") ELSE Finish(s)
    /\ UNCHANGED <<seminar, requests, stripe, events, world>>

SweepCancel(s) ==
    LET i == call[s].i IN
    /\ At(s, "sweep.cancel")
    /\ CancelHold(i)
    /\ IF stripe[i].st = "hold" THEN Goto(s, "sweep.released") ELSE Finish(s)
    /\ UNCHANGED <<seminar, requests, ledger, world>>

SweepReleased(s) ==
    LET i == call[s].i IN
    /\ At(s, "sweep.released")
    /\ MoveCharge(i, "failed")
    /\ IF ledger[i].charge = "pending" THEN Release(s, i, "idle")
       ELSE Finish(s)
    /\ UNCHANGED <<seminar, requests, stripe, events, world>>

(* Mutant of SweepRefused: the answer of the refund is not looked at. *)
MutSweepRefundAssumed(s) ==
    /\ At(s, "sweep.refund")
    /\ Fault("refund")
    /\ Goto(s, "sweep.refunded")
    /\ UNCHANGED <<seminar, requests, ledger, stripe, events>>

(* Stripe refuses the refund or the release; a later sweep tries again. *)
SweepRefused(s) ==
    /\ \/ At(s, "sweep.refund")
       \/ At(s, "sweep.cancel")
       \/ At(s, "orphan.cancel")
    /\ Fault("refund")
    /\ Finish(s)
    /\ UNCHANGED <<seminar, requests, ledger, stripe, events>>

(* Mutant of Orphan: holds are left to expire. *)
MutOrphanNotHeld(i) ==
    /\ stripe[i].st = "succeeded"
    /\ ~Recorded(i)
    /\ ledger[i].refunds = 0

(* sweepOrphanedBookingIntents, on one intent no ledger row names          *)
(* (resolveOrphanedIntent).                                                *)
Orphan(i) ==
    /\ stripe[i].st \in {"hold", "succeeded"}
    /\ ~Recorded(i)
    /\ ledger[i].refunds = 0

SweepOrphan(s, i) ==
    /\ At(s, "idle")
    /\ "sweep" \in Calls
    /\ Orphan(i)
    /\ HourPasses(i, BeforeRow \cup InRow)
    /\ call' = [call EXCEPT ![s].at = "orphan.held", ![s].i = i,
                            ![s].u = stripe[i].u, ![s].pays = FoundAs[stripe[i].st]]
    /\ UNCHANGED <<seminar, requests, ledger, events, world>>

OrphanHeld(s) ==
    LET i == call[s].i IN
    /\ At(s, "orphan.held")
    /\ IF \E r \in RowsOf("approved") \cup RowsOf("pending") : requests[r].i = i
       THEN Finish(s)
       ELSE Goto(s, IF call[s].pays = "held" THEN "orphan.cancel"
                    ELSE "orphan.delivered")
    /\ UNCHANGED <<seminar, requests, ledger, stripe, events, world>>

OrphanCancel(s) ==
    LET i == call[s].i IN
    /\ At(s, "orphan.cancel")
    /\ CancelHold(i)
    /\ IF stripe[i].st = "hold" THEN Release(s, i, "idle") ELSE Finish(s)
    /\ UNCHANGED <<seminar, requests, ledger, world>>

(* Mutant of OrphanDelivered: money for no seat is kept. *)
MutOrphanKeepsMoney(s) ==
    /\ At(s, "orphan.delivered")
    /\ IF Delivered(call[s].i) THEN Goto(s, "succeeded.record") ELSE Finish(s)
    /\ UNCHANGED <<seminar, requests, ledger, stripe, events, world>>

OrphanDelivered(s) ==
    /\ At(s, "orphan.delivered")
    /\ Goto(s, IF Delivered(call[s].i) THEN "succeeded.record" ELSE "refuse")
    /\ UNCHANGED <<seminar, requests, ledger, stripe, events, world>>

-----------------------------------------------------------------------------
(* The one backend container restarts: every run in flight is gone. *)
Crash ==
    /\ \E s \in Slots : ~At(s, "idle")
    /\ Fault("crash")
    /\ call' = [s \in Slots |-> Idle]
    /\ UNCHANGED <<seminar, requests, ledger, stripe, events>>

ReconcileStep(s) ==
    \/ LeaveFind(s) \/ LeaveRefund(s) \/ LeaveRefundFails(s) \/ LeaveRow(s)
    \/ LeaveBook(s) \/ LeaveUnenroll(s)
    \/ ReleasePaid(s) \/ ReleaseUnenroll(s)
    \/ FailedRow(s) \/ FailedAgain(s) \/ SucceededRecorded(s) \/ SucceededHeld(s)
    \/ SucceededDelivered(s) \/ RecordCharge(s)
    \/ SweepSucceeded(s) \/ SweepAuthorized(s) \/ SweepProcessing(s)
    \/ SweepEnrolled(s) \/ SweepSettle(s) \/ SweepFail(s) \/ SweepRefund(s)
    \/ SweepRefunded(s) \/ SweepCancel(s) \/ SweepReleased(s) \/ SweepRefused(s)
    \/ OrphanHeld(s) \/ OrphanCancel(s) \/ OrphanDelivered(s)

WebhookStep(s) ==
    \E i \in Intents : FailedEvent(s, i) \/ SucceededEvent(s, i)

SweepStep(s) ==
    \/ \E i \in Intents : SweepPending(s, i) \/ SweepOrphan(s, i)
    \/ \E r \in RequestIds : SweepOffer(s, r)
=============================================================================
