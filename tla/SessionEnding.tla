---------------------------- MODULE SessionEnding ----------------------------
(***************************************************************************)
(* Ending a 1:1 session: cancelIndividualAppointment, the sweeps that let  *)
(* requests and offers expire, the webhook events of an intent, and the    *)
(* sweeps that settle what a handler left behind.                          *)
(***************************************************************************)
EXTENDS SessionBooking

(* A canceller that may still put the session back to pending. *)
CancellingLabels ==
    {"cancel.parked", "cancel.payment", "cancel.release", "cancel.probe",
     "cancel.refund", "cancel.restore"}
CancelledLabels ==
    {"cancel.released", "cancel.row", "cancel.booked"}
HoldLabels ==
    {"hold.parked", "hold.close", "hold.clear", "hold.claim", "hold.release",
     "hold.probe", "hold.released", "hold.row", "hold.booked", "hold.stuck"}
EventLabels ==
    {"failed.row", "failed.withheld", "failed.session", "failed.again",
     "withheld.fail", "withheld.release", "succeeded.recorded",
     "succeeded.delivered", "succeeded.record", "release.read",
     "release.paid", "release.cancel"}
SweepLabels ==
    {"sweep.authorized", "sweep.processing", "sweep.enrolled", "sweep.settle",
     "sweep.fail", "sweep.cancel",
     "sweep.released", "stray.cancel", "stray.delivered", "stray.refund",
     "stray.row"}

-----------------------------------------------------------------------------
(* cancelIndividualAppointment: the session is claimed first and put back  *)
(* when its payment cannot be released or returned.                        *)

Cancel(s, g, who) ==
    /\ Calling(s, "cancel")
    /\ Incomplete(g) => "early cancel" \in Calls
    /\ session[g].st = "pending"
    /\ SetSession(g, "cancelled")
    /\ call' = [call EXCEPT ![s].at = "cancel.parked", ![s].g = g,
                            ![s].who = who]
    /\ UNCHANGED <<ledger, stripe, events>>

CancelParked(s) ==
    LET parked == Parked(call[s].g) IN
    /\ At(s, "cancel.parked")
    /\ IF parked = {} THEN Goto(s, "cancel.payment")
       ELSE \E i \in parked :
               call' = [call EXCEPT ![s].at = "cancel.payment", ![s].i = i,
                                    ![s].row = TRUE]
    /\ UNCHANGED <<session, ledger, stripe, events, world>>

(* Mutant of CancelPayment: a session without a charge has nothing to return. *)
MutCancelPayment(s) ==
    LET g == call[s].g
        paid == RowsOf(g, {"completed", "pending"})
        keep(j) == \/ session[g].by = "expert" /\ call[s].who = "expert"
                   \/ ledger[j].charge = "pending"
    IN  /\ At(s, "cancel.payment")
        /\ IF paid = {}
           THEN Finish(s)
           ELSE \E j \in paid :
              IF keep(j) THEN Goto(s, "cancel.restore")
              ELSE IF call[s].row THEN Goto(s, "cancel.release")
              ELSE IF ledger[j].refunds > 0 THEN Finish(s)
              ELSE call' = [call EXCEPT ![s].at = "cancel.refund", ![s].i = j]
        /\ UNCHANGED <<session, ledger, stripe, events, world>>

(* A paid offer cannot be withdrawn; a payment under way is waited for; a  *)
(* parked hold is released; a completed charge is refunded, unless it was. *)
CancelPayment(s) ==
    LET g == call[s].g
        paid == RowsOf(g, {"completed", "pending"})
        keep(j) == \/ session[g].by = "expert" /\ call[s].who = "expert"
                   \/ ledger[j].charge = "pending"
    IN  /\ At(s, "cancel.payment")
        /\ IF paid = {}
           THEN IF call[s].row THEN Goto(s, "cancel.release") ELSE Finish(s)
           ELSE \E j \in paid :
              IF keep(j) THEN Goto(s, "cancel.restore")
              ELSE IF call[s].row THEN Goto(s, "cancel.release")
              ELSE IF ledger[j].refunds > 0 THEN Finish(s)
              ELSE call' = [call EXCEPT ![s].at = "cancel.refund", ![s].i = j]
        /\ UNCHANGED <<session, ledger, stripe, events, world>>

(* releaseParkedHold *)
CancelRelease(s) ==
    LET i == call[s].i IN
    /\ At(s, "cancel.release")
    /\ CancelHold(i)
    /\ Goto(s, IF stripe[i].st = "hold" THEN "cancel.released"
               ELSE "cancel.probe")
    /\ UNCHANGED <<session, ledger, world>>

CancelReleaseFails(s) ==
    /\ At(s, "cancel.release")
    /\ Fault("refund")
    /\ Goto(s, "cancel.probe")
    /\ UNCHANGED <<session, ledger, stripe, events>>

CancelProbe(s) ==
    /\ At(s, "cancel.probe")
    /\ Goto(s, CASE stripe[call[s].i].st = "succeeded" -> "cancel.refund"
                 [] stripe[call[s].i].st = "hold"      -> "cancel.restore"
                 [] OTHER                              -> "cancel.released")
    /\ UNCHANGED <<session, ledger, stripe, events, world>>

CancelReleased(s) ==
    /\ At(s, "cancel.released")
    /\ SetCharge(call[s].i, "released")
    /\ Finish(s)
    /\ UNCHANGED <<session, stripe, events, world>>

(* The refund of a parked hold that turned out captured, or of a charge,   *)
(* with the policy that refunds it.                                        *)
CancelRefund(s) ==
    LET i == call[s].i IN
    /\ At(s, "cancel.refund")
    /\ IF CanRefund(i) THEN Refund(i) /\ Goto(s, "cancel.row")
       ELSE Goto(s, "cancel.restore") /\ UNCHANGED stripe
    /\ UNCHANGED <<session, ledger, events, world>>

CancelRefundFails(s) ==
    /\ At(s, "cancel.refund")
    /\ Fault("refund")
    /\ Goto(s, "cancel.restore")
    /\ UNCHANGED <<session, ledger, stripe, events>>

CancelRow(s) ==
    /\ At(s, "cancel.row")
    /\ AppendRefund(call[s].i)
    /\ Goto(s, "cancel.booked")
    /\ UNCHANGED <<session, stripe, events, world>>

CancelBooked(s) ==
    /\ At(s, "cancel.booked")
    /\ SetCharge(call[s].i, "refunded")
    /\ Finish(s)
    /\ UNCHANGED <<session, stripe, events, world>>

(* restorePending *)
CancelRestore(s) ==
    /\ At(s, "cancel.restore")
    /\ MoveSession(call[s].g, "cancelled", "pending")
    /\ Finish(s)
    /\ UNCHANGED <<ledger, stripe, events, world>>

-----------------------------------------------------------------------------
(* sweepExpiredSessionHolds, on one session it found due. *)

SweepHold(s, g) ==
    /\ At(s, "idle")
    /\ "sweep" \in Calls
    /\ session[g].st = "pending"
    /\ session[g].decide = "lapsed" \/ session[g].started
    /\ call' = [call EXCEPT ![s].at = "hold.parked", ![s].g = g,
                            ![s].window = session[g].payBy # "none"]
    /\ UNCHANGED <<session, ledger, stripe, events, world>>

(* Mutant of HoldParked: a session whose start has passed is kept as well. *)
MutHoldParked(s) ==
    LET g == call[s].g
        wallet == session[g].mode = "wallet"
        keep == IF wallet THEN call[s].window ELSE Advertised
    IN  /\ At(s, "hold.parked")
        /\ IF Parked(g) # {}
           THEN \E i \in Parked(g) :
                   call' = [call EXCEPT ![s].at = "hold.claim", ![s].i = i]
           ELSE Goto(s, IF keep THEN "hold.clear" ELSE "hold.close")
        /\ UNCHANGED <<session, ledger, stripe, events, world>>

(* Without a parked hold: a wallet session the student may still pay for   *)
(* keeps; a wallet or free request ends, and so does one whose start has   *)
(* passed; a card request that lost its hold waits.                        *)
HoldParked(s) ==
    LET g == call[s].g
        wallet == session[g].mode = "wallet"
        keep == /\ ~session[g].started
                /\ IF wallet THEN call[s].window ELSE Advertised
    IN  /\ At(s, "hold.parked")
        /\ IF Parked(g) # {}
           THEN \E i \in Parked(g) :
                   call' = [call EXCEPT ![s].at = "hold.claim", ![s].i = i]
           ELSE Goto(s, IF keep THEN "hold.clear" ELSE "hold.close")
        /\ UNCHANGED <<session, ledger, stripe, events, world>>

HoldClear(s) ==
    LET g == call[s].g IN
    /\ At(s, "hold.clear")
    /\ session' = [session EXCEPT ![g].decide =
                       IF session[g].st = "pending" THEN "none" ELSE @]
    /\ Finish(s)
    /\ UNCHANGED <<ledger, stripe, events, world>>

HoldClose(s) ==
    LET g == call[s].g IN
    /\ At(s, "hold.close")
    /\ session' = IF session[g].st # "pending" THEN session
                  ELSE [session EXCEPT ![g].st = "cancelled",
                                       ![g].decide = "none"]
    /\ Finish(s)
    /\ UNCHANGED <<ledger, stripe, events, world>>

(* Mutant of HoldClaim: the update does not look at the status. *)
MutHoldClaim(s) ==
    /\ At(s, "hold.claim")
    /\ SetSession(call[s].g, "cancelled")
    /\ Goto(s, "hold.release")
    /\ UNCHANGED <<ledger, stripe, events, world>>

HoldClaim(s) ==
    LET g == call[s].g IN
    /\ At(s, "hold.claim")
    /\ MoveSession(g, "pending", "cancelled")
    /\ IF session[g].st = "pending" THEN Goto(s, "hold.release")
       ELSE Finish(s)
    /\ UNCHANGED <<ledger, stripe, events, world>>

HoldRelease(s) ==
    LET i == call[s].i IN
    /\ At(s, "hold.release")
    /\ CancelHold(i)
    /\ Goto(s, IF stripe[i].st = "hold" THEN "hold.released" ELSE "hold.probe")
    /\ UNCHANGED <<session, ledger, world>>

HoldReleaseFails(s) ==
    /\ At(s, "hold.release")
    /\ Fault("refund")
    /\ Goto(s, "hold.probe")
    /\ UNCHANGED <<session, ledger, stripe, events>>

HoldProbe(s) ==
    LET i == call[s].i IN
    /\ At(s, "hold.probe")
    /\ IF CanRefund(i) THEN Refund(i) /\ Goto(s, "hold.row")
       ELSE /\ Goto(s, IF stripe[i].st = "hold" THEN "hold.stuck"
                       ELSE "hold.released")
            /\ UNCHANGED stripe
    /\ UNCHANGED <<session, ledger, events, world>>

HoldReleased(s) ==
    /\ At(s, "hold.released")
    /\ SetCharge(call[s].i, "released")
    /\ Finish(s)
    /\ UNCHANGED <<session, stripe, events, world>>

HoldRow(s) ==
    /\ At(s, "hold.row")
    /\ AppendRefund(call[s].i)
    /\ Goto(s, "hold.booked")
    /\ UNCHANGED <<session, stripe, events, world>>

HoldBooked(s) ==
    /\ At(s, "hold.booked")
    /\ SetCharge(call[s].i, "refunded")
    /\ Finish(s)
    /\ UNCHANGED <<session, stripe, events, world>>

(* ACTION REQUIRED: the row goes to the sweep of pending rows. *)
HoldStuck(s) ==
    /\ At(s, "hold.stuck")
    /\ SetCharge(call[s].i, "pending")
    /\ Finish(s)
    /\ UNCHANGED <<session, stripe, events, world>>

(* sweepExpiredWalletPayments, sweepExpiredProposedSessions: the offer     *)
(* ends with its window; nothing is asked about money.                     *)
SweepWindow(g) ==
    /\ "sweep" \in Calls
    /\ session[g].st = "pending"
    /\ session[g].payBy = "lapsed"
    /\ session[g].mode = "wallet" \/ session[g].by = "expert"
    /\ Close(g)
    /\ UNCHANGED <<ledger, stripe, events, call, world>>

-----------------------------------------------------------------------------
(* releaseUncapturedSeatClaim: a session whose charge was undone is        *)
(* cancelled, unless it is paid for by another charge.                     *)

Release(s, i, ret) ==
    call' = [call EXCEPT ![s].at = "release.read", ![s].i = i, ![s].ret = ret]

Released(s) ==
    IF call[s].ret = "idle" THEN Finish(s)
    ELSE call' = [call EXCEPT ![s].at = call[s].ret, ![s].ret = "idle"]

ReleaseRead(s) ==
    LET g == call[s].g IN
    /\ At(s, "release.read")
    /\ IF g # NoSession /\ session[g].st \in {"pending", "active"}
       THEN Goto(s, "release.paid") ELSE Released(s)
    /\ UNCHANGED <<session, ledger, stripe, events, world>>

ReleasePaid(s) ==
    /\ At(s, "release.paid")
    /\ IF RowsOf(call[s].g, {"completed", "withheld"}) # {} THEN Released(s)
       ELSE Goto(s, "release.cancel")
    /\ UNCHANGED <<session, ledger, stripe, events, world>>

(* updateOne({ _id }, { status: 'cancelled' }), whatever it is by now. *)
ReleaseCancel(s) ==
    LET g == call[s].g IN
    /\ At(s, "release.cancel")
    /\ IF Exists(g) THEN SetSession(g, "cancelled") ELSE UNCHANGED session
    /\ Released(s)
    /\ UNCHANGED <<ledger, stripe, events, world>>

-----------------------------------------------------------------------------
(* handleBookingPaymentIntentEvent: payment_failed and canceled fail the   *)
(* pending row and release the session, do the same for a withheld row,    *)
(* and release the session in the metadata once more.                      *)

FailedEvent(s, i) ==
    /\ At(s, "idle")
    /\ \E kind \in {"failed", "canceled"} :
          /\ <<kind, i>> \in events
          /\ events' = events \ {<<kind, i>>}
          /\ call' = [call EXCEPT ![s].i = i, ![s].g = ledger[i].g,
                 ![s].row = kind = "canceled",
                 ![s].at = IF ledger[i].charge = "pending" THEN "failed.row"
                           ELSE "failed.withheld"]
    /\ UNCHANGED <<session, ledger, stripe, world>>

FailedRow(s) ==
    LET i == call[s].i IN
    /\ At(s, "failed.row")
    /\ MoveCharge(i, "pending", "failed")
    /\ Release(s, i, "failed.withheld")
    /\ UNCHANGED <<session, stripe, events, world>>

FailedWithheld(s) ==
    LET i == call[s].i IN
    /\ At(s, "failed.withheld")
    /\ IF ledger[i].charge = "withheld"
       THEN call' = [call EXCEPT ![s].g = ledger[i].g, ![s].at =
                IF call[s].row THEN "withheld.release" ELSE "withheld.fail"]
       ELSE Goto(s, "failed.again")
    /\ UNCHANGED <<session, ledger, stripe, events, world>>

WithheldRow(s) ==
    /\ At(s, "withheld.release") \/ At(s, "withheld.fail")
    /\ MoveCharge(call[s].i, "withheld",
                  IF At(s, "withheld.release") THEN "released" ELSE "failed")
    /\ Goto(s, "failed.session")
    /\ UNCHANGED <<session, stripe, events, world>>

FailedSession(s) ==
    LET g == call[s].g IN
    /\ At(s, "failed.session")
    /\ session' = IF session[g].st # "pending" THEN session
                  ELSE [session EXCEPT ![g].st = "cancelled",
                                       ![g].decide = "none"]
    /\ Goto(s, "failed.again")
    /\ UNCHANGED <<ledger, stripe, events, world>>

FailedAgain(s) ==
    LET i == call[s].i IN
    /\ At(s, "failed.again")
    /\ IF stripe[i].g = NoSession THEN Finish(s)
       ELSE call' = [call EXCEPT ![s].at = "release.read",
                        ![s].g = stripe[i].g, ![s].ret = "idle"]
    /\ UNCHANGED <<session, ledger, stripe, events, world>>

(* succeeded: settle the pending row, or book a delivered session nobody   *)
(* booked; money for one not delivered is left to the sweep.               *)
SucceededEvent(s, i) ==
    /\ At(s, "idle")
    /\ <<"succeeded", i>> \in events
    /\ events' = events \ {<<"succeeded", i>>}
    /\ IF ledger[i].charge = "pending"
       THEN SetCharge(i, "completed") /\ UNCHANGED call
       ELSE /\ call' = [call EXCEPT ![s].at = "succeeded.recorded", ![s].i = i]
            /\ UNCHANGED ledger
    /\ UNCHANGED <<session, stripe, world>>

SucceededRecorded(s) ==
    /\ At(s, "succeeded.recorded")
    /\ IF Recorded(call[s].i) THEN Finish(s) ELSE Goto(s, "succeeded.delivered")
    /\ UNCHANGED <<session, ledger, stripe, events, world>>

(* orphanIntentWasDelivered: the session of the intent is active; for the  *)
(* intent of a request, some session of the student and expert is not      *)
(* cancelled.                                                              *)
Delivered(i) ==
    IF stripe[i].g # NoSession THEN session[stripe[i].g].st = "active"
    ELSE \E g \in Sessions : /\ session[g].by = "student"
                             /\ session[g].st \in {"pending", "active"}

SucceededDelivered(s) ==
    /\ At(s, "succeeded.delivered")
    /\ IF Delivered(call[s].i) THEN Goto(s, "succeeded.record") ELSE Finish(s)
    /\ UNCHANGED <<session, ledger, stripe, events, world>>

RecordCharge(s) ==
    LET i == call[s].i IN
    /\ At(s, "succeeded.record")
    /\ IF Recorded(i) THEN UNCHANGED ledger
       ELSE InsertCharge(i, stripe[i].g, "completed")
    /\ Finish(s)
    /\ UNCHANGED <<session, stripe, events, world>>

-----------------------------------------------------------------------------
(* PENDING_PAYMENT_GRACE_MS, ORPHAN_INTENT_GRACE_MS: the sweeps look at an *)
(* intent an hour old; a run that works on it was submitted late.          *)
HourPasses(i, running) ==
    /\ \A s \in Slots : call[s].i = i =>
           "late" \in Calls /\ call[s].at \in running
    /\ stripe' = [stripe EXCEPT ![i].old = TRUE]

BeforeRow == {"request.consumed", "request.probe", "request.create",
              "accept.paid", "accept.consumed", "accept.probe",
              "accept.activate"}
InRow == {"request.park", "accept.insert", "accept.append"}

(* sweepPendingSeminarPayments takes the rows of 1:1 sessions too. *)
SweepPending(s, i) ==
    /\ At(s, "idle")
    /\ "settle" \in Calls
    /\ ledger[i].charge = "pending"
    /\ HourPasses(i, BeforeRow)
    /\ call' = [call EXCEPT ![s].i = i, ![s].g = ledger[i].g, ![s].at =
           IF stripe[i].st = "succeeded" THEN "sweep.enrolled"
           ELSE "sweep.authorized"]
    /\ UNCHANGED <<session, ledger, events, world>>

SweepAuthorized(s) ==
    /\ At(s, "sweep.authorized")
    /\ Goto(s, IF stripe[call[s].i].st = "hold" THEN "sweep.cancel"
               ELSE "sweep.processing")
    /\ UNCHANGED <<session, ledger, stripe, events, world>>

SweepProcessing(s) ==
    /\ At(s, "sweep.processing")
    /\ IF stripe[call[s].i].st = "processing" THEN Finish(s)
       ELSE Goto(s, "sweep.fail")
    /\ UNCHANGED <<session, ledger, stripe, events, world>>

(* The student stays a participant, so money that arrived is kept. *)
SweepEnrolled(s) ==
    /\ At(s, "sweep.enrolled")
    /\ Goto(s, "sweep.settle")
    /\ UNCHANGED <<session, ledger, stripe, events, world>>

SweepSettle(s) ==
    /\ At(s, "sweep.settle") \/ At(s, "sweep.fail")
    /\ MoveCharge(call[s].i, "pending",
                  IF At(s, "sweep.settle") THEN "completed" ELSE "failed")
    /\ Finish(s)
    /\ UNCHANGED <<session, stripe, events, world>>

SweepCancel(s) ==
    LET i == call[s].i IN
    /\ At(s, "sweep.cancel")
    /\ CancelHold(i)
    /\ IF stripe[i].st = "hold"
       THEN Goto(s, "sweep.released") ELSE Finish(s)
    /\ UNCHANGED <<session, ledger, world>>

SweepReleased(s) ==
    LET i == call[s].i IN
    /\ At(s, "sweep.released")
    /\ MoveCharge(i, "pending", "failed")
    /\ IF ledger[i].charge = "pending"
       THEN Release(s, i, "idle") ELSE Finish(s)
    /\ UNCHANGED <<session, stripe, events, world>>

(* Stripe refuses the refund or the release; a later sweep tries again. *)
SweepRefused(s) ==
    /\ call[s].at \in {"sweep.cancel", "stray.refund", "stray.cancel"}
    /\ Fault("refund")
    /\ Finish(s)
    /\ UNCHANGED <<session, ledger, stripe, events>>

-----------------------------------------------------------------------------
(* sweepOrphanedBookingIntents, on one intent no ledger row names. *)

(* Mutant of Stray: the sweep looks for holds only. *)
MutStray(i) ==
    /\ stripe[i].st = "hold"
    /\ ~Recorded(i)
    /\ ledger[i].refunds = 0

Stray(i) ==
    /\ stripe[i].st \in {"hold", "succeeded"}
    /\ ~Recorded(i)
    /\ ledger[i].refunds = 0

SweepStray(s, i) ==
    /\ At(s, "idle")
    /\ "settle" \in Calls
    /\ Stray(i)
    /\ HourPasses(i, BeforeRow \cup InRow)
    /\ call' = [call EXCEPT ![s].i = i, ![s].g = stripe[i].g, ![s].at =
           IF stripe[i].st = "hold" THEN "stray.cancel" ELSE "stray.delivered"]
    /\ UNCHANGED <<session, ledger, events, world>>

StrayCancel(s) ==
    LET i == call[s].i IN
    /\ At(s, "stray.cancel")
    /\ CancelHold(i)
    /\ IF stripe[i].st = "hold" THEN Release(s, i, "idle") ELSE Finish(s)
    /\ UNCHANGED <<session, ledger, world>>

StrayDelivered(s) ==
    /\ At(s, "stray.delivered")
    /\ Goto(s, IF Delivered(call[s].i) THEN "succeeded.record"
               ELSE "stray.refund")
    /\ UNCHANGED <<session, ledger, stripe, events, world>>

StrayRefund(s) ==
    /\ At(s, "stray.refund")
    /\ Refund(call[s].i)
    /\ Goto(s, "stray.row")
    /\ UNCHANGED <<session, ledger, events, world>>

StrayRow(s) ==
    /\ At(s, "stray.row")
    /\ AppendRefund(call[s].i)
    /\ Finish(s)
    /\ UNCHANGED <<session, stripe, events, world>>

-----------------------------------------------------------------------------
EndingCall(s) ==
    \E g \in Sessions, who \in {"student", "expert"} : Cancel(s, g, who)

EndingStep(s) ==
    \/ CancelParked(s) \/ CancelPayment(s) \/ CancelRelease(s)
    \/ CancelReleaseFails(s) \/ CancelProbe(s) \/ CancelReleased(s)
    \/ CancelRefund(s) \/ CancelRefundFails(s) \/ CancelRow(s)
    \/ CancelBooked(s) \/ CancelRestore(s)
    \/ HoldParked(s) \/ HoldClear(s) \/ HoldClose(s) \/ HoldClaim(s)
    \/ HoldRelease(s) \/ HoldReleaseFails(s) \/ HoldProbe(s)
    \/ HoldReleased(s) \/ HoldRow(s) \/ HoldBooked(s) \/ HoldStuck(s)
    \/ ReleaseRead(s) \/ ReleasePaid(s) \/ ReleaseCancel(s)
    \/ FailedRow(s) \/ FailedWithheld(s) \/ WithheldRow(s) \/ FailedSession(s)
    \/ FailedAgain(s) \/ SucceededRecorded(s) \/ SucceededDelivered(s)
    \/ RecordCharge(s) \/ SweepAuthorized(s) \/ SweepProcessing(s)
    \/ SweepEnrolled(s) \/ SweepSettle(s) \/ SweepCancel(s)
    \/ SweepReleased(s) \/ SweepRefused(s)
    \/ StrayCancel(s) \/ StrayDelivered(s) \/ StrayRefund(s) \/ StrayRow(s)

WebhookStep(s) ==
    \E i \in Intents : FailedEvent(s, i) \/ SucceededEvent(s, i)

SweepStep(s) ==
    \/ \E i \in Intents : SweepPending(s, i) \/ SweepStray(s, i)
    \/ \E g \in Sessions : SweepHold(s, g)

-----------------------------------------------------------------------------
(* Time, and restarts of the backend. *)

DecisionLapses(g) ==
    /\ "lapse" \in Calls
    /\ session[g].decide = "set"
    /\ session' = [session EXCEPT ![g].decide = "lapsed"]
    /\ UNCHANGED <<ledger, stripe, events, call, world>>

WindowLapses(g) ==
    /\ "lapse" \in Calls
    /\ session[g].payBy = "set"
    /\ session' = [session EXCEPT ![g].payBy = "lapsed"]
    /\ UNCHANGED <<ledger, stripe, events, call, world>>

(* Neither deadline runs past the start.  assertBookingLeadTime: a request *)
(* is made a day ahead, so its handler is done long before.                *)
SessionStarts(g) ==
    /\ "start" \in Calls
    /\ Exists(g)
    /\ ~Incomplete(g)
    /\ ~session[g].started
    /\ session' = [session EXCEPT ![g].started = TRUE,
          ![g].decide = IF @ = "set" THEN "lapsed" ELSE @,
          ![g].payBy = IF @ = "set" THEN "lapsed" ELSE @]
    /\ UNCHANGED <<ledger, stripe, events, call, world>>

Time == \E g \in Sessions :
    DecisionLapses(g) \/ WindowLapses(g) \/ SessionStarts(g) \/ SweepWindow(g)

Crash ==
    /\ Fault("crash")
    /\ \E s \in Slots : ~At(s, "idle")
    /\ call' = [s \in Slots |-> Idle]
    /\ UNCHANGED <<session, ledger, stripe, events>>
=============================================================================
