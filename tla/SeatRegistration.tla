-------------------------- MODULE SeatRegistration ---------------------------
(***************************************************************************)
(* Buying a seat: the checkout a student completes at Stripe,              *)
(* registerForSeminar, which claims the seat before it captures the hold,  *)
(* and paySeminarSeatRequest, which turns an offered seat into a paid one. *)
(***************************************************************************)
EXTENDS SeatWaitlist

(* Where a registration is before it needs an intent (a free seminar needs *)
(* none) and when it has one, where a payment of an offer is, and where    *)
(* either is when it gives the money back.                                 *)
ClaimLabels ==
    {"register.full", "register.find", "register.join", "register.consumed",
     "register.count", "register.take", "register.why", "register.whyFull",
     "register.whyFind", "register.whyJoin", "register.confirm"}
CaptureLabels ==
    {"register.probe", "register.owned", "register.whyCancel",
     "register.lookup", "register.insert", "register.abort", "register.dup",
     "register.capture", "register.capFail", "register.capCancel",
     "register.capDelete", "register.record", "register.settle",
     "register.paid"}
PayLabels ==
    {"pay.read", "pay.consumed", "pay.probe", "pay.clearing", "pay.count",
     "pay.take", "pay.expire", "pay.approve", "pay.lost", "pay.insert",
     "pay.dup", "pay.reopen", "pay.confirm", "pay.refund", "pay.refunded",
     "pay.kept", "pay.fail"}
RefuseLabels == {"refuse", "refuse.row", "orphan.recorded"}

(* Label where a run gives the student's money back and fails. *)
Refuse(s) == IF call[s].pays = "none" THEN Finish(s) ELSE Goto(s, "refuse")

-----------------------------------------------------------------------------
(* Checkout: createStripePaymentIntent, then the payment page.  An intent  *)
(* for the seminar (r = NoRequest) or for an offered seat r.  A card is    *)
(* held, a wallet clears at once or later; an offer is charged, not held.  *)
(* A student goes through checkout again only if "again" is in Calls, and  *)
(* not while a submission of theirs is under way.  A card gets an          *)
(* authorization though the seminar is full, a wallet does not.            *)

CheckoutAllowed(u, r, st) ==
    IF r = NoRequest
    THEN /\ seminar.status = "active" /\ ~seminar.started
         /\ u \notin seminar.enrolled
         /\ st = "hold" \/ ~IsFull(seminar.enrolled, seminar.cap, SoftHeld(NoOne))
    ELSE /\ requests[r].status = "awaiting_payment"
         /\ requests[r].u = u
         /\ ~requests[r].lapsed

Checkout(u, i, r, st) ==
    /\ Paid
    /\ stripe[i].st = "none"
    /\ CheckoutAllowed(u, r, st)
    /\ (\E j \in Intents : stripe[j].u = u) =>
           "again" \in Calls /\ \A s \in Slots : call[s].u # u
    /\ st \in Outcomes
    /\ r # NoRequest => st # "hold"
    /\ stripe' = [stripe EXCEPT ![i] =
                     [st |-> st, u |-> u, r |-> r, refunded |-> FALSE,
                      sent |-> FALSE, old |-> FALSE]]
    /\ events' = IF st = "succeeded" THEN events \cup {<<"succeeded", i>>}
                 ELSE events
    /\ UNCHANGED <<seminar, requests, ledger, call, world>>

(* The card was declined once before it was accepted on the same intent. *)
DeclinedFirst(i) ==
    /\ stripe[i].st = "hold"
    /\ Fault("decline")
    /\ events' = events \cup {<<"failed", i>>}
    /\ UNCHANGED <<seminar, requests, ledger, stripe, call>>

WalletClears(i) ==
    /\ stripe[i].st = "processing"
    /\ SetIntent(i, "succeeded")
    /\ events' = events \cup {<<"succeeded", i>>}
    /\ UNCHANGED <<seminar, requests, ledger, call, world>>

WalletFails(i) ==
    /\ stripe[i].st = "processing"
    /\ Fault("wallet")
    /\ SetIntent(i, "failed")
    /\ events' = events \cup {<<"failed", i>>}
    /\ UNCHANGED <<seminar, requests, ledger, call>>

-----------------------------------------------------------------------------
(* refundAndFail: release a hold, refund money already taken. *)

RefuseStep(s) ==
    LET i == call[s].i IN
    /\ At(s, "refuse")
    /\ IF call[s].pays = "held"
       THEN CancelHold(i) /\ Finish(s)
       ELSE /\ UNCHANGED events
            /\ IF CanRefund(i) THEN Refund(i) /\ Goto(s, "refuse.row")
               ELSE Finish(s) /\ UNCHANGED stripe
    /\ UNCHANGED <<seminar, requests, ledger, world>>

(* Stripe refuses the cancel or the refund; the handler only logs it. *)
RefuseFails(s) ==
    /\ At(s, "refuse")
    /\ Fault("refund")
    /\ Finish(s)
    /\ UNCHANGED <<seminar, requests, ledger, stripe, events>>

RefuseRow(s) ==
    /\ At(s, "refuse.row")
    /\ AppendRefund(call[s].i)
    /\ Finish(s)
    /\ UNCHANGED <<seminar, requests, stripe, events, world>>

(* releaseOrphanBookingIntent: the seminar is gone. *)
OrphanRecorded(s) ==
    /\ At(s, "orphan.recorded")
    /\ IF Recorded(call[s].i) THEN Finish(s)
       ELSE call' = [call EXCEPT ![s].at = "refuse", ![s].pays =
                IF stripe[call[s].i].st = "hold" THEN "held" ELSE "settled"]
    /\ UNCHANGED <<seminar, requests, ledger, stripe, events, world>>

-----------------------------------------------------------------------------
(* registerForSeminar *)

Register(s, u, i) ==
    /\ Calling(s, "register")
    /\ i # NoIntent => stripe[i].u = u /\ Submittable(i)
    /\ i = NoIntent \/ Paid
    /\ IF seminar.status # "active"
       THEN IF i = NoIntent THEN UNCHANGED call
            ELSE call' = [call EXCEPT ![s].at = "orphan.recorded", ![s].i = i]
       ELSE call' = [call EXCEPT ![s].at = "register.full",
                ![s].u = u, ![s].i = i,
                ![s].seen = seminar.enrolled, ![s].cap = seminar.cap]
    /\ IF i = NoIntent THEN UNCHANGED stripe ELSE Submitted(i)
    /\ UNCHANGED <<seminar, requests, ledger, events>>

Checkin == IF Paid THEN "register.consumed" ELSE "register.count"

RegisterFull(s) ==
    /\ At(s, "register.full")
    /\ IF /\ IsFull(call[s].seen, call[s].cap, SoftHeld(NoOne))
          /\ call[s].u \notin call[s].seen
          /\ ~seminar.started
       THEN Goto(s, "register.find") ELSE Goto(s, Checkin)
    /\ UNCHANGED <<seminar, requests, ledger, stripe, events, world>>

RegisterFind(s) ==
    /\ At(s, "register.find")
    /\ Goto(s, IF OpenRequest(call[s].u) THEN Checkin ELSE "register.join")
    /\ UNCHANGED <<seminar, requests, ledger, stripe, events, world>>

RegisterJoin(s) ==
    LET u == call[s].u IN
    /\ At(s, "register.join")
    /\ IF Indexed(u, "pending") THEN Goto(s, Checkin) /\ UNCHANGED requests
       ELSE /\ \E r \in NextRequest : InsertRequest(r, u, "pending")
            /\ Finish(s)
    /\ UNCHANGED <<seminar, ledger, stripe, events, world>>

(* paymentIntentAlreadyConsumed, resumable for this student's pending row. *)
RegisterConsumed(s) ==
    LET i == call[s].i IN
    /\ At(s, "register.consumed")
    /\ IF i = NoIntent THEN Finish(s)
       ELSE IF ledger[i].charge \in {"none", "pending"}
            THEN Goto(s, "register.probe") ELSE Finish(s)
    /\ UNCHANGED <<seminar, requests, ledger, stripe, events, world>>

(* resolveBookingPayment *)
FoundAs ==
    [hold |-> "held", processing |-> "settling", succeeded |-> "settled"]

RegisterProbe(s) ==
    LET st == stripe[call[s].i].st IN
    /\ At(s, "register.probe")
    /\ IF st \in {"hold", "processing", "succeeded"}
       THEN call' = [call EXCEPT ![s].at = "register.count",
                                 ![s].pays = FoundAs[st]]
       ELSE Finish(s)
    /\ UNCHANGED <<seminar, requests, ledger, stripe, events, world>>

RegisterCount(s) ==
    /\ At(s, "register.count")
    /\ IF seminar.started THEN Refuse(s)
       ELSE CountForClaim(s, NoOne, "register.take", "register.why")
    /\ UNCHANGED <<seminar, requests, ledger, stripe, events, world>>

RegisterTake(s) ==
    LET u == call[s].u IN
    /\ At(s, "register.take")
    /\ IF SeatFree(s, u)
       THEN /\ AddStudent(u)
            /\ Goto(s, IF Paid THEN "register.lookup" ELSE "register.confirm")
       ELSE Goto(s, "register.why") /\ UNCHANGED seminar
    /\ UNCHANGED <<requests, ledger, stripe, events, world>>

(* The claim failed: read the seminar again to learn why. *)
RegisterWhy(s) ==
    /\ At(s, "register.why")
    /\ IF seminar.status # "active" THEN Refuse(s)
       ELSE IF call[s].u \in seminar.enrolled
       THEN IF call[s].pays = "held" THEN Goto(s, "register.owned") ELSE Refuse(s)
       ELSE call' = [call EXCEPT ![s].at = "register.whyFull",
                ![s].seen = seminar.enrolled, ![s].cap = seminar.cap]
    /\ UNCHANGED <<seminar, requests, ledger, stripe, events, world>>

(* Already enrolled: by this very hold, when it has a charge row. *)
RegisterOwned(s) ==
    /\ At(s, "register.owned")
    /\ IF Recorded(call[s].i) THEN Finish(s) ELSE Refuse(s)
    /\ UNCHANGED <<seminar, requests, ledger, stripe, events, world>>

RegisterWhyFull(s) ==
    /\ At(s, "register.whyFull")
    /\ IF /\ IsFull(call[s].seen, call[s].cap, SoftHeld(NoOne))
          /\ ~seminar.started
       THEN Goto(s, "register.whyFind") ELSE Refuse(s)
    /\ UNCHANGED <<seminar, requests, ledger, stripe, events, world>>

RegisterWhyFind(s) ==
    /\ At(s, "register.whyFind")
    /\ IF OpenRequest(call[s].u) THEN Refuse(s)
       ELSE Goto(s, IF call[s].pays = "held" THEN "register.whyCancel"
                    ELSE "register.whyJoin")
    /\ UNCHANGED <<seminar, requests, ledger, stripe, events, world>>

RegisterWhyCancel(s) ==
    /\ At(s, "register.whyCancel")
    /\ CancelHold(call[s].i)
    /\ Goto(s, "register.whyJoin")
    /\ UNCHANGED <<seminar, requests, ledger, world>>

(* On the waitlist instead; money a wallet already paid is not returned. *)
RegisterWhyJoin(s) ==
    LET u == call[s].u IN
    /\ At(s, "register.whyJoin")
    /\ IF Indexed(u, "pending") THEN Refuse(s) /\ UNCHANGED requests
       ELSE /\ \E r \in NextRequest : InsertRequest(r, u, "pending")
            /\ Finish(s)
    /\ UNCHANGED <<seminar, ledger, stripe, events, world>>

(* The seat is claimed; look for a pending charge row to resume. *)
RegisterLookup(s) ==
    LET known == ledger[call[s].i].charge = "pending" IN
    /\ At(s, "register.lookup")
    /\ call' = [call EXCEPT ![s].row = known, ![s].at =
           IF call[s].pays # "held" THEN "register.confirm"
           ELSE IF known THEN "register.capture" ELSE "register.insert"]
    /\ UNCHANGED <<seminar, requests, ledger, stripe, events, world>>

(* Mutant of RegisterInsert: capture first, book the charge afterwards. *)
MutCaptureUnrecorded(s) ==
    /\ At(s, "register.insert")
    /\ Goto(s, "register.capture")
    /\ UNCHANGED <<seminar, requests, ledger, stripe, events, world>>

(* The charge row is written before the hold is captured. *)
RegisterInsert(s) ==
    LET i == call[s].i IN
    /\ At(s, "register.insert")
    /\ IF Recorded(i) THEN Goto(s, "register.dup") /\ UNCHANGED ledger
       ELSE /\ SetCharge(i, "pending")
            /\ call' = [call EXCEPT ![s].at = "register.capture",
                                    ![s].row = TRUE]
    /\ UNCHANGED <<seminar, requests, stripe, events, world>>

(* The row cannot be read or written: nothing was captured, undo. *)
RegisterInsertFails(s) ==
    /\ At(s, "register.insert")
    /\ Fault("insert")
    /\ Goto(s, "register.abort")
    /\ UNCHANGED <<seminar, requests, ledger, stripe, events>>

RegisterAbort(s) ==
    /\ At(s, "register.abort")
    /\ Unenroll(call[s].u)
    /\ Goto(s, "refuse")
    /\ UNCHANGED <<requests, ledger, stripe, events, world>>

RegisterDup(s) ==
    /\ At(s, "register.dup")
    /\ Unenroll(call[s].u)
    /\ Finish(s)
    /\ UNCHANGED <<requests, ledger, stripe, events, world>>

(* capturePaymentIntent, or the intent turns out to be captured already. *)
RegisterCapture(s) ==
    LET i == call[s].i IN
    /\ At(s, "register.capture")
    /\ IF CanCapture(i) THEN Capture(i) ELSE UNCHANGED <<stripe, events>>
    /\ IF CanCapture(i) \/ stripe[i].st = "succeeded"
       THEN call' = [call EXCEPT ![s].at = "register.confirm",
                                 ![s].pays = "settled"]
       ELSE Goto(s, "register.capFail")
    /\ UNCHANGED <<seminar, requests, ledger, world>>

RegisterCaptureFails(s) ==
    /\ At(s, "register.capture")
    /\ Fault("capture")
    /\ Goto(s, "register.capFail")
    /\ UNCHANGED <<seminar, requests, ledger, stripe, events>>

(* Captured, but neither the answer nor the question after it arrives. *)
RegisterCaptureLost(s) ==
    LET i == call[s].i IN
    /\ At(s, "register.capture")
    /\ Fault("lost")
    /\ CanCapture(i)
    /\ Capture(i)
    /\ Goto(s, "register.capFail")
    /\ UNCHANGED <<seminar, requests, ledger>>

RegisterCapFail(s) ==
    /\ At(s, "register.capFail")
    /\ Unenroll(call[s].u)
    /\ Goto(s, "register.capCancel")
    /\ UNCHANGED <<requests, ledger, stripe, events, world>>

(* Only a hold that could be cancelled loses its charge row; otherwise the *)
(* row stays pending for the sweep.                                        *)
RegisterCapCancel(s) ==
    LET i == call[s].i IN
    /\ At(s, "register.capCancel")
    /\ CancelHold(i)
    /\ IF stripe[i].st = "hold" THEN Goto(s, "register.capDelete")
       ELSE Finish(s)
    /\ UNCHANGED <<seminar, requests, ledger, world>>

(* Stripe refuses to release the hold: the row stays, respectively the     *)
(* student joins the waitlist all the same.                                *)
RegisterCancelFails(s) ==
    /\ Fault("refund")
    /\ \/ At(s, "register.capCancel") /\ Finish(s)
       \/ At(s, "register.whyCancel") /\ Goto(s, "register.whyJoin")
    /\ UNCHANGED <<seminar, requests, ledger, stripe, events>>

RegisterCapDelete(s) ==
    /\ At(s, "register.capDelete")
    /\ SetCharge(call[s].i, "none")
    /\ Finish(s)
    /\ UNCHANGED <<seminar, requests, stripe, events, world>>

(* enrollAndConfirmSeminar adds the student whether or not the claim is    *)
(* still there, and books a charge nobody has booked yet.                  *)
RegisterConfirm(s) ==
    /\ At(s, "register.confirm")
    /\ AddStudent(call[s].u)
    /\ IF ~Paid THEN Finish(s)
       ELSE Goto(s, IF call[s].row THEN "register.settle" ELSE "register.record")
    /\ UNCHANGED <<requests, ledger, stripe, events, world>>

RegisterRecord(s) ==
    LET i == call[s].i IN
    /\ At(s, "register.record")
    /\ IF Recorded(i) THEN UNCHANGED ledger
       ELSE SetCharge(i, IF call[s].pays = "settling" THEN "pending"
                         ELSE "completed")
    /\ Finish(s)
    /\ UNCHANGED <<seminar, requests, stripe, events, world>>

RegisterSettle(s) ==
    LET i == call[s].i IN
    /\ At(s, "register.settle")
    /\ IF Recorded(i) THEN SetCharge(i, "completed") ELSE UNCHANGED ledger
    /\ Finish(s)
    /\ UNCHANGED <<seminar, requests, stripe, events, world>>

(* Mutant of RegisterConfirmFails: the money goes back, the seat does not. *)
MutFailureKeepsSeat(s) ==
    /\ At(s, "register.confirm")
    /\ Fault("enroll")
    /\ IF call[s].row THEN Goto(s, "register.paid") ELSE Refuse(s)
    /\ UNCHANGED <<seminar, requests, ledger, stripe, events>>

(* enrollAndConfirmSeminar throws: give the seat back, then the money. *)
RegisterConfirmFails(s) ==
    /\ At(s, "register.confirm")
    /\ Fault("enroll")
    /\ Unenroll(call[s].u)
    /\ IF call[s].row THEN Goto(s, "register.paid") ELSE Refuse(s)
    /\ UNCHANGED <<requests, ledger, stripe, events>>

(* Mutant of RegisterPaid: no refund is made. *)
MutNoRefund(s) ==
    /\ At(s, "register.paid")
    /\ SetCharge(call[s].i, "completed")
    /\ Finish(s)
    /\ UNCHANGED <<seminar, requests, stripe, events, world>>

RegisterPaid(s) ==
    LET i == call[s].i IN
    /\ At(s, "register.paid")
    /\ IF Recorded(i) THEN SetCharge(i, "completed") ELSE UNCHANGED ledger
    /\ Goto(s, "refuse")
    /\ UNCHANGED <<seminar, requests, stripe, events, world>>

-----------------------------------------------------------------------------
(* paySeminarSeatRequest *)

Pay(s, u, i, r) ==
    /\ Calling(s, "pay")
    /\ stripe[i].u = u /\ Submittable(i)
    /\ requests[r].status = "awaiting_payment"
    /\ requests[r].u = u
    /\ ~requests[r].lapsed
    /\ call' = [call EXCEPT ![s].at = "pay.read", ![s].u = u, ![s].i = i,
                            ![s].r = r]
    /\ Submitted(i)
    /\ UNCHANGED <<seminar, requests, ledger, events>>

PayRead(s) ==
    /\ At(s, "pay.read")
    /\ IF seminar.status # "active" THEN Finish(s)
       ELSE call' = [call EXCEPT ![s].at = "pay.consumed",
                ![s].seen = seminar.enrolled, ![s].cap = seminar.cap]
    /\ UNCHANGED <<seminar, requests, ledger, stripe, events, world>>

PayConsumed(s) ==
    /\ At(s, "pay.consumed")
    /\ IF Recorded(call[s].i) THEN Finish(s) ELSE Goto(s, "pay.probe")
    /\ UNCHANGED <<seminar, requests, ledger, stripe, events, world>>

(* The intent was made for this very request, and the seminar as read is   *)
(* open to the student.                                                    *)
PayFound(s, pays) ==
    IF stripe[call[s].i].r # call[s].r THEN Finish(s)
    ELSE call' = [call EXCEPT ![s].pays = pays, ![s].at =
             IF seminar.started \/ call[s].u \in call[s].seen
             THEN "refuse" ELSE "pay.count"]

(* Is the intent paid, or else still clearing? *)
PayProbe(s) ==
    /\ At(s, "pay.probe")
    /\ IF stripe[call[s].i].st = "succeeded" THEN PayFound(s, "settled")
       ELSE Goto(s, "pay.clearing")
    /\ UNCHANGED <<seminar, requests, ledger, stripe, events, world>>

PayClearing(s) ==
    /\ At(s, "pay.clearing")
    /\ IF stripe[call[s].i].st = "processing" THEN PayFound(s, "settling")
       ELSE Finish(s)
    /\ UNCHANGED <<seminar, requests, ledger, stripe, events, world>>

PayCount(s) ==
    /\ At(s, "pay.count")
    /\ CountForClaim(s, call[s].u, "pay.take", "pay.expire")
    /\ UNCHANGED <<seminar, requests, ledger, stripe, events, world>>

PayTake(s) ==
    LET u == call[s].u IN
    /\ At(s, "pay.take")
    /\ IF SeatFree(s, u) THEN AddStudent(u) /\ Goto(s, "pay.approve")
       ELSE Goto(s, "pay.expire") /\ UNCHANGED seminar
    /\ UNCHANGED <<requests, ledger, stripe, events, world>>

(* No seat: the offer expires, the next in line is offered one, and the    *)
(* payment is refunded.                                                    *)
PayExpire(s) ==
    /\ At(s, "pay.expire")
    /\ MoveStatus(call[s].r, "awaiting_payment", "expired")
    /\ Offer(s, "refuse")
    /\ UNCHANGED <<seminar, ledger, stripe, events, world>>

(* Only one submission turns the offer into an approved seat. *)
PayApprove(s) ==
    LET r == call[s].r IN
    /\ At(s, "pay.approve")
    /\ IF requests[r].status = "awaiting_payment"
       THEN /\ requests' = [requests EXCEPT ![r].status = "approved",
                                            ![r].i = call[s].i]
            /\ Goto(s, "pay.insert")
       ELSE Goto(s, "pay.lost") /\ UNCHANGED requests
    /\ UNCHANGED <<seminar, ledger, stripe, events, world>>

PayLost(s) ==
    /\ At(s, "pay.lost")
    /\ Unenroll(call[s].u)
    /\ Goto(s, "refuse")
    /\ UNCHANGED <<requests, ledger, stripe, events, world>>

PayInsert(s) ==
    LET i == call[s].i IN
    /\ At(s, "pay.insert")
    /\ IF Recorded(i) THEN Goto(s, "pay.dup") /\ UNCHANGED ledger
       ELSE /\ SetCharge(i, IF call[s].pays = "settling" THEN "pending"
                            ELSE "completed")
            /\ call' = [call EXCEPT ![s].at = "pay.confirm", ![s].row = TRUE]
    /\ UNCHANGED <<seminar, requests, stripe, events, world>>

(* The charge row cannot be written: logged, and the student enrolled.     *)
PayInsertFails(s) ==
    /\ At(s, "pay.insert")
    /\ Fault("insert")
    /\ Goto(s, "pay.confirm")
    /\ UNCHANGED <<seminar, requests, ledger, stripe, events>>

PayDup(s) ==
    /\ At(s, "pay.dup")
    /\ Unenroll(call[s].u)
    /\ Goto(s, "pay.reopen")
    /\ UNCHANGED <<requests, ledger, stripe, events, world>>

PayReopen(s) ==
    LET r == call[s].r IN
    /\ At(s, "pay.reopen")
    /\ IF Indexed(requests[r].u, "awaiting_payment") THEN UNCHANGED requests
       ELSE MoveStatus(r, "approved", "awaiting_payment")
    /\ Finish(s)
    /\ UNCHANGED <<seminar, ledger, stripe, events, world>>

PayConfirm(s) ==
    /\ At(s, "pay.confirm")
    /\ AddStudent(call[s].u)
    /\ Finish(s)
    /\ UNCHANGED <<requests, ledger, stripe, events, world>>

(* enrollAndConfirmSeminar throws: seat, money, books, request, waitlist. *)
PayConfirmFails(s) ==
    /\ At(s, "pay.confirm")
    /\ Fault("enroll")
    /\ Unenroll(call[s].u)
    /\ Goto(s, "pay.refund")
    /\ UNCHANGED <<requests, ledger, stripe, events>>

PayRefund(s) ==
    LET i == call[s].i IN
    /\ At(s, "pay.refund")
    /\ IF CanRefund(i) THEN Refund(i) /\ Goto(s, "pay.refunded")
       ELSE Goto(s, "pay.kept") /\ UNCHANGED stripe
    /\ UNCHANGED <<seminar, requests, ledger, events, world>>

PayRefundFails(s) ==
    /\ At(s, "pay.refund")
    /\ Fault("refund")
    /\ Goto(s, "pay.kept")
    /\ UNCHANGED <<seminar, requests, ledger, stripe, events>>

PayBook(s) ==
    /\ At(s, "pay.refunded") \/ At(s, "pay.kept")
    /\ IF call[s].row
       THEN SetCharge(call[s].i,
                IF At(s, "pay.refunded") THEN "refunded" ELSE "completed")
       ELSE UNCHANGED ledger
    /\ Goto(s, "pay.fail")
    /\ UNCHANGED <<seminar, requests, stripe, events, world>>

PayFail(s) ==
    /\ At(s, "pay.fail")
    /\ MoveStatus(call[s].r, "approved", "failed")
    /\ Offer(s, "idle")
    /\ UNCHANGED <<seminar, ledger, stripe, events, world>>

-----------------------------------------------------------------------------
RegisterStep(s) ==
    \/ RegisterFull(s) \/ RegisterFind(s) \/ RegisterJoin(s)
    \/ RegisterConsumed(s) \/ RegisterProbe(s) \/ RegisterCount(s)
    \/ RegisterTake(s) \/ RegisterWhy(s) \/ RegisterOwned(s)
    \/ RegisterWhyFull(s) \/ RegisterWhyFind(s) \/ RegisterWhyCancel(s)
    \/ RegisterWhyJoin(s) \/ RegisterLookup(s) \/ RegisterInsert(s)
    \/ RegisterInsertFails(s) \/ RegisterAbort(s) \/ RegisterDup(s)
    \/ RegisterCapture(s) \/ RegisterCaptureFails(s) \/ RegisterCaptureLost(s)
    \/ RegisterCapFail(s) \/ RegisterCapCancel(s) \/ RegisterCancelFails(s)
    \/ RegisterCapDelete(s) \/ RegisterConfirm(s) \/ RegisterRecord(s)
    \/ RegisterSettle(s) \/ RegisterConfirmFails(s) \/ RegisterPaid(s)

PayStep(s) ==
    \/ PayRead(s) \/ PayConsumed(s) \/ PayProbe(s) \/ PayClearing(s)
    \/ PayCount(s) \/ PayTake(s) \/ PayExpire(s) \/ PayApprove(s) \/ PayLost(s)
    \/ PayInsert(s) \/ PayInsertFails(s) \/ PayDup(s) \/ PayReopen(s)
    \/ PayConfirm(s) \/ PayConfirmFails(s) \/ PayRefund(s)
    \/ PayRefundFails(s) \/ PayBook(s) \/ PayFail(s)

RegistrationStep(s) ==
    \/ RegisterStep(s) \/ PayStep(s)
    \/ RefuseStep(s) \/ RefuseFails(s) \/ RefuseRow(s) \/ OrphanRecorded(s)

RegistrationCall(s) ==
    \E u \in Students :
        \/ \E i \in Intents \cup {NoIntent} : Register(s, u, i)
        \/ \E i \in Intents, r \in RequestIds : Pay(s, u, i, r)

StripeStep ==
    \E i \in Intents :
        \/ \E u \in Students, r \in 0..MaxRequests,
              st \in {"hold", "processing", "succeeded"} : Checkout(u, i, r, st)
        \/ DeclinedFirst(i)
        \/ WalletClears(i)
        \/ WalletFails(i)
=============================================================================
