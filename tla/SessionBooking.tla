--------------------------- MODULE SessionBooking ---------------------------
(***************************************************************************)
(* Booking a 1:1 session: the checkout, a student's request with its hold  *)
(* parked, an expert's proposal, and acceptIndividualAppointment, which    *)
(* activates the session before it takes the money.                        *)
(***************************************************************************)
EXTENDS SessionStore

RequestLabels ==
    {"request.consumed", "request.probe", "request.create", "request.fail",
     "request.park", "request.abort", "request.rollback", "request.deadline",
     "request.append"}
ReadLabels ==
    {"accept.parked", "accept.window", "accept.secured", "accept.paid",
     "accept.consumed", "accept.probe", "accept.activate"}
UndoLabels == {"accept.undo", "accept.undoRow"}
(* The run has activated the session and may still put it back. *)
ConfirmingLabels ==
    {"accept.insert", "accept.abort", "accept.capture", "accept.capProbe",
     "accept.capCancel", "accept.capDelete", "accept.collect",
     "accept.restore"}
ConfirmedLabels == {"accept.rowFail", "accept.book", "accept.append"}
MoneyBackLabels ==
    {"orphan.recorded", "orphan.hold", "orphan.cancel", "refund",
     "refund.row", "refund.session", "refund.live", "refund.cancel"}

-----------------------------------------------------------------------------
(* createStripePaymentIntent and the payment page.  An intent for session  *)
(* g, or for a request that has no session yet.  A card is held; a wallet  *)
(* is charged at once, or clears later.                                    *)

CheckoutAllowed(g, st) ==
    IF g = NoSession THEN st = "hold"
    ELSE /\ session[g].st = "pending"
         /\ ~Secured(g)
         /\ ~session[g].started
         /\ session[g].payBy # "lapsed"
         /\ IF st = "hold" THEN session[g].mode = "card"
            ELSE session[g].payBy # "none" \/ session[g].by = "expert"

Checkout(i, g, st) ==
    /\ Charged
    /\ stripe[i].st = "none"
    /\ st \in Outcomes
    /\ CheckoutAllowed(g, st)
    /\ (IF g = NoSession THEN "request" ELSE "pay") \in Calls
    /\ (\E j \in Intents : stripe[j].st # "none") => "again" \in Calls
    /\ stripe' = [stripe EXCEPT ![i] = [st |-> st, g |-> g,
                     refunded |-> FALSE, sent |-> FALSE, old |-> FALSE]]
    /\ events' = IF st = "succeeded" THEN events \cup {<<"succeeded", i>>}
                 ELSE events
    /\ UNCHANGED <<session, ledger, call, world>>

(* The card was declined once before it was accepted on the same intent. *)
DeclinedFirst(i) ==
    /\ stripe[i].st = "hold"
    /\ Fault("decline")
    /\ events' = events \cup {<<"failed", i>>}
    /\ UNCHANGED <<session, ledger, stripe, call>>

WalletClears(i) ==
    /\ stripe[i].st = "processing"
    /\ SetIntent(i, "succeeded")
    /\ events' = events \cup {<<"succeeded", i>>}
    /\ UNCHANGED <<session, ledger, call, world>>

WalletFails(i) ==
    /\ stripe[i].st = "processing"
    /\ Fault("wallet")
    /\ SetIntent(i, "failed")
    /\ events' = events \cup {<<"failed", i>>}
    /\ UNCHANGED <<session, ledger, call>>

(* Stripe lets an authorization go after about a week. *)
HoldExpires(i) ==
    /\ Fault("expire")
    /\ stripe[i].st = "hold"
    /\ CancelHold(i)
    /\ UNCHANGED <<session, ledger, call>>

-----------------------------------------------------------------------------
(* releaseOrphanBookingIntent: an intent no charge row names is released   *)
(* or refunded, for a session that cannot be booked any more.              *)

(* Mutant of Orphaned: the arguments of the orphan run are swapped. *)
MutOrphaned(s, g, i) ==
    IF i = NoIntent THEN Finish(s)
    ELSE call' = [call EXCEPT ![s].at = "orphan.recorded", ![s].g = i,
                              ![s].i = g]

Orphaned(s, g, i) ==
    IF i = NoIntent THEN Finish(s)
    ELSE call' = [call EXCEPT ![s].at = "orphan.recorded", ![s].g = g,
                              ![s].i = i]

OrphanRecorded(s) ==
    /\ At(s, "orphan.recorded")
    /\ IF Recorded(call[s].i) THEN Finish(s) ELSE Goto(s, "orphan.hold")
    /\ UNCHANGED <<session, ledger, stripe, events, world>>

OrphanHold(s) ==
    /\ At(s, "orphan.hold")
    /\ Goto(s, IF stripe[call[s].i].st = "hold" THEN "orphan.cancel"
               ELSE "refund")
    /\ UNCHANGED <<session, ledger, stripe, events, world>>

OrphanCancel(s) ==
    /\ At(s, "orphan.cancel")
    /\ CancelHold(call[s].i)
    /\ Finish(s)
    /\ UNCHANGED <<session, ledger, world>>

(* refundBookingCharge, then reconcileRefundedSession: a session that is   *)
(* still confirmed without any other payment is cancelled.                 *)
RefundStep(s) ==
    LET i == call[s].i IN
    /\ At(s, "refund")
    /\ IF CanRefund(i) THEN Refund(i) /\ Goto(s, "refund.row")
       ELSE Finish(s) /\ UNCHANGED stripe
    /\ UNCHANGED <<session, ledger, events, world>>

(* Stripe refuses the cancel or the refund; the handler only logs it. *)
RefundFails(s) ==
    /\ At(s, "refund") \/ At(s, "orphan.cancel")
    /\ Fault("refund")
    /\ Finish(s)
    /\ UNCHANGED <<session, ledger, stripe, events>>

RefundRow(s) ==
    /\ At(s, "refund.row")
    /\ AppendRefund(call[s].i)
    /\ IF call[s].g = NoSession THEN Finish(s) ELSE Goto(s, "refund.session")
    /\ UNCHANGED <<session, stripe, events, world>>

RefundSession(s) ==
    /\ At(s, "refund.session")
    /\ IF session[call[s].g].st = "active" THEN Goto(s, "refund.live")
       ELSE Finish(s)
    /\ UNCHANGED <<session, ledger, stripe, events, world>>

RefundLive(s) ==
    /\ At(s, "refund.live")
    /\ IF LivePayment(call[s].g) THEN Finish(s) ELSE Goto(s, "refund.cancel")
    /\ UNCHANGED <<session, ledger, stripe, events, world>>

RefundCancel(s) ==
    LET g == call[s].g IN
    /\ At(s, "refund.cancel")
    /\ IF session[g].st = "active" THEN Close(g) ELSE UNCHANGED session
    /\ Finish(s)
    /\ UNCHANGED <<ledger, stripe, events, world>>

-----------------------------------------------------------------------------
(* createGroupChatByUser: a card request parks its hold; a wallet request  *)
(* or a free one carries no money.                                         *)

(* Bound: Sessions has room for every document the runs will create. *)
Room ==
    Cardinality({s \in Slots : call[s].at \in
                    {"request.consumed", "request.probe", "request.create"}})
        < Cardinality({g \in Sessions : session[g].st = "none"})

Request(s, i) ==
    /\ Calling(s, "request")
    /\ Room
    /\ IF i = NoIntent
       THEN /\ ~Charged \/ "wallet" \in world.env.modes
            /\ call' = [call EXCEPT ![s].at = "request.create"]
            /\ UNCHANGED stripe
       ELSE /\ Charged /\ Submittable(i) /\ stripe[i].g = NoSession
            /\ call' = [call EXCEPT ![s].at = "request.consumed", ![s].i = i]
            /\ Submitted(i)
    /\ UNCHANGED <<session, ledger, events>>

RequestConsumed(s) ==
    /\ At(s, "request.consumed")
    /\ IF Recorded(call[s].i) THEN Finish(s) ELSE Goto(s, "request.probe")
    /\ UNCHANGED <<session, ledger, stripe, events, world>>

RequestProbe(s) ==
    LET pays == FoundAs(call[s].i) IN
    /\ At(s, "request.probe")
    /\ IF pays = "none" THEN Finish(s)
       ELSE call' = [call EXCEPT ![s].at = "request.create", ![s].pays = pays]
    /\ UNCHANGED <<session, ledger, stripe, events, world>>

NewSession(g, by, mode, decide, payBy) ==
    session' = [session EXCEPT ![g] =
        [st |-> "pending", by |-> by, mode |-> mode, decide |-> decide,
         payBy |-> payBy, started |-> FALSE]]

RequestCreate(s) ==
    LET pays == call[s].pays
        mode == IF call[s].i = NoIntent /\ Charged THEN "wallet" ELSE "card"
        next == CASE pays = "none" -> "idle"
                  [] pays = "held" -> "request.park"
                  [] OTHER         -> "request.append"
    IN  /\ At(s, "request.create")
        /\ \E g \in Sessions :
              /\ session[g].st = "none"
              /\ NewSession(g, "student", mode,
                            IF pays = "none" THEN "set" ELSE "none", "none")
              /\ IF next = "idle" THEN Finish(s)
                 ELSE call' = [call EXCEPT ![s].at = next, ![s].g = g]
        /\ UNCHANGED <<ledger, stripe, events, world>>

(* The slot does not fit the expert's calendar, or the write fails. *)
RequestRejected(s) ==
    /\ At(s, "request.create")
    /\ Fault("database")
    /\ CASE call[s].pays = "none" -> Finish(s)
         [] call[s].pays = "held" -> Goto(s, "request.fail")
         [] OTHER                 -> Goto(s, "refund")
    /\ UNCHANGED <<session, ledger, stripe, events>>

(* releaseAndFail *)
RequestFail(s) ==
    /\ At(s, "request.fail")
    /\ CancelHold(call[s].i)
    /\ Finish(s)
    /\ UNCHANGED <<session, ledger, world>>

(* parkBookingHold; E11000: a concurrent request won this intent. *)
RequestPark(s) ==
    LET i == call[s].i IN
    /\ At(s, "request.park")
    /\ IF Recorded(i) THEN Goto(s, "request.rollback") /\ UNCHANGED ledger
       ELSE /\ InsertCharge(i, call[s].g, "withheld")
            /\ Goto(s, "request.deadline")
    /\ UNCHANGED <<session, stripe, events, world>>

RequestParkFails(s) ==
    /\ At(s, "request.park")
    /\ Fault("insert")
    /\ Goto(s, "request.abort")
    /\ UNCHANGED <<session, ledger, stripe, events>>

RequestAbort(s) ==
    /\ At(s, "request.abort")
    /\ CancelHold(call[s].i)
    /\ Goto(s, "request.rollback")
    /\ UNCHANGED <<session, ledger, world>>

(* rollbackIndividualSession *)
RequestRollback(s) ==
    /\ At(s, "request.rollback")
    /\ SetSession(call[s].g, "deleted")
    /\ Finish(s)
    /\ UNCHANGED <<ledger, stripe, events, world>>

RequestDeadline(s) ==
    /\ At(s, "request.deadline")
    /\ session' = [session EXCEPT ![call[s].g].decide = "set"]
    /\ Finish(s)
    /\ UNCHANGED <<ledger, stripe, events, world>>

(* appendPaymentHistory, tried twice; a duplicate is left to the log. *)
RequestAppend(s) ==
    LET i == call[s].i IN
    /\ At(s, "request.append")
    /\ IF Recorded(i) THEN UNCHANGED ledger
       ELSE InsertCharge(i, call[s].g, "completed")
    /\ Finish(s)
    /\ UNCHANGED <<session, stripe, events, world>>

-----------------------------------------------------------------------------
(* proposeIndividualAppointment *)
Propose(s) ==
    /\ Calling(s, "propose")
    /\ Room
    /\ \E g \in Sessions :
          /\ session[g].st = "none"
          /\ NewSession(g, "expert", "card", "none",
                        IF Advertised THEN "set" ELSE "none")
    /\ UNCHANGED <<ledger, stripe, events, call>>

-----------------------------------------------------------------------------
(* acceptIndividualAppointment.  A call refused on what it reads first     *)
(* changes nothing, unless it brought an intent, and is left out.  The     *)
(* expert hears of a request by mail once it is complete; one who sees it  *)
(* before that accepts it "early", one who clicks again "twice".           *)

Incomplete(g) ==
    \E t \in Slots : call[t].g = g /\ call[t].at \in RequestLabels

AcceptAsExpert(s, g) ==
    /\ Calling(s, "accept")
    /\ Incomplete(g) => "early accept" \in Calls
    /\ (\E t \in Slots : call[t].g = g /\ call[t].who = "expert") =>
           "twice" \in Calls
    /\ session[g].st = "pending"
    /\ session[g].by = "student"
    /\ ~session[g].started
    /\ call' = [call EXCEPT ![s].at = "accept.parked", ![s].g = g,
           ![s].who = "expert", ![s].lapsed = session[g].decide = "lapsed",
           ![s].window = session[g].payBy # "none"]
    /\ UNCHANGED <<session, ledger, stripe, events>>

(* With a parked hold, unless the time to decide has passed; a wallet      *)
(* request opens the student's window to pay; a priced card request needs  *)
(* a payment on the books; a free one is simply confirmed.                 *)
AcceptParked(s) ==
    LET g == call[s].g
        next == IF call[s].lapsed /\ ~call[s].window THEN "idle"
                ELSE IF session[g].mode = "wallet" /\ Charged
                THEN IF call[s].window THEN "idle" ELSE "accept.window"
                ELSE IF Advertised THEN "accept.secured" ELSE "accept.activate"
    IN  /\ At(s, "accept.parked")
        /\ IF Parked(g) # {}
           THEN IF call[s].lapsed THEN Finish(s)
                ELSE \E i \in Parked(g) :
                        call' = [call EXCEPT ![s].at = "accept.activate",
                                 ![s].i = i, ![s].pays = "held", ![s].row = TRUE]
           ELSE IF next = "idle" THEN Finish(s) ELSE Goto(s, next)
        /\ UNCHANGED <<session, ledger, stripe, events, world>>

AcceptWindow(s) ==
    LET g == call[s].g IN
    /\ At(s, "accept.window")
    /\ IF session[g].st = "pending" /\ session[g].payBy = "none"
       THEN session' = [session EXCEPT ![g].decide = "none",
                                       ![g].payBy = "set"]
       ELSE UNCHANGED session
    /\ Finish(s)
    /\ UNCHANGED <<ledger, stripe, events, world>>

(* Mutant of AcceptSecured: nobody looks for a payment on the books. *)
MutAcceptSecured(s) ==
    /\ At(s, "accept.secured")
    /\ Goto(s, "accept.activate")
    /\ UNCHANGED <<session, ledger, stripe, events, world>>

AcceptSecured(s) ==
    /\ At(s, "accept.secured")
    /\ IF Secured(call[s].g) THEN Goto(s, "accept.activate") ELSE Finish(s)
    /\ UNCHANGED <<session, ledger, stripe, events, world>>

(* The student pays for a session, or takes a proposal that is free. *)
AcceptAsStudent(s, g, i) ==
    /\ Calling(s, "pay")
    /\ session[g].st # "none"
    /\ IF i = NoIntent
       THEN ~Charged /\ session[g].by = "expert" /\ UNCHANGED stripe
       ELSE Submittable(i) /\ stripe[i].g = g /\ Submitted(i)
    /\ IF session[g].st = "pending"
       THEN call' = [call EXCEPT ![s].at = "accept.paid", ![s].g = g,
                ![s].i = i, ![s].who = "student",
                ![s].lapsed = session[g].payBy = "lapsed",
                ![s].window = session[g].payBy # "none"]
       ELSE Orphaned(s, g, i)
    /\ UNCHANGED <<session, ledger, events>>

AcceptPaid(s) ==
    LET g == call[s].g IN
    /\ At(s, "accept.paid")
    /\ IF Secured(g) \/ session[g].started THEN Orphaned(s, g, call[s].i)
       ELSE IF /\ Charged
               /\ \/ session[g].mode = "wallet" /\ ~call[s].window
                  \/ call[s].lapsed
            THEN Finish(s) ELSE Goto(s, "accept.consumed")
    /\ UNCHANGED <<session, ledger, stripe, events, world>>

AcceptConsumed(s) ==
    /\ At(s, "accept.consumed")
    /\ IF ~Charged THEN Goto(s, "accept.activate")
       ELSE IF Recorded(call[s].i) THEN Finish(s) ELSE Goto(s, "accept.probe")
    /\ UNCHANGED <<session, ledger, stripe, events, world>>

(* resolveBookingPayment *)
AcceptProbe(s) ==
    LET pays == FoundAs(call[s].i) IN
    /\ At(s, "accept.probe")
    /\ IF pays = "none" THEN Finish(s)
       ELSE call' = [call EXCEPT ![s].at = "accept.activate", ![s].pays = pays]
    /\ UNCHANGED <<session, ledger, stripe, events, world>>

(* Mutant of AcceptActivate: the hold is captured before its row exists. *)
MutAcceptActivateEarly(s) ==
    LET g    == call[s].g
        pays == call[s].pays
        done == CASE pays = "none" -> "idle"
                  [] pays = "held" -> IF call[s].row THEN "accept.collect"
                                      ELSE "accept.capture"
                  [] OTHER         -> "accept.append"
        lost == CASE pays = "none" -> "idle"
                  [] pays = "held" -> "accept.undo"
                  [] OTHER         -> "refund"
        next == IF session[g].st \in {"pending", "active"} THEN done ELSE lost
    IN  /\ At(s, "accept.activate")
        /\ IF session[g].st \in {"pending", "active"}
           THEN SetSession(g, "active") ELSE UNCHANGED session
        /\ IF next = "idle" THEN Finish(s) ELSE Goto(s, next)
        /\ UNCHANGED <<ledger, stripe, events, world>>

(* Mutant of AcceptActivate: the update does not look at the status. *)
MutAcceptActivateAny(s) ==
    LET g    == call[s].g
        pays == call[s].pays
        done == CASE pays = "none" -> "idle"
                  [] pays = "held" -> IF call[s].row THEN "accept.collect"
                                      ELSE "accept.insert"
                  [] OTHER         -> "accept.append"
        lost == CASE pays = "none" -> "idle"
                  [] pays = "held" -> "accept.undo"
                  [] OTHER         -> "refund"
        next == IF Exists(g) THEN done ELSE lost
    IN  /\ At(s, "accept.activate")
        /\ IF Exists(g)
           THEN SetSession(g, "active") ELSE UNCHANGED session
        /\ IF next = "idle" THEN Finish(s) ELSE Goto(s, next)
        /\ UNCHANGED <<ledger, stripe, events, world>>

(* findOneAndUpdate({ _id, status: { $ne: 'cancelled' } }) *)
AcceptActivate(s) ==
    LET g    == call[s].g
        pays == call[s].pays
        done == CASE pays = "none" -> "idle"
                  [] pays = "held" -> IF call[s].row THEN "accept.collect"
                                      ELSE "accept.insert"
                  [] OTHER         -> "accept.append"
        lost == CASE pays = "none" -> "idle"
                  [] pays = "held" -> "accept.undo"
                  [] OTHER         -> "refund"
        next == IF session[g].st \in {"pending", "active"} THEN done ELSE lost
    IN  /\ At(s, "accept.activate")
        /\ IF session[g].st \in {"pending", "active"}
           THEN SetSession(g, "active") ELSE UNCHANGED session
        /\ IF next = "idle" THEN Finish(s) ELSE Goto(s, next)
        /\ UNCHANGED <<ledger, stripe, events, world>>

(* The write fails: the money goes back, the parked row stays as it is. *)
AcceptActivateFails(s) ==
    /\ At(s, "accept.activate")
    /\ Fault("database")
    /\ CASE call[s].pays = "none" -> Finish(s)
         [] call[s].pays = "held" -> call' = [call EXCEPT
                ![s].at = "accept.undo", ![s].row = FALSE]
         [] OTHER -> Goto(s, "refund")
    /\ UNCHANGED <<session, ledger, stripe, events>>

AcceptUndo(s) ==
    /\ At(s, "accept.undo")
    /\ CancelHold(call[s].i)
    /\ IF call[s].row THEN Goto(s, "accept.undoRow") ELSE Finish(s)
    /\ UNCHANGED <<session, ledger, world>>

AcceptUndoRow(s) ==
    /\ At(s, "accept.undoRow")
    /\ SetCharge(call[s].i, "released")
    /\ Finish(s)
    /\ UNCHANGED <<session, stripe, events, world>>

(* captureBookingHold: the charge row goes in before the capture. *)
AcceptInsert(s) ==
    LET i == call[s].i IN
    /\ At(s, "accept.insert")
    /\ IF Recorded(i) THEN Goto(s, "accept.restore") /\ UNCHANGED ledger
       ELSE InsertCharge(i, call[s].g, "pending") /\ Goto(s, "accept.capture")
    /\ UNCHANGED <<session, stripe, events, world>>

AcceptInsertFails(s) ==
    /\ At(s, "accept.insert")
    /\ Fault("insert")
    /\ Goto(s, "accept.abort")
    /\ UNCHANGED <<session, ledger, stripe, events>>

AcceptAbort(s) ==
    /\ At(s, "accept.abort")
    /\ CancelHold(call[s].i)
    /\ Goto(s, "accept.restore")
    /\ UNCHANGED <<session, ledger, world>>

(* collect: captureParkedHold. *)
AcceptCapture(s) ==
    LET i == call[s].i IN
    /\ At(s, "accept.capture") \/ At(s, "accept.collect")
    /\ stripe[i].st = "hold"
    /\ Capture(i)
    /\ Goto(s, "accept.book")
    /\ UNCHANGED <<session, ledger, world>>

AcceptNotCaptured(s) ==
    /\ At(s, "accept.capture") \/ At(s, "accept.collect")
    /\ IF stripe[call[s].i].st = "hold" THEN Fault("capture")
       ELSE UNCHANGED world
    /\ Goto(s, "accept.capProbe")
    /\ UNCHANGED <<session, ledger, stripe, events>>

(* Mutant of AcceptCapProbe: a capture that fails is taken for a lost answer. *)
MutAcceptCapProbe(s) ==
    /\ At(s, "accept.capProbe")
    /\ Goto(s, IF stripe[call[s].i].st \in {"succeeded", "hold"}
               THEN "accept.book"
               ELSE IF call[s].row THEN "accept.restore" ELSE "accept.capCancel")
    /\ UNCHANGED <<session, ledger, stripe, events, world>>

AcceptCapProbe(s) ==
    /\ At(s, "accept.capProbe")
    /\ Goto(s, IF stripe[call[s].i].st = "succeeded" THEN "accept.book"
               ELSE IF call[s].row THEN "accept.restore"
               ELSE "accept.capCancel")
    /\ UNCHANGED <<session, ledger, stripe, events, world>>

AcceptCapCancel(s) ==
    LET i == call[s].i IN
    /\ At(s, "accept.capCancel")
    /\ CancelHold(i)
    /\ Goto(s, IF stripe[i].st = "hold" THEN "accept.capDelete"
               ELSE "accept.restore")
    /\ UNCHANGED <<session, ledger, world>>

(* Capture and cancel both failed: the row stays pending. *)
AcceptCapStuck(s) ==
    /\ At(s, "accept.capCancel")
    /\ Fault("refund")
    /\ Goto(s, "accept.restore")
    /\ UNCHANGED <<session, ledger, stripe, events>>

AcceptCapDelete(s) ==
    /\ At(s, "accept.capDelete")
    /\ InsertCharge(call[s].i, NoSession, "none")
    /\ Goto(s, "accept.restore")
    /\ UNCHANGED <<session, stripe, events, world>>

(* restore: the session this run activated goes back to pending. *)
AcceptRestore(s) ==
    /\ At(s, "accept.restore")
    /\ MoveSession(call[s].g, "active", "pending")
    /\ IF call[s].row THEN Goto(s, "accept.rowFail") ELSE Finish(s)
    /\ UNCHANGED <<ledger, stripe, events, world>>

AcceptRowFail(s) ==
    /\ At(s, "accept.rowFail")
    /\ SetCharge(call[s].i, "failed")
    /\ Finish(s)
    /\ UNCHANGED <<session, stripe, events, world>>

AcceptBook(s) ==
    LET i == call[s].i IN
    /\ At(s, "accept.book")
    /\ IF Recorded(i) THEN SetCharge(i, "completed") ELSE UNCHANGED ledger
    /\ Finish(s)
    /\ UNCHANGED <<session, stripe, events, world>>

(* A failed write is logged: captured payment left pending. *)
AcceptBookLost(s) ==
    /\ At(s, "accept.book") \/ At(s, "accept.append")
    /\ Fault("lost")
    /\ Finish(s)
    /\ UNCHANGED <<session, ledger, stripe, events>>

(* appendPaymentHistory; a duplicate is ignored. *)
AcceptAppend(s) ==
    LET i == call[s].i IN
    /\ At(s, "accept.append")
    /\ IF Recorded(i) THEN UNCHANGED ledger
       ELSE InsertCharge(i, call[s].g, IF call[s].pays = "settling"
                                       THEN "pending" ELSE "completed")
    /\ Finish(s)
    /\ UNCHANGED <<session, stripe, events, world>>

-----------------------------------------------------------------------------
BookingCall(s) ==
    \/ Propose(s)
    \/ \E i \in Intents \cup {NoIntent} : Request(s, i)
    \/ \E g \in Sessions : AcceptAsExpert(s, g)
    \/ \E g \in Sessions, i \in Intents \cup {NoIntent} :
          AcceptAsStudent(s, g, i)

BookingStep(s) ==
    \/ OrphanRecorded(s) \/ OrphanHold(s) \/ OrphanCancel(s)
    \/ RefundStep(s) \/ RefundFails(s) \/ RefundRow(s) \/ RefundSession(s)
    \/ RefundLive(s) \/ RefundCancel(s)
    \/ RequestConsumed(s) \/ RequestProbe(s) \/ RequestCreate(s)
    \/ RequestRejected(s) \/ RequestFail(s) \/ RequestPark(s)
    \/ RequestParkFails(s) \/ RequestAbort(s) \/ RequestRollback(s)
    \/ RequestDeadline(s) \/ RequestAppend(s)
    \/ AcceptParked(s) \/ AcceptWindow(s) \/ AcceptSecured(s) \/ AcceptPaid(s)
    \/ AcceptConsumed(s) \/ AcceptProbe(s) \/ AcceptActivate(s)
    \/ AcceptActivateFails(s) \/ AcceptUndo(s) \/ AcceptUndoRow(s)
    \/ AcceptInsert(s) \/ AcceptInsertFails(s) \/ AcceptAbort(s)
    \/ AcceptCapture(s) \/ AcceptNotCaptured(s) \/ AcceptCapProbe(s)
    \/ AcceptCapCancel(s) \/ AcceptCapStuck(s) \/ AcceptCapDelete(s)
    \/ AcceptRestore(s) \/ AcceptRowFail(s) \/ AcceptBook(s)
    \/ AcceptBookLost(s) \/ AcceptAppend(s)

StripeStep == \E i \in Intents :
    \/ \E g \in Sessions \cup {NoSession}, st \in Outcomes : Checkout(i, g, st)
    \/ DeclinedFirst(i) \/ WalletClears(i) \/ WalletFails(i) \/ HoldExpires(i)
=============================================================================
