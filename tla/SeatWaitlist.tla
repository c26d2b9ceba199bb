---------------------------- MODULE SeatWaitlist -----------------------------
(***************************************************************************)
(* The waitlist of a full seminar: joining it, the offers that drain it in *)
(* order of arrival, the host's invitations and capacity changes, and the  *)
(* expiry of offers nobody paid for.                                       *)
(***************************************************************************)
EXTENDS SeatStore

(* Where a run of the offer loop is, with a seat request in hand or not,   *)
(* and where the other handlers of this module are.                        *)
OfferRowLabels ==
    {"offer.enrolled", "offer.make", "offer.reread", "offer.recheck",
     "offer.rollback", "offer.count", "offer.take", "offer.approve",
     "offer.confirm", "offer.undo"}
OfferLabels == {"offer.read", "offer.full", "offer.pick"} \cup OfferRowLabels
AskLabels == {"request.full", "request.find", "request.insert",
              "invite.find", "invite.send"}
WaitlistLabels == OfferLabels \cup AskLabels \cup {"update.write"}

(* Start the offer loop, to continue at label ret when it is over. *)
Offer(s, ret) ==
    call' = [call EXCEPT ![s].at = "offer.read", ![s].ret = ret]

EndOffer(s) ==
    IF call[s].ret = "idle" THEN Finish(s)
    ELSE call' = [call EXCEPT ![s].at = call[s].ret, ![s].ret = "idle",
                              ![s].seen = {}, ![s].soft = 0]

-----------------------------------------------------------------------------
(* claimSeminarSeat: count the soft holds, then add the student if the     *)
(* document still has fewer participants than the cap read earlier leaves. *)

CountForClaim(s, except, take, refused) ==
    LET n == SoftHeld(except) IN
    IF ClaimableCap(call[s].cap, n) = 0 THEN Goto(s, refused)
    ELSE call' = [call EXCEPT ![s].at = take, ![s].soft = n]

(* Mutant of SeatFree: the claim looks at the participants read earlier. *)
MutSeatFreeStale(s, u) ==
    LET left == ClaimableCap(call[s].cap, call[s].soft) IN
    /\ seminar.status = "active"
    /\ u \notin seminar.enrolled
    /\ left = Unlimited \/ Cardinality(call[s].seen) < left

(* Mutant of SeatFree: a participant claims a second seat. *)
MutSeatFreeTwice(s, u) ==
    LET left == ClaimableCap(call[s].cap, call[s].soft) IN
    /\ seminar.status = "active"
    /\ left = Unlimited \/ Cardinality(seminar.enrolled) < left

SeatFree(s, u) ==
    LET left == ClaimableCap(call[s].cap, call[s].soft) IN
    /\ seminar.status = "active"
    /\ u \notin seminar.enrolled
    /\ left = Unlimited \/ Cardinality(seminar.enrolled) < left

-----------------------------------------------------------------------------
(* offerNextWaitlistedSeat *)

OfferRead(s) ==
    /\ At(s, "offer.read")
    /\ IF seminar.status # "active" \/ seminar.started THEN EndOffer(s)
       ELSE call' = [call EXCEPT ![s].at = "offer.full",
                ![s].seen = seminar.enrolled, ![s].cap = seminar.cap]
    /\ UNCHANGED <<seminar, requests, ledger, stripe, events, world>>

OfferFull(s) ==
    /\ At(s, "offer.full")
    /\ IF IsFull(call[s].seen, call[s].cap, SoftHeld(NoOne)) THEN EndOffer(s)
       ELSE Goto(s, "offer.pick")
    /\ UNCHANGED <<seminar, requests, ledger, stripe, events, world>>

(* Mutant of Oldest: the newest row. *)
MutNewest == {r \in RowsOf("pending") : \A q \in RowsOf("pending") : q <= r}

(* The waiting rows whose turn it is: the oldest, if there is any. *)
Oldest == {r \in RowsOf("pending") : \A q \in RowsOf("pending") : r <= q}

OfferPick(s) ==
    /\ At(s, "offer.pick")
    /\ IF Oldest = {} THEN EndOffer(s)
       ELSE \E r \in Oldest :
            call' = [call EXCEPT ![s].r = r, ![s].at =
                IF requests[r].u \in call[s].seen THEN "offer.enrolled"
                ELSE IF Paid THEN "offer.make" ELSE "offer.count"]
    /\ UNCHANGED <<seminar, requests, ledger, stripe, events, world>>

(* The student is already enrolled: settle the row and look at the next. *)
OfferEnrolled(s) ==
    /\ At(s, "offer.enrolled")
    /\ MoveStatus(call[s].r, "pending", "approved")
    /\ Goto(s, "offer.read")
    /\ UNCHANGED <<seminar, ledger, stripe, events, world>>

(* Mutant of OfferMake: the student is told, the row keeps its status. *)
MutOfferKeepsPending(s) ==
    /\ At(s, "offer.make")
    /\ Goto(s, "offer.reread")
    /\ UNCHANGED <<seminar, requests, ledger, stripe, events, world>>

(* Soft-offer the seat.  A student who already holds an awaiting_payment   *)
(* row makes the update throw E11000, which ends the whole loop.           *)
OfferMake(s) ==
    LET r == call[s].r IN
    /\ At(s, "offer.make")
    /\ IF requests[r].status = "pending"
          /\ ~Indexed(requests[r].u, "awaiting_payment")
       THEN /\ requests' = [requests EXCEPT ![r].status = "awaiting_payment",
                                            ![r].lapsed = FALSE]
            /\ Goto(s, "offer.reread")
       ELSE EndOffer(s) /\ UNCHANGED requests
    /\ UNCHANGED <<seminar, ledger, stripe, events, world>>

OfferReread(s) ==
    /\ At(s, "offer.reread")
    /\ call' = [call EXCEPT ![s].at = "offer.recheck",
           ![s].seen = seminar.enrolled,
           ![s].cap = IF seminar.status = "active" THEN seminar.cap ELSE Unlimited]
    /\ UNCHANGED <<seminar, requests, ledger, stripe, events, world>>

(* Mutant of OfferRecheck: no rollback of a concurrent soft offer. *)
MutOfferNoRollback(s) ==
    /\ At(s, "offer.recheck")
    /\ Goto(s, "offer.read")
    /\ UNCHANGED <<seminar, requests, ledger, stripe, events, world>>

(* Take the offer back when seats and offers together exceed the cap.  The *)
(* document, the soft holds and the row are touched one after the other.   *)
OfferRecheck(s) ==
    LET over == call[s].cap # Unlimited /\
                Cardinality(call[s].seen) + SoftHeld(NoOne) > call[s].cap
    IN
    /\ At(s, "offer.recheck")
    /\ Goto(s, IF over THEN "offer.rollback" ELSE "offer.read")
    /\ UNCHANGED <<seminar, requests, ledger, stripe, events, world>>

OfferRollback(s) ==
    LET r == call[s].r IN
    /\ At(s, "offer.rollback")
    /\ IF Indexed(requests[r].u, "pending") THEN UNCHANGED requests
       ELSE MoveStatus(r, "awaiting_payment", "pending")
    /\ EndOffer(s)
    /\ UNCHANGED <<seminar, ledger, stripe, events, world>>

(* Nothing to charge: claim the seat and enrol the student. *)
OfferCount(s) ==
    /\ At(s, "offer.count")
    /\ LET n == SoftHeld(NoOne) IN
       IF ClaimableCap(call[s].cap, n) = 0 THEN EndOffer(s)
       ELSE call' = [call EXCEPT ![s].at = "offer.take", ![s].soft = n]
    /\ UNCHANGED <<seminar, requests, ledger, stripe, events, world>>

OfferTake(s) ==
    LET u == requests[call[s].r].u IN
    /\ At(s, "offer.take")
    /\ IF SeatFree(s, u)
       THEN AddStudent(u) /\ Goto(s, "offer.approve")
       ELSE EndOffer(s) /\ UNCHANGED seminar
    /\ UNCHANGED <<requests, ledger, stripe, events, world>>

OfferApprove(s) ==
    LET r == call[s].r IN
    /\ At(s, "offer.approve")
    /\ IF requests[r].status = "pending"
       THEN SetStatus(r, "approved") /\ Goto(s, "offer.confirm")
                                     /\ UNCHANGED seminar
       ELSE Unenroll(requests[r].u) /\ EndOffer(s) /\ UNCHANGED requests
    /\ UNCHANGED <<ledger, stripe, events, world>>

OfferConfirm(s) ==
    /\ At(s, "offer.confirm")
    /\ AddStudent(requests[call[s].r].u)
    /\ Goto(s, "offer.read")
    /\ UNCHANGED <<requests, ledger, stripe, events, world>>

(* enrollAndConfirmSeminar throws: give the seat and the turn back. *)
OfferConfirmFails(s) ==
    /\ At(s, "offer.confirm")
    /\ Fault("enroll")
    /\ Unenroll(requests[call[s].r].u)
    /\ Goto(s, "offer.undo")
    /\ UNCHANGED <<requests, ledger, stripe, events>>

OfferUndo(s) ==
    LET r == call[s].r IN
    /\ At(s, "offer.undo")
    /\ IF Indexed(requests[r].u, "pending") THEN UNCHANGED requests
       ELSE MoveStatus(r, "approved", "pending")
    /\ EndOffer(s)
    /\ UNCHANGED <<seminar, ledger, stripe, events, world>>

OfferStep(s) ==
    \/ OfferRead(s) \/ OfferFull(s) \/ OfferPick(s) \/ OfferEnrolled(s)
    \/ OfferMake(s) \/ OfferReread(s) \/ OfferRecheck(s) \/ OfferRollback(s)
    \/ OfferCount(s) \/ OfferTake(s) \/ OfferApprove(s)
    \/ OfferConfirm(s) \/ OfferConfirmFails(s) \/ OfferUndo(s)

-----------------------------------------------------------------------------
(* requestSeminarSeat: join the waitlist of a full seminar. *)

RequestSeat(s, u) ==
    /\ Calling(s, "request")
    /\ IF seminar.status # "active" \/ u \in seminar.enrolled
       THEN UNCHANGED call
       ELSE call' = [call EXCEPT ![s].at = "request.full", ![s].u = u,
                ![s].seen = seminar.enrolled, ![s].cap = seminar.cap]
    /\ UNCHANGED <<seminar, requests, ledger, stripe, events>>

RequestFull(s) ==
    /\ At(s, "request.full")
    /\ IF IsFull(call[s].seen, call[s].cap, SoftHeld(NoOne)) /\ ~seminar.started
       THEN Goto(s, "request.find") ELSE Finish(s)
    /\ UNCHANGED <<seminar, requests, ledger, stripe, events, world>>

RequestFind(s) ==
    /\ At(s, "request.find")
    /\ IF OpenRequest(call[s].u) THEN Finish(s) ELSE Goto(s, "request.insert")
    /\ UNCHANGED <<seminar, requests, ledger, stripe, events, world>>

(* recordSeatRequest: E11000 means the student is already on the list. *)
RequestInsert(s) ==
    LET u == call[s].u IN
    /\ At(s, "request.insert")
    /\ IF Indexed(u, "pending") THEN UNCHANGED requests
       ELSE \E r \in NextRequest : InsertRequest(r, u, "pending")
    /\ Finish(s)
    /\ UNCHANGED <<seminar, ledger, stripe, events, world>>

-----------------------------------------------------------------------------
(* inviteToSeminar, for one invitee.  A paid invitation is an offer, a     *)
(* free one is the enrolment; neither looks at the capacity.               *)

Invite(s, u) ==
    /\ Calling(s, "invite")
    /\ IF seminar.status # "active" \/ (Paid /\ seminar.started)
          \/ u \in seminar.enrolled
       THEN UNCHANGED call
       ELSE call' = [call EXCEPT ![s].at = "invite.find", ![s].u = u]
    /\ UNCHANGED <<seminar, requests, ledger, stripe, events>>

InviteFind(s) ==
    /\ At(s, "invite.find")
    /\ IF OpenRequest(call[s].u) THEN Finish(s) ELSE Goto(s, "invite.send")
    /\ UNCHANGED <<seminar, requests, ledger, stripe, events, world>>

InviteSend(s) ==
    LET u == call[s].u IN
    /\ At(s, "invite.send")
    /\ IF ~Paid THEN AddStudent(u) /\ UNCHANGED requests
       ELSE /\ IF Indexed(u, "awaiting_payment") THEN UNCHANGED requests
               ELSE \E r \in NextRequest :
                        InsertRequest(r, u, "awaiting_payment")
            /\ UNCHANGED seminar
    /\ Finish(s)
    /\ UNCHANGED <<ledger, stripe, events, world>>

-----------------------------------------------------------------------------
(* updateGroupChat on maxAttendees: clamped to the students it read, so a  *)
(* host cannot go below them; a larger cap drains the waitlist.            *)

Clamp(c) ==
    IF c = Unlimited \/ c <= 0 THEN c
    ELSE IF c < Cardinality(seminar.enrolled)
         THEN Cardinality(seminar.enrolled) ELSE c

UpdateCap(s, c) ==
    LET next == Clamp(c)
        grew == \/ next = Unlimited
                \/ seminar.cap = Unlimited
                \/ next > seminar.cap
    IN
    /\ Calling(s, "update")
    /\ seminar.status = "active"
    /\ call' = [call EXCEPT ![s].at = "update.write", ![s].cap = next,
                    ![s].ret = IF grew THEN "offer.read" ELSE "idle"]
    /\ UNCHANGED <<seminar, requests, ledger, stripe, events>>

UpdateWrite(s) ==
    /\ At(s, "update.write")
    /\ seminar' = [seminar EXCEPT !.cap = call[s].cap]
    /\ IF call[s].ret = "idle" THEN Finish(s) ELSE Offer(s, "idle")
    /\ UNCHANGED <<requests, ledger, stripe, events, world>>

(* deleteGroup *)
DeleteSeminar ==
    /\ "delete" \in Calls
    /\ seminar.status = "active"
    /\ seminar' = [seminar EXCEPT !.status = "deleted", !.enrolled = {}]
    /\ UNCHANGED <<requests, ledger, stripe, events, call, world>>

-----------------------------------------------------------------------------
(* Time: an offer's payment window closes, at the latest when the seminar  *)
(* starts (paymentWindowDeadline).                                         *)

WindowLapses(r) ==
    /\ "lapse" \in Calls
    /\ requests[r].status = "awaiting_payment"
    /\ ~requests[r].lapsed
    /\ requests' = [requests EXCEPT ![r].lapsed = TRUE]
    /\ UNCHANGED <<seminar, ledger, stripe, events, call, world>>

SeminarStarts ==
    /\ "start" \in Calls
    /\ ~seminar.started
    /\ seminar' = [seminar EXCEPT !.started = TRUE]
    /\ requests' = [r \in RequestIds |-> [requests[r] EXCEPT !.lapsed =
                        @ \/ requests[r].status = "awaiting_payment"]]
    /\ UNCHANGED <<ledger, stripe, events, call, world>>

(* Mutant of SweepOffer: the next in line is looked for, but the lapsed    *)
(* offer stands.                                                           *)
MutSweepKeepsOffer(s, r) ==
    /\ At(s, "idle")
    /\ requests[r].status = "awaiting_payment"
    /\ requests[r].lapsed
    /\ Offer(s, "idle")
    /\ UNCHANGED <<seminar, requests, ledger, stripe, events, world>>

(* sweepExpiredWalletPayments, on one seat request: expire the offer, then *)
(* offer the seat to the next in line.                                     *)
SweepOffer(s, r) ==
    /\ At(s, "idle")
    /\ requests[r].status = "awaiting_payment"
    /\ requests[r].lapsed
    /\ SetStatus(r, "expired")
    /\ Offer(s, "idle")
    /\ UNCHANGED <<seminar, ledger, stripe, events, world>>

(* getSeminarSeatRequests: opening the host's list drains the waitlist. *)
Drain(s) ==
    /\ Calling(s, "drain")
    /\ RowsOf("pending") # {}
    /\ Offer(s, "idle")
    /\ UNCHANGED <<seminar, requests, ledger, stripe, events>>

WaitlistStep(s) ==
    \/ OfferStep(s)
    \/ RequestFull(s) \/ RequestFind(s) \/ RequestInsert(s)
    \/ InviteFind(s) \/ InviteSend(s)
    \/ UpdateWrite(s)

WaitlistCall(s) ==
    \/ \E u \in Students : RequestSeat(s, u) \/ Invite(s, u)
    \/ \E c \in world.env.newCaps : UpdateCap(s, c)
    \/ Drain(s)
=============================================================================
