-------------------------- MODULE SeminarSeatsProofs --------------------------
(***************************************************************************)
(* For every set of students, intents and slots: the state of SeminarSeats *)
(* is well typed, no hold is captured without its charge row, and the      *)
(* books agree with Stripe.  The invariants that make these inductive say, *)
(* by the label a run stands at, what the run knows of the student, the    *)
(* intent and the seat request it works for, and of its money.             *)
(***************************************************************************)
EXTENDS SeminarSeats, FiniteSetTheorems, TLAPS

(* What a run knows of the student, the intent and the seat request it     *)
(* works for, by where it is.                                              *)
WithStudent == AskLabels \cup ClaimLabels \cup CaptureLabels \cup PayLabels
WithIntent == CaptureLabels \cup PayLabels \cup RefuseLabels \cup SettleLabels
WithIntentIfPaid == {"register.count", "register.take", "register.confirm"}

SlotOK(s) ==
    LET c == call[s] IN
    /\ c.at \in WithStudent => c.u \in Students
    /\ c.at \in WithIntent => c.i \in Intents
    /\ Paid /\ c.at \in WithIntentIfPaid => c.i \in Intents
    /\ c.pays # "none" \/ c.row => c.i \in Intents
    /\ c.at = "idle" => c.pays = "none" /\ c.row = FALSE /\ c.ret = "idle"
    /\ c.ret \in {"idle", "refuse", "failed.again"} \/ c.at = "update.write"
    /\ c.ret \in {"refuse", "failed.again"} => c.i \in Intents
    /\ c.at \in OfferRowLabels =>
          c.r \in RequestIds /\ requests[c.r].status # "none"

(* The documents are well typed, and a seat request that exists is some    *)
(* student's.                                                              *)
SeminarOK == seminar \in Seminar
RequestsOK ==
    /\ requests \in [RequestIds -> Request]
    /\ \A r \in RequestIds :
          requests[r].status # "none" => requests[r].u \in Students
LedgerOK == ledger \in [Intents -> Ledger]
StripeOK == stripe \in [Intents -> Intent]
EventsOK == events \subseteq Event
WorldOK ==
    /\ world \in [env : Environments, calls : Nat, faults : Nat]
    /\ world.calls <= world.env.maxCalls
    /\ world.faults <= world.env.maxFaults
DataOK == /\ SeminarOK /\ RequestsOK /\ LedgerOK
          /\ StripeOK /\ EventsOK /\ WorldOK

CallsOK ==
    /\ call \in [Slots -> Run(Labels)]
    /\ \A s \in Slots : SlotOK(s)

TInv == DataOK /\ CallsOK

(* Seat requests are never deleted, and a seminar keeps its price. *)
RowsStay == \A r \in RequestIds :
    requests[r].status # "none" => requests'[r].status # "none"
Stays == RowsStay /\ Paid' = Paid

-----------------------------------------------------------------------------
(* What a step leaves alone keeps its type. *)
LEMMA SameOK ==
    ASSUME DataOK
    PROVE  /\ UNCHANGED seminar => SeminarOK'
           /\ UNCHANGED requests => RequestsOK' /\ RowsStay
           /\ UNCHANGED ledger => LedgerOK'
           /\ UNCHANGED stripe => StripeOK'
           /\ UNCHANGED events => EventsOK'
           /\ UNCHANGED world => WorldOK' /\ Paid' = Paid
BY DEF DataOK, SeminarOK, RequestsOK, RowsStay, LedgerOK, StripeOK, EventsOK,
       WorldOK, Paid

(* A student added or taken off the list is a student.                     *)
LEMMA StudentsOK ==
    ASSUME SeminarOK, NEW u
    PROVE  /\ u \in Students /\ AddStudent(u) => SeminarOK'
           /\ Unenroll(u) => SeminarOK'
BY DEF SeminarOK, Seminar, AddStudent, Unenroll, SetEnrolled

(* A seat request that exists takes a status of the code.                  *)
LEMMA SetStatusOK ==
    ASSUME RequestsOK, NEW r, NEW status \in RequestStatus \ {"none"},
           r \in RequestIds => requests[r].status # "none"
    PROVE  SetStatus(r, status) => RequestsOK' /\ RowsStay
<1> DEFINE row == [requests[r] EXCEPT !.status = status]
<1>1. r \in RequestIds =>
          row \in Request /\ row.status # "none" /\ row.u \in Students
  BY DEF RequestsOK, Request
<1>2. SetStatus(r, status) => requests' = [requests EXCEPT ![r] = row]
  BY DEF SetStatus
<1> HIDE DEF row
<1> QED BY <1>1, <1>2 DEF RequestsOK, RowsStay

(* So does one that is moved on from the status it must have.              *)
LEMMA MoveStatusOK ==
    ASSUME RequestsOK, NEW r, NEW from, from # "none",
           NEW status \in RequestStatus \ {"none"}
    PROVE  MoveStatus(r, from, status) => RequestsOK' /\ RowsStay
BY SetStatusOK DEF RequestsOK, RowsStay, MoveStatus

(* A new seat request is some student's.                                   *)
LEMMA InsertRequestOK ==
    ASSUME RequestsOK, NEW r, NEW u \in Students,
           NEW status \in RequestStatus \ {"none"}, InsertRequest(r, u, status)
    PROVE  RequestsOK' /\ RowsStay
<1> DEFINE row == [status |-> status, u |-> u, lapsed |-> FALSE, i |-> NoIntent]
<1>1. row \in Request /\ row.status # "none" /\ row.u \in Students
  BY DEF Request
<1>2. requests' = [requests EXCEPT ![r] = row]
  BY DEF InsertRequest
<1> HIDE DEF row
<1> QED BY <1>1, <1>2 DEF RequestsOK, RowsStay

(* A charge row takes a status of the ledger, refunds are counted.         *)
LEMMA LedgerChangeOK ==
    ASSUME LedgerOK, NEW i, NEW status \in ChargeStatus
    PROVE  /\ SetCharge(i, status) => LedgerOK'
           /\ MoveCharge(i, status) => LedgerOK'
           /\ AppendRefund(i) => LedgerOK'
BY DEF LedgerOK, Ledger, SetCharge, MoveCharge, AppendRefund

(* An intent stays an intent when it is submitted, settled, refunded.      *)
LEMMA StripeChangeOK ==
    ASSUME StripeOK, NEW i \in Intents
    PROVE  /\ Refund(i) => StripeOK'
           /\ Submitted(i) => StripeOK'
           /\ \A st \in IntentStatus : SetIntent(i, st) => StripeOK'
<1>1. stripe[i] \in Intent
  BY DEF StripeOK
<1>2. [stripe[i] EXCEPT !.refunded = TRUE] \in Intent
  BY <1>1 DEF Intent
<1>3. [stripe[i] EXCEPT !.sent = TRUE] \in Intent
  BY <1>1 DEF Intent
<1>4. \A st \in IntentStatus : [stripe[i] EXCEPT !.st = st] \in Intent
  BY <1>1 DEF Intent
<1>5. Refund(i) => stripe' = [stripe EXCEPT ![i] = [stripe[i] EXCEPT !.refunded = TRUE]]
  BY DEF Refund
<1>6. Submitted(i) => stripe' = [stripe EXCEPT ![i] = [stripe[i] EXCEPT !.sent = TRUE]]
  BY DEF Submitted
<1>7. \A st \in IntentStatus : SetIntent(i, st) =>
          stripe' = [stripe EXCEPT ![i] = [stripe[i] EXCEPT !.st = st]]
  BY DEF SetIntent
<1> QED
  BY <1>2, <1>3, <1>4, <1>5, <1>6, <1>7 DEF StripeOK

(* A capture or a release changes the intent and sends its event.          *)
LEMMA HoldChangeOK ==
    ASSUME StripeOK, EventsOK, NEW i \in Intents
    PROVE  /\ Capture(i) => StripeOK' /\ EventsOK'
           /\ CancelHold(i) => StripeOK' /\ EventsOK'
<1>1. "succeeded" \in IntentStatus /\ "canceled" \in IntentStatus
  BY DEF IntentStatus
<1>2. <<"succeeded", i>> \in Event /\ <<"failed", i>> \in Event
  BY DEF Event
<1> QED
  BY <1>1, <1>2, StripeChangeOK DEF EventsOK, Capture, CancelHold, StripeOK

(* Calls and faults stay within their bounds and change no price.          *)
LEMMA WorldChangeOK ==
    ASSUME WorldOK
    PROVE  /\ \A s, h : Calling(s, h) => WorldOK' /\ Paid' = Paid
           /\ \A k : Fault(k) => WorldOK' /\ Paid' = Paid
BY StoreAssumption DEF WorldOK, Calling, Fault, Paid

(* Soft holds are at most the seat requests there are.                     *)
LEMMA SoftHeldType == ASSUME NEW u PROVE SoftHeld(u) \in 0..MaxRequests
<1> DEFINE S == {r \in RowsOf("awaiting_payment") : requests[r].u # u}
<1>1. S \subseteq 1..MaxRequests
  BY DEF RowsOf, RequestIds
<1>2. IsFiniteSet(1..MaxRequests) /\ Cardinality(1..MaxRequests) = MaxRequests
  BY FS_Interval, StoreAssumption
<1>3. IsFiniteSet(S) /\ Cardinality(S) \in Nat /\ Cardinality(S) <= MaxRequests
  BY <1>1, <1>2, FS_Subset, FS_CardinalityType
<1> QED BY <1>3, StoreAssumption DEF SoftHeld

(* A slot without a run is well typed.                                     *)
LEMMA IdleType == Idle \in Run(Labels)
BY StoreAssumption DEF Idle, Run, Labels, NoRequest, Caps

(* What a run knows, by where it is. *)
LEMMA KnowsOK ==
    ASSUME CallsOK, NEW s \in Slots
    PROVE  /\ call[s].at \in WithStudent => call[s].u \in Students
           /\ call[s].at \in WithIntent => call[s].i \in Intents
           /\ Paid /\ call[s].at \in WithIntentIfPaid => call[s].i \in Intents
           /\ call[s].pays # "none" \/ call[s].row => call[s].i \in Intents
           /\ call[s].at \in OfferRowLabels =>
                 call[s].r \in RequestIds /\ requests[call[s].r].status # "none"
BY DEF CallsOK, SlotOK

(* A run moves to label l, knowing what it must know there. *)
LEMMA GotoOK ==
    ASSUME CallsOK, Stays, NEW s \in Slots, NEW l \in Labels, Goto(s, l),
           call[s].at # "update.write", l # "idle",
           l \in WithStudent => call[s].u \in Students,
           l \in WithIntent => call[s].i \in Intents,
           Paid /\ l \in WithIntentIfPaid => call[s].i \in Intents,
           l \in OfferRowLabels => /\ call[s].r \in RequestIds
                                   /\ requests[call[s].r].status # "none"
    PROVE  CallsOK'
<1>1. call' \in [Slots -> Run(Labels)]
  BY DEF CallsOK, Goto, Run
<1>2. ASSUME NEW t \in Slots PROVE SlotOK(t)'
  <2>1. CASE t = s
    BY <2>1 DEF CallsOK, SlotOK, Goto, Run, Stays, RowsStay
  <2>2. CASE t # s
    BY <2>2 DEF CallsOK, SlotOK, Goto, Run, Stays, RowsStay
  <2> QED BY <2>1, <2>2
<1> QED BY <1>1, <1>2 DEF CallsOK

(* A run that ends knows nothing.                                          *)
LEMMA FinishOK ==
    ASSUME CallsOK, Stays, NEW s \in Slots, Finish(s) PROVE CallsOK'
<1>1. call' \in [Slots -> Run(Labels)]
  BY IdleType DEF CallsOK, Finish
<1>2. ASSUME NEW t \in Slots PROVE SlotOK(t)'
  <2>1. CASE t = s
    <3>1. call'[t] = Idle
      BY <2>1 DEF CallsOK, Finish
    <3> QED
      BY <3>1 DEF SlotOK, Idle, WithStudent, WithIntent, WithIntentIfPaid,
         AskLabels, ClaimLabels, CaptureLabels, PayLabels, RefuseLabels,
         SettleLabels, OfferRowLabels
  <2>2. CASE t # s
    BY <2>2 DEF CallsOK, SlotOK, Finish, Stays, RowsStay
  <2> QED BY <2>1, <2>2
<1> QED BY <1>1, <1>2 DEF CallsOK

(* The offer loop ends where its caller goes on. *)
LEMMA EndOfferOK ==
    ASSUME CallsOK, Stays, NEW s \in Slots, EndOffer(s),
           call[s].at # "update.write"
    PROVE  CallsOK'
<1>1. CASE call[s].ret = "idle"
  BY <1>1, FinishOK DEF EndOffer
<1>2. CASE call[s].ret # "idle"
  <2>1. call[s].ret \in {"refuse", "failed.again"} /\ call[s].i \in Intents
    BY <1>2 DEF CallsOK, SlotOK
  <2>2. call' = [call EXCEPT ![s].at = call[s].ret, ![s].ret = "idle",
                             ![s].seen = {}, ![s].soft = 0]
    BY <1>2 DEF EndOffer
  <2>3. call' \in [Slots -> Run(Labels)]
    BY <2>1, <2>2, StoreAssumption DEF CallsOK, Run, Labels
  <2>4. ASSUME NEW t \in Slots PROVE SlotOK(t)'
    <3>1. CASE t = s
      <4>1. call[s].ret \notin WithStudent /\ call[s].ret \notin WithIntentIfPaid
            /\ call[s].ret \notin OfferRowLabels
        BY <2>1 DEF WithStudent, WithIntentIfPaid, OfferRowLabels, AskLabels,
           ClaimLabels, CaptureLabels, PayLabels
      <4>2. /\ call'[s].at = call[s].ret /\ call'[s].i = call[s].i
            /\ call'[s].ret = "idle"
        BY <2>2 DEF CallsOK, Run
      <4> QED BY <2>1, <3>1, <4>1, <4>2 DEF SlotOK
    <3>2. CASE t # s
      BY <2>2, <3>2 DEF CallsOK, SlotOK, Stays, RowsStay
    <3> QED BY <3>1, <3>2
  <2> QED BY <2>3, <2>4 DEF CallsOK
<1> QED BY <1>1, <1>2

(* A run changes its own locals in another way. *)
LEMMA StepOK ==
    ASSUME CallsOK, Stays, NEW s \in Slots,
           call' = [call EXCEPT ![s] = call'[s]],
           call'[s] \in Run(Labels), SlotOK(s)'
    PROVE  CallsOK'
<1>1. call' \in [Slots -> Run(Labels)] /\ \A t \in Slots \ {s} : call'[t] = call[t]
  BY DEF CallsOK
<1>2. ASSUME NEW t \in Slots, t # s PROVE SlotOK(t)'
  BY <1>1, <1>2 DEF CallsOK, SlotOK, Stays, RowsStay
<1> QED BY <1>1, <1>2 DEF CallsOK

(* An offer loop starts, to go on to label ret. *)
LEMMA OfferOK ==
    ASSUME CallsOK, Stays, NEW s \in Slots,
           NEW ret \in {"idle", "refuse", "failed.again"}, Offer(s, ret),
           ret # "idle" => call[s].i \in Intents
    PROVE  CallsOK'
<1>1. call' = [call EXCEPT ![s] = call'[s]] /\ call'[s] \in Run(Labels)
  <2>1. "offer.read" \in Labels /\ ret \in Labels
    BY DEF Labels, WaitlistLabels, OfferLabels, RefuseLabels, SettleLabels
  <2> QED BY <2>1, ZenonT(40) DEF CallsOK, Offer, Run
<1>2. SlotOK(s)'
  BY DEF CallsOK, SlotOK, Offer, Run, WithStudent, WithIntent,
     WithIntentIfPaid, AskLabels, ClaimLabels, CaptureLabels, PayLabels,
     RefuseLabels, SettleLabels, OfferRowLabels
<1> QED BY <1>1, <1>2, StepOK

(* A run starts to take back the seat an intent stands for. *)
LEMMA ReleaseOK ==
    ASSUME CallsOK, Stays, DataOK, NEW s \in Slots, NEW i \in Intents,
           NEW ret \in {"idle", "failed.again"}, Release(s, i, ret)
    PROVE  CallsOK'
<1>1. call' = [call EXCEPT ![s] = call'[s]] /\ call'[s] \in Run(Labels)
  <2>1. "release.paid" \in Labels /\ ret \in Labels
    BY DEF Labels, UnenrollLabels, SettleLabels
  <2>2. stripe[i].u \in Students \cup {NoOne}
    BY DEF DataOK, StripeOK, Intent
  <2> QED BY <2>1, <2>2, ZenonT(40) DEF CallsOK, Release, Run
<1>2. SlotOK(s)'
  BY DEF CallsOK, SlotOK, Release, Run, WithStudent, WithIntent,
     WithIntentIfPaid, AskLabels, ClaimLabels, CaptureLabels, PayLabels,
     RefuseLabels, SettleLabels, OfferRowLabels
<1> QED BY <1>1, <1>2, StepOK

(* A run counts the soft holds before it claims a seat. *)
LEMMA CountForClaimOK ==
    ASSUME CallsOK, Stays, NEW s \in Slots, NEW except,
           NEW take \in {"register.take", "pay.take"},
           NEW refused \in {"register.why", "pay.expire"},
           CountForClaim(s, except, take, refused),
           call[s].at # "update.write",
           call[s].u \in Students,
           Paid \/ take = "pay.take" => call[s].i \in Intents,
           refused = "pay.expire" => call[s].i \in Intents
    PROVE  CallsOK'
<1>0. take \in Labels /\ refused \in Labels
  BY DEF Labels, ClaimLabels, PayLabels
<1>1. CASE Goto(s, refused)
  BY <1>0, <1>1, GotoOK
     DEF WithStudent, WithIntent, WithIntentIfPaid, OfferRowLabels, AskLabels,
         ClaimLabels, CaptureLabels, PayLabels, RefuseLabels, SettleLabels
<1>2. CASE call' = [call EXCEPT ![s].at = take, ![s].soft = SoftHeld(except)]
  <2>1. call' = [call EXCEPT ![s] = call'[s]] /\ call'[s] \in Run(Labels)
    BY <1>0, <1>2, SoftHeldType, ZenonT(40) DEF CallsOK, Run
  <2>2. SlotOK(s)'
    BY <1>2 DEF CallsOK, SlotOK, Run, Stays, WithStudent, WithIntent,
       WithIntentIfPaid, OfferRowLabels, AskLabels, ClaimLabels,
       CaptureLabels, PayLabels, RefuseLabels, SettleLabels
  <2> QED BY <2>1, <2>2, StepOK
<1> QED BY <1>1, <1>2 DEF CountForClaim

(* The offer loop writes well-typed documents. *)
LEMMA OfferStepData ==
    ASSUME TInv, NEW s \in Slots, OfferStep(s) PROVE DataOK' /\ Stays
<1> USE DEF TInv, At, Labels, WithStudent, WithIntent, WithIntentIfPaid,
            WaitlistLabels, OfferLabels, OfferRowLabels, AskLabels,
            ClaimLabels, CaptureLabels, PayLabels, RefuseLabels,
            SettleLabels, UnenrollLabels
<1>1. CASE OfferRead(s)
  BY <1>1, SameOK DEF DataOK, Stays, OfferRead, At
<1>2. CASE OfferFull(s)
  BY <1>2, SameOK DEF DataOK, Stays, OfferFull, At
<1>3. CASE OfferPick(s)
  BY <1>3, SameOK DEF DataOK, Stays, OfferPick, At, RowsOf, RequestIds
<1>4. CASE OfferEnrolled(s)
  BY <1>4, SameOK, MoveStatusOK DEF DataOK, Stays, OfferEnrolled, RequestStatus
<1>5. CASE OfferMake(s)
  <2> DEFINE row == [requests[call[s].r] EXCEPT
                        !.status = "awaiting_payment", !.lapsed = FALSE]
  <2>1. CASE requests' = [requests EXCEPT ![call[s].r] = row]
    <3>0. requests[call[s].r] \in Request /\ requests[call[s].r].u \in Students
      BY <1>5, KnowsOK DEF OfferMake, DataOK, RequestsOK
    <3>1. row \in Request /\ row.status # "none" /\ row.u \in Students
      BY <3>0 DEF Request, RequestStatus
    <3> HIDE DEF row
    <3>2. RequestsOK' /\ RowsStay
      BY <2>1, <3>1 DEF DataOK, RequestsOK, RowsStay
    <3> QED BY <1>5, <3>2, SameOK DEF DataOK, Stays, OfferMake
  <2>2. CASE UNCHANGED requests
    BY <1>5, <2>2, SameOK DEF DataOK, Stays, OfferMake
  <2> QED BY <1>5, <2>1, <2>2 DEF OfferMake
<1>6. CASE OfferReread(s)
  BY <1>6, SameOK DEF DataOK, Stays, OfferReread, At
<1>7. CASE OfferRecheck(s)
  BY <1>7, SameOK DEF DataOK, Stays, OfferRecheck, At
<1>8. CASE OfferRollback(s)
  BY <1>8, SameOK, MoveStatusOK
     DEF DataOK, Stays, OfferRollback, At, RequestStatus
<1>9. CASE OfferCount(s)
  BY <1>9, SameOK DEF DataOK, Stays, OfferCount, At
<1>10. CASE OfferTake(s)
  <2>1. requests[call[s].r].u \in Students
    BY <1>10, KnowsOK DEF OfferTake, DataOK, RequestsOK
  <2> QED
    BY <1>10, <2>1, SameOK, StudentsOK DEF DataOK, Stays, OfferTake, At
<1>11. CASE OfferApprove(s)
  BY <1>11, SameOK, StudentsOK, SetStatusOK
     DEF DataOK, Stays, OfferApprove, At, RequestStatus
<1>12. CASE OfferConfirm(s)
  <2>1. requests[call[s].r].u \in Students
    BY <1>12, KnowsOK DEF OfferConfirm, DataOK, RequestsOK
  <2> QED
    BY <1>12, <2>1, SameOK, StudentsOK DEF DataOK, Stays, OfferConfirm, At
<1>13. CASE OfferConfirmFails(s)
  BY <1>13, SameOK, StudentsOK, WorldChangeOK
     DEF DataOK, Stays, OfferConfirmFails, At
<1>14. CASE OfferUndo(s)
  BY <1>14, SameOK, MoveStatusOK
     DEF DataOK, Stays, OfferUndo, At, RequestStatus
<1> QED
  BY <1>1, <1>2, <1>3, <1>4, <1>5, <1>6, <1>7, <1>8, <1>9, <1>10, <1>11,
     <1>12, <1>13, <1>14
     DEF OfferStep

(* The offer loop leaves its locals well typed. *)
LEMMA OfferStepCalls ==
    ASSUME TInv, NEW s \in Slots, OfferStep(s), Stays PROVE CallsOK'
<1> USE DEF TInv, At, Labels, WithStudent, WithIntent, WithIntentIfPaid,
            WaitlistLabels, OfferLabels, OfferRowLabels, AskLabels,
            ClaimLabels, CaptureLabels, PayLabels, RefuseLabels,
            SettleLabels, UnenrollLabels
<1>1. CASE OfferRead(s)
  <2>1. CASE EndOffer(s)
    BY <1>1, <2>1, EndOfferOK DEF OfferRead
  <2>2. CASE call' = [call EXCEPT ![s].at = "offer.full",
                 ![s].seen = seminar.enrolled, ![s].cap = seminar.cap]
    <3>1. seminar.enrolled \in SUBSET Students /\ seminar.cap \in Caps
      BY DEF DataOK, SeminarOK, Seminar
    <3>2. call' = [call EXCEPT ![s] = call'[s]] /\ call'[s] \in Run(Labels)
      <4>1. "offer.full" \in Labels
        OBVIOUS
      <4> HIDE DEF Labels
      <4> QED BY <2>2, <3>1, <4>1, ZenonT(40) DEF Run, CallsOK
    <3>3. SlotOK(s)'
      BY <1>1, <2>2 DEF OfferRead, Run, CallsOK, SlotOK
    <3> QED BY <3>2, <3>3, StepOK
  <2> QED BY <1>1, <2>1, <2>2 DEF OfferRead
<1>2. CASE OfferFull(s)
  BY <1>2, KnowsOK, EndOfferOK, GotoOK DEF OfferFull, At
<1>3. CASE OfferPick(s)
  <2>1. CASE Oldest = {}
    BY <1>3, <2>1, EndOfferOK DEF OfferPick
  <2>2. CASE Oldest # {}
    <3>1. PICK r \in Oldest :
              \/ call' = [call EXCEPT ![s].r = r, ![s].at = "offer.enrolled"]
              \/ call' = [call EXCEPT ![s].r = r, ![s].at = "offer.make"]
              \/ call' = [call EXCEPT ![s].r = r, ![s].at = "offer.count"]
      BY <1>3, <2>2 DEF OfferPick
    <3>2. r \in RequestIds /\ r \in 0..MaxRequests /\ requests'[r].status # "none"
      BY <1>3, StoreAssumption DEF OfferPick, Oldest, RowsOf, RequestIds
    <3>3. call' = [call EXCEPT ![s] = call'[s]] /\ call'[s] \in Run(Labels)
      BY <3>1, <3>2 DEF Run, CallsOK
    <3>4. SlotOK(s)'
      BY <1>3, <3>1, <3>2 DEF OfferPick, Run, CallsOK, SlotOK, RequestIds
    <3> QED BY <3>3, <3>4, StepOK
  <2> QED BY <2>1, <2>2
<1>4. CASE OfferEnrolled(s)
  BY <1>4, KnowsOK, GotoOK DEF OfferEnrolled, At
<1>5. CASE OfferMake(s)
  BY <1>5, KnowsOK, EndOfferOK, GotoOK DEF OfferMake, At
<1>6. CASE OfferReread(s)
  <2>1. PICK c \in Caps :
            call' = [call EXCEPT ![s].at = "offer.recheck",
                         ![s].seen = seminar.enrolled, ![s].cap = c]
    BY <1>6 DEF OfferReread, DataOK, SeminarOK, Seminar, Caps
  <2>2. seminar.enrolled \in SUBSET Students
    BY DEF DataOK, SeminarOK, Seminar
  <2>3. call' = [call EXCEPT ![s] = call'[s]] /\ call'[s] \in Run(Labels)
    <3>1. "offer.recheck" \in Labels
      OBVIOUS
    <3> HIDE DEF Labels
    <3> QED BY <2>1, <2>2, <3>1, ZenonT(40) DEF Run, CallsOK
  <2>4. SlotOK(s)'
    BY <1>6, <2>1, KnowsOK DEF OfferReread, Run, CallsOK, SlotOK
  <2> QED BY <2>3, <2>4, StepOK
<1>7. CASE OfferRecheck(s)
  BY <1>7, KnowsOK, GotoOK DEF OfferRecheck, At
<1>8. CASE OfferRollback(s)
  BY <1>8, KnowsOK, EndOfferOK DEF OfferRollback, At
<1>9. CASE OfferCount(s)
  <2>1. CASE EndOffer(s)
    BY <1>9, <2>1, EndOfferOK DEF OfferCount
  <2>2. CASE call' = [call EXCEPT ![s].at = "offer.take",
                                  ![s].soft = SoftHeld(NoOne)]
    <3>1. call' = [call EXCEPT ![s] = call'[s]] /\ call'[s] \in Run(Labels)
      <4>1. "offer.take" \in Labels
        OBVIOUS
      <4> HIDE DEF Labels
      <4> QED BY <2>2, <4>1, SoftHeldType, ZenonT(40) DEF Run, CallsOK
    <3>2. SlotOK(s)'
      BY <1>9, <2>2, KnowsOK DEF OfferCount, Run, CallsOK, SlotOK
    <3> QED BY <3>1, <3>2, StepOK
  <2> QED BY <1>9, <2>1, <2>2 DEF OfferCount
<1>10. CASE OfferTake(s)
  BY <1>10, KnowsOK, EndOfferOK, GotoOK DEF OfferTake, At
<1>11. CASE OfferApprove(s)
  BY <1>11, KnowsOK, EndOfferOK, GotoOK DEF OfferApprove, At
<1>12. CASE OfferConfirm(s)
  BY <1>12, KnowsOK, GotoOK DEF OfferConfirm, At
<1>13. CASE OfferConfirmFails(s)
  BY <1>13, KnowsOK, GotoOK DEF OfferConfirmFails, At
<1>14. CASE OfferUndo(s)
  BY <1>14, KnowsOK, EndOfferOK DEF OfferUndo, At
<1> QED
  BY <1>1, <1>2, <1>3, <1>4, <1>5, <1>6, <1>7, <1>8, <1>9, <1>10, <1>11,
     <1>12, <1>13, <1>14
     DEF OfferStep

(* A run of the waitlist writes well-typed documents. *)
LEMMA WaitlistStepData ==
    ASSUME TInv, NEW s \in Slots, WaitlistStep(s) PROVE DataOK' /\ Stays
<1> USE DEF TInv, At, Labels, WithStudent, WithIntent, WithIntentIfPaid,
            WaitlistLabels, OfferLabels, OfferRowLabels, AskLabels,
            ClaimLabels, CaptureLabels, PayLabels, RefuseLabels,
            SettleLabels, UnenrollLabels
<1>1. CASE OfferStep(s)
  BY <1>1, OfferStepData
<1>2. CASE RequestFull(s)
  BY <1>2, SameOK DEF DataOK, Stays, RequestFull, At
<1>3. CASE RequestFind(s)
  BY <1>3, SameOK DEF DataOK, Stays, RequestFind, At
<1>4. CASE RequestInsert(s)
  <2>1. call[s].u \in Students
    BY <1>4, KnowsOK DEF RequestInsert
  <2> QED
    BY <1>4, <2>1, SameOK, InsertRequestOK
       DEF DataOK, Stays, RequestInsert, At, NextRequest, RowsOf,
           RequestIds, RequestStatus
<1>5. CASE InviteFind(s)
  BY <1>5, SameOK DEF DataOK, Stays, InviteFind, At
<1>6. CASE InviteSend(s)
  <2>1. call[s].u \in Students
    BY <1>6, KnowsOK DEF InviteSend
  <2>2. SeminarOK' /\ RequestsOK' /\ RowsStay
    <3>1. CASE UNCHANGED seminar /\ \E r \in NextRequest :
                   InsertRequest(r, call[s].u, "awaiting_payment")
      BY <2>1, <3>1, SameOK, InsertRequestOK
         DEF DataOK, RequestStatus, NextRequest, RowsOf
    <3>2. CASE UNCHANGED seminar /\ UNCHANGED requests
      BY <3>2, SameOK
    <3>3. CASE AddStudent(call[s].u) /\ UNCHANGED requests
      BY <2>1, <3>3, SameOK, StudentsOK DEF DataOK
    <3> QED BY <1>6, <3>1, <3>2, <3>3 DEF InviteSend
  <2> QED BY <1>6, <2>2, SameOK DEF DataOK, Stays, InviteSend
<1>7. CASE UpdateWrite(s)
  <2>1. SeminarOK'
    BY <1>7 DEF UpdateWrite, CallsOK, Run, DataOK, SeminarOK, Seminar
  <2> QED BY <1>7, <2>1, SameOK DEF DataOK, Stays, UpdateWrite
<1> QED
  BY <1>1, <1>2, <1>3, <1>4, <1>5, <1>6, <1>7 DEF WaitlistStep

(* A run of the waitlist leaves its locals well typed. *)
LEMMA WaitlistStepCalls ==
    ASSUME TInv, NEW s \in Slots, WaitlistStep(s), Stays PROVE CallsOK'
<1> USE DEF TInv, At, Labels, WithStudent, WithIntent, WithIntentIfPaid,
            WaitlistLabels, OfferLabels, OfferRowLabels, AskLabels,
            ClaimLabels, CaptureLabels, PayLabels, RefuseLabels,
            SettleLabels, UnenrollLabels
<1>1. CASE OfferStep(s)
  BY <1>1, OfferStepCalls
<1>2. CASE RequestFull(s)
  BY <1>2, KnowsOK, FinishOK, GotoOK DEF RequestFull, At
<1>3. CASE RequestFind(s)
  BY <1>3, KnowsOK, FinishOK, GotoOK DEF RequestFind, At
<1>4. CASE RequestInsert(s)
  BY <1>4, KnowsOK, FinishOK
     DEF RequestInsert, At, NextRequest, RowsOf, RequestIds
<1>5. CASE InviteFind(s)
  BY <1>5, KnowsOK, FinishOK, GotoOK DEF InviteFind, At
<1>6. CASE InviteSend(s)
  BY <1>6, KnowsOK, FinishOK
     DEF InviteSend, At, NextRequest, RowsOf, RequestIds
<1>7. CASE UpdateWrite(s)
  <2>1. CASE Finish(s)
    BY <2>1, FinishOK
  <2>2. CASE Offer(s, "idle")
    BY <2>2, OfferOK
  <2> QED BY <1>7, <2>1, <2>2 DEF UpdateWrite
<1> QED
  BY <1>1, <1>2, <1>3, <1>4, <1>5, <1>6, <1>7 DEF WaitlistStep

(* A registration writes well-typed documents. *)
LEMMA RegisterStepData ==
    ASSUME TInv, NEW s \in Slots, RegisterStep(s) PROVE DataOK' /\ Stays
<1> USE DEF TInv, At, Labels, WithStudent, WithIntent, WithIntentIfPaid,
            WaitlistLabels, OfferLabels, OfferRowLabels, AskLabels,
            ClaimLabels, CaptureLabels, PayLabels, RefuseLabels,
            SettleLabels, UnenrollLabels
<1>1. CASE RegisterFull(s)
  BY <1>1, SameOK DEF DataOK, Stays, RegisterFull, At
<1>2. CASE RegisterFind(s)
  BY <1>2, SameOK DEF DataOK, Stays, RegisterFind, At
<1>3. CASE RegisterJoin(s)
  <2>1. call[s].u \in Students
    BY <1>3, KnowsOK DEF RegisterJoin
  <2> QED
    BY <1>3, <2>1, SameOK, InsertRequestOK
       DEF DataOK, Stays, RegisterJoin, At, NextRequest, RowsOf, RequestIds,
           RequestStatus
<1>4. CASE RegisterConsumed(s)
  BY <1>4, SameOK DEF DataOK, Stays, RegisterConsumed, At
<1>5. CASE RegisterProbe(s)
  BY <1>5, SameOK DEF DataOK, Stays, RegisterProbe, At
<1>6. CASE RegisterCount(s)
  BY <1>6, SameOK DEF DataOK, Stays, RegisterCount, At
<1>7. CASE RegisterTake(s)
  <2>1. call[s].u \in Students
    BY <1>7, KnowsOK DEF RegisterTake
  <2> QED
    BY <1>7, <2>1, SameOK, StudentsOK DEF DataOK, Stays, RegisterTake, At
<1>8. CASE RegisterWhy(s)
  BY <1>8, SameOK DEF DataOK, Stays, RegisterWhy, At
<1>9. CASE RegisterOwned(s)
  BY <1>9, SameOK DEF DataOK, Stays, RegisterOwned, At, Recorded
<1>10. CASE RegisterWhyFull(s)
  BY <1>10, SameOK DEF DataOK, Stays, RegisterWhyFull, At
<1>11. CASE RegisterWhyFind(s)
  BY <1>11, SameOK DEF DataOK, Stays, RegisterWhyFind, At
<1>12. CASE RegisterWhyCancel(s)
  <2>1. call[s].i \in Intents
    BY <1>12, KnowsOK DEF RegisterWhyCancel
  <2> QED
    BY <1>12, <2>1, SameOK, HoldChangeOK
       DEF DataOK, Stays, RegisterWhyCancel, At
<1>13. CASE RegisterWhyJoin(s)
  <2>1. call[s].u \in Students
    BY <1>13, KnowsOK DEF RegisterWhyJoin
  <2> QED
    BY <1>13, <2>1, SameOK, InsertRequestOK
       DEF DataOK, Stays, RegisterWhyJoin, At, NextRequest, RowsOf,
           RequestIds, RequestStatus
<1>14. CASE RegisterLookup(s)
  BY <1>14, SameOK DEF DataOK, Stays, RegisterLookup, At
<1>15. CASE RegisterInsert(s)
  BY <1>15, SameOK, LedgerChangeOK
     DEF DataOK, Stays, RegisterInsert, At, Recorded, ChargeStatus
<1>16. CASE RegisterInsertFails(s)
  BY <1>16, SameOK, WorldChangeOK DEF DataOK, Stays, RegisterInsertFails, At
<1>17. CASE RegisterAbort(s)
  BY <1>17, SameOK, StudentsOK DEF DataOK, Stays, RegisterAbort, At
<1>18. CASE RegisterDup(s)
  BY <1>18, SameOK, StudentsOK DEF DataOK, Stays, RegisterDup, At
<1>19. CASE RegisterCapture(s)
  <2>1. call[s].i \in Intents
    BY <1>19, KnowsOK DEF RegisterCapture
  <2> QED
    BY <1>19, <2>1, SameOK, HoldChangeOK
       DEF DataOK, Stays, RegisterCapture, At, CanCapture
<1>20. CASE RegisterCaptureFails(s)
  BY <1>20, SameOK, WorldChangeOK
     DEF DataOK, Stays, RegisterCaptureFails, At
<1>21. CASE RegisterCaptureLost(s)
  <2>1. call[s].i \in Intents
    BY <1>21, KnowsOK DEF RegisterCaptureLost
  <2> QED
    BY <1>21, <2>1, SameOK, HoldChangeOK, WorldChangeOK
       DEF DataOK, Stays, RegisterCaptureLost, At, CanCapture
<1>22. CASE RegisterCapFail(s)
  BY <1>22, SameOK, StudentsOK DEF DataOK, Stays, RegisterCapFail, At
<1>23. CASE RegisterCapCancel(s)
  <2>1. call[s].i \in Intents
    BY <1>23, KnowsOK DEF RegisterCapCancel
  <2> QED
    BY <1>23, <2>1, SameOK, HoldChangeOK
       DEF DataOK, Stays, RegisterCapCancel, At
<1>24. CASE RegisterCancelFails(s)
  BY <1>24, SameOK, WorldChangeOK DEF DataOK, Stays, RegisterCancelFails, At
<1>25. CASE RegisterCapDelete(s)
  BY <1>25, SameOK, LedgerChangeOK
     DEF DataOK, Stays, RegisterCapDelete, At, ChargeStatus
<1>26. CASE RegisterConfirm(s)
  <2>1. call[s].u \in Students
    BY <1>26, KnowsOK DEF RegisterConfirm
  <2> QED
    BY <1>26, <2>1, SameOK, StudentsOK
       DEF DataOK, Stays, RegisterConfirm, At
<1>27. CASE RegisterRecord(s)
  BY <1>27, SameOK, LedgerChangeOK
     DEF DataOK, Stays, RegisterRecord, At, Recorded, ChargeStatus
<1>28. CASE RegisterSettle(s)
  BY <1>28, SameOK, LedgerChangeOK
     DEF DataOK, Stays, RegisterSettle, At, Recorded, ChargeStatus
<1>29. CASE RegisterConfirmFails(s)
  BY <1>29, SameOK, StudentsOK, WorldChangeOK
     DEF DataOK, Stays, RegisterConfirmFails, At
<1>30. CASE RegisterPaid(s)
  BY <1>30, SameOK, LedgerChangeOK
     DEF DataOK, Stays, RegisterPaid, At, Recorded, ChargeStatus
<1> QED
  BY <1>1, <1>2, <1>3, <1>4, <1>5, <1>6, <1>7, <1>8, <1>9, <1>10, <1>11,
     <1>12, <1>13, <1>14, <1>15, <1>16, <1>17, <1>18, <1>19, <1>20, <1>21,
     <1>22, <1>23, <1>24, <1>25, <1>26, <1>27, <1>28, <1>29, <1>30
     DEF RegisterStep

(* A registration leaves its locals well typed. *)
LEMMA RegisterStepCalls ==
    ASSUME TInv, NEW s \in Slots, RegisterStep(s), Stays PROVE CallsOK'
<1> USE DEF TInv, At, Labels, WithStudent, WithIntent, WithIntentIfPaid,
            WaitlistLabels, OfferLabels, OfferRowLabels, AskLabels,
            ClaimLabels, CaptureLabels, PayLabels, RefuseLabels,
            SettleLabels, UnenrollLabels
<1>1. CASE RegisterFull(s)
  BY <1>1, KnowsOK, GotoOK DEF RegisterFull, At, Checkin
<1>2. CASE RegisterFind(s)
  BY <1>2, KnowsOK, GotoOK DEF RegisterFind, At, Checkin
<1>3. CASE RegisterJoin(s)
  BY <1>3, KnowsOK, FinishOK, GotoOK
     DEF RegisterJoin, At, Checkin, NextRequest, RowsOf, RequestIds
<1>4. CASE RegisterConsumed(s)
  <2>1. call[s].i \in Intents \cup {NoIntent}
    BY DEF CallsOK, Run
  <2> QED BY <1>4, <2>1, KnowsOK, GotoOK, FinishOK DEF RegisterConsumed
<1>5. CASE RegisterProbe(s)
  <2>1. call' = [call EXCEPT ![s] = call'[s]] /\ call'[s] \in Run(Labels)
    BY <1>5, KnowsOK, SoftHeldType, IdleType, StoreAssumption
       DEF RegisterProbe, At, FoundAs, Finish, Run, CallsOK, DataOK,
           SeminarOK, Seminar, Caps
  <2>2. SlotOK(s)'
    BY <1>5, KnowsOK
       DEF RegisterProbe, At, FoundAs, Finish, Run, CallsOK, SlotOK, Idle
  <2> QED BY <2>1, <2>2, StepOK
<1>6. CASE RegisterCount(s)
  BY <1>6, KnowsOK, CountForClaimOK, GotoOK, FinishOK DEF RegisterCount, Refuse
<1>7. CASE RegisterTake(s)
  BY <1>7, KnowsOK, GotoOK DEF RegisterTake, At
<1>8. CASE RegisterWhy(s)
  <2>1. call' = [call EXCEPT ![s] = call'[s]] /\ call'[s] \in Run(Labels)
    BY <1>8, KnowsOK, SoftHeldType, IdleType, StoreAssumption
       DEF RegisterWhy, At, Refuse, Finish, Goto, Run, CallsOK, DataOK,
           SeminarOK, Seminar, Caps
  <2>2. SlotOK(s)'
    BY <1>8, KnowsOK
       DEF RegisterWhy, At, Refuse, Finish, Goto, Run, CallsOK, SlotOK, Idle
  <2> QED BY <2>1, <2>2, StepOK
<1>9. CASE RegisterOwned(s)
  BY <1>9, KnowsOK, FinishOK, GotoOK DEF RegisterOwned, At, Recorded, Refuse
<1>10. CASE RegisterWhyFull(s)
  BY <1>10, KnowsOK, FinishOK, GotoOK DEF RegisterWhyFull, At, Refuse
<1>11. CASE RegisterWhyFind(s)
  BY <1>11, KnowsOK, FinishOK, GotoOK DEF RegisterWhyFind, At, Refuse
<1>12. CASE RegisterWhyCancel(s)
  BY <1>12, KnowsOK, GotoOK DEF RegisterWhyCancel, At
<1>13. CASE RegisterWhyJoin(s)
  BY <1>13, KnowsOK, FinishOK, GotoOK
     DEF RegisterWhyJoin, At, Refuse, NextRequest, RowsOf, RequestIds
<1>14. CASE RegisterLookup(s)
  <2>1. call' = [call EXCEPT ![s] = call'[s]] /\ call'[s] \in Run(Labels)
    <3>1. PICK l \in {"register.confirm", "register.capture", "register.insert"},
               known \in BOOLEAN :
               call' = [call EXCEPT ![s].row = known, ![s].at = l]
      BY <1>14 DEF RegisterLookup
    <3>2. call'[s] = [call[s] EXCEPT !.row = known, !.at = l]
          /\ call' = [call EXCEPT ![s] = call'[s]]
      BY <3>1 DEF CallsOK
    <3>3. call[s] \in Run(Labels)
      BY DEF CallsOK
    <3>4. l \in Labels
      OBVIOUS
    <3> HIDE DEF Labels
    <3> QED BY <3>2, <3>3, <3>4 DEF Run
  <2>2. SlotOK(s)'
    BY <1>14, KnowsOK DEF RegisterLookup, At, Run, CallsOK, SlotOK, Idle
  <2> QED BY <2>1, <2>2, StepOK
<1>15. CASE RegisterInsert(s)
  <2>1. call' = [call EXCEPT ![s] = call'[s]] /\ call'[s] \in Run(Labels)
    BY <1>15, KnowsOK, SoftHeldType, IdleType, StoreAssumption
       DEF RegisterInsert, At, Recorded, Goto, Run, CallsOK, DataOK,
           SeminarOK, Seminar, Caps
  <2>2. SlotOK(s)'
    BY <1>15, KnowsOK
       DEF RegisterInsert, At, Recorded, Goto, Run, CallsOK, SlotOK, Idle
  <2> QED BY <2>1, <2>2, StepOK
<1>16. CASE RegisterInsertFails(s)
  BY <1>16, KnowsOK, GotoOK DEF RegisterInsertFails, At
<1>17. CASE RegisterAbort(s)
  BY <1>17, KnowsOK, GotoOK DEF RegisterAbort, At
<1>18. CASE RegisterDup(s)
  BY <1>18, KnowsOK, FinishOK DEF RegisterDup, At
<1>19. CASE RegisterCapture(s)
  <2>1. call' = [call EXCEPT ![s] = call'[s]] /\ call'[s] \in Run(Labels)
    BY <1>19, KnowsOK, SoftHeldType, IdleType, StoreAssumption
       DEF RegisterCapture, At, CanCapture, Goto, Run, CallsOK, DataOK,
           SeminarOK, Seminar, Caps
  <2>2. SlotOK(s)'
    BY <1>19, KnowsOK
       DEF RegisterCapture, At, CanCapture, Goto, Run, CallsOK, SlotOK, Idle
  <2> QED BY <2>1, <2>2, StepOK
<1>20. CASE RegisterCaptureFails(s)
  BY <1>20, KnowsOK, GotoOK DEF RegisterCaptureFails, At
<1>21. CASE RegisterCaptureLost(s)
  BY <1>21, KnowsOK, GotoOK DEF RegisterCaptureLost, At, CanCapture
<1>22. CASE RegisterCapFail(s)
  BY <1>22, KnowsOK, GotoOK DEF RegisterCapFail, At
<1>23. CASE RegisterCapCancel(s)
  BY <1>23, KnowsOK, FinishOK, GotoOK DEF RegisterCapCancel, At
<1>24. CASE RegisterCancelFails(s)
  BY <1>24, KnowsOK, FinishOK, GotoOK DEF RegisterCancelFails, At
<1>25. CASE RegisterCapDelete(s)
  BY <1>25, KnowsOK, FinishOK DEF RegisterCapDelete, At
<1>26. CASE RegisterConfirm(s)
  BY <1>26, KnowsOK, FinishOK, GotoOK DEF RegisterConfirm, At
<1>27. CASE RegisterRecord(s)
  BY <1>27, KnowsOK, FinishOK DEF RegisterRecord, At, Recorded
<1>28. CASE RegisterSettle(s)
  BY <1>28, KnowsOK, FinishOK DEF RegisterSettle, At, Recorded
<1>29. CASE RegisterConfirmFails(s)
  BY <1>29, KnowsOK, FinishOK, GotoOK DEF RegisterConfirmFails, At, Refuse
<1>30. CASE RegisterPaid(s)
  BY <1>30, KnowsOK, GotoOK DEF RegisterPaid, At, Recorded
<1> QED
  BY <1>1, <1>2, <1>3, <1>4, <1>5, <1>6, <1>7, <1>8, <1>9, <1>10, <1>11,
     <1>12, <1>13, <1>14, <1>15, <1>16, <1>17, <1>18, <1>19, <1>20, <1>21,
     <1>22, <1>23, <1>24, <1>25, <1>26, <1>27, <1>28, <1>29, <1>30
     DEF RegisterStep

(* The payment of an offer writes well-typed documents. *)
LEMMA PayStepData ==
    ASSUME TInv, NEW s \in Slots, PayStep(s) PROVE DataOK' /\ Stays
<1> USE DEF TInv, At, Labels, WithStudent, WithIntent, WithIntentIfPaid,
            WaitlistLabels, OfferLabels, OfferRowLabels, AskLabels,
            ClaimLabels, CaptureLabels, PayLabels, RefuseLabels,
            SettleLabels, UnenrollLabels
<1>1. CASE PayRead(s)
  BY <1>1, SameOK DEF DataOK, Stays, PayRead, At
<1>2. CASE PayConsumed(s)
  BY <1>2, SameOK DEF DataOK, Stays, PayConsumed, At, Recorded
<1>3. CASE PayProbe(s)
  BY <1>3, SameOK DEF DataOK, Stays, PayProbe, At
<1>4. CASE PayClearing(s)
  BY <1>4, SameOK DEF DataOK, Stays, PayClearing, At
<1>5. CASE PayCount(s)
  BY <1>5, SameOK DEF DataOK, Stays, PayCount, At
<1>6. CASE PayTake(s)
  <2>1. call[s].u \in Students
    BY <1>6, KnowsOK DEF PayTake
  <2> QED
    BY <1>6, <2>1, SameOK, StudentsOK DEF DataOK, Stays, PayTake, At
<1>7. CASE PayExpire(s)
  BY <1>7, SameOK, MoveStatusOK
     DEF DataOK, Stays, PayExpire, At, RequestStatus
<1>8. CASE PayApprove(s)
  <2>1. CASE requests[call[s].r].status = "awaiting_payment"
    <3> DEFINE row == [requests[call[s].r] EXCEPT !.status = "approved",
                                                  !.i = call[s].i]
    <3>1. call[s].i \in Intents
      BY <1>8, KnowsOK DEF PayApprove
    <3>2. call[s].r \in RequestIds =>
              row \in Request /\ row.status # "none" /\ row.u \in Students
      BY <2>1, <3>1 DEF DataOK, RequestsOK, Request, RequestStatus
    <3>3. requests' = [requests EXCEPT ![call[s].r] = row]
      BY <1>8, <2>1 DEF PayApprove
    <3> HIDE DEF row
    <3>4. RequestsOK' /\ RowsStay
      BY <3>2, <3>3 DEF DataOK, RequestsOK, RowsStay
    <3> QED BY <1>8, <3>4, SameOK DEF DataOK, Stays, PayApprove
  <2>2. CASE requests[call[s].r].status # "awaiting_payment"
    BY <1>8, <2>2, SameOK DEF DataOK, Stays, PayApprove
  <2> QED BY <2>1, <2>2
<1>9. CASE PayLost(s)
  BY <1>9, SameOK, StudentsOK DEF DataOK, Stays, PayLost, At
<1>10. CASE PayInsert(s)
  BY <1>10, SameOK, LedgerChangeOK
     DEF DataOK, Stays, PayInsert, At, Recorded, ChargeStatus
<1>11. CASE PayInsertFails(s)
  BY <1>11, SameOK, WorldChangeOK DEF DataOK, Stays, PayInsertFails, At
<1>12. CASE PayDup(s)
  BY <1>12, SameOK, StudentsOK DEF DataOK, Stays, PayDup, At
<1>13. CASE PayReopen(s)
  BY <1>13, SameOK, MoveStatusOK
     DEF DataOK, Stays, PayReopen, At, RequestStatus
<1>14. CASE PayConfirm(s)
  <2>1. call[s].u \in Students
    BY <1>14, KnowsOK DEF PayConfirm
  <2> QED
    BY <1>14, <2>1, SameOK, StudentsOK DEF DataOK, Stays, PayConfirm, At
<1>15. CASE PayConfirmFails(s)
  BY <1>15, SameOK, StudentsOK, WorldChangeOK
     DEF DataOK, Stays, PayConfirmFails, At
<1>16. CASE PayRefund(s)
  <2>1. call[s].i \in Intents
    BY <1>16, KnowsOK DEF PayRefund
  <2> QED
    BY <1>16, <2>1, SameOK, StripeChangeOK
       DEF DataOK, Stays, PayRefund, At, IntentStatus
<1>17. CASE PayRefundFails(s)
  BY <1>17, SameOK, WorldChangeOK DEF DataOK, Stays, PayRefundFails, At
<1>18. CASE PayBook(s)
  BY <1>18, SameOK, LedgerChangeOK
     DEF DataOK, Stays, PayBook, At, ChargeStatus
<1>19. CASE PayFail(s)
  BY <1>19, SameOK, MoveStatusOK
     DEF DataOK, Stays, PayFail, At, RequestStatus
<1> QED
  BY <1>1, <1>2, <1>3, <1>4, <1>5, <1>6, <1>7, <1>8, <1>9, <1>10, <1>11,
     <1>12, <1>13, <1>14, <1>15, <1>16, <1>17, <1>18, <1>19
     DEF PayStep

(* The payment of an offer leaves its locals well typed. *)
LEMMA PayStepCalls ==
    ASSUME TInv, NEW s \in Slots, PayStep(s), Stays PROVE CallsOK'
<1> USE DEF TInv, At, Labels, WithStudent, WithIntent, WithIntentIfPaid,
            WaitlistLabels, OfferLabels, OfferRowLabels, AskLabels,
            ClaimLabels, CaptureLabels, PayLabels, RefuseLabels,
            SettleLabels, UnenrollLabels
<1>1. CASE PayRead(s)
  <2>1. call' = [call EXCEPT ![s] = call'[s]] /\ call'[s] \in Run(Labels)
    BY <1>1, KnowsOK, SoftHeldType, IdleType, StoreAssumption
       DEF PayRead, At, Finish, Run, CallsOK, DataOK, SeminarOK, Seminar,
           Caps
  <2>2. SlotOK(s)'
    BY <1>1, KnowsOK DEF PayRead, At, Finish, Run, CallsOK, SlotOK, Idle
  <2> QED BY <2>1, <2>2, StepOK
<1>2. CASE PayConsumed(s)
  BY <1>2, KnowsOK, FinishOK, GotoOK DEF PayConsumed, At, Recorded
<1>3. CASE PayProbe(s)
  <2>1. call' = [call EXCEPT ![s] = call'[s]] /\ call'[s] \in Run(Labels)
    BY <1>3, KnowsOK, SoftHeldType, IdleType, StoreAssumption
       DEF PayProbe, At, PayFound, Finish, Goto, Run, CallsOK, DataOK,
           SeminarOK, Seminar, Caps
  <2>2. SlotOK(s)'
    BY <1>3, KnowsOK
       DEF PayProbe, At, PayFound, Finish, Goto, Run, CallsOK, SlotOK, Idle
  <2> QED BY <2>1, <2>2, StepOK
<1>4. CASE PayClearing(s)
  <2>1. call' = [call EXCEPT ![s] = call'[s]] /\ call'[s] \in Run(Labels)
    BY <1>4, KnowsOK, SoftHeldType, IdleType, StoreAssumption
       DEF PayClearing, At, PayFound, Finish, Run, CallsOK, DataOK,
           SeminarOK, Seminar, Caps
  <2>2. SlotOK(s)'
    BY <1>4, KnowsOK
       DEF PayClearing, At, PayFound, Finish, Run, CallsOK, SlotOK, Idle
  <2> QED BY <2>1, <2>2, StepOK
<1>5. CASE PayCount(s)
  BY <1>5, KnowsOK, CountForClaimOK DEF PayCount
<1>6. CASE PayTake(s)
  BY <1>6, KnowsOK, GotoOK DEF PayTake, At
<1>7. CASE PayExpire(s)
  BY <1>7, KnowsOK, OfferOK DEF PayExpire, At
<1>8. CASE PayApprove(s)
  BY <1>8, KnowsOK, GotoOK DEF PayApprove, At
<1>9. CASE PayLost(s)
  BY <1>9, KnowsOK, GotoOK DEF PayLost, At
<1>10. CASE PayInsert(s)
  <2>1. call' = [call EXCEPT ![s] = call'[s]] /\ call'[s] \in Run(Labels)
    BY <1>10, KnowsOK, SoftHeldType, IdleType, StoreAssumption
       DEF PayInsert, At, Recorded, Goto, Run, CallsOK, DataOK, SeminarOK,
           Seminar, Caps
  <2>2. SlotOK(s)'
    BY <1>10, KnowsOK
       DEF PayInsert, At, Recorded, Goto, Run, CallsOK, SlotOK, Idle
  <2> QED BY <2>1, <2>2, StepOK
<1>11. CASE PayInsertFails(s)
  BY <1>11, KnowsOK, GotoOK DEF PayInsertFails, At
<1>12. CASE PayDup(s)
  BY <1>12, KnowsOK, GotoOK DEF PayDup, At
<1>13. CASE PayReopen(s)
  BY <1>13, KnowsOK, FinishOK DEF PayReopen, At
<1>14. CASE PayConfirm(s)
  BY <1>14, KnowsOK, FinishOK DEF PayConfirm, At
<1>15. CASE PayConfirmFails(s)
  BY <1>15, KnowsOK, GotoOK DEF PayConfirmFails, At
<1>16. CASE PayRefund(s)
  BY <1>16, KnowsOK, GotoOK DEF PayRefund, At
<1>17. CASE PayRefundFails(s)
  BY <1>17, KnowsOK, GotoOK DEF PayRefundFails, At
<1>18. CASE PayBook(s)
  BY <1>18, KnowsOK, GotoOK DEF PayBook, At
<1>19. CASE PayFail(s)
  BY <1>19, KnowsOK, OfferOK DEF PayFail, At
<1> QED
  BY <1>1, <1>2, <1>3, <1>4, <1>5, <1>6, <1>7, <1>8, <1>9, <1>10, <1>11,
     <1>12, <1>13, <1>14, <1>15, <1>16, <1>17, <1>18, <1>19
     DEF PayStep

(* A run that buys a seat writes well-typed documents. *)
LEMMA RegistrationStepData ==
    ASSUME TInv, NEW s \in Slots, RegistrationStep(s) PROVE DataOK' /\ Stays
<1> USE DEF TInv, At, Labels, WithStudent, WithIntent, WithIntentIfPaid,
            WaitlistLabels, OfferLabels, OfferRowLabels, AskLabels,
            ClaimLabels, CaptureLabels, PayLabels, RefuseLabels,
            SettleLabels, UnenrollLabels
<1>1. CASE RegisterStep(s)
  BY <1>1, RegisterStepData
<1>2. CASE PayStep(s)
  BY <1>2, PayStepData
<1>3. CASE RefuseStep(s)
  <2>1. call[s].i \in Intents
    BY <1>3, KnowsOK DEF RefuseStep
  <2> QED
    BY <1>3, <2>1, SameOK, HoldChangeOK, StripeChangeOK
       DEF DataOK, Stays, RefuseStep, At, IntentStatus
<1>4. CASE RefuseFails(s)
  BY <1>4, SameOK, WorldChangeOK DEF DataOK, Stays, RefuseFails, At
<1>5. CASE RefuseRow(s)
  BY <1>5, SameOK, LedgerChangeOK
     DEF DataOK, Stays, RefuseRow, At, ChargeStatus
<1>6. CASE OrphanRecorded(s)
  BY <1>6, SameOK DEF DataOK, Stays, OrphanRecorded, At, Recorded
<1> QED
  BY <1>1, <1>2, <1>3, <1>4, <1>5, <1>6 DEF RegistrationStep

(* A run that buys a seat leaves its locals well typed. *)
LEMMA RegistrationStepCalls ==
    ASSUME TInv, NEW s \in Slots, RegistrationStep(s), Stays PROVE CallsOK'
<1> USE DEF TInv, At, Labels, WithStudent, WithIntent, WithIntentIfPaid,
            WaitlistLabels, OfferLabels, OfferRowLabels, AskLabels,
            ClaimLabels, CaptureLabels, PayLabels, RefuseLabels,
            SettleLabels, UnenrollLabels
<1>1. CASE RegisterStep(s)
  BY <1>1, RegisterStepCalls
<1>2. CASE PayStep(s)
  BY <1>2, PayStepCalls
<1>3. CASE RefuseStep(s)
  BY <1>3, KnowsOK, FinishOK, GotoOK DEF RefuseStep, At
<1>4. CASE RefuseFails(s)
  BY <1>4, KnowsOK, FinishOK DEF RefuseFails, At
<1>5. CASE RefuseRow(s)
  BY <1>5, KnowsOK, FinishOK DEF RefuseRow, At
<1>6. CASE OrphanRecorded(s)
  <2>1. CASE Finish(s)
    BY <2>1, FinishOK
  <2>2. CASE \/ call' = [call EXCEPT ![s].at = "refuse", ![s].pays = "held"]
             \/ call' = [call EXCEPT ![s].at = "refuse", ![s].pays = "settled"]
    <3>1. call' = [call EXCEPT ![s] = call'[s]] /\ call'[s] \in Run(Labels)
      BY <2>2 DEF Run, CallsOK
    <3>2. SlotOK(s)'
      BY <1>6, <2>2, KnowsOK DEF OrphanRecorded, Run, CallsOK, SlotOK
    <3> QED BY <3>1, <3>2, StepOK
  <2> QED BY <1>6, <2>1, <2>2 DEF OrphanRecorded
<1> QED
  BY <1>1, <1>2, <1>3, <1>4, <1>5, <1>6 DEF RegistrationStep

(* What settles an intent writes well-typed documents. *)
LEMMA ReconcileStepData ==
    ASSUME TInv, NEW s \in Slots, ReconcileStep(s) PROVE DataOK' /\ Stays
<1> USE DEF TInv, At, Labels, WithStudent, WithIntent, WithIntentIfPaid,
            WaitlistLabels, OfferLabels, OfferRowLabels, AskLabels,
            ClaimLabels, CaptureLabels, PayLabels, RefuseLabels,
            SettleLabels, UnenrollLabels
<1>1. CASE LeaveFind(s)
  BY <1>1, SameOK DEF DataOK, Stays, LeaveFind, At
<1>2. CASE LeaveRefund(s)
  <2>1. call[s].i \in Intents
    BY <1>2, KnowsOK DEF LeaveRefund
  <2> QED
    BY <1>2, <2>1, SameOK, StripeChangeOK
       DEF DataOK, Stays, LeaveRefund, At, IntentStatus
<1>3. CASE LeaveRefundFails(s)
  BY <1>3, SameOK, WorldChangeOK DEF DataOK, Stays, LeaveRefundFails, At
<1>4. CASE LeaveRow(s)
  BY <1>4, SameOK, LedgerChangeOK
     DEF DataOK, Stays, LeaveRow, At, ChargeStatus
<1>5. CASE LeaveBook(s)
  BY <1>5, SameOK, LedgerChangeOK
     DEF DataOK, Stays, LeaveBook, At, ChargeStatus
<1>6. CASE LeaveUnenroll(s)
  BY <1>6, SameOK, StudentsOK DEF DataOK, Stays, LeaveUnenroll, At
<1>7. CASE ReleasePaid(s)
  BY <1>7, SameOK DEF DataOK, Stays, ReleasePaid, At
<1>8. CASE ReleaseUnenroll(s)
  BY <1>8, SameOK, StudentsOK DEF DataOK, Stays, ReleaseUnenroll, At
<1>9. CASE FailedRow(s)
  BY <1>9, SameOK, LedgerChangeOK
     DEF DataOK, Stays, FailedRow, At, ChargeStatus
<1>10. CASE FailedAgain(s)
  BY <1>10, SameOK DEF DataOK, Stays, FailedAgain, At
<1>11. CASE SucceededRecorded(s)
  BY <1>11, SameOK DEF DataOK, Stays, SucceededRecorded, At, Recorded
<1>12. CASE SucceededHeld(s)
  BY <1>12, SameOK DEF DataOK, Stays, SucceededHeld, At
<1>13. CASE SucceededDelivered(s)
  BY <1>13, SameOK DEF DataOK, Stays, SucceededDelivered, At
<1>14. CASE RecordCharge(s)
  BY <1>14, SameOK, LedgerChangeOK
     DEF DataOK, Stays, RecordCharge, At, Recorded, ChargeStatus
<1>15. CASE SweepSucceeded(s)
  BY <1>15, SameOK DEF DataOK, Stays, SweepSucceeded, At
<1>16. CASE SweepAuthorized(s)
  BY <1>16, SameOK DEF DataOK, Stays, SweepAuthorized, At
<1>17. CASE SweepProcessing(s)
  BY <1>17, SameOK DEF DataOK, Stays, SweepProcessing, At
<1>18. CASE SweepEnrolled(s)
  BY <1>18, SameOK DEF DataOK, Stays, SweepEnrolled, At
<1>19. CASE SweepSettle(s)
  BY <1>19, SameOK, LedgerChangeOK
     DEF DataOK, Stays, SweepSettle, At, ChargeStatus
<1>20. CASE SweepFail(s)
  BY <1>20, SameOK, LedgerChangeOK
     DEF DataOK, Stays, SweepFail, At, ChargeStatus
<1>21. CASE SweepRefund(s)
  <2>1. call[s].i \in Intents
    BY <1>21, KnowsOK DEF SweepRefund
  <2> QED
    BY <1>21, <2>1, SameOK, StripeChangeOK
       DEF DataOK, Stays, SweepRefund, At, IntentStatus
<1>22. CASE SweepRefunded(s)
  BY <1>22, SameOK, LedgerChangeOK
     DEF DataOK, Stays, SweepRefunded, At, ChargeStatus
<1>23. CASE SweepCancel(s)
  <2>1. call[s].i \in Intents
    BY <1>23, KnowsOK DEF SweepCancel
  <2> QED
    BY <1>23, <2>1, SameOK, HoldChangeOK DEF DataOK, Stays, SweepCancel, At
<1>24. CASE SweepReleased(s)
  BY <1>24, SameOK, LedgerChangeOK
     DEF DataOK, Stays, SweepReleased, At, ChargeStatus
<1>25. CASE SweepRefused(s)
  BY <1>25, SameOK, WorldChangeOK DEF DataOK, Stays, SweepRefused, At
<1>26. CASE OrphanHeld(s)
  BY <1>26, SameOK DEF DataOK, Stays, OrphanHeld, At, RowsOf, RequestIds
<1>27. CASE OrphanCancel(s)
  <2>1. call[s].i \in Intents
    BY <1>27, KnowsOK DEF OrphanCancel
  <2> QED
    BY <1>27, <2>1, SameOK, HoldChangeOK DEF DataOK, Stays, OrphanCancel, At
<1>28. CASE OrphanDelivered(s)
  BY <1>28, SameOK DEF DataOK, Stays, OrphanDelivered, At
<1> QED
  BY <1>1, <1>2, <1>3, <1>4, <1>5, <1>6, <1>7, <1>8, <1>9, <1>10, <1>11,
     <1>12, <1>13, <1>14, <1>15, <1>16, <1>17, <1>18, <1>19, <1>20, <1>21,
     <1>22, <1>23, <1>24, <1>25, <1>26, <1>27, <1>28
     DEF ReconcileStep

(* What settles an intent leaves its locals well typed. *)
LEMMA ReconcileStepCalls ==
    ASSUME TInv, NEW s \in Slots, ReconcileStep(s), Stays PROVE CallsOK'
<1> USE DEF TInv, At, Labels, WithStudent, WithIntent, WithIntentIfPaid,
            WaitlistLabels, OfferLabels, OfferRowLabels, AskLabels,
            ClaimLabels, CaptureLabels, PayLabels, RefuseLabels,
            SettleLabels, UnenrollLabels
<1>1. CASE LeaveFind(s)
  <2>1. CASE PaymentsOf(call[s].u) = {}
    BY <1>1, <2>1, GotoOK DEF LeaveFind
  <2>2. CASE PaymentsOf(call[s].u) # {}
    <3>1. PICK i \in PaymentsOf(call[s].u) :
              \/ call' = [call EXCEPT ![s].i = i, ![s].at = "leave.unenroll"]
              \/ call' = [call EXCEPT ![s].i = i, ![s].at = "leave.refund"]
      BY <1>1, <2>2 DEF LeaveFind
    <3>2. i \in Intents
      BY DEF PaymentsOf
    <3>3. call' = [call EXCEPT ![s] = call'[s]] /\ call'[s] \in Run(Labels)
      BY <3>1, <3>2 DEF Run, CallsOK
    <3>4. SlotOK(s)'
      BY <1>1, <3>1, <3>2 DEF LeaveFind, Run, CallsOK, SlotOK
    <3> QED BY <3>3, <3>4, StepOK
  <2> QED BY <2>1, <2>2
<1>2. CASE LeaveRefund(s)
  BY <1>2, KnowsOK, FinishOK, GotoOK DEF LeaveRefund, At
<1>3. CASE LeaveRefundFails(s)
  BY <1>3, KnowsOK, FinishOK DEF LeaveRefundFails, At
<1>4. CASE LeaveRow(s)
  BY <1>4, KnowsOK, GotoOK DEF LeaveRow, At
<1>5. CASE LeaveBook(s)
  BY <1>5, KnowsOK, GotoOK DEF LeaveBook, At
<1>6. CASE LeaveUnenroll(s)
  BY <1>6, KnowsOK, OfferOK DEF LeaveUnenroll, At
<1>7. CASE ReleasePaid(s)
  BY <1>7, KnowsOK, EndOfferOK, GotoOK DEF ReleasePaid, At
<1>8. CASE ReleaseUnenroll(s)
  BY <1>8, KnowsOK, GotoOK DEF ReleaseUnenroll, At
<1>9. CASE FailedRow(s)
  BY <1>9, KnowsOK, ReleaseOK DEF FailedRow, At
<1>10. CASE FailedAgain(s)
  BY <1>10, KnowsOK, ReleaseOK DEF FailedAgain, At
<1>11. CASE SucceededRecorded(s)
  BY <1>11, KnowsOK, FinishOK, GotoOK DEF SucceededRecorded, At, Recorded
<1>12. CASE SucceededHeld(s)
  BY <1>12, KnowsOK, FinishOK, GotoOK DEF SucceededHeld, At
<1>13. CASE SucceededDelivered(s)
  BY <1>13, KnowsOK, FinishOK, GotoOK DEF SucceededDelivered, At
<1>14. CASE RecordCharge(s)
  BY <1>14, KnowsOK, FinishOK DEF RecordCharge, At, Recorded
<1>15. CASE SweepSucceeded(s)
  BY <1>15, KnowsOK, GotoOK DEF SweepSucceeded, At
<1>16. CASE SweepAuthorized(s)
  BY <1>16, KnowsOK, GotoOK DEF SweepAuthorized, At
<1>17. CASE SweepProcessing(s)
  BY <1>17, KnowsOK, FinishOK, GotoOK DEF SweepProcessing, At
<1>18. CASE SweepEnrolled(s)
  BY <1>18, KnowsOK, GotoOK DEF SweepEnrolled, At
<1>19. CASE SweepSettle(s)
  BY <1>19, KnowsOK, FinishOK DEF SweepSettle, At
<1>20. CASE SweepFail(s)
  BY <1>20, KnowsOK, FinishOK DEF SweepFail, At
<1>21. CASE SweepRefund(s)
  <2>1. \/ call' = [call EXCEPT ![s].at = "sweep.refunded", ![s].row = TRUE]
        \/ call' = [call EXCEPT ![s].at = "sweep.refunded", ![s].row = FALSE]
    BY <1>21 DEF SweepRefund
  <2>2. call[s].i \in Intents
    BY <1>21, KnowsOK DEF SweepRefund
  <2>3. call' = [call EXCEPT ![s] = call'[s]] /\ call'[s] \in Run(Labels)
    BY <2>1 DEF Run, CallsOK
  <2>4. SlotOK(s)'
    BY <1>21, <2>1, <2>2 DEF SweepRefund, Run, CallsOK, SlotOK
  <2> QED BY <2>3, <2>4, StepOK
<1>22. CASE SweepRefunded(s)
  BY <1>22, KnowsOK, FinishOK, ReleaseOK DEF SweepRefunded, At
<1>23. CASE SweepCancel(s)
  BY <1>23, KnowsOK, FinishOK, GotoOK DEF SweepCancel, At
<1>24. CASE SweepReleased(s)
  BY <1>24, KnowsOK, FinishOK, ReleaseOK DEF SweepReleased, At
<1>25. CASE SweepRefused(s)
  BY <1>25, KnowsOK, FinishOK DEF SweepRefused, At
<1>26. CASE OrphanHeld(s)
  BY <1>26, KnowsOK, FinishOK, GotoOK DEF OrphanHeld, At, RowsOf, RequestIds
<1>27. CASE OrphanCancel(s)
  BY <1>27, KnowsOK, FinishOK, ReleaseOK DEF OrphanCancel, At
<1>28. CASE OrphanDelivered(s)
  BY <1>28, KnowsOK, GotoOK DEF OrphanDelivered, At
<1> QED
  BY <1>1, <1>2, <1>3, <1>4, <1>5, <1>6, <1>7, <1>8, <1>9, <1>10, <1>11,
     <1>12, <1>13, <1>14, <1>15, <1>16, <1>17, <1>18, <1>19, <1>20, <1>21,
     <1>22, <1>23, <1>24, <1>25, <1>26, <1>27, <1>28
     DEF ReconcileStep

(* Nothing moves: what the runs know stays true. *)
LEMMA SameCallsOK ==
    ASSUME CallsOK, Stays, UNCHANGED call PROVE CallsOK'
BY DEF CallsOK, SlotOK, Stays, RowsStay

(* The backend is called. *)
LEMMA ArrivalOK ==
    ASSUME TInv, NEW s \in Slots, Arrival(s) PROVE TInv' /\ Stays
<1> USE DEF TInv, At, WithStudent, WithIntent, WithIntentIfPaid,
            OfferRowLabels, AskLabels, ClaimLabels, CaptureLabels, PayLabels,
            RefuseLabels, SettleLabels
<1>l. {"request.full", "invite.find", "update.write", "offer.read", "idle",
       "orphan.recorded", "register.full", "pay.read", "leave.find"}
          \subseteq Labels
  BY DEF Labels, WaitlistLabels, OfferLabels, UnenrollLabels
<1>0. seminar.enrolled \in SUBSET Students /\ seminar.cap \in Caps
  BY DEF DataOK, SeminarOK, Seminar
<1>1. ASSUME NEW u \in Students, RequestSeat(s, u) PROVE TInv' /\ Stays
  <2>1. DataOK' /\ Stays
    BY <1>1, SameOK, WorldChangeOK DEF DataOK, Stays, RequestSeat
  <2>2. CASE call' = [call EXCEPT ![s].at = "request.full", ![s].u = u,
                 ![s].seen = seminar.enrolled, ![s].cap = seminar.cap]
    <3>1. call' = [call EXCEPT ![s] = call'[s]] /\ call'[s] \in Run(Labels)
      BY <1>l, <1>0, <2>2, ZenonT(40) DEF Run, CallsOK
    <3>2. SlotOK(s)'
      BY <1>1, <2>2 DEF RequestSeat, Calling, Run, CallsOK, SlotOK
    <3> QED BY <2>1, <3>1, <3>2, StepOK
  <2> QED BY <1>1, <2>1, <2>2, SameCallsOK DEF RequestSeat
<1>2. ASSUME NEW u \in Students, Invite(s, u) PROVE TInv' /\ Stays
  <2>1. DataOK' /\ Stays
    BY <1>2, SameOK, WorldChangeOK DEF DataOK, Stays, Invite
  <2>2. CASE call' = [call EXCEPT ![s].at = "invite.find", ![s].u = u]
    <3>1. call' = [call EXCEPT ![s] = call'[s]] /\ call'[s] \in Run(Labels)
      BY <1>l, <2>2 DEF Run, CallsOK
    <3>2. SlotOK(s)'
      BY <1>2, <2>2 DEF Invite, Calling, Run, CallsOK, SlotOK
    <3> QED BY <2>1, <3>1, <3>2, StepOK
  <2> QED BY <1>2, <2>1, <2>2, SameCallsOK DEF Invite
<1>3. ASSUME NEW c \in world.env.newCaps, UpdateCap(s, c) PROVE TInv' /\ Stays
  <2>1. DataOK' /\ Stays
    BY <1>3, SameOK, WorldChangeOK DEF DataOK, Stays, UpdateCap
  <2>2. Cardinality(seminar.enrolled) \in Nat
    BY <1>0, FS_Subset, FS_CardinalityType, StoreAssumption
  <2>3. c \in Caps
    BY <1>3, StoreAssumption DEF DataOK, WorldOK
  <2>4. Clamp(c) \in Caps
    BY <2>2, <2>3 DEF Clamp, Caps
  <2>5. \/ call' = [call EXCEPT ![s].at = "update.write", ![s].cap = Clamp(c),
                                ![s].ret = "offer.read"]
        \/ call' = [call EXCEPT ![s].at = "update.write", ![s].cap = Clamp(c),
                                ![s].ret = "idle"]
    BY <1>3 DEF UpdateCap
  <2>6. call' = [call EXCEPT ![s] = call'[s]] /\ call'[s] \in Run(Labels)
    BY <1>l, <2>4, <2>5 DEF Run, CallsOK
  <2>7. SlotOK(s)'
    BY <1>3, <2>5 DEF UpdateCap, Calling, Run, CallsOK, SlotOK
  <2> QED BY <2>1, <2>6, <2>7, StepOK
<1>4. CASE Drain(s)
  <2>1. DataOK' /\ Stays
    BY <1>4, SameOK, WorldChangeOK DEF DataOK, Stays, Drain
  <2> QED BY <1>4, <2>1, OfferOK DEF Drain
<1>5. ASSUME NEW u \in Students, NEW i \in Intents \cup {NoIntent},
             Register(s, u, i)
      PROVE  TInv' /\ Stays
  <2>1. DataOK' /\ Stays
    <3>1. CASE i = NoIntent
      BY <1>5, <3>1, SameOK, WorldChangeOK DEF DataOK, Stays, Register
    <3>2. CASE i \in Intents
      BY <1>5, <3>2, SameOK, WorldChangeOK, StripeChangeOK, StoreAssumption
         DEF DataOK, Stays, Register
    <3> QED BY <3>1, <3>2
  <2>2. CASE i # NoIntent /\
             call' = [call EXCEPT ![s].at = "orphan.recorded", ![s].i = i]
    <3>1. call' = [call EXCEPT ![s] = call'[s]] /\ call'[s] \in Run(Labels)
      BY <1>l, <2>2, ZenonT(40) DEF Run, CallsOK
    <3>2. SlotOK(s)'
      BY <1>5, <2>2 DEF Register, Calling, Run, CallsOK, SlotOK
    <3> QED BY <2>1, <3>1, <3>2, StepOK
  <2>3. CASE call' = [call EXCEPT ![s].at = "register.full",
                 ![s].u = u, ![s].i = i,
                 ![s].seen = seminar.enrolled, ![s].cap = seminar.cap]
    <3>1. call' = [call EXCEPT ![s] = call'[s]] /\ call'[s] \in Run(Labels)
      <4>1. "register.full" \in Labels
        BY <1>l
      <4>2. call'[s] = [call[s] EXCEPT !.at = "register.full", !.u = u,
                   !.i = i, !.seen = seminar.enrolled, !.cap = seminar.cap]
            /\ call' = [call EXCEPT ![s] = call'[s]]
        BY <2>3 DEF CallsOK
      <4>3. call[s] \in Run(Labels)
        BY DEF CallsOK
      <4> QED BY <1>0, <4>1, <4>2, <4>3 DEF Run
    <3>2. SlotOK(s)'
      <4>1. call[s].pays = "none" /\ call[s].row = FALSE
            /\ call[s].ret = "idle"
        BY <1>5 DEF Register, Calling, CallsOK, SlotOK, Run
      <4> QED BY <2>3, <4>1 DEF Run, CallsOK, SlotOK
    <3> QED BY <2>1, <3>1, <3>2, StepOK
  <2> QED BY <1>5, <2>1, <2>2, <2>3, SameCallsOK DEF Register
<1>6. ASSUME NEW u \in Students, NEW i \in Intents, NEW r \in RequestIds,
             Pay(s, u, i, r)
      PROVE  TInv' /\ Stays
  <2>1. DataOK' /\ Stays
    BY <1>6, SameOK, WorldChangeOK, StripeChangeOK DEF DataOK, Stays, Pay
  <2>2. r \in 0..MaxRequests
    BY StoreAssumption DEF RequestIds
  <2>3. call' = [call EXCEPT ![s] = call'[s]] /\ call'[s] \in Run(Labels)
    <3>1. call'[s] = [call[s] EXCEPT !.at = "pay.read", !.u = u, !.i = i, !.r = r]
          /\ call' = [call EXCEPT ![s] = call'[s]]
      BY <1>6 DEF Pay, CallsOK
    <3>2. call[s] \in Run(Labels)
      BY DEF CallsOK
    <3>3. "pay.read" \in Labels
      BY <1>l
    <3> QED BY <2>2, <3>1, <3>2, <3>3 DEF Run
  <2>4. SlotOK(s)'
    BY <1>6 DEF Pay, Calling, Run, CallsOK, SlotOK
  <2> QED BY <2>1, <2>3, <2>4, StepOK
<1>7. ASSUME NEW u \in Students, Leave(s, u) PROVE TInv' /\ Stays
  <2>1. DataOK' /\ Stays
    BY <1>7, SameOK, WorldChangeOK DEF DataOK, Stays, Leave
  <2>2. call' = [call EXCEPT ![s] = call'[s]] /\ call'[s] \in Run(Labels)
    BY <1>l, <1>7, ZenonT(40) DEF Leave, Run, CallsOK
  <2>3. SlotOK(s)'
    BY <1>7 DEF Leave, Calling, Run, CallsOK, SlotOK
  <2> QED BY <2>1, <2>2, <2>3, StepOK
<1> HIDE DEF TInv
<1> QED
  BY <1>1, <1>2, <1>3, <1>4, <1>5, <1>6, <1>7
     DEF Arrival, WaitlistCall, RegistrationCall

(* Stripe delivers an event. *)
LEMMA WebhookOK ==
    ASSUME TInv, NEW s \in Slots, WebhookStep(s) PROVE TInv' /\ Stays
<1> USE DEF TInv, At
<1>1. ASSUME NEW i \in Intents, FailedEvent(s, i) PROVE TInv' /\ Stays
  <2>1. DataOK' /\ Stays
    BY <1>1, SameOK DEF DataOK, Stays, EventsOK, FailedEvent
  <2>2. CASE Release(s, i, "idle")
    BY <1>1, <2>1, <2>2, ReleaseOK DEF FailedEvent
  <2>3. CASE call' = [call EXCEPT ![s].at = "failed.row", ![s].i = i,
                                  ![s].u = stripe[i].u]
    <3>1. call' = [call EXCEPT ![s] = call'[s]] /\ call'[s] \in Run(Labels)
      <4>1. "failed.row" \in Labels
        BY DEF Labels, SettleLabels
      <4>2. stripe[i].u \in Students \cup {NoOne}
        BY DEF DataOK, StripeOK, Intent
      <4> QED BY <2>3, <4>1, <4>2, ZenonT(40) DEF Run, CallsOK
    <3>2. SlotOK(s)'
      BY <1>1, <2>3
         DEF FailedEvent, Run, CallsOK, SlotOK, WithStudent, WithIntentIfPaid,
             AskLabels, ClaimLabels, CaptureLabels, PayLabels, OfferRowLabels
    <3> QED BY <2>1, <3>1, <3>2, StepOK
  <2> QED BY <1>1, <2>1, <2>2, <2>3 DEF FailedEvent
<1>2. ASSUME NEW i \in Intents, SucceededEvent(s, i) PROVE TInv' /\ Stays
  <2>1. DataOK' /\ Stays
    BY <1>2, SameOK, LedgerChangeOK
       DEF DataOK, Stays, EventsOK, SucceededEvent, ChargeStatus
  <2>2. CASE call' = [call EXCEPT ![s].at = "succeeded.recorded", ![s].i = i]
    <3>1. call' = [call EXCEPT ![s] = call'[s]] /\ call'[s] \in Run(Labels)
      <4>1. "succeeded.recorded" \in Labels
        BY DEF Labels, SettleLabels
      <4> QED BY <2>2, <4>1 DEF Run, CallsOK
    <3>2. SlotOK(s)'
      BY <1>2, <2>2
         DEF SucceededEvent, Run, CallsOK, SlotOK, WithStudent,
             WithIntentIfPaid, AskLabels, ClaimLabels, CaptureLabels,
             PayLabels, OfferRowLabels
    <3> QED BY <2>1, <3>1, <3>2, StepOK
  <2> QED BY <1>2, <2>1, <2>2, SameCallsOK DEF SucceededEvent
<1> HIDE DEF TInv
<1> QED BY <1>1, <1>2 DEF WebhookStep

(* An intent grown old is still an intent.                                 *)
LEMMA HourPassesOK ==
    ASSUME StripeOK, NEW i \in Intents, NEW running, HourPasses(i, running)
    PROVE  StripeOK'
<1> DEFINE row == [stripe[i] EXCEPT !.old = TRUE]
<1>1. row \in Intent
  BY DEF StripeOK, Intent
<1>2. stripe' = [stripe EXCEPT ![i] = row]
  BY DEF HourPasses
<1> HIDE DEF row
<1> QED BY <1>1, <1>2 DEF StripeOK

(* A sweep picks an intent or an offer to look at. *)
LEMMA SweepOK ==
    ASSUME TInv, NEW s \in Slots, SweepStep(s) PROVE TInv' /\ Stays
<1> USE DEF TInv, At
<1>0. {"sweep.succeeded", "orphan.held"} \subseteq Labels
  BY DEF Labels, SettleLabels
<1>1. ASSUME NEW i \in Intents PROVE stripe[i].u \in Students \cup {NoOne}
  BY <1>1 DEF DataOK, StripeOK, Intent
<1>2. ASSUME NEW i \in Intents, SweepPending(s, i) PROVE TInv' /\ Stays
  <2>1. DataOK' /\ Stays
    BY <1>2, SameOK, HourPassesOK DEF DataOK, Stays, SweepPending
  <2>2. call' = [call EXCEPT ![s].at = "sweep.succeeded", ![s].i = i,
                             ![s].u = stripe[i].u]
    BY <1>2 DEF SweepPending
  <2>3. call' = [call EXCEPT ![s] = call'[s]] /\ call'[s] \in Run(Labels)
    BY <1>0, <1>1, <2>2, ZenonT(40) DEF Run, CallsOK
  <2>4. SlotOK(s)'
    BY <1>2, <2>2
       DEF SweepPending, Run, CallsOK, SlotOK, WithStudent, WithIntentIfPaid,
           AskLabels, ClaimLabels, CaptureLabels, PayLabels, OfferRowLabels
  <2> QED BY <2>1, <2>3, <2>4, StepOK
<1>3. ASSUME NEW i \in Intents, SweepOrphan(s, i) PROVE TInv' /\ Stays
  <2>1. DataOK' /\ Stays
    BY <1>3, SameOK, HourPassesOK DEF DataOK, Stays, SweepOrphan
  <2>2. \/ call' = [call EXCEPT ![s].at = "orphan.held", ![s].i = i,
                        ![s].u = stripe[i].u, ![s].pays = "held"]
        \/ call' = [call EXCEPT ![s].at = "orphan.held", ![s].i = i,
                        ![s].u = stripe[i].u, ![s].pays = "settled"]
    <3>1. CASE stripe[i].st = "hold"
      BY <1>3, <3>1 DEF SweepOrphan, FoundAs
    <3>2. CASE stripe[i].st = "succeeded"
      BY <1>3, <3>2 DEF SweepOrphan, FoundAs
    <3> QED BY <1>3, <3>1, <3>2 DEF SweepOrphan, Orphan
  <2>3. call' = [call EXCEPT ![s] = call'[s]] /\ call'[s] \in Run(Labels)
    BY <1>0, <1>1, <2>2 DEF Run, CallsOK
  <2>4. SlotOK(s)'
    BY <1>3, <2>2
       DEF SweepOrphan, Run, CallsOK, SlotOK, WithStudent, WithIntentIfPaid,
           AskLabels, ClaimLabels, CaptureLabels, PayLabels, OfferRowLabels
  <2> QED BY <2>1, <2>3, <2>4, StepOK
<1>4. ASSUME NEW r \in RequestIds, SweepOffer(s, r) PROVE TInv' /\ Stays
  <2>1. DataOK' /\ Stays
    BY <1>4, SameOK, SetStatusOK DEF DataOK, Stays, SweepOffer, RequestStatus
  <2> QED BY <1>4, <2>1, OfferOK DEF SweepOffer
<1> HIDE DEF TInv
<1> QED BY <1>2, <1>3, <1>4 DEF SweepStep

(* What happens outside the backend: at Stripe, by the host, in time. *)
LEMMA OutsideOK ==
    ASSUME TInv, StripeStep \/ DeleteSeminar \/ Time PROVE TInv' /\ Stays
<1> USE DEF TInv
<1>1. UNCHANGED call
  BY DEF StripeStep, Checkout, DeclinedFirst, WalletClears, WalletFails,
         DeleteSeminar, Time, SeminarStarts, WindowLapses
<1>2. ASSUME NEW i \in Intents, NEW u \in Students, NEW r \in 0..MaxRequests,
             NEW st \in {"hold", "processing", "succeeded"},
             Checkout(u, i, r, st)
      PROVE  DataOK' /\ Stays
  <2> DEFINE row == [st |-> st, u |-> u, r |-> r, refunded |-> FALSE,
                     sent |-> FALSE, old |-> FALSE]
  <2>1. row \in Intent
    BY DEF Intent, IntentStatus
  <2>2. stripe' = [stripe EXCEPT ![i] = row]
    BY <1>2 DEF Checkout
  <2> HIDE DEF row
  <2>3. StripeOK'
    BY <2>1, <2>2 DEF DataOK, StripeOK
  <2>4. EventsOK'
    BY <1>2 DEF Checkout, DataOK, EventsOK, Event
  <2> QED BY <1>2, <2>3, <2>4, SameOK DEF DataOK, Stays, Checkout
<1>3. ASSUME NEW i \in Intents,
             DeclinedFirst(i) \/ WalletClears(i) \/ WalletFails(i)
      PROVE  DataOK' /\ Stays
  <2>1. EventsOK'
    BY <1>3 DEF DeclinedFirst, WalletClears, WalletFails, DataOK, EventsOK, Event
  <2> QED
    BY <1>3, <2>1, SameOK, StripeChangeOK, WorldChangeOK
       DEF DataOK, Stays, DeclinedFirst, WalletClears, WalletFails, IntentStatus
<1>4. ASSUME DeleteSeminar PROVE DataOK' /\ Stays
  <2>1. SeminarOK'
    <3>1. seminar' = [seminar EXCEPT !.status = "deleted", !.enrolled = {}]
      BY <1>4 DEF DeleteSeminar
    <3> QED BY <3>1 DEF DataOK, SeminarOK, Seminar
  <2> QED BY <1>4, <2>1, SameOK DEF DataOK, Stays, DeleteSeminar
<1>5. ASSUME SeminarStarts PROVE DataOK' /\ Stays
  <2> DEFINE row(r) == [requests[r] EXCEPT !.lapsed =
                 requests[r].lapsed \/ requests[r].status = "awaiting_payment"]
  <2>1. /\ seminar' = [seminar EXCEPT !.started = TRUE]
        /\ requests' = [r \in RequestIds |-> row(r)]
        /\ UNCHANGED <<ledger, stripe, events, world>>
    BY <1>5 DEF SeminarStarts
  <2>2. ASSUME NEW r \in RequestIds
        PROVE  row(r) \in Request /\ row(r).status = requests[r].status
                                  /\ row(r).u = requests[r].u
    <3>1. requests[r] \in Request
      BY DEF DataOK, RequestsOK
    <3>2. (requests[r].lapsed \/ requests[r].status = "awaiting_payment")
              \in BOOLEAN
      OBVIOUS
    <3> QED BY <3>1, <3>2 DEF Request
  <2> HIDE DEF row
  <2>3. SeminarOK'
    BY <2>1 DEF DataOK, SeminarOK, Seminar
  <2>4. RequestsOK' /\ RowsStay
    <3>1. ASSUME NEW r \in RequestIds PROVE requests'[r] = row(r)
      BY <2>1
    <3>2. requests' \in [RequestIds -> Request]
      BY <2>1, <2>2
    <3> QED BY <2>2, <3>1, <3>2 DEF DataOK, RequestsOK, RowsStay
  <2> QED BY <2>1, <2>3, <2>4, SameOK DEF DataOK, Stays
<1>6. ASSUME NEW r \in RequestIds, WindowLapses(r) PROVE DataOK' /\ Stays
  <2> DEFINE row == [requests[r] EXCEPT !.lapsed = TRUE]
  <2>1. row \in Request /\ row.status = requests[r].status
                        /\ row.u = requests[r].u
    BY DEF DataOK, RequestsOK, Request
  <2>2. requests' = [requests EXCEPT ![r] = row]
    BY <1>6 DEF WindowLapses
  <2> HIDE DEF row
  <2>3. RequestsOK' /\ RowsStay
    BY <2>1, <2>2 DEF DataOK, RequestsOK, RowsStay
  <2> QED BY <1>6, <2>3, SameOK DEF DataOK, Stays, WindowLapses
<1>7. DataOK' /\ Stays
  BY <1>2, <1>3, <1>4, <1>5, <1>6 DEF StripeStep, Time
<1> QED BY <1>1, <1>7, SameCallsOK

(* A restart leaves the documents alone and empties the slots.             *)
LEMMA CrashOK == ASSUME TInv, Crash PROVE TInv' /\ Stays
<1> USE DEF TInv
<1>1. DataOK' /\ Stays
  BY SameOK, WorldChangeOK DEF DataOK, Stays, Crash
<1>2. call' = [s \in Slots |-> Idle]
  BY DEF Crash
<1>3. ASSUME NEW s \in Slots PROVE SlotOK(s)'
  BY <1>2
     DEF SlotOK, Idle, WithStudent, WithIntent, WithIntentIfPaid, AskLabels,
         ClaimLabels, CaptureLabels, PayLabels, RefuseLabels, SettleLabels,
         OfferRowLabels
<1> QED BY <1>1, <1>2, <1>3, IdleType DEF CallsOK

-----------------------------------------------------------------------------
(* The state is well typed at first, and stays so. *)
LEMMA InitTyped == Init => TInv
<1> SUFFICES ASSUME Init PROVE TInv
  OBVIOUS
<1>1. PICK e \in Environments :
          /\ world = [env |-> e, calls |-> 0, faults |-> 0]
          /\ seminar = [status |-> "active", started |-> FALSE,
                        enrolled |-> {}, cap |-> e.cap]
  BY DEF Init
<1>2. e.cap \in Caps /\ e.maxCalls \in Nat /\ e.maxFaults \in Nat
  BY StoreAssumption
<1>3. SeminarOK /\ WorldOK
  BY <1>1, <1>2 DEF SeminarOK, Seminar, WorldOK
<1>4. RequestsOK /\ LedgerOK /\ StripeOK /\ EventsOK
  BY StoreAssumption
     DEF Init, RequestsOK, Request, RequestStatus, LedgerOK, Ledger,
         ChargeStatus, StripeOK, Intent, IntentStatus, EventsOK, NoRequest
<1>5. ASSUME NEW s \in Slots PROVE SlotOK(s)
  BY DEF Init, SlotOK, Idle, WithStudent, WithIntent, WithIntentIfPaid,
         AskLabels, ClaimLabels, CaptureLabels, PayLabels, RefuseLabels,
         SettleLabels, OfferRowLabels
<1> QED BY <1>3, <1>4, <1>5, IdleType DEF Init, TInv, DataOK, CallsOK

(* Every step keeps the types.                                             *)
LEMMA NextTyped == TInv /\ [Next]_storeVars => TInv'
<1> SUFFICES ASSUME TInv, [Next]_storeVars PROVE TInv'
  OBVIOUS
<1>1. ASSUME NEW s \in Slots, Step(s) PROVE TInv'
  <2>1. CASE WaitlistStep(s)
    BY <2>1, WaitlistStepData, WaitlistStepCalls DEF TInv
  <2>2. CASE RegistrationStep(s)
    BY <2>2, RegistrationStepData, RegistrationStepCalls DEF TInv
  <2>3. CASE ReconcileStep(s)
    BY <2>3, ReconcileStepData, ReconcileStepCalls DEF TInv
  <2> QED BY <1>1, <2>1, <2>2, <2>3 DEF Step
<1>2. ASSUME NEW s \in Slots, Arrival(s) \/ WebhookStep(s) \/ SweepStep(s)
      PROVE  TInv'
  BY <1>2, ArrivalOK, WebhookOK, SweepOK
<1>3. CASE StripeStep \/ DeleteSeminar \/ Time
  BY <1>3, OutsideOK
<1>4. CASE Crash
  BY <1>4, CrashOK
<1>5. CASE UNCHANGED storeVars
  <2>1. DataOK' /\ Stays
    BY <1>5, SameOK DEF storeVars, TInv, DataOK, Stays
  <2> QED BY <1>5, <2>1, SameCallsOK DEF storeVars, TInv
<1> QED BY <1>1, <1>2, <1>3, <1>4, <1>5 DEF Next

(* The variables have their types in every environment: whatever the       *)
(* handlers interleave, no row gets a status its schema lacks, and a run   *)
(* knows its student, intent and seat request wherever it needs them.      *)
THEOREM TypeCorrect == Spec => []TypeOK
<1>1. TInv => TypeOK
  BY DEF TInv, TypeOK, DataOK, CallsOK, SeminarOK, RequestsOK, LedgerOK,
         StripeOK, EventsOK, WorldOK
<1> QED BY <1>1, InitTyped, NextTyped, PTL DEF Spec

-----------------------------------------------------------------------------
(* What a step leaves alone.                                               *)

(* A step stays in its environment: what a handler does with the counts of *)
(* calls and faults leaves it alone.                                       *)
EnvSame == world'.env = world.env
LEMMA WorldKeeps ==
    ASSUME TInv
    PROVE  /\ UNCHANGED world => EnvSame
           /\ \A s, h : Calling(s, h) => EnvSame
           /\ \A k : Fault(k) => EnvSame
BY DEF TInv, DataOK, WorldOK, EnvSame, Calling, Fault

(* No run enters a label of L; labels that no handler goes to by itself:   *)
(* where runs end, start an offer loop or a release, or return to.         *)
OutOf(L) == \A t \in Slots : call'[t] = call[t] \/ call'[t].at \notin L
EndLabels == {"idle", "refuse", "failed.again", "offer.read", "release.paid"}

(* Where a run goes that goes on, ends, or turns to offers or a release.   *)
LEMMA RunsOut ==
    ASSUME CallsOK, NEW s \in Slots, NEW L, L \cap EndLabels = {}
    PROVE  /\ UNCHANGED call => OutOf(L)
           /\ \A l : l \notin L /\ Goto(s, l) => OutOf(L)
           /\ Finish(s) => OutOf(L)
           /\ call[s].at # "update.write" /\ EndOffer(s) => OutOf(L)
           /\ \A ret : Offer(s, ret) => OutOf(L)
           /\ \A i, ret : Release(s, i, ret) => OutOf(L)
           /\ \A c : call' = [call EXCEPT ![s] = c] /\ c.at \notin L => OutOf(L)
<1>1. call \in [Slots -> Run(Labels)] /\ SlotOK(s)
  BY DEF CallsOK
<1>2. "idle" \notin L /\ "refuse" \notin L /\ "failed.again" \notin L
      /\ "offer.read" \notin L /\ "release.paid" \notin L
  BY DEF EndLabels
<1>3. ASSUME NEW c, call' = [call EXCEPT ![s] = c], c.at \notin L
      PROVE  OutOf(L)
  BY <1>1, <1>3 DEF OutOf
<1>4. ASSUME NEW l, l \notin L, Goto(s, l) PROVE OutOf(L)
  BY <1>1, <1>4 DEF OutOf, Goto, Run
<1>5. Finish(s) => OutOf(L)
  BY <1>1, <1>2 DEF OutOf, Finish, Idle
<1>6. ASSUME NEW i, NEW ret, Offer(s, ret) \/ Release(s, i, ret)
      PROVE  OutOf(L)
  BY <1>1, <1>2, <1>6 DEF OutOf, Offer, Release, Run
<1>7. ASSUME call[s].at # "update.write", EndOffer(s) PROVE OutOf(L)
  <2>1. call[s].ret \in {"idle", "refuse", "failed.again"}
    BY <1>1, <1>7 DEF SlotOK
  <2> QED BY <1>1, <1>2, <1>5, <1>7, <2>1 DEF OutOf, EndOffer, Run
<1> QED BY <1>3, <1>4, <1>5, <1>6, <1>7 DEF OutOf

(* Where runs of the waitlist are, and where they end.                     *)
OnWaitlist == WaitlistLabels \cup EndLabels
NoMoney == UNCHANGED <<ledger, stripe, events>>
(* The offer loop moves no money, and its run stays on the waitlist or     *)
(* ends.                                                                   *)
LEMMA OfferStepOut ==
    ASSUME TInv, NEW s \in Slots, OfferStep(s), NEW L, L \cap OnWaitlist = {}
    PROVE  OutOf(L) /\ NoMoney
<1>1. CallsOK /\ call \in [Slots -> Run(Labels)] /\ L \cap EndLabels = {}
  BY DEF TInv, CallsOK, OnWaitlist
<1>2. \A l \in WaitlistLabels : l \notin L
  BY DEF OnWaitlist
<1>3. NoMoney
  BY DEF OfferStep, NoMoney, OfferRead, OfferFull, OfferPick, OfferEnrolled,
     OfferMake, OfferReread, OfferRecheck, OfferRollback, OfferCount, OfferTake,
     OfferApprove, OfferConfirm, OfferConfirmFails, OfferUndo
<1>4. call[s].at # "update.write"
  BY DEF At, OfferStep, OfferRead, OfferFull, OfferPick, OfferEnrolled,
     OfferMake, OfferReread, OfferRecheck, OfferRollback, OfferCount, OfferTake,
     OfferApprove, OfferConfirm, OfferConfirmFails, OfferUndo
<1>5. \/ UNCHANGED call \/ EndOffer(s)
      \/ \E l \in WaitlistLabels : Goto(s, l)
      \/ call'[s].at \in WaitlistLabels /\ \E c : call' = [call EXCEPT ![s] = c]
  <2> USE DEF WaitlistLabels, OfferLabels, OfferRowLabels
  <2>1. CASE OfferRead(s)
    BY <1>1, <2>1 DEF OfferRead, Run
  <2>2. CASE OfferFull(s)
    BY <2>2 DEF OfferFull
  <2>3. CASE OfferPick(s)
    <3>1. CASE Oldest # {}
      <4>1. PICK r \in Oldest, l \in {"offer.enrolled", "offer.make", "offer.count"} :
                call' = [call EXCEPT ![s].r = r, ![s].at = l]
        BY <2>3, <3>1 DEF OfferPick
      <4> QED BY <1>1, <4>1 DEF Run
    <3> QED BY <2>3, <3>1 DEF OfferPick
  <2>4. CASE OfferEnrolled(s)
    BY <2>4 DEF OfferEnrolled
  <2>5. CASE OfferMake(s)
    BY <2>5 DEF OfferMake
  <2>6. CASE OfferReread(s)
    BY <1>1, <2>6 DEF OfferReread, Run
  <2>7. CASE OfferRecheck(s)
    BY <2>7 DEF OfferRecheck
  <2>8. CASE OfferRollback(s)
    BY <2>8 DEF OfferRollback
  <2>9. CASE OfferCount(s)
    BY <1>1, <2>9 DEF OfferCount, Run
  <2>10. CASE OfferTake(s)
    BY <2>10 DEF OfferTake
  <2>11. CASE OfferApprove(s)
    BY <2>11 DEF OfferApprove
  <2>12. CASE OfferConfirm(s)
    BY <2>12 DEF OfferConfirm
  <2>13. CASE OfferConfirmFails(s)
    BY <2>13 DEF OfferConfirmFails
  <2>14. CASE OfferUndo(s)
    BY <2>14 DEF OfferUndo
  <2> QED
    BY <2>1, <2>2, <2>3, <2>4, <2>5, <2>6, <2>7, <2>8, <2>9, <2>10, <2>11,
       <2>12, <2>13, <2>14
       DEF OfferStep
<1>6. OutOf(L)
  BY <1>1, <1>2, <1>4, <1>5, RunsOut DEF OutOf
<1> QED BY <1>3, <1>6

(* Nor do the other handlers of the waitlist.                              *)
LEMMA WaitlistStepOut ==
    ASSUME TInv, NEW s \in Slots, WaitlistStep(s), NEW L, L \cap OnWaitlist = {}
    PROVE  OutOf(L) /\ NoMoney
<1>1. CallsOK /\ L \cap EndLabels = {} /\ "request.find" \notin L
      /\ "request.insert" \notin L /\ "invite.send" \notin L
  BY DEF TInv, OnWaitlist, WaitlistLabels, AskLabels
<1>2. CASE RequestFull(s)
  BY <1>1, <1>2, RunsOut DEF RequestFull, NoMoney
<1>3. CASE RequestFind(s)
  BY <1>1, <1>3, RunsOut DEF RequestFind, NoMoney
<1>4. CASE RequestInsert(s)
  BY <1>1, <1>4, RunsOut DEF RequestInsert, NoMoney
<1>5. CASE InviteFind(s)
  BY <1>1, <1>5, RunsOut DEF InviteFind, NoMoney
<1>6. CASE InviteSend(s)
  BY <1>1, <1>6, RunsOut DEF InviteSend, NoMoney
<1>7. CASE UpdateWrite(s)
  BY <1>1, <1>7, RunsOut DEF UpdateWrite, NoMoney
<1>8. CASE OfferStep(s)
  BY <1>8, OfferStepOut
<1> QED
  BY <1>2, <1>3, <1>4, <1>5, <1>6, <1>7, <1>8 DEF WaitlistStep

-----------------------------------------------------------------------------
(* No hold is captured without a charge row.  The rows and the holds       *)
(* change in few places; everywhere else a step is calm: it keeps the rows,*)
(* makes nothing a hold, and does not enter a label where a hold is about  *)
(* to be captured or a row to be deleted.                                  *)

(* The hold a run is about to capture has a charge row, and the row a run  *)
(* is about to delete is not that of a hold.  Both stay true whatever the  *)
(* other runs do, because nothing makes an intent a hold again.            *)
Over(i) == stripe[i].st \notin {"none", "hold"}
Safe(i) == Recorded(i) \/ Over(i)
CaptureLocals(t) ==
    /\ call[t].at = "register.capture" => Safe(call[t].i)
    /\ call[t].at = "register.capDelete" => Over(call[t].i)
HoldsBooked == \A t \in Slots : CaptureLocals(t)

(* The typing invariant TInv strengthened for CaptureIsBooked. *)
BInv == TInv /\ HoldsBooked

(* What a calm step does to the charge rows, to Stripe and to the runs. *)
LedgerKept == \A i \in Intents : Recorded(i) => Recorded(i)'
StripeKept == \A i \in Intents :
    /\ Over(i) => Over(i)'
    /\ stripe[i].st = "hold" => stripe'[i].st # "succeeded"
Entry == {"register.capture", "register.capDelete"}
RunsKept == \A t \in Slots : call'[t] = call[t] \/ call'[t].at \notin Entry
Calm == LedgerKept /\ StripeKept /\ RunsKept

(* No hold is captured without its charge row. *)
CapturesBooked == \A i \in Intents :
    stripe[i].st = "hold" /\ stripe'[i].st = "succeeded" => Recorded(i)

-----------------------------------------------------------------------------
(* A calm step keeps the invariant and captures nothing. *)
LEMMA CalmOK ==
    ASSUME BInv, Calm PROVE HoldsBooked' /\ CapturesBooked
<1>1. CapturesBooked
  BY DEF Calm, StripeKept, CapturesBooked
<1>2. ASSUME NEW t \in Slots PROVE CaptureLocals(t)'
  <2>1. CASE call'[t].at \notin Entry
    BY <2>1 DEF CaptureLocals, Entry
  <2>2. CASE call'[t] = call[t] /\ call[t].at \in Entry
    <3>1. call[t].i \in Intents
      BY <2>2 DEF BInv, TInv, CallsOK, SlotOK, Entry, WithIntent, CaptureLabels
    <3>2. CaptureLocals(t)
      BY DEF BInv, HoldsBooked
    <3> QED BY <2>2, <3>1, <3>2
      DEF Calm, LedgerKept, StripeKept, CaptureLocals, Safe
  <2> QED BY <2>1, <2>2 DEF Calm, RunsKept
<1> QED BY <1>1, <1>2 DEF HoldsBooked

(* What a write to a charge row keeps: only the status "none" removes it. *)
LEMMA LedgerCalm ==
    ASSUME LedgerOK, NEW i, NEW status, status # "none"
    PROVE  /\ UNCHANGED ledger => LedgerKept
           /\ SetCharge(i, status) => LedgerKept
           /\ MoveCharge(i, status) => LedgerKept
           /\ AppendRefund(i) => LedgerKept
BY DEF LedgerOK, Ledger, LedgerKept, Recorded, SetCharge, MoveCharge,
       AppendRefund

(* Only a capture turns a hold into money, and only a checkout that finds  *)
(* the intent unused makes it a hold.                                      *)
LEMMA StripeCalm ==
    ASSUME StripeOK, NEW i
    PROVE  /\ UNCHANGED stripe => StripeKept
           /\ Refund(i) => StripeKept
           /\ Submitted(i) => StripeKept
           /\ CancelHold(i) => StripeKept
BY DEF StripeOK, Intent, StripeKept, Over, Refund, Submitted, CancelHold,
       SetIntent

(* Where a run that goes on, starts an offer loop, or releases a seat is   *)
(* afterwards.                                                             *)
LEMMA RunsCalm ==
    ASSUME CallsOK, NEW s \in Slots
    PROVE  /\ UNCHANGED call => RunsKept
           /\ \A l : l \notin Entry /\ Goto(s, l) => RunsKept
           /\ Finish(s) => RunsKept
           /\ call[s].at # "update.write" /\ EndOffer(s) => RunsKept
           /\ \A ret : Offer(s, ret) => RunsKept
           /\ \A i, ret : Release(s, i, ret) => RunsKept
           /\ \A c : call' = [call EXCEPT ![s] = c] /\ c.at \notin Entry => RunsKept
<1>1. Entry \cap EndLabels = {}
  BY DEF Entry, EndLabels
<1>2. OutOf(Entry) <=> RunsKept
  BY DEF OutOf, RunsKept
<1> QED BY <1>1, <1>2, RunsOut

(* The steps of a registration around its capture. *)
CaptureAction(s) ==
    \/ RegisterLookup(s) \/ RegisterInsert(s) \/ RegisterCapture(s)
    \/ RegisterCaptureLost(s) \/ RegisterCapCancel(s) \/ RegisterCapDelete(s)

(* The waitlist is calm: it moves no money.                                *)
LEMMA WaitlistStepCalm ==
    ASSUME TInv, NEW s \in Slots, WaitlistStep(s) PROVE Calm
<1>1. Entry \cap OnWaitlist = {}
  BY DEF Entry, OnWaitlist, EndLabels, WaitlistLabels, OfferLabels,
     OfferRowLabels, AskLabels
<1>2. OutOf(Entry) /\ NoMoney
  BY <1>1, WaitlistStepOut
<1> QED BY <1>2, LedgerCalm, StripeCalm DEF TInv, DataOK, Calm, OutOf, RunsKept, NoMoney

(* A registration is calm but for the six steps around its capture. *)
LEMMA RegisterStepCalm ==
    ASSUME TInv, NEW s \in Slots, RegisterStep(s),
           ~CaptureAction(s) PROVE Calm
<1> USE DEF TInv, DataOK, Calm, At, Entry
<1>1. CASE RegisterFull(s)
  BY <1>1, LedgerCalm, StripeCalm, RunsCalm DEF RegisterFull, Checkin
<1>2. CASE RegisterFind(s)
  BY <1>2, LedgerCalm, StripeCalm, RunsCalm DEF RegisterFind, Checkin
<1>3. CASE RegisterJoin(s)
  BY <1>3, LedgerCalm, StripeCalm, RunsCalm
     DEF RegisterJoin, Checkin, NextRequest, RowsOf, RequestIds
<1>4. CASE RegisterConsumed(s)
  BY <1>4, LedgerCalm, StripeCalm, RunsCalm DEF RegisterConsumed
<1>5. CASE RegisterProbe(s)
  BY <1>5, LedgerCalm, StripeCalm, RunsCalm
     DEF RegisterProbe, FoundAs, Run, CallsOK
<1>6. CASE RegisterCount(s)
  BY <1>6, LedgerCalm, StripeCalm, RunsCalm
     DEF RegisterCount, Refuse, CountForClaim, Run, CallsOK
<1>7. CASE RegisterTake(s)
  BY <1>7, LedgerCalm, StripeCalm, RunsCalm DEF RegisterTake
<1>8. CASE RegisterWhy(s)
  BY <1>8, LedgerCalm, StripeCalm, RunsCalm
     DEF RegisterWhy, Refuse, Run, CallsOK
<1>9. CASE RegisterOwned(s)
  BY <1>9, LedgerCalm, StripeCalm, RunsCalm
     DEF RegisterOwned, Recorded, Refuse
<1>10. CASE RegisterWhyFull(s)
  BY <1>10, LedgerCalm, StripeCalm, RunsCalm DEF RegisterWhyFull, Refuse
<1>11. CASE RegisterWhyFind(s)
  BY <1>11, LedgerCalm, StripeCalm, RunsCalm DEF RegisterWhyFind, Refuse
<1>12. CASE RegisterWhyCancel(s)
  BY <1>12, LedgerCalm, StripeCalm, RunsCalm DEF RegisterWhyCancel
<1>13. CASE RegisterWhyJoin(s)
  BY <1>13, LedgerCalm, StripeCalm, RunsCalm
     DEF RegisterWhyJoin, Refuse, NextRequest, RowsOf, RequestIds
<1>14. CASE RegisterInsertFails(s)
  BY <1>14, LedgerCalm, StripeCalm, RunsCalm DEF RegisterInsertFails
<1>15. CASE RegisterAbort(s)
  BY <1>15, LedgerCalm, StripeCalm, RunsCalm DEF RegisterAbort
<1>16. CASE RegisterDup(s)
  BY <1>16, LedgerCalm, StripeCalm, RunsCalm DEF RegisterDup
<1>17. CASE RegisterCaptureFails(s)
  BY <1>17, LedgerCalm, StripeCalm, RunsCalm DEF RegisterCaptureFails
<1>18. CASE RegisterCapFail(s)
  BY <1>18, LedgerCalm, StripeCalm, RunsCalm DEF RegisterCapFail
<1>19. CASE RegisterCancelFails(s)
  BY <1>19, LedgerCalm, StripeCalm, RunsCalm DEF RegisterCancelFails
<1>20. CASE RegisterConfirm(s)
  BY <1>20, LedgerCalm, StripeCalm, RunsCalm DEF RegisterConfirm
<1>21. CASE RegisterRecord(s)
  BY <1>21, LedgerCalm, StripeCalm, RunsCalm DEF RegisterRecord, Recorded
<1>22. CASE RegisterSettle(s)
  BY <1>22, LedgerCalm, StripeCalm, RunsCalm DEF RegisterSettle, Recorded
<1>23. CASE RegisterConfirmFails(s)
  BY <1>23, LedgerCalm, StripeCalm, RunsCalm
     DEF RegisterConfirmFails, Refuse
<1>24. CASE RegisterPaid(s)
  BY <1>24, LedgerCalm, StripeCalm, RunsCalm DEF RegisterPaid, Recorded
<1> QED
  BY <1>1, <1>2, <1>3, <1>4, <1>5, <1>6, <1>7, <1>8, <1>9, <1>10, <1>11,
     <1>12, <1>13, <1>14, <1>15, <1>16, <1>17, <1>18, <1>19, <1>20, <1>21,
     <1>22, <1>23, <1>24
     DEF RegisterStep, CaptureAction

(* A payment of an offer never meets a hold. *)
LEMMA PayStepCalm ==
    ASSUME TInv, NEW s \in Slots, PayStep(s) PROVE Calm
<1> USE DEF TInv, DataOK, Calm, At, Entry
<1>1. CASE PayRead(s)
  BY <1>1, LedgerCalm, StripeCalm, RunsCalm DEF PayRead, Run, CallsOK
<1>2. CASE PayConsumed(s)
  BY <1>2, LedgerCalm, StripeCalm, RunsCalm DEF PayConsumed, Recorded
<1>3. CASE PayProbe(s)
  BY <1>3, LedgerCalm, StripeCalm, RunsCalm
     DEF PayProbe, PayFound, Run, CallsOK
<1>4. CASE PayClearing(s)
  <2>1. CASE Finish(s)
    BY <1>4, <2>1, LedgerCalm, StripeCalm, RunsCalm DEF PayClearing
  <2>2. CASE PayFound(s, "settling")
    <3>1. RunsKept
      BY <2>2, RunsCalm DEF PayFound, RunsKept, CallsOK, Run
    <3> QED BY <1>4, <3>1, LedgerCalm, StripeCalm DEF PayClearing
  <2> QED BY <1>4, <2>1, <2>2 DEF PayClearing
<1>5. CASE PayCount(s)
  BY <1>5, LedgerCalm, StripeCalm, RunsCalm
     DEF PayCount, CountForClaim, Run, CallsOK
<1>6. CASE PayTake(s)
  BY <1>6, LedgerCalm, StripeCalm, RunsCalm DEF PayTake
<1>7. CASE PayExpire(s)
  BY <1>7, LedgerCalm, StripeCalm, RunsCalm DEF PayExpire
<1>8. CASE PayApprove(s)
  BY <1>8, LedgerCalm, StripeCalm, RunsCalm DEF PayApprove
<1>9. CASE PayLost(s)
  BY <1>9, LedgerCalm, StripeCalm, RunsCalm DEF PayLost
<1>10. CASE PayInsert(s)
  BY <1>10, LedgerCalm, StripeCalm, RunsCalm
     DEF PayInsert, Recorded, Run, CallsOK
<1>11. CASE PayInsertFails(s)
  BY <1>11, LedgerCalm, StripeCalm, RunsCalm DEF PayInsertFails
<1>12. CASE PayDup(s)
  BY <1>12, LedgerCalm, StripeCalm, RunsCalm DEF PayDup
<1>13. CASE PayReopen(s)
  BY <1>13, LedgerCalm, StripeCalm, RunsCalm DEF PayReopen
<1>14. CASE PayConfirm(s)
  BY <1>14, LedgerCalm, StripeCalm, RunsCalm DEF PayConfirm
<1>15. CASE PayConfirmFails(s)
  BY <1>15, LedgerCalm, StripeCalm, RunsCalm DEF PayConfirmFails
<1>16. CASE PayRefund(s)
  BY <1>16, LedgerCalm, StripeCalm, RunsCalm DEF PayRefund
<1>17. CASE PayRefundFails(s)
  BY <1>17, LedgerCalm, StripeCalm, RunsCalm DEF PayRefundFails
<1>18. CASE PayBook(s)
  BY <1>18, LedgerCalm, StripeCalm, RunsCalm DEF PayBook
<1>19. CASE PayFail(s)
  BY <1>19, LedgerCalm, StripeCalm, RunsCalm DEF PayFail
<1> QED
  BY <1>1, <1>2, <1>3, <1>4, <1>5, <1>6, <1>7, <1>8, <1>9, <1>10, <1>11,
     <1>12, <1>13, <1>14, <1>15, <1>16, <1>17, <1>18, <1>19
     DEF PayStep

(* Nor does giving money back capture any. *)
LEMMA RegistrationStepCalm ==
    ASSUME TInv, NEW s \in Slots, RegistrationStep(s),
           ~CaptureAction(s) PROVE Calm
<1> USE DEF TInv, DataOK, Calm, At, Entry
<1>1. CASE RefuseStep(s)
  BY <1>1, LedgerCalm, StripeCalm, RunsCalm DEF RefuseStep
<1>2. CASE RefuseFails(s)
  BY <1>2, LedgerCalm, StripeCalm, RunsCalm DEF RefuseFails
<1>3. CASE RefuseRow(s)
  BY <1>3, LedgerCalm, StripeCalm, RunsCalm DEF RefuseRow
<1>4. CASE OrphanRecorded(s)
  BY <1>4, LedgerCalm, StripeCalm, RunsCalm
     DEF OrphanRecorded, Recorded, Run, CallsOK
<1>5. CASE RegisterStep(s)
  BY <1>5, RegisterStepCalm
<1>6. CASE PayStep(s)
  BY <1>6, PayStepCalm
<1> QED
  BY <1>1, <1>2, <1>3, <1>4, <1>5, <1>6 DEF RegistrationStep

(* Whatever settles an intent releases holds and never captures one. *)
LEMMA ReconcileStepCalm ==
    ASSUME TInv, NEW s \in Slots, ReconcileStep(s) PROVE Calm
<1> USE DEF TInv, DataOK, Calm, At, Entry
<1>1. CASE LeaveFind(s)
  <2>1. CASE Goto(s, "leave.unenroll")
    BY <1>1, <2>1, LedgerCalm, StripeCalm, RunsCalm DEF LeaveFind
  <2>2. CASE \E i \in PaymentsOf(call[s].u) :
              \/ call' = [call EXCEPT ![s].i = i, ![s].at = "leave.unenroll"]
              \/ call' = [call EXCEPT ![s].i = i, ![s].at = "leave.refund"]
    <3>1. RunsKept
      BY <2>2 DEF RunsKept, CallsOK, Run
    <3> QED BY <1>1, <3>1, LedgerCalm, StripeCalm DEF LeaveFind
  <2> QED BY <1>1, <2>1, <2>2 DEF LeaveFind
<1>2. CASE LeaveRefund(s)
  BY <1>2, LedgerCalm, StripeCalm, RunsCalm DEF LeaveRefund
<1>3. CASE LeaveRefundFails(s)
  BY <1>3, LedgerCalm, StripeCalm, RunsCalm DEF LeaveRefundFails
<1>4. CASE LeaveRow(s)
  BY <1>4, LedgerCalm, StripeCalm, RunsCalm DEF LeaveRow
<1>5. CASE LeaveBook(s)
  BY <1>5, LedgerCalm, StripeCalm, RunsCalm DEF LeaveBook
<1>6. CASE LeaveUnenroll(s)
  BY <1>6, LedgerCalm, StripeCalm, RunsCalm DEF LeaveUnenroll
<1>7. CASE ReleasePaid(s)
  BY <1>7, LedgerCalm, StripeCalm, RunsCalm DEF ReleasePaid
<1>8. CASE ReleaseUnenroll(s)
  BY <1>8, LedgerCalm, StripeCalm, RunsCalm DEF ReleaseUnenroll
<1>9. CASE FailedRow(s)
  BY <1>9, LedgerCalm, StripeCalm, RunsCalm DEF FailedRow
<1>10. CASE FailedAgain(s)
  BY <1>10, LedgerCalm, StripeCalm, RunsCalm DEF FailedAgain
<1>11. CASE SucceededRecorded(s)
  BY <1>11, LedgerCalm, StripeCalm, RunsCalm DEF SucceededRecorded, Recorded
<1>12. CASE SucceededHeld(s)
  BY <1>12, LedgerCalm, StripeCalm, RunsCalm DEF SucceededHeld
<1>13. CASE SucceededDelivered(s)
  BY <1>13, LedgerCalm, StripeCalm, RunsCalm DEF SucceededDelivered
<1>14. CASE RecordCharge(s)
  BY <1>14, LedgerCalm, StripeCalm, RunsCalm DEF RecordCharge, Recorded
<1>15. CASE SweepSucceeded(s)
  BY <1>15, LedgerCalm, StripeCalm, RunsCalm DEF SweepSucceeded
<1>16. CASE SweepAuthorized(s)
  BY <1>16, LedgerCalm, StripeCalm, RunsCalm DEF SweepAuthorized
<1>17. CASE SweepProcessing(s)
  BY <1>17, LedgerCalm, StripeCalm, RunsCalm DEF SweepProcessing
<1>18. CASE SweepEnrolled(s)
  BY <1>18, LedgerCalm, StripeCalm, RunsCalm DEF SweepEnrolled
<1>19. CASE SweepSettle(s)
  BY <1>19, LedgerCalm, StripeCalm, RunsCalm DEF SweepSettle
<1>20. CASE SweepFail(s)
  BY <1>20, LedgerCalm, StripeCalm, RunsCalm DEF SweepFail
<1>21. CASE SweepRefund(s)
  <2>1. \/ call' = [call EXCEPT ![s].at = "sweep.refunded", ![s].row = TRUE]
        \/ call' = [call EXCEPT ![s].at = "sweep.refunded", ![s].row = FALSE]
    BY <1>21 DEF SweepRefund
  <2>2. RunsKept
    BY <2>1 DEF RunsKept, CallsOK, Run
  <2> QED BY <1>21, <2>2, LedgerCalm, StripeCalm DEF SweepRefund
<1>22. CASE SweepRefunded(s)
  BY <1>22, LedgerCalm, StripeCalm, RunsCalm DEF SweepRefunded
<1>23. CASE SweepCancel(s)
  BY <1>23, LedgerCalm, StripeCalm, RunsCalm DEF SweepCancel
<1>24. CASE SweepReleased(s)
  BY <1>24, LedgerCalm, StripeCalm, RunsCalm DEF SweepReleased
<1>25. CASE SweepRefused(s)
  BY <1>25, LedgerCalm, StripeCalm, RunsCalm DEF SweepRefused
<1>26. CASE OrphanHeld(s)
  BY <1>26, LedgerCalm, StripeCalm, RunsCalm
     DEF OrphanHeld, RowsOf, RequestIds
<1>27. CASE OrphanCancel(s)
  BY <1>27, LedgerCalm, StripeCalm, RunsCalm DEF OrphanCancel
<1>28. CASE OrphanDelivered(s)
  BY <1>28, LedgerCalm, StripeCalm, RunsCalm DEF OrphanDelivered
<1> QED
  BY <1>1, <1>2, <1>3, <1>4, <1>5, <1>6, <1>7, <1>8, <1>9, <1>10, <1>11,
     <1>12, <1>13, <1>14, <1>15, <1>16, <1>17, <1>18, <1>19, <1>20, <1>21,
     <1>22, <1>23, <1>24, <1>25, <1>26, <1>27, <1>28
     DEF ReconcileStep

(* A run about to capture or to delete a charge row knows its intent. *)
LEMMA AtEntry ==
    ASSUME BInv, NEW t \in Slots, call[t].at \in Entry
    PROVE  call[t].i \in Intents /\ CaptureLocals(t)
BY DEF BInv, TInv, CallsOK, SlotOK, HoldsBooked, Entry, WithIntent, CaptureLabels

(* The six steps around the capture: the row is found or written before    *)
(* the hold is captured, and deleted only after it is released.            *)
LEMMA CaptureOK ==
    ASSUME BInv, NEW s \in Slots, CaptureAction(s)
    PROVE  HoldsBooked' /\ CapturesBooked
<1> USE DEF At
<1>1. TInv /\ CallsOK /\ LedgerOK /\ StripeOK
  BY DEF BInv, TInv, DataOK
<1>2. call \in [Slots -> Run(Labels)] /\ ledger \in [Intents -> Ledger]
                                      /\ stripe \in [Intents -> Intent]
  BY <1>1 DEF CallsOK, LedgerOK, StripeOK
<1>3. call[s].i \in Intents
  BY <1>1 DEF CaptureAction, RegisterLookup, RegisterInsert, RegisterCapture,
     RegisterCaptureLost, RegisterCapCancel, RegisterCapDelete, CallsOK,
     SlotOK, WithIntent, CaptureLabels
<1>4. ASSUME LedgerKept, StripeKept,
             \A t \in Slots \ {s} : call'[t] = call[t],
             call'[s].at \in Entry => CaptureLocals(s)'
      PROVE  HoldsBooked' /\ CapturesBooked
  <2>1. ASSUME NEW t \in Slots \ {s} PROVE CaptureLocals(t)'
    <3>1. CASE call[t].at \in Entry
      BY <1>4, <3>1, AtEntry
         DEF LedgerKept, StripeKept, CaptureLocals, Safe, Entry
    <3>2. CASE call[t].at \notin Entry
      BY <1>4, <3>2 DEF CaptureLocals, Entry
    <3> QED BY <3>1, <3>2
  <2>2. CaptureLocals(s)'
    BY <1>4 DEF CaptureLocals, Entry
  <2> QED BY <1>4, <2>1, <2>2 DEF HoldsBooked, StripeKept, CapturesBooked
<1>5. CASE RegisterLookup(s)
  <2>1. LedgerKept /\ StripeKept
    BY <1>1, <1>5, LedgerCalm, StripeCalm DEF RegisterLookup
  <2>2. \A t \in Slots \ {s} : call'[t] = call[t]
    BY <1>2, <1>5 DEF RegisterLookup
  <2>3. call'[s].at \in Entry =>
            /\ call'[s].at = "register.capture"
            /\ call'[s].i = call[s].i
            /\ ledger[call[s].i].charge = "pending"
    BY <1>2, <1>5 DEF RegisterLookup, Entry, Run
  <2>4. call'[s].at \in Entry => CaptureLocals(s)'
    BY <1>5, <2>3 DEF RegisterLookup, CaptureLocals, Safe, Recorded
  <2> QED BY <1>4, <2>1, <2>2, <2>4
<1>6. CASE RegisterInsert(s)
  <2>1. CASE Goto(s, "register.dup") /\ UNCHANGED ledger
    <3>1. Calm
      BY <1>1, <1>6, <2>1, LedgerCalm, StripeCalm, RunsCalm
         DEF RegisterInsert, Calm, Entry
    <3> QED BY <3>1, CalmOK
  <2>2. CASE /\ SetCharge(call[s].i, "pending")
             /\ call' = [call EXCEPT ![s].at = "register.capture",
                                     ![s].row = TRUE]
    <3>1. LedgerKept /\ StripeKept
      BY <1>1, <1>6, <2>2, LedgerCalm, StripeCalm DEF RegisterInsert
    <3>2. \A t \in Slots \ {s} : call'[t] = call[t]
      BY <1>2, <2>2
    <3>3. call'[s].at = "register.capture" /\ call'[s].i = call[s].i
      BY <1>2, <2>2 DEF Run
    <3>4. ledger'[call[s].i].charge = "pending"
      BY <1>2, <1>3, <2>2 DEF SetCharge, Ledger
    <3>5. CaptureLocals(s)'
      BY <3>3, <3>4 DEF CaptureLocals, Safe, Recorded
    <3> QED BY <1>4, <3>1, <3>2, <3>5
  <2> QED BY <1>6, <2>1, <2>2 DEF RegisterInsert
<1>7. CASE RegisterCapture(s) \/ RegisterCaptureLost(s)
  <2>1. call[s].at = "register.capture"
    BY <1>7 DEF RegisterCapture, RegisterCaptureLost
  <2>2. Safe(call[s].i)
    BY <2>1, AtEntry DEF Entry, CaptureLocals
  <2>3. LedgerKept
    BY <1>1, <1>7, LedgerCalm DEF RegisterCapture, RegisterCaptureLost
  <2>4. RunsKept
    BY <1>2, <1>7 DEF RegisterCapture, RegisterCaptureLost, RunsKept, Entry,
       Goto, Run
  <2>5. CASE UNCHANGED stripe
    BY <1>1, <2>3, <2>4, <2>5, StripeCalm, CalmOK DEF Calm
  <2>6. CASE CanCapture(call[s].i) /\ Capture(call[s].i)
    <3>1. Recorded(call[s].i)
      BY <2>2, <2>6 DEF Safe, Over, CanCapture
    <3>2. CapturesBooked /\ \A i \in Intents : Over(i) => Over(i)'
      BY <1>2, <1>3, <2>6, <3>1
         DEF CapturesBooked, Over, Capture, SetIntent, Intent
    <3>3. ASSUME NEW t \in Slots PROVE CaptureLocals(t)'
      <4>1. CASE call'[t].at \notin Entry
        BY <4>1 DEF CaptureLocals, Entry
      <4>2. CASE call'[t] = call[t] /\ call[t].at \in Entry
        BY <2>3, <3>2, <4>2, AtEntry
           DEF LedgerKept, CaptureLocals, Safe, Entry
      <4> QED BY <2>4, <4>1, <4>2 DEF RunsKept
    <3> QED BY <3>2, <3>3 DEF HoldsBooked
  <2> QED BY <1>7, <2>5, <2>6 DEF RegisterCapture, RegisterCaptureLost
<1>8. CASE RegisterCapCancel(s)
  <2>1. LedgerKept /\ StripeKept
    BY <1>1, <1>8, LedgerCalm, StripeCalm DEF RegisterCapCancel
  <2>2. \A t \in Slots \ {s} : call'[t] = call[t]
    BY <1>2, <1>8 DEF RegisterCapCancel, Goto, Finish
  <2>3. call'[s].at \in Entry =>
            /\ call'[s].at = "register.capDelete" /\ call'[s].i = call[s].i
            /\ stripe[call[s].i].st = "hold"
    BY <1>2, <1>8 DEF RegisterCapCancel, Goto, Finish, Idle, Entry, Run
  <2>4. stripe[call[s].i].st = "hold" => stripe'[call[s].i].st = "canceled"
    <3>1. stripe[call[s].i].st = "hold" =>
              stripe' = [stripe EXCEPT ![call[s].i].st = "canceled"]
      BY <1>8 DEF RegisterCapCancel, CancelHold, SetIntent
    <3> QED BY <1>2, <1>3, <3>1 DEF Intent
  <2>5. call'[s].at \in Entry => CaptureLocals(s)'
    BY <2>3, <2>4 DEF CaptureLocals, Over
  <2> QED BY <1>4, <2>1, <2>2, <2>5
<1>9. CASE RegisterCapDelete(s)
  <2>1. Over(call[s].i)
    BY <1>9, AtEntry DEF RegisterCapDelete, Entry, CaptureLocals
  <2>2. RunsKept /\ StripeKept
    BY <1>1, <1>9, RunsCalm, StripeCalm DEF RegisterCapDelete
  <2>3. ASSUME NEW i \in Intents, Safe(i) PROVE Safe(i)'
    BY <1>2, <1>9, <2>1, <2>3
       DEF RegisterCapDelete, SetCharge, Safe, Recorded, Over, Ledger
  <2>4. ASSUME NEW t \in Slots PROVE CaptureLocals(t)'
    <3>1. CASE call'[t].at \notin Entry
      BY <3>1 DEF CaptureLocals, Entry
    <3>2. CASE call'[t] = call[t] /\ call[t].at \in Entry
      BY <2>2, <2>3, <3>2, AtEntry DEF StripeKept, CaptureLocals, Entry
    <3> QED BY <2>2, <3>1, <3>2 DEF RunsKept
  <2> QED BY <2>2, <2>4 DEF HoldsBooked, StripeKept, CapturesBooked
<1> QED BY <1>5, <1>6, <1>7, <1>8, <1>9 DEF CaptureAction

(* Calls, events, sweeps, Stripe, time and restarts capture nothing; a     *)
(* checkout makes a hold only of an intent nobody has used.                *)
LEMMA OutsideCalm ==
    ASSUME TInv,
           \/ \E s \in Slots : Arrival(s) \/ WebhookStep(s) \/ SweepStep(s)
           \/ StripeStep \/ DeleteSeminar \/ Time \/ Crash
           \/ UNCHANGED storeVars
    PROVE  Calm
<1> USE DEF TInv, DataOK, Calm, At, Entry
<1>1. ASSUME NEW s \in Slots, Arrival(s) PROVE Calm
  <2>1. ASSUME NEW u \in Students, RequestSeat(s, u) PROVE Calm
    BY <2>1, LedgerCalm, StripeCalm, RunsCalm DEF RequestSeat, Run, CallsOK
  <2>2. ASSUME NEW u \in Students, Invite(s, u) PROVE Calm
    BY <2>2, LedgerCalm, StripeCalm, RunsCalm DEF Invite, Run, CallsOK
  <2>3. ASSUME NEW c, UpdateCap(s, c) PROVE Calm
    <3>1. PICK n, ret : call' = [call EXCEPT ![s].at = "update.write",
                                     ![s].cap = n, ![s].ret = ret]
      BY <2>3 DEF UpdateCap
    <3>2. RunsKept
      BY <3>1 DEF RunsKept, Run, CallsOK
    <3> QED BY <2>3, <3>2, LedgerCalm, StripeCalm DEF UpdateCap
  <2>4. CASE Drain(s)
    BY <2>4, LedgerCalm, StripeCalm, RunsCalm DEF Drain
  <2>5. ASSUME NEW u \in Students, NEW i, Register(s, u, i) PROVE Calm
    BY <2>5, LedgerCalm, StripeCalm, RunsCalm DEF Register, Run, CallsOK
  <2>6. ASSUME NEW u \in Students, NEW i, NEW r, Pay(s, u, i, r) PROVE Calm
    <3>1. RunsKept
      BY <2>6 DEF Pay, RunsKept, Run, CallsOK
    <3> QED BY <2>6, <3>1, LedgerCalm, StripeCalm DEF Pay
  <2>7. ASSUME NEW u \in Students, Leave(s, u) PROVE Calm
    <3>1. RunsKept
      BY <2>7 DEF Leave, RunsKept, Run, CallsOK
    <3> QED BY <2>7, <3>1, LedgerCalm, StripeCalm DEF Leave
  <2> HIDE DEF TInv, Calm
  <2> QED
    BY <1>1, <2>1, <2>2, <2>3, <2>4, <2>5, <2>6, <2>7
       DEF Arrival, WaitlistCall, RegistrationCall
<1>2. ASSUME NEW s \in Slots, WebhookStep(s) PROVE Calm
  <2>1. ASSUME NEW i \in Intents, FailedEvent(s, i) PROVE Calm
    <3>1. RunsKept
      BY <2>1 DEF FailedEvent, Release, RunsKept, Run, CallsOK
    <3>2. UNCHANGED <<ledger, stripe>>
      BY <2>1 DEF FailedEvent
    <3>3. LedgerKept /\ StripeKept
      BY <3>2 DEF LedgerKept, Recorded, StripeKept, Over
    <3> QED BY <3>1, <3>3
  <2>2. ASSUME NEW i \in Intents, SucceededEvent(s, i) PROVE Calm
    <3>1. RunsKept
      BY <2>2 DEF SucceededEvent, RunsKept, Run, CallsOK
    <3>2. UNCHANGED stripe /\ (UNCHANGED ledger \/ SetCharge(i, "completed"))
      BY <2>2 DEF SucceededEvent
    <3>3. StripeKept
      BY <3>2 DEF StripeKept, Over
    <3>4. LedgerKept
      BY <3>2, LedgerCalm
    <3> QED BY <3>1, <3>3, <3>4
  <2> QED BY <1>2, <2>1, <2>2 DEF WebhookStep
<1>3. ASSUME NEW s \in Slots, SweepStep(s) PROVE Calm
  <2>1. ASSUME NEW i \in Intents, HourPasses(i, BeforeRow) \/ HourPasses(i, BeforeRow \cup InRow)
        PROVE  StripeKept
    BY <2>1 DEF HourPasses, StripeKept, Over, StripeOK, Intent
  <2>2. ASSUME NEW i \in Intents, SweepPending(s, i) PROVE Calm
    <3>1. RunsKept
      BY <2>2 DEF SweepPending, RunsKept, Run, CallsOK
    <3> QED BY <2>1, <2>2, <3>1, LedgerCalm DEF SweepPending
  <2>3. ASSUME NEW i \in Intents, SweepOrphan(s, i) PROVE Calm
    <3>1. PICK u, p : call' = [call EXCEPT ![s].at = "orphan.held",
                          ![s].i = i, ![s].u = u, ![s].pays = p]
      BY <2>3 DEF SweepOrphan
    <3>2. RunsKept
      BY <3>1 DEF RunsKept, Run, CallsOK
    <3> QED BY <2>1, <2>3, <3>2, LedgerCalm DEF SweepOrphan
  <2>4. ASSUME NEW r \in RequestIds, SweepOffer(s, r) PROVE Calm
    BY <2>4, LedgerCalm, StripeCalm, RunsCalm DEF SweepOffer
  <2> QED BY <1>3, <2>2, <2>3, <2>4 DEF SweepStep
<1>4. CASE StripeStep
  <2>1. ASSUME NEW i \in Intents, NEW u, NEW r, NEW st, Checkout(u, i, r, st)
        PROVE  Calm
    <3>1. StripeKept
      BY <2>1 DEF Checkout, StripeKept, Over, StripeOK, Intent
    <3> QED BY <2>1, <3>1, LedgerCalm, RunsCalm DEF Checkout, RunsKept
  <2>2. ASSUME NEW i \in Intents,
               DeclinedFirst(i) \/ WalletClears(i) \/ WalletFails(i)
        PROVE  Calm
    <3>1. StripeKept
      BY <2>2 DEF DeclinedFirst, WalletClears, WalletFails, SetIntent,
         StripeKept, Over, StripeOK, Intent
    <3> QED BY <2>2, <3>1, LedgerCalm
            DEF DeclinedFirst, WalletClears, WalletFails, RunsKept
  <2> QED BY <1>4, <2>1, <2>2 DEF StripeStep
<1>5. CASE DeleteSeminar \/ Time \/ UNCHANGED storeVars
  BY <1>5, LedgerCalm, StripeCalm
     DEF DeleteSeminar, Time, SeminarStarts, WindowLapses, storeVars, RunsKept
<1>6. CASE Crash
  BY <1>6, LedgerCalm, StripeCalm DEF Crash, RunsKept, Idle
<1> QED BY <1>1, <1>2, <1>3, <1>4, <1>5, <1>6

(* No run exists at first. *)
LEMMA InitBooked == Init => BInv
<1> SUFFICES ASSUME Init PROVE BInv
  OBVIOUS
<1>1. TInv
  BY InitTyped
<1>2. HoldsBooked
  BY DEF Init, HoldsBooked, CaptureLocals, Idle
<1> QED BY <1>1, <1>2 DEF BInv

(* Every step keeps the invariant and captures only booked holds. *)
LEMMA NextBooked ==
    BInv /\ [Next]_storeVars => BInv' /\ CapturesBooked
<1> SUFFICES ASSUME BInv, [Next]_storeVars PROVE BInv' /\ CapturesBooked
  OBVIOUS
<1>1. TInv /\ TInv'
  BY NextTyped DEF BInv
<1>2. ASSUME NEW s \in Slots, Step(s), ~CaptureAction(s) PROVE Calm
  <2>1. CASE WaitlistStep(s)
    BY <1>1, <2>1, WaitlistStepCalm
  <2>2. CASE RegistrationStep(s)
    BY <1>1, <1>2, <2>2, RegistrationStepCalm
  <2>3. CASE ReconcileStep(s)
    BY <1>1, <2>3, ReconcileStepCalm
  <2> QED BY <1>2, <2>1, <2>2, <2>3 DEF Step
<1>3. CASE \E s \in Slots : CaptureAction(s)
  BY <1>1, <1>3, CaptureOK DEF BInv
<1>4. CASE ~\E s \in Slots : CaptureAction(s)
  <2>1. Calm
    BY <1>1, <1>2, <1>4, OutsideCalm DEF Next
  <2> QED BY <1>1, <2>1, CalmOK DEF BInv
<1> QED BY <1>3, <1>4

(* A hold is captured only when its charge row exists, so that a crash     *)
(* between capture and confirmation leaves a row for the sweep.            *)
THEOREM CaptureBooked == Spec => CaptureIsBooked
<1>1. BInv /\ [Next]_storeVars =>
          [\A i \in Intents :
             stripe[i].st = "hold" /\ stripe'[i].st = "succeeded" => Recorded(i)]_storeVars
  BY NextBooked DEF CapturesBooked
<1> QED BY <1>1, InitBooked, NextBooked, PTL DEF Spec, CaptureIsBooked

-----------------------------------------------------------------------------
(* The books agree with Stripe.  A run that writes to a charge row knows   *)
(* what became of the intent: it saw the money taken, given back or        *)
(* released, and neither is undone.  The one thing seen that might change, *)
(* a hold nobody has captured, is seen by a sweep an hour later, when no   *)
(* run can capture it any more.                                            *)

(* The environments of the theorem.  No wallet payment clears later than   *)
(* it is made: the sweep asks Stripe three questions, and writes off one   *)
(* that clears between them.  BooksKept adds what BooksMatchStripe itself  *)
(* leaves out: payments that fail, and forms sent an hour late.            *)
WalletsAtOnce == "processing" \notin Outcomes
BooksKept == WalletsAtOnce /\ PaymentsHold /\ "late" \notin Calls

(* Where a run registers its student; where it looked at the intent and    *)
(* found it; where it found it paid, or paid and given back, or released.  *)
Registering == ClaimLabels \cup CaptureLabels
FoundAt == {"register.count", "register.take", "register.lookup", "orphan.held"}
PaidAt ==
    {"register.confirm", "register.record", "register.settle", "register.paid"}
    \cup (PayLabels \ {"pay.read", "pay.consumed", "pay.probe", "pay.clearing"})
SucceededAt ==
    {"succeeded.recorded", "succeeded.held", "succeeded.delivered",
     "succeeded.record", "sweep.enrolled", "sweep.settle", "sweep.refund",
     "orphan.delivered"}
RefundedAt == {"leave.row", "leave.book", "pay.refunded", "sweep.refunded"}
CanceledAt == {"failed.row", "sweep.processing", "sweep.fail", "sweep.released"}
TellingAt ==
    Registering \cup PayLabels \cup {"orphan.held"} \cup SucceededAt \cup
    RefundedAt \cup CanceledAt \cup {"sweep.succeeded", "sweep.authorized"}

(* The money was taken and given back.                                     *)
Gave(i) == stripe[i].st = "succeeded" /\ stripe[i].refunded

(* What the locals c of a run say of its intent.                           *)
Knows(c) ==
    /\ c.at \in Registering /\ c.i \in Intents => Paid /\ ~stripe[c.i].old
    /\ c.at \in Registering \cup PayLabels \cup {"orphan.held"} =>
          /\ c.pays # "settling"
          /\ c.pays = "held" => stripe[c.i].st # "none"
          /\ c.pays = "settled" => stripe[c.i].st = "succeeded"
    /\ c.i \in Intents =>
          /\ c.at \in FoundAt => c.pays # "none"
          /\ c.at = "register.insert" => c.pays = "held"
          /\ c.at \in PaidAt => c.pays = "settled"
    /\ c.at \in SucceededAt => stripe[c.i].st = "succeeded"
    /\ c.at \in RefundedAt => Gave(c.i)
    /\ c.at \in CanceledAt => stripe[c.i].st = "canceled"
    /\ c.at \in {"sweep.succeeded", "sweep.authorized"} =>
          stripe[c.i].old /\ stripe[c.i].st # "none"
    /\ c.at = "sweep.authorized" => stripe[c.i].st \in {"hold", "canceled"}

(* What is true of an intent and its events, and of its charge row.        *)
IntentRule(i) ==
    /\ stripe[i].st \in {"none", "hold", "succeeded", "canceled"}
    /\ <<"failed", i>> \in events => stripe[i].st = "canceled"
    /\ <<"succeeded", i>> \in events => stripe[i].st = "succeeded"
BookRule(i) ==
    /\ Recorded(i) => stripe[i].st # "none"
    /\ ledger[i].charge = "failed" => stripe[i].st = "canceled"
    /\ ledger[i].charge = "completed" => stripe[i].st = "succeeded"
    /\ ledger[i].charge = "refunded" => Gave(i)
Rules ==
    /\ \A i \in Intents : IntentRule(i) /\ BookRule(i)
    /\ \A s \in Slots : Knows(call[s])
Books == TInv /\ BooksKept /\ Rules

(* What a step does to Stripe, to the charge rows and to the runs.         *)
IntentGoesOn(i) ==
    /\ stripe[i].st # "none" =>
          stripe'[i].st # "none" /\ (stripe[i].old => stripe'[i].old)
    /\ stripe[i].st \in {"succeeded", "canceled"} => stripe'[i].st = stripe[i].st
    /\ Gave(i) => Gave(i)'
    /\ stripe[i].old /\ stripe[i].st = "hold" => stripe'[i].st \in {"hold", "canceled"}
    /\ stripe'[i].old => stripe[i].old \/ \A t \in Slots : call[t].i # i
StripeFrame == \A i \in Intents : IntentGoesOn(i) /\ IntentRule(i)'
LedgerFrame == \A i \in Intents : ledger'[i].charge = ledger[i].charge \/ BookRule(i)'
RunsFrame == \A t \in Slots : call'[t] = call[t] \/ Knows(call[t])'
Frame == EnvSame /\ StripeFrame /\ LedgerFrame /\ RunsFrame

-----------------------------------------------------------------------------
(* What the environment fixes stays so.                                    *)
LEMMA EnvFixed ==
    ASSUME EnvSame
    PROVE  /\ Paid' = Paid /\ (BooksKept' <=> BooksKept)
           /\ (WalletsAtOnce' <=> WalletsAtOnce)
BY DEF EnvSame, Paid, BooksKept, WalletsAtOnce, PaymentsHold, Calls, Outcomes, Faults

(* What locals say stays true, while the intent does not grow old.         *)
LEMMA KnowsStill ==
    ASSUME Books, EnvSame, StripeFrame, NEW d, Knows(d),
           d.pays # "none" \/ d.at \in WithIntent => d.i \in Intents,
           d.at \in Registering /\ d.i \in Intents => ~stripe'[d.i].old
    PROVE  Knows(d)'
<1>1. Paid' = Paid
  BY EnvFixed
<1>2. CASE d.i \in Intents
  <2>1. IntentGoesOn(d.i)
    BY <1>2 DEF StripeFrame
  <2> QED BY <1>1, <1>2, <2>1 DEF Knows, IntentGoesOn, Gave
<1>3. CASE d.i \notin Intents
  <2>1. /\ d.at \notin SucceededAt \cup RefundedAt \cup CanceledAt
                       \cup {"sweep.succeeded", "sweep.authorized"}
        /\ d.pays = "none"
    BY <1>3 DEF WithIntent, SucceededAt, RefundedAt, CanceledAt, SettleLabels,
                PayLabels
  <2> QED BY <1>3, <2>1 DEF Knows
<1> QED BY <1>2, <1>3

(* A step that moves within the frame keeps the rules. *)
LEMMA FrameKeeps == ASSUME Books, Frame PROVE Rules'
<1>1. ASSUME NEW i \in Intents PROVE IntentRule(i)' /\ BookRule(i)'
  <2>1. IntentGoesOn(i) /\ IntentRule(i)' /\ BookRule(i)
    BY DEF Frame, StripeFrame, Books, Rules
  <2>2. ledger'[i].charge = ledger[i].charge \/ BookRule(i)'
    BY DEF Frame, LedgerFrame
  <2> QED BY <2>1, <2>2 DEF BookRule, IntentGoesOn, Recorded, Gave
<1>2. ASSUME NEW t \in Slots PROVE Knows(call[t])'
  <2>1. CASE Knows(call[t])'
    BY <2>1
  <2>2. CASE call'[t] = call[t]
    <3>1. PICK d : d = call[t] /\ d = call'[t]
      BY <2>2
    <3>2. SlotOK(t) /\ Knows(d)
      BY <3>1 DEF Books, Rules, TInv, CallsOK
    <3>3. d.pays # "none" \/ d.at \in WithIntent => d.i \in Intents
      BY <3>1, <3>2 DEF SlotOK
    <3>4. d.at \in Registering /\ d.i \in Intents => ~stripe'[d.i].old
      BY <3>1, <3>2 DEF Knows, Frame, StripeFrame, IntentGoesOn
    <3>5. Knows(d)'
      BY <3>2, <3>3, <3>4, KnowsStill DEF Frame
    <3> QED BY <3>1, <3>5
  <2> QED BY <2>1, <2>2 DEF Frame, RunsFrame
<1> QED BY <1>1, <1>2 DEF Rules

(* One intent changes, and says so in its events.                          *)
LEMMA IntentChanges ==
    ASSUME Books, NEW i \in Intents, NEW x, stripe' = [stripe EXCEPT ![i] = x],
           x.st # stripe[i].st => stripe[i].st = "hold",
           x.st \in {"hold", "none"} => x.st = stripe[i].st,
           x.st \in {"none", "hold", "succeeded", "canceled"},
           stripe[i].old => x.old /\ (x.st = "succeeded" => stripe[i].st = x.st),
           x.old => stripe[i].old \/ \A t \in Slots : call[t].i # i,
           stripe[i].refunded => x.refunded,
           \A e \in events' : \/ e \in events
                              \/ e = <<"failed", i>> /\ x.st = "canceled"
                              \/ e = <<"succeeded", i>> /\ x.st = "succeeded"
    PROVE  StripeFrame
<1>1. /\ stripe \in [Intents -> Intent]
      /\ \A j \in Intents : IntentRule(j)
  BY DEF Books, TInv, DataOK, StripeOK, Rules
<1>2. stripe'[i] = x /\ \A j \in Intents \ {i} : stripe'[j] = stripe[j]
  BY <1>1
<1>3. ASSUME NEW j \in Intents PROVE IntentGoesOn(j)
  <2>1. CASE j = i
    BY <1>1, <1>2, <2>1 DEF IntentGoesOn, Gave
  <2>2. CASE j # i
    BY <1>2, <2>2 DEF IntentGoesOn, Gave
  <2> QED BY <2>1, <2>2
<1>4. ASSUME NEW j \in Intents PROVE IntentRule(j)'
  <2>1. CASE j = i
    <3>1. <<"failed", i>> \in events' => x.st = "canceled"
      BY <1>1 DEF IntentRule
    <3>2. <<"succeeded", i>> \in events' => x.st = "succeeded"
      BY <1>1 DEF IntentRule
    <3> QED BY <1>2, <2>1, <3>1, <3>2 DEF IntentRule
  <2>2. CASE j # i
    <3>1. \A k : <<k, j>> \in events' => <<k, j>> \in events
      BY <2>2
    <3> QED BY <1>1, <1>2, <2>2, <3>1 DEF IntentRule
  <2> QED BY <2>1, <2>2
<1> QED BY <1>3, <1>4 DEF StripeFrame

(* Stripe changes in few ways. *)
LEMMA StripeFrames ==
    ASSUME Books, NEW i \in Intents
    PROVE  /\ UNCHANGED stripe /\ events' \subseteq events => StripeFrame
           /\ Refund(i) /\ UNCHANGED events => StripeFrame
           /\ Submitted(i) /\ UNCHANGED events => StripeFrame
           /\ CancelHold(i) => StripeFrame
           /\ CanCapture(i) /\ Capture(i) /\ ~stripe[i].old => StripeFrame
           /\ \A L : HourPasses(i, L) /\ UNCHANGED events => StripeFrame
<1>1. /\ stripe \in [Intents -> Intent]
      /\ \A j \in Intents : IntentRule(j)
      /\ "late" \notin Calls
      /\ stripe[i] \in Intent
  BY DEF Books, TInv, DataOK, StripeOK, Rules, BooksKept
<1>2. UNCHANGED stripe /\ events' \subseteq events => StripeFrame
  BY <1>1 DEF StripeFrame, IntentGoesOn, IntentRule, Gave
<1>3. ASSUME Refund(i), UNCHANGED events PROVE StripeFrame
  <2> DEFINE x == [stripe[i] EXCEPT !.refunded = TRUE]
  <2>1. stripe' = [stripe EXCEPT ![i] = x]
    BY <1>3 DEF Refund
  <2>2. x.st = stripe[i].st /\ x.old = stripe[i].old /\ x.refunded
    BY <1>1 DEF Intent
  <2> HIDE DEF x
  <2> QED BY <1>1, <1>3, <2>1, <2>2, IntentChanges DEF IntentRule
<1>4. ASSUME Submitted(i), UNCHANGED events PROVE StripeFrame
  <2> DEFINE x == [stripe[i] EXCEPT !.sent = TRUE]
  <2>1. stripe' = [stripe EXCEPT ![i] = x]
    BY <1>4 DEF Submitted
  <2>2. x.st = stripe[i].st /\ x.old = stripe[i].old /\ x.refunded = stripe[i].refunded
    BY <1>1 DEF Intent
  <2> HIDE DEF x
  <2> QED BY <1>1, <1>4, <2>1, <2>2, IntentChanges DEF IntentRule
<1>5. ASSUME stripe[i].st = "hold", SetIntent(i, "canceled"),
             events' = events \cup {<<"failed", i>>}
      PROVE  StripeFrame
  <2> DEFINE x == [stripe[i] EXCEPT !.st = "canceled"]
  <2>1. stripe' = [stripe EXCEPT ![i] = x]
    BY <1>5 DEF SetIntent
  <2>2. x.st = "canceled" /\ x.old = stripe[i].old /\ x.refunded = stripe[i].refunded
    BY <1>1 DEF Intent
  <2> HIDE DEF x
  <2> QED BY <1>5, <2>1, <2>2, IntentChanges
<1>6. ASSUME CanCapture(i), Capture(i), ~stripe[i].old PROVE StripeFrame
  <2> DEFINE x == [stripe[i] EXCEPT !.st = "succeeded"]
  <2>1. stripe' = [stripe EXCEPT ![i] = x] /\ events' = events \cup {<<"succeeded", i>>}
    BY <1>6 DEF Capture, SetIntent
  <2>2. x.st = "succeeded" /\ x.old = stripe[i].old /\ x.refunded = stripe[i].refunded
    BY <1>1 DEF Intent
  <2> HIDE DEF x
  <2> QED BY <1>6, <2>1, <2>2, IntentChanges DEF CanCapture
<1>7. ASSUME NEW L, HourPasses(i, L), UNCHANGED events PROVE StripeFrame
  <2> DEFINE x == [stripe[i] EXCEPT !.old = TRUE]
  <2>1. stripe' = [stripe EXCEPT ![i] = x] /\ \A t \in Slots : call[t].i # i
    BY <1>1, <1>7 DEF HourPasses
  <2>2. x.st = stripe[i].st /\ x.old /\ x.refunded = stripe[i].refunded
    BY <1>1 DEF Intent
  <2> HIDE DEF x
  <2> QED BY <1>1, <1>7, <2>1, <2>2, IntentChanges DEF IntentRule
<1> QED BY <1>2, <1>3, <1>4, <1>5, <1>6, <1>7 DEF CancelHold

(* What Stripe answers.                                                    *)
LEMMA Answers ==
    ASSUME Books, NEW i \in Intents
    PROVE  /\ Refund(i) /\ CanRefund(i) => stripe'[i].st = "succeeded" /\ stripe'[i].refunded
           /\ CancelHold(i) /\ stripe[i].st = "hold" => stripe'[i].st = "canceled"
           /\ Capture(i) => stripe'[i].st = "succeeded"
BY DEF Books, TInv, DataOK, StripeOK, Intent, Refund, CanRefund, CancelHold,
       Capture, SetIntent

(* A charge row takes a status that Stripe bears out.                      *)
BorneOut(i, status) ==
    /\ status # "none" => stripe[i].st # "none"
    /\ status = "failed" => stripe[i].st = "canceled"
    /\ status = "completed" => stripe[i].st = "succeeded"
    /\ status = "refunded" => Gave(i)

(* The charge rows change in few ways, too.                                *)
LEMMA LedgerFrames ==
    ASSUME Books
    PROVE  /\ UNCHANGED ledger => LedgerFrame
           /\ \A i : AppendRefund(i) => LedgerFrame
           /\ \A i \in Intents : \A status : UNCHANGED stripe /\ BorneOut(i, status) =>
                 /\ SetCharge(i, status) => LedgerFrame
                 /\ MoveCharge(i, status) => LedgerFrame
<1>1. ledger \in [Intents -> Ledger]
  BY DEF Books, TInv, DataOK, LedgerOK
<1>2. ASSUME NEW i, AppendRefund(i) PROVE LedgerFrame
  BY <1>1, <1>2 DEF LedgerFrame, AppendRefund, Ledger
<1>3. ASSUME NEW i \in Intents, NEW status, UNCHANGED stripe, BorneOut(i, status),
             SetCharge(i, status)
      PROVE  LedgerFrame
  BY <1>1, <1>3 DEF LedgerFrame, BorneOut, BookRule, Recorded, Gave, SetCharge, Ledger
<1>4. UNCHANGED ledger => LedgerFrame
  BY DEF LedgerFrame
<1> QED BY <1>2, <1>3, <1>4 DEF MoveCharge

-----------------------------------------------------------------------------
(* The runs. *)
(* A run that goes where it need not know anything.                        *)
LEMMA Untold == ASSUME OutOf(TellingAt) PROVE RunsFrame
<1>1. ASSUME NEW t \in Slots, call'[t].at \notin TellingAt PROVE Knows(call[t])'
  BY <1>1 DEF Knows, TellingAt, FoundAt, PaidAt, Registering, CaptureLabels,
     ClaimLabels, PayLabels
<1> QED BY <1>1 DEF OutOf, RunsFrame

(* A run on the waitlist, and one that ends, need not know anything.       *)
LEMMA TellingOut == TellingAt \cap OnWaitlist = {} /\ TellingAt \cap EndLabels = {}
BY DEF OnWaitlist, EndLabels, WaitlistLabels, OfferLabels, OfferRowLabels,
   AskLabels, TellingAt, Registering, ClaimLabels, CaptureLabels, PayLabels,
   SucceededAt, RefundedAt, CanceledAt

(* One run goes on, knowing what it says.                                  *)
LEMMA Told ==
    ASSUME NEW s \in Slots, \A t \in Slots \ {s} : call'[t] = call[t],
           Knows(call[s])'
    PROVE  RunsFrame
BY DEF RunsFrame

(* A run that goes on with locals d, knowing what they say.                *)
LEMMA GoesKnowing ==
    ASSUME Books, EnvSame, StripeFrame, NEW s \in Slots, NEW d,
           call' = [call EXCEPT ![s] = d], Knows(d),
           d.i = call[s].i,
           d.pays # "none" \/ d.at \in WithIntent => d.i \in Intents
    PROVE  RunsFrame
<1>1. d.at \in Registering /\ d.i \in Intents => ~stripe'[d.i].old
  BY DEF Knows, StripeFrame, IntentGoesOn
<1>2. Knows(d)'
  BY <1>1, KnowsStill
<1>3. call'[s] = d /\ \A t \in Slots \ {s} : call'[t] = call[t]
  BY DEF Books, TInv, CallsOK
<1> QED BY <1>2, <1>3, Told

(* With locals c a run may go on to label l.                               *)
MayGo(c, l) ==
    /\ l \in Registering => c.at \in Registering
    /\ l \in PayLabels => c.at \in PayLabels
    /\ l # "orphan.held"
    /\ l \in WithIntent => c.i \in Intents
    /\ c.i \in Intents =>
          /\ l \in FoundAt => c.pays # "none"
          /\ l = "register.insert" => c.pays = "held"
          /\ l \in PaidAt => c.pays = "settled"
    /\ l \in SucceededAt => stripe[c.i].st = "succeeded"
    /\ l \in RefundedAt => Gave(c.i)
    /\ l \in CanceledAt => stripe[c.i].st = "canceled"
    /\ l # "sweep.succeeded"
    /\ l = "sweep.authorized" =>
          stripe[c.i].old /\ stripe[c.i].st \in {"hold", "canceled"}

(* A run that goes on to where it may, with the same intent, still knows.  *)
LEMMA GoesOnKnowing ==
    ASSUME Books, EnvSame, StripeFrame, NEW s \in Slots,
           \A t \in Slots \ {s} : call'[t] = call[t],
           call'[s].i = call[s].i, call'[s].pays = call[s].pays,
           MayGo(call[s], call'[s].at)
    PROVE  RunsFrame
<1> DEFINE c == call[s]
<1>1. SlotOK(s) /\ Knows(c)
  BY DEF Books, TInv, CallsOK, Rules
<1>2. PICK d : d = call'[s]
  OBVIOUS
<1>3. d.pays # "none" \/ d.at \in WithIntent => d.i \in Intents
  BY <1>1, <1>2 DEF SlotOK, MayGo
<1>4. Knows(d)
  BY <1>1, <1>2 DEF Knows, MayGo
<1>5. d.at \in Registering /\ d.i \in Intents => ~stripe'[d.i].old
  BY <1>2, <1>4 DEF Knows, StripeFrame, IntentGoesOn
<1>6. Knows(d)'
  BY <1>3, <1>4, <1>5, KnowsStill
<1> QED BY <1>2, <1>6, Told

(* So does one that only changes its label.                                *)
LEMMA GotoKnowing ==
    ASSUME Books, EnvSame, StripeFrame, NEW s \in Slots, NEW l, Goto(s, l),
           MayGo(call[s], l)
    PROVE  RunsFrame
<1>1. /\ \A t \in Slots \ {s} : call'[t] = call[t]
      /\ call'[s].at = l /\ call'[s].i = call[s].i /\ call'[s].pays = call[s].pays
  BY DEF Goto, Books, TInv, CallsOK, Run
<1> QED BY <1>1, GoesOnKnowing

-----------------------------------------------------------------------------
(* The handlers.  The waitlist moves no money.                             *)
LEMMA WaitlistFrame ==
    ASSUME Books, NEW s \in Slots, WaitlistStep(s)
    PROVE  StripeFrame /\ LedgerFrame /\ RunsFrame
<1>1. OutOf(TellingAt) /\ NoMoney
  BY TellingOut, WaitlistStepOut DEF Books
<1>2. ASSUME NEW i \in Intents PROVE IntentGoesOn(i) /\ IntentRule(i)'
  BY <1>1 DEF NoMoney, IntentGoesOn, IntentRule, Gave, Books, Rules
<1> QED BY <1>1, <1>2, LedgerFrames, Untold DEF NoMoney, StripeFrame

(* A step that moves no money, or writes what Stripe bears out.            *)
LEMMA QuietMoney ==
    ASSUME Books
    PROVE  /\ UNCHANGED <<stripe, events>> => StripeFrame
           /\ UNCHANGED <<ledger, stripe, events>> => StripeFrame /\ LedgerFrame
<1>1. ASSUME NEW i \in Intents, UNCHANGED <<stripe, events>>
      PROVE  IntentGoesOn(i) /\ IntentRule(i)'
  BY <1>1 DEF IntentGoesOn, IntentRule, Gave, Books, Rules
<1> QED BY <1>1, LedgerFrames DEF StripeFrame

(* A registration captures an intent that is not old, and books what it    *)
(* found.                                                                  *)
LEMMA RegisterMoney ==
    ASSUME Books, NEW s \in Slots, RegisterStep(s)
    PROVE  StripeFrame /\ LedgerFrame
<1> DEFINE i == call[s].i
<1>1. call \in [Slots -> Run(Labels)] /\ SlotOK(s) /\ Knows(call[s])
  BY DEF Books, TInv, CallsOK, Rules
<1>2. call[s].at \in CaptureLabels => i \in Intents /\ Paid /\ ~stripe[i].old
  BY <1>1 DEF SlotOK, WithIntent, Knows, Registering
<1> USE DEF At
<1>3. CASE UNCHANGED <<ledger, stripe, events>>
  BY <1>3, QuietMoney
<1>4. CASE RegisterWhyCancel(s) \/ RegisterCapCancel(s)
  BY <1>2, <1>4, StripeFrames, LedgerFrames
     DEF RegisterWhyCancel, RegisterCapCancel, CaptureLabels
<1>5. CASE RegisterCapture(s) \/ RegisterCaptureLost(s)
  <2>1. i \in Intents /\ ~stripe[i].old /\ UNCHANGED ledger
    BY <1>2, <1>5 DEF RegisterCapture, RegisterCaptureLost, CaptureLabels
  <2>2. UNCHANGED <<stripe, events>> \/ (CanCapture(i) /\ Capture(i))
    BY <1>5 DEF RegisterCapture, RegisterCaptureLost
  <2> QED BY <2>1, <2>2, QuietMoney, StripeFrames, LedgerFrames
<1>6. CASE RegisterInsert(s)
  <2>1. i \in Intents /\ call[s].pays = "held"
    BY <1>1, <1>2, <1>6 DEF RegisterInsert, CaptureLabels, Knows
  <2>2. stripe[i].st # "none"
    BY <1>1, <1>6, <2>1 DEF RegisterInsert, Knows, Registering, CaptureLabels
  <2>3. BorneOut(i, "pending")
    BY <2>2 DEF BorneOut
  <2> QED BY <1>6, <2>1, <2>3, QuietMoney, LedgerFrames DEF RegisterInsert
<1>7. CASE RegisterCapDelete(s)
  <2>1. i \in Intents /\ BorneOut(i, "none")
    BY <1>2, <1>7 DEF RegisterCapDelete, CaptureLabels, BorneOut
  <2> QED BY <1>7, <2>1, QuietMoney, LedgerFrames DEF RegisterCapDelete
<1>8. CASE RegisterRecord(s) \/ RegisterSettle(s) \/ RegisterPaid(s)
  <2>1. i \in Intents /\ call[s].pays = "settled"
    BY <1>1, <1>2, <1>8
       DEF RegisterRecord, RegisterSettle, RegisterPaid, CaptureLabels, Knows, PaidAt
  <2>2. stripe[i].st = "succeeded"
    BY <1>1, <1>8, <2>1 DEF RegisterRecord, RegisterSettle, RegisterPaid, Knows,
       Registering, CaptureLabels
  <2>3. BorneOut(i, "completed")
    BY <2>2 DEF BorneOut
  <2>4. UNCHANGED <<stripe, events>> /\ (UNCHANGED ledger \/ SetCharge(i, "completed"))
    BY <1>8, <2>1 DEF RegisterRecord, RegisterSettle, RegisterPaid
  <2> QED BY <2>1, <2>3, <2>4, QuietMoney, LedgerFrames
<1> QED
  BY <1>3, <1>4, <1>5, <1>6, <1>7, <1>8
     DEF RegisterStep, RegisterFull, RegisterFind, RegisterJoin, RegisterConsumed,
         RegisterProbe, RegisterCount, RegisterTake, RegisterWhy, RegisterOwned,
         RegisterWhyFull, RegisterWhyFind, RegisterWhyJoin, RegisterLookup,
         RegisterInsertFails, RegisterAbort, RegisterDup, RegisterCaptureFails,
         RegisterCapFail, RegisterCancelFails, RegisterConfirm, RegisterConfirmFails

(* A registration goes on with what it found.                              *)
LEMMA RegisterRuns ==
    ASSUME Books, NEW s \in Slots, RegisterStep(s), EnvSame, StripeFrame
    PROVE  RunsFrame
<1> DEFINE c == call[s]
           i == call[s].i
<1>1. CallsOK /\ c \in Run(Labels) /\ SlotOK(s) /\ Knows(c)
  BY DEF Books, TInv, CallsOK, Rules
<1>2. Finish(s) \/ Goto(s, "refuse") => RunsFrame
  BY <1>1, RunsOut, TellingOut, Untold DEF EndLabels
<1>3. CASE \E l : Goto(s, l) /\ MayGo(c, l)
  BY <1>3, GotoKnowing
<1>4. i \in Intents => IntentRule(i)
  BY DEF Books, Rules
<1>5. c.at \in Registering /\ i \in Intents => Paid
  BY <1>1 DEF Knows
<1> USE DEF At, WithIntent, Registering, ClaimLabels, CaptureLabels, PayLabels,
            RefuseLabels, SettleLabels, FoundAt, PaidAt, SucceededAt,
            RefundedAt, CanceledAt, WithIntentIfPaid
<1>6. CASE RegisterFull(s)
  BY <1>1, <1>3, <1>5, <1>6 DEF RegisterFull, Checkin, MayGo
<1>7. CASE RegisterFind(s)
  BY <1>1, <1>3, <1>5, <1>7 DEF RegisterFind, Checkin, MayGo
<1>8. CASE RegisterJoin(s)
  BY <1>1, <1>2, <1>3, <1>5, <1>8 DEF RegisterJoin, Checkin, MayGo
<1>9. CASE RegisterConsumed(s)
  BY <1>1, <1>2, <1>3, <1>9 DEF RegisterConsumed, MayGo, Run
<1>11. CASE RegisterCount(s)
  <2>1. CASE call' = [call EXCEPT ![s].at = "register.take", ![s].soft = SoftHeld(NoOne)]
    <3>1. /\ \A t \in Slots \ {s} : call'[t] = call[t]
          /\ call'[s].at = "register.take" /\ call'[s].i = i /\ call'[s].pays = c.pays
      BY <1>1, <2>1 DEF Run, CallsOK
    <3> QED
      BY <1>1, <1>11, <3>1, GoesOnKnowing DEF Knows, RegisterCount, MayGo
  <2> QED
    BY <1>2, <1>3, <1>1, <1>11, <2>1 DEF RegisterCount, Refuse, CountForClaim, MayGo
<1>12. CASE RegisterTake(s)
  BY <1>1, <1>3, <1>5, <1>12 DEF RegisterTake, MayGo, SlotOK, Knows
<1>13. CASE RegisterWhy(s)
  <2>1. CASE call' = [call EXCEPT ![s].at = "register.whyFull",
                ![s].seen = seminar.enrolled, ![s].cap = seminar.cap]
    <3>1. /\ \A t \in Slots \ {s} : call'[t] = call[t]
          /\ call'[s].at = "register.whyFull" /\ call'[s].i = i /\ call'[s].pays = c.pays
      BY <1>1, <2>1 DEF Run, CallsOK
    <3> QED BY <1>13, <3>1, GoesOnKnowing DEF RegisterWhy, MayGo
  <2> QED
    BY <1>1, <1>2, <1>3, <1>13, <2>1 DEF RegisterWhy, Refuse, MayGo, SlotOK
<1>14. CASE RegisterOwned(s)
  BY <1>2, <1>14 DEF RegisterOwned, Refuse
<1>15. CASE RegisterWhyFull(s)
  BY <1>2, <1>3, <1>15 DEF RegisterWhyFull, Refuse, MayGo
<1>16. CASE RegisterWhyFind(s)
  BY <1>1, <1>2, <1>3, <1>16 DEF RegisterWhyFind, Refuse, MayGo, SlotOK
<1>17. CASE RegisterWhyCancel(s) \/ RegisterCancelFails(s)
  BY <1>1, <1>2, <1>3, <1>17 DEF RegisterWhyCancel, RegisterCancelFails, MayGo
<1>18. CASE RegisterWhyJoin(s)
  BY <1>2, <1>18 DEF RegisterWhyJoin, Refuse
<1>21. CASE RegisterInsertFails(s) \/ RegisterAbort(s) \/ RegisterDup(s)
  BY <1>1, <1>2, <1>3, <1>21
     DEF RegisterInsertFails, RegisterAbort, RegisterDup, MayGo, SlotOK
<1>23. CASE RegisterCaptureFails(s) \/ RegisterCaptureLost(s) \/ RegisterCapFail(s)
            \/ RegisterCapCancel(s) \/ RegisterCapDelete(s)
  BY <1>1, <1>2, <1>3, <1>23
     DEF RegisterCaptureFails, RegisterCaptureLost, RegisterCapFail,
         RegisterCapCancel, RegisterCapDelete, MayGo, SlotOK
<1>24. CASE RegisterConfirm(s)
  BY <1>1, <1>2, <1>3, <1>5, <1>24 DEF RegisterConfirm, MayGo, SlotOK, Knows
<1>25. CASE RegisterConfirmFails(s)
  BY <1>1, <1>2, <1>3, <1>5, <1>25 DEF RegisterConfirmFails, Refuse, MayGo, SlotOK, Knows
<1>26. CASE RegisterRecord(s) \/ RegisterSettle(s) \/ RegisterPaid(s)
  BY <1>2, <1>26 DEF RegisterRecord, RegisterSettle, RegisterPaid
<1>27. CASE RegisterProbe(s)
  <2>1. i \in Intents
    BY <1>1, <1>27 DEF RegisterProbe, SlotOK
  <2>2. stripe[i].st \in {"hold", "succeeded"} \/ Finish(s)
    BY <1>4, <1>27, <2>1 DEF RegisterProbe, IntentRule
  <2>3. CASE ~Finish(s)
    <3> DEFINE d == [c EXCEPT !.at = "register.count", !.pays = FoundAs[stripe[i].st]]
    <3>1. /\ d.at = "register.count" /\ d.i = i
          /\ stripe[i].st = "hold" => d.pays = "held"
          /\ stripe[i].st = "succeeded" => d.pays = "settled"
      BY <1>1 DEF Run, FoundAs
    <3>2. call' = [call EXCEPT ![s] = d]
      BY <1>27, <2>3 DEF RegisterProbe
    <3> HIDE DEF d
    <3>3. Knows(d)
      BY <1>1, <1>27, <2>1, <2>2, <2>3, <3>1 DEF Knows, RegisterProbe
    <3> QED BY <2>1, <3>1, <3>2, <3>3, GoesKnowing
  <2> QED BY <1>2, <2>3
<1>28. CASE RegisterLookup(s)
  <2>1. /\ \A t \in Slots \ {s} : call'[t] = call[t]
        /\ call'[s].i = i /\ call'[s].pays = c.pays
        /\ \/ call'[s].at = "register.confirm" /\ c.pays # "held"
           \/ call'[s].at \in {"register.capture", "register.insert"} /\ c.pays = "held"
    BY <1>1, <1>28 DEF RegisterLookup, Run, CallsOK
  <2>2. i \in Intents /\ c.pays \in {"none", "held", "settling", "settled"}
    BY <1>1, <1>28 DEF RegisterLookup, SlotOK, Run
  <2> QED
    BY <1>1, <1>28, <2>1, <2>2, GoesOnKnowing DEF Knows, RegisterLookup, MayGo
<1>29. CASE RegisterInsert(s)
  <2>1. CASE call' = [call EXCEPT ![s].at = "register.capture", ![s].row = TRUE]
    <3>1. /\ \A t \in Slots \ {s} : call'[t] = call[t]
          /\ call'[s].at = "register.capture" /\ call'[s].i = i /\ call'[s].pays = c.pays
      BY <1>1, <2>1 DEF Run, CallsOK
    <3> QED BY <1>1, <1>29, <3>1, GoesOnKnowing DEF RegisterInsert, SlotOK, MayGo
  <2> QED BY <1>1, <1>3, <1>29, <2>1 DEF RegisterInsert, MayGo, SlotOK
<1>30. CASE RegisterCapture(s)
  <2>1. i \in Intents
    BY <1>1, <1>30 DEF RegisterCapture, SlotOK
  <2>2. CASE CanCapture(i) \/ stripe[i].st = "succeeded"
    <3>1. /\ call'[s].at = "register.confirm" /\ call'[s].i = i
          /\ call'[s].pays = "settled"
          /\ \A t \in Slots \ {s} : call'[t] = call[t]
      BY <1>1, <1>30, <2>2 DEF RegisterCapture, CallsOK, Run
    <3>2. stripe'[i].st = "succeeded"
      BY <1>30, <2>1, <2>2, Answers DEF RegisterCapture
    <3>3. Paid /\ ~stripe'[i].old
      BY <1>1, <1>30, <2>1 DEF RegisterCapture, StripeFrame, IntentGoesOn, Knows
    <3>4. Knows(call[s])'
      BY <2>1, <3>1, <3>2, <3>3, EnvFixed DEF Knows
    <3> QED BY <3>1, <3>4, Told
  <2> QED BY <1>1, <1>3, <1>30, <2>1, <2>2 DEF RegisterCapture, MayGo
<1> QED
  BY <1>6, <1>7, <1>8, <1>9, <1>11, <1>12, <1>13, <1>14, <1>15, <1>16, <1>17,
     <1>18, <1>21, <1>23, <1>24, <1>25, <1>26, <1>27, <1>28, <1>29, <1>30
     DEF RegisterStep

(* A payment for an offer books what it found, and what it gave back.      *)
LEMMA PayMoney ==
    ASSUME Books, NEW s \in Slots, PayStep(s)
    PROVE  StripeFrame /\ LedgerFrame
<1> DEFINE i == call[s].i
<1>1. SlotOK(s) /\ Knows(call[s])
  BY DEF Books, TInv, CallsOK, Rules
<1>2. call[s].at \in PayLabels => i \in Intents
  BY <1>1 DEF SlotOK, WithIntent
<1> USE DEF At
<1>3. CASE UNCHANGED <<ledger, stripe, events>>
  BY <1>3, QuietMoney
<1>4. CASE PayRefund(s)
  BY <1>2, <1>4, QuietMoney, StripeFrames, LedgerFrames DEF PayRefund, PayLabels
<1>5. CASE PayInsert(s) \/ PayBook(s)
  <2>1. i \in Intents /\ call[s].pays = "settled"
    BY <1>1, <1>2, <1>5 DEF PayInsert, PayBook, PayLabels, Knows, PaidAt
  <2>2. stripe[i].st = "succeeded" /\ (call[s].at = "pay.refunded" => Gave(i))
    BY <1>1, <1>5, <2>1 DEF PayInsert, PayBook, PayLabels, Knows, RefundedAt
  <2>3. BorneOut(i, "completed") /\ (call[s].at = "pay.refunded" => BorneOut(i, "refunded"))
    BY <2>2 DEF BorneOut
  <2>4. /\ UNCHANGED <<stripe, events>>
        /\ \/ UNCHANGED ledger \/ SetCharge(i, "completed")
           \/ call[s].at = "pay.refunded" /\ SetCharge(i, "refunded")
    BY <1>5, <2>1 DEF PayInsert, PayBook
  <2> QED BY <2>1, <2>3, <2>4, QuietMoney, LedgerFrames
<1> QED
  BY <1>3, <1>4, <1>5
     DEF PayStep, PayRead, PayConsumed, PayProbe, PayClearing, PayCount, PayTake,
         PayExpire, PayApprove, PayLost, PayInsertFails, PayDup, PayReopen,
         PayConfirm, PayConfirmFails, PayRefundFails, PayFail

(* It goes on with what it found.                                          *)
LEMMA PayRuns ==
    ASSUME Books, NEW s \in Slots, PayStep(s), EnvSame, StripeFrame
    PROVE  RunsFrame
<1> DEFINE c == call[s]
           i == call[s].i
<1>1. CallsOK /\ c \in Run(Labels) /\ SlotOK(s) /\ Knows(c)
  BY DEF Books, TInv, CallsOK, Rules
<1>2. Finish(s) \/ Goto(s, "refuse") \/ (\E ret : Offer(s, ret)) => RunsFrame
  BY <1>1, RunsOut, TellingOut, Untold DEF EndLabels
<1>3. CASE \E l : Goto(s, l) /\ MayGo(c, l)
  BY <1>3, GotoKnowing
<1>4. c.at \in PayLabels => i \in Intents
  BY <1>1 DEF SlotOK, WithIntent
<1>5. i \in Intents => IntentRule(i)
  BY DEF Books, Rules
<1> USE DEF At, WithIntent, Registering, ClaimLabels, CaptureLabels, PayLabels,
            RefuseLabels, SettleLabels, FoundAt, PaidAt, SucceededAt,
            RefundedAt, CanceledAt
<1>6. CASE PayRead(s)
  <2>1. CASE ~Finish(s)
    <3>1. /\ \A t \in Slots \ {s} : call'[t] = call[t]
          /\ call'[s].at = "pay.consumed" /\ call'[s].i = i /\ call'[s].pays = c.pays
      BY <1>1, <1>6, <2>1 DEF PayRead, Run, CallsOK
    <3> QED BY <1>4, <1>6, <3>1, GoesOnKnowing DEF PayRead, MayGo
  <2> QED BY <1>2, <2>1
<1>7. CASE PayConsumed(s) \/ PayClearing(s)
  BY <1>2, <1>3, <1>4, <1>5, <1>7 DEF PayConsumed, PayClearing, IntentRule, MayGo
<1>8. CASE PayProbe(s)
  <2>1. CASE PayFound(s, "settled") /\ ~Finish(s)
    <3>1. /\ \A t \in Slots \ {s} : call'[t] = call[t]
          /\ call'[s].at \in {"refuse", "pay.count"} /\ call'[s].i = i
          /\ call'[s].pays = "settled"
      BY <1>1, <2>1 DEF PayFound, Run, CallsOK
    <3>2. i \in Intents /\ stripe'[i].st = "succeeded"
      BY <1>1, <1>4, <1>8, <3>1 DEF PayProbe, Goto, Run, CallsOK
    <3>3. Knows(call[s])'
      BY <3>1, <3>2 DEF Knows
    <3> QED BY <3>1, <3>3, Told
  <2> QED BY <1>2, <1>3, <1>4, <1>8, <2>1 DEF PayProbe, MayGo
<1>9. CASE PayCount(s)
  <2>1. CASE call' = [call EXCEPT ![s].at = "pay.take", ![s].soft = SoftHeld(c.u)]
    <3>1. /\ \A t \in Slots \ {s} : call'[t] = call[t]
          /\ call'[s].at = "pay.take" /\ call'[s].i = i /\ call'[s].pays = c.pays
      BY <1>1, <2>1 DEF Run, CallsOK
    <3> QED BY <1>1, <1>4, <1>9, <3>1, GoesOnKnowing DEF Knows, PayCount, MayGo
  <2> QED BY <1>1, <1>3, <1>4, <1>9, <2>1 DEF Knows, PayCount, CountForClaim, MayGo
<1>10. CASE PayTake(s) \/ PayApprove(s) \/ PayLost(s)
  BY <1>1, <1>2, <1>3, <1>4, <1>10 DEF Knows, PayTake, PayApprove, PayLost, MayGo
<1>11. CASE PayExpire(s) \/ PayReopen(s) \/ PayConfirm(s) \/ PayFail(s)
  BY <1>2, <1>11 DEF PayExpire, PayReopen, PayConfirm, PayFail
<1>12. CASE PayInsert(s)
  <2>1. CASE call' = [call EXCEPT ![s].at = "pay.confirm", ![s].row = TRUE]
    <3>1. /\ \A t \in Slots \ {s} : call'[t] = call[t]
          /\ call'[s].at = "pay.confirm" /\ call'[s].i = i /\ call'[s].pays = c.pays
      BY <1>1, <2>1 DEF Run, CallsOK
    <3> QED BY <1>1, <1>4, <1>12, <3>1, GoesOnKnowing DEF Knows, PayInsert, MayGo
  <2> QED BY <1>1, <1>3, <1>4, <1>12, <2>1 DEF Knows, PayInsert, MayGo
<1>13. CASE PayInsertFails(s) \/ PayDup(s) \/ PayConfirmFails(s) \/ PayRefundFails(s)
            \/ PayBook(s)
  BY <1>1, <1>3, <1>4, <1>13 DEF Knows, PayInsertFails, PayDup, PayConfirmFails,
     PayRefundFails, PayBook, MayGo
<1>14. CASE PayRefund(s)
  <2>1. i \in Intents /\ c.pays = "settled"
    BY <1>1, <1>4, <1>14 DEF PayRefund, Knows
  <2>2. CASE CanRefund(i)
    <3>1. /\ \A t \in Slots \ {s} : call'[t] = call[t]
          /\ call'[s].at = "pay.refunded" /\ call'[s].i = i /\ call'[s].pays = c.pays
      BY <1>1, <1>14, <2>2 DEF PayRefund, Goto, Run, CallsOK
    <3>2. stripe'[i].st = "succeeded" /\ stripe'[i].refunded
      BY <1>14, <2>1, <2>2, Answers DEF PayRefund
    <3>3. Knows(call[s])'
      BY <2>1, <3>1, <3>2 DEF Knows, Gave
    <3> QED BY <3>1, <3>3, Told
  <2> QED BY <1>3, <1>14, <2>1, <2>2 DEF PayRefund, MayGo
<1> QED
  BY <1>6, <1>7, <1>8, <1>9, <1>10, <1>11, <1>12, <1>13, <1>14 DEF PayStep

(* A refusal writes no charge row, and its run need not know anything.     *)
LEMMA RefusalFrame ==
    ASSUME Books, NEW s \in Slots,
           RefuseStep(s) \/ RefuseFails(s) \/ RefuseRow(s) \/ OrphanRecorded(s)
    PROVE  StripeFrame /\ LedgerFrame /\ RunsFrame
<1>1. CallsOK /\ SlotOK(s) /\ "refuse.row" \notin TellingAt /\ "refuse" \notin TellingAt
  BY DEF Books, TInv, CallsOK, TellingAt, Registering, ClaimLabels, CaptureLabels,
         PayLabels, SucceededAt, RefundedAt, CanceledAt
<1>2. call[s].i \in Intents
  BY <1>1 DEF RefuseStep, RefuseFails, RefuseRow, OrphanRecorded, At, SlotOK,
     WithIntent, RefuseLabels
<1>3. CASE RefuseStep(s)
  BY <1>1, <1>2, <1>3, QuietMoney, StripeFrames, LedgerFrames, RunsOut, TellingOut, Untold
     DEF RefuseStep
<1>4. CASE RefuseFails(s) \/ RefuseRow(s)
  BY <1>1, <1>4, QuietMoney, LedgerFrames, RunsOut, TellingOut, Untold
     DEF RefuseFails, RefuseRow
<1>5. CASE OrphanRecorded(s)
  <2>1. Finish(s) \/ OutOf(TellingAt)
    BY <1>1, <1>5 DEF OrphanRecorded, OutOf, CallsOK, Run
  <2> QED BY <1>1, <1>5, <2>1, QuietMoney, RunsOut, TellingOut, Untold DEF OrphanRecorded
<1> QED BY <1>3, <1>4, <1>5

(* Whoever settles an intent writes what it saw become of it.              *)
LEMMA ReconcileMoney ==
    ASSUME Books, NEW s \in Slots, ReconcileStep(s)
    PROVE  StripeFrame /\ LedgerFrame
<1> DEFINE i == call[s].i
<1>1. SlotOK(s) /\ Knows(call[s])
  BY DEF Books, TInv, CallsOK, Rules
<1>2. call[s].at \in SettleLabels => i \in Intents
  BY <1>1 DEF SlotOK, WithIntent
<1> USE DEF At, SettleLabels
<1>3. CASE UNCHANGED <<ledger, stripe, events>>
  BY <1>3, QuietMoney
<1>4. CASE LeaveRefund(s) \/ SweepRefund(s)
  BY <1>2, <1>4, QuietMoney, StripeFrames, LedgerFrames DEF LeaveRefund, SweepRefund
<1>5. CASE SweepCancel(s) \/ OrphanCancel(s)
  BY <1>2, <1>5, StripeFrames, LedgerFrames DEF SweepCancel, OrphanCancel
<1>6. CASE LeaveRow(s)
  BY <1>6, QuietMoney, LedgerFrames DEF LeaveRow
<1>7. CASE LeaveBook(s) \/ SweepRefunded(s)
  <2>1. BorneOut(i, "refunded") /\ i \in Intents
    BY <1>1, <1>2, <1>7 DEF LeaveBook, SweepRefunded, Knows, RefundedAt, BorneOut, Gave
  <2> QED BY <1>7, <2>1, QuietMoney, LedgerFrames DEF LeaveBook, SweepRefunded
<1>8. CASE FailedRow(s) \/ SweepFail(s) \/ SweepReleased(s)
  <2>1. BorneOut(i, "failed") /\ i \in Intents
    BY <1>1, <1>2, <1>8 DEF FailedRow, SweepFail, SweepReleased, Knows, CanceledAt, BorneOut
  <2> QED BY <1>8, <2>1, QuietMoney, LedgerFrames DEF FailedRow, SweepFail, SweepReleased
<1>9. CASE RecordCharge(s) \/ SweepSettle(s)
  <2>1. BorneOut(i, "completed") /\ i \in Intents
    BY <1>1, <1>2, <1>9 DEF RecordCharge, SweepSettle, Knows, SucceededAt, BorneOut
  <2> QED BY <1>9, <2>1, QuietMoney, LedgerFrames DEF RecordCharge, SweepSettle
<1> QED
  BY <1>3, <1>4, <1>5, <1>6, <1>7, <1>8, <1>9
     DEF ReconcileStep, LeaveFind, LeaveRefundFails, LeaveUnenroll, ReleasePaid,
         ReleaseUnenroll, FailedAgain, SucceededRecorded, SucceededHeld,
         SucceededDelivered, SweepSucceeded, SweepAuthorized, SweepProcessing,
         SweepEnrolled, SweepRefused, OrphanHeld, OrphanDelivered

(* It goes on with what it saw.                                            *)
LEMMA ReconcileRuns ==
    ASSUME Books, NEW s \in Slots, ReconcileStep(s), EnvSame, StripeFrame
    PROVE  RunsFrame
<1> DEFINE c == call[s]
           i == call[s].i
<1>1. CallsOK /\ c \in Run(Labels) /\ SlotOK(s) /\ Knows(c)
  BY DEF Books, TInv, CallsOK, Rules
<1>2. \/ Finish(s) \/ (\E l : Goto(s, l) /\ l \notin TellingAt)
      \/ (\E ret : Offer(s, ret)) \/ (\E j, ret : Release(s, j, ret))
      \/ (EndOffer(s) /\ c.at # "update.write")
      => RunsFrame
  BY <1>1, RunsOut, TellingOut, Untold
<1>3. CASE \E l : Goto(s, l) /\ MayGo(c, l)
  BY <1>3, GotoKnowing
<1>4. c.at \in SettleLabels => i \in Intents
  BY <1>1 DEF SlotOK, WithIntent
<1>5. i \in Intents => IntentRule(i)
  BY DEF Books, Rules
<1> USE DEF At, WithIntent, Registering, ClaimLabels, CaptureLabels, PayLabels,
            RefuseLabels, SettleLabels, FoundAt, PaidAt, SucceededAt,
            RefundedAt, CanceledAt, TellingAt
<1>6. CASE LeaveFind(s)
  <2>1. CASE PaymentsOf(c.u) = {}
    <3>1. Goto(s, "leave.unenroll")
      BY <1>6, <2>1 DEF LeaveFind
    <3>2. "leave.unenroll" \notin TellingAt
      OBVIOUS
    <3> HIDE DEF TellingAt
    <3> QED BY <1>2, <3>1, <3>2
  <2>2. CASE PaymentsOf(c.u) # {}
    <3>1. PICK j \in PaymentsOf(c.u), l \in {"leave.unenroll", "leave.refund"} :
              call' = [call EXCEPT ![s].i = j, ![s].at = l]
      BY <1>6, <2>2 DEF LeaveFind
    <3>2. OutOf(TellingAt)
      BY <1>1, <3>1 DEF OutOf, CallsOK, Run
    <3> QED BY <3>2, Untold
  <2> QED BY <2>1, <2>2
<1>7. CASE LeaveRefund(s) \/ SweepRefund(s)
  <2>1. CASE SweepRefund(s) \/ CanRefund(i)
    <3>1. /\ \A t \in Slots \ {s} : call'[t] = call[t]
          /\ call'[s].at \in {"leave.row", "sweep.refunded"} /\ call'[s].i = i
      BY <1>1, <1>7, <2>1 DEF LeaveRefund, SweepRefund, Goto, Run, CallsOK
    <3>2. i \in Intents /\ CanRefund(i)
      BY <1>1, <1>4, <1>7, <2>1 DEF LeaveRefund, SweepRefund, CanRefund, Knows
    <3>3. stripe'[i].st = "succeeded" /\ stripe'[i].refunded
      BY <1>7, <2>1, <3>2, Answers DEF LeaveRefund, SweepRefund
    <3>4. Knows(call[s])'
      BY <3>1, <3>2, <3>3 DEF Knows, Gave
    <3> QED BY <3>1, <3>4, Told
  <2> QED BY <1>2, <1>7, <2>1 DEF LeaveRefund
<1>8. CASE LeaveRefundFails(s) \/ LeaveBook(s) \/ LeaveUnenroll(s) \/ RecordCharge(s)
           \/ SweepSettle(s) \/ SweepFail(s) \/ SweepRefused(s)
  BY <1>2, <1>8 DEF LeaveRefundFails, LeaveBook, LeaveUnenroll, RecordCharge,
     SweepSettle, SweepFail, SweepRefused
<1>9. CASE ReleasePaid(s) \/ ReleaseUnenroll(s) \/ FailedRow(s) \/ FailedAgain(s)
           \/ SweepRefunded(s) \/ SweepReleased(s) \/ OrphanCancel(s)
  BY <1>2, <1>9 DEF ReleasePaid, ReleaseUnenroll, FailedRow, FailedAgain,
     SweepRefunded, SweepReleased, OrphanCancel
<1>10. CASE LeaveRow(s)
  BY <1>1, <1>3, <1>4, <1>10 DEF LeaveRow, Knows, MayGo
<1>11. CASE SucceededRecorded(s) \/ SucceededHeld(s) \/ SucceededDelivered(s)
            \/ SweepEnrolled(s) \/ OrphanDelivered(s)
  BY <1>1, <1>2, <1>3, <1>4, <1>11
     DEF SucceededRecorded, SucceededHeld, SucceededDelivered, SweepEnrolled,
         OrphanDelivered, Knows, MayGo
<1>12. CASE SweepSucceeded(s)
  BY <1>1, <1>3, <1>4, <1>5, <1>12 DEF SweepSucceeded, Knows, IntentRule, MayGo
<1>13. CASE SweepAuthorized(s) \/ SweepProcessing(s)
  BY <1>1, <1>2, <1>3, <1>4, <1>13
     DEF SweepAuthorized, SweepProcessing, Knows, MayGo
<1>14. CASE SweepCancel(s)
  <2>1. CASE stripe[i].st = "hold"
    <3>1. /\ \A t \in Slots \ {s} : call'[t] = call[t]
          /\ call'[s].at = "sweep.released" /\ call'[s].i = i
      BY <1>1, <1>14, <2>1 DEF SweepCancel, Goto, Run, CallsOK
    <3>2. stripe'[i].st = "canceled"
      BY <1>4, <1>14, <2>1, Answers DEF SweepCancel
    <3>3. Knows(call[s])'
      BY <3>1, <3>2 DEF Knows
    <3> QED BY <3>1, <3>3, Told
  <2> QED BY <1>2, <1>14, <2>1 DEF SweepCancel
<1>15. CASE OrphanHeld(s)
  <2>1. i \in Intents /\ c.pays \in {"held", "settled"}
    BY <1>1, <1>4, <1>15 DEF OrphanHeld, Knows, Run
  <2> QED BY <1>1, <1>2, <1>3, <1>15, <2>1 DEF OrphanHeld, Knows, MayGo
<1> QED
  BY <1>6, <1>7, <1>8, <1>9, <1>10, <1>11, <1>12, <1>13, <1>14, <1>15
     DEF ReconcileStep

(* Every handler moves within the frame.                                   *)
LEMMA StepFrame ==
    ASSUME Books, NEW s \in Slots, Step(s), EnvSame PROVE Frame
<1>1. CASE WaitlistStep(s)
  BY <1>1, WaitlistFrame DEF Frame
<1>2. CASE RegistrationStep(s)
  BY <1>2, RegisterMoney, RegisterRuns, PayMoney, PayRuns, RefusalFrame
     DEF RegistrationStep, Frame
<1>3. CASE ReconcileStep(s)
  BY <1>3, ReconcileMoney, ReconcileRuns DEF Frame
<1> QED BY <1>1, <1>2, <1>3 DEF Step

(* A call begins knowing no payment, for an intent that is not old.        *)
LEMMA ArrivalFrame ==
    ASSUME Books, NEW s \in Slots, Arrival(s), EnvSame PROVE Frame
<1>1. /\ CallsOK /\ call \in [Slots -> Run(Labels)] /\ SlotOK(s)
      /\ stripe \in [Intents -> Intent] /\ "late" \notin Calls
  BY DEF Books, TInv, CallsOK, DataOK, StripeOK, BooksKept
<1>2. OutOf(TellingAt) => RunsFrame
  BY Untold
<1>3. ASSUME \/ \E u \in Students : RequestSeat(s, u) \/ Invite(s, u) \/ Leave(s, u)
             \/ \E x : UpdateCap(s, x)
             \/ Drain(s)
      PROVE  Frame
  <2>1. NoMoney
    BY <1>3 DEF NoMoney, RequestSeat, Invite, Leave, UpdateCap, Drain
  <2>2. /\ \A t \in Slots \ {s} : call'[t] = call[t]
        /\ \/ UNCHANGED call
           \/ call'[s].at \in {"request.full", "invite.find", "leave.find",
                               "update.write", "offer.read"}
    <3>1. ASSUME NEW u \in Students, RequestSeat(s, u)
          PROVE  \/ UNCHANGED call
                 \/ \E e : call' = [call EXCEPT ![s] = e] /\ e.at = "request.full"
      <4> DEFINE e == [call[s] EXCEPT !.at = "request.full", !.u = u,
                           !.seen = seminar.enrolled, !.cap = seminar.cap]
      <4>1. e.at = "request.full"
        BY <1>1 DEF Run
      <4> QED BY <3>1, <4>1, ZenonT(40) DEF RequestSeat
    <3>2. ASSUME NEW u \in Students, Invite(s, u) \/ Leave(s, u)
          PROVE  \/ UNCHANGED call
                 \/ \E e : call' = [call EXCEPT ![s] = e]
                          /\ e.at \in {"invite.find", "leave.find"}
      BY <1>1, <3>2 DEF Invite, Leave, Run
    <3>3. ASSUME NEW x, UpdateCap(s, x)
          PROVE  \E e : call' = [call EXCEPT ![s] = e] /\ e.at = "update.write"
      <4>1. PICK n, ret : call' = [call EXCEPT ![s].at = "update.write",
                                       ![s].cap = n, ![s].ret = ret]
        BY <3>3 DEF UpdateCap
      <4>2. [call[s] EXCEPT !.at = "update.write", !.cap = n, !.ret = ret].at
                = "update.write"
        BY <1>1 DEF Run
      <4> QED BY <4>1, <4>2
    <3>4. ASSUME Drain(s)
          PROVE  \E e : call' = [call EXCEPT ![s] = e] /\ e.at = "offer.read"
      <4>1. call' = [call EXCEPT ![s].at = "offer.read", ![s].ret = "idle"]
        BY <3>4 DEF Drain, Offer
      <4>2. [call[s] EXCEPT !.at = "offer.read", !.ret = "idle"].at = "offer.read"
        BY <1>1 DEF Run
      <4> QED BY <4>1, <4>2
    <3>5. \/ UNCHANGED call
          \/ \E e : /\ call' = [call EXCEPT ![s] = e]
                   /\ e.at \in {"request.full", "invite.find", "leave.find",
                                "update.write", "offer.read"}
      BY <1>3, <3>1, <3>2, <3>3, <3>4
    <3> QED BY <1>1, <3>5
  <2>3. OutOf(TellingAt)
    BY <2>2 DEF OutOf, TellingAt, Registering, ClaimLabels, CaptureLabels,
       PayLabels, SucceededAt, RefundedAt, CanceledAt
  <2> QED BY <1>2, <2>1, <2>3, QuietMoney DEF NoMoney, Frame
<1>4. ASSUME NEW u \in Students, NEW i \in Intents,
             stripe[i].u = u, Submittable(i), Submitted(i), UNCHANGED <<ledger, events>>,
             At(s, "idle"),
             \/ UNCHANGED call
             \/ call' = [call EXCEPT ![s].at = "orphan.recorded", ![s].i = i]
             \/ Paid /\ call' = [call EXCEPT ![s].at = "register.full",
                             ![s].u = u, ![s].i = i,
                             ![s].seen = seminar.enrolled, ![s].cap = seminar.cap]
             \/ \E r : call' = [call EXCEPT ![s].at = "pay.read", ![s].u = u, ![s].i = i,
                            ![s].r = r]
      PROVE  Frame
  <2>1. StripeFrame /\ LedgerFrame
    BY <1>4, StripeFrames, LedgerFrames
  <2>2. ~stripe'[i].old /\ call[s].pays = "none"
    BY <1>1, <1>4 DEF Submittable, Submitted, SlotOK, At, Intent
  <2>3. /\ \A t \in Slots \ {s} : call'[t] = call[t]
        /\ \/ UNCHANGED call
           \/ /\ call'[s].at \in {"orphan.recorded", "register.full", "pay.read"}
              /\ call'[s].at = "register.full" => Paid
              /\ call'[s].i = i /\ call'[s].pays = "none"
    BY <1>1, <1>4, <2>2 DEF Run
  <2>4. UNCHANGED call \/ Knows(call[s])'
    BY <1>4, <2>2, <2>3, EnvFixed DEF Knows, Registering, ClaimLabels, CaptureLabels,
       PayLabels, SucceededAt, RefundedAt, CanceledAt, FoundAt, PaidAt
  <2> QED BY <2>1, <2>3, <2>4, Told DEF Frame, RunsFrame
<1>5. ASSUME NEW u \in Students, Register(s, u, NoIntent) PROVE Frame
  <2>1. NoMoney /\ At(s, "idle")
    BY <1>5 DEF NoMoney, Register, Calling
  <2>2. /\ \A t \in Slots \ {s} : call'[t] = call[t]
        /\ \/ UNCHANGED call
           \/ /\ call'[s].at = "register.full"
              /\ call'[s].i = NoIntent /\ call'[s].pays = "none"
    BY <1>1, <1>5, <2>1 DEF Register, Run, SlotOK, At
  <2>3. UNCHANGED call \/ Knows(call[s])'
    BY <2>2, StoreAssumption DEF Knows, Registering, ClaimLabels, CaptureLabels,
       PayLabels, SucceededAt, RefundedAt, CanceledAt, FoundAt, PaidAt
  <2> QED BY <2>1, <2>2, <2>3, Told, QuietMoney DEF NoMoney, Frame, RunsFrame
<1>6. ASSUME NEW u \in Students, NEW i \in Intents, Register(s, u, i) PROVE Frame
  <2>1. i # NoIntent
    BY StoreAssumption
  <2> QED BY <1>4, <1>6, <2>1 DEF Register, Calling
<1>7. ASSUME NEW u \in Students, NEW i \in Intents, NEW r, Pay(s, u, i, r) PROVE Frame
  <2> QED BY <1>4, <1>7 DEF Pay, Calling
<1> QED
  BY <1>3, <1>5, <1>6, <1>7 DEF Arrival, WaitlistCall, RegistrationCall

(* Stripe's events tell what became of the intent.                         *)
LEMMA WebhookFrame ==
    ASSUME Books, NEW s \in Slots, WebhookStep(s), EnvSame PROVE Frame
<1>1. CallsOK /\ call \in [Slots -> Run(Labels)]
  BY DEF Books, TInv, CallsOK
<1>2. ASSUME NEW i \in Intents, FailedEvent(s, i) PROVE Frame
  <2>1. StripeFrame /\ LedgerFrame
    BY <1>2, StripeFrames, LedgerFrames DEF FailedEvent
  <2>2. stripe'[i].st = "canceled"
    BY <1>2 DEF FailedEvent, Books, Rules, IntentRule
  <2>3. CASE ledger[i].charge = "pending"
    <3>1. /\ \A t \in Slots \ {s} : call'[t] = call[t]
          /\ call'[s].at = "failed.row" /\ call'[s].i = i
      BY <1>1, <1>2, <2>3 DEF FailedEvent, Run
    <3>2. Knows(call[s])'
      BY <2>2, <3>1 DEF Knows, Registering, ClaimLabels, CaptureLabels, PayLabels,
         FoundAt, PaidAt, SucceededAt, RefundedAt, CanceledAt
    <3> QED BY <2>1, <3>1, <3>2, Told DEF Frame
  <2>4. CASE ledger[i].charge # "pending"
    BY <1>1, <1>2, <2>1, <2>4, RunsOut, TellingOut, Untold DEF FailedEvent, Frame
  <2> QED BY <2>3, <2>4
<1>3. ASSUME NEW i \in Intents, SucceededEvent(s, i) PROVE Frame
  <2>1. StripeFrame /\ UNCHANGED stripe
    BY <1>3, StripeFrames DEF SucceededEvent
  <2>2. stripe[i].st = "succeeded"
    BY <1>3 DEF SucceededEvent, Books, Rules, IntentRule
  <2>3. BorneOut(i, "completed")
    BY <2>2 DEF BorneOut
  <2>4. LedgerFrame
    BY <1>3, <2>1, <2>3, LedgerFrames DEF SucceededEvent
  <2>5. CASE UNCHANGED call
    BY <2>1, <2>4, <2>5 DEF Frame, RunsFrame
  <2>6. CASE ~UNCHANGED call
    <3>1. /\ \A t \in Slots \ {s} : call'[t] = call[t]
          /\ call'[s].at = "succeeded.recorded" /\ call'[s].i = i
      BY <1>1, <1>3, <2>6 DEF SucceededEvent, Run
    <3>2. Knows(call[s])'
      BY <2>1, <2>2, <3>1 DEF Knows, Registering, ClaimLabels, CaptureLabels,
         PayLabels, FoundAt, PaidAt, SucceededAt, RefundedAt, CanceledAt
    <3> QED BY <2>1, <2>4, <3>1, <3>2, Told DEF Frame
  <2> QED BY <2>5, <2>6
<1> QED BY <1>2, <1>3 DEF WebhookStep

(* A sweep sees an intent an hour old, that no run works on.               *)
LEMMA SweepFrame ==
    ASSUME Books, NEW s \in Slots, SweepStep(s), EnvSame PROVE Frame
<1>1. /\ CallsOK /\ call \in [Slots -> Run(Labels)]
      /\ stripe \in [Intents -> Intent]
  BY DEF Books, TInv, CallsOK, DataOK, StripeOK
<1>2. ASSUME NEW i \in Intents, SweepPending(s, i) PROVE Frame
  <2>1. StripeFrame /\ LedgerFrame
    BY <1>2, StripeFrames, LedgerFrames DEF SweepPending
  <2>2. stripe'[i].old /\ stripe'[i].st = stripe[i].st
    BY <1>1, <1>2 DEF SweepPending, HourPasses, Intent
  <2>3. stripe[i].st # "none"
    BY <1>2 DEF SweepPending, Books, Rules, BookRule, Recorded
  <2>4. /\ \A t \in Slots \ {s} : call'[t] = call[t]
        /\ call'[s].at = "sweep.succeeded" /\ call'[s].i = i
    BY <1>1, <1>2 DEF SweepPending, Run
  <2>5. Knows(call[s])'
    BY <2>2, <2>3, <2>4 DEF Knows, Registering, ClaimLabels, CaptureLabels,
       PayLabels, FoundAt, PaidAt, SucceededAt, RefundedAt, CanceledAt
  <2> QED BY <2>1, <2>4, <2>5, Told DEF Frame
<1>3. ASSUME NEW i \in Intents, SweepOrphan(s, i) PROVE Frame
  <2>1. StripeFrame /\ LedgerFrame
    BY <1>3, StripeFrames, LedgerFrames DEF SweepOrphan
  <2>2. stripe'[i].st = stripe[i].st /\ stripe[i].st \in {"hold", "succeeded"}
    BY <1>1, <1>3 DEF SweepOrphan, HourPasses, Orphan, Intent
  <2> DEFINE pays == FoundAs[stripe[i].st]
  <2>3. /\ stripe[i].st = "hold" => pays = "held"
        /\ stripe[i].st = "succeeded" => pays = "settled"
    BY DEF FoundAs
  <2>4. call' = [call EXCEPT ![s].at = "orphan.held", ![s].i = i,
                     ![s].u = stripe[i].u, ![s].pays = pays]
    BY <1>3 DEF SweepOrphan
  <2> HIDE DEF pays
  <2>5. /\ \A t \in Slots \ {s} : call'[t] = call[t]
        /\ call'[s].at = "orphan.held" /\ call'[s].i = i /\ call'[s].pays = pays
    BY <1>1, <2>4 DEF Run
  <2>6. Knows(call[s])'
    BY <2>2, <2>3, <2>5 DEF Knows, Registering, ClaimLabels, CaptureLabels,
       PayLabels, FoundAt, PaidAt, SucceededAt, RefundedAt, CanceledAt
  <2> QED BY <2>1, <2>5, <2>6, Told DEF Frame
<1>4. ASSUME NEW r \in RequestIds, SweepOffer(s, r) PROVE Frame
  BY <1>1, <1>4, RunsOut, TellingOut, Untold, QuietMoney DEF SweepOffer, Frame
<1> QED BY <1>2, <1>3, <1>4 DEF SweepStep

(* No payment fails or clears later; the rest moves no money.              *)
LEMMA OutsideFrame ==
    ASSUME Books, EnvSame,
           \/ StripeStep \/ DeleteSeminar \/ Time \/ Crash
           \/ UNCHANGED storeVars
    PROVE  Frame
<1>1. /\ stripe \in [Intents -> Intent]
      /\ \A j \in Intents : IntentRule(j)
      /\ "processing" \notin Outcomes /\ {"decline", "wallet"} \cap Faults = {}
  BY DEF Books, TInv, DataOK, StripeOK, Rules, BooksKept, WalletsAtOnce, PaymentsHold
<1>2. ASSUME NEW i \in Intents, NEW u, NEW r,
             NEW st \in {"hold", "processing", "succeeded"}, Checkout(u, i, r, st)
      PROVE  Frame
  <2>1. st \in {"hold", "succeeded"} /\ stripe[i].st = "none" /\ UNCHANGED <<ledger, call>>
    BY <1>1, <1>2 DEF Checkout
  <2>2. /\ \A j \in Intents \ {i} : stripe'[j] = stripe[j]
        /\ stripe'[i].st = st /\ ~stripe'[i].old
    BY <1>1, <1>2 DEF Checkout
  <2>3. \A e \in events' : \/ e \in events
                           \/ e = <<"succeeded", i>> /\ st = "succeeded"
    BY <1>2 DEF Checkout
  <2>4. ASSUME NEW j \in Intents PROVE IntentGoesOn(j) /\ IntentRule(j)'
    <3>1. CASE j = i
      <4>1. IntentGoesOn(i)
        BY <2>1, <2>2 DEF IntentGoesOn, Gave
      <4>2. <<"failed", i>> \notin events' /\ <<"succeeded", i>> \notin events
        BY <1>1, <2>1, <2>3 DEF IntentRule
      <4>3. <<"succeeded", i>> \in events' => st = "succeeded"
        BY <2>3, <4>2
      <4> QED BY <2>1, <2>2, <3>1, <4>1, <4>2, <4>3 DEF IntentRule
    <3>2. CASE j # i
      <4>1. \A k : <<k, j>> \in events' => <<k, j>> \in events
        BY <2>3, <3>2
      <4> QED BY <1>1, <2>2, <3>2, <4>1 DEF IntentGoesOn, IntentRule, Gave
    <3> QED BY <3>1, <3>2
  <2> QED BY <2>1, <2>4, LedgerFrames DEF Frame, StripeFrame, RunsFrame
<1>3. ASSUME NEW i \in Intents,
             DeclinedFirst(i) \/ WalletClears(i) \/ WalletFails(i)
      PROVE  FALSE
  BY <1>1, <1>3 DEF DeclinedFirst, WalletClears, WalletFails, Fault, IntentRule
<1>4. CASE DeleteSeminar \/ Time \/ UNCHANGED storeVars
  <2>1. UNCHANGED <<ledger, stripe, events, call>>
    BY <1>4 DEF DeleteSeminar, Time, SeminarStarts, WindowLapses, storeVars
  <2> QED BY <2>1, QuietMoney DEF Frame, RunsFrame
<1>5. CASE Crash
  <2>1. OutOf(TellingAt)
    BY <1>5, TellingOut DEF Crash, OutOf, Idle, EndLabels
  <2> QED BY <1>5, <2>1, Untold, QuietMoney DEF Crash, Frame
<1> QED BY <1>2, <1>3, <1>4, <1>5 DEF StripeStep

-----------------------------------------------------------------------------
(* At first nothing is booked, and nobody runs.                            *)
LEMMA InitBooks == Init => Rules
<1> SUFFICES ASSUME Init PROVE Rules
  OBVIOUS
<1>1. ASSUME NEW i \in Intents PROVE IntentRule(i) /\ BookRule(i)
  BY DEF Init, IntentRule, BookRule, Recorded
<1>2. ASSUME NEW s \in Slots PROVE Knows(call[s])
  BY DEF Init, Idle, Knows, Registering, ClaimLabels, CaptureLabels, PayLabels,
     FoundAt, PaidAt, SucceededAt, RefundedAt, CanceledAt
<1> QED BY <1>1, <1>2 DEF Rules

(* Every step stays in the environment it is in.                           *)
LEMMA NextEnv == ASSUME TInv, [Next]_storeVars PROVE EnvSame
<1>1. ASSUME NEW s \in Slots, Step(s) PROVE EnvSame
  <2>1. CASE WaitlistStep(s)
    BY <2>1, WorldKeeps
       DEF WaitlistStep, RequestFull, RequestFind, RequestInsert, InviteFind,
           InviteSend, UpdateWrite, OfferStep, OfferRead, OfferFull, OfferPick,
           OfferEnrolled, OfferMake, OfferReread, OfferRecheck, OfferRollback,
           OfferCount, OfferTake, OfferApprove, OfferConfirm, OfferConfirmFails,
           OfferUndo
  <2>2. CASE RegisterStep(s)
    BY <2>2, WorldKeeps
       DEF RegisterStep, RegisterFull, RegisterFind, RegisterJoin,
           RegisterConsumed, RegisterProbe, RegisterCount, RegisterTake,
           RegisterWhy, RegisterOwned, RegisterWhyFull, RegisterWhyFind,
           RegisterWhyCancel, RegisterWhyJoin, RegisterLookup, RegisterInsert,
           RegisterInsertFails, RegisterAbort, RegisterDup, RegisterCapture,
           RegisterCaptureFails, RegisterCaptureLost, RegisterCapFail,
           RegisterCapCancel, RegisterCancelFails, RegisterCapDelete,
           RegisterConfirm, RegisterRecord, RegisterSettle,
           RegisterConfirmFails, RegisterPaid
  <2>3. CASE PayStep(s)
    BY <2>3, WorldKeeps
       DEF PayStep, PayRead, PayConsumed, PayProbe, PayClearing, PayCount,
           PayTake, PayExpire, PayApprove, PayLost, PayInsert, PayInsertFails,
           PayDup, PayReopen, PayConfirm, PayConfirmFails, PayRefund,
           PayRefundFails, PayBook, PayFail
  <2>4. CASE RefuseStep(s) \/ RefuseFails(s) \/ RefuseRow(s) \/ OrphanRecorded(s)
    BY <2>4, WorldKeeps DEF RefuseStep, RefuseFails, RefuseRow, OrphanRecorded
  <2>5. CASE ReconcileStep(s)
    BY <2>5, WorldKeeps
       DEF ReconcileStep, LeaveFind, LeaveRefund, LeaveRefundFails, LeaveRow,
           LeaveBook, LeaveUnenroll, ReleasePaid, ReleaseUnenroll, FailedRow,
           FailedAgain, SucceededRecorded, SucceededHeld, SucceededDelivered,
           RecordCharge, SweepSucceeded, SweepAuthorized, SweepProcessing,
           SweepEnrolled, SweepSettle, SweepFail, SweepRefund, SweepRefunded,
           SweepCancel, SweepReleased, SweepRefused, OrphanHeld, OrphanCancel,
           OrphanDelivered
  <2> QED BY <1>1, <2>1, <2>2, <2>3, <2>4, <2>5 DEF Step, RegistrationStep
<1>2. ASSUME NEW s \in Slots, Arrival(s) PROVE EnvSame
  BY <1>2, WorldKeeps DEF Arrival, WaitlistCall, RegistrationCall, RequestSeat,
     Invite, UpdateCap, Drain, Register, Pay, Leave
<1>3. ASSUME NEW s \in Slots, WebhookStep(s) \/ SweepStep(s) PROVE EnvSame
  BY <1>3, WorldKeeps DEF WebhookStep, SweepStep, FailedEvent, SucceededEvent,
     SweepPending, SweepOrphan, SweepOffer
<1>4. CASE StripeStep \/ DeleteSeminar \/ Time \/ Crash \/ UNCHANGED storeVars
  BY <1>4, WorldKeeps DEF StripeStep, Checkout, DeclinedFirst, WalletClears,
     WalletFails, DeleteSeminar, Time, SeminarStarts, WindowLapses, Crash, storeVars
<1> QED BY <1>1, <1>2, <1>3, <1>4 DEF Next

(* Every step keeps the books. *)
LEMMA NextBooks ==
    TInv /\ WalletsAtOnce /\ (BooksKept => Rules) /\ [Next]_storeVars
        => TInv' /\ WalletsAtOnce' /\ (BooksKept' => Rules')
<1> SUFFICES ASSUME TInv, WalletsAtOnce, BooksKept => Rules, [Next]_storeVars
             PROVE  TInv' /\ WalletsAtOnce' /\ (BooksKept' => Rules')
  OBVIOUS
<1>1. TInv' /\ EnvSame /\ WalletsAtOnce' /\ (BooksKept' => BooksKept)
  BY NextTyped, NextEnv, EnvFixed
<1>2. CASE BooksKept
  <2>1. Books
    BY <1>2 DEF Books
  <2>2. Frame
    BY <1>1, <2>1, StepFrame, ArrivalFrame, WebhookFrame, SweepFrame, OutsideFrame
       DEF Next
  <2> QED BY <1>1, <2>1, <2>2, FrameKeeps
<1> QED BY <1>1, <1>2

(* The books agree with Stripe wherever no wallet payment clears later:    *)
(* once no handler, event or sweep works on an intent, a charge row that   *)
(* is failed took no money, a completed one did, a refunded one gave it    *)
(* back, whatever failed or restarted in between.                          *)
THEOREM BooksAgree == Spec /\ WalletsAtOnce => []BooksMatchStripe
<1>1. Init /\ WalletsAtOnce => TInv /\ WalletsAtOnce /\ (BooksKept => Rules)
  BY InitTyped, InitBooks
<1>2. TInv /\ WalletsAtOnce /\ (BooksKept => Rules) => BooksMatchStripe
  <2> SUFFICES ASSUME WalletsAtOnce, BooksKept => Rules,
                      PaymentsHold, "late" \notin Calls, NEW i \in Intents
               PROVE  CASE ledger[i].charge = "failed"    -> ~Taken(i)
                        [] ledger[i].charge = "completed" -> stripe[i].st = "succeeded"
                        [] ledger[i].charge = "refunded"  -> stripe[i].refunded
                        [] OTHER -> TRUE
    BY DEF BooksMatchStripe
  <2>1. BookRule(i)
    BY DEF BooksKept, Rules
  <2> QED BY <2>1 DEF BookRule, Gave, Taken
<1> QED BY <1>1, <1>2, NextBooks, PTL DEF Spec
==============================================================================
