------------------------- MODULE ExpertSessionsProofs -------------------------
(***************************************************************************)
(* For every set of sessions, intents and slots: the state of              *)
(* ExpertSessions is well typed and no hold is captured that is not on the *)
(* books, in every environment; and where a session has one payment, the   *)
(* handlers, sweeps, webhooks and restarts together implement SessionLife. *)
(***************************************************************************)
EXTENDS ExpertSessions, TLAPS

-----------------------------------------------------------------------------
(* What a run knows by where it is: the session and the intent it works    *)
(* for.                                                                    *)
AcceptLabels ==
    ReadLabels \cup UndoLabels \cup ConfirmingLabels \cup ConfirmedLabels
ParkLabels ==
    {"request.park", "request.append", "request.abort", "request.rollback",
     "request.deadline"}

WithIntent ==
    {"request.consumed", "request.probe", "request.fail", "accept.probe",
     "cancel.release", "cancel.probe", "cancel.refund"}
    \cup ParkLabels \cup UndoLabels \cup ConfirmingLabels
    \cup ConfirmedLabels \cup MoneyBackLabels \cup CancelledLabels
    \cup (HoldLabels \ {"hold.parked", "hold.close", "hold.clear"})
    \cup EventLabels \cup SweepLabels
WithIntentIfCharged == {"accept.paid", "accept.consumed"}
WithSession ==
    {"refund.session", "refund.live", "refund.cancel", "release.paid",
     "release.cancel"}
    \cup ParkLabels \cup AcceptLabels \cup CancellingLabels
    \cup CancelledLabels \cup HoldLabels

Knows(c) ==
    /\ c.at \in WithIntent => c.i \in Intents
    /\ Charged /\ c.at \in WithIntentIfCharged => c.i \in Intents
    /\ c.pays # "none" \/ c.row \/ c.ret # "idle" => c.i \in Intents
    /\ c.at \in WithSession => c.g \in Sessions
    /\ c.at \in AcceptLabels => c.who # "nobody"
    /\ c.at = "idle" => c = Idle
    /\ c.ret \in {"idle", "failed.withheld"}

CallsOK ==
    /\ call \in [Slots -> Run(Labels)]
    /\ \A s \in Slots : Knows(call[s])

(* A row names a session only while it is there, a withheld one always.    *)
SessionOK == session \in [Sessions -> Session]
LedgerOK ==
    /\ ledger \in [Intents -> Ledger]
    /\ \A i \in Intents :
          /\ ledger[i].charge = "withheld" => ledger[i].g \in Sessions
          /\ ~Recorded(i) => ledger[i].g = NoSession
StripeOK == stripe \in [Intents -> Intent]
EventsOK == events \subseteq Event
WorldOK == world \in [env : Environments, calls : Nat, faults : Nat]
DataOK == SessionOK /\ LedgerOK /\ StripeOK /\ EventsOK /\ WorldOK

TInv == DataOK /\ CallsOK

(* No step changes the environment. *)
EnvSame == world'.env = world.env

-----------------------------------------------------------------------------
(* What a step leaves alone keeps its type. *)
LEMMA SameOK ==
    ASSUME DataOK
    PROVE  /\ UNCHANGED session => SessionOK'
           /\ UNCHANGED ledger => LedgerOK'
           /\ UNCHANGED stripe => StripeOK'
           /\ UNCHANGED events => EventsOK'
           /\ UNCHANGED world => WorldOK' /\ EnvSame
BY DEF DataOK, SessionOK, LedgerOK, Recorded, StripeOK, EventsOK, WorldOK,
       EnvSame

(* Calls and faults are counted.                                           *)
LEMMA WorldChangeOK ==
    ASSUME WorldOK
    PROVE  /\ \A s, h : Calling(s, h) => WorldOK' /\ EnvSame
           /\ \A k : Fault(k) => WorldOK' /\ EnvSame
BY DEF WorldOK, Calling, Fault, EnvSame

(* A session takes another status, closes, or is opened.                   *)
LEMMA SessionChangeOK ==
    ASSUME SessionOK, NEW g
    PROVE  /\ \A st \in SessionStatus : SetSession(g, st) => SessionOK'
           /\ \A from, to \in SessionStatus : MoveSession(g, from, to) => SessionOK'
           /\ Close(g) => SessionOK'
           /\ \A by \in {"student", "expert"}, mode \in {"card", "wallet"},
                 decide, payBy \in Deadline :
                 NewSession(g, by, mode, decide, payBy) => SessionOK'
<1>1. \A st \in SessionStatus : SetSession(g, st) => SessionOK'
  BY ZenonT(40) DEF SessionOK, SetSession, Session
<1>2. Close(g) => SessionOK'
  <2> DEFINE new == [session[g] EXCEPT !.st = "cancelled", !.decide = "none",
                                       !.payBy = "none"]
  <2>1. g \in Sessions => new \in Session
    BY ZenonT(40) DEF SessionOK, Session, SessionStatus, Deadline
  <2>2. Close(g) => session' = [session EXCEPT ![g] = new]
    BY DEF Close, SessionOK
  <2> HIDE DEF new
  <2> QED BY <2>1, <2>2 DEF SessionOK
<1>3. ASSUME NEW by \in {"student", "expert"}, NEW mode \in {"card", "wallet"},
             NEW decide \in Deadline, NEW payBy \in Deadline,
             NewSession(g, by, mode, decide, payBy)
      PROVE  SessionOK'
  <2> DEFINE new == [st |-> "pending", by |-> by, mode |-> mode,
                     decide |-> decide, payBy |-> payBy, started |-> FALSE]
  <2>1. new \in Session
    BY DEF Session, SessionStatus
  <2>2. session' = [session EXCEPT ![g] = new]
    BY <1>3 DEF NewSession
  <2> HIDE DEF new
  <2> QED BY <2>1, <2>2 DEF SessionOK
<1> QED BY <1>1, <1>2, <1>3 DEF MoveSession, SessionOK

LEMMA EndedOK ==
    ASSUME SessionOK, NEW g,
           session' = [session EXCEPT ![g].st = "cancelled", ![g].decide = "none"]
    PROVE  SessionOK'
<1> DEFINE new == [session[g] EXCEPT !.st = "cancelled", !.decide = "none"]
<1>1. g \in Sessions => new \in Session
  BY ZenonT(40) DEF SessionOK, Session, SessionStatus, Deadline
<1>2. session' = [session EXCEPT ![g] = new]
  BY DEF SessionOK
<1> HIDE DEF new
<1> QED BY <1>1, <1>2 DEF SessionOK

(* A row takes another status; it is inserted for a session, or removed.   *)
LEMMA LedgerChangeOK ==
    ASSUME LedgerOK, NEW i
    PROVE  /\ \A st \in ChargeStatus \ {"none", "withheld"} :
                 /\ SetCharge(i, st) => LedgerOK'
                 /\ \A from : MoveCharge(i, from, st) => LedgerOK'
           /\ AppendRefund(i) => LedgerOK'
           /\ \A g \in Sessions, st \in ChargeStatus \ {"none"} :
                 InsertCharge(i, g, st) => LedgerOK'
           /\ \A g \in Sessions \cup {NoSession},
                 st \in ChargeStatus \ {"none", "withheld"} :
                 InsertCharge(i, g, st) => LedgerOK'
           /\ InsertCharge(i, NoSession, "none") => LedgerOK'
<1>1. ASSUME NEW st \in ChargeStatus \ {"none", "withheld"}, SetCharge(i, st)
      PROVE  LedgerOK'
  <2> DEFINE new == [ledger[i] EXCEPT !.charge = st]
  <2>1. i \in Intents => new \in Ledger /\ new.charge = st /\ new.g = ledger[i].g
    BY DEF LedgerOK, Ledger
  <2>2. ledger' = [ledger EXCEPT ![i] = new]
    BY <1>1 DEF SetCharge, LedgerOK
  <2> HIDE DEF new
  <2> QED BY <2>1, <2>2 DEF LedgerOK, Recorded
<1>2. AppendRefund(i) => LedgerOK'
  <2> DEFINE n == ledger[i].refunds
             new == [ledger[i] EXCEPT !.refunds = IF n < 2 THEN n + 1 ELSE n]
  <2>1. i \in Intents => new \in Ledger /\ new.charge = ledger[i].charge
                         /\ new.g = ledger[i].g
    BY DEF LedgerOK, Ledger
  <2>2. AppendRefund(i) => ledger' = [ledger EXCEPT ![i] = new]
    BY DEF AppendRefund, LedgerOK
  <2> HIDE DEF new
  <2> QED BY <2>1, <2>2 DEF LedgerOK, Recorded
<1>3. ASSUME NEW g \in Sessions \cup {NoSession}, NEW st \in ChargeStatus,
             st = "withheld" => g \in Sessions, st = "none" => g = NoSession,
             InsertCharge(i, g, st)
      PROVE  LedgerOK'
  BY <1>3 DEF LedgerOK, Ledger, InsertCharge, Recorded
<1>4. UNCHANGED ledger => LedgerOK'
  BY DEF LedgerOK, Recorded
<1>5. \A from, st : MoveCharge(i, from, st) => SetCharge(i, st) \/ UNCHANGED ledger
  BY DEF MoveCharge
<1>6. NoSession \in Sessions \cup {NoSession} /\ {"none", "withheld"} \subseteq ChargeStatus
  BY DEF ChargeStatus
<1> HIDE DEF LedgerOK
<1>7. \A st \in ChargeStatus \ {"none", "withheld"} : \A from :
          MoveCharge(i, from, st) => LedgerOK'
  BY <1>1, <1>4, <1>5
<1>8. /\ \A g \in Sessions, st \in ChargeStatus \ {"none"} :
            InsertCharge(i, g, st) => LedgerOK'
      /\ \A g \in Sessions \cup {NoSession}, st \in ChargeStatus \ {"none", "withheld"} :
            InsertCharge(i, g, st) => LedgerOK'
  BY <1>3
<1>9. InsertCharge(i, NoSession, "none") => LedgerOK'
  <2>1. "none" # "withheld" OBVIOUS
  <2> QED BY <1>3, <1>6, <2>1
<1> QED BY <1>1, <1>2, <1>7, <1>8, <1>9

(* An intent is submitted, settled, refunded, grows old.                   *)
LEMMA StripeChangeOK ==
    ASSUME StripeOK, NEW i
    PROVE  /\ Refund(i) => StripeOK'
           /\ Submitted(i) => StripeOK'
           /\ \A st \in IntentStatus : SetIntent(i, st) => StripeOK'
           /\ \A labels : HourPasses(i, labels) => StripeOK'
<1>1. ASSUME NEW new, i \in Intents => new \in Intent, stripe' = [stripe EXCEPT ![i] = new]
      PROVE  StripeOK'
  BY <1>1 DEF StripeOK
<1>2. ASSUME NEW st \in IntentStatus, SetIntent(i, st) PROVE StripeOK'
  <2> DEFINE new == [stripe[i] EXCEPT !.st = st]
  <2>1. i \in Intents => new \in Intent
    BY DEF StripeOK, Intent
  <2>2. stripe' = [stripe EXCEPT ![i] = new]
    BY <1>2 DEF SetIntent, StripeOK
  <2> QED BY <1>1, <2>1, <2>2
<1>3. Refund(i) => StripeOK'
  <2> DEFINE new == [stripe[i] EXCEPT !.refunded = TRUE]
  <2>1. i \in Intents => new \in Intent
    BY DEF StripeOK, Intent
  <2>2. Refund(i) => stripe' = [stripe EXCEPT ![i] = new]
    BY DEF Refund, StripeOK
  <2> QED BY <1>1, <2>1, <2>2
<1>4. Submitted(i) => StripeOK'
  <2> DEFINE new == [stripe[i] EXCEPT !.sent = TRUE]
  <2>1. i \in Intents => new \in Intent
    BY DEF StripeOK, Intent
  <2>2. Submitted(i) => stripe' = [stripe EXCEPT ![i] = new]
    BY DEF Submitted, StripeOK
  <2> QED BY <1>1, <2>1, <2>2
<1>5. ASSUME NEW labels, HourPasses(i, labels) PROVE StripeOK'
  <2> DEFINE new == [stripe[i] EXCEPT !.old = TRUE]
  <2>1. i \in Intents => new \in Intent
    BY DEF StripeOK, Intent
  <2>2. stripe' = [stripe EXCEPT ![i] = new]
    BY <1>5 DEF HourPasses, StripeOK
  <2> QED BY <1>1, <2>1, <2>2
<1> QED BY <1>2, <1>3, <1>4, <1>5

(* A capture or a release changes the intent and sends its event.          *)
LEMMA HoldChangeOK ==
    ASSUME StripeOK, EventsOK, NEW i \in Intents
    PROVE  /\ Capture(i) => StripeOK' /\ EventsOK'
           /\ CancelHold(i) => StripeOK' /\ EventsOK'
<1>1. "succeeded" \in IntentStatus /\ "canceled" \in IntentStatus
  BY DEF IntentStatus
<1>2. <<"succeeded", i>> \in Event /\ <<"canceled", i>> \in Event
  BY DEF Event
<1> QED
  BY <1>1, <1>2, StripeChangeOK DEF EventsOK, Capture, CancelHold, StripeOK

(* A slot without a run is well typed. *)
LEMMA IdleType == Idle \in Run(Labels)
BY DEF Idle, Run, Labels

LEMMA LabelsApart ==
    /\ "idle" \notin WithIntent \cup WithIntentIfCharged \cup WithSession \cup AcceptLabels
    /\ WithIntent \cup WithIntentIfCharged \cup WithSession \cup AcceptLabels \subseteq Labels
BY DEF WithIntent, WithIntentIfCharged, WithSession, AcceptLabels, ParkLabels,
   Labels, RequestLabels, ReadLabels, UndoLabels, ConfirmingLabels, ConfirmedLabels,
   MoneyBackLabels, CancellingLabels, CancelledLabels, HoldLabels, EventLabels,
   SweepLabels

(* What a run knows, by where it is. *)
LEMMA KnowsOK ==
    ASSUME CallsOK, NEW s \in Slots
    PROVE  /\ call[s].at \in WithIntent => call[s].i \in Intents
           /\ Charged /\ call[s].at \in WithIntentIfCharged => call[s].i \in Intents
           /\ call[s].pays # "none" \/ call[s].row => call[s].i \in Intents
           /\ call[s].ret # "idle" => call[s].i \in Intents
           /\ call[s].at \in WithSession => call[s].g \in Sessions
           /\ call[s].at \in AcceptLabels => call[s].who # "nobody"
           /\ call[s].at = "idle" => call[s] = Idle
           /\ call[s] \in Run(Labels)
BY DEF CallsOK, Knows

(* A run changes its own locals, and knows what it must know there.        *)
LEMMA StepOK ==
    ASSUME CallsOK, EnvSame, NEW s \in Slots,
           call' = [call EXCEPT ![s] = call'[s]],
           call'[s] \in Run(Labels), Knows(call[s])'
    PROVE  CallsOK'
<1>1. call' \in [Slots -> Run(Labels)]
  BY DEF CallsOK
<1>2. ASSUME NEW t \in Slots PROVE Knows(call[t])'
  BY DEF CallsOK, Knows, EnvSame, Charged
<1> QED BY <1>1, <1>2 DEF CallsOK

(* A run moves to label l. *)
LEMMA GotoOK ==
    ASSUME CallsOK, EnvSame, NEW s \in Slots, NEW l \in Labels, Goto(s, l),
           l # "idle",
           l \in WithIntent => call[s].i \in Intents,
           Charged /\ l \in WithIntentIfCharged => call[s].i \in Intents,
           l \in WithSession => call[s].g \in Sessions,
           l \in AcceptLabels => call[s].who # "nobody"
    PROVE  CallsOK'
<1>1. call'[s] = [call[s] EXCEPT !.at = l] /\ call' = [call EXCEPT ![s] = call'[s]]
  BY DEF Goto, CallsOK
<1>2. call'[s] \in Run(Labels)
  BY <1>1 DEF CallsOK, Run
<1>3. Knows(call[s])'
  BY <1>1 DEF CallsOK, Knows, Run, EnvSame, Charged
<1> QED BY <1>1, <1>2, <1>3, StepOK

(* A run that ends knows nothing.                                          *)
LEMMA FinishOK ==
    ASSUME CallsOK, EnvSame, NEW s \in Slots, Finish(s) PROVE CallsOK'
<1>1. call'[s] = Idle /\ call' = [call EXCEPT ![s] = call'[s]]
  BY DEF Finish, CallsOK
<1>2. Knows(call[s])'
  BY <1>1, LabelsApart DEF Knows, Idle
<1> QED BY <1>1, <1>2, IdleType, StepOK

-----------------------------------------------------------------------------
(* What a run must know at the labels of each handler. *)
Needs(l, i, c, g, a) ==
    /\ l \in Labels /\ l # "idle"
    /\ l \in WithIntent <=> i
    /\ l \in WithIntentIfCharged <=> c
    /\ l \in WithSession <=> g
    /\ l \in AcceptLabels <=> a

LEMMA LabelTable ==
    /\ \A l \in MoneyBackLabels :
          Needs(l, TRUE, FALSE, l \in {"refund.session", "refund.live", "refund.cancel"}, FALSE)
    /\ \A l \in RequestLabels :
          Needs(l, l # "request.create", FALSE, l \in ParkLabels, FALSE)
    /\ \A l \in ReadLabels :
          Needs(l, l = "accept.probe", l \in {"accept.paid", "accept.consumed"}, TRUE, TRUE)
    /\ \A l \in UndoLabels \cup ConfirmingLabels \cup ConfirmedLabels :
          Needs(l, TRUE, FALSE, TRUE, TRUE)
    /\ \A l \in CancellingLabels :
          Needs(l, l \in {"cancel.release", "cancel.probe", "cancel.refund"},
                FALSE, TRUE, FALSE)
    /\ \A l \in CancelledLabels : Needs(l, TRUE, FALSE, TRUE, FALSE)
    /\ \A l \in HoldLabels :
          Needs(l, l \notin {"hold.parked", "hold.close", "hold.clear"},
                FALSE, TRUE, FALSE)
    /\ \A l \in EventLabels :
          Needs(l, TRUE, FALSE, l \in {"release.paid", "release.cancel"}, FALSE)
    /\ \A l \in SweepLabels : Needs(l, TRUE, FALSE, FALSE, FALSE)
<1> USE DEF Needs, WithIntent, WithIntentIfCharged, WithSession, AcceptLabels,
    ParkLabels, Labels, RequestLabels, ReadLabels, UndoLabels,
    ConfirmingLabels, ConfirmedLabels, MoneyBackLabels, CancellingLabels,
    CancelledLabels, HoldLabels, EventLabels, SweepLabels
<1>1. \A l \in MoneyBackLabels :
          Needs(l, TRUE, FALSE, l \in {"refund.session", "refund.live", "refund.cancel"}, FALSE)
  OBVIOUS
<1>2. \A l \in RequestLabels :
          Needs(l, l # "request.create", FALSE, l \in ParkLabels, FALSE)
  OBVIOUS
<1>3. \A l \in ReadLabels :
          Needs(l, l = "accept.probe", l \in {"accept.paid", "accept.consumed"}, TRUE, TRUE)
  OBVIOUS
<1>4. \A l \in UndoLabels \cup ConfirmingLabels \cup ConfirmedLabels :
          Needs(l, TRUE, FALSE, TRUE, TRUE)
  OBVIOUS
<1>5. \A l \in CancellingLabels :
          Needs(l, l \in {"cancel.release", "cancel.probe", "cancel.refund"},
                FALSE, TRUE, FALSE)
  OBVIOUS
<1>6. \A l \in CancelledLabels : Needs(l, TRUE, FALSE, TRUE, FALSE)
  OBVIOUS
<1>7. \A l \in HoldLabels :
          Needs(l, l \notin {"hold.parked", "hold.close", "hold.clear"},
                FALSE, TRUE, FALSE)
  OBVIOUS
<1>8. \A l \in EventLabels :
          Needs(l, TRUE, FALSE, l \in {"release.paid", "release.cancel"}, FALSE)
  OBVIOUS
<1>9. \A l \in SweepLabels : Needs(l, TRUE, FALSE, FALSE, FALSE)
  OBVIOUS
<1> HIDE DEF Needs, WithIntent, WithIntentIfCharged, WithSession, AcceptLabels,
    ParkLabels, Labels, RequestLabels, ReadLabels, UndoLabels,
    ConfirmingLabels, ConfirmedLabels, MoneyBackLabels, CancellingLabels,
    CancelledLabels, HoldLabels, EventLabels, SweepLabels
<1> QED
  BY <1>1, <1>2, <1>3, <1>4, <1>5, <1>6, <1>7, <1>8, <1>9

(* Every step keeps the types. *)

(* releaseOrphanBookingIntent, refundBookingCharge. *)
LEMMA MoneyBackTypes ==
    ASSUME TInv, NEW s \in Slots,
           \/ OrphanRecorded(s) \/ OrphanHold(s) \/ OrphanCancel(s)
           \/ RefundStep(s) \/ RefundFails(s) \/ RefundRow(s)
           \/ RefundSession(s) \/ RefundLive(s) \/ RefundCancel(s)
    PROVE  TInv' /\ EnvSame
<1>0. DataOK /\ CallsOK /\ (DataOK' /\ CallsOK' => TInv')
  BY DEF TInv
<1> USE DEF At, MoneyBackLabels, Needs
<1>1. CASE OrphanRecorded(s)
  BY <1>0, <1>1, SameOK, GotoOK, FinishOK, KnowsOK, LabelTable DEF OrphanRecorded, DataOK
<1>2. CASE OrphanHold(s)
  BY <1>0, <1>2, SameOK, GotoOK, KnowsOK, LabelTable DEF OrphanHold, DataOK
<1>3. CASE OrphanCancel(s)
  BY <1>0, <1>3, SameOK, FinishOK, KnowsOK, HoldChangeOK, LabelTable DEF OrphanCancel, DataOK
<1>4. CASE RefundStep(s)
  BY <1>0, <1>4, SameOK, GotoOK, FinishOK, KnowsOK, StripeChangeOK, LabelTable DEF RefundStep, DataOK
<1>5. CASE RefundFails(s)
  BY <1>0, <1>5, SameOK, FinishOK, WorldChangeOK DEF RefundFails, DataOK
<1>6. CASE RefundRow(s)
  BY <1>0, <1>6, SameOK, GotoOK, FinishOK, KnowsOK, LedgerChangeOK, LabelTable DEF RefundRow, Run, DataOK
<1>7. CASE RefundSession(s)
  BY <1>0, <1>7, SameOK, GotoOK, FinishOK, KnowsOK, LabelTable DEF RefundSession, DataOK
<1>8. CASE RefundLive(s)
  BY <1>0, <1>8, SameOK, GotoOK, FinishOK, KnowsOK, LabelTable DEF RefundLive, DataOK
<1>9. CASE RefundCancel(s)
  BY <1>0, <1>9, SameOK, FinishOK, SessionChangeOK DEF RefundCancel, DataOK
<1> QED
  BY <1>1, <1>2, <1>3, <1>4, <1>5, <1>6, <1>7, <1>8, <1>9

(* createGroupChatByUser. *)
LEMMA RequestTypes ==
    ASSUME TInv, NEW s \in Slots,
           \/ RequestConsumed(s) \/ RequestProbe(s) \/ RequestCreate(s)
           \/ RequestRejected(s) \/ RequestFail(s) \/ RequestPark(s)
           \/ RequestParkFails(s) \/ RequestAbort(s) \/ RequestRollback(s)
           \/ RequestDeadline(s) \/ RequestAppend(s)
    PROVE  TInv' /\ EnvSame
<1>0. DataOK /\ CallsOK /\ (DataOK' /\ CallsOK' => TInv')
  BY DEF TInv
<1> USE DEF At, RequestLabels, MoneyBackLabels, ParkLabels, Needs
<1>1. CASE RequestConsumed(s)
  BY <1>0, <1>1, SameOK, GotoOK, FinishOK, KnowsOK, LabelTable DEF RequestConsumed, DataOK
<1>2. CASE RequestProbe(s)
  <2> DEFINE pays == FoundAs(call[s].i)
  <2>0. DataOK' /\ EnvSame
    BY <1>0, <1>2, SameOK DEF RequestProbe, DataOK
  <2>1. CASE pays = "none"
    BY <1>0, <1>2, <2>0, <2>1, FinishOK DEF RequestProbe
  <2>2. CASE pays # "none"
    <3>1. /\ call' = [call EXCEPT ![s] = call'[s]]
          /\ call'[s] = [call[s] EXCEPT !.at = "request.create", !.pays = pays]
      BY <1>0, <1>2, <2>2 DEF RequestProbe, CallsOK
    <3>2. call[s].i \in Intents /\ pays \in {"held", "settling", "settled"}
      BY <1>0, <1>2, <2>2, KnowsOK, LabelTable DEF RequestProbe, FoundAs
    <3> HIDE DEF pays
    <3>3. call'[s] \in Run(Labels)
      <4>1. call[s] \in Run(Labels) /\ "request.create" \in Labels
        BY <1>0, KnowsOK, LabelTable
      <4> QED BY <3>1, <3>2, <4>1 DEF Run
    <3>4. Knows(call[s])'
      BY <1>0, <2>0, <3>1, <3>2, KnowsOK, LabelTable DEF Run, Knows, CallsOK, EnvSame, Charged
    <3> QED BY <1>0, <2>0, <3>1, <3>3, <3>4, StepOK
  <2> QED BY <2>1, <2>2
<1>3. CASE RequestCreate(s)
  <2>1. PICK g \in Sessions :
            /\ NewSession(g, "student",
                   IF call[s].i = NoIntent /\ Charged THEN "wallet" ELSE "card",
                   IF call[s].pays = "none" THEN "set" ELSE "none", "none")
            /\ \/ Finish(s)
               \/ /\ call[s].pays # "none"
                  /\ \E l \in {"request.park", "request.append"} :
                        call' = [call EXCEPT ![s].at = l, ![s].g = g]
    BY <1>0, <1>3 DEF RequestCreate
  <2>2. SessionOK'
    BY <1>0, <2>1, SessionChangeOK DEF DataOK, Deadline
  <2>3. DataOK' /\ EnvSame
    BY <1>0, <1>3, <2>2, SameOK DEF RequestCreate, DataOK
  <2>4. CASE Finish(s)
    BY <1>0, <2>3, <2>4, FinishOK
  <2>5. CASE ~Finish(s)
    <3>1. PICK l \in {"request.park", "request.append"} :
              /\ call' = [call EXCEPT ![s] = call'[s]]
              /\ call'[s] = [call[s] EXCEPT !.at = l, !.g = g]
      BY <1>0, <2>1, <2>5 DEF CallsOK
    <3>2. call[s].i \in Intents
      BY <1>0, <2>1, <2>5, KnowsOK
    <3>3. call'[s] \in Run(Labels)
      <4>1. call[s] \in Run(Labels) /\ l \in Labels
        BY <1>0, KnowsOK, LabelTable
      <4> QED BY <3>1, <3>2, <4>1 DEF Run
    <3>4. Knows(call[s])'
      BY <1>0, <2>3, <3>1, <3>2, KnowsOK, LabelTable DEF Run, Knows, CallsOK, EnvSame, Charged
    <3> QED BY <1>0, <2>3, <3>1, <3>3, <3>4, StepOK
  <2> QED BY <2>4, <2>5
<1>4. CASE RequestRejected(s)
  BY <1>0, <1>4, SameOK, GotoOK, FinishOK, KnowsOK, WorldChangeOK, LabelTable
     DEF RequestRejected, DataOK
<1>5. CASE RequestFail(s)
  BY <1>0, <1>5, SameOK, FinishOK, KnowsOK, HoldChangeOK, LabelTable DEF RequestFail, DataOK
<1>6. CASE RequestPark(s)
  BY <1>0, <1>6, SameOK, GotoOK, KnowsOK, LedgerChangeOK, LabelTable, ZenonT(40)
     DEF RequestPark, DataOK, ChargeStatus
<1>7. CASE RequestParkFails(s)
  BY <1>0, <1>7, SameOK, GotoOK, KnowsOK, WorldChangeOK, LabelTable
     DEF RequestParkFails, DataOK
<1>8. CASE RequestAbort(s)
  BY <1>0, <1>8, SameOK, GotoOK, KnowsOK, HoldChangeOK, LabelTable DEF RequestAbort, DataOK
<1>9. CASE RequestRollback(s)
  BY <1>0, <1>9, SameOK, FinishOK, SessionChangeOK DEF RequestRollback, DataOK, SessionStatus
<1>10. CASE RequestDeadline(s)
  <2>1. SessionOK'
    BY <1>0, <1>10, ZenonT(40) DEF RequestDeadline, DataOK, SessionOK, Session, Deadline
  <2> QED
    BY <1>0, <1>10, <2>1, SameOK, FinishOK DEF RequestDeadline, DataOK
<1>11. CASE RequestAppend(s)
  BY <1>0, <1>11, SameOK, FinishOK, KnowsOK, LedgerChangeOK, LabelTable
     DEF RequestAppend, DataOK, ChargeStatus
<1> QED
  BY <1>1, <1>2, <1>3, <1>4, <1>5, <1>6, <1>7, <1>8, <1>9, <1>10, <1>11

(* A run of a session that cannot be booked any more. *)
LEMMA OrphanedOK ==
    ASSUME CallsOK, EnvSame, NEW s \in Slots, NEW g \in Sessions,
           NEW i \in Intents \cup {NoIntent}, Orphaned(s, g, i)
    PROVE  CallsOK'
<1>1. CASE i = NoIntent
  BY <1>1, FinishOK DEF Orphaned
<1>2. CASE i # NoIntent
  <2>1. /\ call' = [call EXCEPT ![s] = call'[s]]
        /\ call'[s] = [call[s] EXCEPT !.at = "orphan.recorded", !.g = g, !.i = i]
    BY <1>2 DEF Orphaned, CallsOK
  <2>2. call[s] \in Run(Labels) /\ "orphan.recorded" \in Labels /\ i \in Intents
    BY <1>2, LabelTable DEF CallsOK, MoneyBackLabels, Needs
  <2>3. call'[s] \in Run(Labels)
    BY <2>1, <2>2 DEF Run
  <2>4. Knows(call[s])'
    BY <2>1, <2>2, LabelTable DEF Run, Knows, CallsOK, MoneyBackLabels, Needs
  <2> QED BY <2>1, <2>3, <2>4, StepOK
<1> QED BY <1>1, <1>2

(* acceptIndividualAppointment, up to the activation. *)
LEMMA ReadTypes ==
    ASSUME TInv, NEW s \in Slots,
           \/ AcceptParked(s) \/ AcceptWindow(s) \/ AcceptSecured(s)
           \/ AcceptPaid(s) \/ AcceptConsumed(s) \/ AcceptProbe(s)
           \/ AcceptActivate(s) \/ AcceptActivateFails(s)
    PROVE  TInv' /\ EnvSame
<1>0. DataOK /\ CallsOK /\ (DataOK' /\ CallsOK' => TInv')
  BY DEF TInv
<1> USE DEF At, Needs
<1>1. CASE AcceptParked(s)
  <2>0. DataOK' /\ EnvSame
    BY <1>0, <1>1, SameOK DEF AcceptParked, DataOK
  <2>1. \/ Finish(s)
        \/ \E l \in {"accept.window", "accept.secured", "accept.activate"} : Goto(s, l)
        \/ \E i \in Intents : call' = [call EXCEPT ![s].at = "accept.activate",
                                 ![s].i = i, ![s].pays = "held", ![s].row = TRUE]
    BY <1>1 DEF AcceptParked, Parked, RowsOf
  <2>9. call[s].g \in Sessions /\ call[s].who # "nobody" /\ call[s].ret \in {"idle", "failed.withheld"}
    BY <1>0, <1>1, KnowsOK, LabelTable, ZenonT(40)
       DEF AcceptParked, ReadLabels, CallsOK, Knows
  <2>2. CASE \E i \in Intents : call' = [call EXCEPT ![s].at = "accept.activate",
                                 ![s].i = i, ![s].pays = "held", ![s].row = TRUE]
    <3>1. PICK i \in Intents :
              /\ call' = [call EXCEPT ![s] = call'[s]]
              /\ call'[s] = [call[s] EXCEPT !.at = "accept.activate", !.i = i,
                                            !.pays = "held", !.row = TRUE]
      BY <1>0, <2>2, ZenonT(40) DEF CallsOK
    <3>2. call[s] \in Run(Labels) /\ "accept.activate" \in Labels
      BY <1>0, KnowsOK, LabelTable DEF ReadLabels
    <3>3. call'[s] \in Run(Labels)
      BY <3>1, <3>2 DEF Run
    <3>4. Knows(call[s])'
      BY <2>9, <3>1, <3>2, LabelTable DEF Run, Knows, ReadLabels
    <3> QED BY <1>0, <2>0, <3>1, <3>3, <3>4, StepOK
  <2>3. CASE \E l \in {"accept.window", "accept.secured", "accept.activate"} : Goto(s, l)
    <3>1. PICK l \in {"accept.window", "accept.secured", "accept.activate"} : Goto(s, l)
      BY <2>3
    <3>2. l \in Labels /\ l # "idle" /\ l \notin WithIntent \cup WithIntentIfCharged
      BY LabelTable DEF ReadLabels
    <3> QED BY <1>0, <2>0, <2>9, <3>1, <3>2, GotoOK
  <2> QED BY <1>0, <2>0, <2>1, <2>2, <2>3, FinishOK
<1>2. CASE AcceptWindow(s)
  <2>1. SessionOK'
    <3> DEFINE g == call[s].g
               new == [session[g] EXCEPT !.decide = "none", !.payBy = "set"]
    <3>1. g \in Sessions => new \in Session
      BY <1>0, ZenonT(40) DEF DataOK, SessionOK, Session, Deadline
    <3>2. \/ UNCHANGED session
          \/ session' = [session EXCEPT ![g] = new]
      BY <1>0, <1>2 DEF AcceptWindow, DataOK, SessionOK
    <3> HIDE DEF new
    <3> QED BY <1>0, <3>1, <3>2 DEF DataOK, SessionOK
  <2> QED
    BY <1>0, <1>2, <2>1, SameOK, FinishOK DEF AcceptWindow, DataOK
<1>3. CASE AcceptSecured(s)
  BY <1>0, <1>3, SameOK, GotoOK, FinishOK, KnowsOK, LabelTable
     DEF AcceptSecured, DataOK, ReadLabels
<1>4. CASE AcceptPaid(s)
  <2>0. DataOK' /\ EnvSame
    BY <1>0, <1>4, SameOK DEF AcceptPaid, DataOK
  <2>1. Orphaned(s, call[s].g, call[s].i) \/ Finish(s) \/ Goto(s, "accept.consumed")
    BY <1>4 DEF AcceptPaid
  <2>2. /\ call[s].g \in Sessions /\ call[s].i \in Intents \cup {NoIntent}
        /\ Charged => call[s].i \in Intents
        /\ call[s].who # "nobody"
    BY <1>0, <1>4, KnowsOK, LabelTable DEF AcceptPaid, ReadLabels, Run
  <2>3. CASE Goto(s, "accept.consumed")
    BY <1>0, <2>0, <2>2, <2>3, GotoOK, LabelTable DEF ReadLabels
  <2> QED BY <1>0, <2>0, <2>1, <2>2, <2>3, FinishOK, OrphanedOK
<1>5. CASE AcceptConsumed(s)
  BY <1>0, <1>5, SameOK, GotoOK, FinishOK, KnowsOK, LabelTable
     DEF AcceptConsumed, DataOK, ReadLabels
<1>6. CASE AcceptProbe(s)
  <2> DEFINE pays == FoundAs(call[s].i)
  <2>0. DataOK' /\ EnvSame
    BY <1>0, <1>6, SameOK DEF AcceptProbe, DataOK
  <2>1. CASE pays = "none"
    BY <1>0, <1>6, <2>0, <2>1, FinishOK DEF AcceptProbe
  <2>2. CASE pays # "none"
    <3>1. /\ call' = [call EXCEPT ![s] = call'[s]]
          /\ call'[s] = [call[s] EXCEPT !.at = "accept.activate", !.pays = pays]
      BY <1>0, <1>6, <2>2 DEF AcceptProbe, CallsOK
    <3>2. /\ call[s].i \in Intents /\ pays \in {"held", "settling", "settled"}
          /\ call[s] \in Run(Labels) /\ "accept.activate" \in Labels
      BY <1>0, <1>6, <2>2, KnowsOK, LabelTable DEF AcceptProbe, FoundAs, ReadLabels
    <3> HIDE DEF pays
    <3>3. call'[s] \in Run(Labels)
      BY <3>1, <3>2 DEF Run
    <3>4. Knows(call[s])'
      BY <1>0, <1>6, <3>1, <3>2, KnowsOK, LabelTable
         DEF AcceptProbe, Run, Knows, CallsOK, ReadLabels
    <3> QED BY <1>0, <2>0, <3>1, <3>3, <3>4, StepOK
  <2> QED BY <2>1, <2>2
<1>7. CASE AcceptActivate(s)
  <2>1. \/ Finish(s)
        \/ call[s].pays # "none" /\ \E l \in {"accept.collect", "accept.insert",
              "accept.append", "accept.undo", "refund"} : Goto(s, l)
    BY <1>7 DEF AcceptActivate
  <2>2. DataOK' /\ EnvSame
    BY <1>0, <1>7, SameOK, SessionChangeOK DEF AcceptActivate, DataOK, SessionStatus
  <2>3. CASE Finish(s)
    BY <1>0, <2>2, <2>3, FinishOK
  <2>4. CASE ~Finish(s)
    <3>1. call[s].i \in Intents /\ call[s].g \in Sessions /\ call[s].who # "nobody"
      BY <1>0, <1>7, <2>1, <2>4, KnowsOK, LabelTable DEF AcceptActivate, ReadLabels
    <3>2. \A l \in {"accept.collect", "accept.insert", "accept.append",
                    "accept.undo", "refund"} : l \in Labels /\ l # "idle"
                                               /\ l \notin WithIntentIfCharged
      BY LabelTable DEF ConfirmingLabels, ConfirmedLabels, UndoLabels, MoneyBackLabels
    <3> QED BY <1>0, <2>1, <2>2, <2>4, <3>1, <3>2, GotoOK
  <2> QED BY <2>3, <2>4
<1>8. CASE AcceptActivateFails(s)
  <2>0. DataOK' /\ EnvSame
    BY <1>0, <1>8, SameOK, WorldChangeOK DEF AcceptActivateFails, DataOK
  <2>1. CASE call[s].pays = "none"
    BY <1>0, <1>8, <2>0, <2>1, FinishOK DEF AcceptActivateFails
  <2>2. CASE call[s].pays = "held"
    <3>1. /\ call' = [call EXCEPT ![s] = call'[s]]
          /\ call'[s] = [call[s] EXCEPT !.at = "accept.undo", !.row = FALSE]
      BY <1>0, <1>8, <2>2 DEF AcceptActivateFails, CallsOK
    <3>2. call[s] \in Run(Labels) /\ "accept.undo" \in Labels
      BY <1>0, KnowsOK, LabelTable DEF UndoLabels
    <3>3. call'[s] \in Run(Labels)
      BY <3>1, <3>2 DEF Run
    <3>4. Knows(call[s])'
      BY <1>0, <1>8, <2>2, <3>1, <3>2, KnowsOK, LabelTable
         DEF AcceptActivateFails, Run, Knows, CallsOK, ReadLabels, UndoLabels
    <3> QED BY <1>0, <2>0, <3>1, <3>3, <3>4, StepOK
  <2>3. CASE call[s].pays \notin {"none", "held"}
    BY <1>0, <1>8, <2>0, <2>3, KnowsOK, GotoOK, LabelTable
       DEF AcceptActivateFails, MoneyBackLabels
  <2> QED BY <2>1, <2>2, <2>3
<1> QED
  BY <1>1, <1>2, <1>3, <1>4, <1>5, <1>6, <1>7, <1>8

(* The rest of it. *)
LEMMA ConfirmTypes ==
    ASSUME TInv, NEW s \in Slots,
           \/ AcceptUndo(s) \/ AcceptUndoRow(s)
           \/ AcceptInsert(s) \/ AcceptInsertFails(s) \/ AcceptAbort(s)
           \/ AcceptCapture(s) \/ AcceptNotCaptured(s) \/ AcceptCapProbe(s)
           \/ AcceptCapCancel(s) \/ AcceptCapStuck(s) \/ AcceptCapDelete(s)
           \/ AcceptRestore(s) \/ AcceptRowFail(s) \/ AcceptBook(s)
           \/ AcceptBookLost(s) \/ AcceptAppend(s)
    PROVE  TInv' /\ EnvSame
<1>0. DataOK /\ CallsOK /\ (DataOK' /\ CallsOK' => TInv')
  BY DEF TInv
<1>l. \A l \in UndoLabels \cup ConfirmingLabels \cup ConfirmedLabels :
          Needs(l, TRUE, FALSE, TRUE, TRUE)
  BY LabelTable
<1>k. /\ call[s].i \in Intents /\ call[s].g \in Sessions /\ call[s].who # "nobody"
      /\ DataOK /\ CallsOK
  BY <1>0, <1>l, KnowsOK
     DEF At, Needs, UndoLabels, ConfirmingLabels, ConfirmedLabels, AcceptUndo,
     AcceptUndoRow, AcceptInsert, AcceptInsertFails, AcceptAbort, AcceptCapture,
     AcceptNotCaptured, AcceptCapProbe, AcceptCapCancel, AcceptCapStuck,
     AcceptCapDelete, AcceptRestore, AcceptRowFail, AcceptBook, AcceptBookLost,
     AcceptAppend
<1> USE DEF At, Needs, UndoLabels, ConfirmingLabels, ConfirmedLabels
<1>1. CASE AcceptUndo(s)
  BY <1>0, <1>l, <1>k, <1>1, SameOK, GotoOK, FinishOK, HoldChangeOK DEF AcceptUndo, DataOK
<1>2. CASE AcceptUndoRow(s)
  BY <1>0, <1>k, <1>2, SameOK, FinishOK, LedgerChangeOK DEF AcceptUndoRow, DataOK, ChargeStatus
<1>3. CASE AcceptInsert(s)
  BY <1>0, <1>l, <1>k, <1>3, SameOK, GotoOK, LedgerChangeOK DEF AcceptInsert, DataOK, ChargeStatus
<1>4. CASE AcceptInsertFails(s)
  BY <1>0, <1>l, <1>k, <1>4, SameOK, GotoOK, WorldChangeOK DEF AcceptInsertFails, DataOK
<1>5. CASE AcceptAbort(s)
  BY <1>0, <1>l, <1>k, <1>5, SameOK, GotoOK, HoldChangeOK DEF AcceptAbort, DataOK
<1>6. CASE AcceptCapture(s)
  BY <1>0, <1>l, <1>k, <1>6, SameOK, GotoOK, HoldChangeOK DEF AcceptCapture, DataOK
<1>7. CASE AcceptNotCaptured(s)
  BY <1>0, <1>l, <1>k, <1>7, SameOK, GotoOK, WorldChangeOK DEF AcceptNotCaptured, DataOK
<1>8. CASE AcceptCapProbe(s)
  BY <1>0, <1>l, <1>k, <1>8, SameOK, GotoOK DEF AcceptCapProbe, DataOK
<1>9. CASE AcceptCapCancel(s)
  BY <1>0, <1>l, <1>k, <1>9, SameOK, GotoOK, HoldChangeOK DEF AcceptCapCancel, DataOK
<1>10. CASE AcceptCapStuck(s)
  BY <1>0, <1>l, <1>k, <1>10, SameOK, GotoOK, WorldChangeOK DEF AcceptCapStuck, DataOK
<1>11. CASE AcceptCapDelete(s)
  BY <1>0, <1>l, <1>k, <1>11, SameOK, GotoOK, LedgerChangeOK DEF AcceptCapDelete, DataOK
<1>12. CASE AcceptRestore(s)
  BY <1>0, <1>l, <1>k, <1>12, SameOK, GotoOK, FinishOK, SessionChangeOK
     DEF AcceptRestore, DataOK, SessionStatus
<1>13. CASE AcceptRowFail(s)
  BY <1>0, <1>k, <1>13, SameOK, FinishOK, LedgerChangeOK DEF AcceptRowFail, DataOK, ChargeStatus
<1>14. CASE AcceptBook(s)
  BY <1>0, <1>k, <1>14, SameOK, FinishOK, LedgerChangeOK DEF AcceptBook, DataOK, ChargeStatus
<1>15. CASE AcceptBookLost(s)
  BY <1>0, <1>k, <1>15, SameOK, FinishOK, WorldChangeOK DEF AcceptBookLost, DataOK
<1>16. CASE AcceptAppend(s)
  BY <1>0, <1>k, <1>16, SameOK, FinishOK, LedgerChangeOK DEF AcceptAppend, DataOK, ChargeStatus
<1> QED
  BY <1>1, <1>2, <1>3, <1>4, <1>5, <1>6, <1>7, <1>8, <1>9, <1>10, <1>11,
     <1>12, <1>13, <1>14, <1>15, <1>16

(* cancelIndividualAppointment and sweepExpiredSessionHolds. *)
LEMMA CancelTypes ==
    ASSUME TInv, NEW s \in Slots,
           \/ CancelParked(s) \/ CancelPayment(s) \/ CancelRelease(s)
           \/ CancelReleaseFails(s) \/ CancelProbe(s) \/ CancelReleased(s)
           \/ CancelRefund(s) \/ CancelRefundFails(s) \/ CancelRow(s)
           \/ CancelBooked(s) \/ CancelRestore(s)
    PROVE  TInv' /\ EnvSame
<1>0. DataOK /\ CallsOK /\ (DataOK' /\ CallsOK' => TInv')
  BY DEF TInv
<1> USE DEF At, Needs, CancellingLabels, CancelledLabels
<1>k. call[s].g \in Sessions
  BY <1>0, KnowsOK, LabelTable, ZenonT(40)
     DEF CancelParked, CancelPayment, CancelRelease, CancelReleaseFails,
     CancelProbe, CancelReleased, CancelRefund, CancelRefundFails, CancelRow,
     CancelBooked, CancelRestore
<1>1. CASE CancelParked(s)
  <2>0. DataOK' /\ EnvSame
    BY <1>0, <1>1, SameOK DEF CancelParked, DataOK
  <2>1. CASE Goto(s, "cancel.payment")
    BY <1>0, <1>k, <2>0, <2>1, GotoOK, LabelTable
  <2>2. CASE ~Goto(s, "cancel.payment")
    <3>0. PICK i \in Intents :
              call' = [call EXCEPT ![s].at = "cancel.payment", ![s].i = i, ![s].row = TRUE]
      BY <1>1, <2>2 DEF CancelParked, Parked, RowsOf
    <3>1. /\ call' = [call EXCEPT ![s] = call'[s]]
          /\ call'[s] = [call[s] EXCEPT !.at = "cancel.payment", !.i = i, !.row = TRUE]
      BY <1>0, <3>0 DEF CallsOK
    <3>2. call[s] \in Run(Labels) /\ "cancel.payment" \in Labels
      BY <1>0, KnowsOK, LabelTable
    <3>3. call'[s] \in Run(Labels)
      BY <3>1, <3>2 DEF Run
    <3>4. Knows(call[s])'
      BY <1>0, <1>k, <3>1, <3>2, LabelTable DEF Run, Knows, CallsOK
    <3> QED BY <1>0, <2>0, <3>1, <3>3, <3>4, StepOK
  <2> QED BY <2>1, <2>2
<1>2. CASE CancelPayment(s)
  <2>0. DataOK' /\ EnvSame
    BY <1>0, <1>2, SameOK DEF CancelPayment, DataOK
  <2>1. \/ Finish(s) \/ Goto(s, "cancel.restore")
        \/ call[s].row /\ Goto(s, "cancel.release")
        \/ \E i \in Intents : call' = [call EXCEPT ![s].at = "cancel.refund", ![s].i = i]
    BY <1>2 DEF CancelPayment, RowsOf
  <2>2. CASE \E i \in Intents : call' = [call EXCEPT ![s].at = "cancel.refund", ![s].i = i]
    <3>1. PICK i \in Intents :
              /\ call' = [call EXCEPT ![s] = call'[s]]
              /\ call'[s] = [call[s] EXCEPT !.at = "cancel.refund", !.i = i]
      BY <1>0, <2>2 DEF CallsOK
    <3>2. call[s] \in Run(Labels) /\ "cancel.refund" \in Labels
      BY <1>0, KnowsOK, LabelTable
    <3>3. call'[s] \in Run(Labels)
      BY <3>1, <3>2 DEF Run
    <3>4. Knows(call[s])'
      BY <1>0, <1>k, <3>1, <3>2, LabelTable DEF Run, Knows, CallsOK
    <3> QED BY <1>0, <2>0, <3>1, <3>3, <3>4, StepOK
  <2>3. CASE Goto(s, "cancel.restore")
    BY <1>0, <1>k, <2>0, <2>3, GotoOK, LabelTable
  <2>4. CASE call[s].row /\ Goto(s, "cancel.release")
    BY <1>0, <1>k, <2>0, <2>4, KnowsOK, GotoOK, LabelTable
  <2> QED BY <1>0, <2>0, <2>1, <2>2, <2>3, <2>4, FinishOK
<1>3. CASE CancelRelease(s)
  BY <1>0, <1>k, <1>3, SameOK, GotoOK, KnowsOK, HoldChangeOK, LabelTable DEF CancelRelease, DataOK
<1>4. CASE CancelReleaseFails(s)
  BY <1>0, <1>k, <1>4, SameOK, GotoOK, KnowsOK, WorldChangeOK, LabelTable
     DEF CancelReleaseFails, DataOK
<1>5. CASE CancelProbe(s)
  BY <1>0, <1>k, <1>5, SameOK, GotoOK, KnowsOK, LabelTable DEF CancelProbe, DataOK
<1>6. CASE CancelReleased(s)
  BY <1>0, <1>6, SameOK, FinishOK, LedgerChangeOK DEF CancelReleased, DataOK, ChargeStatus
<1>7. CASE CancelRefund(s)
  BY <1>0, <1>k, <1>7, SameOK, GotoOK, KnowsOK, StripeChangeOK, LabelTable
     DEF CancelRefund, DataOK
<1>8. CASE CancelRefundFails(s)
  BY <1>0, <1>k, <1>8, SameOK, GotoOK, KnowsOK, WorldChangeOK, LabelTable
     DEF CancelRefundFails, DataOK
<1>9. CASE CancelRow(s)
  BY <1>0, <1>k, <1>9, SameOK, GotoOK, KnowsOK, LedgerChangeOK, LabelTable DEF CancelRow, DataOK
<1>10. CASE CancelBooked(s)
  BY <1>0, <1>10, SameOK, FinishOK, LedgerChangeOK DEF CancelBooked, DataOK, ChargeStatus
<1>11. CASE CancelRestore(s)
  BY <1>0, <1>11, SameOK, FinishOK, SessionChangeOK DEF CancelRestore, DataOK, SessionStatus
<1> QED
  BY <1>1, <1>2, <1>3, <1>4, <1>5, <1>6, <1>7, <1>8, <1>9, <1>10, <1>11

LEMMA HoldTypes ==
    ASSUME TInv, NEW s \in Slots,
           \/ HoldParked(s) \/ HoldClear(s) \/ HoldClose(s) \/ HoldClaim(s)
           \/ HoldRelease(s) \/ HoldReleaseFails(s) \/ HoldProbe(s)
           \/ HoldReleased(s) \/ HoldRow(s) \/ HoldBooked(s) \/ HoldStuck(s)
    PROVE  TInv' /\ EnvSame
<1>0. DataOK /\ CallsOK /\ (DataOK' /\ CallsOK' => TInv')
  BY DEF TInv
<1> USE DEF At, Needs, HoldLabels
<1>k. call[s].g \in Sessions
  BY <1>0, KnowsOK, LabelTable
     DEF HoldParked, HoldClear, HoldClose, HoldClaim, HoldRelease,
     HoldReleaseFails, HoldProbe, HoldReleased, HoldRow, HoldBooked, HoldStuck
<1>1. CASE HoldParked(s)
  <2>0. DataOK' /\ EnvSame
    BY <1>0, <1>1, SameOK DEF HoldParked, DataOK
  <2>1. CASE Goto(s, "hold.clear") \/ Goto(s, "hold.close")
    BY <1>0, <1>k, <2>0, <2>1, GotoOK, LabelTable
  <2>2. CASE ~(Goto(s, "hold.clear") \/ Goto(s, "hold.close"))
    <3>1. PICK i \in Intents :
              /\ call' = [call EXCEPT ![s] = call'[s]]
              /\ call'[s] = [call[s] EXCEPT !.at = "hold.claim", !.i = i]
      BY <1>0, <1>1, <2>2, ZenonT(40) DEF HoldParked, Parked, RowsOf, CallsOK
    <3>2. call[s] \in Run(Labels) /\ "hold.claim" \in Labels
      BY <1>0, KnowsOK, LabelTable
    <3>3. call'[s] \in Run(Labels)
      BY <3>1, <3>2 DEF Run
    <3>4. Knows(call[s])'
      BY <1>0, <1>k, <3>1, <3>2, LabelTable DEF Run, Knows, CallsOK
    <3> QED BY <1>0, <2>0, <3>1, <3>3, <3>4, StepOK
  <2> QED BY <2>1, <2>2
<1>2. CASE HoldClear(s)
  <2>1. SessionOK'
    <3> DEFINE g == call[s].g
               new == [session[g] EXCEPT !.decide =
                          IF session[g].st = "pending" THEN "none" ELSE session[g].decide]
    <3>1. g \in Sessions => new \in Session
      BY <1>0 DEF DataOK, SessionOK, Session, Deadline
    <3>2. session' = [session EXCEPT ![g] = new]
      BY <1>0, <1>2 DEF HoldClear, DataOK, SessionOK
    <3> HIDE DEF new
    <3> QED BY <1>0, <3>1, <3>2 DEF DataOK, SessionOK
  <2> QED BY <1>0, <1>2, <2>1, SameOK, FinishOK DEF HoldClear, DataOK
<1>3. CASE HoldClose(s)
  <2>1. SessionOK'
    BY <1>0, <1>3, SameOK, EndedOK DEF HoldClose, DataOK
  <2> QED BY <1>0, <1>3, <2>1, SameOK, FinishOK DEF HoldClose, DataOK
<1>4. CASE HoldClaim(s)
  BY <1>0, <1>k, <1>4, SameOK, GotoOK, FinishOK, KnowsOK, SessionChangeOK, LabelTable
     DEF HoldClaim, DataOK, SessionStatus
<1>5. CASE HoldRelease(s)
  BY <1>0, <1>k, <1>5, SameOK, GotoOK, KnowsOK, HoldChangeOK, LabelTable DEF HoldRelease, DataOK
<1>6. CASE HoldReleaseFails(s)
  BY <1>0, <1>k, <1>6, SameOK, GotoOK, KnowsOK, WorldChangeOK, LabelTable
     DEF HoldReleaseFails, DataOK
<1>7. CASE HoldProbe(s)
  BY <1>0, <1>k, <1>7, SameOK, GotoOK, KnowsOK, StripeChangeOK, LabelTable DEF HoldProbe, DataOK
<1>8. CASE HoldReleased(s)
  BY <1>0, <1>8, SameOK, FinishOK, LedgerChangeOK DEF HoldReleased, DataOK, ChargeStatus
<1>9. CASE HoldRow(s)
  BY <1>0, <1>k, <1>9, SameOK, GotoOK, KnowsOK, LedgerChangeOK, LabelTable DEF HoldRow, DataOK
<1>10. CASE HoldBooked(s)
  BY <1>0, <1>10, SameOK, FinishOK, LedgerChangeOK DEF HoldBooked, DataOK, ChargeStatus
<1>11. CASE HoldStuck(s)
  BY <1>0, <1>11, SameOK, FinishOK, LedgerChangeOK DEF HoldStuck, DataOK, ChargeStatus
<1> QED
  BY <1>1, <1>2, <1>3, <1>4, <1>5, <1>6, <1>7, <1>8, <1>9, <1>10, <1>11

(* releaseUncapturedSeatClaim. *)
LEMMA ReleaseOK ==
    ASSUME CallsOK, EnvSame, NEW s \in Slots
    PROVE  /\ \A ret \in {"idle", "failed.withheld"}, i \in Intents :
                 Release(s, i, ret) => CallsOK'
           /\ Released(s) => CallsOK'
<1>1. ASSUME NEW ret \in {"idle", "failed.withheld"}, NEW i \in Intents, Release(s, i, ret)
      PROVE  CallsOK'
  <2>1. /\ call' = [call EXCEPT ![s] = call'[s]]
        /\ call'[s] = [call[s] EXCEPT !.at = "release.read", !.i = i, !.ret = ret]
    BY <1>1 DEF Release, CallsOK
  <2>2. /\ call[s] \in Run(Labels) /\ Needs("release.read", TRUE, FALSE, FALSE, FALSE)
        /\ ret \in Labels
    BY LabelTable DEF CallsOK, EventLabels, Needs, Labels
  <2>3. call'[s] \in Run(Labels)
    BY <2>1, <2>2 DEF Run, Needs
  <2>4. Knows(call[s])'
    BY <2>1, <2>2 DEF Run, Knows, Needs
  <2> QED BY <2>1, <2>3, <2>4, StepOK
<1>2. ASSUME Released(s) PROVE CallsOK'
  <2>1. CASE call[s].ret = "idle"
    BY <1>2, <2>1, FinishOK DEF Released
  <2>2. CASE call[s].ret # "idle"
    <3>1. /\ call' = [call EXCEPT ![s] = call'[s]]
          /\ call'[s] = [call[s] EXCEPT !.at = call[s].ret, !.ret = "idle"]
      BY <1>2, <2>2 DEF Released, CallsOK
    <3>2. /\ call[s] \in Run(Labels) /\ call[s].ret = "failed.withheld"
          /\ Needs("failed.withheld", TRUE, FALSE, FALSE, FALSE)
          /\ call[s].i \in Intents /\ "idle" \in Labels
      BY <2>2, LabelTable DEF CallsOK, Knows, EventLabels, Needs, Labels
    <3>3. call'[s] \in Run(Labels)
      BY <3>1, <3>2 DEF Run, Needs
    <3>4. Knows(call[s])'
      BY <3>1, <3>2 DEF Run, Knows, Needs
    <3> QED BY <3>1, <3>3, <3>4, StepOK
  <2> QED BY <2>1, <2>2
<1> QED BY <1>1, <1>2

(* handleBookingPaymentIntentEvent. *)
LEMMA EventTypes ==
    ASSUME TInv, NEW s \in Slots,
           \/ ReleaseRead(s) \/ ReleasePaid(s) \/ ReleaseCancel(s)
           \/ FailedRow(s) \/ FailedWithheld(s) \/ WithheldRow(s)
           \/ FailedSession(s) \/ FailedAgain(s) \/ SucceededRecorded(s)
           \/ SucceededDelivered(s) \/ RecordCharge(s)
    PROVE  TInv' /\ EnvSame
<1>0. DataOK /\ CallsOK /\ (DataOK' /\ CallsOK' => TInv')
  BY DEF TInv
<1> USE DEF At, Needs, EventLabels
<1>k. call[s].i \in Intents /\ call[s] \in Run(Labels)
  BY <1>0, KnowsOK, LabelTable
     DEF ReleaseRead, ReleasePaid, ReleaseCancel, FailedRow, FailedWithheld,
     WithheldRow, FailedSession, FailedAgain, SucceededRecorded,
     SucceededDelivered, RecordCharge
<1>1. CASE ReleaseRead(s)
  BY <1>0, <1>k, <1>1, SameOK, GotoOK, ReleaseOK, LabelTable DEF ReleaseRead, DataOK, Run
<1>2. CASE ReleasePaid(s)
  BY <1>0, <1>k, <1>2, SameOK, GotoOK, KnowsOK, ReleaseOK, LabelTable DEF ReleasePaid, DataOK
<1>3. CASE ReleaseCancel(s)
  BY <1>0, <1>k, <1>3, SameOK, ReleaseOK, SessionChangeOK DEF ReleaseCancel, DataOK, SessionStatus
<1>4. CASE FailedRow(s)
  BY <1>0, <1>k, <1>4, SameOK, ReleaseOK, LedgerChangeOK DEF FailedRow, DataOK, ChargeStatus
<1>5. CASE FailedWithheld(s)
  <2>0. DataOK' /\ EnvSame
    BY <1>0, <1>5, SameOK DEF FailedWithheld, DataOK
  <2>1. CASE Goto(s, "failed.again")
    BY <1>0, <1>k, <2>0, <2>1, GotoOK, LabelTable
  <2>2. CASE ~Goto(s, "failed.again")
    <3> DEFINE l == IF call[s].row THEN "withheld.release" ELSE "withheld.fail"
    <3>1. /\ call' = [call EXCEPT ![s] = call'[s]]
          /\ call'[s] = [call[s] EXCEPT !.g = ledger[call[s].i].g, !.at = l]
      BY <1>0, <1>5, <2>2 DEF FailedWithheld, CallsOK
    <3>2. ledger[call[s].i].g \in Sessions \cup {NoSession}
      BY <1>0, <1>k DEF DataOK, LedgerOK, Ledger
    <3>3. Needs(l, TRUE, FALSE, FALSE, FALSE)
      BY LabelTable
    <3> HIDE DEF l
    <3>4. call'[s] \in Run(Labels)
      BY <1>k, <3>1, <3>2, <3>3 DEF Run
    <3>5. Knows(call[s])'
      BY <1>0, <1>k, <3>1, <3>2, <3>3 DEF Run, Knows, CallsOK
    <3> QED BY <1>0, <2>0, <3>1, <3>4, <3>5, StepOK
  <2> QED BY <2>1, <2>2
<1>6. CASE WithheldRow(s)
  BY <1>0, <1>k, <1>6, SameOK, GotoOK, LedgerChangeOK, LabelTable DEF WithheldRow, DataOK, ChargeStatus
<1>7. CASE FailedSession(s)
  <2>1. SessionOK'
    BY <1>0, <1>7, SameOK, EndedOK DEF FailedSession, DataOK
  <2> QED
    BY <1>0, <1>k, <1>7, <2>1, SameOK, GotoOK, LabelTable DEF FailedSession, DataOK
<1>8. CASE FailedAgain(s)
  <2>0. DataOK' /\ EnvSame
    BY <1>0, <1>8, SameOK DEF FailedAgain, DataOK
  <2>1. CASE Finish(s)
    BY <1>0, <2>0, <2>1, FinishOK
  <2>2. CASE ~Finish(s)
    <3>1. /\ call' = [call EXCEPT ![s] = call'[s]]
          /\ call'[s] = [call[s] EXCEPT !.at = "release.read",
                            !.g = stripe[call[s].i].g, !.ret = "idle"]
      BY <1>0, <1>8, <2>2 DEF FailedAgain, CallsOK
    <3>2. stripe[call[s].i].g \in Sessions \cup {NoSession}
      BY <1>0, <1>k DEF DataOK, StripeOK, Intent
    <3>3. Needs("release.read", TRUE, FALSE, FALSE, FALSE) /\ "idle" \in Labels
      BY LabelTable DEF Labels
    <3>4. call'[s] \in Run(Labels)
      BY <1>k, <3>1, <3>2, <3>3 DEF Run
    <3>5. Knows(call[s])'
      BY <1>0, <1>k, <3>1, <3>2, <3>3 DEF Run, Knows, CallsOK
    <3> QED BY <1>0, <2>0, <3>1, <3>4, <3>5, StepOK
  <2> QED BY <2>1, <2>2
<1>9. CASE SucceededRecorded(s)
  BY <1>0, <1>k, <1>9, SameOK, GotoOK, FinishOK, LabelTable DEF SucceededRecorded, DataOK
<1>10. CASE SucceededDelivered(s)
  BY <1>0, <1>k, <1>10, SameOK, GotoOK, FinishOK, LabelTable DEF SucceededDelivered, DataOK
<1>11. CASE RecordCharge(s)
  <2>1. stripe[call[s].i].g \in Sessions \cup {NoSession}
    BY <1>0, <1>k DEF DataOK, StripeOK, Intent
  <2> QED
    BY <1>0, <1>11, <2>1, SameOK, FinishOK, LedgerChangeOK DEF RecordCharge, DataOK, ChargeStatus
<1> QED
  BY <1>1, <1>2, <1>3, <1>4, <1>5, <1>6, <1>7, <1>8, <1>9, <1>10, <1>11

(* sweepPendingSeminarPayments, sweepOrphanedBookingIntents. *)
LEMMA SweepTypes ==
    ASSUME TInv, NEW s \in Slots,
           \/ SweepAuthorized(s) \/ SweepProcessing(s) \/ SweepEnrolled(s)
           \/ SweepSettle(s) \/ SweepCancel(s) \/ SweepReleased(s)
           \/ SweepRefused(s) \/ StrayCancel(s) \/ StrayDelivered(s)
           \/ StrayRefund(s) \/ StrayRow(s)
    PROVE  TInv' /\ EnvSame
<1>0. DataOK /\ CallsOK /\ (DataOK' /\ CallsOK' => TInv')
  BY DEF TInv
<1> USE DEF At, Needs, SweepLabels
<1>k. call[s].i \in Intents
  BY <1>0, KnowsOK, LabelTable
     DEF SweepAuthorized, SweepProcessing, SweepEnrolled, SweepSettle,
     SweepCancel, SweepReleased, SweepRefused, StrayCancel, StrayDelivered,
     StrayRefund, StrayRow
<1>1. CASE SweepAuthorized(s)
  BY <1>0, <1>k, <1>1, SameOK, GotoOK, LabelTable DEF SweepAuthorized, DataOK
<1>2. CASE SweepProcessing(s)
  BY <1>0, <1>k, <1>2, SameOK, GotoOK, FinishOK, LabelTable DEF SweepProcessing, DataOK
<1>3. CASE SweepEnrolled(s)
  BY <1>0, <1>k, <1>3, SameOK, GotoOK, LabelTable DEF SweepEnrolled, DataOK
<1>4. CASE SweepSettle(s)
  BY <1>0, <1>k, <1>4, SameOK, FinishOK, LedgerChangeOK DEF SweepSettle, DataOK, ChargeStatus
<1>5. CASE SweepCancel(s)
  BY <1>0, <1>k, <1>5, SameOK, GotoOK, FinishOK, HoldChangeOK, LabelTable DEF SweepCancel, DataOK
<1>6. CASE SweepReleased(s)
  BY <1>0, <1>k, <1>6, SameOK, FinishOK, ReleaseOK, LedgerChangeOK
     DEF SweepReleased, DataOK, ChargeStatus
<1>7. CASE SweepRefused(s)
  BY <1>0, <1>7, SameOK, FinishOK, WorldChangeOK DEF SweepRefused, DataOK
<1>8. CASE StrayCancel(s)
  BY <1>0, <1>k, <1>8, SameOK, FinishOK, ReleaseOK, HoldChangeOK DEF StrayCancel, DataOK
<1>9. CASE StrayDelivered(s)
  BY <1>0, <1>k, <1>9, SameOK, GotoOK, LabelTable DEF StrayDelivered, DataOK, EventLabels
<1>10. CASE StrayRefund(s)
  BY <1>0, <1>k, <1>10, SameOK, GotoOK, StripeChangeOK, LabelTable DEF StrayRefund, DataOK
<1>11. CASE StrayRow(s)
  BY <1>0, <1>k, <1>11, SameOK, FinishOK, LedgerChangeOK DEF StrayRow, DataOK
<1> QED
  BY <1>1, <1>2, <1>3, <1>4, <1>5, <1>6, <1>7, <1>8, <1>9, <1>10, <1>11

(* A run starts in a free slot. *)
LEMMA FreeSlot ==
    ASSUME CallsOK, NEW s \in Slots, At(s, "idle")
    PROVE  call[s] = Idle
BY KnowsOK DEF At

Started(l, g, i, who, lapsed, window, row) ==
    [at |-> l, g |-> g, i |-> i, who |-> who, lapsed |-> lapsed,
     window |-> window, pays |-> "none", row |-> row, ret |-> "idle"]

(* The forms in which the calls write a run that starts. *)
LEMMA StartedIs ==
    ASSUME NEW l, NEW i, NEW c
    PROVE  /\ c = [Idle EXCEPT !.at = l] =>
              c = Started(l, NoSession, NoIntent, "nobody", FALSE, FALSE, FALSE)
           /\ c = [Idle EXCEPT !.at = l, !.i = i] =>
              c = Started(l, NoSession, i, "nobody", FALSE, FALSE, FALSE)
<1>1. c = [Idle EXCEPT !.at = l] =>
      c = Started(l, NoSession, NoIntent, "nobody", FALSE, FALSE, FALSE)
  BY DEF Idle, Started
<1>2. c = [Idle EXCEPT !.at = l, !.i = i] =>
      c = Started(l, NoSession, i, "nobody", FALSE, FALSE, FALSE)
  BY DEF Idle, Started
<1> QED BY <1>1, <1>2

LEMMA StartOK ==
    ASSUME CallsOK, EnvSame, NEW s \in Slots, call' = [call EXCEPT ![s] = call'[s]],
           NEW l, NEW i \in Intents \cup {NoIntent}, NEW g \in Sessions \cup {NoSession},
           NEW who \in {"nobody", "student", "expert"},
           NEW lapsed \in BOOLEAN, NEW window \in BOOLEAN, NEW row \in BOOLEAN,
           call'[s] = Started(l, g, i, who, lapsed, window, row),
           l \in Labels, l # "idle",
           l \in WithIntent \/ row => i \in Intents,
           Charged /\ l \in WithIntentIfCharged => i \in Intents,
           l \in WithSession => g \in Sessions,
           l \in AcceptLabels => who # "nobody"
    PROVE  CallsOK'
<1>1. "idle" \in Labels
  BY DEF Labels
<1>2. call'[s] \in Run(Labels)
  BY <1>1 DEF Run, Started
<1>3. Knows(call[s])'
  BY DEF Knows, Started, EnvSame, Charged
<1> QED BY <1>2, <1>3, StepOK

(* Somebody calls a handler. *)
LEMMA CallTypes ==
    ASSUME TInv, NEW s \in Slots, BookingCall(s) \/ EndingCall(s)
    PROVE  TInv' /\ EnvSame
<1>0. DataOK /\ CallsOK /\ (DataOK' /\ CallsOK' => TInv')
  BY DEF TInv
<1>c. (\E h : Calling(s, h)) => WorldOK' /\ EnvSame /\ call[s] = Idle
  BY <1>0, WorldChangeOK, FreeSlot DEF DataOK, Calling
<1> USE DEF Needs
<1>1. CASE Propose(s)
  <2>1. SessionOK'
    BY <1>0, <1>1, SessionChangeOK DEF Propose, DataOK, Deadline
  <2>2. DataOK' /\ EnvSame
    BY <1>0, <1>1, <1>c, <2>1, SameOK DEF Propose, DataOK
  <2>3. CallsOK'
    BY <1>0, <1>1, <2>2 DEF Propose, CallsOK, Knows, EnvSame, Charged
  <2> QED BY <1>0, <2>2, <2>3
<1>2. ASSUME NEW i \in Intents \cup {NoIntent}, Request(s, i) PROVE TInv' /\ EnvSame
  <2>1. DataOK' /\ EnvSame
    BY <1>0, <1>2, <1>c, SameOK, StripeChangeOK DEF Request, DataOK
  <2> DEFINE l == IF i = NoIntent THEN "request.create" ELSE "request.consumed"
  <2>5. call[s] = Idle /\ IF i = NoIntent THEN call' = [call EXCEPT ![s].at = l]
                          ELSE call' = [call EXCEPT ![s].at = l, ![s].i = i]
    BY <1>0, <1>2, <1>c DEF Request
  <2>2. /\ call' = [call EXCEPT ![s] = call'[s]]
        /\ call'[s] = Started(l, NoSession, i, "nobody", FALSE, FALSE, FALSE)
    <3>1. call' = [call EXCEPT ![s] = IF i = NoIntent THEN [Idle EXCEPT !.at = l]
                                      ELSE [Idle EXCEPT !.at = l, !.i = i]]
      BY <1>0, <2>5 DEF CallsOK
    <3> HIDE DEF l
    <3>2. /\ call' = [call EXCEPT ![s] = call'[s]]
          /\ call'[s] = IF i = NoIntent THEN [Idle EXCEPT !.at = l]
                        ELSE [Idle EXCEPT !.at = l, !.i = i]
      BY <1>0, <3>1 DEF CallsOK
    <3> QED BY <3>2, StartedIs
  <2>3. Needs(l, l # "request.create", FALSE, FALSE, FALSE)
    BY LabelTable DEF RequestLabels, ParkLabels
  <2>4. l \in WithIntent => i \in Intents
    BY <2>3
  <2> HIDE DEF l
  <2> QED BY <1>0, <2>1, <2>2, <2>3, <2>4, StartOK
<1>3. ASSUME NEW g \in Sessions, AcceptAsExpert(s, g) PROVE TInv' /\ EnvSame
  <2>1. DataOK' /\ EnvSame
    BY <1>0, <1>3, <1>c, SameOK DEF AcceptAsExpert, DataOK
  <2>4. PICK lapsed \in BOOLEAN, window \in BOOLEAN :
            call' = [call EXCEPT ![s].at = "accept.parked", ![s].g = g,
                ![s].who = "expert", ![s].lapsed = lapsed, ![s].window = window]
    BY <1>3 DEF AcceptAsExpert
  <2>2. /\ call' = [call EXCEPT ![s] = call'[s]]
        /\ call'[s] = Started("accept.parked", g, NoIntent, "expert", lapsed, window, FALSE)
    <3>1. call[s] = Idle
      BY <1>3, <1>c DEF AcceptAsExpert
    <3> QED BY <1>0, <2>4, <3>1 DEF CallsOK, Idle, Started
  <2>3. Needs("accept.parked", FALSE, FALSE, TRUE, TRUE)
    BY LabelTable DEF ReadLabels
  <2> QED BY <1>0, <2>1, <2>2, <2>3, StartOK, ZenonT(40)
<1>4. ASSUME NEW g \in Sessions, NEW i \in Intents \cup {NoIntent},
             AcceptAsStudent(s, g, i)
      PROVE  TInv' /\ EnvSame
  <2>1. DataOK' /\ EnvSame
    BY <1>0, <1>4, <1>c, SameOK, StripeChangeOK DEF AcceptAsStudent, DataOK
  <2>2. CASE Orphaned(s, g, i)
    BY <1>0, <2>1, <2>2, OrphanedOK
  <2>3. CASE ~Orphaned(s, g, i)
    <3>4. PICK lapsed \in BOOLEAN, window \in BOOLEAN :
              call' = [call EXCEPT ![s].at = "accept.paid", ![s].g = g, ![s].i = i,
                  ![s].who = "student", ![s].lapsed = lapsed, ![s].window = window]
      BY <1>4, <2>3 DEF AcceptAsStudent
    <3>1. /\ call' = [call EXCEPT ![s] = call'[s]]
          /\ call'[s] = Started("accept.paid", g, i, "student", lapsed, window, FALSE)
      <4>1. call[s] = Idle
        BY <1>4, <1>c DEF AcceptAsStudent
      <4> QED BY <1>0, <3>4, <4>1 DEF CallsOK, Idle, Started
    <3>2. Charged => i \in Intents
      BY <1>4 DEF AcceptAsStudent
    <3>3. Needs("accept.paid", FALSE, TRUE, TRUE, TRUE)
      BY LabelTable DEF ReadLabels
    <3> QED BY <1>0, <2>1, <3>1, <3>2, <3>3, StartOK, ZenonT(40)
  <2> QED BY <2>2, <2>3
<1>5. ASSUME NEW g \in Sessions, NEW who \in {"student", "expert"}, Cancel(s, g, who)
      PROVE  TInv' /\ EnvSame
  <2>1. DataOK' /\ EnvSame
    BY <1>0, <1>5, <1>c, SameOK, SessionChangeOK DEF Cancel, DataOK, SessionStatus
  <2>2. /\ call' = [call EXCEPT ![s] = call'[s]]
        /\ call'[s] = Started("cancel.parked", g, NoIntent, who, FALSE, FALSE, FALSE)
    <3>1. /\ call[s] = Idle
          /\ call' = [call EXCEPT ![s].at = "cancel.parked", ![s].g = g, ![s].who = who]
      BY <1>5, <1>c DEF Cancel
    <3> QED BY <1>0, <3>1 DEF CallsOK, Idle, Started
  <2>3. Needs("cancel.parked", FALSE, FALSE, TRUE, FALSE)
    BY LabelTable DEF CancellingLabels
  <2>4. NoIntent \in Intents \cup {NoIntent} /\ who \in {"nobody", "student", "expert"}
    OBVIOUS
  <2> HIDE DEF Needs
  <2>5. /\ "cancel.parked" \in Labels /\ "cancel.parked" # "idle"
        /\ "cancel.parked" \notin WithIntent \cup WithIntentIfCharged \cup AcceptLabels
    BY <2>3 DEF Needs
  <2> QED BY <1>0, <2>1, <2>2, <2>4, <2>5, StartOK
<1> QED
  BY <1>1, <1>2, <1>3, <1>4, <1>5 DEF BookingCall, EndingCall

(* Stripe delivers an event, a sweep takes up an intent or a session. *)
LEMMA PickUpTypes ==
    ASSUME TInv, NEW s \in Slots, WebhookStep(s) \/ SweepStep(s)
    PROVE  TInv' /\ EnvSame
<1>0. DataOK /\ CallsOK /\ (DataOK' /\ CallsOK' => TInv')
  BY DEF TInv
<1> USE DEF Needs
<1>1. ASSUME NEW i \in Intents, FailedEvent(s, i) PROVE TInv' /\ EnvSame
  <2>1. DataOK' /\ EnvSame
    BY <1>0, <1>1, SameOK DEF FailedEvent, DataOK, EventsOK
  <2>2. call[s] = Idle
    BY <1>0, <1>1, FreeSlot DEF FailedEvent
  <2>3. PICK l \in {"failed.row", "failed.withheld"}, row \in BOOLEAN :
            call' = [call EXCEPT ![s].i = i, ![s].g = ledger[i].g,
                                 ![s].row = row, ![s].at = l]
    BY <1>1 DEF FailedEvent
  <2>4. /\ call' = [call EXCEPT ![s] = call'[s]]
        /\ call'[s] = Started(l, ledger[i].g, i, "nobody", FALSE, FALSE, row)
    BY <1>0, <2>2, <2>3 DEF CallsOK, Idle, Started
  <2>5. Needs(l, TRUE, FALSE, FALSE, FALSE) /\ ledger[i].g \in Sessions \cup {NoSession}
    BY <1>0, LabelTable DEF EventLabels, DataOK, LedgerOK, Ledger
  <2> QED BY <1>0, <2>1, <2>4, <2>5, StartOK, ZenonT(40)
<1>2. ASSUME NEW i \in Intents, SucceededEvent(s, i) PROVE TInv' /\ EnvSame
  <2>1. DataOK' /\ EnvSame
    BY <1>0, <1>2, SameOK, LedgerChangeOK DEF SucceededEvent, DataOK, EventsOK, ChargeStatus
  <2>2. call[s] = Idle
    BY <1>0, <1>2, FreeSlot DEF SucceededEvent
  <2>3. CASE UNCHANGED call
    BY <1>0, <2>1, <2>3 DEF CallsOK, Knows, EnvSame, Charged
  <2>4. CASE ~UNCHANGED call
    <3>1. /\ call' = [call EXCEPT ![s] = call'[s]]
          /\ call'[s] = Started("succeeded.recorded", NoSession, i, "nobody", FALSE, FALSE, FALSE)
      <4>1. call' = [call EXCEPT ![s].at = "succeeded.recorded", ![s].i = i]
        BY <1>2, <2>4 DEF SucceededEvent
      <4>2. call' = [call EXCEPT ![s] = [Idle EXCEPT !.at = "succeeded.recorded", !.i = i]]
        BY <1>0, <2>2, <4>1 DEF CallsOK
      <4>3. /\ call' = [call EXCEPT ![s] = call'[s]]
            /\ call'[s] = [Idle EXCEPT !.at = "succeeded.recorded", !.i = i]
        BY <1>0, <4>2 DEF CallsOK
      <4> QED BY <4>3, StartedIs
    <3>2. Needs("succeeded.recorded", TRUE, FALSE, FALSE, FALSE)
      BY LabelTable DEF EventLabels
    <3> QED BY <1>0, <2>1, <3>1, <3>2, StartOK
  <2> QED BY <2>3, <2>4
<1>3. ASSUME NEW i \in Intents, SweepPending(s, i) \/ SweepStray(s, i) PROVE TInv' /\ EnvSame
  <2>1. DataOK' /\ EnvSame
    BY <1>0, <1>3, SameOK, StripeChangeOK DEF SweepPending, SweepStray, DataOK
  <2>2. call[s] = Idle
    BY <1>0, <1>3, FreeSlot DEF SweepPending, SweepStray
  <2>3. PICK l \in {"sweep.enrolled", "sweep.authorized", "stray.cancel",
                    "stray.delivered"}, g \in Sessions \cup {NoSession} :
            call' = [call EXCEPT ![s].i = i, ![s].g = g, ![s].at = l]
    <3>1. /\ ledger[i].g \in Sessions \cup {NoSession}
          /\ stripe[i].g \in Sessions \cup {NoSession}
      BY <1>0 DEF DataOK, LedgerOK, Ledger, StripeOK, Intent
    <3> QED BY <1>3, <3>1 DEF SweepPending, SweepStray
  <2>4. /\ call' = [call EXCEPT ![s] = call'[s]]
        /\ call'[s] = Started(l, g, i, "nobody", FALSE, FALSE, FALSE)
    BY <1>0, <2>2, <2>3 DEF CallsOK, Idle, Started
  <2>5. Needs(l, TRUE, FALSE, FALSE, FALSE)
    BY LabelTable DEF SweepLabels
  <2> QED BY <1>0, <2>1, <2>4, <2>5, StartOK
<1>4. ASSUME NEW g \in Sessions, SweepHold(s, g) PROVE TInv' /\ EnvSame
  <2>1. DataOK' /\ EnvSame
    BY <1>0, <1>4, SameOK DEF SweepHold, DataOK
  <2>2. call[s] = Idle
    BY <1>0, <1>4, FreeSlot DEF SweepHold
  <2>5. PICK window \in BOOLEAN :
            call' = [call EXCEPT ![s].at = "hold.parked", ![s].g = g, ![s].window = window]
    BY <1>4 DEF SweepHold
  <2>3. /\ call' = [call EXCEPT ![s] = call'[s]]
        /\ call'[s] = Started("hold.parked", g, NoIntent, "nobody", FALSE, window, FALSE)
    <3>1. call' = [call EXCEPT ![s] = [Idle EXCEPT !.at = "hold.parked", !.g = g,
                                                   !.window = window]]
      BY <1>0, <2>2, <2>5 DEF CallsOK
    <3>2. /\ call' = [call EXCEPT ![s] = call'[s]]
          /\ call'[s] = [Idle EXCEPT !.at = "hold.parked", !.g = g, !.window = window]
      BY <1>0, <3>1 DEF CallsOK
    <3> QED BY <3>2 DEF Idle, Started
  <2>4. /\ "hold.parked" \in Labels \ WithIntent
        /\ "hold.parked" \notin WithIntentIfCharged \cup AcceptLabels
    BY LabelTable DEF HoldLabels
  <2>6. CallsOK'
    BY <1>0, <2>1, <2>3, <2>4, StartOK
  <2> QED BY <1>0, <2>1, <2>6
<1> QED
  BY <1>1, <1>2, <1>3, <1>4 DEF WebhookStep, SweepStep

(* Stripe, the student at the payment page, the clock, a restart. *)
LEMMA OutsideTypes ==
    ASSUME TInv, StripeStep \/ Time \/ Crash
    PROVE  TInv' /\ EnvSame
<1>0. DataOK /\ CallsOK /\ (DataOK' /\ CallsOK' => TInv')
  BY DEF TInv
<1>s. UNCHANGED call /\ EnvSame => CallsOK'
  BY <1>0 DEF CallsOK, Knows, EnvSame, Charged
<1>1. ASSUME NEW i \in Intents, NEW g \in Sessions \cup {NoSession}, NEW st \in Outcomes,
             Checkout(i, g, st)
      PROVE  TInv' /\ EnvSame
  <2> DEFINE new == [st |-> st, g |-> g, refunded |-> FALSE, sent |-> FALSE, old |-> FALSE]
  <2>1. st \in IntentStatus
    BY <1>0, <1>1, SessionAssumption DEF DataOK, WorldOK, Outcomes, IntentStatus
  <2>2. new \in Intent
    BY <2>1 DEF Intent
  <2>3. StripeOK' /\ EventsOK'
    BY <1>0, <1>1, <2>2 DEF Checkout, DataOK, StripeOK, EventsOK, Event
  <2> QED BY <1>0, <1>1, <1>s, <2>3, SameOK DEF Checkout, DataOK
<1>2. ASSUME NEW i \in Intents,
             DeclinedFirst(i) \/ WalletClears(i) \/ WalletFails(i) \/ HoldExpires(i)
      PROVE  TInv' /\ EnvSame
  <2>1. StripeOK' /\ EventsOK'
    BY <1>0, <1>2, StripeChangeOK, HoldChangeOK
       DEF DeclinedFirst, WalletClears, WalletFails, HoldExpires, DataOK,
       StripeOK, EventsOK, Event, IntentStatus
  <2>2. WorldOK' /\ EnvSame
    BY <1>0, <1>2, SameOK, WorldChangeOK
       DEF DeclinedFirst, WalletClears, WalletFails, HoldExpires, DataOK
  <2> QED
    BY <1>0, <1>2, <1>s, <2>1, <2>2, SameOK
       DEF DeclinedFirst, WalletClears, WalletFails, HoldExpires, DataOK
<1>3. ASSUME NEW g \in Sessions, DecisionLapses(g) \/ WindowLapses(g)
      PROVE  TInv' /\ EnvSame
  <2>1. SessionOK'
    BY <1>0, <1>3 DEF DecisionLapses, WindowLapses, DataOK, SessionOK, Session, Deadline
  <2> QED
    BY <1>0, <1>3, <1>s, <2>1, SameOK DEF DecisionLapses, WindowLapses, DataOK
<1>4. ASSUME NEW g \in Sessions, SessionStarts(g) PROVE TInv' /\ EnvSame
  <2> DEFINE new == [session[g] EXCEPT !.started = TRUE,
          !.decide = IF session[g].decide = "set" THEN "lapsed" ELSE session[g].decide,
          !.payBy = IF session[g].payBy = "set" THEN "lapsed" ELSE session[g].payBy]
  <2>1. new \in Session
    BY <1>0 DEF DataOK, SessionOK, Session, Deadline
  <2>2. session' = [session EXCEPT ![g] = new]
    BY <1>0, <1>4 DEF SessionStarts, DataOK, SessionOK
  <2> HIDE DEF new
  <2>3. SessionOK'
    BY <1>0, <2>1, <2>2 DEF DataOK, SessionOK
  <2> QED BY <1>0, <1>4, <1>s, <2>3, SameOK DEF SessionStarts, DataOK
<1>5. ASSUME NEW g \in Sessions, SweepWindow(g) PROVE TInv' /\ EnvSame
  BY <1>0, <1>5, <1>s, SameOK, SessionChangeOK DEF SweepWindow, DataOK
<1>6. CASE Crash
  <2>1. DataOK' /\ EnvSame
    BY <1>0, <1>6, SameOK, WorldChangeOK DEF Crash, DataOK
  <2>2. CallsOK'
    BY <1>6, IdleType, LabelsApart DEF Crash, CallsOK, Knows, Idle
  <2> QED BY <1>0, <2>1, <2>2
<1> QED
  BY <1>1, <1>2, <1>3, <1>4, <1>5, <1>6 DEF StripeStep, Time

LEMMA TypesStep == ASSUME TInv, Next PROVE TInv' /\ EnvSame
<1>1. ASSUME NEW s \in Slots,
             Step(s) \/ WebhookStep(s) \/ SweepStep(s) \/ BookingCall(s) \/ EndingCall(s)
      PROVE  TInv' /\ EnvSame
  <2>1. CASE BookingStep(s)
    BY <2>1, MoneyBackTypes, RequestTypes, ReadTypes, ConfirmTypes DEF BookingStep
  <2>2. CASE EndingStep(s)
    BY <2>2, CancelTypes, HoldTypes, EventTypes, SweepTypes DEF EndingStep
  <2> QED BY <1>1, <2>1, <2>2, CallTypes, PickUpTypes DEF Step
<1> QED BY <1>1, OutsideTypes DEF Next

LEMMA TypesInit == Init => TInv
<1> SUFFICES ASSUME Init PROVE TInv
  OBVIOUS
<1>1. WorldOK /\ EventsOK
  BY DEF Init, WorldOK, EventsOK
<1>2. SessionOK /\ LedgerOK /\ StripeOK
  BY DEF Init, SessionOK, LedgerOK, StripeOK, Session, SessionStatus, Deadline,
     Ledger, ChargeStatus, Recorded, Intent, IntentStatus
<1>3. CallsOK
  BY IdleType, LabelsApart DEF Init, CallsOK, Knows, Idle
<1> QED BY <1>1, <1>2, <1>3 DEF TInv, DataOK

LEMMA TypesAlways == Spec => []TInv
<1>1. TInv /\ UNCHANGED sessionVars => TInv'
  BY DEF TInv, DataOK, CallsOK, SessionOK, LedgerOK, StripeOK, EventsOK,
     WorldOK, Knows, Charged, Recorded, sessionVars
<1> QED BY <1>1, TypesInit, TypesStep, PTL DEF Spec

(* The documents, the intents, the events, the runs and the world have     *)
(* their types in every reachable state, in every environment.             *)
THEOREM TypeCorrect == Spec => []TypeOK
<1>1. TInv => TypeOK
  BY DEF TInv, DataOK, CallsOK, SessionOK, LedgerOK, StripeOK, EventsOK,
     WorldOK, TypeOK
<1> QED BY <1>1, TypesAlways, PTL

-----------------------------------------------------------------------------
(* In every environment: what is named exists, a run that captures has its *)
(* charge on the books, and a canceller has its session to itself.         *)
Live(i) == stripe[i].st # "none"
There(g) == g \in Sessions => session[g].st # "none"

Known ==
    /\ \A i \in Intents : Recorded(i) => Live(i)
    /\ \A s \in Slots : call[s].i \in Intents => Live(call[s].i)
    /\ \A e \in events : Live(e[2])
    /\ \A i \in Intents : Live(i) => Charged
    /\ \A i \in Intents : ~Live(i) => stripe[i].g = NoSession
Real ==
    /\ \A s \in Slots : There(call[s].g)
    /\ \A i \in Intents : There(ledger[i].g) /\ There(stripe[i].g)

(* A row goes away again only with its hold. *)
Booked(c) == stripe[c.i].st = "canceled" \/ ledger[c.i].g = c.g
Covered(c) ==
    /\ c.at = "accept.capture" => Booked(c)
    /\ c.at \in AcceptLabels /\ c.row => Booked(c)
    /\ c.at = "accept.collect" => c.row
    /\ c.at = "accept.capDelete" => stripe[c.i].st = "canceled"
Captures == \A s \in Slots : Covered(call[s])

Claiming(s) ==
    call[s].at \in CancellingLabels =>
        /\ session[call[s].g].st \in {"cancelled", "deleted"}
        /\ \A t \in Slots : call[t].at \in CancellingLabels /\ call[t].g = call[s].g
                                => t = s
Claims == \A s \in Slots : Claiming(s)
BInv == TInv /\ Known /\ Real /\ Captures /\ Claims

-----------------------------------------------------------------------------
(* What a step may change.  G is the session the step is about, s the run  *)
(* that takes it, if a run does.                                           *)
Undecided == ConfirmingLabels \cup CancellingLabels
BookLabels == {"request.park", "request.append"}

Moves(s) == call'[s].at # call[s].at
Someone(labels, i, g) ==
    \E s \in Slots : /\ call[s].at \in labels /\ call[s].i = i /\ call[s].g = g
                    /\ Moves(s)

Ender(labels, h) ==
    \E s \in Slots : call[s].at \in labels /\ call[s].g = h /\ Moves(s)

Statuses(h, a, b) ==
    \/ a = b
    \/ /\ a = "none" /\ b = "pending"
       /\ Charged /\ session'[h].by = "student" /\ session'[h].mode = "card" =>
             \E s \in Slots : At(s, "request.create") /\ call[s].i \in Intents
    \/ /\ a = "pending" /\ b = "active"
       /\ \E s \in Slots : At(s, "accept.activate") /\ call[s].g = h /\ Moves(s)
    \/ a = "pending" /\ b = "cancelled"
    \/ a = "active" /\ b = "cancelled" /\ Ender({"release.cancel", "refund.cancel"}, h)
    \/ /\ a = "active" /\ b = "pending"
       /\ \E s \in Slots : /\ At(s, "accept.restore") /\ call[s].g = h
                           /\ call'[s].at \notin Undecided
    \/ /\ a = "cancelled" /\ b = "pending"
       /\ \E s \in Slots : /\ At(s, "cancel.restore") /\ call[s].g = h
                           /\ call'[s].at \notin Undecided
    \/ /\ a # "none" /\ b = "deleted"
       /\ a = "active" => Ender({"request.rollback"}, h)

SessionFrame(G) ==
    \A h \in Sessions :
        /\ h # G => session'[h].st = session[h].st
        /\ session[h].st # "none" => /\ session'[h].by = session[h].by
                                     /\ session'[h].mode = session[h].mode
        /\ Statuses(h, session[h].st, session'[h].st)

RowStays(i) ==
    /\ ledger'[i].g = ledger[i].g
    /\ ledger'[i].charge = "withheld" => ledger[i].charge = "withheld"
    /\ ledger'[i].charge # "none" => Recorded(i) \/ \E s \in Slots : call[s].i = i
RowAdded(i, G) ==
    /\ ~Recorded(i)
    /\ ledger'[i].g = G
    /\ G = stripe[i].g \/ Someone(BookLabels \cup {"accept.insert", "accept.append"}, i, G)
    /\ ledger'[i].charge = "withheld" => Someone({"request.park"}, i, G)
    /\ \E s \in Slots : call[s].i = i
RowDeleted(i) ==
    /\ ledger'[i].g = NoSession
    /\ ledger'[i].charge = "none"
    /\ \E s \in Slots : At(s, "accept.capDelete") /\ call[s].i = i /\ Moves(s)

LedgerFrame(G) ==
    \/ \A i \in Intents : RowStays(i)
    \/ \E i \in Intents : /\ RowAdded(i, G) \/ RowDeleted(i)
                          /\ \A j \in Intents : j # i => ledger'[j] = ledger[j]

Opened(i) ==
    /\ Charged
    /\ stripe[i].st = "none" /\ stripe'[i].st # "none"
    /\ \/ stripe'[i].g = NoSession
       \/ "pay" \in Calls /\ session[stripe'[i].g].st = "pending"
    /\ (\E j \in Intents : Live(j)) => "again" \in Calls
Settled(i, G, a, b) ==
    \/ a = b
    \/ a = "hold" /\ b = "canceled"
    \/ /\ a = "hold" /\ b = "succeeded"
       /\ ledger[i].g = G
       /\ Someone({"accept.capture", "accept.collect"}, i, G)
    \/ /\ a = "processing" /\ b \in {"succeeded", "failed"}
       /\ ledger[i].g \in {G, NoSession}

StripeFrame(G) ==
    \A i \in Intents :
        \/ Opened(i) /\ \A j \in Intents : j # i => stripe'[j] = stripe[j]
        \/ /\ stripe'[i].g = stripe[i].g
           /\ stripe[i].sent => stripe'[i].sent
           /\ Settled(i, G, stripe[i].st, stripe'[i].st)

EventsFrame == \A e \in events' : e \in events \/ stripe'[e[2]].st # "none"

CallFrame(s, G) ==
    /\ \A t \in Slots : t # s => call'[t] = call[t]
    /\ s \in Slots =>
          /\ call'[s].i \in Intents => call'[s].i = call[s].i \/ Live(call'[s].i)
          /\ \/ call'[s].g = call[s].g \/ There(call'[s].g)
             \/ session'[call'[s].g].st # "none"
          /\ call[s].at \in Undecided => call[s].g = G
          /\ call'[s].at \in CancellingLabels =>
                /\ call'[s].g = G
                /\ \/ call[s].at \in CancellingLabels
                   \/ session[G].st = "pending" /\ session'[G].st = "cancelled"
          /\ call'[s].at \in ConfirmingLabels =>
                /\ call'[s].g = G
                /\ \/ call[s].at \in ConfirmingLabels
                   \/ /\ call[s].at = "accept.activate"
                      /\ call[s].pays = "held" /\ call[s].g = G
          /\ call'[s].at \in AcceptLabels \cup RequestLabels =>
                BookingCall(s) \/ BookingStep(s)

Frame(s, G) ==
    /\ SessionFrame(G) /\ LedgerFrame(G) /\ StripeFrame(G) /\ EventsFrame
    /\ CallFrame(s, G)

(* What a step leaves alone. *)
LEMMA SameFrame ==
    ASSUME NEW G
    PROVE  /\ UNCHANGED session => SessionFrame(G)
           /\ UNCHANGED ledger => LedgerFrame(G)
           /\ UNCHANGED stripe => StripeFrame(G)
           /\ UNCHANGED events => EventsFrame
BY DEF SessionFrame, Statuses, LedgerFrame, RowStays, Recorded, StripeFrame,
       Settled, EventsFrame

(* One session changes. *)
LEMMA OneSession ==
    ASSUME SessionOK, NEW G,
           \A h \in Sessions : h # G => session'[h] = session[h],
           G \in Sessions =>
               /\ session[G].st # "none" => /\ session'[G].by = session[G].by
                                            /\ session'[G].mode = session[G].mode
               /\ Statuses(G, session[G].st, session'[G].st)
    PROVE  SessionFrame(G)
BY DEF SessionFrame, Statuses

LEMMA StatusFrame ==
    ASSUME SessionOK, NEW G
    PROVE  /\ \A st : SetSession(G, st) /\ Statuses(G, session[G].st, st)
                          => SessionFrame(G)
           /\ Close(G) /\ Statuses(G, session[G].st, "cancelled") => SessionFrame(G)
           /\ session' = [session EXCEPT ![G].st = "cancelled", ![G].decide = "none"]
              /\ session[G].st = "pending" => SessionFrame(G)
           /\ \A v : session' = [session EXCEPT ![G].decide = v] => SessionFrame(G)
           /\ \A v, w : session' = [session EXCEPT ![G].decide = v, ![G].payBy = w]
                 => SessionFrame(G)
<1>1. ASSUME NEW st, SetSession(G, st), Statuses(G, session[G].st, st)
      PROVE  SessionFrame(G)
  <2>1. /\ \A h \in Sessions : h # G => session'[h] = session[h]
        /\ G \in Sessions => /\ session'[G].by = session[G].by
                             /\ session'[G].mode = session[G].mode
                             /\ session'[G].st = st
    BY <1>1 DEF SetSession, SessionOK, Session
  <2> QED BY <1>1, <2>1, OneSession
<1>2. ASSUME Close(G), Statuses(G, session[G].st, "cancelled")
      PROVE  SessionFrame(G)
  <2>1. /\ \A h \in Sessions : h # G => session'[h] = session[h]
        /\ G \in Sessions => /\ session'[G].by = session[G].by
                             /\ session'[G].mode = session[G].mode
                             /\ session'[G].st = "cancelled"
    BY <1>2 DEF Close, SessionOK, Session
  <2> QED BY <1>2, <2>1, OneSession
<1>3. ASSUME session' = [session EXCEPT ![G].st = "cancelled", ![G].decide = "none"],
             session[G].st = "pending"
      PROVE  SessionFrame(G)
  <2>1. /\ \A h \in Sessions : h # G => session'[h] = session[h]
        /\ G \in Sessions => /\ session'[G].by = session[G].by
                             /\ session'[G].mode = session[G].mode
                             /\ session'[G].st = "cancelled"
    BY <1>3 DEF SessionOK, Session
  <2> QED BY <1>3, <2>1, OneSession DEF Statuses
<1>4. ASSUME NEW v, NEW w,
             \/ session' = [session EXCEPT ![G].decide = v]
             \/ session' = [session EXCEPT ![G].decide = v, ![G].payBy = w]
      PROVE  SessionFrame(G)
  <2>1. /\ \A h \in Sessions : h # G => session'[h] = session[h]
        /\ G \in Sessions => /\ session'[G].by = session[G].by
                             /\ session'[G].mode = session[G].mode
                             /\ session'[G].st = session[G].st
    BY <1>4 DEF SessionOK, Session
  <2> QED BY <2>1, OneSession DEF Statuses
<1> QED BY <1>1, <1>2, <1>3, <1>4

LEMMA RowFrame ==
    ASSUME LedgerOK, NEW G, NEW s \in Slots, call[s].i \in Intents
    PROVE  /\ \A st : st # "withheld" /\ SetCharge(call[s].i, st) => LedgerFrame(G)
           /\ \A from, st : st # "withheld" /\ MoveCharge(call[s].i, from, st)
                 => LedgerFrame(G)
           /\ AppendRefund(call[s].i) => LedgerFrame(G)
<1>1. ASSUME NEW st, st # "withheld", SetCharge(call[s].i, st) PROVE LedgerFrame(G)
  BY <1>1 DEF SetCharge, LedgerFrame, RowStays, LedgerOK, Ledger, Recorded
<1>2. ASSUME AppendRefund(call[s].i) PROVE LedgerFrame(G)
  BY <1>2 DEF AppendRefund, LedgerFrame, RowStays, LedgerOK, Ledger, Recorded
<1> QED BY <1>1, <1>2, SameFrame DEF MoveCharge

LEMMA IntentFrame ==
    ASSUME StripeOK, NEW G, NEW i \in Intents
    PROVE  /\ Refund(i) => StripeFrame(G)
           /\ Submitted(i) => StripeFrame(G)
           /\ \A labels : HourPasses(i, labels) => StripeFrame(G)
           /\ CancelHold(i) => StripeFrame(G) /\ EventsFrame
<1>1. Refund(i) => StripeFrame(G)
  BY DEF Refund, StripeFrame, Settled, StripeOK, Intent
<1>2. Submitted(i) => StripeFrame(G)
  BY DEF Submitted, StripeFrame, Settled, StripeOK, Intent
<1>3. \A labels : HourPasses(i, labels) => StripeFrame(G)
  BY DEF HourPasses, StripeFrame, Settled, StripeOK, Intent
<1>4. ASSUME CancelHold(i), stripe[i].st = "hold" PROVE StripeFrame(G) /\ EventsFrame
  <2>1. StripeFrame(G)
    BY <1>4 DEF CancelHold, SetIntent, StripeFrame, Settled, StripeOK, Intent
  <2>2. stripe'[i].st = "canceled" /\ events' = events \cup {<<"canceled", i>>}
    BY <1>4 DEF CancelHold, SetIntent, StripeOK, Intent
  <2> QED BY <2>1, <2>2 DEF EventsFrame
<1> QED BY <1>1, <1>2, <1>3, <1>4, SameFrame DEF CancelHold

(* A run that goes elsewhere or ends is the one that moves. *)
LEMMA MoverIs ==
    ASSUME CallsOK, NEW s \in Slots
    PROVE  /\ \A l : Goto(s, l) /\ l # call[s].at => Moves(s)
           /\ Finish(s) /\ call[s].at # "idle" => Moves(s)
BY DEF CallsOK, Run, Goto, Finish, Idle, Moves

(* The labels of everything but requests, accepting and cancelling. *)
Calm(l) == l \notin AcceptLabels \cup RequestLabels \cup CancellingLabels

LEMMA LabelKinds ==
    /\ \A l \in {"idle"} \cup MoneyBackLabels \cup CancelledLabels \cup HoldLabels
                \cup EventLabels \cup SweepLabels : Calm(l)
    /\ \A l \in RequestLabels : l \notin AcceptLabels \cup CancellingLabels
    /\ \A l \in AcceptLabels : l \notin CancellingLabels
    /\ ConfirmingLabels \subseteq AcceptLabels
<1> USE DEF AcceptLabels, RequestLabels, ReadLabels, UndoLabels,
    ConfirmingLabels, ConfirmedLabels, CancellingLabels
<1>1. \A l \in {"idle"} \cup MoneyBackLabels \cup CancelledLabels : Calm(l)
  BY DEF Calm, MoneyBackLabels, CancelledLabels
<1>2. \A l \in HoldLabels \cup SweepLabels : Calm(l)
  BY DEF Calm, HoldLabels, SweepLabels
<1>3. \A l \in EventLabels : Calm(l)
  BY DEF Calm, EventLabels
<1>4. \A l \in RequestLabels : l \notin AcceptLabels \cup CancellingLabels
  OBVIOUS
<1>5. \A l \in AcceptLabels : l \notin CancellingLabels
  OBVIOUS
<1> QED BY <1>1, <1>2, <1>3, <1>4, <1>5

(* A run moves on: to a calm label, within its handler, or to its end. *)
LEMMA MoveFrame ==
    ASSUME CallsOK, NEW s \in Slots, NEW G,
           call' = [call EXCEPT ![s] = call'[s]], Calm(call'[s].at),
           call'[s].i \in Intents => call'[s].i = call[s].i \/ Live(call'[s].i),
           \/ call'[s].g = call[s].g \/ There(call'[s].g)
           \/ session'[call'[s].g].st # "none",
           call[s].at \in Undecided => call[s].g = G
    PROVE  CallFrame(s, G)
<1>1. \A t \in Slots : t # s => call'[t] = call[t]
  BY DEF CallsOK
<1>2. call'[s].at \notin CancellingLabels \cup ConfirmingLabels \cup AcceptLabels \cup RequestLabels
  BY LabelKinds DEF Calm
<1> QED BY <1>1, <1>2 DEF CallFrame

LEMMA GotoFrame ==
    ASSUME CallsOK, NEW s \in Slots, NEW l, Goto(s, l),
           l \in CancellingLabels => call[s].at \in CancellingLabels,
           l \in ConfirmingLabels => call[s].at \in ConfirmingLabels,
           l \in AcceptLabels \cup RequestLabels => BookingStep(s)
    PROVE  CallFrame(s, call[s].g)
<1>1. /\ \A t \in Slots : t # s => call'[t] = call[t]
      /\ call'[s].i = call[s].i /\ call'[s].g = call[s].g /\ call'[s].at = l
  BY DEF CallsOK, Goto, Run
<1> QED BY <1>1 DEF CallFrame

LEMMA CalmFrame ==
    ASSUME CallsOK, NEW s \in Slots
    PROVE  /\ \A l : Goto(s, l) /\ Calm(l) => CallFrame(s, call[s].g)
           /\ Finish(s) => CallFrame(s, call[s].g)
<1>1. ASSUME NEW l, Goto(s, l), Calm(l) PROVE CallFrame(s, call[s].g)
  BY <1>1, GotoFrame, LabelKinds DEF Calm
<1>2. ASSUME Finish(s) PROVE CallFrame(s, call[s].g)
  <2>1. call' = [call EXCEPT ![s] = call'[s]] /\ call'[s] = Idle
    BY <1>2 DEF Finish, CallsOK
  <2>2. /\ Idle.at = "idle" /\ Idle.i \notin Intents /\ There(Idle.g)
    BY SessionAssumption DEF Idle, There
  <2>3. Calm("idle")
    BY LabelKinds
  <2> QED BY <2>1, <2>2, <2>3, MoveFrame
<1> QED BY <1>1, <1>2

-----------------------------------------------------------------------------
(* Every step has a frame. *)
LEMMA MoneyBackFrames ==
    ASSUME TInv, NEW s \in Slots,
           \/ OrphanRecorded(s) \/ OrphanHold(s) \/ OrphanCancel(s)
           \/ RefundStep(s) \/ RefundFails(s) \/ RefundRow(s)
           \/ RefundSession(s) \/ RefundLive(s) \/ RefundCancel(s)
    PROVE  Frame(s, call[s].g)
<1>0. SessionOK /\ LedgerOK /\ StripeOK /\ CallsOK
  BY DEF TInv, DataOK
<1> USE DEF At, MoneyBackLabels
<1>k. call[s].i \in Intents
  BY <1>0, KnowsOK, LabelTable
     DEF Needs, OrphanRecorded, OrphanHold, OrphanCancel, RefundStep, RefundFails,
     RefundRow, RefundSession, RefundLive, RefundCancel
<1>1. CASE OrphanRecorded(s)
  BY <1>0, <1>1, SameFrame, CalmFrame, LabelKinds DEF OrphanRecorded, Frame
<1>2. CASE OrphanHold(s)
  BY <1>0, <1>2, SameFrame, CalmFrame, LabelKinds DEF OrphanHold, Frame
<1>3. CASE OrphanCancel(s)
  BY <1>0, <1>k, <1>3, SameFrame, CalmFrame, IntentFrame DEF OrphanCancel, Frame
<1>4. CASE RefundStep(s)
  BY <1>0, <1>k, <1>4, SameFrame, CalmFrame, IntentFrame, LabelKinds DEF RefundStep, Frame
<1>5. CASE RefundFails(s)
  BY <1>0, <1>5, SameFrame, CalmFrame DEF RefundFails, Frame
<1>6. CASE RefundRow(s)
  BY <1>0, <1>k, <1>6, SameFrame, CalmFrame, RowFrame, LabelKinds DEF RefundRow, Frame
<1>7. CASE RefundSession(s)
  BY <1>0, <1>7, SameFrame, CalmFrame, LabelKinds DEF RefundSession, Frame
<1>8. CASE RefundLive(s)
  BY <1>0, <1>8, SameFrame, CalmFrame, LabelKinds DEF RefundLive, Frame
<1>9. CASE RefundCancel(s)
  <2>1. SessionFrame(call[s].g)
    <3>1. CASE session[call[s].g].st = "active"
      <4>1. Moves(s)
        BY <1>0, <1>9, MoverIs DEF RefundCancel
      <4>2. Ender({"release.cancel", "refund.cancel"}, call[s].g)
        BY <1>9, <4>1 DEF RefundCancel, Ender
      <4> QED BY <1>0, <1>9, <3>1, <4>2, StatusFrame DEF RefundCancel, Statuses
    <3>2. CASE session[call[s].g].st # "active"
      BY <1>9, <3>2, SameFrame DEF RefundCancel
    <3> QED BY <3>1, <3>2
  <2> QED BY <1>0, <1>9, <2>1, SameFrame, CalmFrame DEF RefundCancel, Frame
<1> QED
  BY <1>1, <1>2, <1>3, <1>4, <1>5, <1>6, <1>7, <1>8, <1>9

(* A canceller goes on, and may still put the session back. *)
LEMMA CancellingFrame ==
    ASSUME CallsOK, NEW s \in Slots, call[s].at \in CancellingLabels
    PROVE  /\ \A l \in CancellingLabels : Goto(s, l) => CallFrame(s, call[s].g)
           /\ \A l \in CancellingLabels, i \in Intents :
                 Live(i) /\ (\/ call' = [call EXCEPT ![s].at = l, ![s].i = i]
                             \/ call' = [call EXCEPT ![s].at = l, ![s].i = i,
                                                     ![s].row = TRUE])
                     => CallFrame(s, call[s].g)
<1>1. \A l \in CancellingLabels : l \notin ConfirmingLabels \cup AcceptLabels \cup RequestLabels
  BY LabelKinds
<1>2. ASSUME NEW l \in CancellingLabels, Goto(s, l) PROVE CallFrame(s, call[s].g)
  BY <1>1, <1>2, GotoFrame
<1>3. ASSUME NEW l \in CancellingLabels, NEW i \in Intents, Live(i),
             \/ call' = [call EXCEPT ![s].at = l, ![s].i = i]
             \/ call' = [call EXCEPT ![s].at = l, ![s].i = i, ![s].row = TRUE]
      PROVE  CallFrame(s, call[s].g)
  <2>1. /\ \A t \in Slots : t # s => call'[t] = call[t]
        /\ call'[s].i = i /\ call'[s].g = call[s].g /\ call'[s].at = l
    BY <1>3 DEF CallsOK, Run
  <2> QED BY <1>1, <1>3, <2>1 DEF CallFrame
<1> QED BY <1>2, <1>3

(* cancelIndividualAppointment. *)
LEMMA CancelFrames ==
    ASSUME TInv, Known, NEW s \in Slots,
           \/ CancelParked(s) \/ CancelPayment(s) \/ CancelRelease(s)
           \/ CancelReleaseFails(s) \/ CancelProbe(s) \/ CancelReleased(s)
           \/ CancelRefund(s) \/ CancelRefundFails(s) \/ CancelRow(s)
           \/ CancelBooked(s) \/ CancelRestore(s)
    PROVE  Frame(s, call[s].g)
<1>0. SessionOK /\ LedgerOK /\ StripeOK /\ CallsOK
  BY DEF TInv, DataOK
<1> USE DEF At, CancellingLabels, CancelledLabels
<1>1. CASE CancelParked(s)
  <2>1. \A i \in Parked(call[s].g) : i \in Intents /\ Live(i)
    BY DEF Parked, RowsOf, Known, Recorded
  <2>2. CallFrame(s, call[s].g)
    BY <1>0, <1>1, <2>1, CancellingFrame DEF CancelParked
  <2> QED BY <1>1, <2>2, SameFrame DEF CancelParked, Frame
<1>2. CASE CancelPayment(s)
  <2>1. \A i \in RowsOf(call[s].g, {"completed", "pending"}) : i \in Intents /\ Live(i)
    BY DEF RowsOf, Known, Recorded
  <2>2. \/ Finish(s) \/ Goto(s, "cancel.restore") \/ Goto(s, "cancel.release")
        \/ \E i \in RowsOf(call[s].g, {"completed", "pending"}) :
              call' = [call EXCEPT ![s].at = "cancel.refund", ![s].i = i]
    BY <1>2 DEF CancelPayment
  <2>3. call[s].at \in CancellingLabels
    BY <1>2 DEF CancelPayment
  <2>4. CallFrame(s, call[s].g)
    BY <1>0, <2>1, <2>2, <2>3, CancellingFrame, CalmFrame
  <2> QED BY <1>2, <2>4, SameFrame DEF CancelPayment, Frame
<1>k. \/ CancelRelease(s) \/ CancelReleaseFails(s) \/ CancelProbe(s) \/ CancelReleased(s)
      \/ CancelRefund(s) \/ CancelRefundFails(s) \/ CancelRow(s) \/ CancelBooked(s)
      => call[s].i \in Intents
  BY <1>0, KnowsOK, LabelTable
     DEF Needs, CancelRelease, CancelReleaseFails, CancelProbe, CancelReleased,
     CancelRefund, CancelRefundFails, CancelRow, CancelBooked
<1>3. CASE CancelRelease(s)
  BY <1>0, <1>k, <1>3, SameFrame, CalmFrame, CancellingFrame, IntentFrame, LabelKinds
     DEF CancelRelease, Frame
<1>4. CASE CancelReleaseFails(s)
  BY <1>0, <1>4, SameFrame, CancellingFrame DEF CancelReleaseFails, Frame
<1>5. CASE CancelProbe(s)
  BY <1>0, <1>5, SameFrame, CalmFrame, CancellingFrame, LabelKinds DEF CancelProbe, Frame
<1>6. CASE CancelReleased(s)
  BY <1>0, <1>k, <1>6, SameFrame, CalmFrame, RowFrame DEF CancelReleased, Frame
<1>7. CASE CancelRefund(s)
  BY <1>0, <1>k, <1>7, SameFrame, CalmFrame, CancellingFrame, IntentFrame, LabelKinds
     DEF CancelRefund, Frame
<1>8. CASE CancelRefundFails(s)
  BY <1>0, <1>8, SameFrame, CancellingFrame DEF CancelRefundFails, Frame
<1>9. CASE CancelRow(s)
  BY <1>0, <1>k, <1>9, SameFrame, CalmFrame, RowFrame, LabelKinds DEF CancelRow, Frame
<1>10. CASE CancelBooked(s)
  BY <1>0, <1>k, <1>10, SameFrame, CalmFrame, RowFrame DEF CancelBooked, Frame
<1>11. CASE CancelRestore(s)
  <2>0. call'[s].at \notin Undecided
    <3>1. call'[s].at = "idle"
      BY <1>0, <1>11 DEF CancelRestore, Finish, CallsOK, Idle
    <3> QED BY <3>1, LabelKinds DEF Calm, Undecided
  <2>1. SessionFrame(call[s].g)
    BY <1>0, <1>11, <2>0, SameFrame, StatusFrame DEF CancelRestore, MoveSession, Statuses
  <2> QED BY <1>0, <1>11, <2>1, SameFrame, CalmFrame DEF CancelRestore, Frame
<1> QED
  BY <1>1, <1>2, <1>3, <1>4, <1>5, <1>6, <1>7, <1>8, <1>9, <1>10, <1>11

(* sweepExpiredSessionHolds. *)
LEMMA HoldFrames ==
    ASSUME TInv, Known, NEW s \in Slots,
           \/ HoldParked(s) \/ HoldClear(s) \/ HoldClose(s) \/ HoldClaim(s)
           \/ HoldRelease(s) \/ HoldReleaseFails(s) \/ HoldProbe(s)
           \/ HoldReleased(s) \/ HoldRow(s) \/ HoldBooked(s) \/ HoldStuck(s)
    PROVE  Frame(s, call[s].g)
<1>0. SessionOK /\ LedgerOK /\ StripeOK /\ CallsOK
  BY DEF TInv, DataOK
<1> USE DEF At, HoldLabels
<1>1. CASE HoldParked(s)
  <2>1. \A i \in Parked(call[s].g) : i \in Intents /\ Live(i)
    BY DEF Parked, RowsOf, Known, Recorded
  <2>2. CASE \E l \in {"hold.clear", "hold.close"} : Goto(s, l)
    BY <1>0, <1>1, <2>2, SameFrame, CalmFrame, LabelKinds DEF HoldParked, Frame
  <2>3. ASSUME NEW i \in Parked(call[s].g),
               call' = [call EXCEPT ![s].at = "hold.claim", ![s].i = i]
        PROVE  Frame(s, call[s].g)
    <3>1. /\ call' = [call EXCEPT ![s] = call'[s]]
          /\ call'[s].at = "hold.claim" /\ call'[s].i = i /\ call'[s].g = call[s].g
      BY <1>0, <2>3 DEF CallsOK, Run
    <3>2. CallFrame(s, call[s].g)
      BY <1>0, <2>1, <3>1, MoveFrame, LabelKinds
    <3> QED BY <1>1, <3>2, SameFrame DEF HoldParked, Frame
  <2> QED BY <1>1, <2>2, <2>3 DEF HoldParked
<1>2. CASE HoldClear(s)
  BY <1>0, <1>2, SameFrame, CalmFrame, StatusFrame DEF HoldClear, Frame
<1>3. CASE HoldClose(s)
  BY <1>0, <1>3, SameFrame, CalmFrame, StatusFrame DEF HoldClose, Frame
<1>4. CASE HoldClaim(s)
  <2>1. SessionFrame(call[s].g)
    BY <1>0, <1>4, SameFrame, StatusFrame DEF HoldClaim, MoveSession, Statuses
  <2> QED BY <1>0, <1>4, <2>1, SameFrame, CalmFrame, LabelKinds DEF HoldClaim, Frame
<1>k. \/ HoldRelease(s) \/ HoldReleaseFails(s) \/ HoldProbe(s) \/ HoldReleased(s)
      \/ HoldRow(s) \/ HoldBooked(s) \/ HoldStuck(s)
      => call[s].i \in Intents
  BY <1>0, KnowsOK, LabelTable
     DEF Needs, HoldRelease, HoldReleaseFails, HoldProbe, HoldReleased, HoldRow,
     HoldBooked, HoldStuck
<1>5. CASE HoldRelease(s)
  BY <1>0, <1>k, <1>5, SameFrame, CalmFrame, IntentFrame, LabelKinds DEF HoldRelease, Frame
<1>6. CASE HoldReleaseFails(s)
  BY <1>0, <1>6, SameFrame, CalmFrame, LabelKinds DEF HoldReleaseFails, Frame
<1>7. CASE HoldProbe(s)
  BY <1>0, <1>k, <1>7, SameFrame, CalmFrame, IntentFrame, LabelKinds DEF HoldProbe, Frame
<1>8. CASE HoldReleased(s)
  BY <1>0, <1>k, <1>8, SameFrame, CalmFrame, RowFrame DEF HoldReleased, Frame
<1>9. CASE HoldRow(s)
  BY <1>0, <1>k, <1>9, SameFrame, CalmFrame, RowFrame, LabelKinds DEF HoldRow, Frame
<1>10. CASE HoldBooked(s)
  BY <1>0, <1>k, <1>10, SameFrame, CalmFrame, RowFrame DEF HoldBooked, Frame
<1>11. CASE HoldStuck(s)
  BY <1>0, <1>k, <1>11, SameFrame, CalmFrame, RowFrame DEF HoldStuck, Frame
<1> QED
  BY <1>1, <1>2, <1>3, <1>4, <1>5, <1>6, <1>7, <1>8, <1>9, <1>10, <1>11

(* A run enters or leaves releaseUncapturedSeatClaim. *)
LEMMA ReleaseFrame ==
    ASSUME CallsOK, NEW s \in Slots
    PROVE  /\ \A ret : Release(s, call[s].i, ret) => CallFrame(s, call[s].g)
           /\ Released(s) => CallFrame(s, call[s].g)
<1>0. Calm("release.read") /\ Calm("failed.withheld")
  BY LabelKinds DEF EventLabels
<1>1. ASSUME NEW ret, Release(s, call[s].i, ret) PROVE CallFrame(s, call[s].g)
  <2>1. /\ call' = [call EXCEPT ![s] = call'[s]]
        /\ call'[s].at = "release.read" /\ call'[s].i = call[s].i
        /\ call'[s].g = call[s].g
    BY <1>1 DEF Release, CallsOK, Run
  <2> QED BY <1>0, <2>1, MoveFrame
<1>2. ASSUME Released(s) PROVE CallFrame(s, call[s].g)
  <2>1. CASE Finish(s)
    BY <2>1, CalmFrame
  <2>2. CASE ~Finish(s)
    <3>1. call[s].ret = "failed.withheld"
      BY <1>2, <2>2 DEF Released, CallsOK, Knows
    <3>2. /\ call' = [call EXCEPT ![s] = call'[s]]
          /\ call'[s].at = "failed.withheld" /\ call'[s].i = call[s].i
          /\ call'[s].g = call[s].g
      BY <1>2, <2>2, <3>1 DEF Released, CallsOK, Run
    <3> QED BY <1>0, <3>2, MoveFrame
  <2> QED BY <2>1, <2>2
<1> QED BY <1>1, <1>2

(* The webhook events. *)
LEMMA EventFrames ==
    ASSUME TInv, Real, NEW s \in Slots,
           \/ ReleaseRead(s) \/ ReleasePaid(s) \/ ReleaseCancel(s)
           \/ FailedRow(s) \/ FailedWithheld(s) \/ WithheldRow(s)
           \/ FailedSession(s) \/ FailedAgain(s)
           \/ SucceededRecorded(s) \/ SucceededDelivered(s) \/ RecordCharge(s)
    PROVE  \E G : Frame(s, G)
<1>0. SessionOK /\ LedgerOK /\ StripeOK /\ CallsOK
  BY DEF TInv, DataOK
<1> USE DEF At, EventLabels
<1>k. call[s].i \in Intents /\ Calm(call[s].at)
  BY <1>0, KnowsOK, LabelTable, LabelKinds
     DEF Needs, ReleaseRead, ReleasePaid, ReleaseCancel, FailedRow, FailedWithheld,
     WithheldRow, FailedSession, FailedAgain, SucceededRecorded,
     SucceededDelivered, RecordCharge
<1>1. CASE ReleaseRead(s)
  BY <1>0, <1>1, SameFrame, CalmFrame, ReleaseFrame, LabelKinds DEF ReleaseRead, Frame
<1>2. CASE ReleasePaid(s)
  BY <1>0, <1>2, SameFrame, CalmFrame, ReleaseFrame, LabelKinds DEF ReleasePaid, Frame
<1>3. CASE ReleaseCancel(s)
  <2>1. call[s].g \in Sessions
    BY <1>0, <1>3, KnowsOK, LabelTable DEF Needs, ReleaseCancel
  <2>2. Exists(call[s].g) => session[call[s].g].st \in {"pending", "active", "cancelled"}
    BY <1>0, <2>1 DEF Exists, SessionOK, Session, SessionStatus
  <2>4. Ender({"release.cancel", "refund.cancel"}, call[s].g)
    <3>1. Moves(s)
      BY <1>0, <1>3, MoverIs DEF ReleaseCancel, Released, CallsOK, Knows, Run, Moves
    <3> QED BY <1>3, <3>1 DEF ReleaseCancel, Ender
  <2>3. SessionFrame(call[s].g)
    BY <1>0, <1>3, <2>2, <2>4, SameFrame, StatusFrame DEF ReleaseCancel, Statuses
  <2> QED BY <1>0, <1>3, <2>3, SameFrame, ReleaseFrame DEF ReleaseCancel, Frame
<1>4. CASE FailedRow(s)
  BY <1>0, <1>k, <1>4, SameFrame, ReleaseFrame, RowFrame DEF FailedRow, Frame
<1>5. CASE FailedWithheld(s)
  <2>1. CASE Goto(s, "failed.again")
    BY <1>0, <1>5, <2>1, SameFrame, CalmFrame, LabelKinds DEF FailedWithheld, Frame
  <2>2. CASE ~Goto(s, "failed.again")
    <3>1. PICK l \in {"withheld.release", "withheld.fail"} :
              call' = [call EXCEPT ![s].g = ledger[call[s].i].g, ![s].at = l]
      BY <1>5, <2>2 DEF FailedWithheld
    <3>2. /\ call' = [call EXCEPT ![s] = call'[s]]
          /\ call'[s].at = l /\ call'[s].i = call[s].i
          /\ call'[s].g = ledger[call[s].i].g
      BY <1>0, <3>1, ZenonT(40) DEF CallsOK, Run
    <3>3. There(call'[s].g) /\ Calm(l)
      BY <1>k, <3>2, LabelKinds DEF Real
    <3>4. CallFrame(s, call[s].g)
      BY <1>0, <3>2, <3>3, MoveFrame
    <3> QED BY <1>5, <3>4, SameFrame DEF FailedWithheld, Frame
  <2> QED BY <2>1, <2>2
<1>6. CASE WithheldRow(s)
  BY <1>0, <1>k, <1>6, SameFrame, CalmFrame, RowFrame, LabelKinds DEF WithheldRow, Frame
<1>7. CASE FailedSession(s)
  BY <1>0, <1>7, SameFrame, CalmFrame, StatusFrame, LabelKinds DEF FailedSession, Frame
<1>8. CASE FailedAgain(s)
  <2>1. CASE Finish(s)
    BY <1>0, <1>8, <2>1, SameFrame, CalmFrame DEF FailedAgain, Frame
  <2>2. CASE ~Finish(s)
    <3>1. /\ call' = [call EXCEPT ![s] = call'[s]]
          /\ call'[s].at = "release.read" /\ call'[s].i = call[s].i
          /\ call'[s].g = stripe[call[s].i].g
      BY <1>0, <1>8, <2>2 DEF FailedAgain, CallsOK, Run
    <3>2. There(call'[s].g) /\ Calm("release.read")
      BY <1>k, <3>1, LabelKinds DEF Real
    <3>3. CallFrame(s, call[s].g)
      BY <1>0, <3>1, <3>2, MoveFrame
    <3> QED BY <1>8, <3>3, SameFrame DEF FailedAgain, Frame
  <2> QED BY <2>1, <2>2
<1>9. CASE SucceededRecorded(s)
  BY <1>0, <1>9, SameFrame, CalmFrame, LabelKinds DEF SucceededRecorded, Frame
<1>10. CASE SucceededDelivered(s)
  BY <1>0, <1>10, SameFrame, CalmFrame, LabelKinds DEF SucceededDelivered, Frame
<1>11. CASE RecordCharge(s)
  <2> DEFINE i == call[s].i
             G == stripe[i].g
  <2>1. CallFrame(s, G)
    <3>1. call' = [call EXCEPT ![s] = call'[s]] /\ call'[s] = Idle
      BY <1>0, <1>11 DEF RecordCharge, Finish, CallsOK
    <3>2. /\ Idle.at = "idle" /\ Idle.i \notin Intents /\ There(Idle.g)
      BY SessionAssumption DEF Idle, There
    <3>3. Calm("idle") /\ call[s].at \notin Undecided
      BY <1>k, LabelKinds DEF Calm, Undecided
    <3> QED BY <1>0, <3>1, <3>2, <3>3, MoveFrame
  <2>2. CASE Recorded(i)
    BY <1>11, <2>1, <2>2, SameFrame DEF RecordCharge, Frame
  <2>3. CASE ~Recorded(i)
    <3>1. ledger' = [ledger EXCEPT ![i].charge = "completed", ![i].g = G]
      BY <1>11, <2>3 DEF RecordCharge, InsertCharge
    <3>2. /\ ledger'[i].g = G /\ ledger'[i].charge = "completed"
          /\ \A j \in Intents : j # i => ledger'[j] = ledger[j]
      BY <1>0, <1>k, <3>1 DEF LedgerOK, Ledger
    <3>3. RowAdded(i, G)
      BY <2>3, <3>2 DEF RowAdded
    <3>4. LedgerFrame(G)
      BY <1>k, <3>2, <3>3 DEF LedgerFrame
    <3> QED BY <1>11, <2>1, <3>4, SameFrame DEF RecordCharge, Frame
  <2> QED BY <2>2, <2>3
<1> QED
  BY <1>1, <1>2, <1>3, <1>4, <1>5, <1>6, <1>7, <1>8, <1>9, <1>10, <1>11

(* sweepPendingSeminarPayments, sweepOrphanedBookingIntents. *)
LEMMA SweepFrames ==
    ASSUME TInv, NEW s \in Slots,
           \/ SweepAuthorized(s) \/ SweepProcessing(s) \/ SweepEnrolled(s)
           \/ SweepSettle(s) \/ SweepCancel(s) \/ SweepReleased(s)
           \/ SweepRefused(s) \/ StrayCancel(s) \/ StrayDelivered(s)
           \/ StrayRefund(s) \/ StrayRow(s)
    PROVE  Frame(s, call[s].g)
<1>0. SessionOK /\ LedgerOK /\ StripeOK /\ CallsOK
  BY DEF TInv, DataOK
<1> USE DEF At, SweepLabels
<1>k. call[s].i \in Intents
  BY <1>0, KnowsOK, LabelTable
     DEF Needs, SweepAuthorized, SweepProcessing, SweepEnrolled, SweepSettle,
     SweepCancel, SweepReleased, SweepRefused, StrayCancel, StrayDelivered,
     StrayRefund, StrayRow
<1>1. CASE SweepAuthorized(s)
  BY <1>0, <1>1, SameFrame, CalmFrame, LabelKinds DEF SweepAuthorized, Frame
<1>2. CASE SweepProcessing(s)
  BY <1>0, <1>2, SameFrame, CalmFrame, LabelKinds DEF SweepProcessing, Frame
<1>3. CASE SweepEnrolled(s)
  BY <1>0, <1>3, SameFrame, CalmFrame, LabelKinds DEF SweepEnrolled, Frame
<1>4. CASE SweepSettle(s)
  BY <1>0, <1>k, <1>4, SameFrame, CalmFrame, RowFrame DEF SweepSettle, Frame
<1>5. CASE SweepCancel(s)
  BY <1>0, <1>k, <1>5, SameFrame, CalmFrame, IntentFrame, LabelKinds DEF SweepCancel, Frame
<1>6. CASE SweepReleased(s)
  BY <1>0, <1>k, <1>6, SameFrame, CalmFrame, ReleaseFrame, RowFrame DEF SweepReleased, Frame
<1>7. CASE SweepRefused(s)
  BY <1>0, <1>7, SameFrame, CalmFrame DEF SweepRefused, Frame
<1>8. CASE StrayCancel(s)
  BY <1>0, <1>k, <1>8, SameFrame, CalmFrame, ReleaseFrame, IntentFrame DEF StrayCancel, Frame
<1>9. CASE StrayDelivered(s)
  BY <1>0, <1>9, SameFrame, CalmFrame, LabelKinds DEF StrayDelivered, Frame, EventLabels
<1>10. CASE StrayRefund(s)
  BY <1>0, <1>k, <1>10, SameFrame, CalmFrame, IntentFrame, LabelKinds DEF StrayRefund, Frame
<1>11. CASE StrayRow(s)
  BY <1>0, <1>k, <1>11, SameFrame, CalmFrame, RowFrame DEF StrayRow, Frame
<1> QED
  BY <1>1, <1>2, <1>3, <1>4, <1>5, <1>6, <1>7, <1>8, <1>9, <1>10, <1>11

(* A run goes on within the handler of a request or of accepting. *)
LEMMA BookingFrame ==
    ASSUME CallsOK, NEW s \in Slots, BookingStep(s),
           NEW l \in RequestLabels \cup AcceptLabels,
           l \in ConfirmingLabels => call[s].at \in ConfirmingLabels
    PROVE  /\ Goto(s, l) => CallFrame(s, call[s].g)
           /\ /\ call' = [call EXCEPT ![s] = call'[s]]
              /\ call'[s].at = l /\ call'[s].g = call[s].g
              /\ call'[s].i = call[s].i \/ Live(call'[s].i)
              => CallFrame(s, call[s].g)
<1>1. l \notin CancellingLabels
  BY LabelKinds
<1>2. Goto(s, l) => CallFrame(s, call[s].g)
  BY <1>1, GotoFrame
<1>3. ASSUME call' = [call EXCEPT ![s] = call'[s]],
             call'[s].at = l, call'[s].g = call[s].g,
             call'[s].i = call[s].i \/ Live(call'[s].i)
      PROVE  CallFrame(s, call[s].g)
  <2>1. \A t \in Slots : t # s => call'[t] = call[t]
    BY <1>3 DEF CallsOK
  <2> QED BY <1>1, <1>3, <2>1 DEF CallFrame
<1> QED BY <1>2, <1>3

LEMMA InsertFrame ==
    ASSUME LedgerOK, NEW s \in Slots, call[s].i \in Intents, ~Recorded(call[s].i),
           NEW st, InsertCharge(call[s].i, call[s].g, st),
           call[s].at \in BookLabels \cup {"accept.insert", "accept.append"},
           st = "withheld" => At(s, "request.park"), Moves(s)
    PROVE  LedgerFrame(call[s].g)
<1> DEFINE i == call[s].i
           G == call[s].g
<1>1. /\ ledger'[i].g = G /\ ledger'[i].charge = st
      /\ \A j \in Intents : j # i => ledger'[j] = ledger[j]
  BY DEF InsertCharge, LedgerOK, Ledger
<1>2. /\ Someone(BookLabels \cup {"accept.insert", "accept.append"}, i, G)
      /\ st = "withheld" => Someone({"request.park"}, i, G)
  BY DEF Someone, At
<1>3. RowAdded(i, G)
  BY <1>1, <1>2 DEF RowAdded
<1> HIDE DEF i, G
<1>4. LedgerFrame(G)
  <2>1. i \in Intents BY DEF i
  <2> QED BY <1>1, <1>3, <2>1 DEF LedgerFrame
<1> QED BY <1>4 DEF G

(* createGroupChatByUser. *)
LEMMA RequestFrames ==
    ASSUME TInv, Real, NEW s \in Slots,
           \/ RequestConsumed(s) \/ RequestProbe(s) \/ RequestCreate(s)
           \/ RequestRejected(s) \/ RequestFail(s) \/ RequestPark(s)
           \/ RequestParkFails(s) \/ RequestAbort(s) \/ RequestRollback(s)
           \/ RequestDeadline(s) \/ RequestAppend(s)
    PROVE  \E G : Frame(s, G)
<1>0. SessionOK /\ LedgerOK /\ StripeOK /\ CallsOK /\ BookingStep(s)
  BY DEF TInv, DataOK, BookingStep
<1>l. \A l \in RequestLabels : l \notin ConfirmingLabels
  BY LabelKinds
<1> USE DEF At, RequestLabels
<1>k. call[s].i \in Intents \/ At(s, "request.create")
  BY <1>0, KnowsOK, LabelTable
     DEF Needs, RequestConsumed, RequestProbe, RequestCreate, RequestRejected,
     RequestFail, RequestPark, RequestParkFails, RequestAbort, RequestRollback,
     RequestDeadline, RequestAppend
<1>1. CASE RequestConsumed(s)
  BY <1>0, <1>l, <1>1, SameFrame, CalmFrame, BookingFrame DEF RequestConsumed, Frame
<1>2. CASE RequestProbe(s)
  <2>1. CASE Finish(s)
    BY <1>0, <1>2, <2>1, SameFrame, CalmFrame DEF RequestProbe, Frame
  <2>2. CASE ~Finish(s)
    <3>1. /\ call' = [call EXCEPT ![s] = call'[s]]
          /\ call'[s].at = "request.create" /\ call'[s].g = call[s].g
          /\ call'[s].i = call[s].i
      BY <1>0, <1>2, <2>2 DEF RequestProbe, CallsOK, Run
    <3>2. CallFrame(s, call[s].g)
      BY <1>0, <1>l, <3>1, BookingFrame
    <3> QED BY <1>2, <3>2, SameFrame DEF RequestProbe, Frame
  <2> QED BY <2>1, <2>2
<1>3. CASE RequestCreate(s)
  <2>1. PICK g \in Sessions :
            /\ session[g].st = "none"
            /\ NewSession(g, "student",
                   IF call[s].i = NoIntent /\ Charged THEN "wallet" ELSE "card",
                   IF call[s].pays = "none" THEN "set" ELSE "none", "none")
            /\ \/ Finish(s)
               \/ \E l \in {"request.park", "request.append"} :
                     call' = [call EXCEPT ![s].at = l, ![s].g = g]
    BY <1>0, <1>3 DEF RequestCreate
  <2>2. /\ \A h \in Sessions : h # g => session'[h] = session[h]
        /\ session'[g].st = "pending"
        /\ session'[g].mode = IF call[s].i = NoIntent /\ Charged THEN "wallet" ELSE "card"
    BY <1>0, <2>1 DEF NewSession, SessionOK
  <2>3. call[s].i \in Intents \cup {NoIntent} /\ At(s, "request.create")
    BY <1>0, <1>3 DEF RequestCreate, CallsOK, Run
  <2>4. SessionFrame(g)
    BY <1>0, <2>1, <2>2, <2>3, OneSession DEF Statuses
  <2>5. call[s].at \notin Undecided
    BY <2>3, LabelKinds DEF Undecided
  <2>6. CASE Finish(s)
    <3>1. call' = [call EXCEPT ![s] = call'[s]] /\ call'[s] = Idle
      BY <1>0, <2>6 DEF Finish, CallsOK
    <3>2. Idle.at = "idle" /\ Idle.i \notin Intents /\ There(Idle.g) /\ Calm("idle")
      BY SessionAssumption, LabelKinds DEF Idle, There
    <3>3. CallFrame(s, g)
      BY <1>0, <2>5, <3>1, <3>2, MoveFrame
    <3> QED BY <1>3, <2>4, <3>3, SameFrame DEF RequestCreate, Frame
  <2>7. CASE ~Finish(s)
    <3>1. PICK l \in {"request.park", "request.append"} :
              call' = [call EXCEPT ![s].at = l, ![s].g = g]
      BY <2>1, <2>7
    <3>2. /\ \A t \in Slots : t # s => call'[t] = call[t]
          /\ call'[s].at = l /\ call'[s].g = g /\ call'[s].i = call[s].i
      BY <1>0, <3>1 DEF CallsOK, Run
    <3>3. l \notin ConfirmingLabels \cup CancellingLabels
      BY LabelKinds
    <3>4. CallFrame(s, g)
      BY <1>0, <2>2, <2>5, <3>2, <3>3 DEF CallFrame
    <3> QED BY <1>3, <2>4, <3>4, SameFrame DEF RequestCreate, Frame
  <2> QED BY <2>6, <2>7
<1>4. CASE RequestRejected(s)
  <2>1. \/ Finish(s) \/ Goto(s, "request.fail") \/ Goto(s, "refund")
    BY <1>4 DEF RequestRejected
  <2>2. CallFrame(s, call[s].g)
    BY <1>0, <1>l, <2>1, CalmFrame, BookingFrame, LabelKinds DEF MoneyBackLabels
  <2> QED BY <1>4, <2>2, SameFrame DEF RequestRejected, Frame
<1>5. CASE RequestFail(s)
  BY <1>0, <1>k, <1>5, SameFrame, CalmFrame, IntentFrame DEF RequestFail, Frame
<1>6. CASE RequestPark(s)
  <2>1. CallFrame(s, call[s].g)
    BY <1>0, <1>l, <1>6, BookingFrame DEF RequestPark
  <2>2. LedgerFrame(call[s].g)
    <3>1. CASE Recorded(call[s].i)
      BY <1>6, <3>1, SameFrame DEF RequestPark
    <3>2. CASE ~Recorded(call[s].i)
      <4>1. InsertCharge(call[s].i, call[s].g, "withheld") /\ call[s].i \in Intents
        BY <1>k, <1>6, <3>2 DEF RequestPark
      <4>2. call[s].at \in BookLabels \cup {"accept.insert", "accept.append"}
        BY <1>6 DEF RequestPark, BookLabels
      <4>3. At(s, "request.park") /\ Moves(s)
        BY <1>0, <1>6, <3>2, MoverIs DEF RequestPark
      <4> QED BY <1>0, <3>2, <4>1, <4>2, <4>3, InsertFrame
    <3> QED BY <3>1, <3>2
  <2> QED BY <1>6, <2>1, <2>2, SameFrame DEF RequestPark, Frame
<1>7. CASE RequestParkFails(s)
  BY <1>0, <1>l, <1>7, SameFrame, BookingFrame DEF RequestParkFails, Frame
<1>8. CASE RequestAbort(s)
  BY <1>0, <1>k, <1>l, <1>8, SameFrame, BookingFrame, IntentFrame DEF RequestAbort, Frame
<1>9. CASE RequestRollback(s)
  <2>1. call[s].g \in Sessions => session[call[s].g].st # "none"
    BY DEF Real, There
  <2>2. call[s].g \in Sessions
    BY <1>0, <1>9, KnowsOK, LabelTable DEF Needs, RequestRollback, ParkLabels
  <2>4. Ender({"request.rollback"}, call[s].g)
    <3>1. Moves(s)
      BY <1>0, <1>9, MoverIs DEF RequestRollback
    <3> QED BY <1>9, <3>1 DEF RequestRollback, Ender
  <2>3. SessionFrame(call[s].g)
    BY <1>0, <1>9, <2>1, <2>2, <2>4, StatusFrame DEF RequestRollback, Statuses
  <2> QED BY <1>0, <1>9, <2>3, SameFrame, CalmFrame DEF RequestRollback, Frame
<1>10. CASE RequestDeadline(s)
  BY <1>0, <1>10, SameFrame, CalmFrame, StatusFrame DEF RequestDeadline, Frame
<1>11. CASE RequestAppend(s)
  <2>1. LedgerFrame(call[s].g)
    <3>1. CASE Recorded(call[s].i)
      BY <1>11, <3>1, SameFrame DEF RequestAppend
    <3>2. CASE ~Recorded(call[s].i)
      <4>1. InsertCharge(call[s].i, call[s].g, "completed") /\ call[s].i \in Intents
        BY <1>k, <1>11, <3>2 DEF RequestAppend
      <4>2. call[s].at \in BookLabels \cup {"accept.insert", "accept.append"}
        BY <1>11 DEF RequestAppend, BookLabels
      <4>3. LedgerOK /\ Moves(s)
        BY <1>0, <1>11, MoverIs DEF RequestAppend
      <4> DEFINE st == "completed"
      <4>4. st = "withheld" => At(s, "request.park")
        OBVIOUS
      <4> HIDE DEF At, RequestLabels, st
      <4>5. InsertCharge(call[s].i, call[s].g, st)
        BY <4>1 DEF st
      <4> QED BY <3>2, <4>1, <4>2, <4>3, <4>4, <4>5, InsertFrame
    <3> QED BY <3>1, <3>2
  <2> QED BY <1>0, <1>11, <2>1, SameFrame, CalmFrame DEF RequestAppend, Frame
<1> QED
  BY <1>1, <1>2, <1>3, <1>4, <1>5, <1>6, <1>7, <1>8, <1>9, <1>10, <1>11

LEMMA OrphanedFrame ==
    ASSUME CallsOK, NEW s \in Slots
    PROVE  Orphaned(s, call[s].g, call[s].i) => CallFrame(s, call[s].g)
<1>1. CASE Finish(s)
  BY <1>1, CalmFrame
<1>2. ASSUME ~Finish(s), Orphaned(s, call[s].g, call[s].i)
      PROVE  CallFrame(s, call[s].g)
  <2>1. /\ call' = [call EXCEPT ![s] = call'[s]]
        /\ call'[s].at = "orphan.recorded" /\ call'[s].g = call[s].g
        /\ call'[s].i = call[s].i
    BY <1>2 DEF Orphaned, CallsOK, Run
  <2>2. Calm("orphan.recorded")
    BY LabelKinds DEF MoneyBackLabels
  <2> QED BY <2>1, <2>2, MoveFrame
<1> QED BY <1>1, <1>2

(* acceptIndividualAppointment, until the money is moved. *)
LEMMA ReadFrames ==
    ASSUME TInv, Known, NEW s \in Slots,
           \/ AcceptParked(s) \/ AcceptWindow(s) \/ AcceptSecured(s)
           \/ AcceptPaid(s) \/ AcceptConsumed(s) \/ AcceptProbe(s)
           \/ AcceptActivate(s) \/ AcceptActivateFails(s)
    PROVE  Frame(s, call[s].g)
<1>0. SessionOK /\ LedgerOK /\ StripeOK /\ CallsOK /\ BookingStep(s)
  BY DEF TInv, DataOK, BookingStep
<1>l. \A l \in ReadLabels \cup UndoLabels : l \in AcceptLabels /\ l \notin ConfirmingLabels
  BY DEF AcceptLabels, ReadLabels, UndoLabels, ConfirmingLabels
<1> USE DEF At, ReadLabels
<1>1. CASE AcceptParked(s)
  <2>1. \A i \in Parked(call[s].g) : i \in Intents /\ Live(i)
    BY DEF Parked, RowsOf, Known, Recorded
  <2>2. ASSUME NEW l \in {"accept.window", "accept.secured", "accept.activate"}, Goto(s, l)
        PROVE  CallFrame(s, call[s].g)
    BY <1>0, <1>l, <2>2, BookingFrame
  <2>3. ASSUME NEW i \in Parked(call[s].g),
               call' = [call EXCEPT ![s].at = "accept.activate",
                            ![s].i = i, ![s].pays = "held", ![s].row = TRUE]
        PROVE  CallFrame(s, call[s].g)
    <3>1. /\ call' = [call EXCEPT ![s] = call'[s]]
          /\ call'[s].at = "accept.activate" /\ call'[s].g = call[s].g
          /\ call'[s].i = i
      BY <1>0, <2>3 DEF CallsOK, Run
    <3> QED BY <1>0, <1>l, <2>1, <3>1, BookingFrame
  <2>4. \/ Finish(s)
        \/ \E l \in {"accept.window", "accept.secured", "accept.activate"} : Goto(s, l)
        \/ \E i \in Parked(call[s].g) :
              call' = [call EXCEPT ![s].at = "accept.activate",
                           ![s].i = i, ![s].pays = "held", ![s].row = TRUE]
    BY <1>1 DEF AcceptParked
  <2>5. CallFrame(s, call[s].g)
    BY <1>0, <2>2, <2>3, <2>4, CalmFrame
  <2> QED BY <1>1, <2>5, SameFrame DEF AcceptParked, Frame
<1>2. CASE AcceptWindow(s)
  BY <1>0, <1>2, SameFrame, CalmFrame, StatusFrame DEF AcceptWindow, Frame
<1>3. CASE AcceptSecured(s)
  BY <1>0, <1>l, <1>3, SameFrame, CalmFrame, BookingFrame DEF AcceptSecured, Frame
<1>4. CASE AcceptPaid(s)
  BY <1>0, <1>l, <1>4, SameFrame, CalmFrame, BookingFrame, OrphanedFrame DEF AcceptPaid, Frame
<1>5. CASE AcceptConsumed(s)
  BY <1>0, <1>l, <1>5, SameFrame, CalmFrame, BookingFrame DEF AcceptConsumed, Frame
<1>6. CASE AcceptProbe(s)
  <2>1. CASE Finish(s)
    BY <1>0, <1>6, <2>1, SameFrame, CalmFrame DEF AcceptProbe, Frame
  <2>2. CASE ~Finish(s)
    <3>1. /\ call' = [call EXCEPT ![s] = call'[s]]
          /\ call'[s].at = "accept.activate" /\ call'[s].g = call[s].g
          /\ call'[s].i = call[s].i
      BY <1>0, <1>6, <2>2 DEF AcceptProbe, CallsOK, Run
    <3>2. CallFrame(s, call[s].g)
      BY <1>0, <1>l, <3>1, BookingFrame
    <3> QED BY <1>6, <3>2, SameFrame DEF AcceptProbe, Frame
  <2> QED BY <2>1, <2>2
<1>7. CASE AcceptActivate(s)
  <2>0. Moves(s)
    BY <1>0, <1>7, MoverIs DEF AcceptActivate
  <2>1. SessionFrame(call[s].g)
    BY <1>0, <1>7, <2>0, SameFrame, StatusFrame DEF AcceptActivate, Statuses
  <2>2. \/ Finish(s) \/ Goto(s, "refund") \/ Goto(s, "accept.undo")
        \/ Goto(s, "accept.append")
        \/ /\ call[s].pays = "held"
           /\ Goto(s, "accept.collect") \/ Goto(s, "accept.insert")
    BY <1>7 DEF AcceptActivate
  <2>3. ASSUME call[s].pays = "held", NEW l \in ConfirmingLabels, Goto(s, l)
        PROVE  CallFrame(s, call[s].g)
    <3>1. /\ \A t \in Slots : t # s => call'[t] = call[t]
          /\ call'[s].at = l /\ call'[s].g = call[s].g /\ call'[s].i = call[s].i
      BY <1>0, <2>3 DEF Goto, CallsOK, Run
    <3>2. l \notin CancellingLabels /\ call[s].at = "accept.activate"
      BY <1>7, LabelKinds DEF AcceptActivate
    <3> QED BY <1>0, <2>3, <3>1, <3>2 DEF CallFrame
  <2>4. "accept.collect" \in ConfirmingLabels /\ "accept.insert" \in ConfirmingLabels
    BY DEF ConfirmingLabels
  <2>5. "accept.append" \in AcceptLabels \ ConfirmingLabels /\ "accept.undo" \in UndoLabels
    BY DEF AcceptLabels, ConfirmedLabels, ConfirmingLabels, UndoLabels
  <2>6. CallFrame(s, call[s].g)
    BY <1>0, <1>l, <2>2, <2>3, <2>4, <2>5, CalmFrame, BookingFrame, LabelKinds DEF MoneyBackLabels
  <2> QED BY <1>7, <2>1, <2>6, SameFrame DEF AcceptActivate, Frame
<1>8. CASE AcceptActivateFails(s)
  <2>1. CASE Finish(s) \/ Goto(s, "refund")
    BY <1>0, <1>8, <2>1, SameFrame, CalmFrame, LabelKinds
       DEF AcceptActivateFails, Frame, MoneyBackLabels
  <2>2. CASE ~(Finish(s) \/ Goto(s, "refund"))
    <3>0. call' = [call EXCEPT ![s].at = "accept.undo", ![s].row = FALSE]
      BY <1>8, <2>2 DEF AcceptActivateFails
    <3>1. /\ call' = [call EXCEPT ![s] = call'[s]]
          /\ call'[s].at = "accept.undo" /\ call'[s].g = call[s].g
          /\ call'[s].i = call[s].i
      BY <1>0, <3>0, ZenonT(40) DEF CallsOK, Run
    <3>2. CallFrame(s, call[s].g)
      BY <1>0, <1>l, <3>1, BookingFrame DEF UndoLabels
    <3> QED BY <1>8, <3>2, SameFrame DEF AcceptActivateFails, Frame
  <2> QED BY <2>1, <2>2
<1> QED BY <1>1, <1>2, <1>3, <1>4, <1>5, <1>6, <1>7, <1>8

(* captureBookingHold, captureParkedHold and what follows them. *)
LEMMA ConfirmFrames ==
    ASSUME TInv, Captures, NEW s \in Slots,
           \/ AcceptUndo(s) \/ AcceptUndoRow(s) \/ AcceptInsert(s)
           \/ AcceptInsertFails(s) \/ AcceptAbort(s) \/ AcceptCapture(s)
           \/ AcceptNotCaptured(s) \/ AcceptCapProbe(s) \/ AcceptCapCancel(s)
           \/ AcceptCapStuck(s) \/ AcceptCapDelete(s) \/ AcceptRestore(s)
           \/ AcceptRowFail(s) \/ AcceptBook(s) \/ AcceptBookLost(s)
           \/ AcceptAppend(s)
    PROVE  Frame(s, call[s].g)
<1>0. SessionOK /\ LedgerOK /\ StripeOK /\ CallsOK /\ BookingStep(s)
  BY DEF TInv, DataOK, BookingStep
<1>l. \A l \in UndoLabels \cup ConfirmingLabels \cup ConfirmedLabels : l \in AcceptLabels
  BY DEF AcceptLabels
<1>m. \A l \in UndoLabels \cup ConfirmedLabels : l \notin ConfirmingLabels
  BY DEF UndoLabels, ConfirmedLabels, ConfirmingLabels
<1> USE DEF At, UndoLabels, ConfirmingLabels, ConfirmedLabels
<1>k. call[s].i \in Intents
  BY <1>0, KnowsOK, LabelTable
     DEF Needs, AcceptUndo, AcceptUndoRow, AcceptInsert, AcceptInsertFails,
     AcceptAbort, AcceptCapture, AcceptNotCaptured, AcceptCapProbe,
     AcceptCapCancel, AcceptCapStuck, AcceptCapDelete, AcceptRestore,
     AcceptRowFail, AcceptBook, AcceptBookLost, AcceptAppend
<1>1. CASE AcceptUndo(s)
  BY <1>0, <1>k, <1>l, <1>m, <1>1, SameFrame, CalmFrame, BookingFrame, IntentFrame
     DEF AcceptUndo, Frame
<1>2. CASE AcceptUndoRow(s)
  BY <1>0, <1>k, <1>2, SameFrame, CalmFrame, RowFrame DEF AcceptUndoRow, Frame
<1>3. CASE AcceptInsert(s)
  <2>1. LedgerFrame(call[s].g)
    <3>1. CASE Recorded(call[s].i)
      BY <1>3, <3>1, SameFrame DEF AcceptInsert
    <3>2. CASE ~Recorded(call[s].i)
      <4>1. InsertCharge(call[s].i, call[s].g, "pending")
        BY <1>3, <3>2 DEF AcceptInsert
      <4>2. call[s].at \in BookLabels \cup {"accept.insert", "accept.append"}
        BY <1>3 DEF AcceptInsert
      <4>3. LedgerOK /\ "pending" # "withheld" /\ Moves(s)
        BY <1>0, <1>3, <3>2, MoverIs DEF AcceptInsert
      <4> HIDE DEF At, UndoLabels, ConfirmingLabels, ConfirmedLabels
      <4> QED BY <1>k, <3>2, <4>1, <4>2, <4>3, InsertFrame
    <3> QED BY <3>1, <3>2
  <2>2. CallFrame(s, call[s].g)
    BY <1>0, <1>l, <1>3, BookingFrame DEF AcceptInsert
  <2> QED BY <1>3, <2>1, <2>2, SameFrame DEF AcceptInsert, Frame
<1>4. CASE AcceptInsertFails(s)
  BY <1>0, <1>l, <1>4, SameFrame, BookingFrame DEF AcceptInsertFails, Frame
<1>5. CASE AcceptAbort(s)
  BY <1>0, <1>k, <1>l, <1>5, SameFrame, BookingFrame, IntentFrame DEF AcceptAbort, Frame
<1>6. CASE AcceptCapture(s)
  <2> DEFINE i == call[s].i
             G == call[s].g
  <2>1. ledger[i].g = G
    BY <1>6, <1>l DEF AcceptCapture, Captures, Covered, Booked
  <2>2. Someone({"accept.capture", "accept.collect"}, i, G)
    <3>1. Moves(s)
      BY <1>0, <1>6, MoverIs DEF AcceptCapture
    <3> QED BY <1>6, <3>1 DEF AcceptCapture, Someone
  <2>3. StripeFrame(G)
    BY <1>0, <1>k, <1>6, <2>1, <2>2
       DEF AcceptCapture, Capture, SetIntent, StripeFrame, Settled, StripeOK, Intent
  <2>4. EventsFrame
    <3>1. stripe'[i].st = "succeeded" /\ events' = events \cup {<<"succeeded", i>>}
      BY <1>0, <1>k, <1>6 DEF AcceptCapture, Capture, SetIntent, StripeOK, Intent
    <3> QED BY <3>1 DEF EventsFrame
  <2>5. CallFrame(s, G)
    BY <1>0, <1>l, <1>m, <1>6, BookingFrame DEF AcceptCapture
  <2> QED BY <1>6, <2>3, <2>4, <2>5, SameFrame DEF AcceptCapture, Frame
<1>7. CASE AcceptNotCaptured(s)
  BY <1>0, <1>l, <1>7, SameFrame, BookingFrame DEF AcceptNotCaptured, Frame
<1>8. CASE AcceptCapProbe(s)
  BY <1>0, <1>l, <1>8, SameFrame, BookingFrame DEF AcceptCapProbe, Frame
<1>9. CASE AcceptCapCancel(s)
  BY <1>0, <1>k, <1>l, <1>9, SameFrame, BookingFrame, IntentFrame DEF AcceptCapCancel, Frame
<1>10. CASE AcceptCapStuck(s)
  BY <1>0, <1>l, <1>10, SameFrame, BookingFrame DEF AcceptCapStuck, Frame
<1>11. CASE AcceptCapDelete(s)
  <2>1. /\ ledger'[call[s].i].g = NoSession /\ ledger'[call[s].i].charge = "none"
        /\ \A j \in Intents : j # call[s].i => ledger'[j] = ledger[j]
    BY <1>0, <1>k, <1>11 DEF AcceptCapDelete, InsertCharge, LedgerOK, Ledger
  <2>0. Moves(s)
    BY <1>0, <1>11, MoverIs DEF AcceptCapDelete
  <2>2. RowDeleted(call[s].i)
    BY <1>11, <2>0, <2>1 DEF AcceptCapDelete, RowDeleted, Recorded
  <2>3. LedgerFrame(call[s].g)
    BY <1>k, <2>1, <2>2 DEF LedgerFrame
  <2> QED BY <1>0, <1>l, <1>11, <2>3, SameFrame, BookingFrame DEF AcceptCapDelete, Frame
<1>12. CASE AcceptRestore(s)
  <2>0. call'[s].at \notin Undecided
    <3>1. call'[s].at \in {"accept.rowFail", "idle"}
      BY <1>0, <1>12 DEF AcceptRestore, Goto, Finish, CallsOK, Run, Idle
    <3>2. "accept.rowFail" \notin ConfirmingLabels
      BY <1>m
    <3>3. "accept.rowFail" \notin CancellingLabels /\ "idle" \notin Undecided
      BY <1>l, LabelKinds DEF Calm, Undecided
    <3> HIDE DEF ConfirmingLabels
    <3> QED BY <3>1, <3>2, <3>3 DEF Undecided
  <2>1. SessionFrame(call[s].g)
    BY <1>0, <1>12, <2>0, SameFrame, StatusFrame DEF AcceptRestore, MoveSession, Statuses
  <2> QED
    BY <1>0, <1>l, <1>m, <1>12, <2>1, SameFrame, CalmFrame, BookingFrame DEF AcceptRestore, Frame
<1>13. CASE AcceptRowFail(s)
  BY <1>0, <1>k, <1>13, SameFrame, CalmFrame, RowFrame DEF AcceptRowFail, Frame
<1>14. CASE AcceptBook(s)
  BY <1>0, <1>k, <1>14, SameFrame, CalmFrame, RowFrame DEF AcceptBook, Frame
<1>15. CASE AcceptBookLost(s)
  BY <1>0, <1>15, SameFrame, CalmFrame DEF AcceptBookLost, Frame
<1>16. CASE AcceptAppend(s)
  <2>1. LedgerFrame(call[s].g)
    <3>1. CASE Recorded(call[s].i)
      BY <1>16, <3>1, SameFrame DEF AcceptAppend
    <3>2. CASE ~Recorded(call[s].i)
      <4>1. PICK st \in {"pending", "completed"} : InsertCharge(call[s].i, call[s].g, st)
        BY <1>16, <3>2 DEF AcceptAppend
      <4>2. call[s].at \in BookLabels \cup {"accept.insert", "accept.append"}
        BY <1>16 DEF AcceptAppend
      <4>3. LedgerOK /\ st # "withheld" /\ Moves(s)
        BY <1>0, <1>16, MoverIs DEF AcceptAppend
      <4> HIDE DEF At, UndoLabels, ConfirmingLabels, ConfirmedLabels
      <4> QED BY <1>k, <3>2, <4>1, <4>2, <4>3, InsertFrame
    <3> QED BY <3>1, <3>2
  <2> QED BY <1>0, <1>16, <2>1, SameFrame, CalmFrame DEF AcceptAppend, Frame
<1> QED
  BY <1>1, <1>2, <1>3, <1>4, <1>5, <1>6, <1>7, <1>8, <1>9, <1>10, <1>11, <1>12,
     <1>13, <1>14, <1>15, <1>16

(* A run starts, or no run moves. *)
LEMMA StartFrame ==
    ASSUME CallsOK, NEW s \in Slots, NEW G, At(s, "idle"),
           call' = [call EXCEPT ![s] = call'[s]],
           call'[s].at \notin CancellingLabels \cup ConfirmingLabels,
           call'[s].at \in AcceptLabels \cup RequestLabels => BookingCall(s),
           call'[s].i \in Intents => Live(call'[s].i),
           There(call'[s].g)
    PROVE  CallFrame(s, G)
<1>1. call[s].at \notin Undecided
  BY LabelKinds DEF At, Undecided, Calm
<1>2. \A t \in Slots : t # s => call'[t] = call[t]
  BY DEF CallsOK
<1> QED BY <1>1, <1>2 DEF CallFrame

LEMMA StillFrame ==
    ASSUME UNCHANGED call, NEW G
    PROVE  \E s : CallFrame(s, G)
<1>1. PICK s : s \notin Slots
  BY NoSetContainsEverything
<1> QED BY <1>1 DEF CallFrame

(* Somebody calls a handler. *)
LEMMA CallFrames ==
    ASSUME TInv, NEW s \in Slots, BookingCall(s) \/ EndingCall(s)
    PROVE  \E t, G : Frame(t, G)
<1>0. SessionOK /\ LedgerOK /\ StripeOK /\ CallsOK
  BY DEF TInv, DataOK
<1>c. At(s, "idle") /\ call[s] \in Run(Labels)
  BY <1>0 DEF BookingCall, EndingCall, Propose, Request, AcceptAsExpert,
     AcceptAsStudent, Cancel, Calling, CallsOK
<1>l. /\ \A l \in RequestLabels \cup ReadLabels : l \notin CancellingLabels \cup ConfirmingLabels
      /\ \A l \in MoneyBackLabels \cup {"idle"} : Calm(l)
  BY LabelKinds DEF AcceptLabels, RequestLabels, ReadLabels, ConfirmingLabels
<1>i. call[s].i \notin Intents /\ There(call[s].g)
  BY <1>0, <1>c, FreeSlot, SessionAssumption DEF Idle, There
<1>1. CASE Propose(s)
  <2>1. PICK g \in Sessions :
            /\ session[g].st = "none"
            /\ \E p : NewSession(g, "expert", "card", "none", p)
    BY <1>1 DEF Propose
  <2>2. /\ \A h \in Sessions : h # g => session'[h] = session[h]
        /\ session'[g].st = "pending" /\ session'[g].by = "expert"
    BY <1>0, <2>1 DEF NewSession, SessionOK
  <2>3. SessionFrame(g)
    BY <1>0, <2>1, <2>2, OneSession DEF Statuses
  <2> QED BY <1>1, <2>3, SameFrame, StillFrame DEF Propose, Frame
<1>2. ASSUME NEW i \in Intents \cup {NoIntent}, Request(s, i) PROVE \E G : Frame(s, G)
  <2>1. PICK l \in {"request.create", "request.consumed"} :
            \/ i = NoIntent /\ call' = [call EXCEPT ![s].at = l]
            \/ Live(i) /\ call' = [call EXCEPT ![s].at = l, ![s].i = i]
    BY <1>2 DEF Request, Submittable, Live
  <2>2. call[s].i \notin Intents /\ There(call[s].g)
    BY <1>i
  <2>3. /\ call' = [call EXCEPT ![s] = call'[s]]
        /\ call'[s].at = l /\ call'[s].g = call[s].g
        /\ call'[s].i \in Intents => Live(call'[s].i)
    BY <1>0, <1>c, <2>1, <2>2 DEF CallsOK, Run
  <2>4. BookingCall(s)
    BY <1>2 DEF BookingCall
  <2>5. CallFrame(s, NoSession)
    BY <1>0, <1>c, <1>l, <2>2, <2>3, <2>4, StartFrame DEF RequestLabels
  <2>6. StripeFrame(NoSession)
    BY <1>0, <1>2, SameFrame, IntentFrame DEF Request
  <2> QED BY <1>2, <2>5, <2>6, SameFrame DEF Request, Frame
<1>3. ASSUME NEW g \in Sessions, AcceptAsExpert(s, g) PROVE \E G : Frame(s, G)
  <2>0. PICK lapsed \in BOOLEAN, window \in BOOLEAN :
            call' = [call EXCEPT ![s].at = "accept.parked", ![s].g = g,
                ![s].who = "expert", ![s].lapsed = lapsed, ![s].window = window]
    BY <1>3 DEF AcceptAsExpert
  <2>1. /\ call' = [call EXCEPT ![s] = call'[s]]
        /\ call'[s].at = "accept.parked" /\ call'[s].g = g /\ call'[s].i = call[s].i
    BY <1>0, <1>c, <2>0 DEF CallsOK, Run
  <2>2. call[s].i \notin Intents /\ There(g)
    <3>1. session[g].st = "pending"
      BY <1>3 DEF AcceptAsExpert
    <3> QED BY <1>i, <3>1 DEF There
  <2>3. BookingCall(s)
    BY <1>3 DEF BookingCall
  <2>4. CallFrame(s, NoSession)
    BY <1>0, <1>c, <1>l, <2>1, <2>2, <2>3, StartFrame DEF ReadLabels
  <2> QED BY <1>3, <2>4, SameFrame DEF AcceptAsExpert, Frame
<1>4. ASSUME NEW g \in Sessions, NEW i \in Intents \cup {NoIntent},
             AcceptAsStudent(s, g, i)
      PROVE  \E G : Frame(s, G)
  <2>1. call[s].i \notin Intents /\ There(g) /\ There(NoSession) /\ NoIntent \notin Intents
    BY <1>4, <1>i, SessionAssumption DEF There, AcceptAsStudent
  <2>2. i \in Intents => Live(i)
    BY <1>4, SessionAssumption DEF AcceptAsStudent, Submittable, Live
  <2>3. /\ call' = [call EXCEPT ![s] = call'[s]]
        /\ call'[s].at \in {"idle", "orphan.recorded", "accept.paid"}
        /\ (call'[s].g = g /\ call'[s].i = i) \/ call'[s] = Idle
    <3>1. CASE session[g].st = "pending"
      <4>1. PICK lapsed \in BOOLEAN, window \in BOOLEAN :
                call' = [call EXCEPT ![s].at = "accept.paid", ![s].g = g, ![s].i = i,
                    ![s].who = "student", ![s].lapsed = lapsed, ![s].window = window]
        BY <1>4, <3>1 DEF AcceptAsStudent
      <4> QED BY <1>0, <1>c, <4>1 DEF CallsOK, Run
    <3>2. CASE session[g].st # "pending"
      <4>1. Orphaned(s, g, i)
        BY <1>4, <3>2 DEF AcceptAsStudent
      <4>2. CASE i = NoIntent
        BY <1>0, <4>1, <4>2 DEF Orphaned, Finish, CallsOK, Idle
      <4>3. CASE i # NoIntent
        BY <1>0, <1>c, <4>1, <4>3 DEF Orphaned, CallsOK, Run
      <4> QED BY <4>2, <4>3
    <3> QED BY <3>1, <3>2
  <2>4. /\ call'[s].i \in Intents => Live(call'[s].i)
        /\ There(call'[s].g)
    BY <2>1, <2>2, <2>3 DEF Idle
  <2>5. BookingCall(s)
    BY <1>4 DEF BookingCall
  <2>6. call'[s].at \notin CancellingLabels \cup ConfirmingLabels
    <3>1. "accept.paid" \notin CancellingLabels \cup ConfirmingLabels
      BY <1>l DEF ReadLabels
    <3>2. Calm("orphan.recorded") /\ Calm("idle")
      BY <1>l DEF MoneyBackLabels
    <3> QED BY <2>3, <3>1, <3>2, LabelKinds DEF Calm
  <2>7. CallFrame(s, NoSession)
    BY <1>0, <1>c, <2>3, <2>4, <2>5, <2>6, StartFrame
  <2>8. StripeFrame(NoSession)
    BY <1>0, <1>4, SameFrame, IntentFrame DEF AcceptAsStudent
  <2> QED BY <1>4, <2>7, <2>8, SameFrame DEF AcceptAsStudent, Frame
<1>5. ASSUME NEW g \in Sessions, NEW who \in {"student", "expert"}, Cancel(s, g, who)
      PROVE  \E G : Frame(s, G)
  <2>0. call' = [call EXCEPT ![s].at = "cancel.parked", ![s].g = g, ![s].who = who]
    BY <1>5 DEF Cancel
  <2>1. /\ \A t \in Slots : t # s => call'[t] = call[t]
        /\ call'[s].at = "cancel.parked" /\ call'[s].g = g /\ call'[s].i = call[s].i
    BY <1>0, <1>c, <2>0 DEF CallsOK, Run
  <2>2. There(g) /\ session'[g].st = "cancelled" /\ session[g].st = "pending"
    BY <1>0, <1>5 DEF Cancel, SetSession, SessionOK, Session, There
  <2>3. call[s].at \notin Undecided
    BY <1>c, LabelKinds DEF At, Undecided, Calm
  <2>4. "cancel.parked" \notin ConfirmingLabels \cup AcceptLabels \cup RequestLabels
    BY LabelKinds DEF CancellingLabels
  <2>5. CallFrame(s, g)
    BY <2>1, <2>2, <2>3, <2>4 DEF CallFrame
  <2>6. SessionFrame(g)
    BY <1>0, <1>5, StatusFrame DEF Cancel, Statuses
  <2> QED BY <1>5, <2>5, <2>6, SameFrame DEF Cancel, Frame
<1> QED
  BY <1>1, <1>2, <1>3, <1>4, <1>5 DEF BookingCall, EndingCall

(* Stripe delivers an event, a sweep takes up an intent or a session. *)
LEMMA PickUpFrames ==
    ASSUME TInv, Known, Real, NEW s \in Slots, WebhookStep(s) \/ SweepStep(s)
    PROVE  \E t, G : Frame(t, G)
<1>0. SessionOK /\ LedgerOK /\ StripeOK /\ CallsOK /\ EventsOK
  BY DEF TInv, DataOK
<1>l. \A l \in HoldLabels \cup EventLabels \cup SweepLabels :
          l \notin CancellingLabels \cup ConfirmingLabels \cup AcceptLabels \cup RequestLabels
  BY LabelKinds DEF Calm
<1>1. ASSUME NEW i \in Intents, FailedEvent(s, i) PROVE \E G : Frame(s, G)
  <2>1. PICK kind : <<kind, i>> \in events /\ events' = events \ {<<kind, i>>}
    BY <1>1 DEF FailedEvent
  <2>2. Live(i) /\ EventsFrame
    <3>1. <<kind, i>>[2] = i OBVIOUS
    <3> QED BY <2>1, <3>1 DEF Known, EventsFrame
  <2>3. /\ call' = [call EXCEPT ![s] = call'[s]]
        /\ call'[s].at \in {"failed.row", "failed.withheld"}
        /\ call'[s].i = i /\ call'[s].g = ledger[i].g
    <3>1. PICK l \in {"failed.row", "failed.withheld"}, row \in BOOLEAN :
              call' = [call EXCEPT ![s].i = i, ![s].g = ledger[i].g,
                                   ![s].row = row, ![s].at = l]
      BY <1>1 DEF FailedEvent
    <3> QED BY <1>0, <3>1, ZenonT(40) DEF CallsOK, Run
  <2>4. There(ledger[i].g) /\ At(s, "idle")
    BY <1>1 DEF Real, FailedEvent
  <2>5. CallFrame(s, NoSession)
    BY <1>0, <1>l, <2>2, <2>3, <2>4, StartFrame DEF EventLabels
  <2> QED BY <1>1, <2>2, <2>5, SameFrame DEF FailedEvent, Frame
<1>2. ASSUME NEW i \in Intents, SucceededEvent(s, i) PROVE \E t, G : Frame(t, G)
  <2>1. <<"succeeded", i>> \in events /\ events' = events \ {<<"succeeded", i>>}
    BY <1>2 DEF SucceededEvent
  <2>2. Live(i) /\ EventsFrame
    <3>1. <<"succeeded", i>>[2] = i OBVIOUS
    <3> QED BY <2>1, <3>1 DEF Known, EventsFrame
  <2>3. CASE ledger[i].charge = "pending"
    <3>1. LedgerFrame(NoSession)
      BY <1>0, <1>2, <2>3
         DEF SucceededEvent, SetCharge, LedgerFrame, RowStays, LedgerOK, Ledger, Recorded
    <3> QED BY <1>2, <2>2, <2>3, <3>1, SameFrame, StillFrame DEF SucceededEvent, Frame
  <2>4. CASE ledger[i].charge # "pending"
    <3>1. /\ call' = [call EXCEPT ![s] = call'[s]]
          /\ call'[s].at = "succeeded.recorded"
          /\ call'[s].i = i /\ call'[s].g = call[s].g
      BY <1>0, <1>2, <2>4 DEF SucceededEvent, CallsOK, Run
    <3>2. There(call[s].g) /\ At(s, "idle")
      BY <1>2 DEF Real, SucceededEvent
    <3>3. CallFrame(s, NoSession)
      BY <1>0, <1>l, <2>2, <3>1, <3>2, StartFrame DEF EventLabels
    <3> QED BY <1>2, <2>2, <2>4, <3>3, SameFrame DEF SucceededEvent, Frame
  <2> QED BY <2>3, <2>4
<1>3. ASSUME NEW i \in Intents, SweepPending(s, i) \/ SweepStray(s, i)
      PROVE  \E G : Frame(s, G)
  <2>1. Live(i)
    BY <1>3 DEF SweepPending, SweepStray, Stray, Known, Recorded, Live
  <2>2. /\ call' = [call EXCEPT ![s] = call'[s]]
        /\ call'[s].at \in SweepLabels
        /\ call'[s].i = i /\ call'[s].g \in {ledger[i].g, stripe[i].g}
    <3>1. "sweep.enrolled" \in SweepLabels /\ "sweep.authorized" \in SweepLabels
          /\ "stray.cancel" \in SweepLabels /\ "stray.delivered" \in SweepLabels
      BY DEF SweepLabels
    <3> QED BY <1>0, <1>3, <3>1 DEF SweepPending, SweepStray, CallsOK, Run
  <2>3. There(call'[s].g) /\ At(s, "idle")
    BY <1>3, <2>2 DEF Real, SweepPending, SweepStray
  <2>4. CallFrame(s, NoSession)
    BY <1>0, <1>l, <2>1, <2>2, <2>3, StartFrame
  <2>5. StripeFrame(NoSession)
    BY <1>0, <1>3, IntentFrame DEF SweepPending, SweepStray
  <2> QED BY <1>3, <2>4, <2>5, SameFrame DEF SweepPending, SweepStray, Frame
<1>4. ASSUME NEW g \in Sessions, SweepHold(s, g) PROVE \E G : Frame(s, G)
  <2>1. /\ call' = [call EXCEPT ![s] = call'[s]]
        /\ call'[s].at = "hold.parked"
        /\ call'[s].i = call[s].i /\ call'[s].g = g
    BY <1>0, <1>4 DEF SweepHold, CallsOK, Run
  <2>2. There(g) /\ At(s, "idle") /\ call[s].i \notin Intents
    BY <1>0, <1>4, SessionAssumption DEF SweepHold, There, At, CallsOK, Knows, Idle
  <2>3. CallFrame(s, NoSession)
    BY <1>0, <1>l, <2>1, <2>2, StartFrame DEF HoldLabels
  <2> QED BY <1>4, <2>3, SameFrame DEF SweepHold, Frame
<1> QED
  BY <1>1, <1>2, <1>3, <1>4 DEF WebhookStep, SweepStep

(* Stripe, the student at the payment page, the clock. *)
LEMMA OutsideFrames ==
    ASSUME TInv, StripeStep \/ Time
    PROVE  \E s, G : Frame(s, G)
<1>0. SessionOK /\ LedgerOK /\ StripeOK /\ CallsOK /\ EventsOK /\ WorldOK
  BY DEF TInv, DataOK
<1>1. ASSUME NEW i \in Intents, NEW g \in Sessions \cup {NoSession}, NEW st \in Outcomes,
             Checkout(i, g, st)
      PROVE  \E s, G : Frame(s, G)
  <2>1. /\ stripe'[i].st = st /\ stripe'[i].g = g /\ stripe[i].st = "none"
        /\ \A j \in Intents : j # i => stripe'[j] = stripe[j]
    BY <1>0, <1>1 DEF Checkout, StripeOK
  <2>2. st # "none"
    BY <1>0, SessionAssumption DEF WorldOK, Outcomes
  <2>3. Opened(i)
    BY <1>1, <2>1, <2>2 DEF Checkout, CheckoutAllowed, Opened, Live
  <2>4. StripeFrame(NoSession)
    BY <2>1, <2>3 DEF StripeFrame, Settled
  <2>5. EventsFrame
    BY <1>1, <2>1, <2>2 DEF Checkout, EventsFrame
  <2> QED BY <1>1, <2>4, <2>5, SameFrame, StillFrame DEF Checkout, Frame
<1>2. ASSUME NEW i \in Intents, DeclinedFirst(i) \/ WalletClears(i) \/ WalletFails(i)
      PROVE  \E s, G : Frame(s, G)
  <2> DEFINE G == ledger[i].g
  <2>1. StripeFrame(G)
    BY <1>0, <1>2
       DEF DeclinedFirst, WalletClears, WalletFails, SetIntent, StripeFrame, Settled, StripeOK, Intent
  <2>2. stripe'[i].st # "none" /\ (\E kind : events' = events \cup {<<kind, i>>})
    BY <1>0, <1>2 DEF DeclinedFirst, WalletClears, WalletFails, SetIntent, StripeOK, Intent
  <2>3. EventsFrame
    BY <2>2 DEF EventsFrame
  <2> QED
    BY <1>2, <2>1, <2>3, SameFrame, StillFrame
       DEF DeclinedFirst, WalletClears, WalletFails, Frame
<1>3. ASSUME NEW i \in Intents, HoldExpires(i) PROVE \E s, G : Frame(s, G)
  BY <1>0, <1>3, SameFrame, StillFrame, IntentFrame DEF HoldExpires, Frame
<1>4. ASSUME NEW g \in Sessions,
             DecisionLapses(g) \/ WindowLapses(g) \/ SessionStarts(g) \/ SweepWindow(g)
      PROVE  \E s, G : Frame(s, G)
  <2>1. SessionFrame(g)
    <3>1. CASE SweepWindow(g)
      BY <1>0, <3>1, StatusFrame DEF SweepWindow, Statuses
    <3>2. CASE ~SweepWindow(g)
      <4>1. /\ \A h \in Sessions : h # g => session'[h] = session[h]
            /\ session'[g].by = session[g].by /\ session'[g].mode = session[g].mode
            /\ session'[g].st = session[g].st
        BY <1>0, <1>4, <3>2 DEF DecisionLapses, WindowLapses, SessionStarts, SessionOK, Session
      <4> QED BY <1>0, <4>1, OneSession DEF Statuses
    <3> QED BY <3>1, <3>2
  <2> QED
    BY <1>4, <2>1, SameFrame, StillFrame
       DEF DecisionLapses, WindowLapses, SessionStarts, SweepWindow, Frame
<1> QED BY <1>1, <1>2, <1>3, <1>4 DEF StripeStep, Time

(* Every step but a restart has a frame. *)
LEMMA FrameStep ==
    ASSUME BInv, Next, ~Crash
    PROVE  \E s, G : Frame(s, G)
<1>0. TInv /\ Known /\ Real /\ Captures
  BY DEF BInv
<1>1. ASSUME NEW s \in Slots, Step(s) PROVE \E G : Frame(s, G)
  <2>1. CASE BookingStep(s)
    BY <1>0, <2>1, MoneyBackFrames, RequestFrames, ReadFrames, ConfirmFrames DEF BookingStep
  <2>2. CASE EndingStep(s)
    BY <1>0, <2>2, CancelFrames, HoldFrames, EventFrames, SweepFrames DEF EndingStep
  <2> QED BY <1>1, <2>1, <2>2 DEF Step
<1> QED
  BY <1>0, <1>1, CallFrames, PickUpFrames, OutsideFrames DEF Next

-----------------------------------------------------------------------------
(* What a frame leaves standing: intents, sessions, their marks.           *)
LEMMA Lasts ==
    ASSUME BInv, NEW s, NEW G, Frame(s, G)
    PROVE  /\ \A i \in Intents :
                 /\ Live(i) => Live(i)' /\ stripe'[i].g = stripe[i].g
                 /\ Live(i) /\ stripe[i].sent => stripe'[i].sent
                 /\ stripe[i].st = "canceled" => stripe'[i].st = "canceled"
                 /\ ~Live(i) /\ Live(i)' => Opened(i)
                 /\ ~Live(i) /\ ~Live(i)' => stripe'[i].g = stripe[i].g
           /\ \A h \in Sessions : session[h].st # "none" =>
                 /\ session'[h].st # "none"
                 /\ session'[h].by = session[h].by
                 /\ session'[h].mode = session[h].mode
<1>1. ASSUME NEW i \in Intents
      PROVE  /\ Live(i) => Live(i)' /\ stripe'[i].g = stripe[i].g
             /\ Live(i) /\ stripe[i].sent => stripe'[i].sent
             /\ stripe[i].st = "canceled" => stripe'[i].st = "canceled"
             /\ ~Live(i) /\ Live(i)' => Opened(i)
             /\ ~Live(i) /\ ~Live(i)' => stripe'[i].g = stripe[i].g
  <2>1. CASE Opened(i)
    <3>1. stripe[i].st = "none" /\ stripe'[i].st # "none"
      BY <2>1 DEF Opened
    <3>2. stripe[i].st # "canceled" /\ ~Live(i) /\ Live(i)'
      BY <3>1 DEF Live
    <3> QED BY <2>1, <3>2
  <2>2. CASE ~Opened(i)
    <3>1. /\ stripe'[i].g = stripe[i].g
          /\ stripe[i].sent => stripe'[i].sent
          /\ Settled(i, G, stripe[i].st, stripe'[i].st)
      BY <2>2 DEF Frame, StripeFrame
    <3> QED BY <3>1 DEF Settled, Live
  <2> QED BY <2>1, <2>2
<1>2. ASSUME NEW h \in Sessions, session[h].st # "none"
      PROVE  /\ session'[h].st # "none"
             /\ session'[h].by = session[h].by
             /\ session'[h].mode = session[h].mode
  BY <1>2 DEF Frame, SessionFrame, Statuses
<1> QED BY <1>1, <1>2

(* What is named stays there, whatever names it next. *)
LEMMA NamesStay ==
    ASSUME BInv, EnvSame, NEW s, NEW G, Frame(s, G)
    PROVE  Known' /\ Real'
<1>0. TInv /\ Known /\ Real /\ LedgerOK
  BY DEF BInv, TInv, DataOK
<1>1. \A i \in Intents : Live(i) => Live(i)'
  BY Lasts
<1>2. \A h \in Sessions : session[h].st # "none" => session'[h].st # "none"
  BY Lasts
<1>3. ASSUME NEW i \in Intents, Recorded(i)' PROVE Live(i)'
  <2>1. Recorded(i) \/ \E t \in Slots : call[t].i = i
    BY <1>3 DEF Frame, LedgerFrame, RowStays, RowAdded, RowDeleted, Recorded
  <2> QED BY <1>0, <1>1, <2>1 DEF Known
<1>4. ASSUME NEW t \in Slots, call'[t].i \in Intents PROVE Live(call[t].i)'
  <2>1. \/ call'[t].i = call[t].i
        \/ Live(call'[t].i)
    BY <1>4 DEF Frame, CallFrame
  <2>2. Live(call'[t].i)
    BY <1>0, <1>4, <2>1 DEF Known
  <2>3. \A i \in Intents : Live(i) => stripe'[i].st # "none"
    BY <1>1 DEF Live
  <2> QED BY <1>4, <2>2, <2>3 DEF Live
<1>5. ASSUME NEW e \in events' PROVE stripe'[e[2]].st # "none"
  <2>1. e \in events => e[2] \in Intents /\ Live(e[2])
    BY <1>0 DEF TInv, DataOK, EventsOK, Event, Known
  <2> QED BY <1>1, <2>1 DEF Frame, EventsFrame, Live
<1>6. ASSUME NEW i \in Intents PROVE /\ Live(i)' => Charged'
                                     /\ ~Live(i)' => stripe'[i].g = NoSession
  <2>1. Live(i)' => Live(i) \/ Opened(i)
    BY Lasts
  <2>2. Charged' <=> Charged
    BY DEF EnvSame, Charged
  <2>3. ~Live(i)' => stripe'[i].g = stripe[i].g /\ ~Live(i)
    BY Lasts
  <2> QED BY <1>0, <2>1, <2>2, <2>3 DEF Known, Opened
<1>7. ASSUME NEW t \in Slots PROVE There(call[t].g)'
  <2>1. CASE call'[t].g = call[t].g
    BY <1>0, <1>2, <2>1 DEF Real, There
  <2>2. CASE call'[t].g # call[t].g
    BY <1>2, <2>2 DEF Frame, CallFrame, There
  <2> QED BY <2>1, <2>2
<1>8. ASSUME NEW i \in Intents PROVE There(ledger[i].g)' /\ There(stripe[i].g)'
  <2>1. \/ ledger'[i].g \in {ledger[i].g, stripe[i].g, NoSession}
        \/ \E t \in Slots : ledger'[i].g = call[t].g
    BY DEF Frame, LedgerFrame, RowStays, RowAdded, RowDeleted, Someone
  <2>2. There(ledger[i].g)'
    BY <1>0, <1>2, <2>1, SessionAssumption DEF Real, There
  <2>3. CASE Opened(i)
    <3>1. stripe'[i].g = NoSession \/ session[stripe'[i].g].st = "pending"
      BY <2>3 DEF Opened
    <3>2. There(stripe[i].g)'
      BY <1>2, <3>1, SessionAssumption DEF There
    <3> QED BY <2>2, <3>2
  <2>4. CASE ~Opened(i)
    <3>1. stripe'[i].g = stripe[i].g
      BY <2>4, Lasts
    <3> QED BY <1>0, <1>2, <2>2, <3>1 DEF Real, There
  <2> QED BY <2>2, <2>3, <2>4
<1>9. Known'
  BY <1>3, <1>4, <1>5, <1>6 DEF Known, Live
<1> QED BY <1>7, <1>8, <1>9 DEF Real

(* A session that is cancelled is put back by its canceller only. *)
LEMMA ClaimsStay ==
    ASSUME BInv, NEW s, NEW G, Frame(s, G)
    PROVE  Claims'
<1>0. CallsOK /\ Claims
  BY DEF BInv, TInv
<1>1. ASSUME NEW t \in Slots, call'[t].at \in CancellingLabels,
             ~(call[t].at \in CancellingLabels /\ call[t].g = call'[t].g)
      PROVE  t = s /\ call'[t].g = G /\ session[G].st = "pending" /\ session'[G].st = "cancelled"
  BY <1>1 DEF Frame, CallFrame, Undecided
<1>2. ASSUME NEW t \in Slots, call'[t].at \in CancellingLabels
      PROVE  session'[call'[t].g].st \in {"cancelled", "deleted"}
  <2> DEFINE h == call[t].g
  <2>1. CASE call[t].at \in CancellingLabels /\ call[t].g = call'[t].g
    <3>1. h \in Sessions /\ session[h].st \in {"cancelled", "deleted"}
      BY <1>0, <2>1 DEF Claims, Claiming, CallsOK, Knows, WithSession
    <3>2. ASSUME NEW u \in Slots, At(u, "cancel.restore"), call[u].g = h,
               call'[u].at \notin Undecided
          PROVE  FALSE
      <4>1. u = t
        BY <1>0, <2>1, <3>2 DEF Claims, Claiming, At, CancellingLabels
      <4> QED BY <1>2, <3>2, <4>1 DEF Undecided
    <3> QED BY <2>1, <3>1, <3>2 DEF Frame, SessionFrame, Statuses
  <2>2. CASE ~(call[t].at \in CancellingLabels /\ call[t].g = call'[t].g)
    BY <1>1, <1>2, <2>2
  <2> QED BY <2>1, <2>2
<1>3. ASSUME NEW t \in Slots, call'[t].at \in CancellingLabels,
             NEW u \in Slots, call'[u].at \in CancellingLabels, call'[u].g = call'[t].g
      PROVE  u = t
  BY <1>0, <1>1, <1>3 DEF Claims, Claiming
<1> QED BY <1>2, <1>3 DEF Claims, Claiming

(* A row keeps its session until its hold is gone. *)
LEMMA RowLasts ==
    ASSUME BInv, NEW s, NEW G, Frame(s, G), NEW i \in Intents, ledger[i].g \in Sessions
    PROVE  ledger'[i].g = ledger[i].g \/ stripe'[i].st = "canceled"
<1>0. LedgerOK /\ Captures
  BY DEF BInv, TInv, DataOK
<1>1. Recorded(i)
  BY <1>0, SessionAssumption DEF LedgerOK
<1>2. ledger'[i].g = ledger[i].g \/ RowDeleted(i)
  BY <1>1 DEF Frame, LedgerFrame, RowStays, RowAdded
<1>3. RowDeleted(i) => stripe[i].st = "canceled"
  BY <1>0 DEF RowDeleted, Captures, Covered, At
<1> QED BY <1>2, <1>3, Lasts

(* What covers a run that does not move. *)
LEMMA CoverStays ==
    ASSUME BInv, NEW s, NEW G, Frame(s, G), NEW t \in Slots,
           call[t].at \in AcceptLabels
    PROVE  /\ Booked(call[t]) /\ call[t].i \in Intents =>
                 stripe'[call[t].i].st = "canceled" \/ ledger'[call[t].i].g = call[t].g
           /\ call'[t] = call[t] => Covered(call[t])'
<1> DEFINE i == call[t].i
           g == call[t].g
<1>0. CallsOK /\ LedgerOK /\ Captures
  BY DEF BInv, TInv, DataOK
<1>k. g \in Sessions /\ (call[t].row \/ call[t].at \in ConfirmingLabels => i \in Intents)
  BY <1>0 DEF CallsOK, Knows, WithSession, WithIntent
<1>1. i \in Intents /\ stripe[i].st = "canceled" => stripe'[i].st = "canceled"
  BY Lasts
<1>2. i \in Intents /\ ledger[i].g = g => ledger'[i].g = g \/ stripe'[i].st = "canceled"
  BY <1>k, RowLasts
<1>3. Booked(call[t]) /\ i \in Intents => stripe'[i].st = "canceled" \/ ledger'[i].g = g
  BY <1>1, <1>2 DEF Booked
<1>4. ASSUME call'[t] = call[t] PROVE Covered(call[t])'
  <2>1. call[t].at = "accept.capture" \/ call[t].row => i \in Intents /\ Booked(call[t])
    BY <1>0, <1>k DEF Captures, Covered, ConfirmingLabels
  <2>2. call[t].at = "accept.collect" => call[t].row
    BY <1>0 DEF Captures, Covered
  <2>3. call[t].at = "accept.capDelete" => i \in Intents /\ stripe[i].st = "canceled"
    BY <1>0, <1>k DEF Captures, Covered, ConfirmingLabels
  <2> QED BY <1>1, <1>3, <1>4, <2>1, <2>2, <2>3 DEF Covered, Booked
<1> QED BY <1>3, <1>4

-----------------------------------------------------------------------------
(* How a run comes to the next label of acceptIndividualAppointment.       *)
Keeps(s) ==
    /\ call'[s].g = call[s].g
    /\ call'[s].i = call[s].i
    /\ call'[s].who = call[s].who
    /\ call'[s].pays = call[s].pays
    /\ call'[s].row = call[s].row

Fresh(s, l, who) ==
    /\ At(s, "idle")
    /\ call'[s].at = l /\ call'[s].who = who
    /\ call'[s].pays = "none" /\ ~call'[s].row
    /\ call'[s].g \in Sessions /\ session[call'[s].g].st = "pending"

ExpertStarts(s) ==
    /\ Fresh(s, "accept.parked", "expert")
    /\ session[call'[s].g].by = "student"
    /\ (\E t \in Slots : call[t].g = call'[s].g /\ call[t].who = "expert") =>
           "twice" \in Calls
StudentStarts(s) ==
    LET i == call'[s].i IN
    /\ Fresh(s, "accept.paid", "student")
    /\ "pay" \in Calls
    /\ Charged => /\ i \in Intents /\ Live(i)
                  /\ stripe[i].g = call'[s].g
                  /\ stripe[i].sent => "resubmit" \in Calls
                  /\ stripe'[i].sent

FindsHold(s) ==
    /\ At(s, "accept.parked") /\ call'[s].at = "accept.activate"
    /\ call'[s].g = call[s].g /\ call'[s].who = call[s].who
    /\ call'[s].i \in Parked(call[s].g)
    /\ call'[s].pays = "held" /\ call'[s].row
FindsPayment(s) ==
    /\ At(s, "accept.probe") /\ call'[s].at = "accept.activate"
    /\ call'[s].g = call[s].g /\ call'[s].who = call[s].who
    /\ call'[s].i = call[s].i /\ call'[s].row = call[s].row
    /\ call'[s].pays = FoundAs(call[s].i) /\ call'[s].pays # "none"
GivesUp(s) ==
    /\ At(s, "accept.activate") /\ call'[s].at = "accept.undo"
    /\ call'[s].g = call[s].g /\ call'[s].who = call[s].who
    /\ call'[s].i = call[s].i /\ ~call'[s].row
    /\ call[s].pays = "held" /\ call'[s].pays = "held"

Reads(s, l, m) ==
    \/ l = "accept.parked" /\ m = "accept.window"
    \/ /\ l = "accept.parked" /\ m \in {"accept.secured", "accept.activate"}
       /\ Charged => session[call[s].g].mode # "wallet"
    \/ l = "accept.secured" /\ m = "accept.activate"
    \/ l = "accept.paid" /\ m = "accept.consumed"
    \/ l = "accept.consumed" /\ m = "accept.probe"
    \/ l = "accept.consumed" /\ m = "accept.activate" /\ ~Charged
Takes(s, l, m) ==
    LET c == call[s] IN
    \/ /\ l = "accept.activate" /\ c.pays = "held"
       /\ m \in {"accept.undo", IF c.row THEN "accept.collect" ELSE "accept.insert"}
    \/ l = "accept.activate" /\ m = "accept.append" /\ c.pays \notin {"none", "held"}
    \/ l = "accept.undo" /\ m = "accept.undoRow" /\ c.row
    \/ l = "accept.insert" /\ m \in {"accept.restore", "accept.abort"}
    \/ l = "accept.insert" /\ m = "accept.capture" /\ ledger'[c.i].g = c.g
    \/ l = "accept.abort" /\ m = "accept.restore"
    \/ l \in {"accept.capture", "accept.collect"} /\ m \in {"accept.book", "accept.capProbe"}
Settles(s, l, m) ==
    LET c == call[s] IN
    \/ l = "accept.capProbe" /\ m = "accept.book"
    \/ /\ l = "accept.capProbe" /\ stripe[c.i].st # "succeeded"
       /\ m = IF c.row THEN "accept.restore" ELSE "accept.capCancel"
    \/ l = "accept.capCancel" /\ m = "accept.capDelete" /\ stripe'[c.i].st = "canceled"
    \/ l \in {"accept.capCancel", "accept.capDelete"} /\ m = "accept.restore"
    \/ l = "accept.restore" /\ m = "accept.rowFail" /\ c.row

AcceptMoves(s) ==
    \/ ExpertStarts(s) \/ StudentStarts(s)
    \/ FindsHold(s) \/ FindsPayment(s) \/ GivesUp(s)
    \/ /\ Keeps(s)
       /\ \/ Reads(s, call[s].at, call'[s].at)
          \/ Takes(s, call[s].at, call'[s].at)
          \/ Settles(s, call[s].at, call'[s].at)

LEMMA Goes ==
    ASSUME CallsOK, NEW s \in Slots
    PROVE  /\ \A l : Goto(s, l) => call'[s].at = l /\ Keeps(s)
           /\ Finish(s) => call'[s] = Idle
BY DEF CallsOK, Run, Goto, Finish, Keeps

LEMMA AcceptMove ==
    ASSUME TInv, NEW s \in Slots, BookingCall(s) \/ BookingStep(s),
           call'[s].at \in AcceptLabels
    PROVE  AcceptMoves(s)
<1>0. SessionOK /\ LedgerOK /\ StripeOK /\ CallsOK /\ call[s] \in Run(Labels)
  BY DEF TInv, DataOK, CallsOK
<1>g. /\ \A l : Goto(s, l) => call'[s].at = l /\ Keeps(s)
      /\ ~Finish(s)
      /\ \A l \in MoneyBackLabels \cup RequestLabels \cup {"idle"} : call'[s].at # l
  <2>1. \A l \in MoneyBackLabels \cup RequestLabels \cup {"idle"} : l \notin AcceptLabels
    BY LabelKinds DEF Calm
  <2> QED BY <1>0, <2>1, Goes DEF Idle
<1>1. ASSUME \/ OrphanRecorded(s) \/ OrphanHold(s) \/ OrphanCancel(s)
             \/ RefundStep(s) \/ RefundFails(s) \/ RefundRow(s)
             \/ RefundSession(s) \/ RefundLive(s) \/ RefundCancel(s)
      PROVE  FALSE
  BY <1>g, <1>1
     DEF OrphanRecorded, OrphanHold, OrphanCancel, RefundStep, RefundFails, RefundRow,
     RefundSession, RefundLive, RefundCancel, MoneyBackLabels
<1>2. ASSUME \/ RequestConsumed(s) \/ RequestRejected(s) \/ RequestFail(s)
             \/ RequestPark(s) \/ RequestParkFails(s) \/ RequestAbort(s)
             \/ RequestRollback(s) \/ RequestDeadline(s) \/ RequestAppend(s)
      PROVE  FALSE
  BY <1>g, <1>2
     DEF RequestConsumed, RequestRejected, RequestFail, RequestPark, RequestParkFails,
     RequestAbort, RequestRollback, RequestDeadline, RequestAppend, RequestLabels,
     MoneyBackLabels
<1>3. ASSUME RequestProbe(s) \/ RequestCreate(s) PROVE FALSE
  <2>1. RequestProbe(s) => call'[s].at = "request.create"
    BY <1>0, <1>g DEF RequestProbe, CallsOK, Run
  <2>2. RequestCreate(s) => call'[s].at \in {"request.park", "request.append"}
    BY <1>0, <1>g DEF RequestCreate, CallsOK, Run
  <2> QED BY <1>3, <1>g, <2>1, <2>2 DEF RequestLabels
<1>4. ASSUME Propose(s) \/ \E i \in Intents \cup {NoIntent} : Request(s, i) PROVE FALSE
  <2>1. Propose(s) => call'[s].at = "idle"
    BY DEF Propose, Calling, At
  <2>2. ASSUME NEW i \in Intents \cup {NoIntent}, Request(s, i)
        PROVE  call'[s].at \in {"request.create", "request.consumed"}
    BY <1>0, <2>2 DEF Request, CallsOK, Run
  <2> QED BY <1>4, <1>g, <2>1, <2>2 DEF RequestLabels
<1>5. ASSUME NEW g \in Sessions, AcceptAsExpert(s, g) PROVE ExpertStarts(s)
  <2>1. PICK lapsed \in BOOLEAN, window \in BOOLEAN :
            call' = [call EXCEPT ![s].at = "accept.parked", ![s].g = g,
                ![s].who = "expert", ![s].lapsed = lapsed, ![s].window = window]
    BY <1>5 DEF AcceptAsExpert
  <2>2. call[s] = Idle
    BY <1>0, <1>5, FreeSlot DEF AcceptAsExpert, Calling
  <2>3. /\ call'[s].at = "accept.parked" /\ call'[s].g = g /\ call'[s].who = "expert"
        /\ call'[s].pays = "none" /\ ~call'[s].row
    BY <1>0, <2>1, <2>2 DEF CallsOK, Idle
  <2> QED BY <1>5, <2>3 DEF AcceptAsExpert, Calling, ExpertStarts, Fresh
<1>6. ASSUME NEW g \in Sessions, NEW i \in Intents \cup {NoIntent}, AcceptAsStudent(s, g, i)
      PROVE  StudentStarts(s)
  <2>1. session[g].st = "pending"
    <3>1. ASSUME Orphaned(s, g, i) PROVE FALSE
      <4>1. i # NoIntent
        BY <1>g, <3>1 DEF Orphaned
      <4>2. call'[s].at = "orphan.recorded"
        BY <1>0, <3>1, <4>1 DEF Orphaned, CallsOK, Run
      <4> QED BY <1>g, <4>2 DEF MoneyBackLabels
    <3> QED BY <1>6, <3>1 DEF AcceptAsStudent
  <2>2. PICK lapsed \in BOOLEAN, window \in BOOLEAN :
            call' = [call EXCEPT ![s].at = "accept.paid", ![s].g = g, ![s].i = i,
                ![s].who = "student", ![s].lapsed = lapsed, ![s].window = window]
    BY <1>6, <2>1 DEF AcceptAsStudent
  <2>3. call[s] = Idle
    BY <1>0, <1>6, FreeSlot DEF AcceptAsStudent, Calling
  <2>4. /\ call'[s].at = "accept.paid" /\ call'[s].g = g /\ call'[s].i = i
        /\ call'[s].who = "student" /\ call'[s].pays = "none" /\ ~call'[s].row
    BY <1>0, <2>2, <2>3 DEF CallsOK, Idle
  <2>5. Charged => /\ i \in Intents /\ Submittable(i) /\ stripe[i].g = g
                   /\ Submitted(i)
    BY <1>6 DEF AcceptAsStudent
  <2>6. i \in Intents /\ Submitted(i) => stripe'[i].sent
    BY <1>0 DEF Submitted, StripeOK, Intent
  <2> QED
    BY <1>6, <2>1, <2>4, <2>5, <2>6
       DEF AcceptAsStudent, Calling, StudentStarts, Fresh, Submittable, Live
<1>7. CASE AcceptParked(s)
  <2>1. ASSUME NEW i \in Parked(call[s].g),
               call' = [call EXCEPT ![s].at = "accept.activate",
                            ![s].i = i, ![s].pays = "held", ![s].row = TRUE]
        PROVE  FindsHold(s)
    BY <1>0, <1>7, <2>1 DEF AcceptParked, FindsHold, CallsOK, Run
  <2>2. ASSUME NEW l, Goto(s, l), AcceptParked(s), l = "accept.window"
                      \/ (/\ l \in {"accept.secured", "accept.activate"}
                          /\ ~(session[call[s].g].mode = "wallet" /\ Charged))
        PROVE  Keeps(s) /\ Reads(s, call[s].at, call'[s].at)
    BY <1>g, <2>2 DEF AcceptParked, At, Reads
  <2>3. \/ \E i \in Parked(call[s].g) :
              call' = [call EXCEPT ![s].at = "accept.activate",
                           ![s].i = i, ![s].pays = "held", ![s].row = TRUE]
        \/ Goto(s, "accept.window")
        \/ /\ Goto(s, "accept.secured") \/ Goto(s, "accept.activate")
           /\ ~(session[call[s].g].mode = "wallet" /\ Charged)
    BY <1>7, <1>g DEF AcceptParked
  <2> QED BY <1>7, <2>1, <2>2, <2>3 DEF AcceptMoves
<1>8. CASE AcceptProbe(s)
  BY <1>0, <1>8, <1>g DEF AcceptProbe, FindsPayment, AcceptMoves, CallsOK, Run
<1>9. CASE AcceptActivateFails(s)
  <2>1. call[s].pays = "held" /\ call' = [call EXCEPT ![s].at = "accept.undo", ![s].row = FALSE]
    BY <1>9, <1>g DEF AcceptActivateFails, MoneyBackLabels
  <2>2. GivesUp(s)
    BY <1>0, <1>9, <2>1 DEF AcceptActivateFails, GivesUp, CallsOK, Run
  <2> QED BY <2>2 DEF AcceptMoves
<1>10. CASE \/ AcceptWindow(s) \/ AcceptSecured(s) \/ AcceptConsumed(s)
  BY <1>10, <1>g DEF AcceptWindow, AcceptSecured, AcceptConsumed, At, AcceptMoves, Reads
<1>11. CASE AcceptPaid(s)
  <2>1. ASSUME Orphaned(s, call[s].g, call[s].i) PROVE FALSE
    <3>1. call[s].i # NoIntent
      BY <1>g, <2>1 DEF Orphaned
    <3>2. call'[s].at = "orphan.recorded"
      BY <1>0, <2>1, <3>1 DEF Orphaned, CallsOK, Run
    <3> QED BY <1>g, <3>2 DEF MoneyBackLabels
  <2>2. Goto(s, "accept.consumed")
    BY <1>11, <1>g, <2>1 DEF AcceptPaid
  <2> QED BY <1>11, <1>g, <2>2 DEF AcceptPaid, At, AcceptMoves, Reads
<1>12. CASE AcceptActivate(s)
  <2>1. At(s, "accept.activate")
    BY <1>12 DEF AcceptActivate
  <2>2. \/ /\ call[s].pays = "held"
           /\ \/ Goto(s, "accept.undo")
              \/ Goto(s, IF call[s].row THEN "accept.collect" ELSE "accept.insert")
        \/ /\ call[s].pays \notin {"none", "held"}
           /\ Goto(s, "accept.append") \/ Goto(s, "refund")
    BY <1>12, <1>g DEF AcceptActivate
  <2>3. ~Goto(s, "refund")
    BY <1>g DEF MoneyBackLabels
  <2> QED BY <1>g, <2>1, <2>2, <2>3 DEF At, AcceptMoves, Takes
<1>13. CASE AcceptUndo(s) \/ AcceptInsertFails(s) \/ AcceptAbort(s) \/ AcceptCapture(s)
            \/ AcceptNotCaptured(s)
  BY <1>13, <1>g
     DEF AcceptUndo, AcceptInsertFails, AcceptAbort, AcceptCapture, AcceptNotCaptured,
     At, AcceptMoves, Takes
<1>14. CASE AcceptInsert(s)
  <2>1. call[s].i \in Intents
    BY <1>0, <1>14, KnowsOK DEF AcceptInsert, At, WithIntent, ConfirmingLabels
  <2>2. InsertCharge(call[s].i, call[s].g, "pending") => ledger'[call[s].i].g = call[s].g
    BY <1>0, <2>1 DEF InsertCharge, LedgerOK, Ledger
  <2> QED BY <1>14, <1>g, <2>2 DEF AcceptInsert, At, AcceptMoves, Takes
<1>15. CASE AcceptCapProbe(s) \/ AcceptCapStuck(s) \/ AcceptCapDelete(s) \/ AcceptRestore(s)
  BY <1>15, <1>g
     DEF AcceptCapProbe, AcceptCapStuck, AcceptCapDelete, AcceptRestore, At, AcceptMoves,
     Settles
<1>16. CASE AcceptCapCancel(s)
  <2>1. call[s].i \in Intents
    BY <1>0, <1>16, KnowsOK DEF AcceptCapCancel, At, WithIntent, ConfirmingLabels
  <2>2. stripe[call[s].i].st = "hold" => stripe'[call[s].i].st = "canceled"
    BY <1>0, <1>16, <2>1 DEF AcceptCapCancel, CancelHold, SetIntent, StripeOK, Intent
  <2> QED BY <1>16, <1>g, <2>2 DEF AcceptCapCancel, At, AcceptMoves, Settles
<1>17. CASE \/ AcceptUndoRow(s) \/ AcceptRowFail(s) \/ AcceptBook(s) \/ AcceptBookLost(s)
            \/ AcceptAppend(s)
  BY <1>17, <1>g DEF AcceptUndoRow, AcceptRowFail, AcceptBook, AcceptBookLost, AcceptAppend
<1> QED
  BY <1>1, <1>2, <1>3, <1>4, <1>5, <1>6, <1>7, <1>8, <1>9, <1>10, <1>11, <1>12, <1>13,
     <1>14, <1>15, <1>16, <1>17 DEF BookingCall, BookingStep, AcceptMoves

(* A run of accepting goes on: what it captures is still covered. *)
LEMMA CoverMoves ==
    ASSUME BInv, NEW s \in Slots, NEW G, Frame(s, G), AcceptMoves(s)
    PROVE  Covered(call[s])'
<1>0. CallsOK /\ LedgerOK /\ Captures
  BY DEF BInv, TInv, DataOK
<1>1. CASE ExpertStarts(s) \/ StudentStarts(s)
  BY <1>1 DEF ExpertStarts, StudentStarts, Fresh, Covered
<1>2. CASE FindsHold(s)
  <2> DEFINE i == call'[s].i
  <2>1. i \in Intents /\ ledger[i].g = call[s].g /\ call[s].g \in Sessions
    BY <1>0, <1>2 DEF FindsHold, Parked, RowsOf, CallsOK, Knows, WithSession, AcceptLabels,
       ReadLabels, At
  <2>2. ledger'[i].g = call[s].g \/ stripe'[i].st = "canceled"
    BY <2>1, RowLasts
  <2> QED BY <1>2, <2>2 DEF FindsHold, Covered, Booked
<1>3. CASE FindsPayment(s)
  <2>1. call[s].at \in AcceptLabels
    BY <1>3 DEF FindsPayment, At, AcceptLabels, ReadLabels
  <2>2. call[s].row => call[s].i \in Intents /\ Booked(call[s])
    BY <1>0, <2>1 DEF CallsOK, Knows, Captures, Covered
  <2> QED BY <1>3, <2>1, <2>2, CoverStays DEF FindsPayment, Covered, Booked
<1>4. CASE GivesUp(s)
  BY <1>4 DEF GivesUp, Covered
<1>5. ASSUME Keeps(s),
             \/ Reads(s, call[s].at, call'[s].at)
             \/ Takes(s, call[s].at, call'[s].at)
             \/ Settles(s, call[s].at, call'[s].at)
      PROVE  Covered(call[s])'
  <2>1. call[s].at \in AcceptLabels
    BY <1>5 DEF Reads, Takes, Settles, AcceptLabels, ReadLabels, UndoLabels, ConfirmingLabels
  <2>2. call[s].row => call[s].i \in Intents /\ Booked(call[s])
    BY <1>0, <2>1 DEF CallsOK, Knows, Captures, Covered
  <2>3. call[s].row => Booked(call[s])'
    BY <1>5, <2>1, <2>2, CoverStays DEF Keeps, Booked
  <2>4. call'[s].at = "accept.capture" => ledger'[call[s].i].g = call[s].g
    BY <1>5 DEF Reads, Takes, Settles
  <2>5. call'[s].at = "accept.collect" => call[s].row
    BY <1>5 DEF Reads, Takes, Settles
  <2>6. call'[s].at = "accept.capDelete" => stripe'[call[s].i].st = "canceled"
    BY <1>5 DEF Reads, Takes, Settles
  <2> QED BY <1>5, <2>3, <2>4, <2>5, <2>6 DEF Keeps, Covered, Booked
<1> QED BY <1>1, <1>2, <1>3, <1>4, <1>5 DEF AcceptMoves

LEMMA CapturesStay ==
    ASSUME BInv, NEW s, NEW G, Frame(s, G)
    PROVE  Captures'
<1>0. TInv /\ Captures
  BY DEF BInv
<1>1. ASSUME NEW t \in Slots, call'[t].at \notin AcceptLabels PROVE Covered(call[t])'
  BY <1>1 DEF Covered, AcceptLabels, ConfirmingLabels
<1>2. ASSUME NEW t \in Slots, call'[t].at \in AcceptLabels PROVE Covered(call[t])'
  <2>1. CASE call'[t] = call[t]
    BY <1>2, <2>1, CoverStays
  <2>2. CASE call'[t] # call[t]
    <3>1. t = s /\ (BookingCall(s) \/ BookingStep(s))
      BY <1>2, <2>2 DEF Frame, CallFrame
    <3> QED BY <1>0, <1>2, <3>1, AcceptMove, CoverMoves
  <2> QED BY <2>1, <2>2
<1> QED BY <1>1, <1>2 DEF Captures

(* A restart ends all the runs and leaves the rest. *)
LEMMA CrashKeeps ==
    ASSUME BInv, Crash, TInv', EnvSame
    PROVE  BInv'
<1>0. TInv /\ Known /\ Real
  BY DEF BInv
<1>1. /\ \A s \in Slots : call'[s] = Idle
      /\ UNCHANGED <<session, ledger, stripe, events>>
  BY DEF Crash
<1>2. Idle.i \notin Intents /\ There(Idle.g)' /\ Idle.at = "idle"
  BY SessionAssumption DEF Idle, There
<1>3. "idle" \notin AcceptLabels \cup CancellingLabels
  BY LabelKinds DEF Calm
<1>4. Charged' <=> Charged
  BY DEF EnvSame, Charged
<1>5. Known'
  BY <1>0, <1>1, <1>2, <1>4 DEF Known, Live, Recorded
<1>6. Real'
  BY <1>0, <1>1, <1>2 DEF Real, There
<1>7. Captures' /\ Claims'
  BY <1>1, <1>2, <1>3 DEF Captures, Covered, Claims, Claiming, AcceptLabels, ConfirmingLabels
<1> QED BY <1>5, <1>6, <1>7 DEF BInv

LEMMA BooksStep == ASSUME BInv, Next PROVE BInv'
<1>1. TInv' /\ EnvSame
  BY TypesStep DEF BInv
<1>2. CASE Crash
  BY <1>1, <1>2, CrashKeeps
<1>3. CASE ~Crash
  <2>1. PICK s, G : Frame(s, G)
    BY <1>3, FrameStep
  <2> QED BY <1>1, <2>1, NamesStay, ClaimsStay, CapturesStay DEF BInv
<1> QED BY <1>2, <1>3

LEMMA BooksInit == Init => BInv
<1> SUFFICES ASSUME Init PROVE BInv
  OBVIOUS
<1>1. \A s \in Slots : call[s].at = "idle" /\ call[s].i \notin Intents /\ call[s].g = NoSession
  BY SessionAssumption DEF Init, Idle
<1>2. "idle" \notin AcceptLabels \cup CancellingLabels
  BY LabelKinds DEF Calm
<1>3. Captures /\ Claims
  BY <1>1, <1>2 DEF Captures, Covered, Claims, Claiming, AcceptLabels, ConfirmingLabels
<1>4. Known
  BY <1>1 DEF Init, Known, Live, Recorded
<1>5. Real
  BY <1>1, SessionAssumption DEF Init, Real, There
<1> QED BY <1>3, <1>4, <1>5, TypesInit DEF BInv

LEMMA BooksAlways == Spec => []BInv
<1>1. BInv /\ [Next]_sessionVars => BInv'
  <2> SUFFICES ASSUME BInv, [Next]_sessionVars PROVE BInv'
    OBVIOUS
  <2>1. CASE Next
    BY <2>1, BooksStep
  <2>2. CASE UNCHANGED sessionVars
    BY <2>2
       DEF sessionVars, BInv, TInv, DataOK, SessionOK, LedgerOK, StripeOK, EventsOK, WorldOK,
       CallsOK, Knows, Known, Real, Captures, Covered, Booked, Claims, Claiming, Charged,
       Live, There, Recorded
  <2> QED BY <2>1, <2>2
<1> QED BY <1>1, BooksInit, PTL DEF Spec

(* The student's hold is captured only once its charge is on the books, in *)
(* every environment: captureBookingHold inserts the row first, and what   *)
(* takes a row away again lets go of the hold first.                       *)
THEOREM CapturesAreBooked == Spec => CaptureIsOnBooks
<1>1. ASSUME BInv, [Next]_sessionVars, NEW i \in Intents,
             stripe[i].st = "hold", stripe'[i].st = "succeeded"
      PROVE  Recorded(i)
  <2>1. Next /\ ~Crash
    BY <1>1 DEF sessionVars, Crash
  <2>2. PICK s, G : Frame(s, G)
    BY <1>1, <2>1, FrameStep
  <2>3. PICK t \in Slots :
            /\ call[t].at \in {"accept.capture", "accept.collect"}
            /\ call[t].g = ledger[i].g
    BY <1>1, <2>2 DEF Frame, StripeFrame, Opened, Settled, Someone
  <2>4. call[t].g \in Sessions
    BY <1>1, <2>3 DEF BInv, TInv, CallsOK, Knows, WithSession, AcceptLabels, ConfirmingLabels
  <2> QED
    BY <1>1, <2>3, <2>4, SessionAssumption DEF BInv, TInv, DataOK, LedgerOK
<1>2. BInv /\ [Next]_sessionVars
      => [\A i \in Intents :
            stripe[i].st = "hold" /\ stripe'[i].st = "succeeded" => Recorded(i)]_sessionVars
  BY <1>1
<1> QED BY <1>2, BooksAlways, PTL DEF Spec, CaptureIsOnBooks

-----------------------------------------------------------------------------
(* Where nobody accepts twice, and where a student who pays for an offer   *)
(* neither checks out nor submits again, a session has one payment.        *)
OnePayment ==
    /\ "twice" \notin Calls
    /\ "pay" \in Calls => {"again", "resubmit"} \cap Calls = {}

CardStatus == {"hold", "canceled", "succeeded"}

(* Offers are paid by the one intent there is; without offers every intent *)
(* is a request's, which is the only card that pays for its session.       *)
PayRule ==
    IF "pay" \in Calls THEN \A i, j \in Intents : Live(i) /\ Live(j) => i = j
    ELSE \A i \in Intents : stripe[i].g = NoSession
RequestRoot ==
    Charged => \A g \in Sessions :
        session[g].st # "none" /\ session[g].by = "student" /\ session[g].mode = "card"
            => \E i \in Intents : Live(i) /\ stripe[i].g = NoSession
RowsOwned ==
    \A i \in Intents : ledger[i].charge = "withheld" =>
        /\ stripe[i].g = NoSession
        /\ stripe[i].st \in CardStatus
        /\ session[ledger[i].g].mode = "card"
OneRow ==
    \A i, j \in Intents : ledger[i].g \in Sessions /\ ledger[j].g = ledger[i].g => i = j
Payments == PayRule /\ RequestRoot /\ RowsOwned /\ OneRow

(* A request that has no row yet has its session to itself. *)
FreshRun(s) ==
    "pay" \notin Calls /\ call[s].at \in BookLabels =>
        /\ \A j \in Intents : ledger[j].g # call[s].g
        /\ \A t \in Slots : call[t].at \in BookLabels /\ call[t].g = call[s].g => t = s

RequestRun(s) ==
    LET c == call[s] IN c.at \in RequestLabels =>
        /\ c.i \in Intents => stripe[c.i].g = NoSession
        /\ c.at \in ParkLabels => session[c.g].mode = "card"
        /\ c.at = "request.park" => c.pays = "held"
        /\ c.pays = "held" => stripe[c.i].st \in CardStatus

(* Where the expert and the student go when they accept. *)
FindLabels == {"accept.parked", "accept.window", "accept.secured"}
ExpertLabels ==
    FindLabels \cup
    {"accept.activate", "accept.undo", "accept.undoRow", "accept.collect",
     "accept.capProbe", "accept.restore", "accept.rowFail", "accept.book"}
StudentLabels ==
    {"accept.paid", "accept.consumed", "accept.probe", "accept.activate",
     "accept.undo", "accept.insert", "accept.abort", "accept.capture",
     "accept.capProbe", "accept.capCancel", "accept.capDelete",
     "accept.restore", "accept.book", "accept.append"}
Expert(s) == call[s].at \in AcceptLabels /\ call[s].who = "expert"
Student(s) == call[s].at \in AcceptLabels /\ call[s].who = "student"

(* The expert takes the hold that was parked for the request.              *)
ExpertKnows(s) ==
    LET c == call[s] IN
        /\ c.at \in ExpertLabels
        /\ c.pays \in {"none", "held"}
        /\ c.at \in ConfirmingLabels \cup ConfirmedLabels => c.row
        /\ c.at = "accept.activate" => (c.row <=> c.pays = "held")
        /\ c.at \in FindLabels => ~c.row /\ c.pays = "none"
        /\ session[c.g].by = "student"
        /\ Charged /\ c.at \in {"accept.secured", "accept.activate"}
               => session[c.g].mode = "card"
ExpertHolds(s) ==
    LET c == call[s] IN
        /\ c.row => /\ ledger[c.i].g = c.g
                    /\ stripe[c.i].g = NoSession
                    /\ stripe[c.i].st \in CardStatus
        /\ c.at = "accept.restore" => stripe[c.i].st \in {"hold", "canceled"}
ExpertAlone(s) ==
    \A t \in Slots : Expert(t) /\ call[t].g = call[s].g => t = s

(* The student takes the hold of a payment that names the session.         *)
(* Untaken: the labels at which the run has not taken it.                  *)
Untaken == {"accept.insert", "accept.abort", "accept.capCancel",
            "accept.capDelete", "accept.restore"}
StudentKnows(s) ==
    LET c == call[s] IN
        /\ "pay" \in Calls
        /\ c.at \in StudentLabels /\ ~c.row
        /\ c.at \in ConfirmingLabels => c.pays = "held"
StudentHolds(s) ==
    LET c == call[s] IN
        /\ Charged => c.i \in Intents /\ stripe[c.i].g = c.g /\ stripe[c.i].sent
        /\ c.at \in ConfirmingLabels => stripe[c.i].st \in CardStatus
        /\ c.at \in Untaken \/ (c.at = "accept.activate" /\ c.pays = "held")
               => stripe[c.i].st \in {"hold", "canceled"}
StudentAlone(s) ==
    Charged => \A t \in Slots : Student(t) /\ call[t].i = call[s].i => t = s

(* The session is not confirmed before this run confirms it. *)
Deciding(s) ==
    \/ call[s].at \in {"accept.secured", "accept.paid", "accept.consumed",
                       "accept.probe", "accept.activate"}
    \/ call[s].at = "accept.parked" /\ session[call[s].g].mode = "card"
Unconfirmed(s) == Charged /\ Deciding(s) => session[call[s].g].st # "active"

RunRule(s) ==
    /\ FreshRun(s) /\ RequestRun(s)
    /\ Expert(s) => ExpertKnows(s) /\ ExpertHolds(s) /\ ExpertAlone(s)
    /\ Student(s) => StudentKnows(s) /\ StudentHolds(s) /\ StudentAlone(s)
    /\ Unconfirmed(s)
Runs == \A s \in Slots : RunRule(s)

JInv == BInv /\ OnePayment /\ Payments /\ Runs

-----------------------------------------------------------------------------
(* How a run comes to the next label of createGroupChatByUser.             *)
Requests(s) ==
    /\ At(s, "idle") /\ call'[s].pays = "none" /\ call'[s].g = NoSession
    /\ \/ call'[s].at = "request.create" /\ call'[s].i \notin Intents
       \/ /\ call'[s].at = "request.consumed"
          /\ Live(call'[s].i) /\ stripe[call'[s].i].g = NoSession
Probes(s) ==
    /\ At(s, "request.probe") /\ call'[s].at = "request.create"
    /\ call'[s].i = call[s].i /\ call'[s].g = call[s].g
    /\ call'[s].pays = FoundAs(call[s].i)
Creates(s) ==
    /\ At(s, "request.create")
    /\ call'[s].i = call[s].i /\ call'[s].pays = call[s].pays
    /\ \/ call'[s].at = "request.park" /\ call[s].pays = "held"
       \/ call'[s].at = "request.append"
    /\ call'[s].g \in Sessions
    /\ session[call'[s].g].st = "none" /\ session'[call'[s].g].mode = "card"
Parks(s, l, m) ==
    \/ l = "request.consumed" /\ m = "request.probe"
    \/ l = "request.create" /\ m = "request.fail"
    \/ l = "request.park" /\ m = "request.deadline"
    \/ l = "request.park" /\ m \in {"request.rollback", "request.abort"} /\ UNCHANGED ledger
    \/ l = "request.abort" /\ m = "request.rollback"

RequestMoves(s) ==
    \/ Requests(s) \/ Probes(s) \/ Creates(s)
    \/ Keeps(s) /\ Parks(s, call[s].at, call'[s].at)

LEMMA RequestMove ==
    ASSUME TInv, NEW s \in Slots, BookingCall(s) \/ BookingStep(s),
           call'[s].at \in RequestLabels
    PROVE  RequestMoves(s)
<1>0. SessionOK /\ LedgerOK /\ StripeOK /\ CallsOK /\ call[s] \in Run(Labels)
  BY DEF TInv, DataOK, CallsOK
<1>g. /\ \A l : Goto(s, l) => call'[s].at = l /\ Keeps(s)
      /\ ~Finish(s)
      /\ \A l \in MoneyBackLabels \cup AcceptLabels \cup {"idle"} : call'[s].at # l
  <2>1. \A l \in MoneyBackLabels \cup AcceptLabels \cup {"idle"} : l \notin RequestLabels
    BY LabelKinds DEF Calm
  <2> QED BY <1>0, <2>1, Goes DEF Idle
<1>1. ASSUME \/ OrphanRecorded(s) \/ OrphanHold(s) \/ OrphanCancel(s)
             \/ RefundStep(s) \/ RefundFails(s) \/ RefundRow(s)
             \/ RefundSession(s) \/ RefundLive(s) \/ RefundCancel(s)
      PROVE  FALSE
  BY <1>g, <1>1
     DEF OrphanRecorded, OrphanHold, OrphanCancel, RefundStep, RefundFails, RefundRow,
     RefundSession, RefundLive, RefundCancel, MoneyBackLabels
<1>2. CASE RequestConsumed(s) \/ RequestRejected(s)
  BY <1>2, <1>g DEF RequestConsumed, RequestRejected, At, RequestMoves, Parks, MoneyBackLabels
<1>3. CASE \/ RequestFail(s) \/ RequestRollback(s) \/ RequestDeadline(s) \/ RequestAppend(s)
  BY <1>3, <1>g DEF RequestFail, RequestRollback, RequestDeadline, RequestAppend
<1>4. CASE RequestPark(s) \/ RequestParkFails(s) \/ RequestAbort(s)
  BY <1>4, <1>g DEF RequestPark, RequestParkFails, RequestAbort, At, RequestMoves, Parks
<1>5. CASE RequestProbe(s)
  <2>1. call' = [call EXCEPT ![s].at = "request.create", ![s].pays = FoundAs(call[s].i)]
    BY <1>5, <1>g DEF RequestProbe
  <2>2. Probes(s)
    BY <1>0, <1>5, <2>1 DEF RequestProbe, Probes, CallsOK, Run
  <2> QED BY <2>2 DEF RequestMoves
<1>6. CASE RequestCreate(s)
  <2>1. PICK g \in Sessions :
            /\ session[g].st = "none"
            /\ NewSession(g, "student",
                   IF call[s].i = NoIntent /\ Charged THEN "wallet" ELSE "card",
                   IF call[s].pays = "none" THEN "set" ELSE "none", "none")
            /\ \/ /\ call[s].pays = "held"
                  /\ call' = [call EXCEPT ![s].at = "request.park", ![s].g = g]
               \/ /\ call[s].pays # "none"
                  /\ call' = [call EXCEPT ![s].at = "request.append", ![s].g = g]
    BY <1>6, <1>g DEF RequestCreate
  <2>2. call[s].i # NoIntent
    BY <1>0, <2>1, KnowsOK, SessionAssumption
  <2>3. session'[g].mode = "card"
    BY <1>0, <2>1, <2>2 DEF NewSession, SessionOK
  <2>4. Creates(s)
    BY <1>0, <1>6, <2>1, <2>3 DEF RequestCreate, Creates, CallsOK, Run
  <2> QED BY <2>4 DEF RequestMoves
<1>7. ASSUME Propose(s) PROVE FALSE
  BY <1>7, <1>g DEF Propose, Calling, At
<1>8. ASSUME NEW i \in Intents \cup {NoIntent}, Request(s, i) PROVE Requests(s)
  <2>1. call[s] = Idle
    BY <1>0, <1>8, FreeSlot DEF Request, Calling
  <2>2. CASE i = NoIntent
    <3>1. call' = [call EXCEPT ![s].at = "request.create"]
      BY <1>8, <2>2 DEF Request
    <3>2. /\ call'[s].at = "request.create" /\ call'[s].i = NoIntent /\ call'[s].pays = "none"
          /\ call'[s].g = NoSession
      BY <1>0, <2>1, <3>1 DEF CallsOK, Idle
    <3> QED BY <1>8, <3>2, SessionAssumption DEF Request, Calling, Requests
  <2>3. CASE i # NoIntent
    <3>1. call' = [call EXCEPT ![s].at = "request.consumed", ![s].i = i]
      BY <1>8, <2>3 DEF Request
    <3>2. /\ call'[s].at = "request.consumed" /\ call'[s].i = i /\ call'[s].pays = "none"
          /\ call'[s].g = NoSession
      BY <1>0, <2>1, <3>1 DEF CallsOK, Idle
    <3> QED BY <1>8, <2>3, <3>2 DEF Request, Calling, Requests, Submittable, Live
  <2> QED BY <2>2, <2>3
<1>9. ASSUME NEW g \in Sessions, AcceptAsExpert(s, g) PROVE FALSE
  <2>1. PICK lapsed \in BOOLEAN, window \in BOOLEAN :
            call' = [call EXCEPT ![s].at = "accept.parked", ![s].g = g,
                ![s].who = "expert", ![s].lapsed = lapsed, ![s].window = window]
    BY <1>9 DEF AcceptAsExpert
  <2>2. call'[s].at = "accept.parked"
    BY <1>0, <2>1 DEF CallsOK, Run
  <2> QED BY <1>g, <2>2 DEF AcceptLabels, ReadLabels
<1>10. ASSUME NEW g \in Sessions, NEW i \in Intents \cup {NoIntent}, AcceptAsStudent(s, g, i)
       PROVE  FALSE
  <2>1. CASE Orphaned(s, g, i)
    <3>1. call' = [call EXCEPT ![s].at = "orphan.recorded", ![s].g = g, ![s].i = i]
      BY <1>g, <2>1 DEF Orphaned
    <3>2. call'[s].at = "orphan.recorded"
      BY <1>0, <3>1 DEF CallsOK, Run
    <3> QED BY <1>g, <3>2 DEF MoneyBackLabels
  <2>2. CASE ~Orphaned(s, g, i)
    <3>1. PICK lapsed \in BOOLEAN, window \in BOOLEAN :
              call' = [call EXCEPT ![s].at = "accept.paid", ![s].g = g, ![s].i = i,
                  ![s].who = "student", ![s].lapsed = lapsed, ![s].window = window]
      BY <1>10, <2>2 DEF AcceptAsStudent
    <3>2. call'[s].at = "accept.paid"
      BY <1>0, <3>1 DEF CallsOK, Run
    <3> QED BY <1>g, <3>2 DEF AcceptLabels, ReadLabels
  <2> QED BY <2>1, <2>2
<1>11. ASSUME AcceptParked(s) \/ AcceptProbe(s) \/ AcceptActivateFails(s) \/ AcceptPaid(s)
       PROVE  FALSE
  <2>1. \A l, i, p, r : call' = [call EXCEPT ![s].at = l, ![s].i = i, ![s].pays = p,
                                            ![s].row = r] => call'[s].at = l
    BY <1>0 DEF CallsOK, Run
  <2>2. /\ \A l, p : call' = [call EXCEPT ![s].at = l, ![s].pays = p] => call'[s].at = l
        /\ \A l, r : call' = [call EXCEPT ![s].at = l, ![s].row = r] => call'[s].at = l
        /\ \A l, g, i : call' = [call EXCEPT ![s].at = l, ![s].g = g, ![s].i = i]
                           => call'[s].at = l
    <3>1. \A l, p : call' = [call EXCEPT ![s].at = l, ![s].pays = p] => call'[s].at = l
      BY <1>0 DEF CallsOK, Run
    <3>2. \A l, r : call' = [call EXCEPT ![s].at = l, ![s].row = r] => call'[s].at = l
      BY <1>0 DEF CallsOK, Run
    <3>3. \A l, g, i : call' = [call EXCEPT ![s].at = l, ![s].g = g, ![s].i = i]
                          => call'[s].at = l
      BY <1>0 DEF CallsOK, Run
    <3> QED BY <3>1, <3>2, <3>3
  <2>3. AcceptParked(s) => call'[s].at \in AcceptLabels
    BY <1>g, <2>1 DEF AcceptParked, AcceptLabels, ReadLabels
  <2>4. AcceptProbe(s) \/ AcceptActivateFails(s)
        => call'[s].at \in AcceptLabels \cup MoneyBackLabels
    BY <1>g, <2>2
       DEF AcceptProbe, AcceptActivateFails, AcceptLabels, ReadLabels, UndoLabels,
       MoneyBackLabels
  <2>5. AcceptPaid(s) => call'[s].at \in AcceptLabels \cup MoneyBackLabels
    BY <1>g, <2>2 DEF AcceptPaid, Orphaned, AcceptLabels, ReadLabels, MoneyBackLabels
  <2> QED BY <1>g, <1>11, <2>3, <2>4, <2>5
<1>12. ASSUME \/ AcceptWindow(s) \/ AcceptSecured(s) \/ AcceptConsumed(s)
              \/ AcceptActivate(s) \/ AcceptUndo(s) \/ AcceptUndoRow(s)
       PROVE  FALSE
  BY <1>g, <1>12
     DEF AcceptWindow, AcceptSecured, AcceptConsumed, AcceptActivate, AcceptUndo,
     AcceptUndoRow, AcceptLabels, ReadLabels, UndoLabels, ConfirmingLabels,
     ConfirmedLabels, MoneyBackLabels
<1>13. ASSUME \/ AcceptInsert(s) \/ AcceptInsertFails(s) \/ AcceptAbort(s)
              \/ AcceptCapture(s) \/ AcceptNotCaptured(s) \/ AcceptCapProbe(s)
              \/ AcceptCapCancel(s) \/ AcceptCapStuck(s) \/ AcceptCapDelete(s)
              \/ AcceptRestore(s) \/ AcceptRowFail(s) \/ AcceptBook(s)
              \/ AcceptBookLost(s) \/ AcceptAppend(s)
       PROVE  FALSE
  BY <1>g, <1>13
     DEF AcceptInsert, AcceptInsertFails, AcceptAbort, AcceptCapture, AcceptNotCaptured,
     AcceptCapProbe, AcceptCapCancel, AcceptCapStuck, AcceptCapDelete, AcceptRestore,
     AcceptRowFail, AcceptBook, AcceptBookLost, AcceptAppend, AcceptLabels,
     ConfirmingLabels, ConfirmedLabels
<1> QED
  BY <1>1, <1>2, <1>3, <1>4, <1>5, <1>6, <1>7, <1>8, <1>9, <1>10, <1>11, <1>12, <1>13
     DEF BookingCall, BookingStep, RequestMoves

-----------------------------------------------------------------------------
(* Who accepts: an expert alone with the request, or the student who pays. *)
LEMMA Actors ==
    ASSUME JInv, NEW t \in Slots
    PROVE  /\ call[t].at \in AcceptLabels => Expert(t) \/ Student(t)
           /\ Expert(t) \/ Student(t) => call[t].g \in Sessions /\ session[call[t].g].st # "none"
           /\ Expert(t) => ExpertKnows(t) /\ ExpertHolds(t) /\ ExpertAlone(t)
           /\ Student(t) => StudentKnows(t) /\ StudentHolds(t) /\ StudentAlone(t)
           /\ call[t].i \in Intents => Live(call[t].i) /\ Charged
<1>1. CallsOK /\ Known /\ Real /\ RunRule(t)
  BY DEF JInv, BInv, TInv, Runs
<1>2. call[t].at \in AcceptLabels => call[t].who \in {"expert", "student"}
  BY <1>1 DEF CallsOK, Knows, Run
<1>3. Expert(t) \/ Student(t) => call[t].g \in Sessions /\ There(call[t].g)
  BY <1>1 DEF Expert, Student, CallsOK, Knows, WithSession, Real
<1> QED BY <1>1, <1>2, <1>3 DEF Expert, Student, There, RunRule, Known

LEMMA TwoActors ==
    ASSUME JInv, NEW t \in Slots, NEW u \in Slots
    PROVE  /\ Expert(t) /\ Expert(u) /\ call[t].g = call[u].g => t = u
           /\ Student(t) /\ Student(u) /\ Charged => t = u
           /\ Expert(t) /\ Student(u) /\ call[t].row => call[t].i # call[u].i
           /\ ~ /\ Expert(t) /\ Student(u) /\ Charged
                /\ session[call[t].g].mode = "card"
<1>0. CallsOK /\ PayRule /\ RequestRoot
  BY DEF JInv, BInv, TInv, Payments
<1>1. Expert(t) /\ Expert(u) /\ call[t].g = call[u].g => t = u
  BY Actors DEF ExpertAlone
<1>2. ASSUME Student(t), Student(u), Charged PROVE t = u
  <2>1. /\ call[t].i \in Intents /\ Live(call[t].i)
        /\ call[u].i \in Intents /\ Live(call[u].i)
    BY <1>2, Actors DEF StudentHolds
  <2>2. call[t].i = call[u].i
    BY <1>0, <1>2, <2>1, Actors DEF PayRule, StudentKnows
  <2> QED BY <1>2, <2>2, Actors DEF StudentAlone
<1>3. ASSUME Expert(t), Student(u), call[t].row, call[t].i = call[u].i PROVE FALSE
  <2>1. call[t].i \in Intents
    BY <1>0, <1>3 DEF CallsOK, Knows
  <2>2. stripe[call[t].i].g = NoSession /\ stripe[call[u].i].g = call[u].g
    BY <1>3, <2>1, Actors DEF ExpertHolds, StudentHolds
  <2> QED BY <1>3, <2>2, Actors, SessionAssumption
<1>4. ASSUME Expert(t), Student(u), Charged, session[call[t].g].mode = "card" PROVE FALSE
  <2>1. PICK j \in Intents : Live(j) /\ stripe[j].g = NoSession
    BY <1>0, <1>4, Actors DEF RequestRoot, ExpertKnows
  <2>2. call[u].i \in Intents /\ Live(call[u].i) /\ stripe[call[u].i].g = call[u].g
    BY <1>4, Actors DEF StudentHolds
  <2>3. j = call[u].i
    BY <1>0, <1>4, <2>1, <2>2, Actors DEF PayRule, StudentKnows
  <2> QED BY <1>4, <2>1, <2>2, <2>3, Actors, SessionAssumption
<1> QED BY <1>1, <1>2, <1>3, <1>4

(* The row the expert's run knows stays. *)
LEMMA RowKept ==
    ASSUME JInv, NEW s, NEW G, Frame(s, G), NEW t \in Slots, Expert(t), NEW i \in Intents,
           (call[t].row /\ call[t].i = i) \/ ledger[i].charge = "withheld",
           ledger[i].g = call[t].g
    PROVE  ledger'[i].g = call[t].g
<1>0. CallsOK /\ LedgerOK /\ call[t].g \in Sessions
  BY Actors DEF JInv, BInv, TInv, DataOK
<1>1. Recorded(i)
  BY <1>0, SessionAssumption DEF LedgerOK
<1>2. stripe[i].g = NoSession
  BY Actors DEF ExpertHolds, JInv, Payments, RowsOwned
<1>3. ASSUME NEW u \in Slots, At(u, "accept.capDelete"), call[u].i = i PROVE FALSE
  <2>1. Student(u)
    BY <1>3, Actors DEF At, AcceptLabels, ConfirmingLabels, ExpertKnows, ExpertLabels, FindLabels
  <2>2. stripe[i].g = call[u].g /\ call[u].g \in Sessions
    BY <1>3, <2>1, Actors DEF StudentHolds
  <2> QED BY <1>2, <2>2, SessionAssumption
<1>4. ledger'[i].g = ledger[i].g \/ RowDeleted(i)
  BY <1>1 DEF Frame, LedgerFrame, RowStays, RowAdded
<1> QED BY <1>3, <1>4 DEF RowDeleted

(* A card's payment stays a card's. *)
LEMMA CardStays ==
    ASSUME NEW s, NEW G, Frame(s, G), NEW i \in Intents, Live(i),
           stripe[i].st \in CardStatus
    PROVE  stripe'[i].st \in CardStatus
<1>1. Settled(i, G, stripe[i].st, stripe'[i].st)
  BY DEF Frame, StripeFrame, Opened, Live
<1> QED BY <1>1 DEF Settled, CardStatus

(* A hold is taken by the run that works for it. *)
LEMMA HoldStays ==
    ASSUME JInv, NEW s, NEW G, Frame(s, G), NEW t \in Slots,
           (Expert(t) /\ call[t].row) \/ Student(t), call[t].i \in Intents
    PROVE  ~Moves(t) \/ call[t].at \notin {"accept.capture", "accept.collect"}
           => (stripe[call[t].i].st \in {"hold", "canceled"}
               => stripe'[call[t].i].st \in {"hold", "canceled"})
<1> DEFINE i == call[t].i
<1>0. CallsOK /\ Live(i) /\ Charged
  BY Actors DEF JInv, BInv, TInv
<1>1. Settled(i, G, stripe[i].st, stripe'[i].st)
  BY <1>0 DEF Frame, StripeFrame, Opened, Live
<1>3. ASSUME ~Moves(t) \/ call[t].at \notin {"accept.capture", "accept.collect"},
             ledger[i].g = G, Someone({"accept.capture", "accept.collect"}, i, G)
      PROVE  FALSE
  <2>1. PICK u \in Slots : /\ call[u].at \in {"accept.capture", "accept.collect"}
                           /\ call[u].i = i /\ call[u].g = G /\ Moves(u)
    BY <1>3 DEF Someone
  <2>2. u # t
    BY <1>3, <2>1
  <2>3. Expert(u) \/ Student(u)
    BY <2>1, Actors DEF AcceptLabels, ConfirmingLabels
  <2>4. CASE Expert(u)
    <3>1. call[u].row
      BY <2>1, <2>4, Actors DEF ExpertKnows, ConfirmingLabels
    <3>2. ~Student(t)
      BY <2>1, <2>4, <3>1, TwoActors
    <3>3. ledger[i].g = call[t].g
      BY <3>2, Actors DEF ExpertHolds
    <3> QED BY <1>3, <2>1, <2>2, <2>4, <3>2, <3>3, TwoActors
  <2>5. CASE Student(u)
    BY <1>0, <2>1, <2>2, <2>5, TwoActors
  <2> QED BY <2>3, <2>4, <2>5
<1> QED BY <1>1, <1>3 DEF Settled

(* A session becomes active by the run that activates it. *)
LEMMA NewlyActive ==
    ASSUME NEW s, NEW G, Frame(s, G), NEW h \in Sessions,
           session'[h].st = "active", session[h].st # "active"
    PROVE  s \in Slots /\ At(s, "accept.activate") /\ call[s].g = h /\ Moves(s)
<1>1. PICK u \in Slots : At(u, "accept.activate") /\ call[u].g = h /\ Moves(u)
  BY DEF Frame, SessionFrame, Statuses
<1> QED BY <1>1 DEF Frame, CallFrame, Moves

(* One payment for each session. *)
LEMMA NoSecondIntent ==
    ASSUME JInv, EnvSame, NEW s, NEW G, Frame(s, G)
    PROVE  PayRule' /\ RequestRoot'
<1>0. BInv /\ PayRule /\ RequestRoot /\ OnePayment /\ Known /\ TInv
  BY DEF JInv, BInv, Payments
<1>1. Calls' = Calls /\ (Charged' <=> Charged)
  BY DEF EnvSame, Calls, Charged
<1>2. ASSUME "pay" \in Calls, NEW i \in Intents, NEW j \in Intents, Live(i)', Live(j)'
      PROVE  i = j
  <2>1. ASSUME NEW k \in Intents, NEW l \in Intents, Opened(k), Live(l)', l # k
        PROVE  FALSE
    <3>1. ~Live(l)
      BY <1>0, <1>2, <2>1 DEF Opened, OnePayment
    <3>2. ~Live(k)
      BY <2>1 DEF Opened, Live
    <3>3. Opened(l)
      BY <1>0, <2>1, <3>1, Lasts
    <3>4. \A m \in Intents : m # k => stripe'[m] = stripe[m]
      <4>1. ~(stripe'[k].g = stripe[k].g /\ Settled(k, G, stripe[k].st, stripe'[k].st))
        BY <2>1 DEF Opened, Settled
      <4> QED BY <4>1 DEF Frame, StripeFrame
    <3> QED BY <2>1, <3>1, <3>4 DEF Live
  <2>2. (Live(i) \/ Opened(i)) /\ (Live(j) \/ Opened(j))
    BY <1>0, <1>2, Lasts
  <2> QED BY <1>0, <1>2, <2>1, <2>2 DEF PayRule
<1>3. ASSUME "pay" \notin Calls, NEW i \in Intents PROVE stripe'[i].g = NoSession
  BY <1>0, <1>3, Lasts DEF PayRule, Opened
<1>4. ASSUME Charged, NEW g \in Sessions, session'[g].st # "none",
             session'[g].by = "student", session'[g].mode = "card"
      PROVE  \E i \in Intents : Live(i)' /\ stripe'[i].g = NoSession
  <2>1. PICK i \in Intents : Live(i) /\ stripe[i].g = NoSession
    <3>1. CASE session[g].st # "none"
      BY <1>0, <1>4, <3>1, Lasts DEF RequestRoot
    <3>2. CASE session[g].st = "none"
      <4>1. PICK u \in Slots : At(u, "request.create") /\ call[u].i \in Intents
        BY <1>4, <3>2 DEF Frame, SessionFrame, Statuses
      <4> QED BY <1>0, <4>1 DEF JInv, Runs, RunRule, RequestRun, RequestLabels, At, Known
    <3> QED BY <3>1, <3>2
  <2> QED BY <1>0, <2>1, Lasts
<1>5. PayRule'
  BY <1>1, <1>2, <1>3 DEF PayRule
<1> QED BY <1>1, <1>4, <1>5 DEF RequestRoot

LEMMA ParkedByCard ==
    ASSUME JInv, NEW s, NEW G, Frame(s, G)
    PROVE  RowsOwned'
<1>0. BInv /\ RowsOwned /\ Known /\ Real /\ CallsOK /\ LedgerOK
  BY DEF JInv, BInv, TInv, DataOK, Payments
<1>1. ASSUME NEW i \in Intents, Live(i), stripe[i].st \in CardStatus, stripe[i].g = NoSession
      PROVE  stripe'[i].st \in CardStatus /\ stripe'[i].g = NoSession
  BY <1>0, <1>1, CardStays, Lasts
<1>2. ASSUME NEW i \in Intents, ledger'[i].charge = "withheld",
             ledger[i].charge = "withheld", ledger'[i].g = ledger[i].g
      PROVE  /\ stripe'[i].g = NoSession /\ stripe'[i].st \in CardStatus
             /\ session'[ledger'[i].g].mode = "card"
  <2>1. Live(i) /\ ledger[i].g \in Sessions /\ session[ledger[i].g].st # "none"
    BY <1>0, <1>2 DEF Known, Recorded, LedgerOK, Real, There
  <2> QED BY <1>0, <1>1, <1>2, <2>1, Lasts DEF RowsOwned
<1>3. ASSUME NEW i \in Intents, Someone({"request.park"}, i, G), ledger'[i].g = G
      PROVE  /\ stripe'[i].g = NoSession /\ stripe'[i].st \in CardStatus
             /\ session'[ledger'[i].g].mode = "card"
  <2>1. PICK u \in Slots : At(u, "request.park") /\ call[u].i = i /\ call[u].g = G
    BY <1>3 DEF Someone, At
  <2>2. /\ G \in Sessions /\ session[G].st # "none" /\ Live(i)
        /\ call[u].at \in RequestLabels /\ call[u].at \in ParkLabels
    BY <1>0, <2>1 DEF CallsOK, Knows, WithSession, ParkLabels, Real, There, Known, At,
       RequestLabels
  <2>3. stripe[i].g = NoSession /\ stripe[i].st \in CardStatus /\ session[G].mode = "card"
    BY <2>1, <2>2 DEF JInv, Runs, RunRule, RequestRun, At
  <2> QED BY <1>0, <1>1, <1>3, <2>2, <2>3, Lasts
<1>4. ASSUME NEW i \in Intents, ledger'[i].charge = "withheld"
      PROVE  \/ ledger[i].charge = "withheld" /\ ledger'[i].g = ledger[i].g
             \/ Someone({"request.park"}, i, G) /\ ledger'[i].g = G
  BY <1>4 DEF Frame, LedgerFrame, RowStays, RowAdded, RowDeleted
<1> QED BY <1>2, <1>3, <1>4 DEF RowsOwned

(* A row that is added is the first of its session. *)
LEMMA FirstRow ==
    ASSUME JInv, NEW s, NEW G, Frame(s, G), NEW i \in Intents, RowAdded(i, G),
           NEW j \in Intents, j # i, G \in Sessions
    PROVE  ledger[j].g # G
<1>0. /\ OneRow /\ Known /\ Real /\ CallsOK /\ LedgerOK /\ PayRule
  BY DEF JInv, BInv, TInv, DataOK, Payments
<1> SUFFICES ASSUME ledger[j].g = G PROVE FALSE
  OBVIOUS
<1>1. Live(j) /\ Live(i)
  BY <1>0, SessionAssumption DEF LedgerOK, Known, RowAdded
<1>2. "pay" \notin Calls
  BY <1>0, <1>1 DEF PayRule
<1>3. stripe[i].g # G
  BY <1>0, <1>2, SessionAssumption DEF PayRule
<1>4. PICK u \in Slots : /\ call[u].at \in BookLabels \cup {"accept.insert", "accept.append"}
                         /\ call[u].g = G
  BY <1>3 DEF RowAdded, Someone
<1>5. call[u].at \notin BookLabels
  BY <1>2, <1>4 DEF JInv, Runs, RunRule, FreshRun
<1>6. Student(u)
  BY <1>4, <1>5, Actors
     DEF AcceptLabels, ConfirmingLabels, ConfirmedLabels, ExpertKnows, ExpertLabels, FindLabels
<1> QED BY <1>2, <1>6, Actors DEF StudentKnows

LEMMA PaymentsStay ==
    ASSUME JInv, EnvSame, NEW s, NEW G, Frame(s, G)
    PROVE  Payments'
<1>0. OneRow
  BY DEF JInv, Payments
<1>1. OneRow'
  <2> SUFFICES ASSUME NEW i \in Intents, NEW j \in Intents,
                      ledger'[i].g \in Sessions, ledger'[j].g = ledger'[i].g
               PROVE  i = j
    BY DEF OneRow
  <2>1. CASE \A k \in Intents : ledger'[k].g = ledger[k].g
    BY <1>0, <2>1 DEF OneRow
  <2>2. CASE ~ \A k \in Intents : ledger'[k].g = ledger[k].g
    <3>1. PICK k \in Intents : /\ RowAdded(k, G) \/ RowDeleted(k)
                               /\ \A l \in Intents : l # k => ledger'[l] = ledger[l]
      BY <2>2 DEF Frame, LedgerFrame, RowStays
    <3>2. CASE RowDeleted(k)
      BY <1>0, <3>1, <3>2, SessionAssumption DEF OneRow, RowDeleted
    <3>3. CASE RowAdded(k, G)
      <4>1. ledger'[k].g = G
        BY <3>3 DEF RowAdded
      <4>2. \A l \in Intents : l # k /\ G \in Sessions => ledger[l].g # G
        BY <3>3, FirstRow
      <4> QED BY <1>0, <3>1, <4>1, <4>2 DEF OneRow
    <3> QED BY <3>1, <3>2, <3>3
  <2> QED BY <2>1, <2>2
<1> QED BY <1>1, NoSecondIntent, ParkedByCard DEF Payments

-----------------------------------------------------------------------------
(* What the runs know stays true.  A run that does not move:               *)
LEMMA RequestWaits ==
    ASSUME JInv, NEW s, NEW G, Frame(s, G), NEW t \in Slots, call'[t] = call[t]
    PROVE  RequestRun(t)'
<1>0. BInv /\ CallsOK /\ RequestRun(t) /\ Known /\ Real
  BY DEF JInv, BInv, TInv, Runs, RunRule
<1> SUFFICES ASSUME call[t].at \in RequestLabels
             PROVE  /\ call[t].i \in Intents => stripe'[call[t].i].g = NoSession
                    /\ call[t].at \in ParkLabels => session'[call[t].g].mode = "card"
                    /\ call[t].at = "request.park" => call[t].pays = "held"
                    /\ call[t].pays = "held" => stripe'[call[t].i].st \in CardStatus
  BY DEF RequestRun
<1>1. call[t].i \in Intents => Live(call[t].i)
  BY <1>0 DEF Known
<1>2. call[t].at \in ParkLabels => call[t].g \in Sessions /\ session[call[t].g].st # "none"
  BY <1>0 DEF CallsOK, Knows, WithSession, Real, There
<1>3. call[t].pays = "held" => call[t].i \in Intents
  BY <1>0 DEF CallsOK, Knows
<1>4. ASSUME call[t].i \in Intents, stripe[call[t].i].st \in CardStatus
      PROVE  stripe'[call[t].i].st \in CardStatus
  BY <1>1, <1>4, CardStays
<1> QED BY <1>0, <1>1, <1>2, <1>3, <1>4, Lasts DEF RequestRun

LEMMA RequestGoesOn ==
    ASSUME JInv, NEW s \in Slots, NEW G, Frame(s, G), RequestMoves(s)
    PROVE  RequestRun(s)'
<1>0. BInv /\ CallsOK /\ RequestRun(s) /\ Known /\ Real
  BY DEF JInv, BInv, TInv, Runs, RunRule
<1>1. \A i \in Intents : Live(i) => stripe'[i].g = stripe[i].g
  BY <1>0, Lasts
<1>2. ASSUME NEW i \in Intents, Live(i), stripe[i].st \in CardStatus
      PROVE  stripe'[i].st \in CardStatus
  BY <1>2, CardStays
<1>3. /\ call[s].i \in Intents => Live(call[s].i)
      /\ call[s].pays # "none" => call[s].i \in Intents
  BY <1>0 DEF Known, CallsOK, Knows
<1>4. CASE Requests(s)
  BY <1>1, <1>4 DEF Requests, RequestRun, ParkLabels
<1>5. CASE Probes(s)
  <2>1. /\ call[s].i \in Intents /\ stripe[call[s].i].g = NoSession
        /\ FoundAs(call[s].i) = "held" => stripe[call[s].i].st \in CardStatus
    BY <1>0, <1>5
       DEF Probes, At, RequestRun, RequestLabels, CallsOK, Knows, WithIntent, FoundAs, CardStatus
  <2> QED BY <1>1, <1>2, <1>3, <1>5, <2>1 DEF Probes, RequestRun, ParkLabels
<1>6. CASE Creates(s)
  <2>1. call[s].i \in Intents => stripe[call[s].i].g = NoSession
    BY <1>0, <1>6 DEF Creates, At, RequestRun, RequestLabels
  <2>2. call[s].pays = "held" => stripe[call[s].i].st \in CardStatus
    BY <1>0, <1>6 DEF Creates, At, RequestRun, RequestLabels
  <2> QED BY <1>1, <1>2, <1>3, <1>6, <2>1, <2>2 DEF Creates, RequestRun
<1>7. CASE Keeps(s) /\ Parks(s, call[s].at, call'[s].at)
  <2>1. /\ call[s].i \in Intents => stripe[call[s].i].g = NoSession
        /\ call[s].pays = "held" => stripe[call[s].i].st \in CardStatus
        /\ call'[s].at \in ParkLabels => call[s].at \in ParkLabels /\ session[call[s].g].mode = "card"
    BY <1>0, <1>7 DEF Parks, RequestRun, RequestLabels, ParkLabels
  <2>2. call'[s].at \in ParkLabels => session'[call[s].g].mode = "card"
    <3>1. call[s].at \in ParkLabels => call[s].g \in Sessions /\ session[call[s].g].st # "none"
      BY <1>0 DEF CallsOK, Knows, WithSession, Real, There
    <3> QED BY <1>0, <2>1, <3>1, Lasts
  <2>3. call'[s].at # "request.park"
    BY <1>7 DEF Parks
  <2> QED BY <1>1, <1>2, <1>3, <1>7, <2>1, <2>2, <2>3 DEF Keeps, RequestRun
<1> QED BY <1>4, <1>5, <1>6, <1>7 DEF RequestMoves

(* A request about to book has found its session unnamed. *)
LEMMA FreshStays ==
    ASSUME JInv, EnvSame, NEW s, NEW G, Frame(s, G), NEW t \in Slots,
           \A u \in Slots : call'[u].at \in BookLabels =>
               call'[u] = call[u] \/ (u = s /\ Creates(s))
    PROVE  FreshRun(t)'
<1>0. CallsOK /\ FreshRun(t) /\ Known /\ Real /\ PayRule
  BY DEF JInv, BInv, TInv, Runs, RunRule, Payments
<1>1. "pay" \in Calls' => "pay" \in Calls
  BY DEF EnvSame, Calls
<1> SUFFICES ASSUME "pay" \notin Calls, call'[t].at \in BookLabels
             PROVE  /\ \A j \in Intents : ledger'[j].g # call'[t].g
                    /\ \A u \in Slots : call'[u].at \in BookLabels /\ call'[u].g = call'[t].g
                                            => u = t
  BY <1>1 DEF FreshRun, EnvSame, Calls
<1>2. ASSUME NEW u \in Slots, call[u].at \in BookLabels
      PROVE  call[u].g \in Sessions /\ session[call[u].g].st # "none"
  BY <1>0, <1>2 DEF CallsOK, Knows, WithSession, ParkLabels, BookLabels, Real, There
<1>3. \A j \in Intents : stripe[j].g = NoSession
  BY <1>0 DEF PayRule
<1>4. CASE call'[t] = call[t]
  <2>1. ASSUME NEW u \in Slots, call'[u].at \in BookLabels, call'[u].g = call[t].g PROVE u = t
    <3>1. CASE call'[u] = call[u]
      BY <1>0, <1>4, <2>1, <3>1 DEF FreshRun
    <3>2. CASE u = s /\ Creates(s)
      BY <1>2, <1>4, <2>1, <3>2 DEF Creates
    <3> QED BY <2>1, <3>1, <3>2
  <2>2. ASSUME NEW j \in Intents, ledger'[j].g = call[t].g PROVE FALSE
    <3>1. ledger[j].g # call[t].g
      BY <1>0, <1>4 DEF FreshRun
    <3>2. RowAdded(j, G)
      BY <1>2, <1>4, <2>2, <3>1, SessionAssumption DEF Frame, LedgerFrame, RowStays, RowDeleted
    <3>3. PICK u \in Slots : /\ call[u].at \in BookLabels \cup {"accept.insert", "accept.append"}
                             /\ call[u].g = call[t].g /\ Moves(u)
      BY <1>2, <1>3, <1>4, <2>2, <3>2, SessionAssumption DEF RowAdded, Someone
    <3>4. call[u].at \in BookLabels => u = t
      BY <1>0, <1>4, <3>3 DEF FreshRun
    <3>5. call[u].at \notin BookLabels
      BY <1>4, <3>3, <3>4 DEF Moves
    <3>6. Student(u)
      BY <3>3, <3>5, Actors
         DEF AcceptLabels, ConfirmingLabels, ConfirmedLabels, ExpertKnows, ExpertLabels, FindLabels
    <3> QED BY <3>6, Actors DEF StudentKnows
  <2> QED BY <1>4, <2>1, <2>2
<1>5. CASE t = s /\ Creates(s)
  <2>1. session[call'[t].g].st = "none"
    BY <1>5 DEF Creates
  <2>2. ASSUME NEW u \in Slots, call'[u].at \in BookLabels, call'[u].g = call'[t].g PROVE u = t
    <3>1. CASE call'[u] = call[u]
      BY <1>2, <2>1, <2>2, <3>1
    <3> QED BY <1>5, <2>2, <3>1
  <2>3. ASSUME NEW j \in Intents, ledger'[j].g = call'[t].g PROVE FALSE
    <3>1. call'[t].g \in Sessions
      BY <1>5 DEF Creates
    <3>2. ledger[j].g # call'[t].g /\ stripe[j].g # call'[t].g
      BY <1>0, <2>1, <3>1 DEF Real, There
    <3>3. RowAdded(j, G)
      BY <2>3, <3>1, <3>2, SessionAssumption DEF Frame, LedgerFrame, RowStays, RowDeleted
    <3>4. PICK u \in Slots : call[u].g = call'[t].g
      BY <2>3, <3>2, <3>3 DEF RowAdded, Someone
    <3> QED BY <1>0, <2>1, <3>1, <3>4 DEF Real, There
  <2> QED BY <2>2, <2>3
<1> QED BY <1>4, <1>5

-----------------------------------------------------------------------------
(* A run of accepting that does not move. *)
LEMMA ExpertWaits ==
    ASSUME JInv, EnvSame, NEW s, NEW G, Frame(s, G), NEW t \in Slots, Expert(t),
           call'[t] = call[t]
    PROVE  ExpertKnows(t)' /\ ExpertHolds(t)'
<1>0. BInv /\ CallsOK /\ ExpertKnows(t) /\ ExpertHolds(t)
      /\ call[t].g \in Sessions /\ session[call[t].g].st # "none"
  BY Actors DEF JInv, BInv, TInv
<1>1. ExpertKnows(t)'
  BY <1>0, Lasts DEF ExpertKnows, EnvSame, Charged
<1>2. call[t].row => call[t].i \in Intents /\ Live(call[t].i)
  BY <1>0, Actors DEF CallsOK, Knows
<1>3. call[t].row => ledger'[call[t].i].g = call[t].g
  BY <1>0, <1>2, RowKept DEF ExpertHolds
<1>4. call[t].row => stripe'[call[t].i].g = NoSession /\ stripe'[call[t].i].st \in CardStatus
  BY <1>0, <1>2, Lasts, CardStays DEF ExpertHolds
<1>5. call[t].at = "accept.restore" => stripe'[call[t].i].st \in {"hold", "canceled"}
  <2>1. call[t].at = "accept.restore" => call[t].row
    BY <1>0 DEF ExpertKnows, ConfirmingLabels
  <2> QED BY <1>0, <1>2, <2>1, HoldStays DEF ExpertHolds
<1> QED BY <1>1, <1>3, <1>4, <1>5 DEF ExpertHolds

LEMMA StudentWaits ==
    ASSUME JInv, EnvSame, NEW s, NEW G, Frame(s, G), NEW t \in Slots, Student(t),
           call'[t] = call[t]
    PROVE  StudentKnows(t)' /\ StudentHolds(t)'
<1>0. BInv /\ CallsOK /\ StudentKnows(t) /\ StudentHolds(t)
  BY Actors DEF JInv, BInv, TInv
<1>1. StudentKnows(t)'
  BY <1>0 DEF StudentKnows, EnvSame, Calls
<1>2. /\ Charged' <=> Charged
      /\ call[t].i \in Intents => Live(call[t].i)
      /\ call[t].at \in ConfirmingLabels \/ call[t].pays = "held" => call[t].i \in Intents
  BY <1>0, Actors DEF EnvSame, Charged, CallsOK, Knows, WithIntent
<1>3. Charged => stripe'[call[t].i].g = call[t].g /\ stripe'[call[t].i].sent
  BY <1>0, <1>2, Lasts DEF StudentHolds
<1>4. call[t].at \in ConfirmingLabels => stripe'[call[t].i].st \in CardStatus
  BY <1>0, <1>2, CardStays DEF StudentHolds
<1>5. call[t].at \in Untaken \/ (call[t].at = "accept.activate" /\ call[t].pays = "held")
      => stripe'[call[t].i].st \in {"hold", "canceled"}
  BY <1>0, <1>2, HoldStays DEF StudentHolds, Untaken, ConfirmingLabels, Moves
<1> QED BY <1>0, <1>1, <1>2, <1>3, <1>4, <1>5 DEF StudentHolds

LEMMA UnconfirmedWaits ==
    ASSUME JInv, EnvSame, NEW s, NEW G, Frame(s, G), NEW t \in Slots, call'[t] = call[t]
    PROVE  Unconfirmed(t)'
<1> SUFFICES ASSUME Charged, Deciding(t)', session'[call[t].g].st = "active"
             PROVE  FALSE
  BY DEF Unconfirmed, EnvSame, Charged
<1>0. BInv
  BY DEF JInv
<1>1. /\ Expert(t) \/ Student(t)
      /\ call[t].g \in Sessions /\ session[call[t].g].st # "none"
  BY Actors DEF Deciding, AcceptLabels, ReadLabels
<1>2. Deciding(t)
  BY <1>0, <1>1, Lasts DEF Deciding
<1>3. session[call[t].g].st # "active"
  BY <1>2 DEF JInv, Runs, RunRule, Unconfirmed
<1>4. s \in Slots /\ At(s, "accept.activate") /\ call[s].g = call[t].g /\ s # t
  BY <1>1, <1>3, NewlyActive DEF Moves
<1>5. Expert(s) \/ Student(s)
  BY <1>4, Actors DEF At, AcceptLabels, ReadLabels
<1>6. ASSUME Expert(t), Student(s) PROVE FALSE
  <2>1. session[call[t].g].mode = "card"
    BY <1>2, <1>6, Actors DEF Deciding, ExpertKnows, ExpertLabels, FindLabels
  <2> QED BY <1>4, <1>6, <2>1, TwoActors
<1>7. ASSUME Student(t), Expert(s) PROVE FALSE
  <2>1. session[call[s].g].mode = "card"
    BY <1>4, <1>7, Actors DEF At, ExpertKnows
  <2> QED BY <1>4, <1>7, <2>1, TwoActors
<1> QED BY <1>1, <1>4, <1>5, <1>6, <1>7, TwoActors

(* A run of accepting that moves: the expert's, *)
LEMMA ExpertGoesOn ==
    ASSUME JInv, EnvSame, NEW s \in Slots, NEW G, Frame(s, G), AcceptMoves(s),
           Expert(s)'
    PROVE  ExpertKnows(s)' /\ ExpertHolds(s)'
<1>0. /\ BInv /\ CallsOK /\ Known /\ SessionOK /\ LedgerOK /\ RowsOwned
      /\ (Charged' <=> Charged)
  BY DEF JInv, BInv, TInv, DataOK, Payments, EnvSame, Charged
<1>1. CASE ExpertStarts(s)
  <2>1. session'[call'[s].g].by = "student"
    BY <1>0, <1>1, Lasts DEF ExpertStarts, Fresh
  <2> QED
    BY <1>1, <2>1
       DEF ExpertStarts, Fresh, ExpertKnows, ExpertHolds, ExpertLabels, FindLabels,
       ConfirmingLabels, ConfirmedLabels
<1>2. ASSUME ~ExpertStarts(s) PROVE Expert(s) /\ call'[s].g = call[s].g
  <2>1. ~StudentStarts(s)
    BY DEF StudentStarts, Fresh, Expert
  <2>2. call'[s].g = call[s].g /\ call'[s].who = call[s].who /\ call[s].at \in AcceptLabels
    BY <1>2, <2>1
       DEF AcceptMoves, FindsHold, FindsPayment, GivesUp, Keeps, Reads, Takes, Settles, At,
       AcceptLabels, ReadLabels, UndoLabels, ConfirmingLabels
  <2> QED BY <2>2 DEF Expert
<1>3. ASSUME Expert(s)
      PROVE  /\ ExpertKnows(s) /\ ExpertHolds(s)
             /\ call[s].g \in Sessions /\ session[call[s].g].st # "none"
             /\ session'[call[s].g].by = "student"
             /\ session'[call[s].g].mode = session[call[s].g].mode
             /\ call[s].row => call[s].i \in Intents /\ Live(call[s].i)
  BY <1>0, <1>3, Actors, Lasts DEF CallsOK, Knows, ExpertKnows
<1>4. CASE FindsHold(s)
  <2> DEFINE i == call'[s].i
  <2>1. Expert(s) /\ ~ExpertStarts(s)
    BY <1>2, <1>4 DEF FindsHold, At, ExpertStarts, Fresh
  <2>2. /\ i \in Intents /\ ledger[i].charge = "withheld" /\ ledger[i].g = call[s].g
        /\ Live(i)
    BY <1>0, <1>4 DEF FindsHold, Parked, RowsOf, Known, Recorded
  <2>3. /\ stripe[i].g = NoSession /\ stripe[i].st \in CardStatus
        /\ session[call[s].g].mode = "card"
    BY <1>0, <2>2 DEF RowsOwned
  <2>4. ledger'[i].g = call[s].g
    BY <2>1, <2>2, RowKept
  <2>5. stripe'[i].g = NoSession /\ stripe'[i].st \in CardStatus
    BY <1>0, <2>2, <2>3, Lasts, CardStays
  <2>6. ExpertHolds(s)'
    BY <1>4, <2>4, <2>5 DEF FindsHold, ExpertHolds
  <2> QED
    BY <1>3, <1>4, <2>1, <2>3, <2>6
       DEF FindsHold, ExpertKnows, ExpertLabels, FindLabels, ConfirmingLabels, ConfirmedLabels
<1>5. ASSUME FindsPayment(s) PROVE FALSE
  BY <1>2, <1>3, <1>5
     DEF FindsPayment, At, ExpertStarts, Fresh, ExpertKnows, ExpertLabels, FindLabels
<1>6. CASE GivesUp(s)
  <2>1. Expert(s)
    BY <1>2, <1>6 DEF GivesUp, At, ExpertStarts, Fresh
  <2> QED
    BY <1>3, <1>6, <2>1
       DEF GivesUp, ExpertKnows, ExpertHolds, ExpertLabels, FindLabels, ConfirmingLabels,
       ConfirmedLabels
<1>7. ASSUME ~ExpertStarts(s), Keeps(s),
             \/ Reads(s, call[s].at, call'[s].at)
             \/ Takes(s, call[s].at, call'[s].at)
             \/ Settles(s, call[s].at, call'[s].at)
      PROVE  ExpertKnows(s)' /\ ExpertHolds(s)'
  <2>0. /\ Expert(s) /\ ExpertKnows(s) /\ ExpertHolds(s)
        /\ session[call[s].g].mode \in {"card", "wallet"}
    BY <1>0, <1>2, <1>3, <1>7 DEF SessionOK, Session
  <2>1. CASE Reads(s, call[s].at, call'[s].at)
    <3>1. /\ call'[s].at \in FindLabels \cup {"accept.activate"}
          /\ call[s].at \in FindLabels
      BY <2>0, <2>1 DEF Reads, ExpertKnows, ExpertLabels, FindLabels
    <3>2. Charged /\ call'[s].at \in {"accept.secured", "accept.activate"}
          => session[call[s].g].mode = "card"
      BY <2>0, <2>1, <3>1 DEF Reads, ExpertKnows, FindLabels
    <3>3. ~call[s].row /\ call[s].pays = "none"
      BY <2>0, <3>1 DEF ExpertKnows
    <3> QED
      BY <1>0, <1>3, <1>7, <2>0, <3>1, <3>2, <3>3
         DEF Keeps, ExpertKnows, ExpertHolds, ExpertLabels, FindLabels, ConfirmingLabels,
         ConfirmedLabels
  <2>2. CASE ~Reads(s, call[s].at, call'[s].at)
    <3>1. /\ call'[s].at \in ExpertLabels \ (FindLabels \cup {"accept.activate"})
          /\ call[s].row
          /\ call'[s].at = "accept.restore" =>
                /\ stripe[call[s].i].st # "succeeded"
                /\ call[s].at = "accept.capProbe"
      BY <1>7, <2>0, <2>2
         DEF Takes, Settles, ExpertKnows, ExpertLabels, FindLabels, ConfirmingLabels,
         ConfirmedLabels
    <3>2. ExpertKnows(s)'
      BY <1>0, <1>3, <1>7, <2>0, <3>1 DEF Keeps, ExpertKnows, FindLabels
    <3>3. /\ ledger'[call[s].i].g = call[s].g
          /\ stripe'[call[s].i].g = NoSession
          /\ stripe'[call[s].i].st \in CardStatus
      BY <1>0, <1>3, <2>0, <3>1, RowKept, Lasts, CardStays DEF ExpertHolds
    <3>4. call'[s].at = "accept.restore" => stripe'[call[s].i].st \in {"hold", "canceled"}
      BY <1>3, <2>0, <3>1, HoldStays DEF ExpertHolds, CardStatus
    <3> QED BY <1>7, <3>2, <3>3, <3>4 DEF Keeps, ExpertHolds
  <2> QED BY <2>1, <2>2
<1>8. ~StudentStarts(s)
  BY DEF StudentStarts, Fresh, Expert
<1> QED BY <1>1, <1>4, <1>5, <1>6, <1>7, <1>8 DEF AcceptMoves

(* the student's, *)
LEMMA StudentGoesOn ==
    ASSUME JInv, EnvSame, NEW s \in Slots, NEW G, Frame(s, G), AcceptMoves(s),
           Student(s)'
    PROVE  StudentKnows(s)' /\ StudentHolds(s)'
<1>0. BInv /\ CallsOK /\ Known /\ (Charged' <=> Charged) /\ (Calls' = Calls)
  BY DEF JInv, BInv, TInv, EnvSame, Charged, Calls
<1>1. CASE StudentStarts(s)
  <2>1. StudentKnows(s)'
    BY <1>0, <1>1 DEF StudentStarts, Fresh, StudentKnows, StudentLabels, ConfirmingLabels
  <2>2. Charged => call'[s].i \in Intents /\ stripe'[call'[s].i].g = call'[s].g
                   /\ stripe'[call'[s].i].sent
    BY <1>0, <1>1, Lasts DEF StudentStarts
  <2> QED
    BY <1>0, <1>1, <2>1, <2>2 DEF StudentStarts, Fresh, StudentHolds, ConfirmingLabels, Untaken
<1>2. ASSUME ~StudentStarts(s) PROVE Student(s) /\ call'[s].g = call[s].g
  <2>1. ~ExpertStarts(s)
    BY DEF ExpertStarts, Fresh, Student
  <2>2. call'[s].g = call[s].g /\ call'[s].who = call[s].who /\ call[s].at \in AcceptLabels
    BY <1>2, <2>1
       DEF AcceptMoves, FindsHold, FindsPayment, GivesUp, Keeps, Reads, Takes, Settles, At,
       AcceptLabels, ReadLabels, UndoLabels, ConfirmingLabels
  <2> QED BY <2>2 DEF Student
<1>3. ASSUME Student(s)
      PROVE  /\ StudentKnows(s) /\ StudentHolds(s)
             /\ call[s].i \in Intents => Live(call[s].i) /\ Charged
             /\ call[s].at \in ConfirmingLabels \/ call[s].pays # "none" => call[s].i \in Intents
             /\ Charged => stripe'[call[s].i].g = call[s].g /\ stripe'[call[s].i].sent
  <2>1. StudentKnows(s) /\ StudentHolds(s) /\ (call[s].i \in Intents => Live(call[s].i) /\ Charged)
    BY <1>3, Actors
  <2>2. call[s].at \in ConfirmingLabels \/ call[s].pays # "none" => call[s].i \in Intents
    BY <1>0 DEF CallsOK, Knows, WithIntent
  <2> QED BY <1>0, <2>1, <2>2, Lasts DEF StudentHolds
<1>4. ASSUME FindsHold(s) PROVE FALSE
  BY <1>2, <1>3, <1>4
     DEF FindsHold, At, StudentStarts, Fresh, StudentKnows, StudentLabels
<1>5. CASE FindsPayment(s)
  <2>1. Student(s) /\ call[s].at = "accept.probe"
    BY <1>2, <1>5 DEF FindsPayment, At, StudentStarts, Fresh
  <2>2. call'[s].pays = "held" => stripe[call[s].i].st = "hold" /\ call[s].i \in Intents
    BY <1>0, <1>5, <2>1 DEF FindsPayment, FoundAs, CallsOK, Knows, WithIntent
  <2>3. call'[s].pays = "held" => stripe'[call[s].i].st \in {"hold", "canceled"}
    BY <2>1, <2>2, HoldStays
  <2>4. StudentKnows(s)'
    BY <1>0, <1>3, <1>5, <2>1 DEF FindsPayment, StudentKnows, StudentLabels, ConfirmingLabels
  <2> QED
    BY <1>0, <1>3, <1>5, <2>1, <2>3, <2>4
       DEF FindsPayment, StudentHolds, ConfirmingLabels, Untaken
<1>6. CASE GivesUp(s)
  <2>1. Student(s)
    BY <1>2, <1>6 DEF GivesUp, At, StudentStarts, Fresh
  <2> QED
    BY <1>0, <1>3, <1>6, <2>1
       DEF GivesUp, StudentKnows, StudentHolds, StudentLabels, ConfirmingLabels, Untaken
<1>7. ASSUME ~StudentStarts(s), Keeps(s),
             \/ Reads(s, call[s].at, call'[s].at)
             \/ Takes(s, call[s].at, call'[s].at)
             \/ Settles(s, call[s].at, call'[s].at)
      PROVE  StudentKnows(s)' /\ StudentHolds(s)'
  <2>0. Student(s) /\ StudentKnows(s) /\ StudentHolds(s)
    BY <1>2, <1>3, <1>7
  <2>1. /\ call'[s].at \in StudentLabels
        /\ call'[s].at \in ConfirmingLabels => call[s].pays = "held"
    BY <1>7, <2>0 DEF Reads, Takes, Settles, StudentKnows, StudentLabels, ConfirmingLabels
  <2>2. StudentKnows(s)'
    BY <1>0, <1>7, <2>0, <2>1 DEF Keeps, StudentKnows
  <2>3. call'[s].at \in ConfirmingLabels =>
          \/ call[s].at \in ConfirmingLabels
          \/ call[s].at = "accept.activate" /\ call[s].pays = "held"
    BY <1>7, <2>0 DEF Reads, Takes, Settles, StudentKnows, StudentLabels, ConfirmingLabels
  <2>4. call'[s].at \in ConfirmingLabels => stripe'[call[s].i].st \in CardStatus
    BY <1>3, <2>0, <2>3, CardStays DEF StudentHolds, CardStatus
  <2>5. call'[s].at \in Untaken \/ (call'[s].at = "accept.activate" /\ call[s].pays = "held")
        => /\ call[s].i \in Intents
           /\ stripe[call[s].i].st \in {"hold", "canceled"}
           /\ call[s].at \notin {"accept.capture", "accept.collect"}
    BY <1>3, <1>7, <2>0
       DEF Reads, Takes, Settles, StudentKnows, StudentHolds, StudentLabels, ConfirmingLabels,
       Untaken, CardStatus
  <2>6. call'[s].at \in Untaken \/ (call'[s].at = "accept.activate" /\ call[s].pays = "held")
        => stripe'[call[s].i].st \in {"hold", "canceled"}
    BY <2>0, <2>5, HoldStays
  <2> QED BY <1>0, <1>3, <1>7, <2>0, <2>2, <2>4, <2>6 DEF Keeps, StudentHolds
<1>8. ~ExpertStarts(s)
  BY DEF ExpertStarts, Fresh, Student
<1> QED BY <1>1, <1>4, <1>5, <1>6, <1>7, <1>8 DEF AcceptMoves

(* and whoever's. *)
LEMMA UnconfirmedGoesOn ==
    ASSUME JInv, EnvSame, NEW s \in Slots, NEW G, Frame(s, G), AcceptMoves(s)
    PROVE  Unconfirmed(s)'
<1> SUFFICES ASSUME Charged, Deciding(s)', session'[call'[s].g].st = "active"
             PROVE  FALSE
  BY DEF Unconfirmed, EnvSame, Charged
<1>0. BInv /\ CallsOK /\ SessionOK /\ RowsOwned
  BY DEF JInv, BInv, TInv, DataOK, Payments
<1>1. call[s].at # "accept.activate"
  BY DEF AcceptMoves, ExpertStarts, StudentStarts, Fresh, FindsHold, FindsPayment, GivesUp,
     Reads, Takes, Settles, Deciding, At
<1>2. call'[s].g \in Sessions
  <2>1. call[s].at \in AcceptLabels \/ ExpertStarts(s) \/ StudentStarts(s)
    BY DEF AcceptMoves, FindsHold, FindsPayment, GivesUp, Reads, Takes, Settles, At,
       AcceptLabels, ReadLabels, UndoLabels, ConfirmingLabels
  <2>2. call[s].at \in AcceptLabels => call[s].g \in Sessions
    BY <1>0 DEF CallsOK, Knows, WithSession
  <2> QED
    BY <2>1, <2>2
       DEF AcceptMoves, FindsHold, FindsPayment, GivesUp, Keeps, ExpertStarts, StudentStarts, Fresh
<1>3. session[call'[s].g].st = "active"
  BY <1>1, <1>2, NewlyActive DEF At
<1>4. ~ExpertStarts(s) /\ ~StudentStarts(s)
  BY <1>3 DEF ExpertStarts, StudentStarts, Fresh
<1>5. call'[s].g = call[s].g
  BY <1>4 DEF AcceptMoves, FindsHold, FindsPayment, GivesUp, Keeps
<1>6. Deciding(s)
  <2>1. CASE FindsHold(s)
    <3>1. session[call[s].g].mode = "card"
      BY <1>0, <2>1 DEF FindsHold, Parked, RowsOf, RowsOwned
    <3> QED BY <2>1, <3>1 DEF FindsHold, At, Deciding
  <2>2. CASE FindsPayment(s)
    BY <2>2 DEF FindsPayment, At, Deciding
  <2>3. CASE Keeps(s) /\ Reads(s, call[s].at, call'[s].at)
    <3>1. session[call[s].g].mode \in {"card", "wallet"}
      BY <1>0, <1>2, <1>5 DEF SessionOK, Session
    <3> QED BY <2>3, <3>1 DEF Reads, Deciding
  <2>4. ~GivesUp(s) /\ ~Takes(s, call[s].at, call'[s].at) /\ ~Settles(s, call[s].at, call'[s].at)
    BY DEF GivesUp, Takes, Settles, Deciding
  <2> QED BY <1>4, <2>1, <2>2, <2>3, <2>4 DEF AcceptMoves
<1> QED BY <1>3, <1>5, <1>6 DEF JInv, Runs, RunRule, Unconfirmed

(* Where a run that accepts comes from. *)
LEMMA ActorsCome ==
    ASSUME JInv, NEW s, NEW G, Frame(s, G), NEW t \in Slots, call'[t].at \in AcceptLabels
    PROVE  \/ call'[t] = call[t]
           \/ t = s /\ AcceptMoves(s)
<1>1. TInv
  BY DEF JInv, BInv
<1>2. CASE call'[t] # call[t]
  <2>1. t = s /\ (BookingCall(s) \/ BookingStep(s))
    BY <1>2 DEF Frame, CallFrame
  <2> QED BY <1>1, <2>1, AcceptMove
<1> QED BY <1>2

LEMMA ExpertsCome ==
    ASSUME JInv, NEW s, NEW G, Frame(s, G), NEW t \in Slots, Expert(t)'
    PROVE  \/ Expert(t) /\ call'[t].g = call[t].g
           \/ t = s /\ ExpertStarts(s)
<1>1. call'[t] = call[t] \/ (t = s /\ AcceptMoves(s))
  BY ActorsCome DEF Expert
<1>2. ASSUME AcceptMoves(t), ~ExpertStarts(t)
      PROVE  Expert(t) /\ call'[t].g = call[t].g
  BY <1>2
     DEF AcceptMoves, StudentStarts, Fresh, FindsHold, FindsPayment, GivesUp, Keeps, Reads,
     Takes, Settles, At, Expert, AcceptLabels, ReadLabels, UndoLabels, ConfirmingLabels
<1> QED BY <1>1, <1>2 DEF Expert

LEMMA StudentsCome ==
    ASSUME JInv, NEW s, NEW G, Frame(s, G), NEW t \in Slots, Student(t)'
    PROVE  \/ Student(t) /\ call'[t].g = call[t].g /\ call'[t].i = call[t].i
           \/ t = s /\ StudentStarts(s)
<1>1. call'[t] = call[t] \/ (t = s /\ AcceptMoves(s))
  BY ActorsCome DEF Student
<1>2. ASSUME FindsHold(t) PROVE FALSE
  <2>1. Student(t) /\ call[t].at = "accept.parked"
    BY <1>2 DEF FindsHold, At, Student, AcceptLabels, ReadLabels
  <2> QED BY <2>1, Actors DEF StudentKnows, StudentLabels
<1>3. ASSUME AcceptMoves(t), ~StudentStarts(t)
      PROVE  Student(t) /\ call'[t].g = call[t].g /\ call'[t].i = call[t].i
  BY <1>2, <1>3
     DEF AcceptMoves, ExpertStarts, Fresh, FindsPayment, GivesUp, Keeps, Reads,
     Takes, Settles, At, Student, AcceptLabels, ReadLabels, UndoLabels, ConfirmingLabels
<1> QED BY <1>1, <1>3 DEF Student

(* Nobody joins the expert or the student. *)
LEMMA AloneStays ==
    ASSUME JInv, EnvSame, NEW s, NEW G, Frame(s, G), NEW t \in Slots
    PROVE  /\ Expert(t)' => ExpertAlone(t)'
           /\ Student(t)' => StudentAlone(t)'
<1>0. OnePayment /\ (Charged' <=> Charged)
  BY DEF JInv, EnvSame, Charged
<1>1. ASSUME NEW u \in Slots, NEW v \in Slots, Expert(u), u # v,
             v = s, ExpertStarts(s), call'[v].g = call[u].g
      PROVE  FALSE
  BY <1>0, <1>1 DEF ExpertStarts, Expert, OnePayment
<1>2. ASSUME NEW u \in Slots, NEW v \in Slots, Student(u), u # v,
             v = s, StudentStarts(s), call'[v].i = call[u].i, Charged
      PROVE  FALSE
  <2>1. "pay" \in Calls /\ stripe[call[u].i].sent
    BY <1>2, Actors DEF StudentKnows, StudentHolds
  <2> QED BY <1>0, <1>2, <2>1 DEF StudentStarts, OnePayment
<1>3. ASSUME NEW u \in Slots, Expert(t)', Expert(u)', call'[u].g = call'[t].g PROVE u = t
  BY <1>1, <1>3, ExpertsCome, TwoActors
<1>4. ASSUME NEW u \in Slots, Student(t)', Student(u)', call'[u].i = call'[t].i, Charged
      PROVE  u = t
  BY <1>2, <1>4, StudentsCome, TwoActors
<1> QED BY <1>0, <1>3, <1>4 DEF ExpertAlone, StudentAlone

LEMMA RunsStay ==
    ASSUME JInv, EnvSame, NEW s, NEW G, Frame(s, G)
    PROVE  Runs'
<1>0. TInv
  BY DEF JInv, BInv
<1>1. ASSUME NEW t \in Slots, call'[t].at \in RequestLabels, call'[t] # call[t]
      PROVE  t = s /\ RequestMoves(s)
  <2>1. t = s /\ (BookingCall(s) \/ BookingStep(s))
    BY <1>1 DEF Frame, CallFrame
  <2> QED BY <1>0, <1>1, <2>1, RequestMove
<1>2. ASSUME NEW t \in Slots PROVE FreshRun(t)'
  <2>1. ASSUME NEW u \in Slots, call'[u].at \in BookLabels
        PROVE  call'[u] = call[u] \/ (u = s /\ Creates(s))
    BY <1>1, <2>1 DEF BookLabels, RequestLabels, RequestMoves, Requests, Probes, Parks
  <2> QED BY <2>1, FreshStays
<1>3. ASSUME NEW t \in Slots PROVE RequestRun(t)'
  <2>1. CASE call'[t] = call[t]
    BY <2>1, RequestWaits
  <2>2. CASE call'[t] # call[t] /\ call'[t].at \in RequestLabels
    BY <1>1, <2>2, RequestGoesOn
  <2> QED BY <2>1, <2>2 DEF RequestRun
<1>4. ASSUME NEW t \in Slots, Expert(t)' PROVE ExpertKnows(t)' /\ ExpertHolds(t)'
  <2>1. CASE call'[t] = call[t]
    BY <1>4, <2>1, ExpertWaits DEF Expert
  <2>2. CASE call'[t] # call[t]
    BY <1>4, <2>2, ActorsCome, ExpertGoesOn DEF Expert
  <2> QED BY <2>1, <2>2
<1>5. ASSUME NEW t \in Slots, Student(t)' PROVE StudentKnows(t)' /\ StudentHolds(t)'
  <2>1. CASE call'[t] = call[t]
    BY <1>5, <2>1, StudentWaits DEF Student
  <2>2. CASE call'[t] # call[t]
    BY <1>5, <2>2, ActorsCome, StudentGoesOn DEF Student
  <2> QED BY <2>1, <2>2
<1>6. ASSUME NEW t \in Slots PROVE Unconfirmed(t)'
  <2>1. CASE call'[t] = call[t]
    BY <2>1, UnconfirmedWaits
  <2>2. CASE call'[t] # call[t] /\ call'[t].at \in AcceptLabels
    BY <2>2, ActorsCome, UnconfirmedGoesOn
  <2>3. CASE call'[t].at \notin AcceptLabels
    BY <2>3 DEF Unconfirmed, Deciding, AcceptLabels, ReadLabels
  <2> QED BY <2>1, <2>2, <2>3
<1> QED BY <1>2, <1>3, <1>4, <1>5, <1>6, AloneStays DEF Runs, RunRule

(* No run knows anything after a restart, or at the start. *)
LEMMA IdleRuns ==
    /\ (\A s \in Slots : call[s].at = "idle") => Runs
    /\ (\A s \in Slots : call'[s].at = "idle") => Runs'
<1>1. "idle" \notin AcceptLabels \cup RequestLabels
  BY LabelKinds DEF Calm
<1> USE <1>1
    DEF Runs, RunRule, FreshRun, BookLabels, RequestRun, Expert, Student, Unconfirmed, Deciding
<1>2. (\A s \in Slots : call[s].at = "idle") => Runs
  OBVIOUS
<1>3. (\A s \in Slots : call'[s].at = "idle") => Runs'
  OBVIOUS
<1> QED BY <1>2, <1>3

LEMMA PaymentStep == ASSUME JInv, Next PROVE JInv'
<1>1. BInv /\ BInv' /\ OnePayment /\ Payments
  BY BooksStep DEF JInv
<1>2. EnvSame
  BY <1>1, TypesStep DEF BInv
<1>3. OnePayment'
  BY <1>1, <1>2 DEF OnePayment, EnvSame, Calls
<1>4. CASE Crash
  <2>1. Payments'
    BY <1>1, <1>2, <1>4
       DEF Crash, Payments, PayRule, RequestRoot, RowsOwned, OneRow, EnvSame, Calls, Charged, Live
  <2>2. \A s \in Slots : call'[s].at = "idle"
    BY <1>4 DEF Crash, Idle
  <2>3. Runs'
    BY <2>2, IdleRuns
  <2> QED BY <1>1, <1>3, <2>1, <2>3 DEF JInv
<1>5. CASE ~Crash
  <2>1. PICK s, G : Frame(s, G)
    BY <1>1, <1>5, FrameStep
  <2> QED BY <1>1, <1>2, <1>3, <2>1, PaymentsStay, RunsStay DEF JInv
<1> QED BY <1>4, <1>5

LEMMA PaymentInit == Init /\ OnePayment => JInv
<1> SUFFICES ASSUME Init, OnePayment PROVE JInv
  OBVIOUS
<1>1. BInv
  BY BooksInit
<1>2. /\ \A g \in Sessions : session[g].st = "none"
      /\ \A i \in Intents : /\ ~Live(i) /\ stripe[i].g = NoSession
                            /\ ledger[i].charge = "none" /\ ledger[i].g = NoSession
      /\ \A s \in Slots : call[s].at = "idle"
  BY DEF Init, Live, Idle
<1>3. Payments
  BY <1>2, SessionAssumption DEF Payments, PayRule, RequestRoot, RowsOwned, OneRow
<1> QED BY <1>1, <1>2, <1>3, IdleRuns DEF JInv

LEMMA PaymentAlways == Spec /\ OnePayment => []JInv
<1>1. JInv /\ [Next]_sessionVars => JInv'
  <2> SUFFICES ASSUME JInv, [Next]_sessionVars PROVE JInv'
    OBVIOUS
  <2>1. CASE Next
    BY <2>1, PaymentStep
  <2>2. CASE UNCHANGED sessionVars
    BY <2>2
       DEF sessionVars, JInv, BInv, TInv, DataOK, SessionOK, LedgerOK, StripeOK, EventsOK,
       WorldOK, CallsOK, Knows, Known, Real, Captures, Covered, Booked, Claims, Claiming,
       Charged, Calls, Live, There, Recorded, OnePayment, Payments, PayRule, RequestRoot,
       RowsOwned, OneRow, Runs, RunRule, FreshRun, RequestRun, Expert, Student, ExpertKnows,
       ExpertHolds, ExpertAlone, StudentKnows, StudentHolds, StudentAlone, Unconfirmed, Deciding
  <2> QED BY <2>1, <2>2
<1> QED BY <1>1, PaymentInit, PTL DEF Spec

-----------------------------------------------------------------------------
(* What a step does to the life of a session.                              *)
LEMMA LifeIs ==
    ASSUME NEW h \in Sessions
    PROVE  /\ session[h].st = "none" => Life(h) = "none"
           /\ session[h].st = "pending" => Life(h) = "open"
           /\ session[h].st = "active" =>
                 Life(h) = IF Working(h, ConfirmingLabels) /\ ~Paid(h) THEN "open"
                           ELSE "confirmed"
           /\ session[h].st = "cancelled" =>
                 Life(h) = IF Working(h, CancellingLabels) THEN "open" ELSE "over"
           /\ session[h].st = "deleted" => Life(h) = "over"
           /\ session'[h].st = "none" => Life(h)' = "none"
           /\ session'[h].st = "pending" => Life(h)' = "open"
           /\ session'[h].st = "active" =>
                 Life(h)' = IF Working(h, ConfirmingLabels)' /\ ~Paid(h)' THEN "open"
                            ELSE "confirmed"
           /\ session'[h].st = "cancelled" =>
                 Life(h)' = IF Working(h, CancellingLabels)' THEN "open" ELSE "over"
           /\ session'[h].st = "deleted" => Life(h)' = "over"
BY DEF Life

(* What is paid stays paid; only the session of the step is paid by it.    *)
LEMMA PaidLasts ==
    ASSUME BInv, NEW s, NEW G, Frame(s, G), NEW h \in Sessions
    PROVE  /\ Paid(h) => Paid(h)'
           /\ h # G /\ Paid(h)' => Paid(h)
<1>0. LedgerOK /\ Known
  BY DEF BInv, TInv, DataOK
<1>1. ASSUME NEW i \in Intents, ledger[i].g = h, stripe[i].st = "succeeded"
      PROVE  ledger'[i].g = h /\ stripe'[i].st = "succeeded"
  <2>1. stripe'[i].st = "succeeded"
    BY <1>1 DEF Frame, StripeFrame, Opened, Settled
  <2> QED BY <1>1, <2>1, RowLasts
<1>2. ASSUME h # G, NEW i \in Intents, ledger'[i].g = h, stripe'[i].st = "succeeded"
      PROVE  ledger[i].g = h /\ stripe[i].st = "succeeded"
  <2>1. ledger[i].g = h
    BY <1>2, SessionAssumption DEF Frame, LedgerFrame, RowStays, RowAdded, RowDeleted
  <2>2. Live(i)
    BY <1>0, <2>1, SessionAssumption DEF LedgerOK, Known
  <2>3. Settled(i, G, stripe[i].st, stripe'[i].st)
    BY <2>2 DEF Frame, StripeFrame, Opened, Live
  <2> QED BY <1>2, <2>1, <2>3, SessionAssumption DEF Settled
<1> QED BY <1>1, <1>2 DEF Paid

(* Another session. *)
LEMMA OthersLive ==
    ASSUME BInv, NEW s, NEW G, Frame(s, G), NEW h \in Sessions, h # G
    PROVE  Life(h)' = Life(h)
<1>1. session'[h].st = session[h].st /\ session[h].st \in SessionStatus
  BY DEF Frame, SessionFrame, BInv, TInv, DataOK, SessionOK, Session
<1>3. ASSUME NEW t \in Slots
      PROVE  /\ call'[t].g = h /\ call'[t].at \in ConfirmingLabels
                    <=> call[t].g = h /\ call[t].at \in ConfirmingLabels
             /\ call'[t].g = h /\ call'[t].at \in CancellingLabels
                    <=> call[t].g = h /\ call[t].at \in CancellingLabels
  BY DEF Frame, CallFrame, Undecided
<1>4. /\ Working(h, ConfirmingLabels)' <=> Working(h, ConfirmingLabels)
      /\ Working(h, CancellingLabels)' <=> Working(h, CancellingLabels)
  BY <1>3 DEF Working
<1>5. Paid(h)' <=> Paid(h)
  BY PaidLasts
<1> QED BY <1>1, <1>4, <1>5, LifeIs DEF SessionStatus

(* The run that puts a session back has not taken its money.               *)
LEMMA RestoredUnpaid ==
    ASSUME JInv, NEW u \in Slots, At(u, "accept.restore"), call[u].g \in Sessions
    PROVE  ~Paid(call[u].g)
<1>0. /\ LedgerOK /\ CallsOK /\ Known /\ PayRule /\ OneRow
      /\ call[u].i \in Intents /\ Live(call[u].i) /\ Charged
  BY Actors DEF JInv, BInv, TInv, DataOK, Payments, CallsOK, Knows, At, WithIntent,
     ConfirmingLabels
<1> SUFFICES ASSUME NEW j \in Intents, ledger[j].g = call[u].g, stripe[j].st = "succeeded"
             PROVE  FALSE
  BY DEF Paid
<1>1. Live(j)
  BY <1>0, SessionAssumption DEF LedgerOK, Known
<1>2. Expert(u) \/ Student(u)
  BY Actors DEF At, AcceptLabels, ConfirmingLabels
<1>3. ASSUME Expert(u) PROVE FALSE
  <2>1. ledger[call[u].i].g = call[u].g /\ stripe[call[u].i].st \in {"hold", "canceled"}
    BY <1>3, Actors DEF At, ExpertKnows, ExpertHolds, ConfirmingLabels
  <2>2. j = call[u].i
    BY <1>0, <2>1 DEF OneRow
  <2> QED BY <2>1, <2>2
<1>4. ASSUME Student(u) PROVE FALSE
  <2>1. "pay" \in Calls /\ stripe[call[u].i].st \in {"hold", "canceled"}
    BY <1>4, Actors DEF At, StudentKnows, StudentHolds, Untaken
  <2>2. j = call[u].i
    BY <1>0, <1>1, <2>1 DEF PayRule
  <2> QED BY <2>1, <2>2
<1> QED BY <1>2, <1>3, <1>4

(* The session of the step goes on in its life, or stays where it is.      *)
LifeGoes(a, b) ==
    \/ a = b
    \/ a = "none" /\ b = "open"
    \/ a = "open" /\ b = "confirmed"
    \/ a \in {"open", "confirmed"} /\ b = "over"

LEMMA MineLives ==
    ASSUME JInv, NEW s, NEW G \in Sessions, Frame(s, G)
    PROVE  LifeGoes(Life(G), Life(G)')
<1>0. BInv /\ CallsOK /\ Claims /\ session[G].st \in SessionStatus
  BY DEF JInv, BInv, TInv, DataOK, SessionOK, Session
<1> DEFINE a == session[G].st
           b == session'[G].st
<1>1. Statuses(G, a, b)
  BY DEF Frame, SessionFrame
<1>2. Paid(G) => Paid(G)'
  BY <1>0, PaidLasts
<1>3. ASSUME a = "active", Working(G, ConfirmingLabels)'
      PROVE  Working(G, ConfirmingLabels)
  <2>1. PICK t \in Slots : call'[t].g = G /\ call'[t].at \in ConfirmingLabels
    BY <1>3 DEF Working
  <2>2. CASE call'[t] = call[t]
    BY <2>1, <2>2 DEF Working
  <2>3. CASE call'[t] # call[t]
    <3>1. \/ call[t].at \in ConfirmingLabels /\ call[t].g = G
          \/ call[t].at = "accept.activate" /\ call[t].pays = "held" /\ call[t].g = G
      BY <2>1, <2>3 DEF Frame, CallFrame, Undecided
    <3>2. ASSUME call[t].at = "accept.activate", call[t].pays = "held", call[t].g = G
          PROVE  FALSE
      <4>1. Charged
        BY <1>0, <3>2, Actors DEF CallsOK, Knows
      <4> QED BY <1>3, <3>2, <4>1 DEF JInv, Runs, RunRule, Unconfirmed, Deciding
    <3> QED BY <3>1, <3>2 DEF Working
  <2> QED BY <2>2, <2>3
<1>4. ASSUME Working(G, CancellingLabels)', a # "pending"
      PROVE  Working(G, CancellingLabels) /\ a \in {"cancelled", "deleted"}
  <2>1. PICK t \in Slots : call'[t].g = G /\ call'[t].at \in CancellingLabels
    BY <1>4 DEF Working
  <2>2. call[t].g = G /\ call[t].at \in CancellingLabels
    BY <1>4, <2>1 DEF Frame, CallFrame, Undecided
  <2> QED BY <1>0, <2>2 DEF Working, Claims, Claiming
<1>5. CASE a = b
  <2>1. CASE a \in {"none", "pending", "deleted"}
    BY <1>5, <2>1, LifeIs DEF LifeGoes
  <2>2. CASE a = "active"
    BY <1>2, <1>3, <1>5, <2>2, LifeIs DEF LifeGoes
  <2>3. CASE a = "cancelled"
    BY <1>4, <1>5, <2>3, LifeIs DEF LifeGoes
  <2> QED BY <1>0, <2>1, <2>2, <2>3 DEF SessionStatus
<1>6. CASE a = "none" /\ b = "pending"
  BY <1>6, LifeIs DEF LifeGoes
<1>7. CASE a = "pending" /\ b = "active"
  BY <1>7, LifeIs DEF LifeGoes
<1>8. CASE a \in {"pending", "active"} /\ b = "cancelled"
  BY <1>4, <1>8, LifeIs DEF LifeGoes
<1>9. ASSUME a = "active", b = "pending",
             NEW u \in Slots, At(u, "accept.restore"), call[u].g = G
      PROVE  LifeGoes(Life(G), Life(G)')
  <2>1. Working(G, ConfirmingLabels) /\ ~Paid(G)
    BY <1>9, RestoredUnpaid DEF Working, At, ConfirmingLabels
  <2> QED BY <1>9, <2>1, LifeIs DEF LifeGoes
<1>10. ASSUME a = "cancelled", b = "pending",
              NEW u \in Slots, At(u, "cancel.restore"), call[u].g = G
       PROVE  LifeGoes(Life(G), Life(G)')
  <2>1. Working(G, CancellingLabels)
    BY <1>10 DEF Working, At, CancellingLabels
  <2> QED BY <1>10, <2>1, LifeIs DEF LifeGoes
<1>11. CASE a # "none" /\ b = "deleted"
  <2>1. Life(G) \in {"open", "confirmed", "over"}
    BY <1>0, <1>11, LifeIs DEF SessionStatus
  <2> QED BY <1>11, <2>1, LifeIs DEF LifeGoes
<1> QED BY <1>1, <1>5, <1>6, <1>7, <1>8, <1>9, <1>10, <1>11 DEF Statuses

(* A restart decides what is open. *)
LEMMA CrashLives ==
    ASSUME SessionOK, Crash, NEW h \in Sessions
    PROVE  \/ Life(h)' = Life(h)
           \/ Life(h) = "open" /\ Life(h)' \in {"confirmed", "over"}
<1>1. session' = session /\ session[h].st \in SessionStatus
  BY DEF Crash, SessionOK, Session
<1>2. \A t \in Slots : call'[t].at = "idle"
  BY DEF Crash, Idle
<1>3. ~Working(h, ConfirmingLabels)' /\ ~Working(h, CancellingLabels)'
  BY <1>2 DEF Working, ConfirmingLabels, CancellingLabels
<1> QED BY <1>1, <1>3, LifeIs DEF SessionStatus

(* The detailed specification implements the abstract one, where a session *)
(* has one payment: whatever the handlers, the webhooks, the sweeps and    *)
(* restarts do together, a session is open until it is confirmed or over,  *)
(* a confirmed one never opens again, and what is over stays over.  Each   *)
(* step of ExpertSessions is a step of SessionLife, or changes no life.    *)
LEMMA LifeStep ==
    ASSUME JInv, [Next]_sessionVars
    PROVE  [Abstract!Next]_([g \in Sessions |-> Life(g)])
<1> DEFINE life == [g \in Sessions |-> Life(g)]
<1>0. BInv /\ SessionOK
  BY DEF JInv, BInv, TInv, DataOK
<1>1. CASE UNCHANGED sessionVars
  BY <1>1 DEF sessionVars, Life, Working, Paid
<1>2. CASE Next /\ Crash
  <2> DEFINE all == {g \in Sessions : Life(g)' # Life(g)}
             to == [g \in all |-> Life(g)']
  <2>1. \A g \in Sessions : \/ Life(g)' = Life(g)
                            \/ Life(g) = "open" /\ Life(g)' \in {"confirmed", "over"}
    BY <1>0, <1>2, CrashLives
  <2>2. all \in SUBSET {g \in Sessions : life[g] = "open"} /\ to \in [all -> {"confirmed", "over"}]
    BY <2>1
  <2>3. life' = [g \in Sessions |-> IF g \in all THEN to[g] ELSE life[g]]
    BY <2>1
  <2> HIDE DEF life, all, to
  <2>4. Abstract!Restart
    BY <2>2, <2>3 DEF Abstract!Restart, life
  <2> QED BY <2>4 DEF Abstract!Next
<1>3. CASE Next /\ ~Crash
  <2>1. PICK s, G : Frame(s, G)
    BY <1>0, <1>3, FrameStep
  <2>2. \A h \in Sessions : h # G => Life(h)' = Life(h)
    BY <1>0, <2>1, OthersLive
  <2>3. CASE G \notin Sessions
    BY <2>2, <2>3
  <2>4. CASE G \in Sessions
    <3>1. LifeGoes(Life(G), Life(G)')
      BY <2>1, <2>4, MineLives
    <3>2. life' = [life EXCEPT ![G] = Life(G)']
      BY <2>2, <2>4
    <3>3. life[G] = Life(G)
      BY <2>4
    <3>4. CASE Life(G)' = Life(G)
      BY <2>2, <3>4
    <3>5. CASE Life(G) = "none" /\ Life(G)' = "open"
      BY <2>4, <3>2, <3>3, <3>5 DEF Abstract!Next, Abstract!Ask, Abstract!Move
    <3>6. CASE Life(G) = "open" /\ Life(G)' = "confirmed"
      BY <2>4, <3>2, <3>3, <3>6 DEF Abstract!Next, Abstract!Confirm, Abstract!Move
    <3>7. CASE Life(G) \in {"open", "confirmed"} /\ Life(G)' = "over"
      BY <2>4, <3>2, <3>3, <3>7 DEF Abstract!Next, Abstract!End, Abstract!Move
    <3> QED BY <3>1, <3>4, <3>5, <3>6, <3>7 DEF LifeGoes
  <2> QED BY <2>3, <2>4
<1> QED BY <1>1, <1>2, <1>3

THEOREM SessionsLiveOnce == Spec /\ OnePayment => LivesOnce
<1>1. Init => Abstract!Init
  BY LifeIs DEF Init, Abstract!Init
<1>2. JInv /\ [Next]_sessionVars => [Abstract!Next]_([g \in Sessions |-> Life(g)])
  BY LifeStep
<1> QED BY <1>1, <1>2, PaymentAlways, PTL DEF Spec, LivesOnce, Abstract!Spec

=============================================================================
