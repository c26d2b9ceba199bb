------------------------- MODULE SessionBooksProofs -------------------------
(***************************************************************************)
(* The books of the 1:1 sessions agree with Stripe, in every environment   *)
(* that meets PaymentsClear: each run knows what became of its intent.     *)
(* What was paid buys an active session, where PaymentsHold holds too: who *)
(* takes the money knows its session, who ends a session knows its money.  *)
(* And an active session is paid for, where PaymentsBack holds: money goes *)
(* back only for a session that is over, and a failure is told in time.    *)
(***************************************************************************)
EXTENDS ExpertSessionsProofs

(* A session has one payment; no wallet payment is under way when the      *)
(* sweep of pending rows settles them; and the answer to a capture is      *)
(* written down where an event of an earlier decline may come after it.    *)
PaymentsClear ==
    /\ OnePayment
    /\ "settle" \in Calls => "processing" \notin Outcomes
    /\ "decline" \in Faults => {"lost", "crash"} \cap Faults = {}

Dead == {"canceled", "failed"}
Uncaptured == {"hold", "canceled"}

(* Nobody has the session in hand, and nobody gets it any more.            *)
Shut(g) ==
    /\ session[g].st \in {"cancelled", "deleted"}
    /\ \A s \in Slots : call[s].g = g => call[s].at \notin Undecided

(* No run captures the hold any more.                                      *)
BeforeCapture ==
    {"accept.paid", "accept.consumed", "accept.probe", "accept.activate",
     "accept.insert"}
TakesHold(s, i) ==
    /\ Expert(s) /\ call[s].row /\ call[s].i = i
    /\ call[s].at \in {"accept.activate", "accept.collect"}
TakesPayment(s, i) ==
    /\ Student(s) /\ call[s].i = i
    /\ call[s].at \in BeforeCapture \cup {"accept.capture"}
Done(i) ==
    IF stripe[i].g = NoSession
    THEN \/ ledger[i].g \in Sessions /\ Shut(ledger[i].g)
         \/ /\ ledger[i].charge \notin {"none", "withheld"}
            /\ \A s \in Slots : ~TakesHold(s, i)
    ELSE /\ stripe[i].sent
         /\ \A s \in Slots : ~TakesPayment(s, i)

(* The run of a failed or canceled event, until it has failed the row; row *)
(* says which of the two it is.                                            *)
FailedLabels == {"failed.row", "failed.withheld", "withheld.fail", "withheld.release"}
ReleaseLabels == {"release.read", "release.paid", "release.cancel"}
Failing(c) == c.at \in FailedLabels \/ (c.at \in ReleaseLabels /\ c.ret # "idle")
Declined(i) ==
    \/ <<"failed", i>> \in events
    \/ \E s \in Slots : Failing(call[s]) /\ ~call[s].row /\ call[s].i = i
Booking(i) == \E s \in Slots : At(s, "accept.book") /\ call[s].i = i

-----------------------------------------------------------------------------
(* What becomes of an intent and of its row.                               *)
Undone(i) == ledger[i].charge \in {"failed", "released"}
IntentRule(i) ==
    /\ stripe[i].st \in {"processing", "failed"} =>
           stripe[i].g # NoSession /\ "processing" \in Outcomes
    /\ stripe[i].g = NoSession /\ stripe[i].st = "succeeded" => Recorded(i)
    /\ stripe[i].g # NoSession /\ ledger[i].charge = "pending" => stripe[i].sent
    /\ stripe[i].g = NoSession /\ ledger[i].charge = "pending" =>
           ledger[i].g \in Sessions /\ Shut(ledger[i].g)
ParkedRule(i) ==
    ledger[i].charge = "withheld" /\ stripe[i].st = "succeeded" =>
        /\ session[ledger[i].g].st # "pending"
        /\ \A s \in Slots : call[s].g = ledger[i].g =>
               call[s].at \notin CancellingLabels \cup {"accept.parked"}
EventRule(i) ==
    /\ <<"succeeded", i>> \in events => stripe[i].st = "succeeded"
    /\ <<"canceled", i>> \in events => stripe[i].st = "canceled"
    /\ Declined(i) => \/ stripe[i].st = "failed"
                      \/ "decline" \in Faults /\ stripe[i].st \in CardStatus
Doubtful(i) ==
    /\ Undone(i) \/ Declined(i)
    /\ Undone(i) \/ ledger[i].charge \in {"pending", "withheld"}
BookRule(i) ==
    /\ ledger[i].charge = "completed" => stripe[i].st = "succeeded"
    /\ ledger[i].charge = "refunded" => stripe[i].refunded
    /\ Undone(i) /\ "decline" \notin Faults =>
           \/ stripe[i].st \in Dead \/ stripe[i].refunded
           \/ stripe[i].st = "hold" /\ Done(i)
    /\ "decline" \in Faults =>
           /\ Undone(i) => stripe[i].st # "processing"
           /\ Doubtful(i) /\ Taken(i) => Booking(i)

(* What a run knows of its intent by where it is.                          *)
Confirming(s) ==
    call[s].at \in ConfirmingLabels =>
        /\ session[call[s].g].st # "pending"
        /\ \A t \in Slots : call[t].g = call[s].g => call[t].at \notin CancellingLabels

RefundedLabels == {"cancel.row", "cancel.booked", "hold.row", "hold.booked"}
ReleasedLabels ==
    {"cancel.released", "hold.released", "accept.undoRow", "sweep.released",
     "sweep.processing", "sweep.fail", "withheld.release"}
SucceededLabels ==
    {"accept.book", "sweep.enrolled", "sweep.settle", "succeeded.recorded",
     "succeeded.delivered", "succeeded.record", "stray.delivered"}
PaysLabels ==
    {"request.create", "request.append", "accept.activate", "accept.append"}
ShutLabels ==
    {"hold.release", "hold.probe", "hold.released", "hold.row", "hold.booked",
     "hold.stuck"}

Outcome(s) ==
    LET c == call[s] IN
    /\ c.at \in RefundedLabels => stripe[c.i].refunded
    /\ c.at \in ReleasedLabels => stripe[c.i].st = "canceled"
    /\ c.at \in SucceededLabels => stripe[c.i].st = "succeeded"
    /\ Failing(c) /\ c.row => stripe[c.i].st = "canceled"
Paying(s) ==
    LET c == call[s] IN
    /\ c.at \in PaysLabels =>
          /\ c.pays = "settled" => stripe[c.i].st = "succeeded"
          /\ c.pays = "settling" =>
                /\ stripe[c.i].st \in {"processing", "succeeded", "failed"}
                /\ Declined(c.i) => stripe[c.i].st = "failed"
    /\ c.at = "request.create" => c.pays # "settling"
    /\ c.at = "request.append" => c.pays = "settled"
    /\ c.at = "accept.append" => c.pays \in {"settled", "settling"}
Ending(s) ==
    LET c == call[s] IN
    /\ c.at \in CancellingLabels /\ c.row => stripe[c.i].st \in CardStatus
    /\ c.at \in {"cancel.release", "cancel.probe"} => c.row
    /\ c.at \in ShutLabels \cup {"hold.claim"} =>
          /\ stripe[c.i].g = NoSession /\ ledger[c.i].g = c.g
          /\ stripe[c.i].st \in CardStatus
    /\ c.at \in ShutLabels => Shut(c.g)
    /\ c.at = "hold.stuck" => stripe[c.i].st \in Uncaptured
    /\ c.at = "sweep.authorized" => stripe[c.i].st \in Uncaptured /\ Done(c.i)
Accepting(s) ==
    LET c == call[s] IN
    /\ Expert(s) /\ c.row /\ c.at # "accept.book" => stripe[c.i].st \in Uncaptured
    /\ Student(s) /\ c.i \in Intents /\ c.at \in BeforeCapture =>
          ledger[c.i].charge # "pending"
Knows2(s) == Confirming(s) /\ Outcome(s) /\ Paying(s) /\ Ending(s) /\ Accepting(s)

KInv ==
    /\ JInv /\ PaymentsClear
    /\ \A i \in Intents : IntentRule(i) /\ ParkedRule(i) /\ EventRule(i) /\ BookRule(i)
    /\ \A s \in Slots : Knows2(s)

-----------------------------------------------------------------------------
(* What a step may do to the money: the status of a charge, Stripe, the    *)
(* events.                                                                 *)
Writes(c, a, b) ==
    \/ /\ b = "released"
       /\ \/ c.at \in {"accept.undoRow", "cancel.released", "hold.released"}
          \/ c.at = "withheld.release" /\ a = "withheld"
    \/ /\ b = "failed"
       /\ \/ c.at = "accept.rowFail"
          \/ c.at \in {"failed.row", "sweep.fail", "sweep.released"} /\ a = "pending"
          \/ c.at = "withheld.fail" /\ a = "withheld"
    \/ b = "refunded" /\ c.at \in {"cancel.booked", "hold.booked"}
    \/ /\ b = "completed"
       /\ \/ c.at = "accept.book" /\ a # "none"
          \/ c.at = "sweep.settle" /\ a = "pending"
          \/ c.at \in {"succeeded.record", "request.append"} /\ a = "none"
          \/ c.at = "accept.append" /\ c.pays # "settling" /\ a = "none"
    \/ /\ b = "pending"
       /\ \/ c.at = "hold.stuck"
          \/ c.at = "accept.insert" /\ a = "none"
          \/ c.at = "accept.append" /\ c.pays = "settling" /\ a = "none"
    \/ b = "withheld" /\ a = "none" /\ c.at = "request.park"
    \/ b = "none" /\ c.at = "accept.capDelete"
(* A run that adds a row does so for its session, or for the one the       *)
(* intent names.                                                           *)
NamingLabels ==
    {"request.park", "request.append", "accept.insert", "accept.append",
     "succeeded.record"}
NamedBy(c) == IF c.at = "succeeded.record" THEN stripe[c.i].g ELSE c.g
ChargeFrame ==
    \A i \in Intents :
        \/ ledger'[i].charge = ledger[i].charge
        \/ /\ ledger[i].charge = "pending" /\ ledger'[i].charge = "completed"
           /\ <<"succeeded", i>> \in events
        \/ \E u \in Slots : /\ call[u].i = i /\ Moves(u)
                            /\ Writes(call[u], ledger[i].charge, ledger'[i].charge)
                            /\ call[u].at \in NamingLabels =>
                                   ledger'[i].g = NamedBy(call[u])
PaidFrame ==
    \A i \in Intents :
        /\ Live(i) /\ stripe[i].refunded => stripe'[i].refunded
        /\ Opened(i) => /\ stripe'[i].st \in Outcomes
                        /\ stripe'[i].g = NoSession => stripe'[i].st = "hold"
        /\ stripe[i].st = "hold" /\ stripe'[i].st = "succeeded" =>
              \E u \in Slots : /\ call[u].at \in {"accept.capture", "accept.collect"}
                               /\ call'[u].at = "accept.book"
                               /\ call[u].i = i /\ call'[u].i = i
NewsFrame ==
    \A i \in Intents :
        /\ \A k \in {"succeeded", "canceled"} :
              <<k, i>> \in events' => <<k, i>> \in events \/ stripe'[i].st = k
        /\ <<"failed", i>> \in events' =>
              \/ <<"failed", i>> \in events \/ stripe'[i].st = "failed"
              \/ stripe'[i].st = "hold" /\ "decline" \in Faults

(* How a run comes to where it knows more.                                 *)
SameWork(c, d) == d.i = c.i /\ d.g = c.g
CancelEntry(c, d) ==
    /\ d.at \in CancellingLabels /\ d.row =>
          \/ c.at \in CancellingLabels /\ c.row /\ d.i = c.i
          \/ d.i \in Parked(c.g)
    /\ d.at \in {"cancel.release", "cancel.probe"} =>
          \/ d.row
          \/ c.at = "cancel.release" /\ d.row = c.row
    /\ d.at = "cancel.released" =>
          /\ d.i = c.i
          /\ \/ stripe'[d.i].st = "canceled"
             \/ c.at = "cancel.probe" /\ stripe[c.i].st \notin {"succeeded", "hold"}
    /\ d.at = "cancel.row" => stripe'[d.i].refunded
    /\ d.at = "cancel.booked" => c.at = "cancel.row" /\ d.i = c.i
HoldEntry(c, d) ==
    /\ d.at = "hold.claim" => d.i \in Parked(c.g) /\ d.g = c.g
    /\ d.at \in ShutLabels =>
          /\ SameWork(c, d)
          /\ \/ c.at \in ShutLabels
             \/ /\ c.at = "hold.claim" /\ session[c.g].st = "pending"
                /\ session'[c.g].st = "cancelled"
    /\ d.at = "hold.released" =>
          \/ stripe'[d.i].st = "canceled"
          \/ c.at = "hold.probe" /\ stripe[c.i].st \notin {"succeeded", "hold"}
    /\ d.at = "hold.row" => stripe'[d.i].refunded
    /\ d.at = "hold.booked" => c.at = "hold.row"
    /\ d.at = "hold.stuck" => stripe[c.i].st = "hold"
(* The labels of the runs that may end a session, and of those that do so  *)
(* for the session of an intent they read; those after a refund.           *)
EndLabels == {"failed.session", "failed.again"} \cup ReleaseLabels
OverLabels ==
    {"failed.row", "sweep.authorized", "sweep.cancel", "sweep.released",
     "stray.cancel"} \cup ReleaseLabels
RefundedAfter == {"refund.row", "refund.session", "refund.live", "refund.cancel"}
EventEntry(c, d) ==
    /\ Failing(d) =>
          \/ Failing(c) /\ d.i = c.i /\ d.row = c.row
          \/ <<IF d.row THEN "canceled" ELSE "failed", d.i>> \in events
    /\ d.at = "withheld.release" => d.row
    /\ d.at \in SucceededLabels =>
          \/ c.at \in SucceededLabels /\ d.i = c.i
          \/ stripe[d.i].st = "succeeded" \/ stripe'[d.i].st = "succeeded"
          \/ <<"succeeded", d.i>> \in events
    /\ d.at = "succeeded.record" => Delivered(d.i) /\ UNCHANGED session
    /\ d.at \in EndLabels =>
          /\ d.i = c.i
          /\ \/ Failing(c) \/ c.at \in EndLabels \cup {"sweep.released"}
             \/ stripe'[d.i].st = "canceled"
    /\ d.at \in OverLabels /\ d.g # NoSession =>
          \/ d.g = stripe[d.i].g
          \/ ledger[d.i].charge = "pending" /\ ledger[d.i].g = d.g
          \/ c.at \in OverLabels /\ d.g = c.g
SweepEntry(c, d) ==
    /\ d.at = "sweep.authorized" =>
          /\ ledger[d.i].charge = "pending" /\ stripe[d.i].st # "succeeded"
          /\ "settle" \in Calls
          /\ \A t \in Slots : call[t].i = d.i => call[t].at \in BeforeRow
    /\ d.at = "sweep.processing" =>
          c.at = "sweep.authorized" /\ d.i = c.i /\ stripe[c.i].st # "hold"
    /\ d.at = "sweep.fail" => c.at = "sweep.processing" /\ d.i = c.i
    /\ d.at = "sweep.released" => stripe'[d.i].st = "canceled"
AcceptEntry(c, d) ==
    /\ d.at = "accept.undoRow" => stripe'[d.i].st # "hold"
    /\ d.at = "request.append" => d.pays \notin {"none", "held"}
    /\ c.at = "accept.activate" /\ d.at \in ConfirmingLabels \cup {"accept.append"} =>
          session'[d.g].st = "active"
BackEntry(c, d) ==
    /\ d.at \in MoneyBackLabels =>
          \/ c.at \in MoneyBackLabels \cup {"request.create"} /\ d.g = c.g
          \/ "pay" \in Calls \/ c.at = "accept.paid"
          \/ c.at = "accept.activate" /\ c.pays \notin {"none", "held"}
    /\ d.at \in RefundedAfter =>
          \/ stripe'[d.i].refunded
          \/ c.at \in RefundedAfter /\ d.i = c.i
Entry(c, d) ==
    /\ CancelEntry(c, d) /\ HoldEntry(c, d) /\ EventEntry(c, d)
    /\ SweepEntry(c, d) /\ AcceptEntry(c, d) /\ BackEntry(c, d)

MovesFrame ==
    \A u \in Slots : call'[u] # call[u] =>
        /\ Moves(u)
        /\ Entry(call[u], call'[u])
        /\ At(u, "accept.book") =>
              "lost" \in Faults \/ ledger'[call[u].i].charge \in {"completed", "none"}
MoneyFrame == ChargeFrame /\ PaidFrame /\ NewsFrame /\ MovesFrame

(* What a step leaves alone. *)
LEMMA SameMoney ==
    /\ UNCHANGED ledger => ChargeFrame
    /\ UNCHANGED stripe => PaidFrame
    /\ UNCHANGED events => NewsFrame
    /\ UNCHANGED call => MovesFrame
<1>1. UNCHANGED stripe => PaidFrame
  BY DEF PaidFrame, Opened
<1> QED BY <1>1 DEF ChargeFrame, NewsFrame, MovesFrame

(* The intent of a step is refunded, submitted, grows old or is let go.    *)
LEMMA IntentMoney ==
    ASSUME StripeOK, NEW i \in Intents
    PROVE  /\ Refund(i) => PaidFrame
           /\ Submitted(i) => PaidFrame
           /\ \A labels : HourPasses(i, labels) => PaidFrame
           /\ CancelHold(i) => PaidFrame /\ NewsFrame
<1>1. Refund(i) => PaidFrame
  BY DEF Refund, PaidFrame, StripeOK, Intent, Opened
<1>2. Submitted(i) => PaidFrame
  BY DEF Submitted, PaidFrame, StripeOK, Intent, Opened
<1>3. \A labels : HourPasses(i, labels) => PaidFrame
  BY DEF HourPasses, PaidFrame, StripeOK, Intent, Opened
<1>4. ASSUME CancelHold(i) PROVE PaidFrame /\ NewsFrame
  <2>1. CASE stripe[i].st = "hold"
    <3>1. PaidFrame
      BY <1>4, <2>1 DEF CancelHold, SetIntent, PaidFrame, StripeOK, Intent, Opened
    <3>2. NewsFrame
      BY <1>4, <2>1 DEF CancelHold, SetIntent, NewsFrame, StripeOK, Intent
    <3> QED BY <3>1, <3>2
  <2>2. CASE stripe[i].st # "hold"
    BY <1>4, <2>2, SameMoney DEF CancelHold
  <2> QED BY <2>1, <2>2
<1> QED BY <1>1, <1>2, <1>3, <1>4

(* The run of a step writes the status of its charge. *)
LEMMA ChargeMoney ==
    ASSUME LedgerOK, NEW s \in Slots, call[s].i \in Intents
    PROVE  /\ \A st : Moves(s) /\ SetCharge(call[s].i, st)
                      /\ call[s].at \notin NamingLabels
                      /\ Writes(call[s], ledger[call[s].i].charge, st) => ChargeFrame
           /\ \A from, st : Moves(s) /\ MoveCharge(call[s].i, from, st)
                            /\ call[s].at \notin NamingLabels
                            /\ Writes(call[s], from, st) => ChargeFrame
           /\ \A g, st : Moves(s) /\ InsertCharge(call[s].i, g, st)
                         /\ (call[s].at \in NamingLabels => g = NamedBy(call[s]))
                         /\ Writes(call[s], ledger[call[s].i].charge, st) => ChargeFrame
           /\ AppendRefund(call[s].i) => ChargeFrame
<1> DEFINE i == call[s].i
<1>1. ASSUME NEW st, Moves(s), SetCharge(i, st), call[s].at \notin NamingLabels,
             Writes(call[s], ledger[i].charge, st)
      PROVE  ChargeFrame
  BY <1>1 DEF SetCharge, ChargeFrame, LedgerOK, Ledger
<1>2. ASSUME NEW from, NEW st, Moves(s), MoveCharge(i, from, st),
             call[s].at \notin NamingLabels, Writes(call[s], from, st)
      PROVE  ChargeFrame
  BY <1>1, <1>2, SameMoney DEF MoveCharge
<1>3. ASSUME NEW g, NEW st, Moves(s), InsertCharge(i, g, st),
             call[s].at \in NamingLabels => g = NamedBy(call[s]),
             Writes(call[s], ledger[i].charge, st)
      PROVE  ChargeFrame
  BY <1>3 DEF InsertCharge, ChargeFrame, LedgerOK, Ledger
<1>4. AppendRefund(i) => ChargeFrame
  BY DEF AppendRefund, ChargeFrame, LedgerOK, Ledger
<1> QED BY <1>1, <1>2, <1>3, <1>4

(* The labels a run comes to knowing more; it comes to others freely.      *)
Telling ==
    CancellingLabels \cup CancelledLabels \cup HoldLabels \cup EventLabels
    \cup SweepLabels \cup ConfirmingLabels \cup MoneyBackLabels
    \cup {"accept.undoRow", "accept.book", "accept.append", "request.append"}

LEMMA Untold ==
    /\ \A c, d : d.at \notin Telling => Entry(c, d)
    /\ {"idle"} \cup ReadLabels \cup {"accept.undo", "accept.rowFail"}
           \cup (RequestLabels \ {"request.append"}) \subseteq {l \in Labels : l \notin Telling}
<1>1. ASSUME NEW c, NEW d, d.at \notin Telling PROVE Entry(c, d)
  <2> USE DEF Telling, CancellingLabels, CancelledLabels, HoldLabels, EventLabels, SweepLabels,
       MoneyBackLabels
  <2>1. CancelEntry(c, d)
    BY <1>1 DEF CancelEntry
  <2>2. HoldEntry(c, d)
    BY <1>1 DEF HoldEntry, ShutLabels
  <2>3. EventEntry(c, d)
    BY <1>1 DEF EventEntry, Failing, FailedLabels, ReleaseLabels, SucceededLabels, EndLabels,
       OverLabels
  <2>4. SweepEntry(c, d)
    BY <1>1 DEF SweepEntry
  <2>5. AcceptEntry(c, d)
    BY <1>1 DEF AcceptEntry
  <2>6. BackEntry(c, d)
    BY <1>1 DEF BackEntry, RefundedAfter
  <2> QED BY <2>1, <2>2, <2>3, <2>4, <2>5, <2>6 DEF Entry
<1>2. {"idle"} \cup ReadLabels \cup {"accept.undo", "accept.rowFail"}
          \cup (RequestLabels \ {"request.append"}) \subseteq {l \in Labels : l \notin Telling}
  BY DEF Telling, Labels, MoneyBackLabels, ReadLabels, UndoLabels, RequestLabels,
     ConfirmingLabels, ConfirmedLabels, CancellingLabels, CancelledLabels, HoldLabels,
     EventLabels, SweepLabels
<1> QED BY <1>1, <1>2

(* The rest of the table is about other labels. *)
LEMMA EntryKinds ==
    ASSUME NEW c, NEW d
    PROVE  /\ d.at \in CancellingLabels \cup CancelledLabels /\ CancelEntry(c, d) => Entry(c, d)
           /\ d.at \in HoldLabels /\ HoldEntry(c, d) => Entry(c, d)
           /\ d.at \in EventLabels /\ EventEntry(c, d) => Entry(c, d)
           /\ d.at \in SweepLabels /\ EventEntry(c, d) /\ SweepEntry(c, d) => Entry(c, d)
           /\ d.at \in MoneyBackLabels /\ BackEntry(c, d) => Entry(c, d)
           /\ d.at \in ConfirmingLabels \cup {"accept.append", "accept.undoRow", "request.append"}
                 /\ AcceptEntry(c, d) => Entry(c, d)
           /\ d.at = "accept.book" /\ EventEntry(c, d) => Entry(c, d)
<1> USE DEF CancellingLabels, CancelledLabels, HoldLabels, EventLabels, SweepLabels,
    ConfirmingLabels, MoneyBackLabels
<1>1. d.at \notin CancellingLabels \cup CancelledLabels => CancelEntry(c, d)
  BY DEF CancelEntry
<1>2. d.at \notin HoldLabels => HoldEntry(c, d)
  BY DEF HoldEntry, ShutLabels
<1>3. d.at \notin EventLabels \cup SweepLabels \cup {"accept.book"} => EventEntry(c, d)
  BY DEF EventEntry, Failing, FailedLabels, ReleaseLabels, SucceededLabels,
     EndLabels, OverLabels
<1>4. d.at \notin SweepLabels => SweepEntry(c, d)
  BY DEF SweepEntry
<1>5. d.at \notin ConfirmingLabels \cup {"accept.append", "accept.undoRow", "request.append"}
         => AcceptEntry(c, d)
  BY DEF AcceptEntry
<1>6. d.at \notin MoneyBackLabels => BackEntry(c, d)
  BY DEF BackEntry, RefundedAfter
<1> QED BY <1>1, <1>2, <1>3, <1>4, <1>5, <1>6 DEF Entry

LEMMA MoverMoney ==
    ASSUME CallsOK, NEW s \in Slots, ~At(s, "accept.book")
    PROVE  /\ /\ call' = [call EXCEPT ![s] = call'[s]]
              /\ Moves(s) /\ Entry(call[s], call'[s])
              => MovesFrame
           /\ \A l : Goto(s, l) /\ l # call[s].at /\ l \notin Telling => MovesFrame /\ Moves(s)
           /\ Finish(s) /\ call[s].at # "idle" => MovesFrame /\ Moves(s)
<1>1. ASSUME call' = [call EXCEPT ![s] = call'[s]], Moves(s), Entry(call[s], call'[s])
      PROVE  MovesFrame
  BY <1>1 DEF MovesFrame, CallsOK
<1>2. ASSUME NEW l, Goto(s, l), l # call[s].at, l \notin Telling
      PROVE  MovesFrame /\ Moves(s)
  <2>1. /\ call' = [call EXCEPT ![s] = call'[s]] /\ call'[s].at = l
    BY <1>2 DEF Goto, CallsOK, Run
  <2> QED BY <1>1, <1>2, <2>1, Untold DEF Moves
<1>3. ASSUME Finish(s), call[s].at # "idle" PROVE MovesFrame /\ Moves(s)
  <2>1. /\ call' = [call EXCEPT ![s] = call'[s]] /\ call'[s].at = "idle"
    BY <1>3 DEF Finish, CallsOK, Idle
  <2> QED BY <1>1, <1>3, <2>1, Untold DEF Moves
<1> QED BY <1>1, <1>2, <1>3

-----------------------------------------------------------------------------
(* Every step but a restart keeps to it. *)
LEMMA MoneyBackMoney ==
    ASSUME TInv, NEW s \in Slots,
           \/ OrphanRecorded(s) \/ OrphanHold(s) \/ OrphanCancel(s)
           \/ RefundStep(s) \/ RefundFails(s) \/ RefundRow(s)
           \/ RefundSession(s) \/ RefundLive(s) \/ RefundCancel(s)
    PROVE  MoneyFrame
<1>0. LedgerOK /\ StripeOK /\ CallsOK
  BY DEF TInv, DataOK
<1>1. call[s].at \in MoneyBackLabels
  BY DEF MoneyBackLabels, At, OrphanRecorded, OrphanHold, OrphanCancel, RefundStep,
     RefundFails, RefundRow, RefundSession, RefundLive, RefundCancel
<1>2. call[s].i \in Intents /\ ~At(s, "accept.book") /\ call[s].at # "idle"
  BY <1>0, <1>1, KnowsOK, LabelTable DEF Needs, At, MoneyBackLabels
<1> USE DEF At
<1>3. ASSUME NEW l \in MoneyBackLabels, Goto(s, l), l # call[s].at,
             l \in RefundedAfter =>
                 call[s].at \in RefundedAfter \/ stripe'[call[s].i].refunded
      PROVE  MovesFrame
  <2>1. /\ call' = [call EXCEPT ![s] = call'[s]] /\ call'[s].at = l
        /\ call'[s].i = call[s].i /\ call'[s].g = call[s].g
    BY <1>0, <1>3 DEF Goto, CallsOK, Run
  <2>2. BackEntry(call[s], call'[s])
    BY <1>1, <1>3, <2>1 DEF BackEntry
  <2> QED BY <1>0, <1>2, <1>3, <2>1, <2>2, EntryKinds, MoverMoney DEF Moves
<1>4. MovesFrame
  <2> USE DEF MoneyBackLabels, RefundedAfter
  <2>1. CASE OrphanRecorded(s)
    BY <1>0, <1>2, <1>3, <2>1, MoverMoney DEF OrphanRecorded
  <2>2. CASE OrphanHold(s)
    BY <1>0, <1>2, <1>3, <2>2, MoverMoney DEF OrphanHold
  <2>3. CASE OrphanCancel(s) \/ RefundFails(s) \/ RefundCancel(s)
    BY <1>0, <1>2, <2>3, MoverMoney DEF OrphanCancel, RefundFails, RefundCancel
  <2>4. CASE RefundStep(s)
    <3>1. CanRefund(call[s].i) => stripe'[call[s].i].refunded
      BY <1>0, <1>2, <2>4 DEF RefundStep, Refund, StripeOK, Intent
    <3> QED BY <1>0, <1>2, <1>3, <2>4, <3>1, MoverMoney DEF RefundStep
  <2>5. CASE RefundRow(s)
    BY <1>0, <1>2, <1>3, <2>5, MoverMoney DEF RefundRow
  <2>6. CASE RefundSession(s)
    BY <1>0, <1>2, <1>3, <2>6, MoverMoney DEF RefundSession
  <2>7. CASE RefundLive(s)
    BY <1>0, <1>2, <1>3, <2>7, MoverMoney DEF RefundLive
  <2> QED BY <2>1, <2>2, <2>3, <2>4, <2>5, <2>6, <2>7
<1>5. ChargeFrame
  BY <1>0, <1>2, SameMoney, ChargeMoney
     DEF OrphanRecorded, OrphanHold, OrphanCancel, RefundStep, RefundFails, RefundRow,
     RefundSession, RefundLive, RefundCancel
<1>6. PaidFrame /\ NewsFrame
  BY <1>0, <1>2, SameMoney, IntentMoney
     DEF OrphanRecorded, OrphanHold, OrphanCancel, RefundStep, RefundFails, RefundRow,
     RefundSession, RefundLive, RefundCancel
<1> QED BY <1>4, <1>5, <1>6 DEF MoneyFrame

(* createGroupChatByUser. *)
LEMMA RequestMoney ==
    ASSUME TInv, NEW s \in Slots,
           \/ RequestConsumed(s) \/ RequestProbe(s) \/ RequestCreate(s)
           \/ RequestRejected(s) \/ RequestFail(s) \/ RequestPark(s)
           \/ RequestParkFails(s) \/ RequestAbort(s) \/ RequestRollback(s)
           \/ RequestDeadline(s) \/ RequestAppend(s)
    PROVE  MoneyFrame
<1>0. LedgerOK /\ StripeOK /\ CallsOK
  BY DEF TInv, DataOK
<1> USE DEF At
<1>1. call[s].at \in RequestLabels
  BY DEF RequestLabels, RequestConsumed, RequestProbe, RequestCreate, RequestRejected,
     RequestFail, RequestPark, RequestParkFails, RequestAbort, RequestRollback,
     RequestDeadline, RequestAppend
<1>2. /\ ~At(s, "accept.book") /\ call[s].at # "idle"
      /\ call[s].at # "request.create" => call[s].i \in Intents
  BY <1>0, <1>1, KnowsOK, LabelTable DEF Needs, RequestLabels
<1>3. \A l \in RequestLabels \ {"request.append"} : l \notin Telling
  BY Untold
<1> USE DEF RequestLabels
<1>4. MovesFrame
  <2>1. CASE RequestConsumed(s)
    BY <1>0, <1>2, <1>3, <2>1, MoverMoney DEF RequestConsumed
  <2>2. CASE RequestProbe(s)
    <3>1. CASE Finish(s)
      BY <1>0, <1>2, <3>1, MoverMoney
    <3>2. CASE ~Finish(s)
      <4>1. /\ call' = [call EXCEPT ![s] = call'[s]]
            /\ call'[s].at = "request.create" /\ call[s].at = "request.probe"
        BY <1>0, <2>2, <3>2 DEF RequestProbe, CallsOK, Run
      <4> QED BY <1>0, <1>2, <1>3, <4>1, Untold, MoverMoney DEF Moves
    <3> QED BY <3>1, <3>2
  <2>3. CASE RequestCreate(s)
    <3>1. CASE Finish(s)
      BY <1>0, <1>2, <3>1, MoverMoney
    <3>2. CASE ~Finish(s)
      <4>1. PICK g \in Sessions :
               call' = [call EXCEPT ![s].at = IF call[s].pays = "held" THEN "request.park"
                                              ELSE "request.append", ![s].g = g]
               /\ call[s].at = "request.create" /\ call[s].pays # "none"
        BY <2>3, <3>2 DEF RequestCreate
      <4>2. /\ call' = [call EXCEPT ![s] = call'[s]]
            /\ call'[s].pays = call[s].pays
            /\ call'[s].at = IF call[s].pays = "held" THEN "request.park"
                             ELSE "request.append"
        BY <1>0, <4>1 DEF CallsOK, Run
      <4>3. call'[s].at = "request.append" => Entry(call[s], call'[s])
        <5>1. call'[s].at = "request.append" => AcceptEntry(call[s], call'[s])
          BY <4>1, <4>2 DEF AcceptEntry, ConfirmingLabels
        <5> QED BY <5>1, EntryKinds
      <4>4. Moves(s)
        BY <4>1, <4>2 DEF Moves
      <4> QED BY <1>0, <1>2, <1>3, <4>2, <4>3, <4>4, Untold, MoverMoney
    <3> QED BY <3>1, <3>2
  <2>4. CASE RequestRejected(s)
    <3>1. CASE Goto(s, "refund")
      <4>1. /\ call' = [call EXCEPT ![s] = call'[s]] /\ call'[s].at = "refund"
            /\ call'[s].g = call[s].g /\ call[s].at = "request.create"
        BY <1>0, <2>4, <3>1 DEF RequestRejected, Goto, CallsOK, Run
      <4>2. Entry(call[s], call'[s])
        BY <4>1, EntryKinds DEF BackEntry, MoneyBackLabels, RefundedAfter
      <4> QED BY <1>0, <1>2, <4>1, <4>2, MoverMoney DEF Moves
    <3>2. CASE ~Goto(s, "refund")
      BY <1>0, <1>2, <1>3, <2>4, <3>2, MoverMoney DEF RequestRejected
    <3> QED BY <3>1, <3>2
  <2>5. CASE RequestFail(s) \/ RequestRollback(s) \/ RequestDeadline(s) \/ RequestAppend(s)
    BY <1>0, <1>2, <2>5, MoverMoney
       DEF RequestFail, RequestRollback, RequestDeadline, RequestAppend
  <2>6. CASE RequestPark(s) \/ RequestParkFails(s)
    BY <1>0, <1>2, <1>3, <2>6, MoverMoney DEF RequestPark, RequestParkFails
  <2>7. CASE RequestAbort(s)
    BY <1>0, <1>2, <1>3, <2>7, MoverMoney DEF RequestAbort
  <2> QED BY <2>1, <2>2, <2>3, <2>4, <2>5, <2>6, <2>7
<1>5. ChargeFrame
  <2>1. CASE RequestPark(s)
    <3>1. CASE Recorded(call[s].i)
      BY <2>1, <3>1, SameMoney DEF RequestPark
    <3>2. CASE ~Recorded(call[s].i)
      <4>1. /\ InsertCharge(call[s].i, call[s].g, "withheld") /\ Moves(s)
            /\ Writes(call[s], ledger[call[s].i].charge, "withheld")
            /\ call[s].g = NamedBy(call[s])
        BY <1>0, <2>1, <3>2, MoverIs DEF RequestPark, Writes, Recorded, NamedBy
      <4> QED BY <1>0, <1>2, <2>1, <4>1, ChargeMoney DEF RequestPark
    <3> QED BY <3>1, <3>2
  <2>2. CASE RequestAppend(s)
    <3>1. CASE Recorded(call[s].i)
      BY <2>2, <3>1, SameMoney DEF RequestAppend
    <3>2. CASE ~Recorded(call[s].i)
      <4>1. /\ InsertCharge(call[s].i, call[s].g, "completed") /\ Moves(s)
            /\ Writes(call[s], ledger[call[s].i].charge, "completed")
            /\ call[s].g = NamedBy(call[s])
        BY <1>0, <2>2, <3>2, MoverIs DEF RequestAppend, Writes, Recorded, NamedBy
      <4> QED BY <1>0, <1>2, <2>2, <4>1, ChargeMoney DEF RequestAppend
    <3> QED BY <3>1, <3>2
  <2>3. CASE ~RequestPark(s) /\ ~RequestAppend(s)
    BY <2>3, SameMoney
       DEF RequestConsumed, RequestProbe, RequestCreate, RequestRejected, RequestFail,
       RequestParkFails, RequestAbort, RequestRollback, RequestDeadline
  <2> QED BY <2>1, <2>2, <2>3
<1>6. PaidFrame /\ NewsFrame
  <2>1. CASE RequestFail(s) \/ RequestAbort(s)
    BY <1>0, <1>2, <2>1, IntentMoney DEF RequestFail, RequestAbort
  <2>2. CASE ~RequestFail(s) /\ ~RequestAbort(s)
    BY <2>2, SameMoney
       DEF RequestConsumed, RequestProbe, RequestCreate, RequestRejected, RequestPark,
       RequestParkFails, RequestRollback, RequestDeadline, RequestAppend
  <2> QED BY <2>1, <2>2
<1> QED BY <1>4, <1>5, <1>6 DEF MoneyFrame

(* A run in ConfirmingLabels is told only that the session is active.      *)
LEMMA ConfirmingEntry ==
    ASSUME NEW c, NEW d, d.at \in ConfirmingLabels,
           c.at = "accept.activate" => session'[d.g].st = "active"
    PROVE  Entry(c, d)
BY EntryKinds DEF AcceptEntry, ConfirmingLabels

(* acceptIndividualAppointment, until the money is moved. *)
LEMMA ReadMoney ==
    ASSUME TInv, NEW s \in Slots,
           \/ AcceptParked(s) \/ AcceptWindow(s) \/ AcceptSecured(s)
           \/ AcceptPaid(s) \/ AcceptConsumed(s) \/ AcceptProbe(s)
           \/ AcceptActivate(s) \/ AcceptActivateFails(s)
    PROVE  MoneyFrame
<1>0. SessionOK /\ CallsOK
  BY DEF TInv, DataOK
<1> USE DEF At
<1>1. call[s].at \in ReadLabels
  BY DEF ReadLabels, AcceptParked, AcceptWindow, AcceptSecured, AcceptPaid,
     AcceptConsumed, AcceptProbe, AcceptActivate, AcceptActivateFails
<1>2. ~At(s, "accept.book") /\ call[s].at # "idle" /\ call[s].g \in Sessions
  BY <1>0, <1>1, KnowsOK, LabelTable DEF Needs, ReadLabels
<1>3. /\ \A l \in ReadLabels : l \notin Telling
      /\ "accept.undo" \notin Telling /\ "idle" \notin Telling
  BY Untold
<1> USE DEF ReadLabels
<1>4. MovesFrame
  <2>a. ASSUME call' = [call EXCEPT ![s] = call'[s]], call'[s].at # call[s].at,
               call'[s].at \notin Telling
        PROVE  MovesFrame
    BY <1>0, <1>2, <2>a, Untold, MoverMoney DEF Moves
  <2>b. ASSUME call' = [call EXCEPT ![s] = call'[s]],
               call'[s].at \in {"refund", "orphan.recorded"},
               \/ call[s].at = "accept.paid"
               \/ call[s].at = "accept.activate" /\ call[s].pays \notin {"none", "held"}
        PROVE  MovesFrame
    <3>1. Entry(call[s], call'[s])
      BY <2>b, EntryKinds DEF BackEntry, MoneyBackLabels, RefundedAfter
    <3> QED BY <1>0, <1>2, <2>b, <3>1, MoverMoney DEF Moves
  <2>1. CASE AcceptParked(s)
    <3>1. CASE Parked(call[s].g) # {} /\ ~call[s].lapsed
      <4>1. PICK i \in Parked(call[s].g) :
               call' = [call EXCEPT ![s].at = "accept.activate",
                                    ![s].i = i, ![s].pays = "held", ![s].row = TRUE]
        BY <2>1, <3>1 DEF AcceptParked
      <4>2. call' = [call EXCEPT ![s] = call'[s]] /\ call'[s].at = "accept.activate"
        BY <1>0, <4>1 DEF CallsOK, Run
      <4> QED BY <1>3, <2>1, <2>a, <4>2 DEF AcceptParked
    <3>2. CASE ~(Parked(call[s].g) # {} /\ ~call[s].lapsed)
      BY <1>0, <1>2, <1>3, <2>1, <3>2, MoverMoney DEF AcceptParked
    <3> QED BY <3>1, <3>2
  <2>2. CASE AcceptWindow(s) \/ AcceptSecured(s)
    BY <1>0, <1>2, <1>3, <2>2, MoverMoney DEF AcceptWindow, AcceptSecured
  <2>3. CASE AcceptPaid(s)
    <3>1. CASE Orphaned(s, call[s].g, call[s].i) /\ ~Finish(s)
      <4>1. /\ call' = [call EXCEPT ![s] = call'[s]]
            /\ call'[s].at = "orphan.recorded" /\ call[s].at = "accept.paid"
        BY <1>0, <2>3, <3>1 DEF Orphaned, CallsOK, Run, AcceptPaid
      <4> QED BY <2>b, <4>1
    <3>2. CASE ~Orphaned(s, call[s].g, call[s].i) \/ Finish(s)
      BY <1>0, <1>2, <1>3, <2>3, <3>2, MoverMoney DEF AcceptPaid
    <3> QED BY <3>1, <3>2
  <2>4. CASE AcceptConsumed(s)
    BY <1>0, <1>2, <1>3, <2>4, MoverMoney DEF AcceptConsumed
  <2>5. CASE AcceptProbe(s)
    <3>1. CASE ~Finish(s)
      <4>1. /\ call' = [call EXCEPT ![s] = call'[s]]
            /\ call'[s].at = "accept.activate" /\ call[s].at = "accept.probe"
        BY <1>0, <2>5, <3>1 DEF CallsOK, Run, AcceptProbe
      <4> QED BY <1>3, <2>a, <4>1
    <3>2. CASE Finish(s)
      BY <1>0, <1>2, <3>2, MoverMoney
    <3> QED BY <3>1, <3>2
  <2>6. CASE AcceptActivate(s)
    <3>1. CASE Goto(s, "accept.collect") \/ Goto(s, "accept.insert") \/ Goto(s, "accept.append")
      <4>1. /\ call' = [call EXCEPT ![s] = call'[s]] /\ call'[s].g = call[s].g
            /\ call'[s].at \in {"accept.collect", "accept.insert", "accept.append"}
        BY <1>0, <3>1 DEF Goto, CallsOK, Run
      <4>2. session[call[s].g].st \in {"pending", "active"}
        <5> SUFFICES ASSUME session[call[s].g].st \notin {"pending", "active"} PROVE FALSE
          OBVIOUS
        <5>1. Finish(s) \/ Goto(s, "accept.undo") \/ Goto(s, "refund")
          BY <2>6 DEF AcceptActivate
        <5>2. call'[s].at \in {"idle", "accept.undo", "refund"}
          BY <1>0, <5>1, Goes DEF Idle
        <5> QED BY <4>1, <5>2
      <4>3. session'[call[s].g].st = "active"
        BY <1>0, <1>2, <2>6, <4>2 DEF AcceptActivate, SetSession, SessionOK, Session
      <4>4. Entry(call[s], call'[s])
        BY <4>1, <4>3, EntryKinds DEF AcceptEntry, ConfirmingLabels
      <4> QED BY <1>0, <1>2, <2>6, <4>1, <4>4, MoverMoney DEF AcceptActivate, Moves
    <3>2. CASE ~(Goto(s, "accept.collect") \/ Goto(s, "accept.insert") \/ Goto(s, "accept.append"))
      <4>1. \/ Finish(s) \/ Goto(s, "accept.undo")
            \/ Goto(s, "refund") /\ call[s].pays \notin {"none", "held"}
        BY <2>6, <3>2 DEF AcceptActivate
      <4>2. Goto(s, "refund") => call' = [call EXCEPT ![s] = call'[s]] /\ call'[s].at = "refund"
        BY <1>0 DEF Goto, CallsOK, Run
      <4> QED BY <1>0, <1>2, <1>3, <2>6, <2>b, <4>1, <4>2, MoverMoney DEF AcceptActivate
    <3> QED BY <3>1, <3>2
  <2>7. CASE AcceptActivateFails(s)
    <3>1. CASE call[s].pays = "held"
      <4>1. /\ call' = [call EXCEPT ![s] = call'[s]]
            /\ call'[s].at = "accept.undo" /\ call[s].at = "accept.activate"
        BY <1>0, <2>7, <3>1 DEF CallsOK, Run, AcceptActivateFails
      <4> QED BY <1>3, <2>a, <4>1
    <3>2. CASE call[s].pays # "held"
      <4>1. Finish(s) \/ (Goto(s, "refund") /\ call[s].pays \notin {"none", "held"})
        BY <2>7, <3>2 DEF AcceptActivateFails
      <4>2. Goto(s, "refund") => call' = [call EXCEPT ![s] = call'[s]] /\ call'[s].at = "refund"
        BY <1>0 DEF Goto, CallsOK, Run
      <4> QED BY <1>0, <1>2, <2>7, <2>b, <4>1, <4>2, MoverMoney DEF AcceptActivateFails
    <3> QED BY <3>1, <3>2
  <2> QED BY <2>1, <2>2, <2>3, <2>4, <2>5, <2>6, <2>7
<1>5. ChargeFrame /\ PaidFrame /\ NewsFrame
  BY SameMoney
     DEF AcceptParked, AcceptWindow, AcceptSecured, AcceptPaid, AcceptConsumed,
     AcceptProbe, AcceptActivate, AcceptActivateFails
<1> QED BY <1>4, <1>5 DEF MoneyFrame

(* captureBookingHold, captureParkedHold and what follows them. *)
LEMMA ConfirmMoney ==
    ASSUME TInv, NEW s \in Slots,
           \/ AcceptUndo(s) \/ AcceptUndoRow(s) \/ AcceptInsert(s)
           \/ AcceptInsertFails(s) \/ AcceptAbort(s) \/ AcceptCapture(s)
           \/ AcceptNotCaptured(s) \/ AcceptCapProbe(s) \/ AcceptCapCancel(s)
           \/ AcceptCapStuck(s) \/ AcceptCapDelete(s) \/ AcceptRestore(s)
           \/ AcceptRowFail(s) \/ AcceptBook(s) \/ AcceptBookLost(s)
           \/ AcceptAppend(s)
    PROVE  MoneyFrame
<1>0. LedgerOK /\ StripeOK /\ EventsOK /\ CallsOK
  BY DEF TInv, DataOK
<1> USE DEF At
<1>1. call[s].at \in UndoLabels \cup ConfirmingLabels \cup ConfirmedLabels
  BY DEF UndoLabels, ConfirmingLabels, ConfirmedLabels, AcceptUndo, AcceptUndoRow,
     AcceptInsert, AcceptInsertFails, AcceptAbort, AcceptCapture, AcceptNotCaptured,
     AcceptCapProbe, AcceptCapCancel, AcceptCapStuck, AcceptCapDelete, AcceptRestore,
     AcceptRowFail, AcceptBook, AcceptBookLost, AcceptAppend
<1>2. call[s].at # "idle" /\ call[s].i \in Intents
  BY <1>0, <1>1, KnowsOK, LabelTable DEF Needs
<1>3. /\ "accept.rowFail" \notin Telling /\ "idle" \notin Telling
      /\ call[s].at # "accept.activate"
  BY <1>1, Untold DEF UndoLabels, ConfirmingLabels, ConfirmedLabels
<1> USE DEF UndoLabels, ConfirmingLabels, ConfirmedLabels
<1>4. MovesFrame
  <2>a. ASSUME NEW l \in ConfirmingLabels, Goto(s, l), l # call[s].at, call[s].at # "accept.book"
        PROVE  MovesFrame
    <3>1. call' = [call EXCEPT ![s] = call'[s]] /\ call'[s].at = l
      BY <1>0, <2>a DEF Goto, CallsOK, Run
    <3>2. Entry(call[s], call'[s])
      BY <1>3, <3>1, ConfirmingEntry
    <3> QED BY <1>0, <2>a, <3>1, <3>2, MoverMoney DEF Moves
  <2>b. ASSUME Goto(s, "accept.book"), stripe[call[s].i].st = "succeeded"
               \/ stripe'[call[s].i].st = "succeeded", call[s].at # "accept.book"
        PROVE  MovesFrame
    <3>1. /\ call' = [call EXCEPT ![s] = call'[s]] /\ call'[s].at = "accept.book"
          /\ call'[s].i = call[s].i
      BY <1>0, <2>b DEF Goto, CallsOK, Run
    <3>2. EventEntry(call[s], call'[s])
      BY <2>b, <3>1
         DEF EventEntry, SucceededLabels, Failing, FailedLabels, ReleaseLabels, EndLabels,
         OverLabels
    <3> QED BY <1>0, <2>b, <3>1, <3>2, EntryKinds, MoverMoney DEF Moves
  <2>1. CASE AcceptUndo(s)
    <3>1. CASE call[s].row
      <4>1. /\ call' = [call EXCEPT ![s] = call'[s]] /\ call'[s].at = "accept.undoRow"
            /\ call'[s].i = call[s].i /\ call[s].at = "accept.undo"
        BY <1>0, <2>1, <3>1 DEF AcceptUndo, Goto, CallsOK, Run
      <4>2. stripe'[call[s].i].st # "hold"
        BY <1>0, <1>2, <2>1 DEF AcceptUndo, CancelHold, SetIntent, StripeOK, Intent
      <4>3. AcceptEntry(call[s], call'[s])
        BY <4>1, <4>2 DEF AcceptEntry, ConfirmingLabels
      <4> QED BY <1>0, <4>1, <4>3, EntryKinds, MoverMoney DEF Moves
    <3>2. CASE ~call[s].row
      BY <1>0, <1>2, <2>1, <3>2, MoverMoney DEF AcceptUndo
    <3> QED BY <3>1, <3>2
  <2>2. CASE AcceptUndoRow(s) \/ AcceptRowFail(s)
    BY <1>0, <1>2, <2>2, MoverMoney DEF AcceptUndoRow, AcceptRowFail
  <2>3. CASE AcceptInsert(s) \/ AcceptInsertFails(s)
    BY <2>3, <2>a DEF AcceptInsert, AcceptInsertFails
  <2>4. CASE AcceptAbort(s) \/ AcceptNotCaptured(s)
    BY <2>4, <2>a DEF AcceptAbort, AcceptNotCaptured
  <2>5. CASE AcceptCapture(s)
    <3>1. stripe'[call[s].i].st = "succeeded"
      BY <1>0, <1>2, <2>5 DEF AcceptCapture, Capture, SetIntent, StripeOK
    <3> QED BY <2>5, <2>b, <3>1 DEF AcceptCapture
  <2>6. CASE AcceptCapProbe(s)
    BY <2>6, <2>a, <2>b DEF AcceptCapProbe
  <2>7. CASE AcceptCapCancel(s) \/ AcceptCapStuck(s) \/ AcceptCapDelete(s)
    BY <2>7, <2>a DEF AcceptCapCancel, AcceptCapStuck, AcceptCapDelete
  <2>8. CASE AcceptRestore(s)
    BY <1>0, <1>2, <1>3, <2>8, MoverMoney DEF AcceptRestore
  <2>9. CASE AcceptBook(s)
    <3>1. /\ \A u \in Slots : u # s => call'[u] = call[u]
          /\ call'[s].at = "idle" /\ call[s].at = "accept.book"
      BY <1>0, <2>9 DEF AcceptBook, Finish, CallsOK, Idle
    <3>2. ledger'[call[s].i].charge \in {"completed", "none"}
      BY <1>0, <1>2, <2>9 DEF AcceptBook, SetCharge, Recorded, LedgerOK, Ledger
    <3> QED BY <1>3, <3>1, <3>2, Untold DEF MovesFrame, Moves
  <2>10. CASE AcceptBookLost(s)
    <3>1. /\ \A u \in Slots : u # s => call'[u] = call[u]
          /\ call'[s].at = "idle" /\ call[s].at # "idle"
      BY <1>0, <1>2, <2>10 DEF AcceptBookLost, Finish, CallsOK, Idle
    <3>2. "lost" \in Faults
      BY <2>10 DEF AcceptBookLost, Fault
    <3> QED BY <1>3, <3>1, <3>2, Untold DEF MovesFrame, Moves
  <2>11. CASE AcceptAppend(s)
    BY <1>0, <1>2, <2>11, MoverMoney DEF AcceptAppend
  <2> QED BY <2>1, <2>2, <2>3, <2>4, <2>5, <2>6, <2>7, <2>8, <2>9, <2>10, <2>11
<1>5. ChargeFrame
  <2>1. CASE AcceptInsert(s) \/ AcceptAppend(s)
    <3>1. CASE Recorded(call[s].i)
      BY <2>1, <3>1, SameMoney DEF AcceptInsert, AcceptAppend
    <3>2. CASE ~Recorded(call[s].i)
      <4>1. Moves(s)
        BY <1>0, <1>2, <2>1, <3>2, MoverIs DEF AcceptInsert, AcceptAppend
      <4>2. PICK st : /\ InsertCharge(call[s].i, call[s].g, st)
                      /\ Writes(call[s], ledger[call[s].i].charge, st)
                      /\ call[s].g = NamedBy(call[s])
        BY <2>1, <3>2 DEF AcceptInsert, AcceptAppend, Writes, Recorded, NamedBy
      <4> QED BY <1>0, <1>2, <4>1, <4>2, ChargeMoney
    <3> QED BY <3>1, <3>2
  <2>2. CASE AcceptCapDelete(s)
    <3>1. /\ Moves(s) /\ Writes(call[s], ledger[call[s].i].charge, "none")
          /\ call[s].at \notin NamingLabels
      BY <1>0, <2>2, MoverIs DEF AcceptCapDelete, Writes, NamingLabels
    <3> QED BY <1>0, <1>2, <2>2, <3>1, ChargeMoney DEF AcceptCapDelete
  <2>3. CASE AcceptUndoRow(s) \/ AcceptRowFail(s) \/ AcceptBook(s)
    <3>1. Moves(s) /\ call[s].at \notin NamingLabels
      BY <1>0, <1>2, <2>3, MoverIs DEF AcceptUndoRow, AcceptRowFail, AcceptBook, NamingLabels
    <3>2. \/ UNCHANGED ledger
          \/ \E st : SetCharge(call[s].i, st) /\ Writes(call[s], ledger[call[s].i].charge, st)
      BY <2>3 DEF AcceptUndoRow, AcceptRowFail, AcceptBook, Writes, Recorded
    <3> QED BY <1>0, <1>2, <3>1, <3>2, ChargeMoney, SameMoney
  <2>4. CASE UNCHANGED ledger
    BY <2>4, SameMoney
  <2> QED
    BY <2>1, <2>2, <2>3, <2>4
       DEF AcceptUndo, AcceptInsertFails, AcceptAbort, AcceptCapture,
       AcceptNotCaptured, AcceptCapProbe, AcceptCapCancel, AcceptCapStuck, AcceptRestore,
       AcceptBookLost
<1>6. PaidFrame /\ NewsFrame
  <2>1. CASE AcceptUndo(s) \/ AcceptAbort(s) \/ AcceptCapCancel(s)
    BY <1>0, <1>2, <2>1, IntentMoney DEF AcceptUndo, AcceptAbort, AcceptCapCancel
  <2>2. CASE AcceptCapture(s)
    <3>1. call'[s].at = "accept.book" /\ call'[s].i = call[s].i
      BY <1>0, <2>2 DEF AcceptCapture, Goto, CallsOK, Run
    <3>2. PaidFrame
      BY <1>0, <1>2, <2>2, <3>1
         DEF AcceptCapture, Capture, SetIntent, PaidFrame, StripeOK, Intent, Opened
    <3>3. NewsFrame
      BY <1>0, <1>2, <2>2 DEF AcceptCapture, Capture, SetIntent, NewsFrame, StripeOK, Intent
    <3> QED BY <3>2, <3>3
  <2>3. CASE UNCHANGED <<stripe, events>>
    BY <2>3, SameMoney
  <2> QED
    BY <2>1, <2>2, <2>3
       DEF AcceptUndoRow, AcceptInsert, AcceptInsertFails, AcceptNotCaptured,
       AcceptCapProbe, AcceptCapStuck, AcceptCapDelete, AcceptRestore, AcceptRowFail,
       AcceptBook, AcceptBookLost, AcceptAppend
<1> QED BY <1>4, <1>5, <1>6 DEF MoneyFrame

(* cancelIndividualAppointment. *)
LEMMA CancelMoney ==
    ASSUME TInv, NEW s \in Slots,
           \/ CancelParked(s) \/ CancelPayment(s) \/ CancelRelease(s)
           \/ CancelReleaseFails(s) \/ CancelProbe(s) \/ CancelReleased(s)
           \/ CancelRefund(s) \/ CancelRefundFails(s) \/ CancelRow(s)
           \/ CancelBooked(s) \/ CancelRestore(s)
    PROVE  MoneyFrame
<1>0. LedgerOK /\ StripeOK /\ CallsOK
  BY DEF TInv, DataOK
<1> USE DEF At
<1>1. call[s].at \in CancellingLabels \cup CancelledLabels
  BY DEF CancellingLabels, CancelledLabels, CancelParked, CancelPayment, CancelRelease,
     CancelReleaseFails, CancelProbe, CancelReleased, CancelRefund, CancelRefundFails,
     CancelRow, CancelBooked, CancelRestore
<1>2. /\ ~At(s, "accept.book") /\ call[s].at # "idle"
      /\ call[s].at \notin {"cancel.parked", "cancel.payment", "cancel.restore"}
            => call[s].i \in Intents
  BY <1>0, <1>1, KnowsOK, LabelTable DEF Needs, CancellingLabels, CancelledLabels
<1> USE DEF CancellingLabels, CancelledLabels
<1>4. MovesFrame
  <2>a. ASSUME call' = [call EXCEPT ![s] = call'[s]], call'[s].at # call[s].at,
               call'[s].at \in CancellingLabels \cup CancelledLabels,
               CancelEntry(call[s], call'[s])
        PROVE  MovesFrame
    BY <1>0, <1>2, <2>a, EntryKinds, MoverMoney DEF Moves
  <2>b. ASSUME NEW l \in CancellingLabels, Goto(s, l), l # call[s].at,
               call[s].at \in CancellingLabels,
               l = "cancel.release" => call[s].row,
               l = "cancel.probe" => call[s].at = "cancel.release"
        PROVE  MovesFrame
    <3>1. /\ call' = [call EXCEPT ![s] = call'[s]] /\ call'[s].at = l
          /\ call'[s].i = call[s].i /\ call'[s].row = call[s].row
      BY <1>0, <2>b DEF Goto, CallsOK, Run
    <3>2. CancelEntry(call[s], call'[s])
      BY <2>b, <3>1 DEF CancelEntry
    <3> QED BY <2>a, <2>b, <3>1, <3>2
  <2>c. ASSUME Goto(s, "cancel.released"), call[s].at # "cancel.released",
               \/ stripe'[call[s].i].st = "canceled"
               \/ /\ call[s].at = "cancel.probe"
                  /\ stripe[call[s].i].st \notin {"succeeded", "hold"}
        PROVE  MovesFrame
    <3>1. /\ call' = [call EXCEPT ![s] = call'[s]] /\ call'[s].at = "cancel.released"
          /\ call'[s].i = call[s].i
      BY <1>0, <2>c DEF Goto, CallsOK, Run
    <3>2. CancelEntry(call[s], call'[s])
      BY <2>c, <3>1 DEF CancelEntry
    <3> QED BY <2>a, <2>c, <3>1, <3>2
  <2>1. CASE CancelParked(s)
    <3>1. CASE Parked(call[s].g) = {}
      BY <2>1, <2>b, <3>1 DEF CancelParked
    <3>2. CASE Parked(call[s].g) # {}
      <4>1. PICK i \in Parked(call[s].g) :
               call' = [call EXCEPT ![s].at = "cancel.payment", ![s].i = i, ![s].row = TRUE]
        BY <2>1, <3>2 DEF CancelParked
      <4>2. /\ call' = [call EXCEPT ![s] = call'[s]] /\ call'[s].at = "cancel.payment"
            /\ call'[s].i = i
        BY <1>0, <4>1 DEF CallsOK, Run
      <4>3. CancelEntry(call[s], call'[s])
        BY <4>2 DEF CancelEntry
      <4> QED BY <2>1, <2>a, <4>2, <4>3 DEF CancelParked
    <3> QED BY <3>1, <3>2
  <2>2. CASE CancelPayment(s)
    <3>1. \/ Finish(s) \/ Goto(s, "cancel.restore")
          \/ Goto(s, "cancel.release") /\ call[s].row
          \/ /\ ~call[s].row
             /\ \E j : call' = [call EXCEPT ![s].at = "cancel.refund", ![s].i = j]
      BY <2>2 DEF CancelPayment
    <3>2. CASE \E j : call' = [call EXCEPT ![s].at = "cancel.refund", ![s].i = j] /\ ~call[s].row
      <4>1. /\ call' = [call EXCEPT ![s] = call'[s]] /\ call'[s].at = "cancel.refund"
            /\ call'[s].row = call[s].row
        BY <1>0, <3>2, ZenonT(40) DEF CallsOK, Run
      <4>2. CancelEntry(call[s], call'[s])
        BY <3>2, <4>1 DEF CancelEntry
      <4> QED BY <2>2, <2>a, <4>1, <4>2 DEF CancelPayment
    <3> QED BY <1>0, <1>2, <2>2, <2>b, <3>1, <3>2, MoverMoney DEF CancelPayment
  <2>3. CASE CancelRelease(s)
    <3>1. stripe[call[s].i].st = "hold" => stripe'[call[s].i].st = "canceled"
      BY <1>0, <1>2, <2>3 DEF CancelRelease, CancelHold, SetIntent, StripeOK, Intent
    <3> QED BY <2>3, <2>b, <2>c, <3>1 DEF CancelRelease
  <2>4. CASE CancelReleaseFails(s)
    BY <2>4, <2>b DEF CancelReleaseFails
  <2>5. CASE CancelProbe(s)
    BY <2>5, <2>b, <2>c DEF CancelProbe
  <2>6. CASE CancelReleased(s) \/ CancelBooked(s) \/ CancelRestore(s)
    BY <1>0, <1>2, <2>6, MoverMoney DEF CancelReleased, CancelBooked, CancelRestore
  <2>7. CASE CancelRefund(s)
    <3>1. CASE CanRefund(call[s].i)
      <4>1. /\ call' = [call EXCEPT ![s] = call'[s]] /\ call'[s].at = "cancel.row"
            /\ call'[s].i = call[s].i
        BY <1>0, <2>7, <3>1 DEF CancelRefund, Goto, CallsOK, Run
      <4>2. stripe'[call[s].i].refunded
        BY <1>0, <1>2, <2>7, <3>1 DEF CancelRefund, Refund, StripeOK, Intent
      <4>3. CancelEntry(call[s], call'[s])
        BY <4>1, <4>2 DEF CancelEntry
      <4> QED BY <2>7, <2>a, <4>1, <4>3 DEF CancelRefund
    <3>2. CASE ~CanRefund(call[s].i)
      BY <2>7, <2>b, <3>2 DEF CancelRefund
    <3> QED BY <3>1, <3>2
  <2>8. CASE CancelRefundFails(s)
    BY <2>8, <2>b DEF CancelRefundFails
  <2>9. CASE CancelRow(s)
    <3>1. /\ call' = [call EXCEPT ![s] = call'[s]] /\ call'[s].at = "cancel.booked"
          /\ call'[s].i = call[s].i /\ call[s].at = "cancel.row"
      BY <1>0, <2>9 DEF CancelRow, Goto, CallsOK, Run
    <3>2. CancelEntry(call[s], call'[s])
      BY <3>1 DEF CancelEntry
    <3> QED BY <2>a, <3>1, <3>2
  <2> QED BY <2>1, <2>2, <2>3, <2>4, <2>5, <2>6, <2>7, <2>8, <2>9
<1>5. ChargeFrame
  <2>1. CASE CancelReleased(s) \/ CancelBooked(s)
    <3>1. /\ Moves(s) /\ call[s].at \notin NamingLabels
          /\ \E st : SetCharge(call[s].i, st) /\ Writes(call[s], ledger[call[s].i].charge, st)
      BY <1>0, <2>1, MoverIs DEF CancelReleased, CancelBooked, Writes, NamingLabels
    <3> QED BY <1>0, <1>2, <2>1, <3>1, ChargeMoney DEF CancelReleased, CancelBooked
  <2>2. CASE CancelRow(s)
    BY <1>0, <1>2, <2>2, ChargeMoney DEF CancelRow
  <2>3. CASE UNCHANGED ledger
    BY <2>3, SameMoney
  <2> QED
    BY <2>1, <2>2, <2>3
       DEF CancelParked, CancelPayment, CancelRelease, CancelReleaseFails, CancelProbe,
       CancelRefund, CancelRefundFails, CancelRestore
<1>6. PaidFrame /\ NewsFrame
  <2>1. CASE CancelRelease(s) \/ CancelRefund(s)
    BY <1>0, <1>2, <2>1, IntentMoney, SameMoney DEF CancelRelease, CancelRefund
  <2>2. CASE UNCHANGED <<stripe, events>>
    BY <2>2, SameMoney
  <2> QED
    BY <2>1, <2>2
       DEF CancelParked, CancelPayment, CancelReleaseFails, CancelProbe,
       CancelReleased, CancelRefundFails, CancelRow, CancelBooked, CancelRestore
<1> QED BY <1>4, <1>5, <1>6 DEF MoneyFrame

(* sweepExpiredSessionHolds. *)
LEMMA HoldMoney ==
    ASSUME TInv, NEW s \in Slots,
           \/ HoldParked(s) \/ HoldClear(s) \/ HoldClose(s) \/ HoldClaim(s)
           \/ HoldRelease(s) \/ HoldReleaseFails(s) \/ HoldProbe(s)
           \/ HoldReleased(s) \/ HoldRow(s) \/ HoldBooked(s) \/ HoldStuck(s)
    PROVE  MoneyFrame
<1>0. SessionOK /\ LedgerOK /\ StripeOK /\ CallsOK
  BY DEF TInv, DataOK
<1> USE DEF At
<1>1. call[s].at \in HoldLabels
  BY DEF HoldLabels, HoldParked, HoldClear, HoldClose, HoldClaim, HoldRelease,
     HoldReleaseFails, HoldProbe, HoldReleased, HoldRow, HoldBooked, HoldStuck
<1>2. /\ ~At(s, "accept.book") /\ call[s].at # "idle" /\ call[s].g \in Sessions
      /\ call[s].at \notin {"hold.parked", "hold.close", "hold.clear"}
            => call[s].i \in Intents
  BY <1>0, <1>1, KnowsOK, LabelTable DEF Needs, HoldLabels
<1> USE DEF HoldLabels
<1>4. MovesFrame
  <2>a. ASSUME call' = [call EXCEPT ![s] = call'[s]], call'[s].at # call[s].at,
               call'[s].at \in HoldLabels, HoldEntry(call[s], call'[s])
        PROVE  MovesFrame
    BY <1>0, <1>2, <2>a, EntryKinds, MoverMoney DEF Moves
  <2>b. ASSUME NEW l \in HoldLabels, Goto(s, l), l # call[s].at, l # "hold.claim",
               l \in ShutLabels =>
                   \/ call[s].at \in ShutLabels
                   \/ /\ call[s].at = "hold.claim" /\ session[call[s].g].st = "pending"
                      /\ session'[call[s].g].st = "cancelled",
               l = "hold.released" =>
                   \/ stripe'[call[s].i].st = "canceled"
                   \/ call[s].at = "hold.probe"
                      /\ stripe[call[s].i].st \notin {"succeeded", "hold"},
               l = "hold.row" => stripe'[call[s].i].refunded,
               l = "hold.booked" => call[s].at = "hold.row",
               l = "hold.stuck" => stripe[call[s].i].st = "hold"
        PROVE  MovesFrame
    <3>1. /\ call' = [call EXCEPT ![s] = call'[s]] /\ call'[s].at = l
          /\ call'[s].i = call[s].i /\ call'[s].g = call[s].g
      BY <1>0, <2>b DEF Goto, CallsOK, Run
    <3>2. HoldEntry(call[s], call'[s])
      BY <2>b, <3>1 DEF HoldEntry, SameWork
    <3> QED BY <2>a, <2>b, <3>1, <3>2
  <2>1. CASE HoldParked(s)
    <3>1. CASE Parked(call[s].g) = {}
      BY <2>1, <2>b, <3>1 DEF HoldParked, ShutLabels
    <3>2. CASE Parked(call[s].g) # {}
      <4>1. PICK i \in Parked(call[s].g) :
               call' = [call EXCEPT ![s].at = "hold.claim", ![s].i = i]
        BY <2>1, <3>2 DEF HoldParked
      <4>2. /\ call' = [call EXCEPT ![s] = call'[s]] /\ call'[s].at = "hold.claim"
            /\ call'[s].i = i /\ call'[s].g = call[s].g
        BY <1>0, <4>1 DEF CallsOK, Run
      <4>3. HoldEntry(call[s], call'[s])
        BY <4>2 DEF HoldEntry, ShutLabels
      <4> QED BY <2>1, <2>a, <4>2, <4>3 DEF HoldParked
    <3> QED BY <3>1, <3>2
  <2>2. CASE HoldClear(s) \/ HoldClose(s) \/ HoldReleased(s) \/ HoldBooked(s) \/ HoldStuck(s)
    BY <1>0, <1>2, <2>2, MoverMoney
       DEF HoldClear, HoldClose, HoldReleased, HoldBooked, HoldStuck
  <2>3. CASE HoldClaim(s)
    <3>1. CASE session[call[s].g].st = "pending"
      <4>1. session'[call[s].g].st = "cancelled"
        BY <1>0, <1>2, <2>3, <3>1 DEF HoldClaim, MoveSession, SetSession, SessionOK, Session
      <4> QED BY <2>3, <2>b, <3>1, <4>1 DEF HoldClaim
    <3>2. CASE session[call[s].g].st # "pending"
      BY <1>0, <1>2, <2>3, <3>2, MoverMoney DEF HoldClaim
    <3> QED BY <3>1, <3>2
  <2>4. CASE HoldRelease(s)
    <3>1. stripe[call[s].i].st = "hold" => stripe'[call[s].i].st = "canceled"
      BY <1>0, <1>2, <2>4 DEF HoldRelease, CancelHold, SetIntent, StripeOK, Intent
    <3> QED BY <2>4, <2>b, <3>1 DEF HoldRelease, ShutLabels
  <2>5. CASE HoldReleaseFails(s)
    BY <2>5, <2>b DEF HoldReleaseFails, ShutLabels
  <2>6. CASE HoldProbe(s)
    <3>1. CASE CanRefund(call[s].i)
      <4>1. stripe'[call[s].i].refunded
        BY <1>0, <1>2, <2>6, <3>1 DEF HoldProbe, Refund, StripeOK, Intent
      <4> QED BY <2>6, <2>b, <3>1, <4>1 DEF HoldProbe, ShutLabels
    <3>2. CASE ~CanRefund(call[s].i)
      BY <2>6, <2>b, <3>2 DEF HoldProbe, ShutLabels, CanRefund
    <3> QED BY <3>1, <3>2
  <2>7. CASE HoldRow(s)
    BY <2>7, <2>b DEF HoldRow, ShutLabels
  <2> QED BY <2>1, <2>2, <2>3, <2>4, <2>5, <2>6, <2>7
<1>5. ChargeFrame
  <2>1. CASE HoldReleased(s) \/ HoldBooked(s) \/ HoldStuck(s)
    <3>1. /\ Moves(s) /\ call[s].at \notin NamingLabels
          /\ \E st : SetCharge(call[s].i, st) /\ Writes(call[s], ledger[call[s].i].charge, st)
      BY <1>0, <2>1, MoverIs DEF HoldReleased, HoldBooked, HoldStuck, Writes, NamingLabels
    <3> QED BY <1>0, <1>2, <2>1, <3>1, ChargeMoney DEF HoldReleased, HoldBooked, HoldStuck
  <2>2. CASE HoldRow(s)
    BY <1>0, <1>2, <2>2, ChargeMoney DEF HoldRow
  <2>3. CASE UNCHANGED ledger
    BY <2>3, SameMoney
  <2> QED
    BY <2>1, <2>2, <2>3
       DEF HoldParked, HoldClear, HoldClose, HoldClaim, HoldRelease, HoldReleaseFails,
       HoldProbe
<1>6. PaidFrame /\ NewsFrame
  <2>1. CASE HoldRelease(s) \/ HoldProbe(s)
    BY <1>0, <1>2, <2>1, IntentMoney, SameMoney DEF HoldRelease, HoldProbe
  <2>2. CASE UNCHANGED <<stripe, events>>
    BY <2>2, SameMoney
  <2> QED
    BY <2>1, <2>2
       DEF HoldParked, HoldClear, HoldClose, HoldClaim, HoldReleaseFails,
       HoldReleased, HoldRow, HoldBooked, HoldStuck
<1> QED BY <1>4, <1>5, <1>6 DEF MoneyFrame

(* releaseUncapturedSeatClaim is entered for a row that has been failed.   *)
LEMMA ReleaseMoney ==
    ASSUME CallsOK, NEW s \in Slots, ~At(s, "accept.book")
    PROVE  /\ \A ret : /\ Release(s, call[s].i, ret) /\ call[s].at # "release.read"
                       /\ (ret # "idle" => Failing(call[s]))
                       /\ \/ Failing(call[s]) \/ call[s].at = "sweep.released"
                          \/ stripe'[call[s].i].st = "canceled"
                       /\ call[s].at \in OverLabels
                       => MovesFrame /\ Moves(s)
           /\ Released(s) /\ call[s].at \in ReleaseLabels => MovesFrame
<1>1. ASSUME NEW ret, Release(s, call[s].i, ret), call[s].at # "release.read",
             ret # "idle" => Failing(call[s]),
             \/ Failing(call[s]) \/ call[s].at = "sweep.released"
             \/ stripe'[call[s].i].st = "canceled",
             call[s].at \in OverLabels
      PROVE  MovesFrame /\ Moves(s)
  <2>1. /\ call' = [call EXCEPT ![s] = call'[s]] /\ call'[s].at = "release.read"
        /\ call'[s].i = call[s].i /\ call'[s].row = call[s].row /\ call'[s].ret = ret
        /\ call'[s].g = call[s].g
    BY <1>1 DEF Release, CallsOK, Run
  <2>2. EventEntry(call[s], call'[s])
    BY <1>1, <2>1
       DEF EventEntry, Failing, FailedLabels, SucceededLabels, EndLabels, OverLabels,
       ReleaseLabels
  <2> QED BY <1>1, <2>1, <2>2, EntryKinds, MoverMoney DEF Moves, EventLabels
<1>2. ASSUME Released(s), call[s].at \in ReleaseLabels PROVE MovesFrame
  <2>1. CASE call[s].ret = "idle"
    BY <1>2, <2>1, MoverMoney DEF Released, ReleaseLabels
  <2>2. CASE call[s].ret # "idle"
    <3>1. /\ call' = [call EXCEPT ![s] = call'[s]] /\ call'[s].at = "failed.withheld"
          /\ call'[s].i = call[s].i /\ call'[s].row = call[s].row
      BY <1>2, <2>2 DEF Released, CallsOK, Run, Knows
    <3>2. EventEntry(call[s], call'[s])
      BY <1>2, <2>2, <3>1
         DEF EventEntry, Failing, SucceededLabels, EndLabels, OverLabels, ReleaseLabels
    <3> QED BY <1>2, <3>1, <3>2, EntryKinds, MoverMoney DEF Moves, EventLabels, ReleaseLabels
  <2> QED BY <2>1, <2>2
<1> QED BY <1>1, <1>2

(* The webhook events. *)
LEMMA EventMoney ==
    ASSUME TInv, NEW s \in Slots,
           \/ ReleaseRead(s) \/ ReleasePaid(s) \/ ReleaseCancel(s)
           \/ FailedRow(s) \/ FailedWithheld(s) \/ WithheldRow(s)
           \/ FailedSession(s) \/ FailedAgain(s)
           \/ SucceededRecorded(s) \/ SucceededDelivered(s) \/ RecordCharge(s)
    PROVE  MoneyFrame
<1>0. LedgerOK /\ CallsOK
  BY DEF TInv, DataOK
<1> USE DEF At
<1>1. call[s].at \in EventLabels
  BY DEF EventLabels, ReleaseRead, ReleasePaid, ReleaseCancel, FailedRow, FailedWithheld,
     WithheldRow, FailedSession, FailedAgain, SucceededRecorded, SucceededDelivered,
     RecordCharge
<1>2. ~At(s, "accept.book") /\ call[s].at # "idle" /\ call[s].i \in Intents
  BY <1>0, <1>1, KnowsOK, LabelTable DEF Needs, EventLabels
<1> USE DEF EventLabels, FailedLabels, ReleaseLabels, SucceededLabels
<1>4. MovesFrame
  <2>a. ASSUME call' = [call EXCEPT ![s] = call'[s]], call'[s].at # call[s].at,
               call'[s].at \in EventLabels, EventEntry(call[s], call'[s])
        PROVE  MovesFrame
    BY <1>0, <1>2, <2>a, EntryKinds, MoverMoney DEF Moves
  <2>b. ASSUME NEW l \in EventLabels, Goto(s, l), l # call[s].at,
               l \in FailedLabels => Failing(call[s]),
               l \in ReleaseLabels => call[s].at \in ReleaseLabels,
               l = "withheld.release" => call[s].row,
               l \in SucceededLabels => call[s].at \in SucceededLabels,
               l = "succeeded.record" => Delivered(call[s].i) /\ UNCHANGED session,
               l \in EndLabels => Failing(call[s]) \/ call[s].at \in EndLabels,
               l # "failed.row"
        PROVE  MovesFrame
    <3>1. /\ call' = [call EXCEPT ![s] = call'[s]] /\ call'[s].at = l
          /\ call'[s].i = call[s].i /\ call'[s].row = call[s].row
          /\ call'[s].ret = call[s].ret /\ call'[s].g = call[s].g
      BY <1>0, <2>b DEF Goto, CallsOK, Run
    <3>2. EventEntry(call[s], call'[s])
      BY <2>b, <3>1 DEF EventEntry, Failing, EndLabels, OverLabels
    <3> QED BY <2>a, <2>b, <3>1, <3>2
  <2>1. CASE ReleaseRead(s)
    BY <1>0, <1>2, <2>1, <2>b, ReleaseMoney DEF ReleaseRead, EndLabels
  <2>2. CASE ReleasePaid(s)
    BY <1>0, <1>2, <2>2, <2>b, ReleaseMoney DEF ReleasePaid, EndLabels
  <2>3. CASE ReleaseCancel(s)
    BY <1>0, <1>2, <2>3, ReleaseMoney DEF ReleaseCancel
  <2>4. CASE FailedRow(s)
    BY <1>0, <1>2, <2>4, ReleaseMoney DEF FailedRow, Failing, OverLabels
  <2>5. CASE FailedWithheld(s)
    <3>1. CASE ledger[call[s].i].charge = "withheld"
      <4>1. /\ call' = [call EXCEPT ![s] = call'[s]]
            /\ call'[s].at = IF call[s].row THEN "withheld.release" ELSE "withheld.fail"
            /\ call'[s].i = call[s].i /\ call'[s].row = call[s].row
        BY <1>0, <2>5, <3>1 DEF FailedWithheld, CallsOK, Run
      <4>2. EventEntry(call[s], call'[s])
        BY <2>5, <4>1 DEF EventEntry, Failing, FailedWithheld, EndLabels, OverLabels
      <4> QED BY <2>5, <2>a, <4>1, <4>2 DEF FailedWithheld
    <3>2. CASE ledger[call[s].i].charge # "withheld"
      BY <2>5, <2>b, <3>2 DEF FailedWithheld, Failing
    <3> QED BY <3>1, <3>2
  <2>6. CASE WithheldRow(s) \/ FailedSession(s)
    BY <2>6, <2>b DEF WithheldRow, FailedSession, Failing, EndLabels
  <2>7. CASE FailedAgain(s)
    <3>1. CASE stripe[call[s].i].g = NoSession
      BY <1>0, <1>2, <2>7, <3>1, MoverMoney DEF FailedAgain
    <3>2. CASE stripe[call[s].i].g # NoSession
      <4>1. /\ call' = [call EXCEPT ![s] = call'[s]]
            /\ call'[s].at = "release.read" /\ call'[s].ret = "idle"
            /\ call'[s].i = call[s].i /\ call'[s].g = stripe[call[s].i].g
        BY <1>0, <2>7, <3>2 DEF FailedAgain, CallsOK, Run
      <4>2. EventEntry(call[s], call'[s])
        BY <2>7, <4>1 DEF EventEntry, Failing, FailedAgain, EndLabels
      <4> QED BY <2>7, <2>a, <4>1, <4>2 DEF FailedAgain
    <3> QED BY <3>1, <3>2
  <2>8. CASE SucceededRecorded(s) \/ SucceededDelivered(s)
    BY <1>0, <1>2, <2>8, <2>b, MoverMoney DEF SucceededRecorded, SucceededDelivered, EndLabels
  <2>9. CASE RecordCharge(s)
    BY <1>0, <1>2, <2>9, MoverMoney DEF RecordCharge
  <2> QED BY <2>1, <2>2, <2>3, <2>4, <2>5, <2>6, <2>7, <2>8, <2>9
<1>5. ChargeFrame
  <2>1. CASE FailedRow(s) \/ WithheldRow(s)
    <3>1. Moves(s) /\ call[s].at \notin NamingLabels
      <4>1. CASE FailedRow(s)
        BY <1>0, <1>2, <4>1, ReleaseMoney DEF FailedRow, Failing, OverLabels, NamingLabels
      <4>2. CASE WithheldRow(s)
        BY <1>0, <4>2, MoverIs DEF WithheldRow, NamingLabels
      <4> QED BY <2>1, <4>1, <4>2
    <3>2. \E from, st : MoveCharge(call[s].i, from, st) /\ Writes(call[s], from, st)
      BY <2>1 DEF FailedRow, WithheldRow, Writes
    <3> QED BY <1>0, <1>2, <3>1, <3>2, ChargeMoney
  <2>2. CASE RecordCharge(s)
    <3>1. CASE Recorded(call[s].i)
      BY <2>2, <3>1, SameMoney DEF RecordCharge
    <3>2. CASE ~Recorded(call[s].i)
      <4>1. /\ Moves(s) /\ Writes(call[s], ledger[call[s].i].charge, "completed")
            /\ InsertCharge(call[s].i, stripe[call[s].i].g, "completed")
            /\ stripe[call[s].i].g = NamedBy(call[s])
        BY <1>0, <2>2, <3>2, MoverIs DEF RecordCharge, Writes, Recorded, NamedBy
      <4> QED BY <1>0, <1>2, <4>1, ChargeMoney
    <3> QED BY <3>1, <3>2
  <2>3. CASE UNCHANGED ledger
    BY <2>3, SameMoney
  <2> QED
    BY <2>1, <2>2, <2>3
       DEF ReleaseRead, ReleasePaid, ReleaseCancel, FailedWithheld, FailedSession,
       FailedAgain, SucceededRecorded, SucceededDelivered
<1>6. PaidFrame /\ NewsFrame
  BY SameMoney
     DEF ReleaseRead, ReleasePaid, ReleaseCancel, FailedRow, FailedWithheld, WithheldRow,
     FailedSession, FailedAgain, SucceededRecorded, SucceededDelivered, RecordCharge
<1> QED BY <1>4, <1>5, <1>6 DEF MoneyFrame

(* sweepPendingSeminarPayments, sweepOrphanedBookingIntents. *)
LEMMA SweepMoney ==
    ASSUME TInv, NEW s \in Slots,
           \/ SweepAuthorized(s) \/ SweepProcessing(s) \/ SweepEnrolled(s)
           \/ SweepSettle(s) \/ SweepCancel(s) \/ SweepReleased(s)
           \/ SweepRefused(s) \/ StrayCancel(s) \/ StrayDelivered(s)
           \/ StrayRefund(s) \/ StrayRow(s)
    PROVE  MoneyFrame
<1>0. LedgerOK /\ StripeOK /\ CallsOK
  BY DEF TInv, DataOK
<1> USE DEF At
<1>1. call[s].at \in SweepLabels
  BY DEF SweepLabels, SweepAuthorized, SweepProcessing, SweepEnrolled, SweepSettle,
     SweepCancel, SweepReleased, SweepRefused, StrayCancel, StrayDelivered, StrayRefund,
     StrayRow
<1>2. ~At(s, "accept.book") /\ call[s].at # "idle" /\ call[s].i \in Intents
  BY <1>0, <1>1, KnowsOK, LabelTable DEF Needs, SweepLabels
<1> USE DEF SweepLabels
<1>4. MovesFrame
  <2>a. ASSUME NEW l \in SweepLabels, Goto(s, l), l # call[s].at, l # "sweep.authorized",
               l \in {"sweep.enrolled", "stray.delivered"} => FALSE,
               l = "sweep.settle" => call[s].at = "sweep.enrolled",
               l = "sweep.processing" => call[s].at = "sweep.authorized"
                                         /\ stripe[call[s].i].st # "hold",
               l = "sweep.fail" => call[s].at = "sweep.processing",
               l = "sweep.released" => stripe'[call[s].i].st = "canceled",
               l \in OverLabels => call[s].at \in OverLabels
        PROVE  MovesFrame
    <3>1. /\ call' = [call EXCEPT ![s] = call'[s]] /\ call'[s].at = l
          /\ call'[s].i = call[s].i /\ call'[s].g = call[s].g
      BY <1>0, <2>a DEF Goto, CallsOK, Run
    <3>2. EventEntry(call[s], call'[s])
      BY <2>a, <3>1
         DEF EventEntry, Failing, FailedLabels, ReleaseLabels, SucceededLabels, EndLabels
    <3>3. SweepEntry(call[s], call'[s])
      BY <2>a, <3>1 DEF SweepEntry
    <3> QED BY <1>0, <1>2, <2>a, <3>1, <3>2, <3>3, EntryKinds, MoverMoney DEF Moves
  <2>1. CASE SweepAuthorized(s)
    BY <2>1, <2>a DEF SweepAuthorized, OverLabels
  <2>2. CASE SweepProcessing(s)
    BY <1>0, <1>2, <2>2, <2>a, MoverMoney DEF SweepProcessing, OverLabels, ReleaseLabels
  <2>3. CASE SweepEnrolled(s)
    BY <2>3, <2>a DEF SweepEnrolled, OverLabels, ReleaseLabels
  <2>4. CASE SweepSettle(s) \/ SweepRefused(s) \/ StrayRow(s)
    BY <1>0, <1>2, <2>4, MoverMoney DEF SweepSettle, SweepRefused, StrayRow
  <2>5. CASE SweepCancel(s)
    <3>1. stripe[call[s].i].st = "hold" => stripe'[call[s].i].st = "canceled"
      BY <1>0, <1>2, <2>5 DEF SweepCancel, CancelHold, SetIntent, StripeOK, Intent
    <3> QED BY <1>0, <1>2, <2>5, <2>a, <3>1, MoverMoney DEF SweepCancel, OverLabels
  <2>6. CASE SweepReleased(s) \/ StrayCancel(s)
    <3>1. StrayCancel(s) /\ stripe[call[s].i].st = "hold" => stripe'[call[s].i].st = "canceled"
      BY <1>0, <1>2 DEF StrayCancel, CancelHold, SetIntent, StripeOK, Intent
    <3> QED
      BY <1>0, <1>2, <2>6, <3>1, MoverMoney, ReleaseMoney
         DEF SweepReleased, StrayCancel, OverLabels
  <2>7. CASE StrayDelivered(s)
    <3>1. CASE Delivered(call[s].i)
      <4>1. /\ call' = [call EXCEPT ![s] = call'[s]] /\ call'[s].at = "succeeded.record"
            /\ call'[s].i = call[s].i /\ call[s].at = "stray.delivered"
        BY <1>0, <2>7, <3>1 DEF StrayDelivered, Goto, CallsOK, Run
      <4>2. EventEntry(call[s], call'[s])
        BY <2>7, <3>1, <4>1
           DEF EventEntry, Failing, FailedLabels, ReleaseLabels, SucceededLabels, EndLabels,
           OverLabels, StrayDelivered
      <4> QED BY <1>0, <1>2, <4>1, <4>2, EntryKinds, MoverMoney DEF Moves, EventLabels
    <3>2. CASE ~Delivered(call[s].i)
      BY <2>7, <2>a, <3>2 DEF StrayDelivered, OverLabels, ReleaseLabels
    <3> QED BY <3>1, <3>2
  <2>8. CASE StrayRefund(s)
    BY <2>8, <2>a DEF StrayRefund, OverLabels, ReleaseLabels
  <2> QED BY <2>1, <2>2, <2>3, <2>4, <2>5, <2>6, <2>7, <2>8
<1>5. ChargeFrame
  <2>1. CASE SweepSettle(s) \/ SweepReleased(s)
    <3>1. CASE UNCHANGED ledger
      BY <3>1, SameMoney
    <3>2. CASE ~UNCHANGED ledger
      <4>1. Moves(s) /\ call[s].at \notin NamingLabels
        BY <1>0, <1>2, <2>1, <3>2, MoverIs, ReleaseMoney
           DEF SweepSettle, SweepReleased, MoveCharge, NamingLabels, OverLabels
      <4>2. \E from, st : MoveCharge(call[s].i, from, st) /\ Writes(call[s], from, st)
        BY <2>1 DEF SweepSettle, SweepReleased, Writes
      <4> QED BY <1>0, <1>2, <4>1, <4>2, ChargeMoney
    <3> QED BY <3>1, <3>2
  <2>2. CASE StrayRow(s)
    BY <1>0, <1>2, <2>2, ChargeMoney DEF StrayRow
  <2>3. CASE UNCHANGED ledger
    BY <2>3, SameMoney
  <2> QED
    BY <2>1, <2>2, <2>3
       DEF SweepAuthorized, SweepProcessing, SweepEnrolled, SweepCancel, SweepRefused,
       StrayCancel, StrayDelivered, StrayRefund
<1>6. PaidFrame /\ NewsFrame
  <2>1. CASE SweepCancel(s) \/ StrayCancel(s) \/ StrayRefund(s)
    BY <1>0, <1>2, <2>1, IntentMoney, SameMoney DEF SweepCancel, StrayCancel, StrayRefund
  <2>2. CASE UNCHANGED <<stripe, events>>
    BY <2>2, SameMoney
  <2> QED
    BY <2>1, <2>2
       DEF SweepAuthorized, SweepProcessing, SweepEnrolled, SweepSettle, SweepReleased,
       SweepRefused, StrayDelivered, StrayRow
<1> QED BY <1>4, <1>5, <1>6 DEF MoneyFrame

-----------------------------------------------------------------------------
(* Somebody calls a handler. *)
LEMMA StartMoney ==
    ASSUME CallsOK, NEW s \in Slots, At(s, "idle"),
           call' = [call EXCEPT ![s] = call'[s]], call'[s].at # "idle",
           Entry(call[s], call'[s])
    PROVE  MovesFrame
BY MoverMoney DEF At, Moves

LEMMA CallMoney ==
    ASSUME TInv, NEW s \in Slots, BookingCall(s) \/ EndingCall(s)
    PROVE  MoneyFrame
<1>0. LedgerOK /\ StripeOK /\ CallsOK
  BY DEF TInv, DataOK
<1>c. At(s, "idle") /\ call[s] \in Run(Labels) /\ call[s] = Idle
  BY <1>0, FreeSlot DEF BookingCall, EndingCall, Propose, Request, AcceptAsExpert,
     AcceptAsStudent, Cancel, Calling, CallsOK
<1>u. \A l \in {"request.create", "request.consumed", "accept.parked", "accept.paid"} :
            l \notin Telling
  BY Untold DEF RequestLabels, ReadLabels
<1>1. CASE Propose(s)
  BY <1>1, SameMoney DEF Propose, MoneyFrame
<1>2. ASSUME NEW i \in Intents \cup {NoIntent}, Request(s, i) PROVE MoneyFrame
  <2>1. PICK l \in {"request.create", "request.consumed"} :
            \/ call' = [call EXCEPT ![s].at = l]
            \/ call' = [call EXCEPT ![s].at = l, ![s].i = i]
    BY <1>2 DEF Request
  <2>2. call' = [call EXCEPT ![s] = call'[s]] /\ call'[s].at = l
    BY <1>0, <1>c, <2>1 DEF CallsOK, Run
  <2>3. MovesFrame
    BY <1>0, <1>c, <1>u, <2>2, Untold, StartMoney
  <2>4. PaidFrame
    BY <1>0, <1>2, SameMoney, IntentMoney DEF Request
  <2> QED BY <1>2, <2>3, <2>4, SameMoney DEF Request, MoneyFrame
<1>3. ASSUME NEW g \in Sessions, AcceptAsExpert(s, g) PROVE MoneyFrame
  <2>0. PICK lapsed \in BOOLEAN, window \in BOOLEAN :
            call' = [call EXCEPT ![s].at = "accept.parked", ![s].g = g,
                ![s].who = "expert", ![s].lapsed = lapsed, ![s].window = window]
    BY <1>3 DEF AcceptAsExpert
  <2>1. call' = [call EXCEPT ![s] = call'[s]] /\ call'[s].at = "accept.parked"
    BY <1>0, <1>c, <2>0 DEF CallsOK, Run
  <2>2. MovesFrame
    BY <1>0, <1>c, <1>u, <2>1, Untold, StartMoney
  <2> QED BY <1>3, <2>2, SameMoney DEF AcceptAsExpert, MoneyFrame
<1>4. ASSUME NEW g \in Sessions, NEW i \in Intents \cup {NoIntent},
             AcceptAsStudent(s, g, i)
      PROVE  MoneyFrame
  <2>1. MovesFrame
    <3>1. CASE session[g].st = "pending"
      <4>1. PICK lapsed \in BOOLEAN, window \in BOOLEAN :
                call' = [call EXCEPT ![s].at = "accept.paid", ![s].g = g, ![s].i = i,
                    ![s].who = "student", ![s].lapsed = lapsed, ![s].window = window]
        BY <1>4, <3>1 DEF AcceptAsStudent
      <4>2. call' = [call EXCEPT ![s] = call'[s]] /\ call'[s].at = "accept.paid"
        BY <1>0, <1>c, <4>1 DEF CallsOK, Run
      <4> QED BY <1>0, <1>c, <1>u, <4>2, Untold, StartMoney
    <3>2. CASE session[g].st # "pending"
      <4>1. Orphaned(s, g, i)
        BY <1>4, <3>2 DEF AcceptAsStudent
      <4>2. CASE i = NoIntent
        BY <1>0, <1>c, <4>1, <4>2 DEF Orphaned, Finish, CallsOK, MovesFrame
      <4>3. CASE i # NoIntent
        <5>1. call' = [call EXCEPT ![s] = call'[s]] /\ call'[s].at = "orphan.recorded"
          BY <1>0, <1>c, <4>1, <4>3 DEF Orphaned, CallsOK, Run
        <5>2. Entry(call[s], call'[s])
          BY <1>4, <5>1, EntryKinds
             DEF AcceptAsStudent, Calling, BackEntry, MoneyBackLabels, RefundedAfter
        <5> QED BY <1>0, <1>c, <5>1, <5>2, StartMoney
      <4> QED BY <4>2, <4>3
    <3> QED BY <3>1, <3>2
  <2>2. PaidFrame
    BY <1>0, <1>4, SameMoney, IntentMoney DEF AcceptAsStudent
  <2> QED BY <1>4, <2>1, <2>2, SameMoney DEF AcceptAsStudent, MoneyFrame
<1>5. ASSUME NEW g \in Sessions, NEW who \in {"student", "expert"}, Cancel(s, g, who)
      PROVE  MoneyFrame
  <2>0. call' = [call EXCEPT ![s].at = "cancel.parked", ![s].g = g, ![s].who = who]
    BY <1>5 DEF Cancel
  <2>1. /\ call' = [call EXCEPT ![s] = call'[s]] /\ call'[s].at = "cancel.parked"
        /\ ~call'[s].row
    BY <1>0, <1>c, <2>0 DEF CallsOK, Run, Idle
  <2>2. Entry(call[s], call'[s])
    BY <2>1, EntryKinds DEF CancelEntry, CancellingLabels
  <2>3. MovesFrame
    BY <1>0, <1>c, <2>1, <2>2, StartMoney
  <2> QED BY <1>5, <2>3, SameMoney DEF Cancel, MoneyFrame
<1> QED BY <1>1, <1>2, <1>3, <1>4, <1>5 DEF BookingCall, EndingCall

(* Stripe delivers an event, a sweep takes up an intent or a session. *)
LEMMA PickUpMoney ==
    ASSUME TInv, NEW s \in Slots, WebhookStep(s) \/ SweepStep(s)
    PROVE  MoneyFrame
<1>0. LedgerOK /\ StripeOK /\ CallsOK
  BY DEF TInv, DataOK
<1>1. ASSUME NEW i \in Intents, FailedEvent(s, i) PROVE MoneyFrame
  <2>1. PICK kind \in {"failed", "canceled"} :
            /\ <<kind, i>> \in events /\ events' = events \ {<<kind, i>>}
            /\ call' = [call EXCEPT ![s].i = i, ![s].g = ledger[i].g,
                   ![s].row = kind = "canceled",
                   ![s].at = IF ledger[i].charge = "pending" THEN "failed.row"
                             ELSE "failed.withheld"]
    BY <1>1 DEF FailedEvent
  <2>2. /\ call' = [call EXCEPT ![s] = call'[s]]
        /\ call'[s].at \in {"failed.row", "failed.withheld"}
        /\ call'[s].i = i /\ (call'[s].row <=> kind = "canceled")
        /\ call'[s].at = "failed.row" =>
              ledger[i].charge = "pending" /\ call'[s].g = ledger[i].g
    <3>1. PICK l \in {"failed.row", "failed.withheld"}, row \in BOOLEAN :
              /\ call' = [call EXCEPT ![s].i = i, ![s].g = ledger[i].g,
                                      ![s].row = row, ![s].at = l]
              /\ row <=> kind = "canceled"
              /\ l = "failed.row" => ledger[i].charge = "pending"
      BY <2>1
    <3>2. call'[s] = [call[s] EXCEPT !.i = i, !.g = ledger[i].g, !.row = row, !.at = l]
      BY <1>0, <3>1 DEF CallsOK
    <3>3. call' = [call EXCEPT ![s] = call'[s]]
      BY <1>0, <3>1, <3>2 DEF CallsOK
    <3>4. /\ call'[s].at = l /\ call'[s].i = i /\ call'[s].row = row
          /\ call'[s].g = ledger[i].g
      BY <1>0, <3>2 DEF CallsOK, Run
    <3> QED BY <3>1, <3>3, <3>4
  <2>3. EventEntry(call[s], call'[s])
    BY <2>1, <2>2 DEF EventEntry, SucceededLabels, EndLabels, OverLabels, ReleaseLabels
  <2>4. MovesFrame
    BY <1>0, <1>1, <2>2, <2>3, EntryKinds, StartMoney DEF FailedEvent, EventLabels
  <2> QED BY <1>1, <2>1, <2>4, SameMoney DEF FailedEvent, NewsFrame, MoneyFrame
<1>2. ASSUME NEW i \in Intents, SucceededEvent(s, i) PROVE MoneyFrame
  <2>1. <<"succeeded", i>> \in events /\ events' = events \ {<<"succeeded", i>>}
    BY <1>2 DEF SucceededEvent
  <2>2. CASE ledger[i].charge = "pending"
    <3>1. ChargeFrame
      BY <1>0, <1>2, <2>1, <2>2
         DEF SucceededEvent, SetCharge, ChargeFrame, LedgerOK, Ledger
    <3> QED BY <1>2, <2>1, <2>2, <3>1, SameMoney DEF SucceededEvent, NewsFrame, MoneyFrame
  <2>3. CASE ledger[i].charge # "pending"
    <3>1. /\ call' = [call EXCEPT ![s] = call'[s]]
          /\ call'[s].at = "succeeded.recorded" /\ call'[s].i = i
      BY <1>0, <1>2, <2>3 DEF SucceededEvent, CallsOK, Run
    <3>2. EventEntry(call[s], call'[s])
      BY <2>1, <3>1
         DEF EventEntry, Failing, FailedLabels, ReleaseLabels, EndLabels, OverLabels
    <3>3. MovesFrame
      BY <1>0, <1>2, <3>1, <3>2, EntryKinds, StartMoney DEF SucceededEvent, EventLabels
    <3> QED BY <1>2, <2>1, <2>3, <3>3, SameMoney DEF SucceededEvent, NewsFrame, MoneyFrame
  <2> QED BY <2>2, <2>3
<1>3. ASSUME NEW i \in Intents, SweepPending(s, i) PROVE MoneyFrame
  <2>1. PICK l \in {"sweep.enrolled", "sweep.authorized"} :
            /\ call' = [call EXCEPT ![s].i = i, ![s].g = ledger[i].g, ![s].at = l]
            /\ l = "sweep.enrolled" <=> stripe[i].st = "succeeded"
    BY <1>3 DEF SweepPending
  <2>2. /\ call' = [call EXCEPT ![s] = call'[s]]
        /\ call'[s].at = l /\ call'[s].i = i /\ call'[s].g = ledger[i].g
    BY <1>0, <2>1, ZenonT(40) DEF CallsOK, Run
  <2>3. EventEntry(call[s], call'[s])
    BY <1>3, <2>1, <2>2
       DEF EventEntry, Failing, FailedLabels, ReleaseLabels, SucceededLabels, EndLabels,
       OverLabels, SweepPending
  <2>4. SweepEntry(call[s], call'[s])
    BY <1>3, <2>1, <2>2 DEF SweepEntry, SweepPending, HourPasses
  <2>5. MovesFrame
    BY <1>0, <1>3, <2>2, <2>3, <2>4, EntryKinds, StartMoney DEF SweepPending, SweepLabels
  <2> QED BY <1>0, <1>3, <2>5, SameMoney, IntentMoney DEF SweepPending, MoneyFrame
<1>4. ASSUME NEW i \in Intents, SweepStray(s, i) PROVE MoneyFrame
  <2>1. PICK l \in {"stray.cancel", "stray.delivered"} :
            /\ call' = [call EXCEPT ![s].i = i, ![s].g = stripe[i].g, ![s].at = l]
            /\ l = "stray.delivered" => stripe[i].st = "succeeded"
    BY <1>4 DEF SweepStray, Stray
  <2>2. /\ call' = [call EXCEPT ![s] = call'[s]]
        /\ call'[s].at = l /\ call'[s].i = i /\ call'[s].g = stripe[i].g
    <3>1. call'[s] = [call[s] EXCEPT !.i = i, !.g = stripe[i].g, !.at = l]
      BY <1>0, <2>1 DEF CallsOK
    <3>2. call' = [call EXCEPT ![s] = call'[s]]
      BY <1>0, <2>1, <3>1 DEF CallsOK
    <3> QED BY <1>0, <3>1, <3>2 DEF CallsOK, Run
  <2>3. EventEntry(call[s], call'[s]) /\ SweepEntry(call[s], call'[s])
    BY <2>1, <2>2
       DEF EventEntry, SweepEntry, Failing, FailedLabels, ReleaseLabels, SucceededLabels,
       EndLabels, OverLabels
  <2>4. MovesFrame
    BY <1>0, <1>4, <2>2, <2>3, EntryKinds, StartMoney DEF SweepStray, SweepLabels
  <2> QED BY <1>0, <1>4, <2>4, SameMoney, IntentMoney DEF SweepStray, MoneyFrame
<1>5. ASSUME NEW g \in Sessions, SweepHold(s, g) PROVE MoneyFrame
  <2>1. call' = [call EXCEPT ![s] = call'[s]] /\ call'[s].at = "hold.parked"
    BY <1>0, <1>5 DEF SweepHold, CallsOK, Run
  <2>2. HoldEntry(call[s], call'[s])
    BY <2>1 DEF HoldEntry, ShutLabels
  <2>3. MovesFrame
    BY <1>0, <1>5, <2>1, <2>2, EntryKinds, StartMoney DEF SweepHold, HoldLabels
  <2> QED BY <1>5, <2>3, SameMoney DEF SweepHold, MoneyFrame
<1> QED BY <1>1, <1>2, <1>3, <1>4, <1>5 DEF WebhookStep, SweepStep

(* Stripe, the student at the payment page, the clock. *)
LEMMA OutsideMoney ==
    ASSUME TInv, StripeStep \/ Time
    PROVE  MoneyFrame
<1>0. StripeOK /\ WorldOK
  BY DEF TInv, DataOK
<1>1. ASSUME NEW i \in Intents, NEW g \in Sessions \cup {NoSession}, NEW st \in Outcomes,
             Checkout(i, g, st)
      PROVE  MoneyFrame
  <2>1. /\ stripe'[i].st = st /\ stripe'[i].g = g /\ stripe[i].st = "none"
        /\ \A j \in Intents : j # i => stripe'[j] = stripe[j]
    BY <1>0, <1>1 DEF Checkout, StripeOK
  <2>2. g = NoSession => st = "hold"
    BY <1>1 DEF Checkout, CheckoutAllowed
  <2>3. PaidFrame
    BY <2>1, <2>2 DEF PaidFrame, Opened, Live
  <2>4. NewsFrame
    BY <1>1, <2>1 DEF Checkout, NewsFrame
  <2> QED BY <1>1, <2>3, <2>4, SameMoney DEF Checkout, MoneyFrame
<1>2. ASSUME NEW i \in Intents, DeclinedFirst(i) PROVE MoneyFrame
  <2>1. NewsFrame
    BY <1>2 DEF DeclinedFirst, Fault, NewsFrame
  <2> QED BY <1>2, <2>1, SameMoney DEF DeclinedFirst, MoneyFrame
<1>3. ASSUME NEW i \in Intents, WalletClears(i) \/ WalletFails(i) PROVE MoneyFrame
  <2>1. PaidFrame
    BY <1>0, <1>3 DEF WalletClears, WalletFails, SetIntent, PaidFrame, StripeOK, Intent, Opened
  <2>2. NewsFrame
    <3>1. CASE WalletClears(i)
      BY <1>0, <3>1 DEF WalletClears, SetIntent, NewsFrame, StripeOK, Intent
    <3>2. CASE WalletFails(i)
      BY <1>0, <3>2 DEF WalletFails, SetIntent, NewsFrame, StripeOK, Intent
    <3> QED BY <1>3, <3>1, <3>2
  <2> QED BY <1>3, <2>1, <2>2, SameMoney DEF WalletClears, WalletFails, MoneyFrame
<1>4. ASSUME NEW i \in Intents, HoldExpires(i) PROVE MoneyFrame
  BY <1>0, <1>4, SameMoney, IntentMoney DEF HoldExpires, MoneyFrame
<1>5. CASE Time
  BY <1>5, SameMoney
     DEF Time, DecisionLapses, WindowLapses, SessionStarts, SweepWindow, MoneyFrame
<1> QED BY <1>1, <1>2, <1>3, <1>4, <1>5 DEF StripeStep

LEMMA MoneyStep ==
    ASSUME TInv, Next, ~Crash
    PROVE  MoneyFrame
<1>1. ASSUME NEW s \in Slots, Step(s) PROVE MoneyFrame
  <2>1. CASE BookingStep(s)
    BY <2>1, MoneyBackMoney, RequestMoney, ReadMoney, ConfirmMoney DEF BookingStep
  <2>2. CASE EndingStep(s)
    BY <2>2, CancelMoney, HoldMoney, EventMoney, SweepMoney DEF EndingStep
  <2> QED BY <1>1, <2>1, <2>2 DEF Step
<1> QED
  BY <1>1, CallMoney, PickUpMoney, OutsideMoney DEF Next

-----------------------------------------------------------------------------
(* A step from a state that has all of this, and its frames.               *)
Going(s, G) == KInv /\ JInv' /\ EnvSame /\ Frame(s, G) /\ MoneyFrame

LEMMA GoingFacts ==
    ASSUME NEW s, NEW G, Going(s, G)
    PROVE  /\ JInv /\ BInv /\ TInv /\ PaymentsClear /\ OnePayment
           /\ SessionOK /\ LedgerOK /\ StripeOK /\ CallsOK /\ WorldOK
           /\ Known /\ Real /\ Claims /\ PayRule /\ RowsOwned /\ OneRow
           /\ \A i \in Intents : IntentRule(i) /\ ParkedRule(i) /\ EventRule(i) /\ BookRule(i)
           /\ \A t \in Slots : Knows2(t)
           /\ CallsOK' /\ Known' /\ Claims' /\ SessionOK' /\ LedgerOK' /\ StripeOK'
           /\ Calls' = Calls /\ Faults' = Faults /\ Outcomes' = Outcomes
           /\ (Charged' <=> Charged)
           /\ Outcomes \subseteq {"hold", "processing", "succeeded"}
<1>1. KInv /\ JInv' /\ EnvSame
  BY DEF Going
<1>2. JInv /\ BInv /\ TInv /\ PaymentsClear
  BY <1>1 DEF KInv, JInv, BInv
<1>3. /\ OnePayment /\ SessionOK /\ LedgerOK /\ StripeOK /\ CallsOK /\ WorldOK
      /\ Known /\ Real /\ Claims /\ PayRule /\ RowsOwned /\ OneRow
  BY <1>2 DEF JInv, BInv, TInv, DataOK, Payments
<1>4. CallsOK' /\ Known' /\ Claims' /\ SessionOK' /\ LedgerOK' /\ StripeOK'
  BY <1>1 DEF JInv, BInv, TInv, DataOK
<1>5. /\ Calls' = Calls /\ Faults' = Faults /\ Outcomes' = Outcomes
      /\ (Charged' <=> Charged)
  BY <1>1 DEF EnvSame, Calls, Faults, Outcomes, Charged
<1>6. Outcomes \subseteq {"hold", "processing", "succeeded"}
  BY <1>3, SessionAssumption DEF WorldOK, Outcomes
<1> QED BY <1>1, <1>2, <1>3, <1>4, <1>5, <1>6 DEF KInv

(* The run of the step goes from one label to another; the others stay.    *)
LEMMA GoingRuns ==
    ASSUME NEW s, NEW G, Going(s, G), NEW t \in Slots
    PROVE  /\ Moves(t) => t = s
           /\ call'[t] = call[t] \/ (t = s /\ Moves(s) /\ Entry(call[s], call'[s]))
           /\ call'[t].at \in AcceptLabels => call'[t] = call[t] \/ AcceptMoves(t)
           /\ call'[t].at \in RequestLabels => call'[t] = call[t] \/ RequestMoves(t)
<1>0. JInv /\ TInv /\ Frame(s, G) /\ MovesFrame
  BY GoingFacts DEF Going, MoneyFrame
<1>1. call'[t] = call[t] \/ t = s
  BY <1>0 DEF Frame, CallFrame
<1>2. call'[t].at \in AcceptLabels => call'[t] = call[t] \/ AcceptMoves(t)
  BY <1>0, ActorsCome
<1>3. ASSUME call'[t].at \in RequestLabels, call'[t] # call[t] PROVE RequestMoves(t)
  <2>1. t = s /\ (BookingCall(s) \/ BookingStep(s))
    BY <1>0, <1>3 DEF Frame, CallFrame
  <2> QED BY <1>0, <1>3, <2>1, RequestMove
<1> QED BY <1>0, <1>1, <1>2, <1>3 DEF MovesFrame, Moves

(* A charge is written by the run that moves.                              *)
LEMMA WrittenBy ==
    ASSUME NEW s, NEW G, Going(s, G), NEW i \in Intents,
           ledger'[i].charge # ledger[i].charge
    PROVE  /\ Live(i)
           /\ \/ /\ ledger[i].charge = "pending" /\ ledger'[i].charge = "completed"
                 /\ <<"succeeded", i>> \in events
              \/ /\ s \in Slots /\ call[s].i = i /\ Moves(s)
                 /\ Writes(call[s], ledger[i].charge, ledger'[i].charge)
                 /\ call[s].at \in NamingLabels => ledger'[i].g = NamedBy(call[s])
<1>1. \/ /\ ledger[i].charge = "pending" /\ ledger'[i].charge = "completed"
         /\ <<"succeeded", i>> \in events
      \/ \E u \in Slots : /\ call[u].i = i /\ Moves(u)
                          /\ Writes(call[u], ledger[i].charge, ledger'[i].charge)
                          /\ call[u].at \in NamingLabels => ledger'[i].g = NamedBy(call[u])
  BY DEF Going, MoneyFrame, ChargeFrame
<1>2. Known
  BY GoingFacts
<1> QED BY <1>1, <1>2, GoingRuns DEF Known, Recorded

(* What stays of an intent.                                                *)
LEMMA IntentStays ==
    ASSUME NEW s, NEW G, Going(s, G), NEW i \in Intents, Live(i)
    PROVE  /\ Live(i)' /\ Charged
           /\ stripe'[i].g = stripe[i].g
           /\ stripe[i].sent => stripe'[i].sent
           /\ stripe[i].refunded => stripe'[i].refunded
           /\ \A st \in {"succeeded", "canceled", "failed"} :
                  stripe[i].st = st => stripe'[i].st = st
           /\ stripe[i].st = "hold" => stripe'[i].st \in CardStatus
           /\ stripe[i].st \in CardStatus => stripe'[i].st \in CardStatus
           /\ stripe[i].st = "processing" =>
                  stripe'[i].st \in {"processing", "succeeded", "failed"}
<1>0. BInv /\ Frame(s, G) /\ Known /\ PaidFrame
  BY GoingFacts DEF Going, MoneyFrame
<1>1. /\ Live(i)' /\ stripe'[i].g = stripe[i].g
      /\ stripe[i].sent => stripe'[i].sent
  BY <1>0, Lasts
<1>2. Settled(i, G, stripe[i].st, stripe'[i].st)
  BY <1>0 DEF Frame, StripeFrame, Opened, Live
<1>3. stripe[i].refunded => stripe'[i].refunded
  BY <1>0 DEF PaidFrame
<1>4. Charged
  BY <1>0 DEF Known
<1> QED BY <1>1, <1>2, <1>3, <1>4 DEF Settled, CardStatus

(* The run that captures, and whose it is.                                 *)
LEMMA WhoCaptures ==
    ASSUME NEW s, NEW G, Going(s, G), NEW i \in Intents,
           stripe[i].st = "hold", stripe'[i].st = "succeeded"
    PROVE  /\ s \in Slots /\ call[s].i = i /\ call'[s].i = i
           /\ call'[s].at = "accept.book"
           /\ call[s].g \in Sessions
           /\ \/ /\ Expert(s) /\ At(s, "accept.collect") /\ call[s].row
                 /\ stripe[i].g = NoSession /\ ledger[i].g = call[s].g
              \/ /\ Student(s) /\ At(s, "accept.capture")
                 /\ stripe[i].g = call[s].g
<1>0. JInv /\ PaidFrame
  BY GoingFacts DEF Going, MoneyFrame
<1>1. PICK u \in Slots : /\ call[u].at \in {"accept.capture", "accept.collect"}
                         /\ call'[u].at = "accept.book"
                         /\ call[u].i = i /\ call'[u].i = i
  BY <1>0 DEF PaidFrame
<1>2. u = s
  BY <1>1, GoingRuns DEF Moves
<1>3. Expert(u) \/ Student(u)
  BY <1>0, <1>1, Actors DEF AcceptLabels, ConfirmingLabels
<1>4. call[u].g \in Sessions
  BY <1>0, <1>3, Actors
<1>5. CASE Expert(u)
  <2>1. ExpertKnows(u) /\ ExpertHolds(u)
    BY <1>0, <1>5, Actors
  <2>2. call[u].at = "accept.collect" /\ call[u].row
    BY <1>1, <2>1 DEF ExpertKnows, ExpertLabels, FindLabels, ConfirmingLabels
  <2> QED BY <1>1, <1>2, <1>4, <1>5, <2>1, <2>2 DEF ExpertHolds, At
<1>6. CASE Student(u)
  <2>1. StudentKnows(u) /\ StudentHolds(u) /\ Charged
    BY <1>0, <1>1, <1>6, Actors
  <2>2. call[u].at = "accept.capture"
    BY <1>1, <2>1 DEF StudentKnows, StudentLabels
  <2> QED BY <1>1, <1>2, <1>4, <1>6, <2>1, <2>2 DEF StudentHolds, At
<1> QED BY <1>3, <1>5, <1>6

(* An authorization nobody captures in this step.                          *)
LEMMA HoldKept ==
    ASSUME NEW s, NEW G, Going(s, G), NEW i \in Intents, stripe[i].st \in Uncaptured,
           s \in Slots => \/ call[s].at \notin {"accept.capture", "accept.collect"}
                          \/ call'[s].at # "accept.book"
                          \/ call[s].i # i
    PROVE  stripe'[i].st \in Uncaptured
<1>1. Live(i)
  BY DEF Uncaptured, Live
<1> QED BY <1>1, IntentStays, WhoCaptures DEF Uncaptured, CardStatus, At

(* A request's row stays on its session.                                   *)
LEMMA StudentPays ==
    ASSUME JInv, NEW u \in Slots, NEW i \in Intents, call[u].i = i,
           call[u].at \in {"accept.capDelete", "accept.insert", "accept.append"}
    PROVE  /\ Student(u) /\ stripe[i].g = call[u].g /\ stripe[i].g \in Sessions
           /\ stripe[i].g # NoSession /\ stripe[i].sent
<1>1. Student(u)
  BY Actors
     DEF AcceptLabels, ConfirmingLabels, ConfirmedLabels, ExpertKnows, ExpertLabels, FindLabels
<1> QED BY <1>1, Actors, SessionAssumption DEF StudentHolds

LEMMA RowStaysPut ==
    ASSUME NEW s, NEW G, Going(s, G), NEW i \in Intents, stripe[i].g = NoSession
    PROVE  /\ ledger[i].g \in Sessions => ledger'[i].g = ledger[i].g
           /\ Recorded(i) => Recorded(i)'
<1>0. JInv /\ LedgerOK /\ Frame(s, G)
  BY GoingFacts DEF Going
<1>1. ASSUME NEW u \in Slots, At(u, "accept.capDelete"), call[u].i = i PROVE FALSE
  BY <1>0, <1>1, StudentPays DEF At
<1>2. ASSUME ledger[i].g \in Sessions PROVE ledger'[i].g = ledger[i].g
  <2>1. Recorded(i)
    BY <1>0, <1>2, SessionAssumption DEF LedgerOK
  <2> QED BY <1>0, <1>1, <2>1 DEF Frame, LedgerFrame, RowStays, RowAdded, RowDeleted
<1>3. Recorded(i) => Recorded(i)'
  BY <1>1, WrittenBy DEF Writes, Recorded, At
<1> QED BY <1>2, <1>3

(* A session is in the hands of one run that confirms it.                  *)
LEMMA OneConfirming ==
    ASSUME JInv, NEW t \in Slots, NEW u \in Slots, call[t].g = call[u].g,
           call[t].at \in ConfirmingLabels \cup ConfirmedLabels,
           call[u].at \in ConfirmingLabels \cup ConfirmedLabels
    PROVE  t = u
<1>0. CallsOK /\ PayRule
  BY DEF JInv, BInv, TInv, Payments
<1>1. /\ Expert(t) \/ Student(t)
      /\ Expert(u) \/ Student(u)
  BY Actors DEF AcceptLabels
<1>2. /\ call[t].i \in Intents /\ Live(call[t].i)
      /\ call[u].i \in Intents /\ Live(call[u].i) /\ Charged
  BY <1>0, Actors DEF CallsOK, Knows, WithIntent
<1>3. ASSUME NEW e \in Slots, NEW d \in Slots, Expert(e), Student(d), call[e].row,
             call[e].i \in Intents, Live(call[e].i), call[d].i \in Intents, Live(call[d].i)
      PROVE  FALSE
  <2>1. call[e].i = call[d].i
    BY <1>0, <1>3, Actors DEF PayRule, StudentKnows
  <2> QED BY <1>3, <2>1, TwoActors
<1>4. /\ Expert(t) => call[t].row
      /\ Expert(u) => call[u].row
  BY Actors DEF ExpertKnows
<1> QED BY <1>1, <1>2, <1>3, <1>4, TwoActors

-----------------------------------------------------------------------------
(* Once nobody has a session in hand, nobody gets it any more.             *)
LEMMA ShutStays ==
    ASSUME NEW s, NEW G, Going(s, G), NEW g \in Sessions, Shut(g)
    PROVE  Shut(g)'
<1>0. Frame(s, G) /\ (session[g].st = "cancelled" \/ session[g].st = "deleted")
  BY DEF Going, Shut
<1>1. ASSUME NEW u \in Slots, At(u, "cancel.restore"), call[u].g = g PROVE FALSE
  BY <1>1 DEF Shut, Undecided, CancellingLabels, At
<1>2. session'[g].st \in {"cancelled", "deleted"}
  <2>1. Statuses(g, session[g].st, session'[g].st)
    BY <1>0 DEF Frame, SessionFrame
  <2> QED BY <1>0, <1>1, <2>1 DEF Statuses
<1>3. ASSUME NEW t \in Slots, call'[t].g = g, call'[t].at \in Undecided PROVE FALSE
  <2>1. t = s /\ Entry(call[s], call'[s]) /\ call'[t] # call[t]
    BY <1>3, GoingRuns DEF Shut
  <2>2. call[s].at \in Undecided => call[s].g = G
    BY <1>0, <2>1 DEF Frame, CallFrame
  <2>3. ASSUME call'[s].at \in CancellingLabels PROVE FALSE
    <3>1. /\ G = g
          /\ call[s].at \in CancellingLabels \/ session[G].st = "pending"
      BY <1>0, <1>3, <2>1, <2>3 DEF Frame, CallFrame
    <3> QED BY <1>0, <2>1, <2>2, <3>1 DEF Shut, Undecided
  <2>4. ASSUME call'[s].at \in ConfirmingLabels PROVE FALSE
    <3>1. /\ G = g
          /\ call[s].at \in ConfirmingLabels \/ call[s].at = "accept.activate"
      BY <1>0, <1>3, <2>1, <2>4 DEF Frame, CallFrame
    <3>2. call[s].at = "accept.activate"
      BY <2>1, <2>2, <3>1 DEF Shut, Undecided
    <3>3. session'[g].st = "active"
      BY <1>3, <2>1, <2>4, <3>2 DEF Entry, AcceptEntry
    <3> QED BY <1>2, <3>3
  <2> QED BY <1>3, <2>1, <2>3, <2>4 DEF Undecided
<1> QED BY <1>2, <1>3 DEF Shut

(* Once no run captures a hold, none does.                                 *)
LEMMA DoneKept ==
    ASSUME NEW s, NEW G, Going(s, G), NEW i \in Intents, Done(i)
    PROVE  ~(stripe[i].st = "hold" /\ stripe'[i].st = "succeeded")
<1> SUFFICES ASSUME stripe[i].st = "hold", stripe'[i].st = "succeeded" PROVE FALSE
  OBVIOUS
<1>1. CASE /\ Expert(s) /\ At(s, "accept.collect") /\ call[s].row
           /\ stripe[i].g = NoSession /\ ledger[i].g = call[s].g
  <2>1. s \in Slots /\ TakesHold(s, i)
    BY <1>1, WhoCaptures DEF TakesHold, At
  <2> QED BY <1>1, <2>1 DEF Done, Shut, Undecided, ConfirmingLabels, At
<1>2. CASE /\ Student(s) /\ At(s, "accept.capture") /\ stripe[i].g = call[s].g
  <2>1. s \in Slots /\ TakesPayment(s, i) /\ stripe[i].g # NoSession
    BY <1>2, WhoCaptures, SessionAssumption DEF TakesPayment, At
  <2> QED BY <2>1 DEF Done
<1> QED BY <1>1, <1>2, WhoCaptures

LEMMA TakersCome ==
    ASSUME NEW s, NEW G, Going(s, G), NEW i \in Intents, NEW t \in Slots
    PROVE  /\ TakesHold(t, i)' => TakesHold(t, i) \/ ledger[i].charge = "withheld"
           /\ TakesPayment(t, i)' /\ Live(i) /\ stripe[i].sent => TakesPayment(t, i)
<1>0. JInv /\ OnePayment
  BY GoingFacts
<1>1. ASSUME TakesHold(t, i)', ~TakesHold(t, i) PROVE ledger[i].charge = "withheld"
  <2>1. AcceptMoves(t)
    BY <1>1, GoingRuns DEF TakesHold, Expert
  <2>2. Expert(t) => ExpertKnows(t)
    BY <1>0, Actors
  <2>3. CASE FindsHold(t)
    BY <1>1, <2>3 DEF FindsHold, TakesHold, Parked, RowsOf
  <2>4. ~ExpertStarts(t) /\ ~StudentStarts(t) /\ ~GivesUp(t)
    BY <1>1 DEF ExpertStarts, StudentStarts, Fresh, GivesUp, TakesHold
  <2>5. CASE FindsPayment(t)
    <3>1. Expert(t) /\ call[t].at = "accept.probe"
      BY <1>1, <2>5 DEF FindsPayment, TakesHold, Expert, At, AcceptLabels, ReadLabels
    <3> QED BY <2>2, <3>1 DEF ExpertKnows, ExpertLabels, FindLabels
  <2>6. ASSUME Keeps(t),
               \/ Reads(t, call[t].at, call'[t].at)
               \/ Takes(t, call[t].at, call'[t].at)
               \/ Settles(t, call[t].at, call'[t].at)
        PROVE  FALSE
    <3>1. /\ Expert(t) /\ call[t].row /\ call[t].i = i
          /\ call[t].at # "accept.activate"
      BY <1>1, <2>6
         DEF TakesHold, Expert, Keeps, Reads, Takes, Settles, AcceptLabels, ReadLabels,
         UndoLabels, ConfirmingLabels
    <3>2. call[t].at \in FindLabels
      BY <1>1, <2>2, <2>6, <3>1
         DEF TakesHold, Reads, Takes, Settles, ExpertKnows, ExpertLabels, FindLabels
    <3> QED BY <2>2, <3>1, <3>2 DEF ExpertKnows
  <2> QED BY <2>1, <2>3, <2>4, <2>5, <2>6 DEF AcceptMoves
<1>2. ASSUME TakesPayment(t, i)', Live(i), stripe[i].sent, ~TakesPayment(t, i) PROVE FALSE
  <2>1. AcceptMoves(t) /\ t = s
    BY <1>2, GoingRuns DEF TakesPayment, Student
  <2>2. ~StudentStarts(t)
    <3>1. Charged
      BY <1>2, IntentStays
    <3> QED BY <1>0, <1>2, <3>1 DEF StudentStarts, OnePayment, TakesPayment
  <2>3. Student(t) /\ call[t].i = i /\ StudentKnows(t)
    <3>1. Student(t)' /\ call'[t].i = i /\ Frame(s, G)
      BY <1>2 DEF TakesPayment, Going
    <3>2. Student(t) /\ call'[t].i = call[t].i
      BY <1>0, <2>2, <3>1, StudentsCome
    <3> QED BY <1>0, <3>1, <3>2, Actors
  <2>4. call[t].at \notin BeforeCapture \cup {"accept.capture"}
    BY <1>2, <2>3 DEF TakesPayment
  <2>5. call'[t].at \in BeforeCapture \cup {"accept.capture"}
    BY <1>2 DEF TakesPayment
  <2> QED
    BY <2>1, <2>2, <2>3, <2>4, <2>5
       DEF AcceptMoves, ExpertStarts, Fresh, FindsHold, FindsPayment, GivesUp, Reads, Takes,
       Settles, At, BeforeCapture, StudentKnows, StudentLabels
<1> QED BY <1>1, <1>2

LEMMA DoneStays ==
    ASSUME NEW s, NEW G, Going(s, G), NEW i \in Intents, Done(i), Live(i)
    PROVE  Done(i)'
<1>0. /\ JInv
      /\ stripe'[i].g = stripe[i].g
      /\ stripe[i].sent => stripe'[i].sent
  BY GoingFacts, IntentStays
<1>1. CASE stripe[i].g = NoSession
  <2>1. CASE ledger[i].g \in Sessions /\ Shut(ledger[i].g)
    <3>1. ledger'[i].g = ledger[i].g /\ Shut(ledger[i].g)'
      BY <1>1, <2>1, RowStaysPut, ShutStays
    <3> QED BY <1>0, <1>1, <2>1, <3>1 DEF Done, Shut
  <2>2. CASE /\ ledger[i].charge \notin {"none", "withheld"}
             /\ \A t \in Slots : ~TakesHold(t, i)
    <3>1. ledger'[i].charge # "none"
      BY <1>1, <2>2, RowStaysPut DEF Recorded
    <3>2. ledger'[i].charge # "withheld"
      BY <2>2, WrittenBy DEF Writes
    <3>3. \A t \in Slots : ~TakesHold(t, i)'
      BY <2>2, TakersCome
    <3> QED BY <1>0, <1>1, <3>1, <3>2, <3>3 DEF Done
  <2> QED BY <1>1, <2>1, <2>2 DEF Done
<1>2. CASE stripe[i].g # NoSession
  <2>1. stripe[i].sent /\ \A t \in Slots : ~TakesPayment(t, i)
    BY <1>2 DEF Done
  <2>2. \A t \in Slots : ~TakesPayment(t, i)'
    BY <2>1, TakersCome
  <2> QED BY <1>0, <1>2, <2>1, <2>2 DEF Done
<1> QED BY <1>1, <1>2

(* News of a failure comes from a failed intent, or from a card that was   *)
(* declined first.                                                         *)
LEMMA NewDecline ==
    ASSUME NEW s, NEW G, Going(s, G), NEW i \in Intents, Declined(i)'
    PROVE  \/ Declined(i)
           \/ stripe'[i].st = "failed"
           \/ stripe'[i].st = "hold" /\ "decline" \in Faults
<1>1. CASE <<"failed", i>> \in events'
  <2>1. NewsFrame
    BY DEF Going, MoneyFrame
  <2> QED BY <1>1, <2>1 DEF NewsFrame, Declined
<1>2. ASSUME NEW t \in Slots, Failing(call'[t]), ~call'[t].row, call'[t].i = i
      PROVE  Declined(i)
  <2>1. CASE call'[t] = call[t]
    BY <1>2, <2>1 DEF Declined
  <2>2. CASE call'[t] # call[t]
    <3>1. t = s /\ EventEntry(call[t], call'[t])
      BY <2>2, GoingRuns DEF Entry
    <3> QED BY <1>2, <3>1 DEF EventEntry, Declined
  <2> QED BY <2>1, <2>2
<1> QED BY <1>1, <1>2 DEF Declined

-----------------------------------------------------------------------------
(* What becomes of an intent and of its row, a step later.                 *)
LEMMA IntentRuleStays ==
    ASSUME NEW s, NEW G, Going(s, G), NEW i \in Intents
    PROVE  IntentRule(i)'
<1>0. /\ JInv /\ BInv /\ Known /\ LedgerOK /\ IntentRule(i) /\ Frame(s, G) /\ PaidFrame
      /\ Outcomes' = Outcomes /\ Outcomes \subseteq {"hold", "processing", "succeeded"}
  BY GoingFacts DEF Going, MoneyFrame
<1>1. ASSUME ~Live(i), ~Live(i)'
      PROVE  stripe'[i].st = "none" /\ ~Recorded(i)' /\ stripe'[i].g = NoSession
  <2>1. stripe'[i].g = stripe[i].g /\ ~Recorded(i)
    BY <1>0, <1>1, Lasts DEF Known
  <2> QED BY <1>0, <1>1, <2>1, WrittenBy DEF Known, Live, Recorded
<1>2. ASSUME ~Live(i), Live(i)'
      PROVE  /\ stripe'[i].st \in Outcomes
             /\ stripe'[i].g = NoSession => stripe'[i].st = "hold"
             /\ ~Recorded(i)'
  <2>1. Opened(i) /\ ~Recorded(i)
    BY <1>0, <1>2, Lasts DEF Known
  <2> QED BY <1>0, <1>2, <2>1, WrittenBy DEF PaidFrame, Recorded
<1>3. stripe'[i].st \in {"processing", "failed"} =>
          stripe'[i].g # NoSession /\ "processing" \in Outcomes
  <2>1. CASE Live(i)
    <3>1. stripe'[i].st \in {"processing", "failed"} => stripe[i].st \in {"processing", "failed"}
      BY <1>0, <2>1 DEF Frame, StripeFrame, Opened, Settled, Live
    <3> QED BY <1>0, <2>1, <3>1, IntentStays DEF IntentRule
  <2>2. CASE ~Live(i)
    BY <1>0, <1>1, <1>2, <2>2
  <2> QED BY <2>1, <2>2
<1>4. stripe'[i].g = NoSession /\ stripe'[i].st = "succeeded" => Recorded(i)'
  <2>1. CASE Live(i)
    <3>1. SUFFICES ASSUME stripe[i].g = NoSession, stripe'[i].st = "succeeded"
                   PROVE  Recorded(i)
      BY <2>1, RowStaysPut, IntentStays
    <3>2. CASE stripe[i].st = "succeeded"
      BY <1>0, <3>1, <3>2 DEF IntentRule
    <3>3. CASE stripe[i].st = "hold"
      <4>1. ledger[i].g \in Sessions
        BY <3>1, <3>3, WhoCaptures, SessionAssumption
      <4> QED BY <1>0, <4>1, SessionAssumption DEF LedgerOK
    <3>4. stripe[i].st # "processing"
      BY <1>0, <3>1 DEF IntentRule
    <3> QED BY <1>0, <2>1, <3>1, <3>2, <3>3, <3>4 DEF Frame, StripeFrame, Opened, Settled, Live
  <2>2. CASE ~Live(i)
    BY <1>1, <1>2, <2>2
  <2> QED BY <2>1, <2>2
<1>5. CASE ledger'[i].charge # "pending"
  BY <1>3, <1>4, <1>5, <1>0 DEF IntentRule
<1>6. CASE ledger'[i].charge = "pending"
  <2>1. Live(i)
    BY <1>1, <1>2, <1>6 DEF Recorded
  <2>2. /\ stripe[i].g # NoSession => stripe[i].sent
        /\ stripe[i].g = NoSession => ledger[i].g \in Sessions /\ Shut(ledger[i].g)
    <3>1. CASE ledger[i].charge = "pending"
      BY <1>0, <3>1 DEF IntentRule
    <3>2. CASE ledger[i].charge # "pending"
      <4>1. /\ s \in Slots /\ call[s].i = i
            /\ call[s].at \in {"hold.stuck", "accept.insert", "accept.append"}
        BY <1>6, <3>2, WrittenBy DEF Writes
      <4>2. CASE call[s].at = "hold.stuck"
        <5>1. Ending(s) /\ call[s].g \in Sessions
          BY <1>0, <4>1, <4>2, GoingFacts
             DEF Knows2, CallsOK, Knows, WithSession, HoldLabels
        <5> QED BY <4>1, <4>2, <5>1 DEF Ending, ShutLabels
      <4>3. CASE call[s].at # "hold.stuck"
        BY <1>0, <4>1, <4>3, StudentPays
      <4> QED BY <4>2, <4>3
    <3> QED BY <3>1, <3>2
  <2>3. stripe[i].g = NoSession =>
            /\ ledger'[i].g = ledger[i].g /\ ledger[i].g \in Sessions
            /\ Shut(ledger[i].g)'
    BY <2>2, RowStaysPut, ShutStays
  <2>4. stripe'[i].g = stripe[i].g /\ (stripe[i].sent => stripe'[i].sent)
    BY <2>1, IntentStays
  <2>5. stripe'[i].g = NoSession => ledger'[i].g \in Sessions /\ Shut(ledger[i].g)'
    BY <2>3, <2>4
  <2> QED BY <1>0, <1>3, <1>4, <2>2, <2>4, <2>5 DEF IntentRule
<1> QED BY <1>5, <1>6

(* A parked hold that is being captured is out of everybody's hands.       *)
LEMMA ParkedRuleStays ==
    ASSUME NEW s, NEW G, Going(s, G), NEW i \in Intents
    PROVE  ParkedRule(i)'
<1>0. /\ JInv /\ BInv /\ Known /\ Real /\ LedgerOK /\ RowsOwned /\ Claims /\ Frame(s, G)
      /\ IntentRule(i) /\ ParkedRule(i)
  BY GoingFacts DEF Going
<1> SUFFICES ASSUME ledger'[i].charge = "withheld", stripe'[i].st = "succeeded"
             PROVE  /\ session'[ledger'[i].g].st # "pending"
                    /\ \A t \in Slots : call'[t].g = ledger'[i].g =>
                           call'[t].at \notin CancellingLabels \cup {"accept.parked"}
  BY DEF ParkedRule
<1>1. ASSUME ledger[i].charge # "withheld" PROVE FALSE
  <2>1. /\ s \in Slots /\ call[s].i = i /\ At(s, "request.park")
        /\ ledger[i].charge = "none" /\ Live(i)
    BY <1>1, WrittenBy DEF Writes, At
  <2>2. stripe[i].g = NoSession
    BY <1>0, <2>1 DEF JInv, Runs, RunRule, RequestRun, RequestLabels, At
  <2>3. stripe[i].st \notin {"succeeded", "processing"}
    BY <1>0, <2>1, <2>2 DEF IntentRule, Recorded
  <2>4. stripe[i].st = "hold"
    BY <1>0, <2>1, <2>3 DEF Frame, StripeFrame, Opened, Settled, Live
  <2> QED BY <2>1, <2>4, WhoCaptures DEF At
<1> DEFINE g == ledger[i].g
<1>2. /\ ledger[i].charge = "withheld" /\ g \in Sessions /\ session[g].st # "none"
      /\ stripe[i].g = NoSession /\ Live(i) /\ stripe[i].st \in CardStatus
      /\ ledger'[i].g = g
  <2>1. /\ ledger[i].charge = "withheld" /\ g \in Sessions
        /\ stripe[i].g = NoSession /\ Live(i) /\ stripe[i].st \in CardStatus
    BY <1>0, <1>1 DEF LedgerOK, RowsOwned, Known, Recorded
  <2> QED BY <1>0, <2>1, RowStaysPut DEF Real, There
<1>3. \/ stripe[i].st = "succeeded"
      \/ stripe[i].st = "hold"
  BY <1>0, <1>2, IntentStays DEF CardStatus
<1>4. /\ session[g].st # "pending"
      /\ \A t \in Slots : call[t].g = g => call[t].at \notin CancellingLabels
      /\ \A t \in Slots : call[t].g = g /\ t # s => call[t].at # "accept.parked"
      /\ \A t \in Slots : call[t].g = g => call[t].at # "accept.restore"
      /\ s \in Slots => call'[s].at # "accept.parked"
                        \/ (call'[s] = call[s] /\ call[s].at # "accept.parked")
                        \/ call'[s].g # g
  <2>1. ASSUME NEW t \in Slots, AcceptMoves(t), call'[t].at = "accept.parked"
        PROVE  ExpertStarts(t)
    BY <2>1 DEF AcceptMoves, StudentStarts, Fresh, FindsHold, FindsPayment, GivesUp, Reads,
       Takes, Settles
  <2>2. ASSUME s \in Slots, call'[s].at = "accept.parked", session[g].st # "pending"
        PROVE  call'[s] = call[s] \/ call'[s].g # g
    BY <2>1, <2>2, GoingRuns DEF AcceptLabels, ReadLabels, ExpertStarts, Fresh
  <2>3. CASE stripe[i].st = "succeeded"
    <3>1. /\ session[g].st # "pending"
          /\ \A t \in Slots : call[t].g = g => call[t].at \notin CancellingLabels \cup {"accept.parked"}
      BY <1>0, <1>2, <2>3 DEF ParkedRule
    <3>2. ASSUME NEW t \in Slots, call[t].g = g, call[t].at = "accept.restore" PROVE FALSE
      BY <1>0, <1>2, <2>3, <3>2, RestoredUnpaid DEF Paid, At
    <3> QED BY <2>2, <3>1, <3>2
  <2>4. CASE stripe[i].st = "hold"
    <3>1. /\ s \in Slots /\ Expert(s) /\ At(s, "accept.collect") /\ call[s].g = g
          /\ call'[s].at = "accept.book"
      BY <1>2, <2>4, WhoCaptures, SessionAssumption
    <3>2. Confirming(s)
      BY <3>1, GoingFacts DEF Knows2
    <3>3. /\ session[g].st # "pending"
          /\ \A t \in Slots : call[t].g = g => call[t].at \notin CancellingLabels
      BY <3>1, <3>2 DEF Confirming, ConfirmingLabels, At
    <3>4. ASSUME NEW t \in Slots, call[t].g = g, call[t].at = "accept.parked", t # s PROVE FALSE
      <4>1. Expert(t)
        BY <1>0, <3>4, Actors DEF AcceptLabels, ReadLabels, StudentKnows, StudentLabels
      <4> QED BY <1>0, <3>1, <3>4, <4>1, TwoActors
    <3>5. ASSUME NEW t \in Slots, call[t].g = g, call[t].at = "accept.restore" PROVE FALSE
      <4>1. t = s
        BY <1>0, <3>1, <3>5, OneConfirming DEF ConfirmingLabels, At
      <4> QED BY <3>1, <3>5, <4>1 DEF At
    <3> QED BY <3>1, <3>3, <3>4, <3>5 DEF At
  <2> QED BY <1>3, <2>3, <2>4
<1>5. session'[g].st # "pending"
  <2>1. Statuses(g, session[g].st, session'[g].st)
    BY <1>0, <1>2 DEF Frame, SessionFrame
  <2>2. \A t \in Slots : ~(At(t, "cancel.restore") /\ call[t].g = g)
    BY <1>4 DEF At, CancellingLabels
  <2>3. \A t \in Slots : ~(At(t, "accept.restore") /\ call[t].g = g)
    BY <1>4 DEF At
  <2> QED BY <1>2, <1>4, <2>1, <2>2, <2>3 DEF Statuses
<1>6. ASSUME NEW t \in Slots, call'[t].g = g, call'[t].at \in CancellingLabels PROVE FALSE
  <2>1. t = s
    BY <1>4, <1>6, GoingRuns
  <2>2. /\ G = g
        /\ call[s].at \in CancellingLabels \/ session[G].st = "pending"
        /\ call[s].at \in Undecided => call[s].g = G
    BY <1>0, <1>6, <2>1 DEF Frame, CallFrame
  <2> QED BY <1>4, <1>6, <2>1, <2>2 DEF Undecided
<1>7. ASSUME NEW t \in Slots, call'[t].g = g, call'[t].at = "accept.parked" PROVE FALSE
  BY <1>4, <1>7, GoingRuns
<1> QED BY <1>2, <1>5, <1>6, <1>7

(* An event says what Stripe says.                                         *)
LEMMA EventRuleStays ==
    ASSUME NEW s, NEW G, Going(s, G), NEW i \in Intents
    PROVE  EventRule(i)'
<1>0. /\ EventRule(i) /\ NewsFrame /\ Faults' = Faults
  BY GoingFacts DEF Going, MoneyFrame
<1>1. ASSUME NEW k \in {"succeeded", "canceled"}, <<k, i>> \in events'
      PROVE  stripe'[i].st = k
  <2>1. <<k, i>> \in events => Live(i) /\ stripe[i].st = k
    BY <1>0, <1>1 DEF EventRule, Live
  <2> QED BY <1>0, <1>1, <2>1, IntentStays DEF NewsFrame
<1>2. ASSUME Declined(i)'
      PROVE  \/ stripe'[i].st = "failed"
             \/ "decline" \in Faults /\ stripe'[i].st \in CardStatus
  <2>1. CASE Declined(i)
    <3>1. Live(i)
      BY <1>0, <2>1 DEF EventRule, Live, CardStatus
    <3> QED BY <1>0, <2>1, <3>1, IntentStays DEF EventRule
  <2>2. CASE ~Declined(i)
    BY <1>2, <2>2, NewDecline DEF CardStatus
  <2> QED BY <2>1, <2>2
<1> QED BY <1>0, <1>1, <1>2 DEF EventRule

(* Where a row is called failed or released: Stripe has let the money go,  *)
(* the expert's run could not capture it, or the payment was declined.     *)
LEMMA WhyUndone ==
    ASSUME NEW s, NEW G, Going(s, G), NEW i \in Intents, Undone(i)', ~Undone(i)
    PROVE  \/ stripe[i].st = "canceled"
           \/ /\ stripe[i].st = "hold" /\ stripe'[i].st \in Uncaptured /\ Done(i)'
           \/ Declined(i) /\ ledger[i].charge \in {"pending", "withheld"}
<1> DEFINE c == call[s]
<1>0. JInv /\ CallsOK
  BY GoingFacts
<1>1. /\ s \in Slots /\ c.i = i /\ Moves(s)
      /\ Writes(c, ledger[i].charge, ledger'[i].charge)
      /\ ledger'[i].charge \in {"failed", "released"} /\ Live(i)
  BY WrittenBy DEF Undone
<1>2. Outcome(s) /\ Accepting(s)
  BY <1>1, GoingFacts DEF Knows2
<1>3. CASE c.at \in ReleasedLabels
  BY <1>1, <1>2, <1>3 DEF Outcome
<1>4. CASE c.at \in {"failed.row", "withheld.fail"}
  <2>1. Failing(c) /\ ledger[i].charge \in {"pending", "withheld"}
    BY <1>1, <1>4 DEF Writes, Failing, FailedLabels
  <2> QED BY <1>1, <1>2, <2>1 DEF Outcome, Declined
<1>5. CASE c.at = "accept.rowFail"
  <2>1. Expert(s) /\ ExpertKnows(s) /\ ExpertHolds(s) /\ ExpertAlone(s)
    BY <1>0, <1>1, <1>5, Actors
       DEF AcceptLabels, ConfirmedLabels, StudentKnows, StudentLabels
  <2>2. c.row /\ ledger[i].g = c.g /\ stripe[i].g = NoSession /\ c.g \in Sessions
    BY <1>0, <1>1, <1>5, <2>1, Actors DEF ExpertKnows, ExpertHolds, ConfirmedLabels
  <2>3. stripe[i].st \in Uncaptured
    BY <1>1, <1>2, <1>5, <2>1, <2>2 DEF Accepting
  <2>4. stripe'[i].st \in Uncaptured
    BY <1>5, <2>3, HoldKept
  <2>5. ASSUME NEW t \in Slots, TakesHold(t, i)' PROVE FALSE
    <3>1. Expert(t)' /\ call'[t].row /\ call'[t].i = i
      BY <2>5 DEF TakesHold
    <3>2. ledger'[i].g = call'[t].g
      <4>1. RunRule(t)'
        BY DEF Going, JInv, Runs
      <4> QED BY <3>1, <4>1 DEF RunRule, ExpertHolds
    <3>3. ledger'[i].g = c.g
      BY <2>2, RowStaysPut
    <3>4. call'[s].at \notin AcceptLabels
      <4>1. ASSUME AcceptMoves(s) PROVE FALSE
        BY <1>5, <4>1
           DEF AcceptMoves, ExpertStarts, StudentStarts, Fresh, FindsHold, FindsPayment,
           GivesUp, Reads, Takes, Settles, At
      <4> QED BY <1>1, <4>1, GoingRuns DEF Moves
    <3>5. call'[t] = call[t] /\ t # s
      BY <3>1, <3>4, GoingRuns DEF Expert
    <3>6. Expert(t) /\ call[t].g = c.g
      BY <3>1, <3>2, <3>3, <3>5 DEF Expert
    <3> QED BY <2>1, <3>5, <3>6 DEF ExpertAlone
  <2>6. stripe'[i].g = NoSession
    BY <1>1, <2>2, IntentStays
  <2>7. Done(i)'
    BY <1>1, <2>5, <2>6 DEF Done
  <2> QED BY <2>3, <2>4, <2>7 DEF Uncaptured
<1> QED BY <1>1, <1>3, <1>4, <1>5 DEF Writes, ReleasedLabels

(* The books follow Stripe.                                                *)
LEMMA PaidRulesStay ==
    ASSUME NEW s, NEW G, Going(s, G), NEW i \in Intents
    PROVE  /\ ledger'[i].charge = "completed" => stripe'[i].st = "succeeded"
           /\ ledger'[i].charge = "refunded" => stripe'[i].refunded
<1>0. Known /\ BookRule(i) /\ EventRule(i) /\ CallsOK
  BY GoingFacts
<1>1. ASSUME ledger'[i].charge = "completed" PROVE Live(i) /\ stripe[i].st = "succeeded"
  <2>1. CASE ledger[i].charge = "completed"
    BY <1>0, <2>1 DEF BookRule, Live
  <2>2. CASE ledger[i].charge # "completed" /\ <<"succeeded", i>> \in events
    BY <1>0, <2>2 DEF EventRule, Live
  <2>3. CASE ledger[i].charge # "completed" /\ <<"succeeded", i>> \notin events
    <3>1. /\ s \in Slots /\ call[s].i = i /\ Live(i)
          /\ \/ call[s].at \in {"accept.book", "succeeded.record", "sweep.settle", "request.append"}
             \/ call[s].at = "accept.append" /\ call[s].pays # "settling"
      BY <1>1, <2>3, WrittenBy DEF Writes
    <3>2. Outcome(s) /\ Paying(s)
      BY <3>1, GoingFacts DEF Knows2
    <3> QED BY <3>1, <3>2 DEF Outcome, Paying, SucceededLabels, PaysLabels
  <2> QED BY <2>1, <2>2, <2>3
<1>2. ASSUME ledger'[i].charge = "refunded" PROVE Live(i) /\ stripe[i].refunded
  <2>1. CASE ledger[i].charge = "refunded"
    BY <1>0, <2>1 DEF BookRule, Known, Recorded
  <2>2. CASE ledger[i].charge # "refunded"
    <3>1. /\ s \in Slots /\ call[s].i = i /\ Live(i)
          /\ call[s].at \in {"cancel.booked", "hold.booked"}
      BY <1>2, <2>2, WrittenBy DEF Writes
    <3>2. Outcome(s)
      BY <3>1, GoingFacts DEF Knows2
    <3> QED BY <3>1, <3>2 DEF Outcome, RefundedLabels
  <2> QED BY <2>1, <2>2
<1> QED BY <1>1, <1>2, IntentStays

LEMMA UndoneStays ==
    ASSUME NEW s, NEW G, Going(s, G), NEW i \in Intents, Undone(i)'
    PROVE  /\ "decline" \notin Faults =>
                 \/ stripe'[i].st \in Dead \/ stripe'[i].refunded
                 \/ stripe'[i].st = "hold" /\ Done(i)'
           /\ "decline" \in Faults => stripe'[i].st # "processing"
<1>0. Known /\ BookRule(i) /\ EventRule(i) /\ StripeOK
  BY GoingFacts
<1>1. Live(i)
  BY <1>0, WrittenBy DEF Undone, Known, Recorded
<1>2. CASE Undone(i)
  <2>1. CASE "decline" \notin Faults /\ stripe[i].st = "hold" /\ Done(i)
    BY <1>1, <2>1, IntentStays, DoneStays, DoneKept DEF Dead, CardStatus
  <2>2. CASE "decline" \notin Faults /\ (stripe[i].st \in Dead \/ stripe[i].refunded)
    BY <1>1, <2>2, IntentStays DEF Dead
  <2>3. ASSUME "decline" \in Faults, stripe'[i].st = "processing" PROVE FALSE
    <3>1. stripe[i].st \in IntentStatus /\ stripe[i].st \notin {"none", "processing"}
      BY <1>0, <1>1, <1>2, <2>3 DEF StripeOK, Intent, BookRule, Live
    <3> QED BY <1>1, <2>3, <3>1, IntentStays DEF IntentStatus, CardStatus
  <2> QED BY <1>0, <1>2, <2>1, <2>2, <2>3 DEF BookRule
<1>3. CASE ~Undone(i)
  <2>1. CASE stripe[i].st = "canceled"
    BY <1>1, <2>1, IntentStays DEF Dead
  <2>2. CASE stripe'[i].st \in Uncaptured /\ Done(i)'
    BY <2>2 DEF Dead, Uncaptured
  <2>3. CASE Declined(i)
    BY <1>0, <1>1, <2>3, IntentStays DEF EventRule, Dead, CardStatus
  <2> QED BY <1>3, <2>1, <2>2, <2>3, WhyUndone
<1> QED BY <1>2, <1>3

(* An event of a declined card may come late: money it speaks of is then   *)
(* about to be booked.                                                     *)
LEMMA DoubtStays ==
    ASSUME NEW s, NEW G, Going(s, G), NEW i \in Intents, "decline" \in Faults,
           Doubtful(i)', Taken(i)'
    PROVE  Booking(i)'
<1>0. /\ JInv /\ BInv /\ Known /\ PaymentsClear /\ EventRule(i) /\ IntentRule(i) /\ BookRule(i)
      /\ LedgerOK /\ CallsOK /\ Frame(s, G) /\ MovesFrame
  BY GoingFacts DEF Going, MoneyFrame
<1>t. stripe'[i].st = "succeeded" /\ ~stripe'[i].refunded
  BY DEF Taken
<1>1. Live(i)
  <2>1. ASSUME ~Live(i) PROVE FALSE
    <3>1. ledger'[i].charge = "none"
      BY <1>0, <2>1, WrittenBy DEF Known, Recorded
    <3> QED BY <3>1 DEF Doubtful, Undone
  <2> QED BY <2>1
<1>2. ~stripe[i].refunded
  BY <1>1, <1>t, IntentStays
<1>3. Declined(i)' => Declined(i)
  BY <1>t, NewDecline
<1>4. CASE stripe[i].st = "hold"
  BY <1>4, <1>t, WhoCaptures DEF Booking, At
<1>5. CASE stripe[i].st = "succeeded"
  <2>1. Taken(i)
    BY <1>2, <1>5 DEF Taken
  <2>2. CASE Doubtful(i)
    <3>1. PICK t \in Slots : At(t, "accept.book") /\ call[t].i = i
      BY <1>0, <2>1, <2>2 DEF BookRule, Booking
    <3>2. call'[t] = call[t]
      <4>1. ledger'[i].charge \notin {"completed", "none"}
        BY DEF Doubtful, Undone
      <4> QED BY <1>0, <3>1, <4>1 DEF MovesFrame, PaymentsClear
    <3> QED BY <3>1, <3>2 DEF Booking, At
  <2>3. CASE ~Doubtful(i)
    <3>1. ASSUME Undone(i)' PROVE FALSE
      <4>1. ~Undone(i)
        BY <2>3 DEF Doubtful
      <4>2. Declined(i) /\ ledger[i].charge \in {"pending", "withheld"}
        BY <1>5, <3>1, <4>1, WhyUndone
      <4> QED BY <2>3, <4>2 DEF Doubtful
    <3>2. /\ ledger'[i].charge \in {"pending", "withheld"} /\ Declined(i)
          /\ ledger[i].charge \notin {"pending", "withheld"}
      BY <1>3, <2>3, <3>1 DEF Doubtful
    <3>3. /\ s \in Slots /\ call[s].i = i
          /\ \/ call[s].at \in {"hold.stuck", "accept.insert"}
             \/ call[s].at = "accept.append" /\ call[s].pays = "settling"
             \/ call[s].at = "request.park" /\ ledger[i].charge = "none"
      BY <3>2, WrittenBy DEF Writes
    <3>4. Ending(s) /\ Paying(s)
      BY <3>3, GoingFacts DEF Knows2
    <3>5. CASE call[s].at = "hold.stuck"
      BY <1>5, <3>3, <3>4, <3>5 DEF Ending, Uncaptured
    <3>6. CASE call[s].at = "accept.insert"
      <4>1. Student(s)
        BY <1>0, <3>3, <3>6, StudentPays
      <4> QED BY <1>0, <1>5, <3>3, <3>6, <4>1, Actors DEF StudentHolds, Untaken
    <3>7. CASE call[s].at = "accept.append" /\ call[s].pays = "settling"
      BY <1>5, <3>2, <3>3, <3>4, <3>7 DEF Paying, PaysLabels
    <3>8. CASE call[s].at = "request.park" /\ ledger[i].charge = "none"
      <4>1. stripe[i].g = NoSession
        BY <1>0, <3>3, <3>8 DEF JInv, Runs, RunRule, RequestRun, RequestLabels
      <4> QED BY <1>0, <1>5, <3>8, <4>1 DEF IntentRule, Recorded
    <3> QED BY <3>3, <3>5, <3>6, <3>7, <3>8
  <2> QED BY <2>2, <2>3
<1>6. CASE stripe[i].st = "processing"
  <2>1. ~Declined(i) /\ ~Undone(i)
    BY <1>0, <1>6 DEF EventRule, BookRule, CardStatus
  <2>2. ~Undone(i)'
    BY <1>6, <2>1, WhyUndone
  <2> QED BY <1>3, <2>1, <2>2 DEF Doubtful
<1> QED
  BY <1>0, <1>1, <1>4, <1>5, <1>6, <1>t DEF Frame, StripeFrame, Opened, Settled, Live

LEMMA BookRuleStays ==
    ASSUME NEW s, NEW G, Going(s, G), NEW i \in Intents
    PROVE  BookRule(i)'
<1>1. Faults' = Faults
  BY GoingFacts
<1>2. /\ ledger'[i].charge = "completed" => stripe'[i].st = "succeeded"
      /\ ledger'[i].charge = "refunded" => stripe'[i].refunded
  BY PaidRulesStay
<1>3. ASSUME Undone(i)', "decline" \notin Faults
      PROVE  \/ stripe'[i].st \in Dead \/ stripe'[i].refunded
             \/ stripe'[i].st = "hold" /\ Done(i)'
  BY <1>3, UndoneStays
<1>4. ASSUME Undone(i)', "decline" \in Faults PROVE stripe'[i].st # "processing"
  BY <1>4, UndoneStays
<1>5. ASSUME "decline" \in Faults, Doubtful(i)', Taken(i)' PROVE Booking(i)'
  BY <1>5, DoubtStays
<1> QED BY <1>1, <1>2, <1>3, <1>4, <1>5 DEF BookRule

-----------------------------------------------------------------------------
(* What the runs know, a step later.                                       *)
LEMMA ConfirmingStays ==
    ASSUME NEW s, NEW G, Going(s, G), NEW t \in Slots
    PROVE  Confirming(t)'
<1> SUFFICES ASSUME call'[t].at \in ConfirmingLabels
             PROVE  /\ session'[call'[t].g].st # "pending"
                    /\ \A u \in Slots : call'[u].g = call'[t].g =>
                           call'[u].at \notin CancellingLabels
  BY DEF Confirming
<1> DEFINE g == call'[t].g
<1>0. /\ JInv /\ CallsOK /\ Real /\ Claims' /\ Frame(s, G) /\ Confirming(t) /\ CallsOK'
  BY GoingFacts DEF Going, Knows2
<1>1. CASE call[t].at \in ConfirmingLabels /\ call[t].g = g
  <2>1. g \in Sessions /\ session[g].st # "none"
    BY <1>0, <1>1, LabelKinds DEF CallsOK, Knows, WithSession, Real, There
  <2>2. /\ session[g].st # "pending"
        /\ \A u \in Slots : call[u].g = g => call[u].at \notin CancellingLabels
    BY <1>0, <1>1 DEF Confirming
  <2>3. session'[g].st # "pending"
    <3>1. Statuses(g, session[g].st, session'[g].st)
      BY <1>0, <2>1 DEF Frame, SessionFrame
    <3>2. ASSUME NEW u \in Slots, At(u, "cancel.restore"), call[u].g = g PROVE FALSE
      BY <2>2, <3>2 DEF CancellingLabels, At
    <3>3. ASSUME NEW u \in Slots, At(u, "accept.restore"), call[u].g = g,
                 call'[u].at \notin Undecided
          PROVE  FALSE
      <4>1. u = t
        BY <1>0, <1>1, <3>3, OneConfirming DEF At, ConfirmingLabels
      <4> QED BY <3>3, <4>1 DEF Undecided
    <3> QED BY <2>1, <2>2, <3>1, <3>2, <3>3 DEF Statuses
  <2>4. ASSUME NEW u \in Slots, call'[u].g = g, call'[u].at \in CancellingLabels PROVE FALSE
    <3>1. u = s
      BY <2>2, <2>4, GoingRuns
    <3>2. /\ G = g
          /\ call[s].at \in CancellingLabels \/ session[G].st = "pending"
          /\ call[s].at \in Undecided => call[s].g = G
      BY <1>0, <2>4, <3>1 DEF Frame, CallFrame
    <3> QED BY <2>2, <2>4, <3>1, <3>2 DEF Undecided
  <2> QED BY <2>3, <2>4
<1>2. CASE ~(call[t].at \in ConfirmingLabels /\ call[t].g = g)
  <2>1. t = s /\ Entry(call[s], call'[s]) /\ call[s].at = "accept.activate"
    <3>1. t = s /\ Entry(call[s], call'[s])
      BY <1>2, GoingRuns
    <3>2. /\ g = G
          /\ call[s].at \in ConfirmingLabels \/ call[s].at = "accept.activate"
          /\ call[s].at \in Undecided => call[s].g = G
      BY <1>0, <3>1 DEF Frame, CallFrame
    <3> QED BY <1>2, <3>1, <3>2 DEF Undecided
  <2>2. session'[g].st = "active"
    BY <2>1 DEF Entry, AcceptEntry
  <2> QED BY <1>0, <2>2 DEF Claims, Claiming
<1> QED BY <1>1, <1>2

(* What became of the intent of a run stays so.                            *)
LEMMA OutcomeStays ==
    ASSUME NEW s, NEW G, Going(s, G), NEW t \in Slots
    PROVE  Outcome(t)'
<1> DEFINE c == call[t]
           d == call'[t]
           Told == RefundedLabels \cup ReleasedLabels \cup SucceededLabels
<1>0. /\ JInv /\ CallsOK /\ Known /\ CallsOK' /\ Frame(s, G) /\ Outcome(t) /\ Ending(t) /\ Accepting(t)
      /\ \A i \in Intents : EventRule(i)
  BY GoingFacts DEF Going, Knows2
<1>l. /\ RefundedLabels \cup ReleasedLabels \cup SucceededLabels \subseteq WithIntent
      /\ FailedLabels \cup ReleaseLabels \subseteq WithIntent
  BY DEF RefundedLabels, ReleasedLabels, SucceededLabels, FailedLabels, ReleaseLabels,
     WithIntent, UndoLabels, ConfirmedLabels, CancelledLabels, HoldLabels, EventLabels,
     SweepLabels
<1>1. ASSUME NEW i \in Intents, c.i = i
      PROVE  /\ Live(i)
             /\ stripe[i].refunded => stripe'[i].refunded
             /\ stripe[i].st = "canceled" => stripe'[i].st = "canceled"
             /\ stripe[i].st = "succeeded" => stripe'[i].st = "succeeded"
  BY <1>0, <1>1, IntentStays DEF Known
<1>2. CASE d = c
  <2>1. c.at \in Told \/ Failing(c) => c.i \in Intents
    BY <1>0, <1>l DEF CallsOK, Knows, Failing
  <2> QED BY <1>0, <1>1, <1>2, <2>1 DEF Outcome, Failing
<1>3. CASE d # c
  <2>1. t = s /\ Entry(c, d)
    BY <1>3, GoingRuns
  <2>2. ASSUME d.at \in RefundedLabels PROVE stripe'[d.i].refunded
    <3>1. CASE d.at \in {"cancel.row", "hold.row"}
      BY <2>1, <3>1 DEF Entry, CancelEntry, HoldEntry
    <3>2. CASE d.at \in {"cancel.booked", "hold.booked"}
      <4>1. d.i = c.i /\ c.at \in RefundedLabels
        BY <2>1, <3>2
           DEF Entry, CancelEntry, HoldEntry, ShutLabels, SameWork, RefundedLabels
      <4>2. c.i \in Intents
        BY <1>0, <1>l, <4>1 DEF CallsOK, Knows
      <4> QED BY <1>0, <1>1, <4>1, <4>2 DEF Outcome
    <3> QED BY <2>2, <3>1, <3>2 DEF RefundedLabels
  <2>3. ASSUME Failing(d), d.row PROVE stripe'[d.i].st = "canceled"
    <3>1. d.i \in Intents
      BY <1>0, <1>l, <2>3 DEF CallsOK, Knows, Failing
    <3>2. CASE Failing(c) /\ d.i = c.i /\ c.row
      BY <1>0, <1>1, <3>1, <3>2 DEF Outcome
    <3>3. CASE <<"canceled", d.i>> \in events
      <4>1. stripe[d.i].st = "canceled"
        BY <1>0, <3>1, <3>3 DEF EventRule
      <4> QED BY <3>1, <4>1, IntentStays DEF Live
    <3> QED BY <2>1, <2>3, <3>2, <3>3 DEF Entry, EventEntry
  <2>4. ASSUME d.at \in ReleasedLabels PROVE stripe'[d.i].st = "canceled"
    <3>0. d.i \in Intents
      BY <1>0, <1>l, <2>4 DEF CallsOK, Knows
    <3>1. CASE d.at = "cancel.released"
      <4>1. CASE c.at = "cancel.probe" /\ stripe[c.i].st \notin {"succeeded", "hold"} /\ d.i = c.i
        <5>1. stripe[c.i].st = "canceled"
          BY <1>0, <4>1 DEF Ending, CancellingLabels, CardStatus
        <5> QED BY <1>1, <3>0, <4>1, <5>1
      <4> QED BY <2>1, <3>1, <4>1 DEF Entry, CancelEntry
    <3>2. CASE d.at = "hold.released"
      <4>1. CASE c.at = "hold.probe" /\ stripe[c.i].st \notin {"succeeded", "hold"} /\ d.i = c.i
        <5>1. stripe[c.i].st = "canceled"
          BY <1>0, <4>1 DEF Ending, ShutLabels, CardStatus
        <5> QED BY <1>1, <3>0, <4>1, <5>1
      <4> QED BY <2>1, <3>2, <4>1 DEF Entry, HoldEntry, ShutLabels, SameWork
    <3>3. CASE d.at = "accept.undoRow"
      <4>1. Keeps(t) /\ c.at = "accept.undo" /\ c.row
        <5>1. AcceptMoves(t)
          BY <1>3, <3>3, GoingRuns DEF AcceptLabels, UndoLabels
        <5> QED
          BY <3>3, <5>1
             DEF AcceptMoves, ExpertStarts, StudentStarts, Fresh, FindsHold, FindsPayment,
             GivesUp, Reads, Takes, Settles
      <4>2. Expert(t)
        BY <1>0, <4>1, Actors DEF AcceptLabels, UndoLabels, StudentKnows
      <4>3. stripe[c.i].st \in Uncaptured
        BY <1>0, <4>1, <4>2 DEF Accepting
      <4>4. stripe'[c.i].st \in Uncaptured
        BY <2>1, <3>0, <4>1, <4>3, HoldKept DEF Keeps
      <4> QED BY <2>1, <3>3, <4>1, <4>4 DEF Keeps, Entry, AcceptEntry, Uncaptured
    <3>4. CASE d.at = "sweep.released"
      BY <2>1, <3>4 DEF Entry, SweepEntry
    <3>5. CASE d.at = "sweep.processing"
      <4>1. c.at = "sweep.authorized" /\ d.i = c.i /\ stripe[c.i].st # "hold"
        BY <2>1, <3>5 DEF Entry, SweepEntry
      <4>2. stripe[c.i].st = "canceled"
        BY <1>0, <4>1 DEF Ending, Uncaptured
      <4> QED BY <1>1, <3>0, <4>1, <4>2
    <3>6. CASE d.at = "sweep.fail"
      <4>1. c.at = "sweep.processing" /\ d.i = c.i
        BY <2>1, <3>6 DEF Entry, SweepEntry
      <4>2. stripe[c.i].st = "canceled"
        BY <1>0, <4>1 DEF Outcome, ReleasedLabels
      <4> QED BY <1>1, <3>0, <4>1, <4>2
    <3>7. CASE d.at = "withheld.release"
      BY <2>1, <2>3, <3>7 DEF Entry, EventEntry, Failing, FailedLabels
    <3> QED BY <2>4, <3>1, <3>2, <3>3, <3>4, <3>5, <3>6, <3>7 DEF ReleasedLabels
  <2>5. ASSUME d.at \in SucceededLabels PROVE stripe'[d.i].st = "succeeded"
    <3>0. d.i \in Intents
      BY <1>0, <1>l, <2>5 DEF CallsOK, Knows
    <3>1. CASE c.at \in SucceededLabels /\ d.i = c.i
      BY <1>0, <1>1, <3>0, <3>1 DEF Outcome
    <3>2. CASE stripe[d.i].st = "succeeded" \/ <<"succeeded", d.i>> \in events
      <4>1. stripe[d.i].st = "succeeded"
        BY <1>0, <3>0, <3>2 DEF EventRule
      <4> QED BY <3>0, <4>1, IntentStays DEF Live
    <3> QED BY <2>1, <2>5, <3>1, <3>2 DEF Entry, EventEntry
  <2> QED BY <2>2, <2>3, <2>4, <2>5 DEF Outcome
<1> QED BY <1>2, <1>3

-----------------------------------------------------------------------------
(* A payment that is found settled stays so; one that settles still does,  *)
(* or has settled, or is known to have failed.                             *)
LEMMA PayingStays ==
    ASSUME NEW s, NEW G, Going(s, G), NEW t \in Slots
    PROVE  Paying(t)'
<1> DEFINE c == call[t]
           d == call'[t]
           Clears(i) == /\ stripe[i].st \in {"processing", "succeeded", "failed"}
                        /\ Declined(i) => stripe[i].st = "failed"
<1>0. /\ JInv /\ CallsOK /\ CallsOK' /\ Known /\ Paying(t)
      /\ \A i \in Intents : EventRule(i) /\ IntentRule(i)
  BY GoingFacts DEF Knows2
<1>t. /\ c \in Run(Labels) /\ d \in Run(Labels)
      /\ c.pays \in {"none", "held", "settling", "settled"}
      /\ d.pays \in {"none", "held", "settling", "settled"}
  BY <1>0 DEF CallsOK, Run
<1>1. /\ c.pays # "none" => c.i \in Intents
      /\ c.at \in {"request.probe", "accept.probe"} => c.i \in Intents
      /\ c.i \in Intents => Live(c.i) /\ Charged
  BY <1>0, Actors DEF CallsOK, Knows, WithIntent, Known
<1>2. ASSUME NEW i \in Intents, Live(i)
      PROVE  /\ stripe[i].st = "succeeded" => stripe'[i].st = "succeeded"
             /\ Clears(i) => Clears(i)'
  <2>1. /\ stripe[i].st = "succeeded" => stripe'[i].st = "succeeded"
        /\ stripe[i].st = "failed" => stripe'[i].st = "failed"
        /\ stripe[i].st = "processing" =>
               stripe'[i].st \in {"processing", "succeeded", "failed"}
    BY <1>2, IntentStays
  <2> QED BY <1>2, <2>1, NewDecline
<1>3. CASE d = c
  BY <1>0, <1>1, <1>2, <1>3 DEF Paying
<1>4. CASE d # c
  <2>1. CASE d.at \in RequestLabels
    <3>1. RequestMoves(t)
      BY <1>4, <2>1, GoingRuns
    <3>2. CASE Requests(t)
      BY <3>2 DEF Requests, Paying, PaysLabels
    <3>3. CASE Probes(t)
      <4>1. c.i \in Intents /\ d.i = c.i /\ d.at = "request.create" /\ d.pays = FoundAs(c.i)
        BY <1>1, <3>3 DEF Probes, At
      <4>2. stripe[c.i].g = NoSession
        BY <1>0, <3>3, <4>1 DEF JInv, Runs, RunRule, RequestRun, Probes, At, RequestLabels
      <4>3. stripe[c.i].st # "processing"
        BY <1>0, <4>1, <4>2 DEF IntentRule
      <4>4. d.pays # "settling" /\ (d.pays = "settled" => stripe[c.i].st = "succeeded")
        BY <4>1, <4>3 DEF FoundAs
      <4> QED BY <1>1, <1>2, <4>1, <4>4 DEF Paying
    <3>4. CASE Creates(t)
      <4>1. /\ c.at = "request.create" /\ d.i = c.i /\ d.pays = c.pays
            /\ d.at \in {"request.park", "request.append"}
        BY <3>4 DEF Creates, At
      <4>2. d.at = "request.append" => d.pays \notin {"none", "held"}
        BY <1>4, GoingRuns DEF Entry, AcceptEntry
      <4>3. d.at = "request.append" => d.pays = "settled"
        BY <1>0, <1>t, <4>1, <4>2 DEF Paying
      <4>4. d.at = "request.append" => stripe'[d.i].st = "succeeded"
        BY <1>0, <1>1, <1>2, <4>1, <4>3 DEF Paying, PaysLabels
      <4> QED BY <4>1, <4>3, <4>4 DEF Paying, PaysLabels
    <3>5. CASE Keeps(t) /\ Parks(t, c.at, d.at)
      BY <3>5 DEF Parks, Paying, PaysLabels
    <3> QED BY <3>1, <3>2, <3>3, <3>4, <3>5 DEF RequestMoves
  <2>2. CASE d.at \in {"accept.activate", "accept.append"}
    <3>0. AcceptMoves(t)
      <4>1. d.at \in AcceptLabels
        BY <2>2 DEF AcceptLabels, ReadLabels, ConfirmedLabels
      <4> QED BY <1>4, <4>1, GoingRuns
    <3>1. CASE FindsHold(t)
      BY <3>1 DEF FindsHold, Paying
    <3>2. CASE FindsPayment(t)
      <4>1. /\ c.i \in Intents /\ d.i = c.i /\ d.at = "accept.activate"
            /\ d.pays = FoundAs(c.i)
        BY <1>1, <3>2 DEF FindsPayment, At
      <4>2. /\ d.pays = "settled" => stripe[c.i].st = "succeeded"
            /\ d.pays = "settling" => stripe[c.i].st = "processing"
        BY <4>1 DEF FoundAs
      <4>3. d.pays = "settling" => Clears(c.i)
        BY <1>0, <4>1, <4>2 DEF EventRule, CardStatus
      <4> QED BY <1>1, <1>2, <4>1, <4>2, <4>3 DEF Paying
    <3>3. CASE Keeps(t) /\ Reads(t, c.at, d.at)
      <4>1. c.at \in {"accept.parked", "accept.secured", "accept.consumed"}
            /\ (c.at = "accept.consumed" => ~Charged) /\ d.at = "accept.activate"
        BY <2>2, <3>3 DEF Reads
      <4>2. Expert(t) \/ Student(t)
        BY <1>0, <4>1, Actors DEF AcceptLabels, ReadLabels
      <4>3. Expert(t) => c.pays = "none"
        BY <1>0, <4>1, Actors DEF ExpertKnows, ExpertLabels, FindLabels
      <4>4. Student(t) => c.at = "accept.consumed"
        BY <1>0, <4>1, Actors DEF StudentKnows, StudentLabels
      <4>5. d.pays = "none"
        BY <1>1, <3>3, <4>1, <4>2, <4>3, <4>4 DEF Keeps
      <4> QED BY <4>1, <4>5 DEF Paying
    <3>4. CASE Keeps(t) /\ (Takes(t, c.at, d.at) \/ Settles(t, c.at, d.at))
      <4>1. /\ d.at = "accept.append" /\ c.at = "accept.activate"
            /\ c.pays \notin {"none", "held"} /\ d.pays = c.pays /\ d.i = c.i
        BY <2>2, <3>4 DEF Takes, Settles, Keeps
      <4>2. /\ c.pays = "settled" => stripe[c.i].st = "succeeded"
            /\ c.pays = "settling" => Clears(c.i)
        BY <1>0, <4>1 DEF Paying, PaysLabels
      <4> QED BY <1>t, <1>1, <1>2, <4>1, <4>2 DEF Paying
    <3>5. ~ExpertStarts(t) /\ ~StudentStarts(t) /\ ~GivesUp(t)
      BY <2>2 DEF ExpertStarts, StudentStarts, Fresh, GivesUp
    <3> QED BY <3>0, <3>1, <3>2, <3>3, <3>4, <3>5 DEF AcceptMoves
  <2>3. CASE d.at \notin PaysLabels
    BY <2>3 DEF Paying, PaysLabels
  <2> QED BY <2>1, <2>2, <2>3 DEF PaysLabels, RequestLabels
<1> QED BY <1>3, <1>4

-----------------------------------------------------------------------------
(* What the runs that end a session know, a step later.                    *)
LEMMA StaysUncaptured ==
    ASSUME NEW s, NEW G, Going(s, G), NEW i \in Intents,
           stripe[i].st \in Uncaptured, Done(i)
    PROVE  stripe'[i].st \in Uncaptured /\ Done(i)'
<1>1. Live(i)
  BY DEF Uncaptured, Live
<1> QED BY <1>1, IntentStays, DoneKept, DoneStays DEF Uncaptured, CardStatus

(* The sweep finds an authorization that no run captures any more.         *)
LEMMA SweepFinds ==
    ASSUME NEW s, NEW G, Going(s, G), NEW i \in Intents,
           ledger[i].charge = "pending", stripe[i].st # "succeeded", "settle" \in Calls,
           \A u \in Slots : call[u].i = i => call[u].at \in BeforeRow
    PROVE  stripe[i].st \in Uncaptured /\ Done(i)
<1>0. /\ JInv /\ PaymentsClear /\ Known /\ StripeOK /\ IntentRule(i)
      /\ \A u \in Slots : Accepting(u)
  BY GoingFacts DEF Knows2
<1>1. stripe[i].st \in Uncaptured
  <2>1. stripe[i].st \in IntentStatus /\ Live(i)
    BY <1>0 DEF StripeOK, Intent, Known, Recorded
  <2> QED BY <1>0, <2>1 DEF IntentRule, PaymentsClear, Live, Uncaptured, IntentStatus
<1>2. stripe[i].g = NoSession => ledger[i].g \in Sessions /\ Shut(ledger[i].g)
  BY <1>0 DEF IntentRule
<1>3. stripe[i].g # NoSession => stripe[i].sent
  BY <1>0 DEF IntentRule
<1>4. ASSUME NEW u \in Slots, TakesPayment(u, i) PROVE FALSE
  <2>1. /\ Student(u) /\ call[u].i = i /\ call[u].at \in BeforeRow
        /\ call[u].at \in BeforeCapture
    BY <1>4 DEF TakesPayment, BeforeRow
  <2> QED BY <1>0, <2>1 DEF Accepting
<1> QED BY <1>1, <1>2, <1>3, <1>4 DEF Done

(* A run that cancels a session with a parked row works for a card.        *)
LEMMA CancellingStays ==
    ASSUME NEW s, NEW G, Going(s, G), NEW t \in Slots
    PROVE  /\ call'[t].at \in CancellingLabels /\ call'[t].row =>
                  stripe'[call'[t].i].st \in CardStatus
           /\ call'[t].at \in {"cancel.release", "cancel.probe"} => call'[t].row
<1> DEFINE c == call[t]
           d == call'[t]
<1>0. JInv /\ CallsOK /\ Known /\ RowsOwned /\ Ending(t)
  BY GoingFacts DEF Knows2
<1>1. \/ d = c
      \/ CancelEntry(c, d)
  BY GoingRuns DEF Entry
<1>2. ASSUME d.at \in CancellingLabels, d.row PROVE stripe'[d.i].st \in CardStatus
  <2>1. d.i \in Intents /\ Live(d.i) /\ stripe[d.i].st \in CardStatus
    <3>1. CASE c.at \in CancellingLabels /\ c.row /\ d.i = c.i
      BY <1>0, <3>1 DEF Ending, CallsOK, Knows, Known
    <3>2. CASE d.i \in Parked(c.g)
      BY <1>0, <3>2 DEF Parked, RowsOf, RowsOwned, Known, Recorded
    <3> QED BY <1>1, <1>2, <3>1, <3>2 DEF CancelEntry
  <2> QED BY <2>1, IntentStays
<1>3. ASSUME d.at \in {"cancel.release", "cancel.probe"} PROVE d.row
  <2>1. CASE c.at = "cancel.release" /\ d.row = c.row
    BY <1>0, <2>1 DEF Ending
  <2> QED BY <1>0, <1>1, <1>3, <2>1 DEF Ending, CancelEntry
<1> QED BY <1>2, <1>3

(* A run that ends a request for its deadline works for the parked row.    *)
LEMMA ClosingStays ==
    ASSUME NEW s, NEW G, Going(s, G), NEW t \in Slots,
           call'[t].at \in ShutLabels \cup {"hold.claim"}
    PROVE  /\ stripe'[call'[t].i].g = NoSession
           /\ ledger'[call'[t].i].g = call'[t].g
           /\ stripe'[call'[t].i].st \in CardStatus
<1> DEFINE c == call[t]
           d == call'[t]
<1>0. JInv /\ CallsOK /\ Known /\ RowsOwned /\ LedgerOK /\ Ending(t)
  BY GoingFacts DEF Knows2
<1>l. ShutLabels \cup {"hold.claim"} \subseteq WithIntent \cap WithSession
  BY DEF ShutLabels, WithIntent, WithSession, HoldLabels
<1>1. \/ d = c
      \/ HoldEntry(c, d)
  BY GoingRuns DEF Entry
<1>2. /\ d.i \in Intents /\ Live(d.i) /\ d.g \in Sessions
      /\ stripe[d.i].g = NoSession /\ ledger[d.i].g = d.g
      /\ stripe[d.i].st \in CardStatus
  <2>1. CASE c.at \in ShutLabels \cup {"hold.claim"} /\ SameWork(c, d)
    <3>1. c.i \in Intents /\ c.g \in Sessions
      BY <1>0, <1>l, <2>1 DEF CallsOK, Knows
    <3> QED BY <1>0, <2>1, <3>1 DEF Ending, Known, SameWork
  <2>2. CASE d.i \in Parked(c.g) /\ d.g = c.g
    BY <1>0, <2>2 DEF Parked, RowsOf, RowsOwned, Known, Recorded, LedgerOK
  <2> QED BY <1>1, <2>1, <2>2 DEF HoldEntry, SameWork
<1> QED BY <1>2, IntentStays, RowStaysPut

LEMMA ClosedStays ==
    ASSUME NEW s, NEW G, Going(s, G), NEW t \in Slots, call'[t].at \in ShutLabels
    PROVE  /\ call'[t].g = call[t].g
           /\ Shut(call[t].g)'
           /\ call'[t].at = "hold.stuck" => stripe'[call'[t].i].st \in Uncaptured
<1> DEFINE c == call[t]
           d == call'[t]
<1>0. /\ JInv /\ CallsOK /\ CallsOK' /\ Claims /\ Ending(t)
      /\ \A u \in Slots : Confirming(u)
  BY GoingFacts DEF Knows2
<1>1. d = c \/ (t = s /\ Moves(s) /\ HoldEntry(c, d))
  BY GoingRuns DEF Entry
<1>2. d.i = c.i /\ d.g = c.g
  BY <1>1 DEF HoldEntry, SameWork
<1>3. d.i \in Intents /\ d.g \in Sessions
  BY <1>0 DEF CallsOK, Knows, ShutLabels, WithIntent, WithSession, HoldLabels
<1>4. CASE c.at \in ShutLabels
  <2>1. Shut(c.g)'
    <3>1. PICK g \in Sessions : g = d.g
      BY <1>2, <1>3
    <3>2. Shut(g)'
      BY <1>0, <1>2, <1>4, <3>1, ShutStays DEF Ending
    <3>3. d.g = g => Shut(c.g)'
      BY <3>2 DEF Shut
    <3> QED BY <3>1, <3>3
  <2>2. ASSUME d.at = "hold.stuck" PROVE stripe'[d.i].st \in Uncaptured
    <3>1. CASE d = c
      <4>1. stripe[d.i].st \in Uncaptured /\ Done(d.i)
        BY <1>0, <1>3, <2>2, <3>1 DEF Ending, ShutLabels, Done
      <4> QED BY <1>3, <4>1, StaysUncaptured
    <3>2. CASE d # c
      <4>1. stripe[d.i].st = "hold" /\ t = s
        BY <1>1, <1>2, <2>2, <3>2 DEF HoldEntry
      <4> QED BY <1>3, <2>2, <4>1, HoldKept DEF Uncaptured
    <3> QED BY <3>1, <3>2
  <2> QED BY <1>2, <2>1, <2>2
<1>5. CASE c.at \notin ShutLabels
  <2>1. /\ t = s /\ c.at = "hold.claim" /\ session[c.g].st = "pending"
        /\ session'[c.g].st = "cancelled"
    BY <1>1, <1>5 DEF HoldEntry
  <2>2. ASSUME NEW u \in Slots, call'[u].g = d.g, call'[u].at \in Undecided PROVE FALSE
    <3>1. u # t
      BY <2>2 DEF ShutLabels, Undecided, ConfirmingLabels, CancellingLabels
    <3>2. call[u].g = c.g /\ call[u].at \in Undecided
      BY <1>2, <2>1, <2>2, <3>1, GoingRuns
    <3> QED BY <1>0, <2>1, <3>2 DEF Undecided, Confirming, Claims, Claiming
  <2>3. Shut(c.g)'
    <3>1. PICK g \in Sessions : g = d.g
      BY <1>2, <1>3
    <3>2. session'[g].st = "cancelled"
      BY <1>2, <2>1, <3>1
    <3>3. \A u \in Slots : call'[u].g = g => call'[u].at \notin Undecided
      BY <2>2, <3>1
    <3>4. d.g = g => Shut(c.g)'
      BY <3>2, <3>3 DEF Shut
    <3> QED BY <3>1, <3>4
  <2>4. d.at = "hold.stuck" => stripe'[d.i].st \in Uncaptured
    <3>1. d.at = "hold.stuck" => stripe[d.i].st = "hold"
      BY <1>1, <1>2, <1>5 DEF HoldEntry
    <3> QED BY <1>3, <2>1, <3>1, HoldKept DEF Uncaptured
  <2> QED BY <1>2, <2>3, <2>4
<1> QED BY <1>4, <1>5

LEMMA AuthorizedStays ==
    ASSUME NEW s, NEW G, Going(s, G), NEW t \in Slots, NEW i \in Intents,
           call'[t].i = i, call'[t].at = "sweep.authorized"
    PROVE  stripe'[i].st \in Uncaptured /\ Done(i)'
<1>0. /\ Ending(t)
      /\ call'[t] = call[t] \/ SweepEntry(call[t], call'[t])
  BY GoingFacts, GoingRuns DEF Knows2, Entry
<1>1. CASE call'[t] = call[t]
  <2>1. stripe[i].st \in Uncaptured /\ Done(i)
    BY <1>0, <1>1 DEF Ending
  <2> QED BY <2>1, StaysUncaptured
<1>2. CASE SweepEntry(call[t], call'[t])
  <2>1. stripe[i].st \in Uncaptured /\ Done(i)
    BY <1>2, SweepFinds DEF SweepEntry
  <2> QED BY <2>1, StaysUncaptured
<1> QED BY <1>0, <1>1, <1>2

LEMMA EndingStays ==
    ASSUME NEW s, NEW G, Going(s, G), NEW t \in Slots
    PROVE  Ending(t)'
<1> DEFINE d == call'[t]
<1>1. /\ d.at \in CancellingLabels /\ d.row => stripe'[d.i].st \in CardStatus
      /\ d.at \in {"cancel.release", "cancel.probe"} => d.row
  BY CancellingStays
<1>2. d.at \in ShutLabels \cup {"hold.claim"} =>
          /\ stripe'[d.i].g = NoSession /\ ledger'[d.i].g = d.g
          /\ stripe'[d.i].st \in CardStatus
  BY ClosingStays
<1>3. d.at = "hold.stuck" => stripe'[d.i].st \in Uncaptured
  BY ClosedStays DEF ShutLabels
<1>4. PICK g : g = d.g
  OBVIOUS
<1>5. d.at \in ShutLabels => Shut(g)'
  <2>1. d.at \in ShutLabels => d.g = call[t].g /\ Shut(call[t].g)'
    BY ClosedStays
  <2> QED BY <1>4, <2>1 DEF Shut
<1>6. d.i \in Intents \/ d.at # "sweep.authorized"
  BY GoingFacts DEF CallsOK, Knows, WithIntent, SweepLabels
<1>7. PICK i : i = d.i
  OBVIOUS
<1>8. d.at = "sweep.authorized" => stripe'[i].st \in Uncaptured /\ Done(i)'
  BY <1>6, <1>7, AuthorizedStays
<1> QED
  BY <1>1, <1>2, <1>3, <1>4, <1>5, <1>7, <1>8 DEF Ending, Shut, Done, TakesHold, TakesPayment,
     Expert, Student

-----------------------------------------------------------------------------
(* What the runs that accept know, a step later.                           *)
LEMMA ExpertWaitsForHold ==
    ASSUME NEW s, NEW G, Going(s, G), NEW t \in Slots,
           Expert(t)', call'[t].row, call'[t].at # "accept.book"
    PROVE  stripe'[call'[t].i].st \in Uncaptured
<1> DEFINE c == call[t]
           d == call'[t]
<1>0. /\ JInv /\ CallsOK /\ RowsOwned /\ Accepting(t)
      /\ \A i \in Intents : ParkedRule(i)
  BY GoingFacts DEF Knows2
<1>1. CASE d = c
  <2>1. /\ Expert(t) /\ c.row /\ c.i \in Intents /\ c.at # "accept.book"
    BY <1>0, <1>1 DEF Expert, CallsOK, Knows
  <2>2. stripe[c.i].st \in Uncaptured
    BY <1>0, <2>1 DEF Accepting
  <2>3. ~Moves(t) /\ Frame(s, G)
    BY <1>1 DEF Moves, Going
  <2> QED BY <1>0, <1>1, <2>1, <2>2, <2>3, HoldStays DEF Uncaptured
<1>2. CASE d # c
  <2>1. AcceptMoves(t) /\ t = s /\ d.who = "expert"
    BY <1>2, GoingRuns DEF Expert
  <2>2. CASE FindsHold(t)
    <3>1. /\ d.i \in Intents /\ ledger[d.i].charge = "withheld" /\ ledger[d.i].g = c.g
          /\ c.at = "accept.parked"
      BY <2>2 DEF FindsHold, Parked, RowsOf, At
    <3>2. stripe[d.i].st \in Uncaptured
      BY <1>0, <3>1 DEF RowsOwned, ParkedRule, CardStatus, Uncaptured
    <3> QED BY <2>1, <3>1, <3>2, HoldKept
  <2>3. ~ExpertStarts(t) /\ ~StudentStarts(t) /\ ~GivesUp(t)
    BY DEF ExpertStarts, StudentStarts, Fresh, GivesUp
  <2>4. ASSUME Expert(t) PROVE ExpertKnows(t)
    BY <1>0, <2>4, Actors
  <2>5. ~FindsPayment(t)
    BY <2>1, <2>4
       DEF FindsPayment, At, Expert, AcceptLabels, ReadLabels, ExpertKnows, ExpertLabels, FindLabels
  <2>6. ASSUME Keeps(t), \/ Reads(t, c.at, d.at)
                         \/ Takes(t, c.at, d.at) \/ Settles(t, c.at, d.at)
        PROVE  stripe'[d.i].st \in Uncaptured
    <3>1. /\ c.at \in AcceptLabels /\ c.at # "accept.book"
          /\ c.who = "expert" /\ c.row /\ d.i = c.i
      BY <2>1, <2>6
         DEF Keeps, Reads, Takes, Settles, AcceptLabels, ReadLabels, UndoLabels, ConfirmingLabels
    <3>2. c.i \in Intents /\ stripe[c.i].st \in Uncaptured
      BY <1>0, <3>1 DEF Accepting, Expert, CallsOK, Knows
    <3> QED BY <2>1, <3>1, <3>2, HoldKept
  <2> QED BY <2>1, <2>2, <2>3, <2>5, <2>6 DEF AcceptMoves
<1> QED BY <1>1, <1>2

(* The run of a student comes from one that has not captured either.       *)
LEMMA StudentCame ==
    ASSUME NEW s, NEW G, Going(s, G), NEW t \in Slots, AcceptMoves(t), ~StudentStarts(t),
           Student(t)', call'[t].at \in BeforeCapture
    PROVE  /\ Student(t) /\ call'[t].i = call[t].i
           /\ call[t].at \in BeforeCapture \ {"accept.insert"}
<1>0. JInv /\ Frame(s, G)
  BY GoingFacts DEF Going
<1>1. Student(t) /\ call'[t].i = call[t].i
  <2>1. ~(t = s /\ StudentStarts(s))
    OBVIOUS
  <2> QED BY <1>0, <2>1, StudentsCome
<1>2. StudentKnows(t)
  BY <1>0, <1>1, Actors
<1>3. call[t].at \in BeforeCapture \ {"accept.insert"}
  BY <1>1, <1>2
     DEF AcceptMoves, ExpertStarts, Fresh, FindsHold, FindsPayment, GivesUp, Reads, Takes,
     Settles, At, BeforeCapture, StudentKnows, StudentLabels
<1> QED BY <1>1, <1>3

LEMMA StudentWaitsForRow ==
    ASSUME NEW s, NEW G, Going(s, G), NEW t \in Slots, NEW i \in Intents,
           Student(t)', call'[t].i = i, call'[t].at \in BeforeCapture
    PROVE  ledger'[i].charge # "pending"
<1> DEFINE c == call[t]
           d == call'[t]
<1>0. /\ JInv /\ OnePayment /\ Known /\ IntentRule(i)
      /\ \A u \in Slots : Accepting(u) /\ Ending(u)
  BY GoingFacts DEF Knows2
<1> SUFFICES ASSUME ledger'[i].charge = "pending" PROVE FALSE
  OBVIOUS
<1>1. CASE ledger[i].charge = "pending"
  <2>1. Charged
    BY <1>0, <1>1 DEF Known, Recorded
  <2>2. ~StudentStarts(t)
    BY <1>0, <1>1, <2>1, SessionAssumption DEF StudentStarts, Fresh, OnePayment, IntentRule
  <2>3. Student(t) /\ c.i = i /\ c.at \in BeforeCapture
    <3>1. CASE d = c
      BY <3>1 DEF Student
    <3>2. CASE d # c
      <4>1. AcceptMoves(t)
        BY <3>2, GoingRuns DEF Student
      <4> QED BY <2>2, <4>1, StudentCame
    <3> QED BY <3>1, <3>2
  <2> QED BY <1>0, <1>1, <2>3 DEF Accepting
<1>2. CASE ledger[i].charge # "pending"
  <2>1. /\ s \in Slots /\ call[s].i = i /\ Moves(s) /\ Charged
        /\ call[s].at \in {"hold.stuck", "accept.insert", "accept.append"}
    <3>1. /\ Live(i) /\ s \in Slots /\ call[s].i = i /\ Moves(s)
          /\ Writes(call[s], ledger[i].charge, "pending")
      BY <1>2, WrittenBy
    <3>2. call[s].at \in {"hold.stuck", "accept.insert", "accept.append"}
      BY <3>1 DEF Writes
    <3> QED BY <1>0, <3>1, <3>2 DEF Known
  <2>2. t # s
    <3>1. ASSUME t = s PROVE FALSE
      <4>1. d # c /\ AcceptMoves(t)
        BY <2>1, <3>1, GoingRuns DEF Student, Moves
      <4>2. ~StudentStarts(t)
        BY <2>1, <3>1 DEF StudentStarts, Fresh, At
      <4>3. c.at \in BeforeCapture \ {"accept.insert"}
        BY <4>1, <4>2, StudentCame
      <4> QED BY <2>1, <3>1, <4>3 DEF BeforeCapture
    <3> QED BY <3>1
  <2>3. d = c /\ Student(t) /\ stripe[i].g \in Sessions
    <3>1. d = c
      BY <2>2, GoingRuns
    <3>2. Student(t) /\ c.i = i
      BY <3>1 DEF Student
    <3> QED BY <1>0, <2>1, <3>1, <3>2, Actors DEF StudentHolds
  <2>4. CASE call[s].at = "hold.stuck"
    BY <1>0, <2>1, <2>3, <2>4, SessionAssumption DEF Ending, ShutLabels
  <2>5. CASE call[s].at \in {"accept.insert", "accept.append"}
    <3>1. Student(s)
      BY <1>0, <2>1, <2>5, StudentPays
    <3> QED BY <1>0, <2>1, <2>2, <2>3, <3>1, TwoActors
  <2> QED BY <2>1, <2>4, <2>5
<1> QED BY <1>1, <1>2

LEMMA AcceptingStays ==
    ASSUME NEW s, NEW G, Going(s, G), NEW t \in Slots
    PROVE  Accepting(t)'
BY ExpertWaitsForHold, StudentWaitsForRow DEF Accepting

-----------------------------------------------------------------------------
(* Every step keeps what the runs know, and a restart leaves no run.       *)
LEMMA GoingStep ==
    ASSUME NEW s, NEW G, Going(s, G)
    PROVE  KInv'
<1>1. JInv' /\ PaymentsClear'
  BY GoingFacts DEF Going, PaymentsClear, JInv
<1>2. ASSUME NEW i \in Intents
      PROVE  IntentRule(i)' /\ ParkedRule(i)' /\ EventRule(i)' /\ BookRule(i)'
  BY IntentRuleStays, ParkedRuleStays, EventRuleStays, BookRuleStays
<1>3. ASSUME NEW t \in Slots PROVE Knows2(t)'
  BY ConfirmingStays, OutcomeStays, PayingStays, EndingStays, AcceptingStays DEF Knows2
<1> QED BY <1>1, <1>2, <1>3 DEF KInv

Rests(s) ==
    /\ Knows2(s) /\ call[s].at \notin Undecided
    /\ call[s].at \notin CancellingLabels \cup {"accept.parked"}
    /\ ~Failing(call[s])
    /\ \A i : ~TakesHold(s, i) /\ ~TakesPayment(s, i)

LEMMA IdleRests ==
    ASSUME NEW s \in Slots
    PROVE  /\ call[s].at = "idle" => Rests(s)
           /\ call'[s].at = "idle" => Rests(s)'
<1>1. "idle" \notin AcceptLabels \cup CancellingLabels \cup ConfirmingLabels
  BY LabelKinds DEF Calm, AcceptLabels
<1> USE <1>1
    DEF Rests, Knows2, Confirming, Outcome, RefundedLabels, ReleasedLabels, SucceededLabels,
    Paying, PaysLabels, Ending, ShutLabels, Accepting, Expert, Student, Failing, FailedLabels,
    ReleaseLabels, Undecided, TakesHold, TakesPayment
<1>2. call[s].at = "idle" => Rests(s)
  OBVIOUS
<1>3. call'[s].at = "idle" => Rests(s)'
  OBVIOUS
<1> QED BY <1>2, <1>3

LEMMA CrashKnows ==
    ASSUME KInv, JInv', EnvSame, Crash
    PROVE  KInv'
<1>1. /\ \A t \in Slots : call'[t] = Idle
      /\ UNCHANGED <<session, ledger, stripe, events>>
      /\ "decline" \notin Faults
  BY DEF Crash, Fault, KInv, PaymentsClear
<1>2. /\ PaymentsClear'
      /\ Outcomes' = Outcomes /\ Faults' = Faults
  BY DEF EnvSame, Outcomes, Faults, Calls, KInv, PaymentsClear, JInv
<1>3. ASSUME NEW t \in Slots PROVE Rests(t)'
  BY <1>1, IdleRests DEF Idle
<1>4. ASSUME NEW i \in Intents
      PROVE  IntentRule(i)' /\ ParkedRule(i)' /\ EventRule(i)' /\ BookRule(i)'
  <2>0. IntentRule(i) /\ ParkedRule(i) /\ EventRule(i) /\ BookRule(i)
    BY DEF KInv
  <2>1. ASSUME NEW g \in Sessions, Shut(g) PROVE Shut(g)'
    BY <1>1, <1>3, <2>1 DEF Shut, Rests
  <2>2. Done(i) => Done(i)'
    BY <1>1, <1>3, <2>1 DEF Done, Rests
  <2>3. IntentRule(i)'
    BY <1>1, <1>2, <2>0, <2>1 DEF IntentRule, Recorded
  <2>4. ParkedRule(i)'
    BY <1>1, <1>3, <2>0 DEF ParkedRule, Rests
  <2>5. EventRule(i)'
    BY <1>1, <1>2, <1>3, <2>0 DEF EventRule, Declined, Rests
  <2>6. BookRule(i)'
    BY <1>1, <1>2, <2>0, <2>2 DEF BookRule, Undone
  <2> QED BY <2>3, <2>4, <2>5, <2>6
<1> QED BY <1>2, <1>3, <1>4 DEF KInv, Rests

LEMMA KnowsStep == ASSUME KInv, Next PROVE KInv'
<1>1. JInv /\ BInv /\ TInv
  BY DEF KInv, JInv, BInv
<1>2. JInv' /\ EnvSame
  BY <1>1, PaymentStep, TypesStep
<1>3. CASE ~Crash
  <2>1. MoneyFrame
    BY <1>1, <1>3, MoneyStep
  <2>2. PICK s, G : Frame(s, G)
    BY <1>1, <1>3, FrameStep
  <2> QED BY <1>2, <2>1, <2>2, GoingStep DEF Going
<1> QED BY <1>2, <1>3, CrashKnows

LEMMA KnowsInit == Init /\ PaymentsClear => KInv
<1> SUFFICES ASSUME Init, PaymentsClear PROVE KInv
  OBVIOUS
<1>1. JInv
  BY PaymentInit DEF PaymentsClear
<1>2. /\ \A i \in Intents : /\ stripe[i].st = "none" /\ stripe[i].g = NoSession
                            /\ ledger[i].charge = "none"
      /\ events = {} /\ \A s \in Slots : call[s].at = "idle"
  BY DEF Init, Idle
<1>3. \A s \in Slots : Rests(s)
  BY <1>2, IdleRests
<1>4. ASSUME NEW i \in Intents
      PROVE  IntentRule(i) /\ ParkedRule(i) /\ EventRule(i) /\ BookRule(i)
  <2>1. ~Declined(i)
    BY <1>2, <1>3 DEF Declined, Rests
  <2> QED
    BY <1>2, <2>1 DEF IntentRule, ParkedRule, EventRule, BookRule, Doubtful, Undone, Recorded
<1> QED BY <1>1, <1>3, <1>4 DEF KInv, Rests

LEMMA KnowsAlways == Spec /\ PaymentsClear => []KInv
<1>1. KInv /\ [Next]_sessionVars => KInv'
  <2> SUFFICES ASSUME KInv, UNCHANGED sessionVars PROVE KInv'
    BY KnowsStep
  <2>0. /\ UNCHANGED <<session, ledger, stripe, events, call, world>>
        /\ EnvSame
    BY DEF sessionVars, EnvSame
  <2>1. JInv'
    BY <2>0
       DEF KInv, JInv, BInv, TInv, DataOK, SessionOK, LedgerOK, StripeOK, EventsOK,
       WorldOK, CallsOK, Knows, Known, Real, Captures, Covered, Booked, Claims, Claiming,
       Charged, Calls, Live, There, Recorded, OnePayment, Payments, PayRule, RequestRoot,
       RowsOwned, OneRow, Runs, RunRule, FreshRun, RequestRun, Expert, Student, ExpertKnows,
       ExpertHolds, ExpertAlone, StudentKnows, StudentHolds, StudentAlone, Unconfirmed, Deciding
  <2> QED
    BY <2>0, <2>1
       DEF KInv, PaymentsClear, OnePayment, Calls, Outcomes, Faults, IntentRule, ParkedRule,
       EventRule, BookRule, Declined, Doubtful, Undone, Booking, Taken, Recorded, At, Shut, Done,
       TakesHold, TakesPayment, Expert, Student, Failing, Knows2, Confirming, Outcome, Paying,
       Ending, Accepting
<1> QED BY <1>1, KnowsInit, PTL DEF Spec

(* Where PaymentsClear holds, the books agree with Stripe whenever no run  *)
(* works on an intent: a charge that failed or was released left no money  *)
(* with the platform, one that is completed was taken, and one that is     *)
(* refunded was returned.                                                  *)
THEOREM BooksAgree == Spec /\ PaymentsClear => []BooksMatchStripe
<1>1. KInv => BooksMatchStripe
  <2> SUFFICES ASSUME KInv, NEW i \in Intents, \A s \in Slots : call[s].i # i
               PROVE  /\ Undone(i) => ~Taken(i)
                      /\ ledger[i].charge = "completed" => stripe[i].st = "succeeded"
                      /\ ledger[i].charge = "refunded" => stripe[i].refunded
    BY DEF BooksMatchStripe, Undone
  <2>1. BookRule(i) /\ ~Booking(i)
    BY DEF KInv, Booking
  <2>2. Undone(i) => ~Taken(i)
    <3>1. CASE "decline" \notin Faults
      BY <2>1, <3>1 DEF BookRule, Dead, Taken
    <3>2. CASE "decline" \in Faults
      BY <2>1, <3>2 DEF BookRule, Doubtful
    <3> QED BY <3>1, <3>2
  <2> QED BY <2>1, <2>2 DEF BookRule
<1> QED BY <1>1, KnowsAlways, PTL

-----------------------------------------------------------------------------
(* What the money buys.  A card that is declined before it is accepted     *)
(* fails the charge of an offer after its capture, and ends the session.   *)
PaymentsHold ==
    /\ PaymentsClear
    /\ "decline" \in Faults => "pay" \notin Calls

(* The money is held or with the platform; it is there, or clears.         *)
Stands(i) == stripe[i].st \notin Dead /\ ~stripe[i].refunded
Kept(i) == stripe[i].st \in {"processing", "succeeded"} /\ ~stripe[i].refunded
OnBooks(i) == ledger[i].charge \in {"pending", "completed", "withheld"}
Active(g) == g \in Sessions /\ session[g].st = "active"

(* A charge whose money is kept is for an active session, the one its      *)
(* intent names.                                                           *)
BuysRule(i) ==
    /\ OnBooks(i) /\ Kept(i) => Active(ledger[i].g)
    /\ /\ Recorded(i) /\ stripe[i].g # NoSession
       /\ stripe[i].st # "canceled" /\ ~stripe[i].refunded
       => ledger[i].g = stripe[i].g

(* A run that takes the money, or books it late, does so for an active     *)
(* session.                                                                *)
TakingLabels ==
    {"accept.insert", "accept.capture", "accept.collect", "accept.capProbe",
     "accept.book", "accept.append"}
Taking(s) ==
    LET c == call[s] IN
    /\ c.at \in TakingLabels /\ Stands(c.i) => Active(c.g)
    /\ c.at = "succeeded.record" /\ Stands(c.i) /\ stripe[c.i].g # NoSession =>
           Active(stripe[c.i].g)

(* A run that ends a session does so for an intent that is dead or         *)
(* refunded, or the session was over before.                               *)
Releasing(s) ==
    LET c == call[s] IN
    IF "pay" \in Calls THEN c.at \in EndLabels => stripe[c.i].st \in Dead
    ELSE c.at \in OverLabels /\ c.g # NoSession => Shut(c.g)
Refunding(s) ==
    LET c == call[s] IN
    /\ c.at \in {"request.consumed", "request.probe", "request.create"} =>
           c.g = NoSession
    /\ c.at \in MoneyBackLabels /\ c.g # NoSession => "pay" \in Calls
    /\ c.at \in RefundedAfter => stripe[c.i].refunded

(* A request that may still be rolled back has its session to itself.      *)
ParkingLabels == {"request.park", "request.abort", "request.rollback"}
Parking(s) ==
    call[s].at \in ParkingLabels =>
        /\ \A j \in Intents : ledger[j].g # call[s].g
        /\ \A t \in Slots : /\ call[t].at \in ParkingLabels \cup BookLabels
                            /\ call[t].g = call[s].g
                            => t = s
Backs(s) == Taking(s) /\ Releasing(s) /\ Refunding(s) /\ Parking(s)

LInv ==
    /\ KInv /\ PaymentsHold
    /\ \A i \in Intents : BuysRule(i)
    /\ \A s \in Slots : Backs(s)

-----------------------------------------------------------------------------
(* What money stood before a step, if it stands after it.                  *)
LEMMA StoodBefore ==
    ASSUME NEW s, NEW G, Going(s, G), NEW i \in Intents, Live(i)
    PROVE  /\ Stands(i)' => Stands(i)
           /\ Kept(i)' => Stands(i) /\ stripe'[i].st \notin Uncaptured
           /\ Kept(i)' => Kept(i) \/ (stripe[i].st = "hold" /\ stripe'[i].st = "succeeded")
           /\ stripe[i].st \in Dead => stripe'[i].st \in Dead
           /\ stripe'[i].st # "canceled" => stripe[i].st # "canceled"
           /\ ~stripe'[i].refunded => ~stripe[i].refunded
<1>1. /\ stripe[i].refunded => stripe'[i].refunded
      /\ \A st \in {"succeeded", "canceled", "failed"} :
             stripe[i].st = st => stripe'[i].st = st
      /\ stripe[i].st = "hold" => stripe'[i].st \in CardStatus
  BY IntentStays
<1>2. stripe[i].st \in {"hold", "processing", "succeeded", "canceled", "failed"}
  BY GoingFacts DEF StripeOK, Intent, IntentStatus, Live
<1> QED BY <1>1, <1>2 DEF Stands, Kept, Dead, Uncaptured, CardStatus

(* Who ends an active session.                                             *)
EndsActive == {"accept.restore", "release.cancel", "refund.cancel", "request.rollback"}
LEMMA ActiveEnds ==
    ASSUME NEW s, NEW G, Going(s, G), NEW g \in Sessions, Active(g),
           session'[g].st # "active"
    PROVE  s \in Slots /\ call[s].at \in EndsActive /\ call[s].g = g /\ Moves(s)
<1>1. Statuses(g, "active", session'[g].st)
  BY DEF Going, Frame, SessionFrame, Active
<1>2. PICK u \in Slots : call[u].at \in EndsActive /\ call[u].g = g /\ Moves(u)
  BY <1>1 DEF Statuses, Ender, EndsActive, Moves, At, Undecided, ConfirmingLabels
<1> QED BY <1>2, GoingRuns

(* The money of an intent stands for a session: its row names it, it was   *)
(* taken for it, or a run is taking it.                                    *)
Backed(i, g) ==
    \/ ledger[i].g = g /\ stripe'[i].st \notin Uncaptured
    \/ stripe[i].g = g /\ stripe[i].st = "succeeded"
    \/ \E t \in Slots : call[t].at \in TakingLabels /\ call[t].i = i /\ call[t].g = g

LEMMA TakersNamed ==
    ASSUME JInv, NEW t \in Slots, call[t].at \in TakingLabels
    PROVE  /\ call[t].i \in Intents /\ call[t].g \in Sessions
           /\ \/ /\ Expert(t) /\ call[t].row
                 /\ ledger[call[t].i].g = call[t].g /\ stripe[call[t].i].g = NoSession
              \/ Student(t) /\ stripe[call[t].i].g = call[t].g
<1>1. /\ call[t].at \in ConfirmingLabels \cup ConfirmedLabels
      /\ call[t].at \in AcceptLabels /\ call[t].at \in WithIntent
  BY DEF TakingLabels, AcceptLabels, ConfirmingLabels, ConfirmedLabels, WithIntent
<1>2. call[t].i \in Intents
  BY <1>1 DEF JInv, BInv, TInv, CallsOK, Knows
<1> QED BY <1>1, <1>2, Actors DEF ExpertKnows, ExpertHolds, StudentHolds

LEMMA RestoreTakesNone ==
    ASSUME NEW s \in Slots, NEW G, Going(s, G), NEW i \in Intents, NEW g \in Sessions,
           Live(i), Stands(i), Backed(i, g), call[s].at = "accept.restore", call[s].g = g
    PROVE  FALSE
<1> DEFINE j == call[s].i
<1>0. JInv /\ CallsOK /\ Known /\ PayRule /\ OneRow
  BY GoingFacts
<1>1. /\ call[s].at \in ConfirmingLabels /\ call[s].at \in AcceptLabels
      /\ j \in Intents /\ Live(j)
  BY <1>0 DEF ConfirmingLabels, AcceptLabels, CallsOK, Knows, WithIntent, Known
<1>2. Expert(s) \/ Student(s)
  BY <1>0, <1>1, Actors
<1>3. stripe[j].st \in Uncaptured
  BY <1>0, <1>1, <1>2, Actors DEF ExpertHolds, StudentHolds, Untaken, Uncaptured
<1>4. stripe'[j].st \in Uncaptured
  BY <1>1, <1>3, HoldKept
<1>5. ASSUME Student(s) PROVE i = j /\ stripe[j].g = g
  BY <1>0, <1>1, <1>5, Actors DEF StudentKnows, StudentHolds, PayRule
<1>6. ASSUME Expert(s) PROVE ledger[j].g = g /\ stripe[j].g = NoSession
  BY <1>0, <1>1, <1>6, Actors DEF ExpertKnows, ExpertHolds
<1>7. ASSUME ledger[i].g = g, stripe'[i].st \notin Uncaptured PROVE FALSE
  BY <1>0, <1>1, <1>2, <1>4, <1>5, <1>6, <1>7 DEF OneRow
<1>8. ASSUME stripe[i].g = g, stripe[i].st = "succeeded" PROVE FALSE
  <2>1. i = j
    BY <1>0, <1>1, <1>8, SessionAssumption DEF PayRule
  <2> QED BY <1>3, <1>8, <2>1 DEF Uncaptured
<1>9. ASSUME NEW t \in Slots, call[t].at \in TakingLabels, call[t].g = g PROVE FALSE
  <2>1. t = s
    BY <1>0, <1>1, <1>9, OneConfirming DEF TakingLabels, ConfirmingLabels, ConfirmedLabels
  <2> QED BY <1>9, <2>1 DEF TakingLabels
<1> QED BY <1>7, <1>8, <1>9 DEF Backed

(* A session that money stands for stays active.                           *)
LEMMA StaysActive ==
    ASSUME LInv, NEW s, NEW G, Going(s, G), NEW i \in Intents, NEW g \in Sessions,
           Live(i), Stands(i), Active(g), Backed(i, g)
    PROVE  session'[g].st = "active"
<1> SUFFICES ASSUME session'[g].st # "active" PROVE FALSE
  OBVIOUS
<1> DEFINE c == call[s]
<1>0. JInv /\ CallsOK /\ Known /\ PayRule /\ Runs
  BY GoingFacts DEF JInv
<1>1. s \in Slots /\ c.at \in EndsActive /\ c.g = g
  BY ActiveEnds
<1>2. Releasing(s) /\ Refunding(s) /\ Parking(s)
  BY <1>1 DEF LInv, Backs
<1>3. c.i \in Intents /\ Live(c.i)
  <2>1. c.at \in WithIntent
    BY <1>1 DEF EndsActive, WithIntent, ParkLabels, ConfirmingLabels, MoneyBackLabels,
       EventLabels
  <2> QED BY <1>0, <1>1, <2>1 DEF CallsOK, Knows, Known
<1>4. "pay" \in Calls => c.i = i
  BY <1>0, <1>3 DEF PayRule
<1>5. c.at # "accept.restore"
  BY <1>1, RestoreTakesNone
<1>6. ASSUME c.at = "release.cancel" PROVE FALSE
  BY <1>1, <1>2, <1>4, <1>6, SessionAssumption
     DEF Releasing, EndLabels, OverLabels, ReleaseLabels, Stands, Shut, Active
<1>7. ASSUME c.at = "refund.cancel" PROVE FALSE
  BY <1>1, <1>2, <1>4, <1>7, SessionAssumption
     DEF Refunding, RefundedAfter, MoneyBackLabels, Stands
<1>8. ASSUME c.at = "request.rollback" PROVE FALSE
  <2>1. stripe[c.i].g = NoSession
    BY <1>0, <1>1, <1>3, <1>8 DEF Runs, RunRule, RequestRun, RequestLabels
  <2>2. ledger[i].g # g
    BY <1>1, <1>2, <1>8 DEF Parking, ParkingLabels
  <2>3. stripe[i].g # g
    BY <1>0, <1>4, <2>1, SessionAssumption DEF PayRule
  <2> QED BY <1>0, <2>2, <2>3, TakersNamed DEF Backed
<1> QED BY <1>1, <1>5, <1>6, <1>7, <1>8 DEF EndsActive

-----------------------------------------------------------------------------
(* What the runs know of their sessions, a step later.                     *)
LEMMA TakingStays ==
    ASSUME LInv, NEW s, NEW G, Going(s, G), NEW t \in Slots
    PROVE  Taking(t)'
<1> DEFINE c == call[t]
           d == call'[t]
           Standing(i) == stripe'[i].st \notin Dead /\ ~stripe'[i].refunded
<1>0. JInv /\ CallsOK' /\ CallsOK /\ Known /\ Known' /\ Taking(t) /\ Outcome(t) /\ Frame(s, G)
  BY GoingFacts DEF Knows2, LInv, Backs, Going
<1>1. ASSUME c.at \in TakingLabels, Standing(c.i), NEW g \in Sessions, c.g = g
      PROVE  session'[g].st = "active"
  <2>1. PICK i \in Intents : i = c.i
    BY <1>0, <1>1, TakersNamed
  <2>2. Live(i) /\ Stands(i)'
    BY <1>0, <1>1, <2>1 DEF Known, Stands
  <2>3. Stands(i) /\ Active(g)
    BY <1>0, <1>1, <2>1, <2>2, StoodBefore DEF Taking
  <2>4. Backed(i, g)
    BY <1>1, <2>1 DEF Backed
  <2> QED BY <2>2, <2>3, <2>4, StaysActive
<1>2. ASSUME d.at \in TakingLabels, Standing(d.i) PROVE d.g \in Sessions /\ session'[d.g].st = "active"
  <2>1. d.g \in Sessions
    BY <1>0, <1>2 DEF CallsOK, Knows, TakingLabels, WithSession, AcceptLabels,
       ConfirmingLabels, ConfirmedLabels
  <2>2. c.at \in TakingLabels /\ d.i = c.i /\ d.g = c.g => session'[d.g].st = "active"
    BY <1>1, <1>2, <2>1
  <2>3. CASE d # c
    <3>1. AcceptMoves(t) /\ AcceptEntry(c, d)
      BY <1>2, <2>3, GoingRuns
         DEF Entry, TakingLabels, AcceptLabels, ConfirmingLabels, ConfirmedLabels
    <3>2. c.at = "accept.activate" => session'[d.g].st = "active"
      BY <1>2, <3>1
         DEF AcceptEntry, AcceptMoves, ExpertStarts, StudentStarts, Fresh, FindsHold,
         FindsPayment, GivesUp, Keeps, Reads, Takes, Settles, TakingLabels, ConfirmingLabels
    <3>3. \/ c.at = "accept.activate"
          \/ c.at \in TakingLabels /\ d.i = c.i /\ d.g = c.g
      BY <1>2, <3>1
         DEF AcceptMoves, ExpertStarts, StudentStarts, Fresh, FindsHold, FindsPayment, GivesUp,
         Keeps, Reads, Takes, Settles, TakingLabels
    <3> QED BY <2>1, <2>2, <3>2, <3>3
  <2> QED BY <1>2, <2>1, <2>2, <2>3
<1>3. ASSUME d.at = "succeeded.record", Standing(d.i), stripe'[d.i].g # NoSession
      PROVE  stripe'[d.i].g \in Sessions /\ session'[stripe'[d.i].g].st = "active"
  <2>1. d.i \in Intents
    BY <1>0, <1>3 DEF CallsOK, Knows, WithIntent, EventLabels
  <2>2. Live(d.i)
    BY <1>0, <2>1 DEF Frame, CallFrame, Known
  <2>3. PICK g : g = stripe[d.i].g
    OBVIOUS
  <2>4. stripe'[d.i].g = g /\ g \in Sessions
    BY <1>3, <2>1, <2>2, <2>3, IntentStays, GoingFacts DEF StripeOK, Intent
  <2>5. CASE d = c
    <3>1. stripe[c.i].st = "succeeded" /\ c.i = d.i
      BY <1>0, <1>3, <2>5 DEF Outcome, SucceededLabels
    <3>2. PICK i \in Intents : i = c.i
      BY <2>1, <2>5
    <3>3. Live(i) /\ Stands(i)'
      BY <1>3, <2>2, <3>1, <3>2 DEF Stands
    <3>4. Stands(i) /\ Active(g)
      BY <1>0, <1>3, <2>3, <2>4, <2>5, <3>2, <3>3, StoodBefore, SessionAssumption DEF Taking
    <3>5. Backed(i, g)
      BY <2>3, <3>1, <3>2 DEF Backed
    <3> QED BY <2>4, <3>3, <3>4, <3>5, StaysActive
  <2>6. CASE d # c
    <3>1. Delivered(d.i) /\ UNCHANGED session
      BY <1>3, <2>6, GoingRuns DEF Entry, EventEntry
    <3> QED BY <2>3, <2>4, <3>1, SessionAssumption DEF Delivered
  <2> QED BY <2>5, <2>6
<1> QED BY <1>2, <1>3 DEF Taking, Active, Stands

LEMMA ReleasingStays ==
    ASSUME LInv, NEW s, NEW G, Going(s, G), NEW t \in Slots
    PROVE  Releasing(t)'
<1> DEFINE c == call[t]
           d == call'[t]
<1>0. /\ JInv /\ CallsOK /\ CallsOK' /\ Known /\ PayRule /\ Calls' = Calls /\ Releasing(t) /\ Outcome(t)
      /\ \A i \in Intents : EventRule(i) /\ IntentRule(i)
  BY GoingFacts DEF Knows2, LInv, Backs
<1>l. EndLabels \cup OverLabels \cup FailedLabels \cup {"sweep.released"} \subseteq WithIntent
  BY DEF EndLabels, OverLabels, ReleaseLabels, FailedLabels, WithIntent, EventLabels, SweepLabels
<1>1. ASSUME "pay" \in Calls, d.at \in EndLabels PROVE stripe'[d.i].st \in Dead
  <2>1. \/ d = c /\ c.at \in EndLabels
        \/ /\ d.i = c.i
           /\ Failing(c) \/ c.at \in EndLabels \cup {"sweep.released"}
        \/ stripe'[d.i].st = "canceled"
    BY <1>1, GoingRuns DEF Entry, EventEntry
  <2>2. ASSUME Failing(c) \/ c.at \in EndLabels \cup {"sweep.released"}, d.i = c.i
        PROVE  stripe'[c.i].st \in Dead
    <3>1. c.i \in Intents /\ Live(c.i)
      BY <1>0, <1>l, <2>2 DEF CallsOK, Knows, Known, Failing, EndLabels
    <3>2. stripe[c.i].st \in Dead
      <4>1. CASE c.at \in EndLabels
        BY <1>0, <1>1, <4>1 DEF Releasing
      <4>2. CASE c.at = "sweep.released"
        BY <1>0, <4>2 DEF Outcome, ReleasedLabels, Dead
      <4>3. CASE Failing(c) /\ c.row
        BY <1>0, <4>3 DEF Outcome, Dead
      <4>4. CASE Failing(c) /\ ~c.row
        <5>1. Declined(c.i)
          BY <4>4 DEF Declined
        <5> QED BY <1>0, <1>1, <3>1, <5>1 DEF EventRule, LInv, PaymentsHold, Dead
      <4> QED BY <2>2, <4>1, <4>2, <4>3, <4>4
    <3> QED BY <3>1, <3>2, StoodBefore
  <2> QED BY <2>1, <2>2 DEF Dead
<1>2. ASSUME "pay" \notin Calls, d.at \in OverLabels, NEW g \in Sessions, d.g = g PROVE Shut(g)'
  <2>1. d.i \in Intents
    BY <1>0, <1>l, <1>2 DEF CallsOK, Knows
  <2>2. \/ c.at \in OverLabels /\ c.g = g
        \/ g = stripe[d.i].g
        \/ ledger[d.i].charge = "pending" /\ ledger[d.i].g = g
    BY <1>2, GoingRuns, SessionAssumption, ZenonT(40) DEF Entry, EventEntry
  <2>3. g # stripe[d.i].g
    BY <1>0, <1>2, <2>1, SessionAssumption DEF PayRule
  <2>4. c.at \in OverLabels /\ c.g = g => Shut(g)
    BY <1>0, <1>2, SessionAssumption DEF Releasing
  <2>5. ledger[d.i].charge = "pending" /\ ledger[d.i].g = g => Shut(g)
    BY <1>0, <1>2, <2>1 DEF PayRule, IntentRule
  <2> QED BY <2>2, <2>3, <2>4, <2>5, ShutStays
<1>3. d.g # NoSession => d.g \in Sessions
  BY <1>0 DEF CallsOK, Run
<1>4. PICK g : g = d.g
  OBVIOUS
<1>5. "pay" \notin Calls /\ d.at \in OverLabels /\ d.g # NoSession => Shut(g)'
  BY <1>2, <1>3, <1>4
<1> QED BY <1>0, <1>1, <1>4, <1>5 DEF Releasing, Shut

LEMMA RefundingStays ==
    ASSUME LInv, NEW s, NEW G, Going(s, G), NEW t \in Slots
    PROVE  Refunding(t)'
<1> DEFINE c == call[t]
           d == call'[t]
           First == {"request.consumed", "request.probe", "request.create"}
<1>0. JInv /\ CallsOK /\ CallsOK' /\ Known /\ Calls' = Calls /\ Refunding(t)
  BY GoingFacts DEF LInv, Backs
<1>1. d = c \/ BackEntry(c, d)
  BY GoingRuns DEF Entry
<1>2. ASSUME d.at \in First, d # c PROVE d.g = NoSession
  <2>1. RequestMoves(t)
    BY <1>2, GoingRuns DEF RequestLabels
  <2>2. d.g = NoSession \/ (d.g = c.g /\ c.at \in First)
    BY <1>2, <2>1 DEF RequestMoves, Requests, Probes, Creates, Keeps, Parks, At
  <2> QED BY <1>0, <2>2 DEF Refunding
<1>3. ASSUME d.at \in MoneyBackLabels, d.g # NoSession, d # c PROVE "pay" \in Calls
  <2>1. c.at \in MoneyBackLabels \cup {"request.create"} /\ d.g = c.g => "pay" \in Calls
    BY <1>0, <1>3 DEF Refunding
  <2>2. c.at = "accept.paid" => "pay" \in Calls
    BY <1>0, Actors
       DEF AcceptLabels, ReadLabels, ExpertKnows, ExpertLabels, FindLabels, StudentKnows
  <2>3. c.at = "accept.activate" /\ c.pays \notin {"none", "held"} => "pay" \in Calls
    BY <1>0, Actors DEF AcceptLabels, ReadLabels, ExpertKnows, StudentKnows
  <2> QED BY <1>1, <1>3, <2>1, <2>2, <2>3 DEF BackEntry
<1>4. ASSUME d.at \in RefundedAfter PROVE stripe'[d.i].refunded
  <2>1. ASSUME c.at \in RefundedAfter, d.i = c.i PROVE stripe'[c.i].refunded
    <3>1. c.i \in Intents /\ Live(c.i) /\ stripe[c.i].refunded
      BY <1>0, <2>1 DEF Refunding, RefundedAfter, CallsOK, Knows, WithIntent, MoneyBackLabels,
         Known
    <3> QED BY <3>1, IntentStays
  <2> QED BY <1>1, <1>4, <2>1 DEF BackEntry
<1> QED BY <1>0, <1>2, <1>3, <1>4 DEF Refunding

(* A request that may still be rolled back keeps its session to itself.    *)
LEMMA ParkingAlone ==
    ASSUME LInv, NEW s, NEW G, Going(s, G), NEW t \in Slots,
           call[t].at \in ParkingLabels, call'[t].at \in ParkingLabels,
           call'[t] = call[t] \/ RequestMoves(t), call'[t].g = call[t].g
    PROVE  /\ \A j \in Intents : ledger'[j].g # call[t].g
           /\ \A u \in Slots : /\ call'[u].at \in ParkingLabels \cup BookLabels
                               /\ call'[u].g = call[t].g
                               => u = t
<1> DEFINE c == call[t]
<1>0. /\ JInv /\ CallsOK /\ Known /\ Real /\ PayRule /\ Runs /\ Frame(s, G)
      /\ Parking(t)
  BY GoingFacts DEF Going, JInv, LInv, Backs
<1>1. /\ c.i \in Intents /\ Live(c.i) /\ c.g \in Sessions /\ session[c.g].st # "none"
      /\ stripe[c.i].g = NoSession
  <2>1. c.at \in ParkLabels /\ c.at \in RequestLabels
    BY DEF ParkingLabels, ParkLabels, RequestLabels
  <2>2. c.i \in Intents /\ c.g \in Sessions
    BY <1>0, <2>1 DEF CallsOK, Knows, WithIntent, WithSession
  <2> QED BY <1>0, <2>1, <2>2 DEF Known, Real, There, Runs, RunRule, RequestRun
<1>2. ASSUME NEW j \in Intents, Live(j), stripe[j].g = c.g PROVE FALSE
  BY <1>0, <1>1, <1>2, SessionAssumption DEF PayRule
<1>3. ASSUME NEW j \in Intents, ledger'[j].g = c.g PROVE FALSE
  <2>1. ledger[j].g # c.g
    BY <1>0 DEF Parking
  <2>2. RowAdded(j, c.g)
    BY <1>0, <1>1, <1>3, <2>1, SessionAssumption
       DEF Frame, LedgerFrame, RowStays, RowAdded, RowDeleted
  <2>3. Live(j)
    BY <1>0, <2>2 DEF RowAdded, Known
  <2>4. PICK u \in Slots : /\ call[u].at \in BookLabels \cup {"accept.insert", "accept.append"}
                           /\ call[u].i = j /\ call[u].g = c.g /\ Moves(u)
    BY <1>2, <2>2, <2>3 DEF RowAdded, Someone
  <2>5. call[u].at \in BookLabels
    BY <1>0, <1>2, <2>3, <2>4, StudentPays
  <2>6. u = t
    BY <1>0, <2>4, <2>5 DEF Parking
  <2>7. UNCHANGED ledger
    BY <2>4, <2>5, <2>6
       DEF Moves, RequestMoves, Requests, Probes, Creates, Parks, At, BookLabels, ParkingLabels
  <2> QED BY <1>3, <2>1, <2>7
<1>4. ASSUME NEW u \in Slots, call'[u].at \in ParkingLabels \cup BookLabels,
             call'[u].g = c.g
      PROVE  u = t
  <2>1. call'[u] = call[u] \/ RequestMoves(u)
    BY <1>4, GoingRuns DEF ParkingLabels, BookLabels, RequestLabels
  <2>2. ~Creates(u)
    BY <1>1, <1>4 DEF Creates
  <2>3. call[u].at \in ParkingLabels \cup BookLabels /\ call[u].g = c.g
    BY <1>4, <2>1, <2>2
       DEF RequestMoves, Requests, Probes, Keeps, Parks, At, ParkingLabels, BookLabels
  <2> QED BY <1>0, <2>3 DEF Parking
<1> QED BY <1>3, <1>4

LEMMA ParkingStays ==
    ASSUME LInv, NEW s, NEW G, Going(s, G), NEW t \in Slots
    PROVE  Parking(t)'
<1> DEFINE c == call[t]
           d == call'[t]
<1> SUFFICES ASSUME d.at \in ParkingLabels
             PROVE  /\ \A j \in Intents : ledger'[j].g # d.g
                    /\ \A u \in Slots : /\ call'[u].at \in ParkingLabels \cup BookLabels
                                        /\ call'[u].g = d.g
                                        => u = t
  BY DEF Parking
<1>0. JInv /\ CallsOK /\ Known /\ Real /\ Frame(s, G)
  BY GoingFacts DEF Going
<1>1. d = c \/ (t = s /\ RequestMoves(t))
  BY GoingRuns DEF ParkingLabels, RequestLabels
<1>2. CASE Creates(t) /\ t = s
  <2>1. d.g \in Sessions /\ session[d.g].st = "none"
    BY <1>2 DEF Creates
  <2>2. /\ \A j \in Intents : ledger[j].g # d.g /\ stripe[j].g # d.g
        /\ \A u \in Slots : call[u].g # d.g
    BY <1>0, <2>1 DEF Real, There
  <2>3. \A j \in Intents : ledger'[j].g # d.g
    BY <1>0, <2>1, <2>2, SessionAssumption
       DEF Frame, LedgerFrame, RowStays, RowAdded, RowDeleted, Someone
  <2>4. \A u \in Slots : call'[u].g = d.g => u = t
    BY <1>2, <2>2, GoingRuns
  <2> QED BY <2>3, <2>4
<1>3. CASE ~(Creates(t) /\ t = s)
  <2>1. c.at \in ParkingLabels /\ d.g = c.g /\ (d = c \/ RequestMoves(t))
    BY <1>1, <1>3
       DEF RequestMoves, Requests, Probes, Keeps, Parks, At, ParkingLabels
  <2> QED BY <2>1, ParkingAlone
<1> QED BY <1>2, <1>3

-----------------------------------------------------------------------------
(* Where no row was, no run writes off the charge of an intent in force.   *)
LEMMA RowNamed ==
    ASSUME NEW s, NEW G, Going(s, G), NEW i \in Intents, ~Recorded(i), Recorded(i)',
           stripe[i].g # NoSession, stripe[i].st # "canceled", ~stripe[i].refunded
    PROVE  ledger'[i].g = stripe[i].g
<1> DEFINE c == call[s]
<1>1. /\ s \in Slots /\ c.i = i /\ Writes(c, "none", ledger'[i].charge)
      /\ c.at \in NamingLabels => ledger'[i].g = NamedBy(c)
      /\ ledger'[i].charge # "none"
  BY WrittenBy DEF Recorded
<1>0. JInv /\ RunRule(s) /\ Outcome(s) /\ Ending(s)
  BY <1>1, GoingFacts DEF Knows2, JInv, Runs
<1>2. c.at \notin RefundedLabels \cup ReleasedLabels
  BY <1>0, <1>1 DEF Outcome
<1>3. c.at # "accept.rowFail"
  <2>1. ASSUME c.at = "accept.rowFail" PROVE FALSE
    <3>1. Expert(s) /\ c.row
      BY <1>0, <1>1, <2>1, Actors
         DEF AcceptLabels, ConfirmedLabels, StudentKnows, StudentLabels, ExpertKnows
    <3> QED BY <1>0, <1>1, <3>1, Actors DEF ExpertHolds
  <2> QED BY <2>1
<1>4. c.at \notin {"request.append", "request.park"}
  BY <1>0, <1>1 DEF RunRule, RequestRun, RequestLabels
<1>5. c.at # "hold.stuck"
  BY <1>0, <1>1 DEF Ending, ShutLabels
<1>6. c.at \in {"succeeded.record", "accept.insert", "accept.append"}
  BY <1>1, <1>2, <1>3, <1>4, <1>5 DEF Writes, RefundedLabels, ReleasedLabels
<1>7. c.at \in {"accept.insert", "accept.append"} => stripe[i].g = c.g
  BY <1>0, <1>1, StudentPays
<1> QED BY <1>1, <1>6, <1>7 DEF NamingLabels, NamedBy

(* A charge in force is for the session that its intent names.             *)
LEMMA NamesIntent ==
    ASSUME NEW s, NEW G, Going(s, G), NEW i \in Intents, BuysRule(i), Live(i),
           Recorded(i)', stripe[i].g # NoSession, stripe'[i].st # "canceled",
           ~stripe'[i].refunded
    PROVE  ledger'[i].g = stripe[i].g
<1>0. BInv /\ Frame(s, G) /\ StripeOK
  BY GoingFacts DEF Going
<1>1. stripe[i].st # "canceled" /\ ~stripe[i].refunded
  BY StoodBefore
<1>2. ASSUME Recorded(i) PROVE ledger'[i].g = stripe[i].g
  <2>1. ledger[i].g = stripe[i].g /\ stripe[i].g \in Sessions
    BY <1>0, <1>1, <1>2 DEF BuysRule, StripeOK, Intent
  <2> QED BY <1>0, <2>1, RowLasts
<1> QED BY <1>1, <1>2, RowNamed

(* Whoever books a charge of money that is with the platform does so for   *)
(* an active session.                                                      *)
LEMMA BooksActive ==
    ASSUME LInv, NEW s, NEW G, Going(s, G), NEW i \in Intents, Live(i), Kept(i), Kept(i)',
           ~OnBooks(i), OnBooks(i)'
    PROVE  \E g \in Sessions : Active(g) /\ Backed(i, g) /\ ledger'[i].g = g
<1> DEFINE c == call[s]
           b == ledger'[i].charge
<1>1. /\ s \in Slots /\ c.i = i /\ Writes(c, ledger[i].charge, b)
      /\ b \in {"pending", "completed", "withheld"}
      /\ ledger[i].charge # "pending"
  BY WrittenBy DEF OnBooks
<1>0. /\ JInv /\ StripeOK /\ RunRule(s) /\ Outcome(s) /\ Paying(s) /\ Ending(s) /\ IntentRule(i)
      /\ BuysRule(i) /\ Taking(s) /\ Stands(i)
  BY <1>1, GoingFacts DEF Knows2, JInv, Runs, LInv, Backs, Kept, Stands, Dead
<1>2. Recorded(i)' /\ stripe'[i].st # "canceled" /\ ~stripe'[i].refunded
  BY DEF OnBooks, Kept, Recorded
<1>3. CASE c.at \in TakingLabels
  <2>1. /\ c.g \in Sessions
        /\ \/ Expert(s) /\ ledger[i].g = c.g /\ stripe[i].g = NoSession
           \/ Student(s) /\ stripe[i].g = c.g
    BY <1>0, <1>1, <1>3, TakersNamed
  <2>2. Active(c.g) /\ Backed(i, c.g)
    BY <1>0, <1>1, <1>3 DEF Taking, Backed
  <2>3. ledger'[i].g = c.g
    BY <1>0, <1>2, <2>1, RowStaysPut, NamesIntent, SessionAssumption
  <2> QED BY <2>1, <2>2, <2>3
<1>4. CASE c.at = "succeeded.record" /\ ledger[i].charge = "none"
  <2>1. stripe[i].st = "succeeded"
    BY <1>0, <1>1, <1>4 DEF Outcome, SucceededLabels
  <2>2. stripe[i].g \in Sessions /\ stripe[i].g # NoSession
    BY <1>0, <1>4, <2>1, SessionAssumption DEF IntentRule, Recorded, StripeOK, Intent
  <2>3. Active(stripe[i].g) /\ Backed(i, stripe[i].g)
    BY <1>0, <1>1, <1>4, <2>1, <2>2 DEF Taking, Backed
  <2> QED BY <1>0, <1>2, <2>2, <2>3, NamesIntent
<1>5. ASSUME c.at \in {"request.append", "request.park"}, ledger[i].charge = "none"
      PROVE  FALSE
  <2>1. stripe[i].g = NoSession /\ stripe[i].st = "succeeded"
    BY <1>0, <1>1, <1>5
       DEF RunRule, RequestRun, RequestLabels, Paying, PaysLabels, Kept, CardStatus
  <2> QED BY <1>0, <1>5, <2>1 DEF IntentRule, Recorded
<1>6. c.at # "hold.stuck"
  BY <1>0, <1>1 DEF Ending, ShutLabels, Kept, Uncaptured
<1> QED BY <1>1, <1>3, <1>4, <1>5, <1>6 DEF Writes, TakingLabels

(* What the money buys, a step later.                                      *)
LEMMA BuysRuleStays ==
    ASSUME LInv, NEW s, NEW G, Going(s, G), NEW i \in Intents
    PROVE  BuysRule(i)'
<1>0. JInv /\ BInv /\ Frame(s, G) /\ Known /\ StripeOK /\ LedgerOK /\ BuysRule(i)
  BY GoingFacts DEF Going, LInv
<1>1. Recorded(i)' => Live(i)
  BY <1>0, WrittenBy DEF Known, Recorded
<1>2. ASSUME Recorded(i)', stripe'[i].g # NoSession, stripe'[i].st # "canceled",
             ~stripe'[i].refunded
      PROVE  ledger'[i].g = stripe'[i].g
  BY <1>0, <1>1, <1>2, IntentStays, NamesIntent
<1>3. ASSUME OnBooks(i)', Kept(i)' PROVE Active(ledger[i].g)'
  <2>1. Live(i) /\ Stands(i) /\ stripe'[i].st \notin Uncaptured /\ Recorded(i)'
    BY <1>1, <1>3, StoodBefore DEF OnBooks, Recorded
  <2>2. CASE Kept(i) /\ OnBooks(i)
    <3>1. Active(ledger[i].g)
      BY <1>0, <2>2 DEF BuysRule
    <3>2. ledger'[i].g = ledger[i].g
      BY <1>0, <1>3, <3>1, RowLasts DEF Active, Kept
    <3>3. Backed(i, ledger[i].g)
      BY <2>1 DEF Backed
    <3> QED BY <2>1, <3>1, <3>2, <3>3, StaysActive DEF Active
  <2>3. CASE Kept(i) /\ ~OnBooks(i)
    <3>1. PICK g \in Sessions : Active(g) /\ Backed(i, g) /\ ledger'[i].g = g
      BY <1>3, <2>1, <2>3, BooksActive
    <3> QED BY <2>1, <3>1, StaysActive DEF Active
  <2>4. CASE ~Kept(i)
    <3>1. stripe[i].st = "hold" /\ stripe'[i].st = "succeeded"
      BY <1>3, <2>1, <2>4, StoodBefore
    <3>2. /\ s \in Slots /\ call[s].i = i /\ call[s].at \in TakingLabels
          /\ call[s].g \in Sessions
          /\ \/ stripe[i].g = NoSession /\ ledger[i].g = call[s].g
             \/ stripe[i].g = call[s].g
      BY <3>1, WhoCaptures DEF TakingLabels, At
    <3>3. Active(call[s].g) /\ Backed(i, call[s].g)
      BY <2>1, <3>2 DEF LInv, Backs, Taking, Backed
    <3>4. ledger'[i].g = call[s].g
      BY <1>0, <1>3, <2>1, <3>1, <3>2, RowStaysPut, NamesIntent, SessionAssumption DEF Kept
    <3> QED BY <2>1, <3>2, <3>3, <3>4, StaysActive DEF Active
  <2> QED BY <2>2, <2>3, <2>4
<1> QED BY <1>2, <1>3 DEF BuysRule

-----------------------------------------------------------------------------
(* Every step keeps what the money buys; a restart leaves no run.          *)
LEMMA BuysGoing ==
    ASSUME LInv, NEW s, NEW G, Going(s, G)
    PROVE  LInv'
<1>1. KInv' /\ PaymentsHold'
  BY GoingStep, GoingFacts DEF LInv, PaymentsHold, KInv
<1>2. ASSUME NEW i \in Intents PROVE BuysRule(i)'
  BY BuysRuleStays
<1>3. ASSUME NEW t \in Slots PROVE Backs(t)'
  BY TakingStays, ReleasingStays, RefundingStays, ParkingStays DEF Backs
<1> QED BY <1>1, <1>2, <1>3 DEF LInv

LEMMA IdleBacks ==
    ASSUME NEW s \in Slots
    PROVE  /\ call[s].at = "idle" => Backs(s)
           /\ call'[s].at = "idle" => Backs(s)'
<1> USE DEF Backs, Taking, TakingLabels, Releasing, EndLabels, OverLabels, ReleaseLabels,
     Refunding, MoneyBackLabels, RefundedAfter, Parking, ParkingLabels
<1>1. call[s].at = "idle" => Backs(s)
  OBVIOUS
<1>2. call'[s].at = "idle" => Backs(s)'
  OBVIOUS
<1> QED BY <1>1, <1>2

LEMMA BuysStep == ASSUME LInv, Next PROVE LInv'
<1>1. KInv /\ JInv /\ BInv /\ TInv
  BY DEF LInv, KInv, JInv, BInv
<1>2. KInv' /\ JInv' /\ EnvSame
  BY <1>1, KnowsStep, PaymentStep, TypesStep
<1>3. CASE ~Crash
  <2>1. MoneyFrame
    BY <1>1, <1>3, MoneyStep
  <2>2. PICK s, G : Frame(s, G)
    BY <1>1, <1>3, FrameStep
  <2> QED BY <1>1, <1>2, <2>1, <2>2, BuysGoing DEF Going
<1>4. CASE Crash
  <2>1. /\ \A t \in Slots : call'[t].at = "idle"
        /\ UNCHANGED <<session, ledger, stripe, events>>
    BY <1>4 DEF Crash, Idle
  <2>2. PaymentsHold'
    BY <1>2 DEF LInv, PaymentsHold, KInv, EnvSame, Calls, Faults
  <2>3. ASSUME NEW i \in Intents PROVE BuysRule(i)'
    BY <2>1 DEF LInv, BuysRule, OnBooks, Kept, Active, Recorded
  <2> QED BY <1>2, <2>1, <2>2, <2>3, IdleBacks DEF LInv
<1> QED BY <1>3, <1>4

LEMMA BuysInit == Init /\ PaymentsHold => LInv
<1> SUFFICES ASSUME Init, PaymentsHold PROVE LInv
  OBVIOUS
<1>1. KInv
  BY KnowsInit DEF PaymentsHold
<1>2. /\ \A i \in Intents : ledger[i].charge = "none"
      /\ \A s \in Slots : call[s].at = "idle"
  BY DEF Init, Idle
<1>3. \A i \in Intents : BuysRule(i)
  BY <1>2 DEF BuysRule, OnBooks, Recorded
<1> QED BY <1>1, <1>2, <1>3, IdleBacks DEF LInv

LEMMA BuysAlways == Spec /\ PaymentsHold => []LInv
<1>1. LInv /\ KInv' /\ [Next]_sessionVars => LInv'
  <2> SUFFICES ASSUME LInv, KInv', UNCHANGED sessionVars PROVE LInv'
    BY BuysStep
  <2>0. UNCHANGED <<session, ledger, stripe, events, call, world>>
    BY DEF sessionVars
  <2> QED
    BY <2>0
       DEF LInv, PaymentsHold, KInv, Calls, Faults, BuysRule, OnBooks, Kept, Active, Recorded,
       Backs, Taking, Stands, Releasing, Shut, Refunding, Parking
<1>2. PaymentsHold => PaymentsClear
  BY DEF PaymentsHold
<1> QED BY <1>1, <1>2, BuysInit, KnowsAlways, PTL DEF Spec

(* Where PaymentsHold holds, a completed charge whose money was taken and  *)
(* not given back belongs to an active session, whatever acceptances,      *)
(* cancellations, sweeps, events and refunds run against each other.       *)
THEOREM ChargesBuySessions == Spec /\ PaymentsHold => []ChargeBuysSession
<1>1. LInv => ChargeBuysSession
  <2> SUFFICES ASSUME LInv, NEW i \in Intents, Taken(i), ledger[i].charge = "completed"
               PROVE  ledger[i].g # NoSession /\ session[ledger[i].g].st = "active"
    BY DEF ChargeBuysSession
  <2>1. OnBooks(i) /\ Kept(i)
    BY DEF OnBooks, Kept, Taken
  <2> QED BY <2>1, SessionAssumption DEF LInv, BuysRule, Active
<1> QED BY <1>1, BuysAlways, PTL

-----------------------------------------------------------------------------
(* The steps of the runs, by what they work at.                            *)
MoneyBackStep(s) ==
    \/ OrphanRecorded(s) \/ OrphanHold(s) \/ OrphanCancel(s)
    \/ RefundStep(s) \/ RefundFails(s) \/ RefundRow(s) \/ RefundSession(s)
    \/ RefundLive(s) \/ RefundCancel(s)
RequestStep(s) ==
    \/ RequestConsumed(s) \/ RequestProbe(s) \/ RequestCreate(s)
    \/ RequestRejected(s) \/ RequestFail(s) \/ RequestPark(s)
    \/ RequestParkFails(s) \/ RequestAbort(s) \/ RequestRollback(s)
    \/ RequestDeadline(s) \/ RequestAppend(s)
ReadStep(s) ==
    \/ AcceptParked(s) \/ AcceptWindow(s) \/ AcceptSecured(s) \/ AcceptPaid(s)
    \/ AcceptConsumed(s) \/ AcceptProbe(s) \/ AcceptActivate(s)
    \/ AcceptActivateFails(s)
ConfirmStep(s) ==
    \/ AcceptUndo(s) \/ AcceptUndoRow(s) \/ AcceptInsert(s) \/ AcceptInsertFails(s)
    \/ AcceptAbort(s) \/ AcceptCapture(s) \/ AcceptNotCaptured(s)
    \/ AcceptCapProbe(s) \/ AcceptCapCancel(s) \/ AcceptCapStuck(s)
    \/ AcceptCapDelete(s) \/ AcceptRestore(s) \/ AcceptRowFail(s)
    \/ AcceptBook(s) \/ AcceptBookLost(s) \/ AcceptAppend(s)
CancelStep(s) ==
    \/ CancelParked(s) \/ CancelPayment(s) \/ CancelRelease(s)
    \/ CancelReleaseFails(s) \/ CancelProbe(s) \/ CancelReleased(s)
    \/ CancelRefund(s) \/ CancelRefundFails(s) \/ CancelRow(s)
    \/ CancelBooked(s) \/ CancelRestore(s)
HoldStep(s) ==
    \/ HoldParked(s) \/ HoldClear(s) \/ HoldClose(s) \/ HoldClaim(s)
    \/ HoldRelease(s) \/ HoldReleaseFails(s) \/ HoldProbe(s)
    \/ HoldReleased(s) \/ HoldRow(s) \/ HoldBooked(s) \/ HoldStuck(s)
EventStep(s) ==
    \/ ReleaseRead(s) \/ ReleasePaid(s) \/ ReleaseCancel(s)
    \/ FailedRow(s) \/ FailedWithheld(s) \/ WithheldRow(s) \/ FailedSession(s)
    \/ FailedAgain(s) \/ SucceededRecorded(s) \/ SucceededDelivered(s)
    \/ RecordCharge(s)
SettleStep(s) ==
    \/ SweepAuthorized(s) \/ SweepProcessing(s) \/ SweepEnrolled(s)
    \/ SweepSettle(s) \/ SweepCancel(s) \/ SweepReleased(s) \/ SweepRefused(s)
    \/ StrayCancel(s) \/ StrayDelivered(s) \/ StrayRefund(s) \/ StrayRow(s)
Starts(s) == BookingCall(s) \/ EndingCall(s) \/ WebhookStep(s) \/ SweepStep(s)

LEMMA GroupLabels ==
    ASSUME NEW s \in Slots
    PROVE  /\ MoneyBackStep(s) => call[s].at \in MoneyBackLabels
           /\ RequestStep(s) => call[s].at \in RequestLabels
           /\ ReadStep(s) => call[s].at \in ReadLabels
           /\ ConfirmStep(s) =>
                  call[s].at \in UndoLabels \cup ConfirmingLabels \cup ConfirmedLabels
           /\ CancelStep(s) => call[s].at \in CancellingLabels \cup CancelledLabels
           /\ HoldStep(s) => call[s].at \in HoldLabels
           /\ EventStep(s) => call[s].at \in EventLabels
           /\ SettleStep(s) => call[s].at \in SweepLabels
           /\ Starts(s) => call[s].at = "idle"
<1> USE DEF At
<1>1. MoneyBackStep(s) => call[s].at \in MoneyBackLabels
  BY DEF MoneyBackStep, MoneyBackLabels, OrphanRecorded, OrphanHold, OrphanCancel, RefundStep,
     RefundFails, RefundRow, RefundSession, RefundLive, RefundCancel
<1>2. RequestStep(s) => call[s].at \in RequestLabels
  BY DEF RequestStep, RequestLabels, RequestConsumed, RequestProbe, RequestCreate,
     RequestRejected, RequestFail, RequestPark, RequestParkFails, RequestAbort,
     RequestRollback, RequestDeadline, RequestAppend
<1>3. ReadStep(s) => call[s].at \in ReadLabels
  BY DEF ReadStep, ReadLabels, AcceptParked, AcceptWindow, AcceptSecured, AcceptPaid,
     AcceptConsumed, AcceptProbe, AcceptActivate, AcceptActivateFails
<1>4. ConfirmStep(s) => call[s].at \in UndoLabels \cup ConfirmingLabels \cup ConfirmedLabels
  BY DEF ConfirmStep, UndoLabels, ConfirmingLabels, ConfirmedLabels, AcceptUndo,
     AcceptUndoRow, AcceptInsert, AcceptInsertFails, AcceptAbort, AcceptCapture,
     AcceptNotCaptured, AcceptCapProbe, AcceptCapCancel, AcceptCapStuck, AcceptCapDelete,
     AcceptRestore, AcceptRowFail, AcceptBook, AcceptBookLost, AcceptAppend
<1>5. CancelStep(s) => call[s].at \in CancellingLabels \cup CancelledLabels
  BY DEF CancelStep, CancellingLabels, CancelledLabels, CancelParked, CancelPayment,
     CancelRelease, CancelReleaseFails, CancelProbe, CancelReleased, CancelRefund,
     CancelRefundFails, CancelRow, CancelBooked, CancelRestore
<1>6. HoldStep(s) => call[s].at \in HoldLabels
  BY DEF HoldStep, HoldLabels, HoldParked, HoldClear, HoldClose, HoldClaim, HoldRelease,
     HoldReleaseFails, HoldProbe, HoldReleased, HoldRow, HoldBooked, HoldStuck
<1>7. EventStep(s) => call[s].at \in EventLabels
  BY DEF EventStep, EventLabels, ReleaseRead, ReleasePaid, ReleaseCancel, FailedRow,
     FailedWithheld, WithheldRow, FailedSession, FailedAgain, SucceededRecorded,
     SucceededDelivered, RecordCharge
<1>8. SettleStep(s) => call[s].at \in SweepLabels
  BY DEF SettleStep, SweepLabels, SweepAuthorized, SweepProcessing, SweepEnrolled,
     SweepSettle, SweepCancel, SweepReleased, SweepRefused, StrayCancel, StrayDelivered,
     StrayRefund, StrayRow
<1>9. Starts(s) => call[s].at = "idle"
  BY DEF Starts, BookingCall, EndingCall, WebhookStep, SweepStep, Propose, Request,
     AcceptAsExpert, AcceptAsStudent, Cancel, Calling, FailedEvent, SucceededEvent,
     SweepPending, SweepStray, SweepHold
<1> QED BY <1>1, <1>2, <1>3, <1>4, <1>5, <1>6, <1>7, <1>8, <1>9

LEMMA GroupsApart ==
    /\ \A l \in Labels :
          /\ l \in MoneyBackLabels => l \notin RequestLabels \cup AcceptLabels
          /\ l \in MoneyBackLabels \cup RequestLabels \cup AcceptLabels =>
                 l \notin CancellingLabels \cup CancelledLabels \cup HoldLabels
                          \cup EventLabels \cup SweepLabels \cup {"idle"}
          /\ l \in CancellingLabels \cup CancelledLabels =>
                 l \notin HoldLabels \cup EventLabels \cup SweepLabels \cup {"idle"}
          /\ l \in HoldLabels => l \notin EventLabels \cup SweepLabels \cup {"idle"}
          /\ l \in EventLabels => l \notin SweepLabels \cup {"idle"}
          /\ l \in SweepLabels => l # "idle"
          /\ l \in RequestLabels => l \notin AcceptLabels
          /\ l \in ReadLabels => l \notin UndoLabels \cup ConfirmingLabels \cup ConfirmedLabels
BY DEF Labels, MoneyBackLabels, RequestLabels, AcceptLabels, ReadLabels, UndoLabels,
   ConfirmingLabels, ConfirmedLabels, CancellingLabels, CancelledLabels, HoldLabels,
   EventLabels, SweepLabels

(* A run that moves takes a step of its own. *)
LEMMA StepOf ==
    ASSUME BInv, Next, ~Crash, NEW t \in Slots, call'[t] # call[t]
    PROVE  \/ MoneyBackStep(t) \/ RequestStep(t) \/ ReadStep(t) \/ ConfirmStep(t)
           \/ CancelStep(t) \/ HoldStep(t) \/ EventStep(t) \/ SettleStep(t)
           \/ Starts(t)
<1>0. TInv /\ Known /\ Real /\ Captures /\ CallsOK
  BY DEF BInv, TInv
<1>1. ASSUME NEW s \in Slots, \E G : Frame(s, G) PROVE s = t
  BY <1>1 DEF Frame, CallFrame
<1>2. ASSUME NEW s \in Slots, BookingStep(s)
      PROVE  s = t /\ (MoneyBackStep(s) \/ RequestStep(s) \/ ReadStep(s) \/ ConfirmStep(s))
  <2>1. MoneyBackStep(s) \/ RequestStep(s) \/ ReadStep(s) \/ ConfirmStep(s)
    BY <1>2 DEF BookingStep, MoneyBackStep, RequestStep, ReadStep, ConfirmStep
  <2>2. CASE MoneyBackStep(s)
    BY <1>0, <1>1, <2>2, MoneyBackFrames DEF MoneyBackStep
  <2>3. CASE RequestStep(s)
    BY <1>0, <1>1, <2>3, RequestFrames DEF RequestStep
  <2>4. CASE ReadStep(s)
    BY <1>0, <1>1, <2>4, ReadFrames DEF ReadStep
  <2>5. CASE ConfirmStep(s)
    BY <1>0, <1>1, <2>5, ConfirmFrames DEF ConfirmStep
  <2> QED BY <2>1, <2>2, <2>3, <2>4, <2>5
<1>3. ASSUME NEW s \in Slots, EndingStep(s)
      PROVE  s = t /\ (CancelStep(s) \/ HoldStep(s) \/ EventStep(s) \/ SettleStep(s))
  <2>1. CancelStep(s) \/ HoldStep(s) \/ EventStep(s) \/ SettleStep(s)
    BY <1>3 DEF EndingStep, CancelStep, HoldStep, EventStep, SettleStep
  <2>2. CASE CancelStep(s)
    BY <1>0, <1>1, <2>2, CancelFrames DEF CancelStep
  <2>3. CASE HoldStep(s)
    BY <1>0, <1>1, <2>3, HoldFrames DEF HoldStep
  <2>4. CASE EventStep(s)
    BY <1>0, <1>1, <2>4, EventFrames DEF EventStep
  <2>5. CASE SettleStep(s)
    BY <1>0, <1>1, <2>5, SweepFrames DEF SettleStep
  <2> QED BY <2>1, <2>2, <2>3, <2>4, <2>5
<1>4. ASSUME NEW s \in Slots, Starts(s) PROVE s = t
  <2>1. BookingCall(s) => s = t
    <3>1. CASE Propose(s)
      BY <3>1 DEF Propose
    <3>2. ASSUME NEW i \in Intents \cup {NoIntent}, Request(s, i) PROVE s = t
      BY <1>0, <3>2 DEF Request, CallsOK
    <3>3. ASSUME NEW g \in Sessions, AcceptAsExpert(s, g) PROVE s = t
      BY <1>0, <3>3 DEF AcceptAsExpert, CallsOK
    <3>4. ASSUME NEW g \in Sessions, NEW i \in Intents \cup {NoIntent},
                 AcceptAsStudent(s, g, i)
          PROVE  s = t
      BY <1>0, <3>4 DEF AcceptAsStudent, Orphaned, Finish, CallsOK
    <3> QED BY <3>1, <3>2, <3>3, <3>4 DEF BookingCall
  <2>2. EndingCall(s) => s = t
    BY <1>0 DEF EndingCall, Cancel, CallsOK
  <2>3. WebhookStep(s) => s = t
    BY <1>0 DEF WebhookStep, FailedEvent, SucceededEvent, CallsOK
  <2>4. SweepStep(s) => s = t
    BY <1>0 DEF SweepStep, SweepPending, SweepStray, SweepHold, CallsOK
  <2> QED BY <1>4, <2>1, <2>2, <2>3, <2>4 DEF Starts
<1>5. ~StripeStep /\ ~Time
  BY DEF StripeStep, Checkout, DeclinedFirst, WalletClears, WalletFails, HoldExpires,
     Time, DecisionLapses, WindowLapses, SessionStarts, SweepWindow
<1>6. PICK s \in Slots : BookingStep(s) \/ EndingStep(s) \/ Starts(s)
  BY <1>5 DEF Next, Step, Starts
<1> QED BY <1>2, <1>3, <1>4, <1>6

-----------------------------------------------------------------------------
(* Who refunds an intent, when it grows old, how a failure is told.        *)
Refunders == {"refund", "cancel.refund", "hold.probe", "stray.refund"}
AgeFrame ==
    \A i \in Intents :
        /\ Live(i) /\ stripe[i].old => stripe'[i].old
        /\ stripe'[i].old /\ ~stripe[i].old => "settle" \in Calls
RefundFrame ==
    \A i \in Intents : stripe'[i].refunded /\ ~stripe[i].refunded =>
        \E u \in Slots : /\ call[u].i = i /\ call[u].at \in Refunders /\ Moves(u)
                         /\ At(u, "hold.probe") => stripe[i].st = "succeeded"
FailFrame ==
    \A i \in Intents :
        /\ stripe[i].st = "processing" /\ stripe'[i].st = "failed" =>
              <<"failed", i>> \in events'
        /\ <<"failed", i>> \in events =>
              \/ <<"failed", i>> \in events'
              \/ \E u \in Slots : /\ call'[u].i = i
                                  /\ call'[u].at \in {"failed.row", "failed.withheld"}
BackFrame == AgeFrame /\ RefundFrame /\ FailFrame

LEMMA IntentBack ==
    ASSUME StripeOK, NEW i \in Intents
    PROVE  /\ UNCHANGED <<stripe, events>> => BackFrame
           /\ Submitted(i) /\ UNCHANGED events => BackFrame
           /\ CancelHold(i) \/ Capture(i) => BackFrame
           /\ \A labels : HourPasses(i, labels) /\ "settle" \in Calls /\ UNCHANGED events
                  => BackFrame
           /\ \A s \in Slots :
                  /\ Refund(i) /\ UNCHANGED events /\ call[s].i = i /\ Moves(s)
                  /\ call[s].at \in Refunders
                  /\ At(s, "hold.probe") => stripe[i].st = "succeeded"
                  => BackFrame
<1> USE DEF BackFrame, AgeFrame, RefundFrame, FailFrame
<1>1. UNCHANGED <<stripe, events>> => BackFrame
  OBVIOUS
<1>2. Submitted(i) /\ UNCHANGED events => BackFrame
  BY DEF Submitted, StripeOK, Intent
<1>3. CancelHold(i) \/ Capture(i) => BackFrame
  BY <1>1 DEF CancelHold, Capture, SetIntent, StripeOK, Intent
<1>4. ASSUME NEW labels, HourPasses(i, labels), "settle" \in Calls, UNCHANGED events
      PROVE  BackFrame
  BY <1>4 DEF HourPasses, StripeOK, Intent
<1>5. ASSUME NEW s \in Slots, Refund(i), UNCHANGED events, call[s].i = i, Moves(s),
             call[s].at \in Refunders, At(s, "hold.probe") => stripe[i].st = "succeeded"
      PROVE  BackFrame
  BY <1>5 DEF Refund, StripeOK, Intent
<1> QED BY <1>1, <1>2, <1>3, <1>4, <1>5

LEMMA BackStep ==
    ASSUME TInv, Next, ~Crash
    PROVE  BackFrame
<1>0. StripeOK /\ CallsOK
  BY DEF TInv, DataOK
<1>k. \A s \in Slots : call[s].at \in WithIntent => call[s].i \in Intents
  BY <1>0 DEF CallsOK, Knows
<1> USE DEF At
<1>1. ASSUME NEW s \in Slots, BookingStep(s) PROVE BackFrame
  <2>1. CASE RefundStep(s)
    <3>1. call[s].i \in Intents /\ call[s].at = "refund"
      BY <1>k, <2>1 DEF RefundStep, WithIntent, MoneyBackLabels
    <3>2. Moves(s)
      BY <1>0, <2>1, <3>1, MoverIs DEF RefundStep
    <3> QED BY <1>0, <2>1, <3>1, <3>2, IntentBack DEF RefundStep, Refunders
  <2>2. CASE \/ OrphanCancel(s) \/ RequestFail(s) \/ RequestAbort(s) \/ AcceptUndo(s)
             \/ AcceptAbort(s) \/ AcceptCapCancel(s) \/ AcceptCapture(s)
    <3>1. call[s].i \in Intents
      BY <1>k, <2>2
         DEF OrphanCancel, RequestFail, RequestAbort, AcceptUndo, AcceptAbort,
         AcceptCapCancel, AcceptCapture, WithIntent, MoneyBackLabels, ParkLabels,
         UndoLabels, ConfirmingLabels
    <3>2. CancelHold(call[s].i) \/ Capture(call[s].i)
      BY <2>2
         DEF OrphanCancel, RequestFail, RequestAbort, AcceptUndo, AcceptAbort,
         AcceptCapCancel, AcceptCapture
    <3> QED BY <1>0, <3>1, <3>2, IntentBack
  <2>3. CASE ~RefundStep(s) /\ UNCHANGED <<stripe, events>>
    BY <2>3 DEF BackFrame, AgeFrame, RefundFrame, FailFrame
  <2> QED
    BY <1>1, <2>1, <2>2, <2>3
       DEF BookingStep, OrphanRecorded, OrphanHold, RefundFails, RefundRow, RefundSession,
       RefundLive, RefundCancel, RequestConsumed, RequestProbe, RequestCreate,
       RequestRejected, RequestPark, RequestParkFails, RequestRollback, RequestDeadline,
       RequestAppend, AcceptParked, AcceptWindow, AcceptSecured, AcceptPaid,
       AcceptConsumed, AcceptProbe, AcceptActivate, AcceptActivateFails, AcceptUndoRow,
       AcceptInsert, AcceptInsertFails, AcceptNotCaptured, AcceptCapProbe, AcceptCapStuck,
       AcceptCapDelete, AcceptRestore, AcceptRowFail, AcceptBook, AcceptBookLost,
       AcceptAppend
<1>2. ASSUME NEW s \in Slots, EndingStep(s) PROVE BackFrame
  <2>1. CASE CancelRefund(s) \/ HoldProbe(s) \/ StrayRefund(s)
    <3>1. call[s].i \in Intents /\ call[s].at \in Refunders
      BY <1>k, <2>1
         DEF CancelRefund, HoldProbe, StrayRefund, WithIntent, HoldLabels, SweepLabels,
         Refunders
    <3>2. Moves(s)
      BY <1>0, <2>1, MoverIs DEF CancelRefund, HoldProbe, StrayRefund
    <3> QED
      BY <1>0, <2>1, <3>1, <3>2, IntentBack DEF CancelRefund, HoldProbe, StrayRefund, CanRefund
  <2>2. CASE CancelRelease(s) \/ HoldRelease(s) \/ SweepCancel(s) \/ StrayCancel(s)
    <3>1. call[s].i \in Intents
      BY <1>k, <2>2
         DEF CancelRelease, HoldRelease, SweepCancel, StrayCancel, WithIntent, HoldLabels,
         SweepLabels
    <3>2. CancelHold(call[s].i)
      BY <2>2 DEF CancelRelease, HoldRelease, SweepCancel, StrayCancel
    <3> QED BY <1>0, <3>1, <3>2, IntentBack
  <2>3. CASE UNCHANGED <<stripe, events>>
    BY <2>3 DEF BackFrame, AgeFrame, RefundFrame, FailFrame
  <2> QED
    BY <1>2, <2>1, <2>2, <2>3
       DEF EndingStep, CancelParked, CancelPayment, CancelReleaseFails, CancelProbe,
       CancelReleased, CancelRefundFails, CancelRow, CancelBooked, CancelRestore,
       HoldParked, HoldClear, HoldClose, HoldClaim, HoldReleaseFails, HoldReleased,
       HoldRow, HoldBooked, HoldStuck, ReleaseRead, ReleasePaid, ReleaseCancel, FailedRow,
       FailedWithheld, WithheldRow, FailedSession, FailedAgain, SucceededRecorded,
       SucceededDelivered, RecordCharge, SweepAuthorized, SweepProcessing, SweepEnrolled,
       SweepSettle, SweepReleased, SweepRefused, StrayDelivered, StrayRow
<1>3. ASSUME NEW s \in Slots, BookingCall(s) \/ EndingCall(s) PROVE BackFrame
  <2>1. UNCHANGED events /\ (UNCHANGED stripe \/ \E i \in Intents : Submitted(i))
    BY <1>3, SessionAssumption
       DEF BookingCall, EndingCall, Propose, Request, AcceptAsExpert, AcceptAsStudent, Cancel
  <2>2. UNCHANGED <<stripe, events>> => BackFrame
    BY DEF BackFrame, AgeFrame, RefundFrame, FailFrame
  <2> QED BY <1>0, <2>1, <2>2, IntentBack
<1>4. ASSUME NEW s \in Slots, NEW i \in Intents, FailedEvent(s, i) \/ SucceededEvent(s, i)
      PROVE  BackFrame
  <2>1. CASE FailedEvent(s, i)
    <3>1. /\ call'[s].i = i /\ call'[s].at \in {"failed.row", "failed.withheld"}
          /\ UNCHANGED stripe
          /\ \A e \in events : e \in events' \/ e[2] = i
      BY <1>0, <2>1 DEF FailedEvent, CallsOK, Run
    <3> QED BY <3>1 DEF BackFrame, AgeFrame, RefundFrame, FailFrame
  <2>2. CASE SucceededEvent(s, i)
    <3>1. UNCHANGED stripe /\ \A j \in Intents : <<"failed", j>> \in events => <<"failed", j>> \in events'
      BY <2>2 DEF SucceededEvent
    <3> QED BY <3>1 DEF BackFrame, AgeFrame, RefundFrame, FailFrame
  <2> QED BY <1>4, <2>1, <2>2
<1>5. ASSUME NEW s \in Slots, SweepStep(s) PROVE BackFrame
  BY <1>0, <1>5, IntentBack
     DEF SweepStep, SweepPending, SweepStray, SweepHold, BackFrame, AgeFrame, RefundFrame,
     FailFrame
<1>6. ASSUME StripeStep PROVE BackFrame
  <2>1. ASSUME NEW i \in Intents, NEW g \in Sessions \cup {NoSession}, NEW st \in Outcomes,
               Checkout(i, g, st)
        PROVE  BackFrame
    <3>1. /\ ~stripe'[i].refunded /\ ~stripe'[i].old /\ ~Live(i)
          /\ \A j \in Intents : j # i => stripe'[j] = stripe[j]
          /\ \A e \in events : e \in events'
      BY <1>0, <2>1 DEF Checkout, StripeOK, Live
    <3> QED BY <3>1 DEF BackFrame, AgeFrame, RefundFrame, FailFrame, Live
  <2>2. ASSUME NEW i \in Intents,
               DeclinedFirst(i) \/ WalletClears(i) \/ WalletFails(i) \/ HoldExpires(i)
        PROVE  BackFrame
    <3>1. CASE DeclinedFirst(i)
      BY <3>1 DEF DeclinedFirst, BackFrame, AgeFrame, RefundFrame, FailFrame
    <3>2. CASE WalletClears(i) \/ WalletFails(i)
      BY <1>0, <3>2
         DEF WalletClears, WalletFails, SetIntent, StripeOK, Intent, BackFrame, AgeFrame,
         RefundFrame, FailFrame
    <3>3. CASE HoldExpires(i)
      BY <1>0, <3>3, IntentBack DEF HoldExpires
    <3> QED BY <2>2, <3>1, <3>2, <3>3
  <2> QED BY <1>6, <2>1, <2>2 DEF StripeStep
<1>7. ASSUME Time PROVE BackFrame
  <2>1. UNCHANGED <<stripe, events>>
    BY <1>7 DEF Time, DecisionLapses, WindowLapses, SessionStarts, SweepWindow
  <2> QED BY <2>1 DEF BackFrame, AgeFrame, RefundFrame, FailFrame
<1> QED BY <1>1, <1>2, <1>3, <1>4, <1>5, <1>6, <1>7 DEF Next, Step, WebhookStep

(* What a run does next, by where it is. *)
LEMMA ReadsAt ==
    ASSUME BInv, Next, ~Crash, NEW t \in Slots, call'[t] # call[t]
    PROVE  /\ At(t, "accept.parked") => AcceptParked(t)
           /\ At(t, "accept.secured") => AcceptSecured(t)
           /\ At(t, "accept.paid") => AcceptPaid(t)
           /\ At(t, "accept.activate") => AcceptActivate(t) \/ AcceptActivateFails(t)
<1>1. CASE call[t].at \in ReadLabels
  <2>1. ReadStep(t)
    <3>1. call[t].at \in Labels /\ call[t].at \in AcceptLabels
      BY <1>1 DEF Labels, AcceptLabels
    <3> QED BY <1>1, <3>1, StepOf, GroupLabels, GroupsApart
  <2> QED
    BY <2>1
       DEF ReadStep, AcceptParked, AcceptWindow, AcceptSecured, AcceptPaid, AcceptConsumed,
       AcceptProbe, AcceptActivate, AcceptActivateFails, At
<1> QED BY <1>1 DEF ReadLabels, At

LEMMA ConfirmsAt ==
    ASSUME BInv, Next, ~Crash, NEW t \in Slots, call'[t] # call[t],
           call[t].at \in ConfirmingLabels
    PROVE  \/ AcceptInsert(t) \/ AcceptInsertFails(t) \/ AcceptAbort(t) \/ AcceptCapture(t)
           \/ AcceptNotCaptured(t) \/ AcceptCapProbe(t) \/ AcceptCapCancel(t)
           \/ AcceptCapStuck(t) \/ AcceptCapDelete(t) \/ AcceptRestore(t)
<1>1. call[t].at \in Labels /\ call[t].at \in AcceptLabels /\ call[t].at \notin ReadLabels
  BY DEF Labels, AcceptLabels, ConfirmingLabels, ReadLabels
<1>2. ConfirmStep(t)
  BY <1>1, StepOf, GroupLabels, GroupsApart
<1> QED
  BY <1>2
     DEF ConfirmStep, AcceptUndo, AcceptUndoRow, AcceptRowFail, AcceptBook, AcceptBookLost,
     AcceptAppend, At, ConfirmingLabels

LEMMA CancelsAt ==
    ASSUME BInv, Next, ~Crash, NEW t \in Slots, call'[t] # call[t],
           call[t].at \in CancellingLabels
    PROVE  /\ \/ CancelParked(t) \/ CancelPayment(t) \/ CancelRelease(t)
              \/ CancelReleaseFails(t) \/ CancelProbe(t) \/ CancelRefund(t)
              \/ CancelRefundFails(t) \/ CancelRestore(t)
           /\ At(t, "cancel.payment") => CancelPayment(t)
           /\ At(t, "cancel.probe") => CancelProbe(t)
<1>1. call[t].at \in Labels
  BY DEF Labels
<1>2. CancelStep(t)
  BY <1>1, StepOf, GroupLabels, GroupsApart DEF AcceptLabels
<1> QED
  BY <1>2
     DEF CancelStep, CancelParked, CancelPayment, CancelRelease, CancelReleaseFails,
     CancelProbe, CancelRefund, CancelRefundFails, CancelRestore, CancelReleased, CancelRow,
     CancelBooked, At, CancellingLabels

(* The run of a failed event, until it has released the session.           *)
TellLabels == FailedLabels \cup EndLabels
LEMMA TellsAt ==
    ASSUME BInv, Next, ~Crash, NEW t \in Slots, call'[t] # call[t],
           call[t].at \in TellLabels
    PROVE  /\ \/ FailedRow(t) \/ FailedWithheld(t) \/ WithheldRow(t) \/ FailedSession(t)
              \/ FailedAgain(t) \/ ReleaseRead(t) \/ ReleasePaid(t) \/ ReleaseCancel(t)
<1>1. call[t].at \in Labels /\ call[t].at \in EventLabels
  BY DEF Labels, TellLabels, FailedLabels, EndLabels, ReleaseLabels, EventLabels
<1>2. EventStep(t)
  BY <1>1, StepOf, GroupLabels, GroupsApart DEF AcceptLabels
<1> QED
  BY <1>2
     DEF EventStep, SucceededRecorded, SucceededDelivered, RecordCharge, At, TellLabels,
     FailedLabels, EndLabels, ReleaseLabels

(* Where a run starts.                                                     *)
LEMMA StartsAt ==
    ASSUME CallsOK, NEW t \in Slots, call[t].at = "idle"
    PROVE  /\ Propose(t) => call'[t] = call[t]
           /\ \A i \in Intents \cup {NoIntent} : Request(t, i) =>
                 /\ call'[t].at \in {"request.create", "request.consumed"}
                 /\ call'[t].i = i
           /\ \A g \in Sessions : AcceptAsExpert(t, g) =>
                 call'[t].at = "accept.parked" /\ call'[t].g = g
           /\ \A g \in Sessions : \A i \in Intents \cup {NoIntent} : AcceptAsStudent(t, g, i) =>
                 \/ call'[t].at = "idle"
                 \/ /\ call'[t].at \in {"accept.paid", "orphan.recorded"}
                    /\ call'[t].g = g /\ call'[t].i = i
           /\ \A g \in Sessions : \A who \in {"student", "expert"} : Cancel(t, g, who) =>
                 call'[t].at = "cancel.parked" /\ ~call'[t].row
           /\ \A i \in Intents :
                 /\ FailedEvent(t, i) =>
                       call'[t].at \in {"failed.row", "failed.withheld"} /\ call'[t].i = i
                 /\ SucceededEvent(t, i) => call'[t].at \in {"idle", "succeeded.recorded"}
                 /\ SweepPending(t, i) =>
                       call'[t].at \in {"sweep.enrolled", "sweep.authorized"}
                 /\ SweepStray(t, i) =>
                       call'[t].at \in {"stray.cancel", "stray.delivered"} /\ call'[t].i = i
           /\ \A g \in Sessions : SweepHold(t, g) => call'[t].at = "hold.parked"
<1> DEFINE d == call'[t]
<1>0. call[t] = Idle /\ call \in [Slots -> Run(Labels)]
  BY FreeSlot DEF At, CallsOK
<1>g. Finish(t) => d.at = "idle"
  BY Goes DEF Idle
<1>1. Propose(t) => d = call[t]
  BY DEF Propose
<1>2. ASSUME NEW i \in Intents \cup {NoIntent}, Request(t, i)
      PROVE  d.at \in {"request.create", "request.consumed"} /\ d.i = i
  BY <1>0, <1>2, SessionAssumption DEF Request, Idle
<1>3. ASSUME NEW g \in Sessions, AcceptAsExpert(t, g) PROVE d.at = "accept.parked" /\ d.g = g
  BY <1>0, <1>3 DEF AcceptAsExpert, Idle
<1>4. ASSUME NEW g \in Sessions, NEW i \in Intents \cup {NoIntent}, AcceptAsStudent(t, g, i)
      PROVE  \/ d.at = "idle"
             \/ d.at \in {"accept.paid", "orphan.recorded"} /\ d.g = g /\ d.i = i
  <2>1. CASE session[g].st = "pending"
    BY <1>0, <1>4, <2>1 DEF AcceptAsStudent, Idle
  <2>2. CASE session[g].st # "pending"
    BY <1>0, <1>g, <1>4, <2>2 DEF AcceptAsStudent, Orphaned, Idle
  <2> QED BY <2>1, <2>2
<1>5. ASSUME NEW g \in Sessions, NEW who \in {"student", "expert"}, Cancel(t, g, who)
      PROVE  d.at = "cancel.parked" /\ ~d.row
  <2>1. d = [Idle EXCEPT !.at = "cancel.parked", !.g = g, !.who = who]
    BY <1>0, <1>5 DEF Cancel
  <2>2. d.at = "cancel.parked" /\ d.row = FALSE
    BY <2>1 DEF Idle
  <2> QED BY <2>2
<1>6. ASSUME NEW i \in Intents, FailedEvent(t, i)
      PROVE  d.at \in {"failed.row", "failed.withheld"} /\ d.i = i
  BY <1>0, <1>6 DEF FailedEvent, Idle
<1>7. ASSUME NEW i \in Intents, SucceededEvent(t, i)
      PROVE  d.at \in {"idle", "succeeded.recorded"}
  BY <1>0, <1>7 DEF SucceededEvent, Idle
<1>8. ASSUME NEW i \in Intents, SweepPending(t, i)
      PROVE  d.at \in {"sweep.enrolled", "sweep.authorized"}
  BY <1>0, <1>8 DEF SweepPending, Idle
<1>9. ASSUME NEW i \in Intents, SweepStray(t, i)
      PROVE  d.at \in {"stray.cancel", "stray.delivered"} /\ d.i = i
  BY <1>0, <1>9 DEF SweepStray, Idle
<1>10. ASSUME NEW g \in Sessions, SweepHold(t, g) PROVE d.at = "hold.parked"
  BY <1>0, <1>10 DEF SweepHold, Idle
<1> QED BY <1>1, <1>2, <1>3, <1>4, <1>5, <1>6, <1>7, <1>8, <1>9, <1>10

(* Who starts to return a payment, who looks at a stray one, who cancels.  *)
LEMMA ReturnsCome ==
    ASSUME BInv, Next, ~Crash, NEW t \in Slots, call'[t] # call[t]
    PROVE  /\ call'[t].at \in MoneyBackLabels =>
                 \/ MoneyBackStep(t) \/ RequestRejected(t)
                 \/ AcceptPaid(t) \/ AcceptActivate(t) \/ AcceptActivateFails(t)
                 \/ \E g \in Sessions, i \in Intents \cup {NoIntent} : AcceptAsStudent(t, g, i)
           /\ call'[t].at = "stray.delivered" => \E i \in Intents : SweepStray(t, i)
           /\ call'[t].at = "stray.refund" => StrayDelivered(t)
           /\ call'[t].at \in CancellingLabels =>
                 \/ call[t].at \in CancellingLabels
                 \/ call'[t].at = "cancel.parked" /\ ~call'[t].row
<1> DEFINE d == call'[t]
           Special == d.at \in MoneyBackLabels \cup CancellingLabels
                              \cup {"stray.delivered", "stray.refund"}
<1>0. CallsOK
  BY DEF BInv, TInv
<1>g. /\ \A l : Goto(t, l) => d.at = l
      /\ Finish(t) => d.at = "idle"
      /\ Released(t) => d.at \in {"idle", "failed.withheld"}
  BY <1>0, Goes DEF Idle, Released, CallsOK, Knows, Run
<1> USE DEF MoneyBackLabels, CancellingLabels, CancelledLabels
<1>1. RequestStep(t) /\ Special => RequestRejected(t)
  <2>1. RequestProbe(t) => d.at \in {"idle", "request.create"}
    BY <1>0, <1>g DEF RequestProbe, CallsOK, Run
  <2>3. RequestCreate(t) => d.at \in {"idle", "request.park", "request.append"}
    <3>1. ASSUME NEW g, NEW l, call' = [call EXCEPT ![t].at = l, ![t].g = g]
          PROVE  d.at = l
      BY <1>0, <3>1 DEF CallsOK, Run
    <3>2. RequestCreate(t) =>
              \/ Finish(t)
              \/ \E g \in Sessions, l \in {"request.park", "request.append"} :
                    call' = [call EXCEPT ![t].at = l, ![t].g = g]
      <4>1. CASE call[t].pays = "none"
        BY <4>1 DEF RequestCreate
      <4>2. CASE call[t].pays = "held"
        BY <4>2 DEF RequestCreate
      <4>3. CASE call[t].pays \notin {"none", "held"}
        BY <4>3 DEF RequestCreate
      <4> QED BY <4>1, <4>2, <4>3
    <3> QED BY <1>g, <3>1, <3>2
  <2>2. RequestConsumed(t) \/ RequestFail(t) \/ RequestPark(t) \/ RequestParkFails(t)
        \/ RequestAbort(t) \/ RequestRollback(t) \/ RequestDeadline(t) \/ RequestAppend(t)
        => ~Special
    BY <1>g
       DEF RequestConsumed, RequestFail, RequestPark, RequestParkFails, RequestAbort,
       RequestRollback, RequestDeadline, RequestAppend
  <2> QED BY <2>1, <2>2, <2>3 DEF RequestStep
<1>2. ReadStep(t) /\ Special =>
          AcceptPaid(t) \/ AcceptActivate(t) \/ AcceptActivateFails(t)
  <2>1. AcceptProbe(t) => d.at \in {"idle", "accept.activate"}
    BY <1>0, <1>g DEF AcceptProbe, CallsOK, Run
  <2>3. AcceptParked(t) => ~Special
    <3>1. ASSUME NEW i, call' = [call EXCEPT ![t].at = "accept.activate", ![t].i = i,
                                             ![t].pays = "held", ![t].row = TRUE]
          PROVE  d.at = "accept.activate"
      BY <1>0, <3>1 DEF CallsOK, Run
    <3> QED BY <1>g, <3>1 DEF AcceptParked
  <2>2. AcceptWindow(t) \/ AcceptSecured(t) \/ AcceptConsumed(t) => ~Special
    BY <1>g DEF AcceptWindow, AcceptSecured, AcceptConsumed
  <2> QED BY <2>1, <2>2, <2>3 DEF ReadStep
<1>3. ConfirmStep(t) => ~Special
  BY <1>0, <1>g
     DEF ConfirmStep, AcceptUndo, AcceptUndoRow, AcceptInsert, AcceptInsertFails,
     AcceptAbort, AcceptCapture, AcceptNotCaptured, AcceptCapProbe, AcceptCapCancel,
     AcceptCapStuck, AcceptCapDelete, AcceptRestore, AcceptRowFail, AcceptBook,
     AcceptBookLost, AcceptAppend
<1>4. CancelStep(t) /\ Special =>
          call[t].at \in CancellingLabels /\ d.at \in CancellingLabels
  <2>1. CancelParked(t) => At(t, "cancel.parked") /\ d.at = "cancel.payment"
    <3>1. ASSUME NEW i, call' = [call EXCEPT ![t].at = "cancel.payment", ![t].i = i,
                                             ![t].row = TRUE]
          PROVE  d.at = "cancel.payment"
      BY <1>0, <3>1 DEF CallsOK, Run
    <3> QED BY <1>g, <3>1 DEF CancelParked
  <2>2. CancelPayment(t) =>
            /\ At(t, "cancel.payment")
            /\ d.at \in {"idle", "cancel.restore", "cancel.release", "cancel.refund"}
    <3>1. ASSUME NEW j, call' = [call EXCEPT ![t].at = "cancel.refund", ![t].i = j]
          PROVE  d.at = "cancel.refund"
      BY <1>0, <3>1 DEF CallsOK, Run
    <3> QED BY <1>g, <3>1 DEF CancelPayment
  <2>3. \/ CancelRelease(t) \/ CancelReleaseFails(t) \/ CancelProbe(t) \/ CancelRefund(t)
        \/ CancelRefundFails(t)
        => /\ call[t].at \in CancellingLabels
           /\ Special => d.at \in CancellingLabels
    BY <1>g
       DEF CancelRelease, CancelReleaseFails, CancelProbe, CancelRefund, CancelRefundFails, At
  <2>4. CancelReleased(t) \/ CancelRow(t) \/ CancelBooked(t) \/ CancelRestore(t) => ~Special
    BY <1>g DEF CancelReleased, CancelRow, CancelBooked, CancelRestore
  <2> QED BY <2>1, <2>2, <2>3, <2>4 DEF CancelStep, At
<1>5. HoldStep(t) => ~Special
  BY <1>0, <1>g
     DEF HoldStep, HoldParked, HoldClear, HoldClose, HoldClaim, HoldRelease,
     HoldReleaseFails, HoldProbe, HoldReleased, HoldRow, HoldBooked, HoldStuck, CallsOK, Run
<1>6. EventStep(t) => ~Special
  BY <1>0, <1>g
     DEF EventStep, ReleaseRead, ReleasePaid, ReleaseCancel, FailedRow, FailedWithheld,
     WithheldRow, FailedSession, FailedAgain, SucceededRecorded, SucceededDelivered,
     RecordCharge, Release, CallsOK, Run
<1>7. SettleStep(t) /\ Special => d.at = "stray.refund" /\ StrayDelivered(t)
  BY <1>0, <1>g
     DEF SettleStep, SweepAuthorized, SweepProcessing, SweepEnrolled, SweepSettle,
     SweepCancel, SweepReleased, SweepRefused, StrayCancel, StrayDelivered, StrayRefund,
     StrayRow, Release, CallsOK, Run
<1>8. MoneyBackStep(t) /\ Special => d.at \in MoneyBackLabels
  BY <1>g
     DEF MoneyBackStep, OrphanRecorded, OrphanHold, OrphanCancel, RefundStep, RefundFails,
     RefundRow, RefundSession, RefundLive, RefundCancel
<1>9. ASSUME Starts(t), Special
      PROVE  \/ /\ d.at \in MoneyBackLabels
                /\ \E g \in Sessions, i \in Intents \cup {NoIntent} : AcceptAsStudent(t, g, i)
             \/ d.at = "stray.delivered" /\ \E i \in Intents : SweepStray(t, i)
             \/ d.at = "cancel.parked" /\ ~d.row
  BY <1>0, <1>9, GroupLabels, StartsAt
     DEF Starts, BookingCall, EndingCall, WebhookStep, SweepStep
<1>a. RequestRejected(t) \/ AcceptPaid(t) \/ AcceptActivate(t) \/ AcceptActivateFails(t) =>
          d.at \notin CancellingLabels \cup {"stray.delivered", "stray.refund"}
  BY <1>0, <1>g
     DEF RequestRejected, AcceptPaid, AcceptActivate, AcceptActivateFails, Orphaned, CallsOK,
     Run
<1> QED BY <1>1, <1>2, <1>3, <1>4, <1>5, <1>6, <1>7, <1>8, <1>9, <1>a, StepOf

-----------------------------------------------------------------------------
(* What is confirmed is paid.  Where an expert may accept a request that   *)
(* is not complete, the sweep may refund an intent that is submitted late, *)
(* or a hold may be asked for twice and refused in between, it need not be. *)
PaymentsBack ==
    /\ PaymentsHold
    /\ "early accept" \notin Calls
    /\ "late" \in Calls => "settle" \notin Calls
    /\ "resubmit" \in Calls => "database" \notin Faults
Plain == Advertised /\ "crash" \notin Faults

(* A student who asks for the session of an intent; nobody does any more,  *)
(* and the session is not confirmed.                                       *)
Asking == {"accept.paid", "accept.consumed", "accept.probe", "accept.activate"}
Asks(t, i) == Student(t) /\ call[t].at \in Asking /\ call[t].i = i
Unasked(i) == (stripe[i].sent \/ stripe[i].old) /\ \A t \in Slots : ~Asks(t, i)
Over(i) == Unasked(i) /\ ~Active(stripe[i].g)

(* The session of a wallet payment that failed is, or is about to be,      *)
(* confirmed; an event, or the run it started, is about to end it.         *)
Wanted(i) ==
    \/ Active(stripe[i].g)
    \/ \E t \in Slots : /\ Asks(t, i) /\ At(t, "accept.activate")
                        /\ session[call[t].g].st = "pending"
Tells(c, i) ==
    /\ c.i = i
    /\ \/ Failing(c) \/ c.at \in {"failed.session", "failed.again"}
       \/ c.at \in ReleaseLabels /\ c.g = stripe[i].g
Told(i) == <<"failed", i>> \in events \/ \E s \in Slots : Tells(call[s], i)

ReturnRule(i) ==
    /\ stripe[i].g = NoSession =>
          /\ ~stripe[i].refunded
          /\ stripe[i].st = "succeeded" => Active(ledger[i].g)
          /\ "resubmit" \notin Calls /\ ~stripe[i].sent => ledger[i].g = NoSession
    /\ stripe[i].refunded => Over(i)
    /\ Active(stripe[i].g) => stripe[i].sent
    /\ stripe[i].old => "settle" \in Calls
    /\ stripe[i].st = "failed" /\ Wanted(i) => Told(i)

(* A request submits its intent, has it to itself and books it first.      *)
SendingLabels == {"request.consumed", "request.probe", "request.create"}
Sends(c) == c.at \in SendingLabels \cup BookLabels /\ c.i \in Intents
Sending(s) ==
    "resubmit" \notin Calls /\ Sends(call[s]) =>
        /\ stripe[call[s].i].sent
        /\ \A t \in Slots : Sends(call[t]) /\ call[t].i = call[s].i => t = s
        /\ call[s].at \in SendingLabels => ledger[call[s].i].g = NoSession

(* Money goes back only for a session that is over.                        *)
StrayLabels == {"stray.delivered", "stray.refund"}
ReturnsTo(c) == stripe[c.i].g = c.g /\ c.g # NoSession /\ Over(c.i)
Returning(s) ==
    LET c == call[s] IN
    /\ c.at \in MoneyBackLabels => ReturnsTo(c)
    /\ c.at \in StrayLabels => stripe[c.i].g # NoSession /\ Unasked(c.i)
    /\ c.at = "stray.refund" => Over(c.i)

(* Who cancels a session with money on the books leaves it to its student. *)
Contested == {"cancel.release", "cancel.probe", "cancel.refund", "cancel.restore"}
Yielding(s) ==
    LET c == call[s] IN
    /\ c.at \in CancellingLabels /\ c.row =>
          stripe[c.i].g = NoSession /\ ledger[c.i].g = c.g
    /\ c.at = "cancel.refund" => stripe[c.i].refunded
    /\ c.at \in Contested =>
          \A t \in Slots : Student(t) /\ call[t].at \in Asking => call[t].g # c.g

(* Who confirms a session has a payment for it.                            *)
Finding(s) ==
    LET c == call[s] IN
    /\ Expert(s) /\ c.at \in {"accept.parked", "accept.secured"} =>
          \A t \in Slots : At(t, "request.park") => call[t].g # c.g
    /\ Expert(s) /\ c.at = "accept.secured" => Parked(c.g) = {}
    /\ Expert(s) /\ c.at = "accept.activate" /\ ~c.row => Shut(c.g)
    /\ Student(s) /\ c.at = "accept.activate" => c.pays # "none"
PaysFor(i, g) ==
    \/ stripe[i].g = g /\ stripe[i].st \in {"processing", "succeeded", "failed"}
    \/ stripe[i].g = NoSession /\ ledger[i].g = g /\ stripe[i].st = "succeeded"
BackRule(g) ==
    Active(g) => \/ \E s \in Slots : call[s].at \in ConfirmingLabels /\ call[s].g = g
                 \/ \E i \in Intents : PaysFor(i, g)

MInv ==
    /\ LInv /\ PaymentsBack /\ Plain
    /\ \A i \in Intents : ReturnRule(i)
    /\ \A g \in Sessions : BackRule(g)
    /\ \A s \in Slots : Sending(s) /\ Returning(s) /\ Yielding(s) /\ Finding(s)

-----------------------------------------------------------------------------
(* A step from a state that has all of this.                               *)
Stepping(s, G) == MInv /\ Going(s, G) /\ BackFrame /\ Next /\ ~Crash

LEMMA SteppingFacts ==
    ASSUME NEW s, NEW G, Stepping(s, G)
    PROVE  /\ LInv /\ KInv /\ JInv /\ BInv /\ TInv /\ Going(s, G) /\ Frame(s, G)
           /\ CallsOK /\ Known /\ Real /\ PayRule /\ Charged /\ Advertised
           /\ NoSession \notin Sessions /\ NoIntent \notin Intents
           /\ Calls' = Calls /\ Faults' = Faults /\ Charged'
           /\ Next /\ ~Crash /\ BackFrame
           /\ \A i \in Intents : ReturnRule(i) /\ IntentRule(i) /\ BookRule(i) /\ BuysRule(i)
           /\ \A t \in Slots : /\ Sending(t) /\ Returning(t) /\ Yielding(t) /\ Finding(t)
                               /\ Knows2(t) /\ Unconfirmed(t) /\ Claiming(t)
           /\ \A i \in Intents : Recorded(i) => Live(i)
           /\ \A t \in Slots : call[t].i \in Intents => Live(call[t].i)
           /\ "twice" \notin Calls
           /\ "pay" \in Calls => {"again", "resubmit"} \cap Calls = {}
<1>1. LInv /\ Plain /\ Going(s, G) /\ MInv
  BY DEF Stepping, MInv
<1>2. Charged
  BY <1>1 DEF Plain, Advertised, Charged
<1> QED
  BY <1>1, <1>2, GoingFacts, SessionAssumption
     DEF Stepping, MInv, Plain, LInv, KInv, JInv, BInv, Runs, RunRule, Claims, Known, Going,
     OnePayment

(* A student who comes to ask, an expert who comes to accept, a request.   *)
LEMMA CallersCome ==
    ASSUME NEW s, NEW G, Stepping(s, G), NEW t \in Slots, call'[t] # call[t]
    PROVE  /\ call'[t].at = "accept.paid" =>
                 \E g \in Sessions, i \in Intents :
                     /\ AcceptAsStudent(t, g, i) /\ session[g].st = "pending"
                     /\ call'[t].g = g /\ call'[t].i = i
           /\ call'[t].at = "accept.parked" => AcceptAsExpert(t, call'[t].g)
           /\ call'[t].at = "request.consumed" /\ call'[t].i \in Intents =>
                 Request(t, call'[t].i)
<1> DEFINE d == call'[t]
<1> USE SteppingFacts
<1>1. d.at \in {"accept.paid", "accept.parked", "request.consumed"} => At(t, "idle")
  <2>1. d.at \in {"accept.paid", "accept.parked"} => AcceptMoves(t)
    BY GoingRuns DEF AcceptLabels, ReadLabels
  <2>2. d.at = "request.consumed" => RequestMoves(t)
    BY GoingRuns DEF RequestLabels
  <2>3. d.at \in {"accept.paid", "accept.parked"} /\ AcceptMoves(t) => At(t, "idle")
    BY DEF AcceptMoves, ExpertStarts, StudentStarts, Fresh, FindsHold, FindsPayment, GivesUp,
       Reads, Takes, Settles
  <2>4. d.at = "request.consumed" /\ RequestMoves(t) => At(t, "idle")
    BY DEF RequestMoves, Requests, Probes, Creates, Parks
  <2> QED BY <2>1, <2>2, <2>3, <2>4
<1>2. SUFFICES ASSUME At(t, "idle"),
                      d.at \in {"accept.paid", "accept.parked", "request.consumed"}
               PROVE  /\ d.at = "accept.paid" =>
                            \E g \in Sessions, i \in Intents :
                                /\ AcceptAsStudent(t, g, i) /\ session[g].st = "pending"
                                /\ d.g = g /\ d.i = i
                      /\ d.at = "accept.parked" => AcceptAsExpert(t, d.g)
                      /\ d.at = "request.consumed" /\ d.i \in Intents => Request(t, d.i)
  BY <1>1
<1>3. Starts(t)
  <2>1. "idle" \in Labels /\ call[t].at = "idle"
    BY <1>2 DEF Labels, At
  <2>2. /\ "idle" \notin MoneyBackLabels \cup RequestLabels \cup AcceptLabels
        /\ "idle" \notin CancellingLabels \cup CancelledLabels \cup HoldLabels
        /\ "idle" \notin EventLabels \cup SweepLabels
        /\ ReadLabels \subseteq AcceptLabels
        /\ UndoLabels \cup ConfirmingLabels \cup ConfirmedLabels \subseteq AcceptLabels
    BY <2>1, GroupsApart DEF AcceptLabels
  <2> QED BY <2>1, <2>2, GroupLabels, StepOf
<1>4. BookingCall(t)
  <2>1. ~EndingCall(t) /\ ~WebhookStep(t) /\ ~SweepStep(t)
    BY <1>2, StartsAt DEF At, EndingCall, WebhookStep, SweepStep
  <2> QED BY <1>3, <2>1 DEF Starts
<1>5. ~Propose(t)
  BY <1>2, StartsAt DEF At
<1>6. ASSUME NEW g \in Sessions, NEW i \in Intents \cup {NoIntent}, AcceptAsStudent(t, g, i),
             d.at = "accept.paid"
      PROVE  i \in Intents /\ session[g].st = "pending" /\ d.g = g /\ d.i = i
  <2>1. d.g = g /\ d.i = i
    BY <1>2, <1>6, StartsAt DEF At
  <2>2. i \in Intents
    BY <1>6 DEF AcceptAsStudent
  <2>3. session[g].st # "pending" => d.at = "orphan.recorded"
    BY <1>6, <2>2 DEF AcceptAsStudent, Orphaned, CallsOK, Run
  <2> QED BY <1>6, <2>1, <2>2, <2>3
<1> QED
  BY <1>2, <1>4, <1>5, <1>6, StartsAt DEF At, BookingCall

(* Who asks has asked before, or comes to an open session.                 *)
LEMMA AskersCome ==
    ASSUME NEW s, NEW G, Stepping(s, G), NEW i \in Intents, NEW t \in Slots, Asks(t, i)'
    PROVE  \/ Asks(t, i) /\ call'[t].g = call[t].g
           \/ /\ t = s /\ call'[t].at = "accept.paid" /\ "pay" \in Calls
              /\ AcceptAsStudent(t, call'[t].g, i)
              /\ call'[t].g \in Sessions /\ session[call'[t].g].st = "pending"
<1> USE SteppingFacts
<1>1. CASE call'[t] = call[t]
  BY <1>1 DEF Asks, Student
<1>2. CASE call'[t] # call[t]
  <2>1. t = s /\ AcceptMoves(t) /\ Student(t)' /\ call'[t].i = i
    BY <1>2, GoingRuns DEF Asks, Student
  <2>2. call'[t].at \in BeforeCapture \ {"accept.insert"}
    BY DEF Asks, Asking, BeforeCapture
  <2>3. CASE StudentStarts(t)
    <3>1. call'[t].at = "accept.paid"
      BY <2>3 DEF StudentStarts, Fresh
    <3>2. PICK g \in Sessions, j \in Intents :
              /\ AcceptAsStudent(t, g, j) /\ session[g].st = "pending"
              /\ call'[t].g = g /\ call'[t].i = j
      BY <1>2, <3>1, CallersCome
    <3>3. "pay" \in Calls
      BY <3>2 DEF AcceptAsStudent, Calling
    <3> QED BY <2>1, <3>1, <3>2, <3>3
  <2>4. CASE ~StudentStarts(t)
    <3>1. Student(t) /\ call'[t].i = call[t].i /\ call[t].at \in BeforeCapture \ {"accept.insert"}
      BY <2>1, <2>2, <2>4, StudentCame
    <3>2. call'[t].g = call[t].g
      BY <2>1, <2>4, StudentsCome
    <3> QED BY <2>1, <3>1, <3>2 DEF Asks, Asking, BeforeCapture
  <2> QED BY <2>3, <2>4
<1> QED BY <1>1, <1>2
(* Who confirms a session has its hold or its payment.                     *)
ConfirmsPaid(s, g) ==
    LET c == call[s] IN
    \/ /\ Student(s) /\ c.i \in Intents /\ stripe[c.i].g = g /\ stripe[c.i].sent
       /\ "pay" \in Calls /\ Asks(s, c.i)
       /\ \/ call'[s].at = "accept.insert"
          \/ c.pays \in {"settled", "settling"}
    \/ /\ Expert(s) /\ c.row /\ c.i \in Intents
       /\ stripe[c.i].g = NoSession /\ ledger[c.i].g = g
       /\ call'[s].at = "accept.collect"

LEMMA WhoActivates ==
    ASSUME NEW s, NEW G, Stepping(s, G), NEW g \in Sessions,
           session'[g].st = "active", session[g].st # "active"
    PROVE  /\ s \in Slots /\ At(s, "accept.activate") /\ call[s].g = g
           /\ call'[s].g = g /\ UNCHANGED <<ledger, stripe, events>>
           /\ session[g].st = "pending"
           /\ ConfirmsPaid(s, g)
<1> USE SteppingFacts
<1>1. s \in Slots /\ At(s, "accept.activate") /\ call[s].g = g /\ Moves(s)
  BY NewlyActive
<1>2. AcceptActivate(s)
  BY <1>1, ReadsAt DEF Moves, AcceptActivateFails
<1>3. session[g].st = "pending" /\ UNCHANGED <<ledger, stripe, events>>
  BY <1>1, <1>2 DEF AcceptActivate
<1>4. /\ call[s].pays = "none" => call'[s].at = "idle"
      /\ call[s].pays = "held" =>
             call'[s].at = IF call[s].row THEN "accept.collect" ELSE "accept.insert"
      /\ call[s].pays \notin {"none", "held"} => call'[s].at = "accept.append"
      /\ call[s].pays # "none" => call'[s].g = g
  BY <1>1, <1>2, <1>3, Goes DEF AcceptActivate, Idle, Keeps
<1>5. /\ call[s].at \in AcceptLabels
      /\ call[s].pays \in {"none", "held", "settling", "settled"}
  BY <1>1 DEF At, AcceptLabels, ReadLabels, CallsOK, Run
<1>6. CASE Expert(s)
  <2>1. /\ ExpertKnows(s) /\ ExpertHolds(s)
    BY <1>1, <1>6, Actors
  <2>2. call[s].row = TRUE
    <3>1. ~call[s].row => Shut(g)
      BY <1>1, <1>6 DEF Finding, At
    <3>2. call[s].row \in BOOLEAN
      BY <1>1 DEF CallsOK, Run
    <3> QED BY <1>3, <3>1, <3>2 DEF Shut
  <2>3. call[s].pays = "held"
    BY <1>1, <2>1, <2>2 DEF ExpertKnows, At
  <2>4. call[s].i \in Intents
    BY <1>1, <2>3, KnowsOK
  <2> QED BY <1>1, <1>2, <1>3, <1>4, <1>6, <2>1, <2>2, <2>3, <2>4
          DEF ConfirmsPaid, ExpertHolds
<1>7. CASE Student(s)
  <2>1. StudentKnows(s) /\ StudentHolds(s)
    BY <1>1, <1>7, Actors
  <2>2. call[s].pays # "none"
    BY <1>1, <1>7 DEF Finding, At
  <2>3. call[s].i \in Intents /\ stripe[call[s].i].g = g /\ stripe[call[s].i].sent
    BY <1>1, <2>1 DEF StudentHolds
  <2>4. "pay" \in Calls /\ call[s].row = FALSE
    <3>1. call[s].row \in BOOLEAN
      BY <1>1 DEF CallsOK, Run
    <3> QED BY <2>1, <3>1 DEF StudentKnows
  <2>5. Asks(s, call[s].i)
    BY <1>1, <1>7 DEF Asks, Asking, At
  <2> QED BY <1>1, <1>2, <1>3, <1>4, <1>5, <1>7, <2>2, <2>3, <2>4, <2>5 DEF ConfirmsPaid
<1> QED BY <1>1, <1>5, <1>6, <1>7, Actors

(* The session an intent names is confirmed by the student who asks for it. *)
LEMMA ActivatedByStudent ==
    ASSUME NEW s, NEW G, Stepping(s, G), NEW i \in Intents, Live(i),
           Active(stripe[i].g)', stripe'[i].g = stripe[i].g, ~Active(stripe[i].g)
    PROVE  /\ s \in Slots /\ Asks(s, i) /\ At(s, "accept.activate")
           /\ session[stripe[i].g].st = "pending" /\ call[s].g = stripe[i].g
           /\ stripe[i].sent
<1> USE SteppingFacts
<1> DEFINE g == stripe[i].g
<1>1. g \in Sessions /\ session'[g].st = "active" /\ session[g].st # "active"
  BY DEF Active
<1>2. /\ s \in Slots /\ At(s, "accept.activate") /\ call[s].g = g
      /\ session[g].st = "pending" /\ ConfirmsPaid(s, g)
  BY <1>1, WhoActivates
<1>3. "pay" \in Calls
  BY <1>1 DEF PayRule
<1>4. call[s].i = i
  BY <1>2, <1>3 DEF PayRule, ConfirmsPaid
<1> QED BY <1>1, <1>2, <1>4 DEF ConfirmsPaid

(* Once nobody asks for an intent any more, nobody does.                   *)
LEMMA UnaskedStays ==
    ASSUME NEW s, NEW G, Stepping(s, G), NEW i \in Intents, Live(i), Unasked(i)
    PROVE  Unasked(i)'
<1> USE SteppingFacts
<1>1. stripe'[i].sent \/ stripe'[i].old
  BY IntentStays DEF Unasked, BackFrame, AgeFrame
<1>2. ASSUME NEW t \in Slots, Asks(t, i)' PROVE FALSE
  <2>1. ~Asks(t, i)
    BY DEF Unasked
  <2>2. AcceptAsStudent(t, call'[t].g, i) /\ "pay" \in Calls
    BY <1>2, <2>1, AskersCome
  <2>3. Submittable(i)
    BY <2>2 DEF AcceptAsStudent
  <2>4. stripe[i].old => "settle" \in Calls /\ "late" \in Calls
    BY <2>3 DEF Submittable, ReturnRule
  <2>5. ~stripe[i].sent
    BY <2>2, <2>3 DEF Submittable
  <2> QED BY <2>4, <2>5 DEF Unasked, Stepping, MInv, PaymentsBack
<1> QED BY <1>1, <1>2 DEF Unasked

LEMMA OverStays ==
    ASSUME NEW s, NEW G, Stepping(s, G), NEW i \in Intents, Live(i), Over(i)
    PROVE  Over(i)'
<1> USE SteppingFacts
<1>1. Unasked(i)'
  BY UnaskedStays DEF Over
<1>2. stripe'[i].g = stripe[i].g
  BY IntentStays
<1>3. ~Active(stripe[i].g)'
  BY <1>2, ActivatedByStudent DEF Over, Unasked
<1> QED BY <1>1, <1>3 DEF Over

-----------------------------------------------------------------------------
(* A failure is told until the session has ended.                          *)
LEMMA TellsOn ==
    ASSUME NEW s, NEW G, Stepping(s, G), NEW i \in Intents, Live(i),
           stripe[i].st = "failed", stripe[i].g # NoSession,
           NEW t \in Slots, Tells(call[t], i)
    PROVE  Tells(call[t], i)' \/ session'[stripe[i].g].st \notin {"pending", "active"}
<1> USE SteppingFacts
<1> DEFINE c == call[t]
           d == call'[t]
<1>1. stripe'[i].g = stripe[i].g
  BY IntentStays
<1>2. CASE d = c
  BY <1>1, <1>2 DEF Tells, Failing
<1>3. CASE d # c
  <2>1. c.i = i /\ c.at \in TellLabels /\ c.ret \in {"idle", "failed.withheld"}
    BY DEF Tells, Failing, TellLabels, EndLabels, CallsOK, Knows
  <2>2. /\ \A l : Goto(t, l) => d.at = l /\ d.i = c.i /\ d.g = c.g /\ d.ret = c.ret
        /\ Released(t) /\ c.ret # "idle" => d.at = "failed.withheld" /\ d.i = c.i
        /\ Release(t, i, "failed.withheld") =>
               d.at = "release.read" /\ d.i = i /\ d.ret = "failed.withheld"
    BY <2>1 DEF Goto, Released, Release, CallsOK, Run
  <2>3. CASE FailedRow(t)
    BY <2>1, <2>2, <2>3 DEF FailedRow, Tells, Failing, ReleaseLabels
  <2>4. CASE FailedWithheld(t)
    <3>1. ASSUME NEW g, NEW l, call' = [call EXCEPT ![t].g = g, ![t].at = l]
          PROVE  d.at = l /\ d.i = c.i
      BY <3>1 DEF CallsOK, Run
    <3>2. d.i = c.i /\ d.at \in {"withheld.release", "withheld.fail", "failed.again"}
      <4>1. CASE ledger[c.i].charge = "withheld"
        BY <2>4, <3>1, <4>1, ZenonT(40) DEF FailedWithheld
      <4>2. CASE ledger[c.i].charge # "withheld"
        BY <2>4, <2>2, <4>2 DEF FailedWithheld
      <4> QED BY <4>1, <4>2
    <3> QED BY <2>1, <3>2 DEF Tells, Failing, FailedLabels
  <2>5. CASE WithheldRow(t) \/ FailedSession(t)
    BY <2>1, <2>2, <2>5 DEF WithheldRow, FailedSession, Tells
  <2>6. CASE FailedAgain(t)
    <3>1. ASSUME NEW g, call' = [call EXCEPT ![t].at = "release.read", ![t].g = g,
                                             ![t].ret = "idle"]
          PROVE  d.at = "release.read" /\ d.g = g /\ d.i = c.i
      BY <3>1 DEF CallsOK, Run
    <3>2. d.at = "release.read" /\ d.g = stripe[i].g /\ d.i = i
      BY <2>1, <2>6, <3>1 DEF FailedAgain
    <3> QED BY <1>1, <3>2 DEF Tells, ReleaseLabels
  <2>7. ASSUME c.at \in ReleaseLabels, d.at \in ReleaseLabels, d.i = c.i, d.g = c.g, d.ret = c.ret
        PROVE  Tells(c, i)'
    BY <1>1, <2>1, <2>7 DEF Tells, Failing, ReleaseLabels, FailedLabels
  <2>8. ASSUME c.at \in ReleaseLabels, Released(t)
        PROVE  Tells(c, i)' \/ (c.ret = "idle" /\ c.g = stripe[i].g)
    BY <2>1, <2>2, <2>8 DEF Tells, Failing, ReleaseLabels, FailedLabels
  <2>9. CASE ReleaseRead(t)
    <3>1. c.at \in ReleaseLabels
      BY <2>9 DEF ReleaseRead, At, ReleaseLabels
    <3>2. CASE Goto(t, "release.paid")
      BY <2>2, <2>7, <3>1, <3>2 DEF ReleaseLabels
    <3>3. CASE ~Goto(t, "release.paid")
      BY <2>9, <2>8, <3>1, <3>3 DEF ReleaseRead
    <3> QED BY <3>2, <3>3
  <2>10. CASE ReleasePaid(t)
    <3>1. c.at \in ReleaseLabels
      BY <2>10 DEF ReleasePaid, At, ReleaseLabels
    <3>2. CASE RowsOf(c.g, {"completed", "withheld"}) = {}
      BY <2>10, <2>2, <2>7, <3>1, <3>2 DEF ReleasePaid, ReleaseLabels
    <3>3. CASE RowsOf(c.g, {"completed", "withheld"}) # {}
      <4>1. PICK j \in Intents : ledger[j].charge \in {"completed", "withheld"}
        BY <3>3 DEF RowsOf
      <4>2. "pay" \in Calls
        BY DEF PayRule
      <4>3. j = i
        BY <4>1, <4>2 DEF PayRule, Recorded
      <4>4. FALSE
        BY <4>1, <4>3 DEF BookRule, JInv, Payments, RowsOwned
      <4> QED BY <4>4
    <3> QED BY <3>2, <3>3
  <2>11. CASE ReleaseCancel(t)
    <3>1. c.at \in ReleaseLabels /\ Released(t)
      BY <2>11 DEF ReleaseCancel, At, ReleaseLabels
    <3>2. c.g \in Sessions => session'[c.g].st \notin {"pending", "active"}
      <4>1. session \in [Sessions -> Session]
        BY GoingFacts DEF SessionOK
      <4> QED BY <2>11, <4>1 DEF ReleaseCancel, SetSession, Exists, Session
    <3>3. c.g \in Sessions
      BY <2>11 DEF ReleaseCancel, At, CallsOK, Knows, WithSession
    <3> QED BY <2>8, <3>1, <3>2, <3>3
  <2> QED BY <1>3, <2>1, <2>3, <2>4, <2>5, <2>6, <2>9, <2>10, <2>11, TellsAt
<1> QED BY <1>2, <1>3

LEMMA ToldStays ==
    ASSUME NEW s, NEW G, Stepping(s, G), NEW i \in Intents, Live(i),
           stripe[i].st = "failed", stripe[i].g # NoSession, Told(i)
    PROVE  Told(i)' \/ session'[stripe[i].g].st \notin {"pending", "active"}
<1>1. CASE <<"failed", i>> \in events
  <2>1. \/ <<"failed", i>> \in events'
        \/ \E u \in Slots : call'[u].i = i /\ call'[u].at \in {"failed.row", "failed.withheld"}
    BY <1>1, SteppingFacts DEF BackFrame, FailFrame
  <2> QED BY <2>1 DEF Told, Tells, Failing, FailedLabels
<1>2. CASE \E t \in Slots : Tells(call[t], i)
  BY <1>2, TellsOn DEF Told
<1> QED BY <1>1, <1>2 DEF Told

-----------------------------------------------------------------------------
(* What a payment is worth, a step later.  Who refunds:                    *)
LEMMA WhoRefunds ==
    ASSUME NEW s, NEW G, Stepping(s, G), NEW i \in Intents,
           stripe'[i].refunded, ~stripe[i].refunded
    PROVE  Live(i) /\ stripe[i].g # NoSession /\ Over(i)
<1> USE SteppingFacts
<1>1. PICK u \in Slots : /\ call[u].i = i /\ call[u].at \in Refunders
                         /\ At(u, "hold.probe") => stripe[i].st = "succeeded"
  BY DEF BackFrame, RefundFrame
<1>2. Live(i)
  BY <1>1
<1>3. CASE At(u, "refund")
  BY <1>1, <1>2, <1>3 DEF At, Returning, ReturnsTo, MoneyBackLabels
<1>4. CASE At(u, "cancel.refund")
  BY <1>1, <1>4 DEF At, Yielding
<1>5. CASE At(u, "hold.probe")
  <2>1. stripe[i].g = NoSession /\ ledger[i].g = call[u].g /\ Shut(call[u].g)
    BY <1>1, <1>5 DEF At, Knows2, Ending, ShutLabels
  <2>2. Active(call[u].g)
    BY <1>1, <1>5, <2>1 DEF ReturnRule
  <2> QED BY <2>1, <2>2 DEF Shut, Active
<1>6. CASE At(u, "stray.refund")
  BY <1>1, <1>2, <1>6 DEF At, Returning, StrayLabels
<1> QED BY <1>1, <1>3, <1>4, <1>5, <1>6 DEF Refunders, At

LEMMA RefundsOver ==
    ASSUME NEW s, NEW G, Stepping(s, G), NEW i \in Intents, stripe'[i].refunded
    PROVE  stripe'[i].g # NoSession /\ Over(i)'
<1> USE SteppingFacts
<1>1. Live(i) /\ stripe[i].g # NoSession /\ Over(i)
  <2>1. CASE stripe[i].refunded
    BY <2>1 DEF ReturnRule, Known
  <2>2. CASE ~stripe[i].refunded
    BY <2>2, WhoRefunds
  <2> QED BY <2>1, <2>2
<1> QED BY <1>1, OverStays, IntentStays

(* The hold of a request is captured for a session that stays confirmed.   *)
LEMMA RequestPaid ==
    ASSUME NEW s, NEW G, Stepping(s, G), NEW i \in Intents,
           stripe'[i].g = NoSession, stripe'[i].st = "succeeded"
    PROVE  Active(ledger[i].g)'
<1> USE SteppingFacts
<1>1. Live(i)
  BY Lasts DEF Live, MoneyFrame, Going, PaidFrame
<1>2. stripe[i].g = NoSession /\ ~stripe[i].refunded
  BY <1>1, IntentStays DEF ReturnRule
<1>3. Active(ledger[i].g) /\ stripe[i].st \in {"hold", "succeeded"}
  <2>1. stripe[i].st # "processing"
    BY <1>2 DEF IntentRule
  <2>2. stripe[i].st \in {"hold", "succeeded"}
    <3>1. stripe[i].st \in IntentStatus
      BY GoingFacts DEF StripeOK, Intent
    <3> QED BY <1>1, <2>1, <3>1, IntentStays DEF IntentStatus, Live
  <2>3. CASE stripe[i].st = "hold"
    <3>1. /\ s \in Slots /\ call[s].i = i /\ call[s].g \in Sessions
          /\ At(s, "accept.collect") /\ ledger[i].g = call[s].g
      BY <1>2, <2>3, WhoCaptures
    <3>2. Taking(s)
      BY <3>1 DEF LInv, Backs
    <3>3. Stands(i)
      BY <1>2, <2>3 DEF Stands, Dead
    <3> QED BY <2>2, <3>1, <3>2, <3>3 DEF Taking, TakingLabels, At
  <2>4. CASE stripe[i].st = "succeeded"
    BY <1>2, <2>4 DEF ReturnRule
  <2> QED BY <2>2, <2>3, <2>4
<1>4. Stands(i) /\ Backed(i, ledger[i].g)
  BY <1>2, <1>3 DEF Stands, Dead, Backed, Uncaptured
<1>5. session'[ledger[i].g].st = "active"
  BY <1>1, <1>3, <1>4, StaysActive DEF Active
<1>6. ledger'[i].g = ledger[i].g
  BY <1>2, <1>3, RowStaysPut DEF Active
<1> QED BY <1>3, <1>5, <1>6 DEF Active

(* A request that was not submitted has no row.                            *)
LEMMA UnsentUnbooked ==
    ASSUME NEW s, NEW G, Stepping(s, G), NEW i \in Intents,
           stripe'[i].g = NoSession, "resubmit" \notin Calls, ~stripe'[i].sent
    PROVE  ledger'[i].g = NoSession
<1> USE SteppingFacts
<1>1. ledger[i].g = NoSession
  <2>1. CASE Live(i)
    BY <2>1, IntentStays DEF ReturnRule
  <2>2. CASE ~Live(i)
    BY <2>2, GoingFacts DEF LedgerOK
  <2> QED BY <2>1, <2>2
<1>2. ASSUME RowAdded(i, G) PROVE ledger'[i].g = NoSession
  <2>1. Live(i)
    BY <1>2 DEF RowAdded
  <2>2. stripe[i].g = NoSession /\ ~stripe[i].sent
    BY <2>1, IntentStays
  <2>3. ASSUME NEW u \in Slots, call[u].i = i,
               call[u].at \in BookLabels \cup {"accept.insert", "accept.append"}
        PROVE  FALSE
    <3>1. call[u].at \notin {"accept.insert", "accept.append"}
      BY <2>2, <2>3, StudentPays
    <3>2. Sends(call[u])
      BY <2>3, <3>1 DEF Sends
    <3> QED BY <2>2, <2>3, <3>2 DEF Sending
  <2>4. G = stripe[i].g
    BY <1>2, <2>3 DEF RowAdded, Someone
  <2> QED BY <1>2, <2>2, <2>4 DEF RowAdded
<1> QED
  BY <1>1, <1>2 DEF Frame, LedgerFrame, RowStays, RowDeleted

(* A confirmed session is one its payment was submitted for.               *)
LEMMA ActiveSent ==
    ASSUME NEW s, NEW G, Stepping(s, G), NEW i \in Intents, Active(stripe[i].g)'
    PROVE  stripe'[i].sent
<1> USE SteppingFacts
<1>1. CASE Live(i)
  <2>1. stripe'[i].g = stripe[i].g /\ (stripe[i].sent => stripe'[i].sent)
    BY <1>1, IntentStays
  <2> QED BY <1>1, <2>1, ActivatedByStudent DEF ReturnRule
<1>2. CASE ~Live(i)
  <2>1. stripe'[i].g # NoSession
    BY DEF Active
  <2>2. Live(i)'
    BY <2>1, GoingFacts DEF Known
  <2>3. Opened(i) /\ session[stripe'[i].g].st = "pending" /\ "pay" \in Calls
    BY <1>2, <2>1, <2>2, Lasts DEF Opened
  <2>4. PICK j \in Intents : Live(j)
    <3>1. ConfirmsPaid(s, stripe'[i].g) /\ s \in Slots
      BY <2>3, WhoActivates DEF Active
    <3> QED BY <3>1 DEF ConfirmsPaid
  <2> QED BY <2>3, <2>4 DEF Opened
<1> QED BY <1>1, <1>2
(* A session that a failed payment is wanted for does not come back.       *)
LEMMA WantedBefore ==
    ASSUME NEW s, NEW G, Stepping(s, G), NEW i \in Intents, Live(i),
           stripe[i].st = "failed", stripe[i].g # NoSession, Wanted(i)'
    PROVE  /\ Wanted(i)
           /\ session'[stripe[i].g].st \in {"pending", "active"}
<1> USE SteppingFacts
<1> DEFINE g == stripe[i].g
<1>1. stripe'[i].g = g
  BY IntentStays
<1>2. CASE Active(stripe[i].g)'
  <2>1. session'[g].st = "active"
    BY <1>1, <1>2 DEF Active
  <2>2. Active(g) \/ (Asks(s, i) /\ At(s, "accept.activate") /\ s \in Slots
                      /\ session[call[s].g].st = "pending")
    BY <1>1, <1>2, ActivatedByStudent
  <2> QED BY <2>1, <2>2 DEF Wanted
<1>3. CASE ~Active(stripe[i].g)'
  <2>1. PICK t \in Slots : /\ Asks(t, i)' /\ call'[t].at = "accept.activate"
                           /\ session'[call'[t].g].st = "pending"
    BY <1>3 DEF Wanted, At
  <2>2. Asks(t, i) /\ call'[t].g = call[t].g
    BY <2>1, AskersCome
  <2>3. call[t].g = g /\ g \in Sessions
    BY <2>2, Actors DEF Asks, StudentHolds
  <2>4. At(t, "accept.activate")
    <3>1. CASE call'[t] = call[t]
      BY <2>1, <3>1 DEF At
    <3>2. CASE call'[t] # call[t]
      <4>1. AcceptMoves(t)
        BY <2>1, <3>2, GoingRuns DEF AcceptLabels, ReadLabels
      <4>2. call[t].i = i /\ Student(t) /\ StudentKnows(t)
        BY <2>2, Actors DEF Asks
      <4>3. FoundAs(call[t].i) = "none"
        BY <4>2 DEF FoundAs
      <4> QED BY <2>1, <4>1, <4>2, <4>3
              DEF AcceptMoves, ExpertStarts, StudentStarts, Fresh, FindsHold, FindsPayment,
              GivesUp, Reads, Takes, Settles, StudentKnows, StudentLabels, At
    <3> QED BY <3>1, <3>2
  <2>5. session[g].st \in {"pending", "active"}
    <3>1. Statuses(g, session[g].st, session'[g].st) /\ session'[g].st = "pending"
      BY <2>1, <2>2, <2>3 DEF Frame, SessionFrame
    <3>2. session[g].st # "none"
      BY <2>3 DEF Real, There
    <3>3. ASSUME NEW u \in Slots, At(u, "cancel.restore"), call[u].g = g PROVE FALSE
      <4>1. Yielding(u) /\ call[u].at \in Contested
        BY <3>3 DEF At, Contested
      <4> QED BY <2>2, <2>3, <3>3, <4>1 DEF Yielding, Asks
    <3> QED BY <3>1, <3>2, <3>3 DEF Statuses
  <2> QED BY <2>1, <2>2, <2>3, <2>4, <2>5 DEF Wanted, Active
<1> QED BY <1>2, <1>3

LEMMA FailureTold ==
    ASSUME NEW s, NEW G, Stepping(s, G), NEW i \in Intents,
           stripe'[i].st = "failed", Wanted(i)'
    PROVE  Told(i)'
<1> USE SteppingFacts
<1>1. Live(i)
  <2>1. ~Live(i) => Opened(i)
    BY Lasts DEF Live
  <2>2. "failed" \notin Outcomes
    BY GoingFacts
  <2> QED BY <2>1, <2>2 DEF Going, MoneyFrame, PaidFrame
<1>2. stripe[i].st \in {"failed", "processing"}
  <2>1. stripe[i].st \in IntentStatus
    BY GoingFacts DEF StripeOK, Intent
  <2> QED BY <1>1, <2>1, IntentStays DEF IntentStatus, Live, CardStatus
<1>3. CASE stripe[i].st = "processing"
  BY <1>3 DEF BackFrame, FailFrame, Told
<1>4. CASE stripe[i].st = "failed"
  <2>1. stripe[i].g # NoSession
    BY <1>4 DEF IntentRule
  <2>2. Wanted(i) /\ session'[stripe[i].g].st \in {"pending", "active"}
    BY <1>1, <1>4, <2>1, WantedBefore
  <2>3. Told(i)
    BY <1>4, <2>2 DEF ReturnRule
  <2> QED BY <1>1, <1>4, <2>1, <2>2, <2>3, ToldStays
<1> QED BY <1>2, <1>3, <1>4

LEMMA ReturnRuleStays ==
    ASSUME NEW s, NEW G, Stepping(s, G), NEW i \in Intents
    PROVE  ReturnRule(i)'
<1> USE SteppingFacts
<1>1. stripe'[i].old => "settle" \in Calls
  BY DEF ReturnRule, BackFrame, AgeFrame
<1>2. (stripe[i].g = NoSession)' =>
          /\ ~stripe'[i].refunded
          /\ stripe'[i].st = "succeeded" => Active(ledger[i].g)'
          /\ "resubmit" \notin Calls /\ ~stripe'[i].sent => ledger'[i].g = NoSession
  BY RefundsOver, RequestPaid, UnsentUnbooked
<1>3. stripe'[i].refunded => Over(i)'
  BY RefundsOver
<1>4. Active(stripe[i].g)' => stripe'[i].sent
  BY ActiveSent
<1>5. stripe'[i].st = "failed" /\ Wanted(i)' => Told(i)'
  BY FailureTold
<1> QED BY <1>1, <1>2, <1>3, <1>4, <1>5 DEF ReturnRule

-----------------------------------------------------------------------------
(* A request that submits its intent has done so, or comes.                *)
LEMMA SendersCome ==
    ASSUME NEW s, NEW G, Stepping(s, G), NEW t \in Slots, Sends(call[t])'
    PROVE  \/ /\ Sends(call[t]) /\ call'[t].i = call[t].i
              /\ call'[t].at \in SendingLabels => call[t].at \in SendingLabels
           \/ /\ t = s /\ call'[t].at = "request.consumed" /\ call'[t].i \in Intents
              /\ Request(t, call'[t].i)
<1> USE SteppingFacts
<1>1. CASE call'[t] = call[t]
  BY <1>1 DEF Sends
<1>2. CASE call'[t] # call[t]
  <2>1. t = s /\ RequestMoves(t)
    BY <1>2, GoingRuns DEF Sends, SendingLabels, BookLabels, RequestLabels
  <2>2. CASE Requests(t)
    BY <1>2, <2>1, <2>2, CallersCome DEF Requests, Sends
  <2>3. CASE Probes(t) \/ Creates(t)
    BY <2>3 DEF Probes, Creates, Sends, SendingLabels, BookLabels, At
  <2>4. CASE Keeps(t) /\ Parks(t, call[t].at, call'[t].at)
    BY <2>4 DEF Keeps, Parks, Sends, SendingLabels, BookLabels
  <2> QED BY <2>1, <2>2, <2>3, <2>4 DEF RequestMoves
<1> QED BY <1>1, <1>2

LEMMA SendingStays ==
    ASSUME NEW s, NEW G, Stepping(s, G), NEW t \in Slots
    PROVE  Sending(t)'
<1> USE SteppingFacts
<1> DEFINE i == call'[t].i
<1>1. SUFFICES ASSUME "resubmit" \notin Calls, Sends(call[t])'
               PROVE  /\ stripe'[i].sent
                      /\ \A u \in Slots : Sends(call[u])' /\ call'[u].i = i => u = t
                      /\ call'[t].at \in SendingLabels => ledger'[i].g = NoSession
  BY DEF Sending
<1>2. ASSUME NEW u \in Slots, call'[u].i \in Intents, Request(u, call'[u].i)
      PROVE  /\ ~stripe[call'[u].i].sent /\ stripe'[call'[u].i].sent
             /\ stripe[call'[u].i].g = NoSession /\ UNCHANGED ledger
  <2>1. Submittable(call'[u].i) /\ Submitted(call'[u].i) /\ UNCHANGED ledger
        /\ stripe[call'[u].i].g = NoSession
    BY <1>2 DEF Request
  <2> QED BY <1>1, <1>2, <2>1, GoingFacts DEF Submittable, Submitted, StripeOK, Intent
<1>3. i \in Intents
  BY <1>1 DEF Sends
<1>4. CASE Sends(call[t]) /\ call[t].i = i
  <2>1. stripe[i].sent /\ stripe'[i].sent
    BY <1>1, <1>3, <1>4, IntentStays DEF Sending
  <2>2. ASSUME NEW u \in Slots, Sends(call[u])', call'[u].i = i PROVE u = t
    BY <1>1, <1>2, <1>3, <1>4, <2>1, <2>2, SendersCome DEF Sending
  <2>3. ASSUME call'[t].at \in SendingLabels PROVE ledger'[i].g = NoSession
    <3>1. call[t].at \in SendingLabels
      BY <1>1, <2>1, <2>3, <1>2, <1>3, SendersCome
    <3>2. ledger[i].g = NoSession
      BY <1>1, <1>4, <3>1 DEF Sending
    <3>3. stripe[i].g = NoSession
      <4>1. RequestRun(t) /\ call[t].at \in RequestLabels
        BY <3>1 DEF JInv, Runs, RunRule, SendingLabels, RequestLabels
      <4> QED BY <1>3, <1>4, <4>1 DEF RequestRun
    <3>4. ASSUME RowAdded(i, G) PROVE ledger'[i].g = NoSession
      <4>1. ASSUME NEW u \in Slots, call[u].i = i,
                   call[u].at \in BookLabels \cup {"accept.insert", "accept.append"}
            PROVE  FALSE
        <5>1. call[u].at \notin {"accept.insert", "accept.append"}
          BY <1>3, <3>3, <4>1, StudentPays
        <5>2. Sends(call[u]) /\ call[u].at \notin SendingLabels
          BY <1>3, <4>1, <5>1 DEF Sends, SendingLabels, BookLabels
        <5> QED BY <1>1, <1>4, <3>1, <4>1, <5>2 DEF Sending
      <4>2. G = stripe[i].g
        BY <3>4, <4>1 DEF RowAdded, Someone
      <4> QED BY <3>3, <3>4, <4>2 DEF RowAdded
    <3> QED BY <1>3, <3>2, <3>4 DEF Frame, LedgerFrame, RowStays, RowDeleted
  <2> QED BY <2>1, <2>2, <2>3
<1>5. CASE t = s /\ call'[t].at = "request.consumed" /\ Request(t, i)
  <2>1. /\ ~stripe[i].sent /\ stripe'[i].sent
        /\ stripe[i].g = NoSession /\ UNCHANGED ledger
    BY <1>2, <1>3, <1>5
  <2>2. ASSUME NEW u \in Slots, Sends(call[u])', call'[u].i = i PROVE u = t
    BY <1>1, <1>5, <2>1, <2>2, SendersCome DEF Sending
  <2>3. ledger'[i].g = NoSession
    BY <1>1, <1>3, <2>1 DEF ReturnRule
  <2> QED BY <2>1, <2>2, <2>3
<1> QED BY <1>1, <1>4, <1>5, SendersCome

-----------------------------------------------------------------------------
(* Nobody asks any more for an intent that is about to be returned.        *)
LEMMA LeftOver ==
    ASSUME NEW s, NEW G, Stepping(s, G), NEW t \in Slots, NEW i \in Intents, Live(i),
           call'[t] # call[t], call'[t].at \notin Asking,
           stripe'[i].sent, UNCHANGED session,
           stripe[i].g \in Sessions => session[stripe[i].g].st # "active",
           \A u \in Slots : Asks(u, i) => u = t
    PROVE  Over(i)'
<1> USE SteppingFacts
<1>1. t = s
  BY GoingRuns
<1>2. \A u \in Slots : ~Asks(u, i)'
  <2>1. SUFFICES ASSUME NEW u \in Slots, Asks(u, i)' PROVE FALSE
    OBVIOUS
  <2>2. u = t
    BY <1>1, <2>1, AskersCome
  <2> QED BY <2>1, <2>2 DEF Asks
<1>3. stripe'[i].g = stripe[i].g
  BY IntentStays
<1> QED BY <1>2, <1>3 DEF Over, Unasked, Active

LEMMA StudentReturns ==
    ASSUME NEW s, NEW G, Stepping(s, G), NEW t \in Slots, call'[t] # call[t],
           Student(t), call[t].at \in Asking, call'[t].at \in MoneyBackLabels,
           call'[t].i = call[t].i, call'[t].g = call[t].g, UNCHANGED <<session, stripe>>,
           session[call[t].g].st # "active"
    PROVE  ReturnsTo(call[t])'
<1> USE SteppingFacts
<1> DEFINE i == call[t].i
<1>1. /\ i \in Intents /\ stripe[i].g = call[t].g /\ stripe[i].sent /\ call[t].g \in Sessions
      /\ StudentAlone(t)
  BY Actors DEF StudentHolds
<1>2. \A u \in Slots : Asks(u, i) => u = t
  BY <1>1 DEF StudentAlone, Asks
<1>3. call'[t].at \notin Asking
  <2>1. MoneyBackLabels \cap Asking = {}
    BY DEF MoneyBackLabels, Asking
  <2> QED BY <2>1
<1>4. Over(i)'
  BY <1>1, <1>2, <1>3, LeftOver
<1> QED BY <1>1, <1>4 DEF ReturnsTo

LEMMA ReturningComes ==
    ASSUME NEW s, NEW G, Stepping(s, G), NEW t \in Slots, call'[t] # call[t],
           call'[t].at \in MoneyBackLabels
    PROVE  ReturnsTo(call[t])'
<1> USE SteppingFacts
<1> DEFINE c == call[t]
           d == call'[t]
<1>1. \/ MoneyBackStep(t) \/ RequestRejected(t)
      \/ AcceptPaid(t) \/ AcceptActivate(t) \/ AcceptActivateFails(t)
      \/ \E g \in Sessions, i \in Intents \cup {NoIntent} : AcceptAsStudent(t, g, i)
  BY ReturnsCome
<1>2. d.at # "idle" /\ d.at \notin {"accept.undo", "accept.undoRow"}
  BY DEF MoneyBackLabels
<1>g. /\ \A l : Goto(t, l) => d.at = l /\ d.i = c.i /\ d.g = c.g
      /\ ~Finish(t)
  BY <1>2, Goes DEF Keeps, Idle
<1>3. CASE MoneyBackStep(t)
  <2>1. c.at \in MoneyBackLabels /\ d.i = c.i /\ d.g = c.g
    <3>1. c.at \in MoneyBackLabels
      BY <1>3, GroupLabels
    <3>2. \E l : Goto(t, l)
      BY <1>3, <1>g
         DEF MoneyBackStep, OrphanRecorded, OrphanHold, OrphanCancel, RefundStep,
         RefundFails, RefundRow, RefundSession, RefundLive, RefundCancel
    <3> QED BY <1>g, <3>1, <3>2
  <2>2. c.i \in Intents
    BY <2>1, KnowsOK DEF WithIntent
  <2> QED BY <2>1, <2>2, OverStays, IntentStays DEF Returning, ReturnsTo
<1>4. CASE RequestRejected(t)
  <2>1. "database" \in Faults /\ At(t, "request.create") /\ c.pays \notin {"none", "held"}
    <3>1. c.pays = "held" => Goto(t, "request.fail")
      BY <1>4 DEF RequestRejected
    <3>2. d.at # "request.fail"
      BY DEF MoneyBackLabels
    <3>3. c.pays # "none" /\ "database" \in Faults /\ At(t, "request.create")
      BY <1>4, <1>g DEF RequestRejected, Fault
    <3> QED BY <1>g, <3>1, <3>2, <3>3
  <2>2. c.i \in Intents /\ c.pays \in {"settled", "settling"}
    BY <2>1, KnowsOK DEF CallsOK, Run
  <2>3. stripe[c.i].st = "succeeded"
    BY <2>1, <2>2 DEF Knows2, Paying, PaysLabels, At
  <2>4. stripe[c.i].g = NoSession
    BY <2>1, <2>2 DEF JInv, Runs, RunRule, RequestRun, RequestLabels, At
  <2>5. Active(ledger[c.i].g)
    BY <2>2, <2>3, <2>4 DEF ReturnRule
  <2>6. ledger[c.i].g = NoSession
    <3>1. "resubmit" \notin Calls
      BY <2>1 DEF Stepping, MInv, PaymentsBack
    <3> QED BY <2>1, <2>2, <3>1 DEF Sending, Sends, SendingLabels, At
  <2> QED BY <2>5, <2>6 DEF Active
<1>5. CASE AcceptPaid(t)
  <2>1. At(t, "accept.paid") /\ UNCHANGED <<session, stripe>>
    BY <1>5 DEF AcceptPaid
  <2>2. Student(t) /\ c.at \in Asking /\ c.i \in Intents /\ c.g \in Sessions
    <3>1. c.at \in AcceptLabels /\ c.at \in Asking /\ c.at \notin ExpertLabels
      BY <2>1 DEF At, AcceptLabels, ReadLabels, Asking, ExpertLabels, FindLabels
    <3> QED BY <3>1, Actors DEF ExpertKnows, StudentHolds
  <2>3. Orphaned(t, c.g, c.i)
    <3>1. ~Goto(t, "accept.consumed")
      BY <1>g DEF MoneyBackLabels
    <3> QED BY <1>5, <1>g, <3>1 DEF AcceptPaid
  <2>4. d.i = c.i /\ d.g = c.g
    BY <2>2, <2>3 DEF Orphaned, CallsOK, Run
  <2>5. session[c.g].st # "active"
    BY <2>1 DEF Unconfirmed, Deciding, At
  <2> QED BY <2>1, <2>2, <2>4, <2>5, StudentReturns
<1>6. CASE AcceptActivate(t) \/ AcceptActivateFails(t)
  <2>1. At(t, "accept.activate") /\ UNCHANGED stripe
    BY <1>6 DEF AcceptActivate, AcceptActivateFails
  <2>2. session[c.g].st # "active"
    BY <2>1 DEF Unconfirmed, Deciding, At
  <2>3. c.pays \notin {"none", "held"} /\ Goto(t, "refund") /\ UNCHANGED session
    <3>1. CASE AcceptActivate(t)
      <4>1. /\ c.pays = "none" => Finish(t)
            /\ c.pays = "held" =>
                  \E l \in {"accept.collect", "accept.insert", "accept.undo"} : Goto(t, l)
            /\ Goto(t, "accept.append") \/ c.pays \in {"none", "held"} \/
                  (Goto(t, "refund") /\ UNCHANGED session)
        BY <3>1 DEF AcceptActivate
      <4>2. d.at \notin {"accept.collect", "accept.insert", "accept.undo", "accept.append"}
        BY DEF MoneyBackLabels
      <4> QED BY <1>g, <4>1, <4>2
    <3>2. CASE AcceptActivateFails(t)
      <4>1. ASSUME call' = [call EXCEPT ![t].at = "accept.undo", ![t].row = FALSE]
            PROVE  d.at = "accept.undo"
        BY <4>1 DEF CallsOK, Run
      <4> QED BY <1>2, <1>g, <3>2, <4>1 DEF AcceptActivateFails
    <3> QED BY <1>6, <3>1, <3>2
  <2>4. Student(t) /\ c.at \in Asking
    <3>1. c.at \in AcceptLabels /\ c.at \in Asking
      BY <2>1 DEF At, AcceptLabels, ReadLabels, Asking
    <3> QED BY <2>3, <3>1, Actors DEF ExpertKnows
  <2> QED BY <1>g, <2>1, <2>2, <2>3, <2>4, StudentReturns
<1>7. ASSUME NEW g \in Sessions, NEW i \in Intents \cup {NoIntent}, AcceptAsStudent(t, g, i)
      PROVE  ReturnsTo(call[t])'
  <2>1. i \in Intents /\ Submittable(i) /\ stripe[i].g = g /\ Submitted(i) /\ "pay" \in Calls
    BY <1>7 DEF AcceptAsStudent, Calling
  <2>2. d.g = g /\ d.i = i
    BY <1>2, <1>7, StartsAt DEF AcceptAsStudent, Calling, At
  <2>3. stripe'[i].sent /\ ~stripe[i].sent /\ Live(i)
    BY <2>1, GoingFacts DEF Submittable, Submitted, StripeOK, Intent, Live
  <2>4. session[g].st # "active" /\ UNCHANGED session
    BY <1>7, <2>1, <2>3 DEF ReturnRule, Active, AcceptAsStudent
  <2>5. \A u \in Slots : ~Asks(u, i)
    BY <2>3, Actors DEF Asks, StudentHolds
  <2>6. d.at \notin Asking
    <3>1. MoneyBackLabels \cap Asking = {}
      BY DEF MoneyBackLabels, Asking
    <3> QED BY <3>1
  <2>7. Over(i)'
    BY <2>1, <2>3, <2>4, <2>5, <2>6, LeftOver
  <2>8. stripe'[i].g = stripe[i].g
    BY <2>1, <2>3, IntentStays
  <2> QED BY <2>1, <2>2, <2>7, <2>8 DEF ReturnsTo
<1> QED BY <1>1, <1>3, <1>4, <1>5, <1>6, <1>7

LEMMA ReturningStays ==
    ASSUME NEW s, NEW G, Stepping(s, G), NEW t \in Slots
    PROVE  Returning(t)'
<1> USE SteppingFacts
<1> DEFINE c == call[t]
           d == call'[t]
<1>1. c.at \in MoneyBackLabels \cup StrayLabels => c.i \in Intents
  BY KnowsOK DEF WithIntent, StrayLabels, SweepLabels
<1>2. CASE d = c
  BY <1>1, <1>2, OverStays, UnaskedStays, IntentStays DEF Returning, ReturnsTo, StrayLabels
<1>3. CASE d # c
  <2>1. ASSUME d.at = "stray.delivered"
        PROVE  stripe'[d.i].g # NoSession /\ Unasked(call[t].i)'
    <3>1. PICK i \in Intents : SweepStray(t, i)
      BY <1>3, <2>1, ReturnsCome
    <3>2. d.i = i
      BY <3>1, StartsAt DEF SweepStray, At
    <3>3. "settle" \in Calls /\ "late" \notin Calls
      BY <3>1 DEF SweepStray, Stepping, MInv, PaymentsBack
    <3>4. (\A u \in Slots : call[u].i # i) /\ stripe'[i].old
      BY <3>1, <3>3, GoingFacts DEF SweepStray, HourPasses, StripeOK, Intent
    <3>5. \A u \in Slots : ~Asks(u, i)'
      <4>1. SUFFICES ASSUME NEW u \in Slots, Asks(u, i)' PROVE FALSE
        OBVIOUS
      <4>2. u = s /\ call'[u].at = "accept.paid"
        BY <3>4, <4>1, AskersCome DEF Asks
      <4>3. t = s
        BY <1>3, GoingRuns
      <4> QED BY <2>1, <4>2, <4>3
    <3>6. stripe[i].st = "succeeded" /\ ~Recorded(i)
      <4>1. stripe[i].st # "hold"
        BY <2>1, <3>1 DEF SweepStray, At, CallsOK, Run
      <4> QED BY <3>1, <4>1 DEF SweepStray, Stray
    <3>7. stripe[i].g # NoSession /\ Live(i)
      BY <3>6 DEF IntentRule, Live
    <3> QED BY <3>2, <3>4, <3>5, <3>7, IntentStays DEF Unasked
  <2>2. ASSUME d.at = "stray.refund"
        PROVE  stripe'[d.i].g # NoSession /\ Over(call[t].i)'
    <3>1. StrayDelivered(t)
      BY <1>3, <2>2, ReturnsCome
    <3>2. /\ At(t, "stray.delivered") /\ d.i = c.i /\ UNCHANGED <<session, stripe>>
          /\ ~Delivered(c.i)
      BY <2>2, <3>1, Goes DEF StrayDelivered, Keeps
    <3>3. c.i \in Intents /\ stripe[c.i].g # NoSession /\ Unasked(c.i)
      BY <1>1, <3>2 DEF Returning, StrayLabels, At
    <3>4. Unasked(c.i)'
      BY <3>2, <3>3, UnaskedStays
    <3>5. ~Active(stripe[c.i].g)'
      BY <3>2, <3>3 DEF Delivered, Active
    <3> QED BY <3>2, <3>3, <3>4, <3>5 DEF Over
  <2>3. d.at \in MoneyBackLabels => ReturnsTo(call[t])'
    BY <1>3, ReturningComes
  <2> QED BY <2>1, <2>2, <2>3 DEF Returning, StrayLabels, Over
<1> QED BY <1>2, <1>3

-----------------------------------------------------------------------------
(* What a canceller knows of the money of its session, a step later.       *)
LEMMA CancellersCome ==
    ASSUME NEW s, NEW G, Stepping(s, G), NEW t \in Slots, call'[t] # call[t],
           call'[t].at \in CancellingLabels,
           call'[t].row \/ call'[t].at # "cancel.parked"
    PROVE  /\ t = s /\ call[t].at \in CancellingLabels
           /\ call'[t].g = call[t].g /\ call[t].g \in Sessions
           /\ session[call[t].g].st \in {"cancelled", "deleted"}
<1> USE SteppingFacts
<1>1. call[t].at \in CancellingLabels /\ t = s
  BY ReturnsCome, GoingRuns
<1>2. call'[t].g = G /\ call[t].g = G
  BY <1>1 DEF Frame, CallFrame, Undecided
<1> QED BY <1>1, <1>2, KnowsOK DEF WithSession, Claiming

LEMMA ParkedYields ==
    ASSUME NEW s, NEW G, Stepping(s, G), NEW t \in Slots,
           call'[t].at \in CancellingLabels, call'[t].row
    PROVE  /\ stripe'[call'[t].i].g = NoSession
           /\ ledger'[call'[t].i].g = call'[t].g
<1> USE SteppingFacts
<1> DEFINE c == call[t]
           d == call'[t]
<1>1. /\ d.i \in Intents /\ Live(d.i) /\ stripe[d.i].g = NoSession
      /\ ledger[d.i].g = d.g /\ d.g \in Sessions
  <2>1. CASE d = c
    <3>1. c.i \in Intents /\ c.g \in Sessions
      BY <2>1, KnowsOK DEF WithSession
    <3> QED BY <2>1, <3>1 DEF Yielding
  <2>2. CASE d # c
    <3>1. c.at \in CancellingLabels /\ d.g = c.g /\ c.g \in Sessions
      BY <2>2, CancellersCome
    <3>2. Entry(c, d)
      BY <2>2, GoingRuns
    <3>3. \/ c.row /\ d.i = c.i
          \/ d.i \in Parked(c.g)
      BY <3>2 DEF Entry, CancelEntry
    <3>4. CASE c.row /\ d.i = c.i
      BY <3>1, <3>4, KnowsOK DEF Yielding
    <3>5. CASE d.i \in Parked(c.g)
      <4>1. d.i \in Intents /\ ledger[d.i].charge = "withheld" /\ ledger[d.i].g = c.g
        BY <3>5 DEF Parked, RowsOf
      <4>2. stripe[d.i].g = NoSession /\ Recorded(d.i)
        BY <4>1 DEF JInv, Payments, RowsOwned, Recorded
      <4> QED BY <3>1, <4>1, <4>2
    <3> QED BY <3>3, <3>4, <3>5
  <2> QED BY <2>1, <2>2
<1> QED BY <1>1, IntentStays, RowStaysPut

LEMMA RefundYields ==
    ASSUME NEW s, NEW G, Stepping(s, G), NEW t \in Slots, At(t, "cancel.refund")'
    PROVE  stripe'[call'[t].i].refunded
<1> USE SteppingFacts
<1> DEFINE c == call[t]
           d == call'[t]
<1>0. d.at = "cancel.refund"
  BY DEF At
<1>1. CASE d = c
  <2>1. c.i \in Intents
    BY <1>0, <1>1, KnowsOK DEF WithIntent
  <2> QED BY <1>0, <1>1, <2>1, IntentStays DEF Yielding
<1>2. CASE d # c
  <2>1. /\ c.at \in CancellingLabels /\ c.g \in Sessions
        /\ session[c.g].st \in {"cancelled", "deleted"}
    BY <1>0, <1>2, CancellersCome DEF CancellingLabels
  <2>2. CASE CancelPayment(t)
    <3>1. ASSUME NEW j, call' = [call EXCEPT ![t].at = "cancel.refund", ![t].i = j]
          PROVE  d.i = j
      BY <3>1 DEF CallsOK, Run
    <3>2. PICK j \in Intents : /\ ledger[j].g = c.g /\ ledger[j].charge = "completed"
                               /\ d.i = j
      <4>1. \A l : Goto(t, l) => l = "cancel.refund"
        BY <1>0, Goes
      <4>2. ~Finish(t)
        BY <1>0, Goes DEF Idle
      <4> QED BY <2>2, <3>1, <4>1, <4>2 DEF CancelPayment, RowsOf
    <3>3. stripe[j].st = "succeeded" /\ ~Active(ledger[j].g)
      BY <2>1, <3>2 DEF BookRule, Active
    <3>4. stripe[j].refunded /\ Live(j)
      BY <3>2, <3>3 DEF BuysRule, OnBooks, Kept, Live
    <3> QED BY <3>2, <3>4, IntentStays
  <2>3. CASE CancelProbe(t)
    <3>1. /\ At(t, "cancel.probe") /\ stripe[c.i].st = "succeeded"
      BY <1>0, <2>3, Goes DEF CancelProbe
    <3>2. c.i \in Intents /\ c.row
      BY <3>1, KnowsOK DEF At, WithIntent, Knows2, Ending
    <3>3. stripe[c.i].g = NoSession /\ ledger[c.i].g = c.g
      BY <2>1, <3>2 DEF Yielding
    <3>4. Active(c.g)
      BY <3>1, <3>2, <3>3 DEF ReturnRule
    <3> QED BY <2>1, <3>4 DEF Active
  <2>4. CASE ~CancelPayment(t) /\ ~CancelProbe(t)
    <3>1. /\ \A l : Goto(t, l) => l = "cancel.refund"
          /\ ~Finish(t)
      BY <1>0, Goes DEF Idle
    <3>2. ~CancelParked(t)
      <4>1. ASSUME NEW i, call' = [call EXCEPT ![t].at = "cancel.payment", ![t].i = i,
                                               ![t].row = TRUE]
            PROVE  d.at = "cancel.payment"
        BY <4>1 DEF CallsOK, Run
      <4> QED BY <1>0, <3>1, <4>1 DEF CancelParked
    <3> QED BY <1>2, <2>1, <2>4, <3>1, <3>2, CancelsAt
            DEF CancelRelease, CancelReleaseFails, CancelRefund, CancelRefundFails,
            CancelRestore
  <2> QED BY <2>2, <2>3, <2>4
<1> QED BY <1>1, <1>2

(* A canceller that finds money on the books finds no student who asks.    *)
LEMMA PaymentYields ==
    ASSUME NEW s, NEW G, Stepping(s, G), NEW t \in Slots, CancelPayment(t),
           call'[t].at \in Contested, NEW v \in Slots, NEW k \in Intents, Asks(v, k),
           call[v].g = call[t].g
    PROVE  FALSE
<1> USE SteppingFacts
<1> DEFINE c == call[t]
           paid == RowsOf(c.g, {"completed", "pending"})
<1>1. /\ c.at = "cancel.payment" /\ c.g \in Sessions
      /\ session[c.g].st \in {"cancelled", "deleted"}
  BY KnowsOK DEF CancelPayment, At, WithSession, Claiming, CancellingLabels
<1>2. stripe[k].g = c.g /\ Live(k) /\ "pay" \in Calls
  BY Actors DEF Asks, StudentHolds, StudentKnows
<1>3. ASSUME paid = {} PROVE FALSE
  <2>1. c.row
    <3>1. "idle" \notin Contested
      BY DEF Contested
    <3> QED BY <1>3, <3>1, Goes DEF CancelPayment, Idle
  <2>2. c.i \in Intents /\ stripe[c.i].g = NoSession
    BY <1>1, <2>1, KnowsOK DEF Yielding, CancellingLabels
  <2>3. c.i = k
    BY <1>2, <2>2 DEF PayRule
  <2> QED BY <1>1, <1>2, <2>2, <2>3
<1>4. ASSUME NEW j \in paid PROVE FALSE
  <2>1. /\ j \in Intents /\ Recorded(j) /\ ledger[j].g = c.g
        /\ ledger[j].charge \in {"completed", "pending"}
    BY <1>4 DEF RowsOf, Recorded
  <2>2. j = k
    BY <1>2, <2>1 DEF PayRule
  <2>3. ledger[k].charge = "completed"
    BY <2>1, <2>2 DEF Knows2, Accepting, Asks, Asking, BeforeCapture
  <2>4. stripe[k].refunded
    BY <1>1, <2>1, <2>2, <2>3 DEF BookRule, BuysRule, OnBooks, Kept, Active
  <2> QED BY <2>4 DEF ReturnRule, Over, Unasked
<1> QED BY <1>3, <1>4

LEMMA ContestYields ==
    ASSUME NEW s, NEW G, Stepping(s, G), NEW t \in Slots, call'[t].at \in Contested,
           NEW v \in Slots, Student(v)', call'[v].at \in Asking, call'[v].g = call'[t].g
    PROVE  FALSE
<1> USE SteppingFacts
<1> DEFINE c == call[t]
           d == call'[t]
<1>0. call'[v].i \in Intents
  <2>1. JInv' /\ Charged'
    BY DEF Going
  <2>2. StudentHolds(v)'
    BY <2>1 DEF JInv, Runs, RunRule
  <2> QED BY <2>1, <2>2 DEF StudentHolds
<1>1. PICK k \in Intents : Asks(v, k)'
  BY <1>0 DEF Asks
<1>2. \A l \in Contested :
          l \in CancellingLabels /\ l # "cancel.parked" /\ l \notin Asking
  BY DEF Contested, CancellingLabels, Asking
<1>3. CASE Asks(v, k) /\ call'[v].g = call[v].g
  <2>0. c.at \in Contested => call[v].g # c.g
    <3>1. Student(v) /\ call[v].at \in Asking
      BY <1>3 DEF Asks
    <3> QED BY <3>1 DEF Yielding
  <2>1. CASE d = c
    BY <1>3, <2>0, <2>1
  <2>2. CASE d # c
    <3>1. c.at \in CancellingLabels /\ d.g = c.g
      BY <1>2, <2>2, CancellersCome
    <3>2. c.at \notin Contested
      BY <1>3, <2>0, <3>1
    <3>3. CASE At(t, "cancel.parked")
      <4>1. CancelParked(t)
        BY <2>2, <3>1, <3>3, CancelsAt
           DEF At, CancelPayment, CancelRelease, CancelReleaseFails, CancelProbe,
           CancelRefund, CancelRefundFails, CancelRestore
      <4>2. ASSUME NEW i, call' = [call EXCEPT ![t].at = "cancel.payment", ![t].i = i,
                                               ![t].row = TRUE]
            PROVE  d.at = "cancel.payment"
        BY <4>2 DEF CallsOK, Run
      <4>3. d.at = "cancel.payment"
        BY <4>1, <4>2, Goes DEF CancelParked
      <4> QED BY <4>3 DEF Contested
    <3>4. CASE At(t, "cancel.payment")
      <4>1. CancelPayment(t)
        BY <2>2, <3>1, <3>4, CancelsAt
      <4> QED BY <1>1, <1>3, <3>1, <4>1, PaymentYields
    <3> QED BY <3>1, <3>2, <3>3, <3>4 DEF CancellingLabels, Contested, At
  <2> QED BY <2>1, <2>2
<1>4. CASE v = s /\ call'[v].g \in Sessions /\ session[call'[v].g].st = "pending"
  <2>1. CASE d = c
    BY <1>2, <1>4, <2>1 DEF Claiming
  <2>2. CASE d # c
    BY <1>2, <1>4, <2>2, GoingRuns
  <2> QED BY <2>1, <2>2
<1> QED BY <1>1, <1>3, <1>4, AskersCome

LEMMA YieldingStays ==
    ASSUME NEW s, NEW G, Stepping(s, G), NEW t \in Slots
    PROVE  Yielding(t)'
BY ParkedYields, RefundYields, ContestYields DEF Yielding, At

-----------------------------------------------------------------------------
(* What a run that confirms a session has found, a step later.             *)
LEMMA ParkersCome ==
    ASSUME NEW s, NEW G, Stepping(s, G), NEW u \in Slots, At(u, "request.park")'
    PROVE  \/ call'[u] = call[u] /\ At(u, "request.park")
           \/ /\ u = s /\ call'[u].g \in Sessions
              /\ session[call'[u].g].st = "none"
<1> USE SteppingFacts
<1>1. CASE call'[u] = call[u]
  BY <1>1 DEF At
<1>2. CASE call'[u] # call[u]
  <2>1. u = s /\ RequestMoves(u) /\ call'[u].at = "request.park"
    BY <1>2, GoingRuns DEF At, RequestLabels
  <2>2. Creates(u)
    BY <2>1 DEF RequestMoves, Requests, Probes, Parks
  <2> QED BY <2>1, <2>2 DEF Creates
<1> QED BY <1>1, <1>2

(* The expert's run looks for a payment after it looked for a hold.        *)
LEMMA FindersCome ==
    ASSUME NEW s, NEW G, Stepping(s, G), NEW t \in Slots, call'[t] # call[t], Expert(t)'
    PROVE  /\ call'[t].at = "accept.secured" =>
                 /\ Expert(t) /\ At(t, "accept.parked") /\ AcceptParked(t)
                 /\ call'[t].g = call[t].g
           /\ call'[t].at = "accept.activate" /\ ~call'[t].row =>
                 /\ Expert(t) /\ At(t, "accept.secured") /\ AcceptSecured(t)
                 /\ call'[t].g = call[t].g
<1> USE SteppingFacts
<1> DEFINE c == call[t]
           d == call'[t]
<1>1. AcceptMoves(t) /\ d.who = "expert"
  BY GoingRuns DEF Expert
<1>2. CASE d.at = "accept.secured"
  <2>1. c.at = "accept.parked" /\ Keeps(t)
    BY <1>1, <1>2
       DEF AcceptMoves, ExpertStarts, StudentStarts, Fresh, FindsHold, FindsPayment, GivesUp,
       Reads, Takes, Settles
  <2> QED BY <1>1, <1>2, <2>1, ReadsAt DEF Keeps, Expert, AcceptLabels, ReadLabels, At
<1>3. CASE d.at = "accept.activate" /\ ~d.row
  <2>1. /\ c.at \in {"accept.parked", "accept.secured", "accept.consumed", "accept.probe"}
        /\ d.who = c.who /\ d.g = c.g
        /\ c.at = "accept.consumed" => ~Charged
    BY <1>1, <1>3
       DEF AcceptMoves, ExpertStarts, StudentStarts, Fresh, FindsHold, FindsPayment, GivesUp,
       Reads, Takes, Settles, At, Keeps
  <2>2. Expert(t) /\ ExpertKnows(t)
    <3>1. c.who = "expert" /\ c.at \in AcceptLabels
      BY <1>1, <2>1 DEF AcceptLabels, ReadLabels
    <3>2. Expert(t)
      BY <3>1 DEF Expert
    <3> QED BY <3>2, Actors
  <2>3. c.at \in {"accept.parked", "accept.secured"}
    BY <2>1, <2>2 DEF ExpertKnows, ExpertLabels, FindLabels
  <2>4. c.at # "accept.parked"
    <3>1. SUFFICES ASSUME c.at = "accept.parked" PROVE FALSE
      OBVIOUS
    <3>2. AcceptParked(t)
      BY <3>1, ReadsAt DEF At
    <3>3. ~Finish(t)
      BY <1>3, Goes DEF Idle
    <3>4. \A l : Goto(t, l) => l = "accept.activate"
      BY <1>3, Goes
    <3>5. ASSUME NEW i, call' = [call EXCEPT ![t].at = "accept.activate", ![t].i = i,
                                             ![t].pays = "held", ![t].row = TRUE]
          PROVE  d.row = TRUE
      BY <3>5 DEF CallsOK, Run
    <3> QED BY <1>3, <3>2, <3>3, <3>4, <3>5 DEF AcceptParked
  <2>5. At(t, "accept.secured")
    BY <2>3, <2>4 DEF At
  <2>6. AcceptSecured(t)
    BY <2>5, ReadsAt
  <2> QED BY <1>3, <2>1, <2>2, <2>5, <2>6
<1> QED BY <1>2, <1>3

LEMMA RequestApart ==
    ASSUME NEW s, NEW G, Stepping(s, G), NEW t \in Slots, Expert(t)',
           call'[t].at \in {"accept.parked", "accept.secured"},
           NEW u \in Slots, At(u, "request.park")', call'[u].g = call'[t].g
    PROVE  FALSE
<1> USE SteppingFacts
<1> DEFINE d == call'[t]
<1>1. CASE call'[t] = call[t]
  <2>1. Expert(t) /\ call[t].at \in {"accept.parked", "accept.secured"}
    BY <1>1 DEF Expert
  <2>2. session[call[t].g].st # "none"
    BY <2>1, Actors
  <2>3. call'[u] = call[u] /\ At(u, "request.park")
    BY <1>1, <2>2, ParkersCome
  <2> QED BY <1>1, <2>1, <2>3 DEF Finding
<1>2. CASE call'[t] # call[t]
  <2>1. t # u
    BY DEF At
  <2>2. At(u, "request.park") /\ call[u].g = d.g
    <3>1. t = s
      BY <1>2, GoingRuns
    <3> QED BY <2>1, <3>1, ParkersCome
  <2>3. CASE d.at = "accept.parked"
    <3>1. AcceptAsExpert(t, d.g)
      BY <1>2, <2>3, CallersCome
    <3>2. Incomplete(d.g)
      BY <2>2 DEF Incomplete, At, RequestLabels
    <3> QED BY <3>1, <3>2 DEF AcceptAsExpert, Stepping, MInv, PaymentsBack
  <2>4. CASE d.at = "accept.secured"
    <3>1. Expert(t) /\ call[t].at = "accept.parked" /\ d.g = call[t].g
      BY <1>2, <2>4, FindersCome DEF At
    <3> QED BY <2>2, <3>1 DEF Finding
  <2> QED BY <2>3, <2>4
<1> QED BY <1>1, <1>2

LEMMA NothingParked ==
    ASSUME NEW s, NEW G, Stepping(s, G), NEW t \in Slots, Expert(t)',
           call'[t].at = "accept.secured"
    PROVE  \A i \in Intents : ~(ledger'[i].charge = "withheld" /\ ledger'[i].g = call'[t].g)
<1> USE SteppingFacts
<1> SUFFICES ASSUME NEW i \in Intents, ledger'[i].charge = "withheld",
                    ledger'[i].g = call'[t].g
             PROVE  FALSE
  OBVIOUS
<1>1. CASE call'[t] = call[t]
  <2>1. Expert(t) /\ call[t].at = "accept.secured" /\ ledger'[i].g = call[t].g
    BY <1>1 DEF Expert
  <2>2. Parked(call[t].g) = {}
    BY <2>1 DEF Finding
  <2>3. ~(ledger[i].charge = "withheld" /\ ledger[i].g = call[t].g)
    BY <2>2 DEF Parked, RowsOf
  <2>4. RowAdded(i, G)
    BY <2>1, <2>3 DEF Frame, LedgerFrame, RowStays, RowDeleted
  <2>5. PICK u \in Slots : At(u, "request.park") /\ call[u].g = G
    BY <2>4 DEF RowAdded, Someone, At
  <2>6. call[u].g = call[t].g
    BY <2>1, <2>4, <2>5 DEF RowAdded
  <2> QED BY <2>1, <2>5, <2>6 DEF Finding
<1>2. CASE call'[t] # call[t]
  <2>1. AcceptParked(t) /\ call'[t].g = call[t].g
    BY <1>2, FindersCome
  <2>2. Parked(call[t].g) = {}
    <3>1. ~Finish(t)
      BY Goes DEF Idle
    <3>2. ASSUME NEW j, call' = [call EXCEPT ![t].at = "accept.activate", ![t].i = j,
                                             ![t].pays = "held", ![t].row = TRUE]
          PROVE  call'[t].at = "accept.activate"
      BY <3>2 DEF CallsOK, Run
    <3> QED BY <2>1, <3>1, <3>2 DEF AcceptParked
  <2>3. UNCHANGED ledger
    BY <2>1 DEF AcceptParked
  <2> QED BY <2>1, <2>2, <2>3 DEF Parked, RowsOf
<1> QED BY <1>1, <1>2

(* An expert who confirms a request without a hold comes too late.         *)
LEMMA SecuredShut ==
    ASSUME NEW s, NEW G, Stepping(s, G), NEW t \in Slots, Expert(t)',
           call'[t].at = "accept.activate", ~call'[t].row
    PROVE  Shut(call[t].g)' /\ call'[t].g = call[t].g
<1> USE SteppingFacts
<1> DEFINE g == call[t].g
<1>1. CASE call'[t] = call[t]
  <2>1. Expert(t) /\ Shut(g)
    BY <1>1 DEF Finding, Expert
  <2>2. g \in Sessions
    BY <2>1, Actors
  <2> QED BY <1>1, <2>1, <2>2, ShutStays
<1>2. CASE call'[t] # call[t]
  <2>1. /\ Expert(t) /\ At(t, "accept.secured") /\ AcceptSecured(t)
        /\ call'[t].g = g
    BY <1>2, FindersCome
  <2>2. /\ g \in Sessions /\ session[g].st # "none" /\ session[g].by = "student"
        /\ session[g].mode = "card" /\ session[g].st # "active"
    <3>1. g \in Sessions /\ session[g].st # "none" /\ ExpertKnows(t)
      BY <2>1, Actors
    <3> QED BY <2>1, <3>1 DEF ExpertKnows, At, Unconfirmed, Deciding
  <2>3. Secured(g)
    <3>1. ~Finish(t)
      BY Goes DEF Idle
    <3> QED BY <2>1, <3>1 DEF AcceptSecured
  <2>4. PICK j \in Intents : /\ ledger[j].g = g
                             /\ ledger[j].charge \in {"completed", "pending", "withheld"}
    BY <2>3 DEF Secured, RowsOf
  <2>5. ledger[j].charge # "withheld"
    BY <2>1, <2>4 DEF Finding, At, Parked, RowsOf
  <2>6. stripe[j].g = NoSession
    <3>1. Recorded(j) /\ Live(j)
      BY <2>4 DEF Recorded
    <3>2. PICK i \in Intents : Live(i) /\ stripe[i].g = NoSession
      BY <2>2 DEF JInv, Payments, RequestRoot
    <3> QED BY <3>1, <3>2 DEF PayRule
  <2>7. ledger[j].charge # "completed"
    BY <2>2, <2>4, <2>6 DEF BookRule, ReturnRule, Active
  <2>8. Shut(g)
    BY <2>4, <2>5, <2>6, <2>7 DEF IntentRule
  <2> QED BY <2>1, <2>2, <2>8, ShutStays
<1> QED BY <1>1, <1>2

LEMMA StudentFinds ==
    ASSUME NEW s, NEW G, Stepping(s, G), NEW t \in Slots, Student(t)',
           call'[t].at = "accept.activate"
    PROVE  call'[t].pays # "none"
<1> USE SteppingFacts
<1>1. CASE call'[t] = call[t]
  BY <1>1 DEF Finding, Student
<1>2. CASE call'[t] # call[t]
  <2>1. AcceptMoves(t) /\ call'[t].who = "student"
    BY <1>2, GoingRuns DEF Student
  <2>2. \/ call'[t].pays # "none"
        \/ call[t].at = "accept.consumed" /\ ~Charged
        \/ call[t].at \in {"accept.parked", "accept.secured"} /\ call[t].who = "student"
    BY <2>1
       DEF AcceptMoves, ExpertStarts, StudentStarts, Fresh, FindsHold, FindsPayment, GivesUp,
       Reads, Takes, Settles, At, Keeps
  <2>3. ASSUME call[t].at \in {"accept.parked", "accept.secured"}, call[t].who = "student"
        PROVE  FALSE
    <3>1. Student(t)
      BY <2>3 DEF Student, AcceptLabels, ReadLabels
    <3> QED BY <2>3, <3>1, Actors DEF StudentKnows, StudentLabels
  <2> QED BY <2>2, <2>3
<1> QED BY <1>1, <1>2

LEMMA FindingStays ==
    ASSUME NEW s, NEW G, Stepping(s, G), NEW t \in Slots
    PROVE  Finding(t)'
<1>1. Expert(t)' /\ call'[t].at \in {"accept.parked", "accept.secured"} =>
          \A u \in Slots : At(u, "request.park")' => call'[u].g # call'[t].g
  BY RequestApart
<1>2. Expert(t)' /\ call'[t].at = "accept.secured" => Parked(call[t].g)' = {}
  BY NothingParked DEF Parked, RowsOf
<1>3. Expert(t)' /\ call'[t].at = "accept.activate" /\ ~call'[t].row => Shut(call[t].g)'
  BY SecuredShut
<1> QED BY <1>1, <1>2, <1>3, StudentFinds DEF Finding

-----------------------------------------------------------------------------
(* What a confirmed session has been paid with, a step later.              *)
LEMMA PaymentLasts ==
    ASSUME NEW s, NEW G, Stepping(s, G), NEW g \in Sessions, NEW i \in Intents, PaysFor(i, g)
    PROVE  PaysFor(i, g)'
<1> USE SteppingFacts
<1>1. Live(i)
  BY DEF PaysFor, Live
<1>2. stripe'[i].g = stripe[i].g
  BY <1>1, IntentStays
<1>3. CASE stripe[i].g = g /\ stripe[i].st \in {"processing", "succeeded", "failed"}
  BY <1>1, <1>2, <1>3, IntentStays DEF PaysFor
<1>4. CASE stripe[i].g = NoSession /\ ledger[i].g = g /\ stripe[i].st = "succeeded"
  <2>1. stripe'[i].st = "succeeded"
    BY <1>1, <1>4, IntentStays
  <2>2. ledger'[i].g = g
    BY <1>4, RowStaysPut
  <2> QED BY <1>2, <1>4, <2>1, <2>2 DEF PaysFor
<1> QED BY <1>3, <1>4 DEF PaysFor

(* A run that confirms a session goes on, has its payment, or gives up.    *)
LEMMA ConfirmingOn ==
    ASSUME NEW s, NEW G, Stepping(s, G), NEW g \in Sessions, NEW t \in Slots,
           call[t].at \in ConfirmingLabels, call[t].g = g
    PROVE  \/ call'[t].at \in ConfirmingLabels /\ call'[t].g = g
           \/ \E i \in Intents : PaysFor(i, g)'
           \/ session'[g].st # "active"
<1> USE SteppingFacts
<1> DEFINE c == call[t]
           d == call'[t]
<1>g. \A l : Goto(t, l) => d.at = l /\ d.i = c.i /\ d.g = c.g
  BY Goes DEF Keeps
<1>1. CASE d = c
  BY <1>1
<1>2. CASE d # c
  <2>1. \/ AcceptInsert(t) \/ AcceptInsertFails(t) \/ AcceptAbort(t) \/ AcceptCapture(t)
        \/ AcceptNotCaptured(t) \/ AcceptCapProbe(t) \/ AcceptCapCancel(t)
        \/ AcceptCapStuck(t) \/ AcceptCapDelete(t) \/ AcceptRestore(t)
    BY <1>2, ConfirmsAt
  <2>2. CASE AcceptRestore(t)
    <3>1. session \in [Sessions -> Session]
      BY GoingFacts DEF SessionOK
    <3> QED BY <2>2, <3>1 DEF AcceptRestore, MoveSession, SetSession, Session
  <2>3. CASE ~AcceptRestore(t)
    <3>1. PICK l \in ConfirmingLabels \cup {"accept.book"} : Goto(t, l)
      BY <2>1, <2>3
         DEF AcceptInsert, AcceptInsertFails, AcceptAbort, AcceptCapture, AcceptNotCaptured,
         AcceptCapProbe, AcceptCapCancel, AcceptCapStuck, AcceptCapDelete, ConfirmingLabels
    <3>2. d.at = l /\ d.i = c.i /\ d.g = g
      BY <1>g, <3>1
    <3>3. CASE l = "accept.book"
      <4>1. Outcome(t)'
        BY OutcomeStays
      <4>2. stripe'[c.i].st = "succeeded"
        BY <3>2, <3>3, <4>1 DEF Outcome, SucceededLabels
      <4>3. c.i \in Intents /\ Live(c.i) /\ c.at \in AcceptLabels
        BY KnowsOK DEF WithIntent, AcceptLabels
      <4>4. CASE Expert(t)
        <5>1. ledger[c.i].g = g /\ stripe[c.i].g = NoSession
          BY <4>4, Actors DEF ExpertKnows, ExpertHolds
        <5>2. ledger'[c.i].g = g /\ stripe'[c.i].g = NoSession
          BY <4>3, <5>1, RowStaysPut, IntentStays
        <5> QED BY <4>2, <4>3, <5>2 DEF PaysFor
      <4>5. CASE Student(t)
        <5>1. stripe[c.i].g = g
          BY <4>5, Actors DEF StudentHolds
        <5>2. stripe'[c.i].g = g
          BY <4>3, <5>1, IntentStays
        <5> QED BY <4>2, <4>3, <5>2 DEF PaysFor
      <4> QED BY <4>3, <4>4, <4>5, Actors
    <3> QED BY <3>1, <3>2, <3>3
  <2> QED BY <2>2, <2>3
<1> QED BY <1>1, <1>2

LEMMA BackRuleStays ==
    ASSUME NEW s, NEW G, Stepping(s, G), NEW g \in Sessions
    PROVE  BackRule(g)'
<1> USE SteppingFacts
<1> SUFFICES ASSUME session'[g].st = "active"
             PROVE  \/ \E t \in Slots : call'[t].at \in ConfirmingLabels /\ call'[t].g = g
                    \/ \E i \in Intents : PaysFor(i, g)'
  BY DEF BackRule, Active
<1>1. CASE session[g].st = "active"
  <2>1. \/ \E t \in Slots : call[t].at \in ConfirmingLabels /\ call[t].g = g
        \/ \E i \in Intents : PaysFor(i, g)
    BY <1>1 DEF Stepping, MInv, BackRule, Active
  <2> QED BY <2>1, PaymentLasts, ConfirmingOn
<1>2. CASE session[g].st # "active"
  <2>1. /\ s \in Slots /\ At(s, "accept.activate") /\ call'[s].g = g
        /\ UNCHANGED <<ledger, stripe, events>> /\ ConfirmsPaid(s, g)
    BY <1>2, WhoActivates
  <2>2. CASE call'[s].at \in {"accept.insert", "accept.collect"}
    BY <2>1, <2>2 DEF ConfirmingLabels
  <2>3. CASE call[s].pays \in {"settled", "settling"} /\ call[s].i \in Intents
             /\ stripe[call[s].i].g = g
    <3>1. PICK i \in Intents : call[s].i = i
      BY <2>3
    <3>2. stripe[i].st \in {"processing", "succeeded", "failed"}
      BY <2>1, <2>3, <3>1 DEF Knows2, Paying, PaysLabels, At
    <3>3. PaysFor(i, g)'
      BY <2>1, <2>3, <3>1, <3>2 DEF PaysFor
    <3> QED BY <3>3
  <2> QED BY <2>1, <2>2, <2>3 DEF ConfirmsPaid
<1> QED BY <1>1, <1>2

-----------------------------------------------------------------------------
LEMMA BacksGoing ==
    ASSUME NEW s, NEW G, Stepping(s, G)
    PROVE  MInv'
<1> USE SteppingFacts
<1>1. LInv'
  BY BuysGoing
<1>2. PaymentsBack' /\ Plain'
  <2>1. EnvSame /\ PaymentsBack /\ Plain
    BY DEF Going, Stepping, MInv
  <2>2. PaymentsHold'
    BY <1>1 DEF LInv
  <2>3. Advertised'
    BY <2>1 DEF EnvSame, Advertised
  <2> QED BY <2>1, <2>2, <2>3 DEF PaymentsBack, Plain
<1>3. ASSUME NEW i \in Intents PROVE ReturnRule(i)'
  BY ReturnRuleStays
<1>4. ASSUME NEW g \in Sessions PROVE BackRule(g)'
  BY BackRuleStays
<1>5. ASSUME NEW t \in Slots PROVE Sending(t)' /\ Returning(t)' /\ Yielding(t)' /\ Finding(t)'
  BY SendingStays, ReturningStays, YieldingStays, FindingStays
<1> QED BY <1>1, <1>2, <1>3, <1>4, <1>5 DEF MInv

LEMMA BacksStep == ASSUME MInv, Next PROVE MInv'
<1>1. LInv /\ KInv /\ JInv /\ BInv /\ TInv /\ Plain
  BY DEF MInv, LInv, KInv, JInv, BInv
<1>2. JInv' /\ EnvSame
  BY <1>1, PaymentStep, TypesStep
<1>3. ~Crash
  BY <1>1 DEF Crash, Fault, Plain
<1>4. MoneyFrame /\ BackFrame
  BY <1>1, <1>3, MoneyStep, BackStep
<1>5. PICK s, G : Frame(s, G)
  BY <1>1, <1>3, FrameStep
<1>6. Stepping(s, G)
  BY <1>1, <1>2, <1>3, <1>4, <1>5 DEF Stepping, Going
<1> QED BY <1>6, BacksGoing

LEMMA BacksInit == Init /\ PaymentsBack /\ Plain => MInv
<1> SUFFICES ASSUME Init, PaymentsBack, Plain PROVE MInv
  OBVIOUS
<1>1. LInv
  BY BuysInit DEF PaymentsBack
<1>2. /\ \A g \in Sessions : session[g].st = "none"
      /\ \A i \in Intents : /\ stripe[i].g = NoSession /\ stripe[i].st = "none"
                            /\ ~stripe[i].refunded /\ ~stripe[i].old
                            /\ ledger[i].g = NoSession
      /\ \A s \in Slots : call[s].at = "idle"
  BY DEF Init, Idle
<1>3. ASSUME NEW i \in Intents PROVE ReturnRule(i)
  BY <1>2, SessionAssumption DEF ReturnRule, Active
<1>4. ASSUME NEW g \in Sessions PROVE BackRule(g)
  BY <1>2 DEF BackRule, Active
<1>5. ASSUME NEW s \in Slots PROVE Sending(s) /\ Returning(s) /\ Yielding(s) /\ Finding(s)
  BY <1>2
     DEF Sending, Sends, SendingLabels, BookLabels, Returning, MoneyBackLabels, StrayLabels,
     Yielding, CancellingLabels, Contested, Finding
<1> QED BY <1>1, <1>3, <1>4, <1>5 DEF MInv

LEMMA BacksAlways == Spec /\ PaymentsBack => [](Plain => MInv)
<1> DEFINE N == Plain => MInv
<1>1. Init /\ PaymentsBack => N
  BY BacksInit
<1>2. LInv /\ LInv' /\ N /\ [Next]_sessionVars => N'
  <2> SUFFICES ASSUME LInv, LInv', N, [Next]_sessionVars PROVE N'
    OBVIOUS
  <2>1. CASE Next
    <3>1. EnvSame
      BY <2>1, TypesStep DEF LInv, KInv, JInv, BInv
    <3>2. Plain' => Plain
      BY <3>1 DEF Plain, Advertised, EnvSame, Faults
    <3> QED BY <2>1, <3>2, BacksStep
  <2>2. CASE UNCHANGED sessionVars
    <3>0. UNCHANGED <<session, ledger, stripe, events, call, world>>
      BY <2>2 DEF sessionVars
    <3>1. (Plain' => Plain) /\ (PaymentsBack => PaymentsBack')
      BY <3>0
         DEF Plain, Advertised, Faults, PaymentsBack, PaymentsHold, PaymentsClear, OnePayment,
         Calls, Outcomes
    <3>2. ASSUME MInv, NEW i \in Intents PROVE ReturnRule(i)'
      BY <3>0, <3>2
         DEF MInv, ReturnRule, Active, Calls, Over, Unasked, Asks, Student, Wanted, At, Told,
         Tells, Failing
    <3>3. ASSUME MInv, NEW g \in Sessions PROVE BackRule(g)'
      BY <3>0, <3>3 DEF MInv, BackRule, Active, PaysFor
    <3>4. ASSUME MInv, NEW s \in Slots
          PROVE  Sending(s)' /\ Returning(s)' /\ Yielding(s)' /\ Finding(s)'
      BY <3>0, <3>4
         DEF MInv, Sending, Sends, Calls, Returning, ReturnsTo, Over, Unasked, Asks, Student,
         Active, Yielding, Finding, Expert, At, Parked, RowsOf, Shut
    <3> QED BY <3>0, <3>1, <3>2, <3>3, <3>4 DEF MInv, Plain
  <2> QED BY <2>1, <2>2
<1>3. PaymentsBack => PaymentsHold
  BY DEF PaymentsBack
<1> HIDE DEF N
<1>4. Spec /\ PaymentsBack => []N
  BY <1>1, <1>2, <1>3, BuysAlways, PTL DEF Spec
<1> QED BY <1>4 DEF N

(* Where PaymentsBack holds too, every active session has been paid for    *)
(* once nothing is left to do: an intent that its row or its metadata ties *)
(* to the session was taken and not given back, or still clears, whatever  *)
(* acceptances, cancellations, declines, wallet failures, sweeps and       *)
(* refunds run against each other.                                         *)
THEOREM SessionsAreBacked == Spec /\ PaymentsBack => []SessionIsBacked
<1>1. (Plain => MInv) => SessionIsBacked
  <2> SUFFICES ASSUME MInv, Quiet, NEW g \in Sessions, session[g].st = "active"
               PROVE  \E i \in Intents :
                          /\ ledger[i].g = g \/ stripe[i].g = g
                          /\ Taken(i) \/ stripe[i].st = "processing"
    BY DEF SessionIsBacked, Plain
  <2>1. events = {} /\ \A s \in Slots : call[s].at = "idle"
    BY DEF Quiet, At
  <2>2. PICK i \in Intents : PaysFor(i, g)
    <3>1. \A s \in Slots : call[s].at \notin ConfirmingLabels
      BY <2>1 DEF ConfirmingLabels
    <3> QED BY <3>1 DEF MInv, BackRule, Active
  <2>3. ReturnRule(i)
    BY DEF MInv
  <2>4. CASE stripe[i].g = g
    <3>1. Active(stripe[i].g)
      BY <2>4 DEF Active
    <3>2. ~stripe[i].refunded
      BY <2>3, <3>1 DEF ReturnRule, Over
    <3>3. stripe[i].st # "failed"
      <4>1. ~Told(i)
        BY <2>1 DEF Told, Tells, Failing, FailedLabels, ReleaseLabels
      <4> QED BY <2>3, <3>1, <4>1 DEF ReturnRule, Wanted
    <3>4. stripe[i].st \in {"processing", "succeeded"}
      BY <2>2, <2>4, <3>3, SessionAssumption DEF PaysFor
    <3> QED BY <2>4, <3>2, <3>4 DEF Taken
  <2>5. CASE stripe[i].g # g
    BY <2>2, <2>3, <2>5 DEF PaysFor, ReturnRule, Taken
  <2> QED BY <2>4, <2>5
<1> QED BY <1>1, BacksAlways, PTL
=============================================================================
