---------------------------- MODULE SeatCapProofs -----------------------------
(***************************************************************************)
(* A seminar never has more students than its cap, for any students,       *)
(* intents and handlers in flight.  A seat is claimed on the document      *)
(* itself; what has to be shown is that the claim still stands when the    *)
(* run that made it adds the student once more, without a look at the cap. *)
(***************************************************************************)
EXTENDS SeminarSeatsProofs

(* The environments of the theorem.  No payment fails while it is settled; *)
(* no student leaves, goes through checkout again or submits an intent an  *)
(* hour old while a run works for them, because each gives a seat away     *)
(* that the run then confirms; the host invites nobody to a free seminar,  *)
(* which looks at no cap, and changes the cap at most to a larger one.     *)
AtMost(a, b) == b = Unlimited \/ (a # Unlimited /\ a <= b)
CapGrowsTo(c) == world.env.newCaps \subseteq {c} /\ AtMost(world.env.cap, c)
ClaimsStand ==
    /\ PaymentsHold
    /\ Calls \cap {"leave", "again", "late"} = {}
    /\ "invite" \in Calls => Paid
    /\ \E c \in Caps : CapGrowsTo(c)

-----------------------------------------------------------------------------
(* The parts of the invariant.                                             *)

(* An intent somebody went through checkout for. *)
Live(i) == stripe[i].st # "none"
Cancelled(i) == stripe[i].st = "canceled"
(* One that no run will book any more. *)
Gone(i) == Cancelled(i) \/ stripe[i].old

(* Each student has one intent; only those that exist have events and      *)
(* rows, and only a released hold has failed.                              *)
IntentsOwned ==
    /\ \A i \in Intents : Live(i) => stripe[i].u \in Students
    /\ \A i \in Intents : ~Live(i) => stripe[i].u = NoOne /\ ~stripe[i].old /\ ~Recorded(i)
    /\ \A i, j \in Intents : stripe[i].u = stripe[j].u /\ Live(i) => i = j
    /\ \A i \in Intents, k \in {"succeeded", "failed"} : <<k, i>> \in events =>
          Live(i) /\ (k = "failed" => Cancelled(i))
    /\ ~Paid => \A i \in Intents : ~Live(i)

(* The cap never goes back. *)
CapGrows ==
    \A c \in Caps : CapGrowsTo(c) => AtMost(seminar.cap, c)

Buying == ClaimLabels \cup CaptureLabels \cup PayLabels

(* Where a run has looked for the student's payment: found it in some      *)
(* state, found a hold, or found or made it money.                         *)
FoundLabels == {"register.count", "register.take", "register.lookup"}
HeldLabels == {"register.insert", "register.abort", "register.dup",
               "register.capture", "register.capFail"}
MoneyLabels == {"pay.count", "pay.take", "pay.approve", "pay.lost", "pay.insert",
                "pay.dup", "pay.confirm"}

(* Where a run gives up an intent. *)
GiveUpLabels ==
    {"failed.row", "failed.again", "release.paid", "release.unenroll",
     "sweep.succeeded", "sweep.authorized", "sweep.processing",
     "sweep.enrolled", "sweep.settle", "sweep.fail", "sweep.refund",
     "sweep.refunded", "sweep.cancel", "sweep.released", "orphan.held",
     "orphan.cancel", "orphan.delivered"}
ReleaseLabels == {"release.paid", "release.unenroll"}

(* Where a run counts on the cap it read. *)
CapLabels ==
    {"register.full", "register.find", "register.join", "register.consumed",
     "register.probe", "register.count", "register.take", "pay.consumed",
     "pay.probe", "pay.clearing", "pay.count", "pay.take", "offer.full",
     "offer.pick", "offer.count", "offer.take"}

FreeOffers == {"offer.count", "offer.take", "offer.approve", "offer.confirm"}
LeaveLabels == {"leave.find", "leave.refund", "leave.row", "leave.book", "leave.unenroll"}

(* A run works for the one intent of its student, which is not old.        *)
OwnsIntent(c) ==
    /\ c.i \in Intents => Live(c.i)
    /\ c.at \in Buying /\ c.i \in Intents => stripe[c.i].u = c.u /\ ~stripe[c.i].old

(* What it found of the payment is still so, or better.                    *)
KnowsPayment(c) ==
    /\ c.at \in Buying /\ c.pays \in {"settling", "settled"} =>
          stripe[c.i].st \in {"processing", "succeeded"}
    /\ Paid /\ c.at \in FoundLabels => c.pays # "none"
    /\ c.at \in HeldLabels => c.pays = "held"
    /\ c.at \in MoneyLabels \/ (Paid /\ c.at = "register.confirm") =>
          c.pays \in {"settling", "settled"}

(* A seat is taken back only for an intent that is not booked any more.    *)
GivesUp(c) ==
    /\ c.at \in GiveUpLabels \/ c.ret = "failed.again" => c.i \in Intents /\ Gone(c.i)
    /\ c.at \in ReleaseLabels => c.u = stripe[c.i].u

(* Labels that need a price, a free seminar, or somebody to leave.         *)
AtPrice(c) ==
    /\ c.at \notin LeaveLabels
    /\ Paid => c.at \notin FreeOffers
    /\ ~Paid => c.i \notin Intents /\ c.at \notin {"invite.find", "invite.send"}

(* The cap a run counts on is not above that of the document.              *)
ReadsCap(c) ==
    /\ c.at \in CapLabels => AtMost(c.cap, seminar.cap)
    /\ c.at = "update.write" => AtMost(seminar.cap, c.cap) /\
                                \A b \in Caps : CapGrowsTo(b) => c.cap = b

RunInv(c) ==
    OwnsIntent(c) /\ KnowsPayment(c) /\ GivesUp(c) /\ AtPrice(c) /\ ReadsCap(c)

Steady == IntentsOwned /\ CapGrows /\ \A s \in Slots : RunInv(call[s])

-----------------------------------------------------------------------------
(* A run that has claimed a seat and not given it back. *)
Holding ==
    {"register.lookup", "register.insert", "register.abort", "register.dup",
     "register.capture", "register.capFail", "register.confirm",
     "pay.approve", "pay.lost", "pay.insert", "pay.dup", "pay.confirm",
     "offer.approve", "offer.confirm"}
Claimant(s) ==
    IF call[s].at \in FreeOffers THEN requests[call[s].r].u ELSE call[s].u

(* A hold that was released under it: the run will not come to confirm.    *)
Doomed(s) == call[s].pays = "held" /\ Cancelled(call[s].i)

(* A claim stands, and nobody else has claimed that student's seat.        *)
ClaimsHeld ==
    /\ \A s \in Slots : call[s].at \in Holding /\ seminar.status = "active" =>
          Claimant(s) \in seminar.enrolled \/ Doomed(s)
    /\ \A s, z \in Slots :
          /\ call[s].at \in Holding /\ call[z].at \in Holding /\ s # z
          /\ Claimant(s) = Claimant(z)
          => Paid /\ Cancelled(call[s].i)

Fits == seminar.cap # Unlimited => Cardinality(seminar.enrolled) <= seminar.cap

CapInv == TInv /\ ClaimsStand /\ Steady /\ ClaimsHeld /\ Fits

-----------------------------------------------------------------------------
(* What a step does to the documents and to Stripe: an intent that exists  *)
(* keeps its student, its end and its age, and none grows old under a run. *)
Earned == {"processing", "succeeded"}
IntentsKept == \A i \in Intents : Live(i) =>
    /\ Live(i)' /\ stripe'[i].u = stripe[i].u
    /\ Cancelled(i) => Cancelled(i)'
    /\ stripe[i].st \in Earned => stripe'[i].st \in Earned
    /\ stripe[i].old => stripe'[i].old
    /\ stripe'[i].old => stripe[i].old \/ \A z \in Slots : call[z].i # i
RowsKept == \A r \in RequestIds :
    requests[r].status # "none" => requests'[r].u = requests[r].u
DataMoves == EnvSame /\ IntentsKept /\ IntentsOwned' /\ RowsKept

CapKept == \/ seminar'.cap = seminar.cap
           \/ /\ seminar'.cap \in Caps /\ AtMost(seminar.cap, seminar'.cap)
              /\ \A c \in Caps : CapGrowsTo(c) => seminar'.cap = c

OneRun(s) == \A z \in Slots \ {s} : call'[z] = call[z]

(* What a step does to the seats: nothing, and its run keeps its claim or  *)
(* has none; or it claims a seat, gives one back, or confirms one.         *)
Rests(s) ==
    /\ UNCHANGED <<seminar.enrolled, seminar.status>>
    /\ call'[s].at \in Holding =>
          /\ call[s].at \in Holding /\ Claimant(s)' = Claimant(s)
          /\ call'[s].i = call[s].i
          /\ call'[s].pays = call[s].pays \/ ~Cancelled(call[s].i)
Takes(s) ==
    /\ call[s].at \in {"register.take", "pay.take", "offer.take"}
    /\ SeatFree(s, Claimant(s)) /\ SetEnrolled(seminar.enrolled \cup {Claimant(s)})
    /\ Claimant(s)' = Claimant(s) /\ call'[s].i = call[s].i
Gives(s) ==
    /\ call[s].at \in Holding \cup {"release.unenroll"}
    /\ Unenroll(Claimant(s)) /\ call'[s].at \notin Holding
Confirms(s) ==
    /\ call[s].at \in {"register.confirm", "pay.confirm", "offer.confirm"}
    /\ AddStudent(Claimant(s)) /\ call'[s].at \notin Holding

Moves(s) ==
    /\ DataMoves /\ CapKept /\ OneRun(s) /\ RunInv(call[s])'
    /\ Rests(s) \/ Takes(s) \/ Gives(s) \/ Confirms(s)

-----------------------------------------------------------------------------
(* Caps.                                                                   *)
LEMMA AtMostOrders ==
    ASSUME NEW a \in Caps, NEW b \in Caps, NEW c \in Caps
    PROVE  /\ AtMost(a, a)
           /\ AtMost(a, b) /\ AtMost(b, c) => AtMost(a, c)
BY StoreAssumption DEF AtMost, Caps

(* What the environment fixes stays so. *)
LEMMA EnvKeeps ==
    ASSUME EnvSame
    PROVE  /\ Paid' = Paid /\ Calls' = Calls /\ Faults' = Faults
           /\ \A c : CapGrowsTo(c)' <=> CapGrowsTo(c)
           /\ ClaimsStand' <=> ClaimsStand
BY DEF EnvSame, Paid, Calls, Faults, CapGrowsTo, ClaimsStand, PaymentsHold

(* What a run knows stays true, while its intent does not grow old.        *)
LEMMA RunKeeps ==
    ASSUME CapInv, DataMoves, CapKept, NEW c, RunInv(c), c.cap \in Caps,
           c.at \in Buying /\ c.pays \in {"settling", "settled"} => c.i \in Intents,
           c.at \in Buying /\ c.i \in Intents => ~stripe'[c.i].old
    PROVE  RunInv(c)'
<1>1. EnvSame /\ IntentsKept
  BY DEF DataMoves
<1>2. seminar.cap \in Caps /\ seminar'.cap \in Caps
  BY DEF CapInv, TInv, DataOK, SeminarOK, Seminar, CapKept
<1>3. Paid' = Paid /\ \A b : CapGrowsTo(b)' <=> CapGrowsTo(b)
  BY <1>1, EnvKeeps
<1>4. OwnsIntent(c)'
  BY <1>1 DEF RunInv, OwnsIntent, IntentsKept
<1>5. KnowsPayment(c)'
  BY <1>1, <1>3 DEF RunInv, KnowsPayment, OwnsIntent, IntentsKept, Earned
<1>6. GivesUp(c)'
  <2>1. ReleaseLabels \subseteq GiveUpLabels
    BY DEF ReleaseLabels, GiveUpLabels
  <2> QED
    BY <1>1, <2>1 DEF RunInv, GivesUp, OwnsIntent, IntentsKept, Gone
<1>7. AtPrice(c)'
  BY <1>1, <1>3 DEF RunInv, AtPrice
<1>8. ReadsCap(c)'
  <2>1. c.at \in CapLabels => AtMost(c.cap, seminar'.cap)
    BY <1>1, <1>2, AtMostOrders DEF RunInv, ReadsCap, CapKept
  <2>2. c.at = "update.write" => AtMost(seminar'.cap, c.cap)
    BY <1>1, <1>2, AtMostOrders DEF RunInv, ReadsCap, CapKept, CapInv, ClaimsStand
  <2> QED
    BY <1>1, <1>3, <2>1, <2>2 DEF RunInv, ReadsCap
<1> QED
  BY <1>4, <1>5, <1>6, <1>7, <1>8 DEF RunInv

LEMMA RunStands ==
    ASSUME CapInv, DataMoves, CapKept, NEW z \in Slots, call'[z] = call[z]
    PROVE  RunInv(call[z])'
<1>0. PICK c : c = call[z] /\ c = call'[z]
  OBVIOUS
<1>1. RunInv(c) /\ c.cap \in Caps
  BY <1>0 DEF CapInv, Steady, TInv, CallsOK, Run
<1>2. c.at \in Buying /\ c.pays \in {"settling", "settled"} => c.i \in Intents
  BY <1>0 DEF CapInv, TInv, CallsOK, SlotOK
<1>3. c.at \in Buying /\ c.i \in Intents => ~stripe'[c.i].old
  BY <1>0, <1>1 DEF RunInv, OwnsIntent, DataMoves, IntentsKept
<1>4. RunInv(c)'
  BY <1>1, <1>2, <1>3, RunKeeps
<1> QED
  BY <1>0, <1>4

-----------------------------------------------------------------------------
(* The documents.                                                          *)

(* Charge rows are written for intents that exist only. *)
RowsLive == \A i \in Intents : Recorded(i)' => Recorded(i) \/ Live(i)

LEMMA RowsAreLive ==
    ASSUME CapInv
    PROVE  /\ UNCHANGED ledger => RowsLive
           /\ \A i, st : Live(i) /\ SetCharge(i, st) => RowsLive
           /\ \A i, st : st # "none" /\ MoveCharge(i, st) => RowsLive
           /\ \A i : AppendRefund(i) => RowsLive
<1>1. ledger \in [Intents -> Ledger]
  BY DEF CapInv, TInv, DataOK, LedgerOK
<1>2. ASSUME NEW i, NEW st, st # "none", MoveCharge(i, st)
      PROVE  RowsLive
  BY <1>1, <1>2 DEF RowsLive, Recorded, MoveCharge, SetCharge, Ledger
<1>3. ASSUME NEW i, AppendRefund(i)
      PROVE  RowsLive
  BY <1>1, <1>3 DEF RowsLive, Recorded, AppendRefund, Ledger
<1>4. ASSUME NEW i, NEW st, Live(i), SetCharge(i, st)
      PROVE  RowsLive
  BY <1>1, <1>4 DEF RowsLive, Recorded, SetCharge, Ledger
<1> QED
  BY <1>1, <1>2, <1>3, <1>4 DEF RowsLive, Recorded

(* Requests keep their student. *)
LEMMA RequestsKeep ==
    ASSUME CapInv
    PROVE  /\ UNCHANGED requests => RowsKept
           /\ \A r, st : SetStatus(r, st) => RowsKept
           /\ \A r, from, st : MoveStatus(r, from, st) => RowsKept
           /\ \A r \in NextRequest : \A u, st : InsertRequest(r, u, st) => RowsKept
<1>1. requests \in [RequestIds -> Request]
  BY DEF CapInv, TInv, DataOK, RequestsOK
<1>2. ASSUME NEW r, NEW st, SetStatus(r, st)
      PROVE  RowsKept
  BY <1>1, <1>2 DEF RowsKept, SetStatus, Request
<1>3. ASSUME NEW r \in NextRequest, NEW u, NEW st, InsertRequest(r, u, st)
      PROVE  RowsKept
  BY <1>1, <1>3 DEF RowsKept, InsertRequest, NextRequest, RowsOf
<1> QED
  BY <1>2, <1>3 DEF RowsKept, MoveStatus

(* Stripe and its events change in few ways.                               *)
LEMMA StripeSame ==
    ASSUME CapInv, EnvSame, RowsLive, UNCHANGED stripe, events' \subseteq events
    PROVE  IntentsKept /\ IntentsOwned'
<1>1. \A i \in Intents : Live(i)' = Live(i) /\ Cancelled(i)' = Cancelled(i)
  BY DEF Live, Cancelled
<1>2. IntentsKept
  BY <1>1 DEF IntentsKept
<1>3. Paid' = Paid
  BY EnvKeeps
<1> QED
  BY <1>1, <1>2, <1>3 DEF CapInv, Steady, IntentsOwned, RowsLive

(* One intent changes: it stays its student's, and what it sends is true.  *)
LEMMA IntentMoves ==
    ASSUME CapInv, EnvSame, RowsLive, NEW i \in Intents, Live(i), NEW x,
           stripe' = [stripe EXCEPT ![i] = x],
           x.u = stripe[i].u, x.st # "none", Cancelled(i) => x.st = "canceled",
           stripe[i].st \in Earned => x.st \in Earned, stripe[i].old => x.old,
           x.old => stripe[i].old \/ \A z \in Slots : call[z].i # i,
           \A e \in events' : \/ e \in events
                              \/ e = <<"succeeded", i>>
                              \/ e = <<"failed", i>> /\ x.st = "canceled"
    PROVE  IntentsKept /\ IntentsOwned'
<1>1. stripe \in [Intents -> Intent]
  BY DEF CapInv, TInv, DataOK, StripeOK
<1>2. stripe'[i] = x /\ \A j \in Intents \ {i} : stripe'[j] = stripe[j]
  BY <1>1
<1>3. /\ \A j \in Intents : (Live(j)' <=> Live(j)) /\ stripe'[j].u = stripe[j].u
      /\ \A j \in Intents : Cancelled(j) => Cancelled(j)'
  BY <1>2 DEF Live, Cancelled
<1>4. IntentsKept
  BY <1>2, <1>3 DEF IntentsKept
<1>5. Paid' = Paid /\ IntentsOwned
  BY EnvKeeps DEF CapInv, Steady
<1>6. \A j \in Intents, k \in {"succeeded", "failed"} : <<k, j>> \in events' =>
          Live(j)' /\ (k = "failed" => Cancelled(j)')
  <2> SUFFICES ASSUME NEW j \in Intents, NEW k \in {"succeeded", "failed"},
                      <<k, j>> \in events'
               PROVE  Live(j)' /\ (k = "failed" => Cancelled(j)')
    OBVIOUS
  <2>1. CASE <<k, j>> \in events
    BY <1>3, <1>5, <2>1 DEF IntentsOwned
  <2>2. CASE <<k, j>> = <<"succeeded", i>>
    BY <1>3, <2>2
  <2>3. CASE <<k, j>> = <<"failed", i>> /\ x.st = "canceled"
    BY <1>2, <1>3, <2>3 DEF Cancelled
  <2> QED
    BY <2>1, <2>2, <2>3
<1>7. \A j \in Intents : ~Live(j)' => ~stripe'[j].old /\ ~Recorded(j)'
  BY <1>2, <1>3, <1>5 DEF IntentsOwned, RowsLive
<1> QED
  BY <1>3, <1>4, <1>5, <1>6, <1>7 DEF IntentsOwned

LEMMA StripeMoves ==
    ASSUME CapInv, EnvSame, RowsLive, NEW i \in Intents, Live(i)
    PROVE  /\ Refund(i) /\ UNCHANGED events => IntentsKept /\ IntentsOwned'
           /\ Submitted(i) /\ UNCHANGED events => IntentsKept /\ IntentsOwned'
           /\ CanCapture(i) /\ Capture(i) => IntentsKept /\ IntentsOwned'
           /\ CancelHold(i) => IntentsKept /\ IntentsOwned'
           /\ \A running : HourPasses(i, running) /\ "late" \notin Calls /\ UNCHANGED events =>
                  IntentsKept /\ IntentsOwned'
           /\ stripe[i].st = "processing" /\ SetIntent(i, "succeeded")
              /\ events' = events \cup {<<"succeeded", i>>} => IntentsKept /\ IntentsOwned'
<1>0. stripe \in [Intents -> Intent]
  BY DEF CapInv, TInv, DataOK, StripeOK
<1>1. ASSUME Refund(i), UNCHANGED events
      PROVE  IntentsKept /\ IntentsOwned'
  <2> DEFINE x == [stripe[i] EXCEPT !.refunded = TRUE]
  <2>1. stripe' = [stripe EXCEPT ![i] = x]
    BY <1>1 DEF Refund
  <2>2. x.u = stripe[i].u /\ x.st = stripe[i].st /\ x.old = stripe[i].old
    BY <1>0 DEF Intent
  <2> HIDE DEF x
  <2> QED
    BY <1>1, <2>1, <2>2, IntentMoves DEF Live, Cancelled
<1>2. ASSUME Submitted(i), UNCHANGED events
      PROVE  IntentsKept /\ IntentsOwned'
  <2> DEFINE x == [stripe[i] EXCEPT !.sent = TRUE]
  <2>1. stripe' = [stripe EXCEPT ![i] = x]
    BY <1>2 DEF Submitted
  <2>2. x.u = stripe[i].u /\ x.st = stripe[i].st /\ x.old = stripe[i].old
    BY <1>0 DEF Intent
  <2> HIDE DEF x
  <2> QED
    BY <1>2, <2>1, <2>2, IntentMoves DEF Live, Cancelled
<1>3. ASSUME CanCapture(i), Capture(i)
      PROVE  IntentsKept /\ IntentsOwned'
  <2> DEFINE x == [stripe[i] EXCEPT !.st = "succeeded"]
  <2>1. stripe' = [stripe EXCEPT ![i] = x] /\ events' = events \cup {<<"succeeded", i>>}
    BY <1>3 DEF Capture, SetIntent
  <2>2. x.u = stripe[i].u /\ x.st = "succeeded" /\ x.old = stripe[i].old
    BY <1>0 DEF Intent
  <2>3. stripe[i].st = "hold"
    BY <1>3 DEF CanCapture
  <2> HIDE DEF x
  <2> QED
    BY <2>1, <2>2, <2>3, IntentMoves DEF Live, Cancelled, Earned
<1>4. ASSUME CancelHold(i)
      PROVE  IntentsKept /\ IntentsOwned'
  <2>1. CASE stripe[i].st = "hold"
    <3> DEFINE x == [stripe[i] EXCEPT !.st = "canceled"]
    <3>1. stripe' = [stripe EXCEPT ![i] = x] /\ events' = events \cup {<<"failed", i>>}
      BY <1>4, <2>1 DEF CancelHold, SetIntent
    <3>2. x.u = stripe[i].u /\ x.st = "canceled" /\ x.old = stripe[i].old
      BY <1>0 DEF Intent
    <3> HIDE DEF x
    <3> QED
      BY <2>1, <3>1, <3>2, IntentMoves DEF Live, Cancelled, Earned
  <2>2. CASE stripe[i].st # "hold"
    BY <1>4, <2>2, StripeSame DEF CancelHold
  <2> QED
    BY <2>1, <2>2
<1>5. ASSUME NEW running, HourPasses(i, running), "late" \notin Calls, UNCHANGED events
      PROVE  IntentsKept /\ IntentsOwned'
  <2> DEFINE x == [stripe[i] EXCEPT !.old = TRUE]
  <2>1. stripe' = [stripe EXCEPT ![i] = x] /\ \A z \in Slots : call[z].i # i
    BY <1>5 DEF HourPasses
  <2>2. x.u = stripe[i].u /\ x.st = stripe[i].st /\ x.old
    BY <1>0 DEF Intent
  <2> HIDE DEF x
  <2> QED
    BY <1>5, <2>1, <2>2, IntentMoves DEF Live, Cancelled
<1>6. ASSUME stripe[i].st = "processing", SetIntent(i, "succeeded"),
             events' = events \cup {<<"succeeded", i>>}
      PROVE  IntentsKept /\ IntentsOwned'
  <2> DEFINE x == [stripe[i] EXCEPT !.st = "succeeded"]
  <2>1. stripe' = [stripe EXCEPT ![i] = x]
    BY <1>6 DEF SetIntent
  <2>2. x.u = stripe[i].u /\ x.st = "succeeded" /\ x.old = stripe[i].old
    BY <1>0 DEF Intent
  <2> HIDE DEF x
  <2> QED
    BY <1>6, <2>1, <2>2, IntentMoves DEF Live, Cancelled, Earned
<1> QED
  BY <1>1, <1>2, <1>3, <1>4, <1>5, <1>6

-----------------------------------------------------------------------------
(* The runs.                                                               *)

(* A run takes on locals that are good already; an intent it turns to is   *)
(* not old.                                                                *)
LEMMA RunTakesOn ==
    ASSUME CapInv, DataMoves, CapKept, NEW s \in Slots, NEW c,
           call' = [call EXCEPT ![s] = c], RunInv(c), c.cap \in Caps,
           c.at \in Buying /\ c.pays \in {"settling", "settled"} => c.i \in Intents,
           c.at \in Buying /\ c.i \in Intents => c.i = call[s].i \/ ~stripe'[c.i].old
    PROVE  OneRun(s) /\ call'[s] = c /\ RunInv(call[s])'
<1>1. call' \in [Slots -> {call[z] : z \in Slots} \cup {c}]
      /\ call'[s] = c /\ OneRun(s)
  BY DEF CapInv, TInv, CallsOK, OneRun
<1>2. c.at \in Buying /\ c.i \in Intents => ~stripe'[c.i].old
  BY DEF RunInv, OwnsIntent, DataMoves, IntentsKept
<1> QED
  BY <1>1, <1>2, RunKeeps

(* A run goes from where it is to label l. *)
GoesTo(c, l) ==
    /\ l \in Buying => c.at \in Buying
    /\ Paid /\ l \in FoundLabels => c.pays # "none"
    /\ l \in HeldLabels => c.pays = "held"
    /\ l \in MoneyLabels \/ (Paid /\ l = "register.confirm") =>
          c.pays \in {"settling", "settled"}
    /\ l \in GiveUpLabels => c.i \in Intents /\ Gone(c.i)
    /\ l \in ReleaseLabels => c.at \in ReleaseLabels
    /\ l \notin LeaveLabels \cup {"update.write"}
    /\ Paid => l \notin FreeOffers
    /\ ~Paid => l \notin {"invite.find", "invite.send"}
    /\ l \in CapLabels => c.at \in CapLabels

LEMMA GoodThere ==
    ASSUME CapInv, NEW s \in Slots, NEW l, GoesTo(call[s], l)
    PROVE  RunInv([call[s] EXCEPT !.at = l])
<1> DEFINE c == call[s]
           d == [call[s] EXCEPT !.at = l]
<1>1. RunInv(c) /\ c \in Run(Labels) /\ SlotOK(s)
  BY DEF CapInv, Steady, TInv, CallsOK
<1>2. /\ d.at = l /\ d.i = c.i /\ d.u = c.u /\ d.pays = c.pays /\ d.cap = c.cap
      /\ d.ret = c.ret
  BY <1>1 DEF Run
<1> HIDE DEF d
<1>3. OwnsIntent(d)
  BY <1>1, <1>2 DEF RunInv, OwnsIntent, GoesTo
<1>4. KnowsPayment(d)
  BY <1>1, <1>2 DEF RunInv, KnowsPayment, GoesTo
<1>5. GivesUp(d)
  BY <1>1, <1>2 DEF RunInv, GivesUp, GoesTo
<1>6. AtPrice(d)
  BY <1>1, <1>2 DEF RunInv, AtPrice, GoesTo
<1>7. ReadsCap(d)
  BY <1>1, <1>2 DEF RunInv, ReadsCap, GoesTo
<1>8. RunInv(d)
  BY <1>3, <1>4, <1>5, <1>6, <1>7 DEF RunInv
<1> QED
  BY <1>8 DEF d

LEMMA GoesOn ==
    ASSUME CapInv, DataMoves, CapKept, NEW s \in Slots, NEW l, Goto(s, l),
           GoesTo(call[s], l)
    PROVE  /\ OneRun(s) /\ RunInv(call[s])'
           /\ call'[s].at = l /\ call'[s].u = call[s].u /\ call'[s].i = call[s].i
           /\ call'[s].r = call[s].r /\ call'[s].pays = call[s].pays
<1> DEFINE d == [call[s] EXCEPT !.at = l]
<1>1. call \in [Slots -> Run(Labels)] /\ SlotOK(s)
  BY DEF CapInv, TInv, CallsOK
<1>2. call' = [call EXCEPT ![s] = d]
  BY DEF Goto
<1>3. /\ d.at = l /\ d.i = call[s].i /\ d.u = call[s].u /\ d.pays = call[s].pays
      /\ d.cap \in Caps /\ d.r = call[s].r
  BY <1>1 DEF Run
<1>4. RunInv(d)
  BY GoodThere
<1>5. d.pays \in {"settling", "settled"} => d.i \in Intents
  BY <1>1, <1>3 DEF SlotOK
<1> HIDE DEF d
<1>6. OneRun(s) /\ call'[s] = d /\ RunInv(call[s])'
  BY <1>2, <1>3, <1>4, <1>5, RunTakesOn
<1> QED
  BY <1>3, <1>6

(* A run goes on with locals d, for the same student and intent. *)
GoesAs(c, d) ==
    /\ d.i = c.i /\ d.u = c.u /\ d.ret = c.ret /\ d.cap \in Caps
    /\ d.at \in Buying => c.at \in Buying
    /\ d.pays \in {"settling", "settled"} =>
          c.i \in Intents /\ (d.at \in Buying => d.pays = c.pays \/ stripe[c.i].st \in Earned)
    /\ Paid /\ d.at \in FoundLabels => d.pays # "none"
    /\ d.at \in HeldLabels => d.pays = "held"
    /\ d.at \in MoneyLabels \/ (Paid /\ d.at = "register.confirm") =>
          d.pays \in {"settling", "settled"}
    /\ d.at \in GiveUpLabels => c.i \in Intents /\ Gone(c.i)
    /\ d.at \notin ReleaseLabels \cup LeaveLabels \cup {"update.write"}
    /\ Paid => d.at \notin FreeOffers
    /\ ~Paid => d.at \notin {"invite.find", "invite.send"}
    /\ d.at \in CapLabels => \/ d.cap = seminar.cap
                             \/ d.cap = c.cap /\ c.at \in CapLabels

LEMMA GoesOnAs ==
    ASSUME CapInv, DataMoves, CapKept, NEW s \in Slots, NEW d,
           call' = [call EXCEPT ![s] = d], GoesAs(call[s], d)
    PROVE  OneRun(s) /\ call'[s] = d /\ RunInv(call[s])'
<1>1. RunInv(call[s]) /\ SlotOK(s) /\ seminar.cap \in Caps
  BY DEF CapInv, Steady, TInv, CallsOK, DataOK, SeminarOK, Seminar
<1>2. OwnsIntent(d)
  BY <1>1 DEF RunInv, OwnsIntent, GoesAs
<1>3. KnowsPayment(d)
  BY <1>1 DEF RunInv, KnowsPayment, GoesAs, Earned
<1>4. GivesUp(d)
  BY <1>1 DEF RunInv, GivesUp, GoesAs
<1>5. AtPrice(d)
  BY <1>1 DEF RunInv, AtPrice, GoesAs
<1>6. ReadsCap(d)
  BY <1>1, AtMostOrders DEF RunInv, ReadsCap, GoesAs
<1>7. RunInv(d) /\ d.cap \in Caps /\ d.i = call[s].i
      /\ (d.pays \in {"settling", "settled"} => d.i \in Intents)
  BY <1>2, <1>3, <1>4, <1>5, <1>6 DEF RunInv, GoesAs
<1> QED
  BY <1>7, RunTakesOn

(* A run that is over, and one that begins, know nothing.                  *)
LEMMA IdleIsGood == RunInv(Idle) /\ Idle.cap \in Caps /\ Idle.at = "idle"
<1>1. /\ Idle.at = "idle" /\ Idle.i = NoIntent /\ Idle.pays = "none"
      /\ Idle.ret = "idle" /\ Idle.cap = Unlimited
  BY DEF Idle
<1>2. "idle" \notin Buying \cup FoundLabels \cup HeldLabels \cup MoneyLabels
                \cup GiveUpLabels \cup ReleaseLabels \cup FreeOffers \cup LeaveLabels
          \cup CapLabels
  BY DEF Buying, FoundLabels, HeldLabels, MoneyLabels, GiveUpLabels,
         ReleaseLabels, FreeOffers, LeaveLabels, CapLabels, ClaimLabels, CaptureLabels, PayLabels
<1> QED
  BY <1>1, <1>2, StoreAssumption
     DEF RunInv, OwnsIntent, KnowsPayment, GivesUp, AtPrice, ReadsCap, Caps

LEMMA Ends ==
    ASSUME CapInv, DataMoves, CapKept, NEW s \in Slots, Finish(s)
    PROVE  OneRun(s) /\ RunInv(call[s])' /\ call'[s].at = "idle"
<1>1. Idle.at \notin Buying
  BY IdleIsGood
     DEF Buying, ClaimLabels, CaptureLabels, PayLabels
<1> QED
  BY <1>1, IdleIsGood, RunTakesOn DEF Finish

(* Where the offer loop begins and ends, and where a release begins. *)
LEMMA OfferBegins ==
    ASSUME CapInv, DataMoves, CapKept, NEW s \in Slots,
           NEW ret \in {"idle", "refuse"}, Offer(s, ret)
    PROVE  OneRun(s) /\ RunInv(call[s])' /\ call'[s].at = "offer.read"
<1> DEFINE d == [call[s] EXCEPT !.at = "offer.read", !.ret = ret]
<1>1. call \in [Slots -> Run(Labels)] /\ RunInv(call[s])
  BY DEF CapInv, TInv, CallsOK, Steady
<1>2. call' = [call EXCEPT ![s] = d]
  BY DEF Offer
<1>3. /\ d.at = "offer.read" /\ d.i = call[s].i /\ d.ret = ret /\ d.cap \in Caps
  BY <1>1 DEF Run
<1> HIDE DEF d
<1>4. "offer.read" \notin Buying \cup FoundLabels \cup HeldLabels \cup MoneyLabels
          \cup GiveUpLabels \cup ReleaseLabels \cup FreeOffers \cup LeaveLabels
          \cup CapLabels
  BY DEF Buying, FoundLabels, HeldLabels, MoneyLabels, GiveUpLabels,
         ReleaseLabels, FreeOffers, LeaveLabels, CapLabels, ClaimLabels, CaptureLabels, PayLabels
<1>5. RunInv(d)
  BY <1>1, <1>3, <1>4
     DEF RunInv, OwnsIntent, KnowsPayment, GivesUp, AtPrice, ReadsCap
<1> QED
  BY <1>2, <1>3, <1>4, <1>5, RunTakesOn, ZenonT(40)

LEMMA OfferEnds ==
    ASSUME CapInv, DataMoves, CapKept, NEW s \in Slots, EndOffer(s),
           call[s].at # "update.write"
    PROVE  OneRun(s) /\ RunInv(call[s])' /\ call'[s].at \in {"idle", "refuse", "failed.again"}
<1>1. CASE call[s].ret = "idle"
  BY <1>1, Ends DEF EndOffer
<1>2. CASE call[s].ret # "idle"
  <2> DEFINE d == [call[s] EXCEPT !.at = call[s].ret, !.ret = "idle", !.seen = {}, !.soft = 0]
  <2>1. call \in [Slots -> Run(Labels)] /\ RunInv(call[s]) /\ SlotOK(s)
    BY DEF CapInv, TInv, CallsOK, Steady
  <2>2. call' = [call EXCEPT ![s] = d]
    BY <1>2 DEF EndOffer
  <2>3. /\ d.at = call[s].ret /\ d.i = call[s].i /\ d.ret = "idle" /\ d.cap \in Caps
        /\ call[s].ret \in {"refuse", "failed.again"}
    BY <1>2, <2>1 DEF Run, SlotOK
  <2> HIDE DEF d
  <2>4. {"refuse", "failed.again"} \cap (Buying \cup FoundLabels \cup HeldLabels
            \cup MoneyLabels \cup ReleaseLabels \cup FreeOffers \cup LeaveLabels
          \cup CapLabels) = {}
        /\ "refuse" \notin GiveUpLabels
    BY DEF Buying, FoundLabels, HeldLabels, MoneyLabels, GiveUpLabels,
           ReleaseLabels, FreeOffers, LeaveLabels, CapLabels, ClaimLabels, CaptureLabels, PayLabels
  <2>5. d.at \notin Buying \cup FoundLabels \cup HeldLabels
            \cup MoneyLabels \cup ReleaseLabels \cup FreeOffers \cup LeaveLabels
          \cup CapLabels
        /\ (d.at \in GiveUpLabels => call[s].ret = "failed.again")
    BY <2>3, <2>4
  <2>6. RunInv(d)
    BY <2>1, <2>3, <2>5
       DEF RunInv, OwnsIntent, KnowsPayment, GivesUp, AtPrice, ReadsCap
  <2> QED
    BY <2>2, <2>3, <2>5, <2>6, RunTakesOn
<1> QED
  BY <1>1, <1>2

LEMMA ReleaseBegins ==
    ASSUME CapInv, DataMoves, CapKept, NEW s \in Slots, NEW i \in Intents,
           NEW ret \in {"idle", "failed.again"}, Release(s, i, ret), Live(i), Gone(i)
    PROVE  OneRun(s) /\ RunInv(call[s])' /\ call'[s].at = "release.paid"
<1> DEFINE d == [call[s] EXCEPT !.at = "release.paid", !.i = i, !.u = stripe[i].u, !.ret = ret]
<1>1. call \in [Slots -> Run(Labels)] /\ RunInv(call[s]) /\ Paid
  BY DEF CapInv, TInv, CallsOK, Steady, IntentsOwned
<1>2. call' = [call EXCEPT ![s] = d]
  BY DEF Release
<1>3. /\ d.at = "release.paid" /\ d.i = i /\ d.u = stripe[i].u /\ d.ret = ret
      /\ d.cap \in Caps
  BY <1>1 DEF Run
<1> HIDE DEF d
<1>4. "release.paid" \notin Buying \cup FoundLabels \cup HeldLabels \cup MoneyLabels
          \cup FreeOffers \cup LeaveLabels
          \cup CapLabels
  BY DEF Buying, FoundLabels, HeldLabels, MoneyLabels,
         FreeOffers, LeaveLabels, CapLabels, ClaimLabels, CaptureLabels, PayLabels
<1>5. RunInv(d)
  BY <1>1, <1>3, <1>4
     DEF RunInv, OwnsIntent, KnowsPayment, GivesUp, AtPrice, ReadsCap
<1>6. d.at \notin Buying /\ d.cap \in Caps
  BY <1>3, <1>4
<1> QED
  BY <1>2, <1>3, <1>5, <1>6, RunTakesOn

-----------------------------------------------------------------------------
(* Such a move keeps the invariant.                                        *)

(* Who holds a seat, by the price of the seminar.                          *)
LEMMA HoldersKnow ==
    ASSUME CapInv, NEW z \in Slots, call[z].at \in Holding \cup {"register.take", "pay.take"}, Paid
    PROVE  /\ Claimant(z) = call[z].u /\ call[z].at \in Buying
           /\ call[z].i \in Intents /\ Live(call[z].i)
           /\ stripe[call[z].i].u = call[z].u /\ ~stripe[call[z].i].old
           /\ Cancelled(call[z].i) /\ call[z].at \in Holding => Doomed(z)
<1>1. RunInv(call[z]) /\ SlotOK(z)
  BY DEF CapInv, Steady, TInv, CallsOK
<1>2. call[z].at \notin FreeOffers
  BY <1>1 DEF RunInv, AtPrice
<1>3. /\ call[z].at \in Buying
      /\ call[z].at \in WithIntent \cup WithIntentIfPaid
      /\ call[z].at \in Holding =>
            \/ call[z].at = "register.lookup" \/ call[z].at \in HeldLabels \cup MoneyLabels
            \/ call[z].at = "register.confirm"
  BY <1>2
     DEF Holding, FreeOffers, Buying, ClaimLabels, CaptureLabels, PayLabels,
         WithIntent, WithIntentIfPaid, HeldLabels, MoneyLabels
<1>4. call[z].i \in Intents
  BY <1>1, <1>3 DEF SlotOK
<1>5. Live(call[z].i) /\ stripe[call[z].i].u = call[z].u /\ ~stripe[call[z].i].old
  BY <1>1, <1>3, <1>4 DEF RunInv, OwnsIntent
<1>6. ASSUME Cancelled(call[z].i), call[z].at \in Holding
      PROVE  Doomed(z)
  <2>1. call[z].pays \notin {"settling", "settled"}
    BY <1>1, <1>3, <1>6 DEF RunInv, KnowsPayment, Cancelled
  <2>2. call[z].pays # "none"
    BY <1>1, <1>3, <1>6, <2>1 DEF RunInv, KnowsPayment, FoundLabels
  <2>3. call[z].pays \in {"none", "held", "settling", "settled"}
    BY DEF CapInv, TInv, CallsOK, Run
  <2> QED
    BY <1>6, <2>1, <2>2, <2>3 DEF Doomed
<1> QED
  BY <1>2, <1>3, <1>4, <1>5, <1>6 DEF Claimant

(* A run with an intent works on a seminar that costs something. *)
LEMMA IntentCosts ==
    ASSUME CapInv, NEW z \in Slots, call[z].i \in Intents \/ call[z].pays # "none"
    PROVE  Paid /\ call[z].i \in Intents /\ Live(call[z].i)
BY DEF CapInv, TInv, CallsOK, SlotOK, Steady, RunInv, AtPrice, OwnsIntent

(* Two live intents of one student are one. *)
LEMMA OneIntent ==
    ASSUME CapInv, NEW i \in Intents, NEW j \in Intents,
           Live(i), stripe[i].u = stripe[j].u
    PROVE  i = j
BY DEF CapInv, Steady, IntentsOwned

(* A holder that the step leaves alone keeps its student and its fate.     *)
LEMMA HoldersKeep ==
    ASSUME CapInv, DataMoves, NEW z \in Slots, call[z].at \in Holding, call'[z] = call[z]
    PROVE  /\ Claimant(z)' = Claimant(z)
           /\ Doomed(z) => Doomed(z)'
           /\ Paid /\ Cancelled(call[z].i) => Cancelled(call[z].i)'
<1>1. Claimant(z)' = Claimant(z)
  <2>1. CASE call[z].at \in FreeOffers
    <3>1. call[z].at \in OfferRowLabels
      BY <2>1 DEF FreeOffers, OfferRowLabels
    <3>2. call[z].r \in RequestIds /\ requests[call[z].r].status # "none"
      BY <3>1, KnowsOK DEF CapInv, TInv
    <3> QED
      BY <2>1, <3>2 DEF Claimant, DataMoves, RowsKept
  <2>2. CASE call[z].at \notin FreeOffers
    BY <2>2 DEF Claimant
  <2> QED
    BY <2>1, <2>2
<1>2. ASSUME Doomed(z)
      PROVE  Doomed(z)'
  <2>1. call[z].i \in Intents /\ Live(call[z].i)
    BY <1>2, IntentCosts DEF Doomed
  <2>2. Cancelled(call[z].i)'
    BY <1>2, <2>1 DEF Doomed, DataMoves, IntentsKept, Cancelled
  <2> QED
    BY <1>2, <2>2 DEF Doomed
<1>3. ASSUME Paid, Cancelled(call[z].i)
      PROVE  Cancelled(call[z].i)'
  <2>1. call[z].i \in Intents /\ Live(call[z].i)
    BY <1>3, HoldersKnow
  <2> QED
    BY <1>3, <2>1 DEF DataMoves, IntentsKept, Cancelled
<1> QED
  BY <1>1, <1>2, <1>3

(* A mover that still holds held before, or has just claimed.              *)
LEMMA MoverHolds ==
    ASSUME CapInv, NEW s \in Slots, Moves(s), call'[s].at \in Holding
    PROVE  /\ Rests(s) \/ Takes(s)
           /\ Claimant(s)' = Claimant(s) /\ call'[s].i = call[s].i
BY DEF Moves, Rests, Takes, Gives, Confirms

(* Whom a seat is given back for, nobody else holds one for but a run      *)
(* whose hold was released.                                                *)
LEMMA GivenBackOnce ==
    ASSUME CapInv, NEW s \in Slots, Gives(s), NEW z \in Slots \ {s},
           call[z].at \in Holding, Claimant(z) = Claimant(s)
    PROVE  Doomed(z)
<1>1. CASE call[s].at \in Holding
  <2>1. Paid /\ Cancelled(call[z].i)
    BY <1>1 DEF CapInv, ClaimsHeld
  <2> QED
    BY <2>1, HoldersKnow
<1>2. CASE call[s].at = "release.unenroll"
  <2>1. RunInv(call[s])
    BY DEF CapInv, Steady
  <2>2. /\ call[s].i \in Intents /\ Gone(call[s].i) /\ call[s].u = stripe[call[s].i].u
        /\ Claimant(s) = call[s].u
    BY <1>2, <2>1 DEF RunInv, GivesUp, GiveUpLabels, ReleaseLabels, Claimant, FreeOffers
  <2>3. Paid /\ Live(call[s].i)
    BY <2>2, IntentCosts
  <2>4. /\ call[z].i \in Intents /\ stripe[call[z].i].u = Claimant(z)
        /\ ~stripe[call[z].i].old
    BY <2>3, HoldersKnow
  <2>5. call[s].i = call[z].i
    BY <2>2, <2>3, <2>4, OneIntent
  <2> QED
    BY <2>2, <2>3, <2>4, <2>5, HoldersKnow DEF Gone
<1> QED
  BY <1>1, <1>2 DEF Gives

LEMMA ClaimsStillHeld ==
    ASSUME CapInv, NEW s \in Slots, Moves(s)
    PROVE  ClaimsHeld'
<1>1. DataMoves /\ Paid' = Paid
  BY EnvKeeps DEF Moves, DataMoves
<1>2. \A z \in Slots \ {s} : call'[z] = call[z]
  BY DEF Moves, OneRun
<1>3. SeminarOK
  BY DEF CapInv, TInv, DataOK
<1>4. ASSUME NEW z \in Slots, call'[z].at \in Holding, seminar'.status = "active"
      PROVE  Claimant(z)' \in seminar'.enrolled \/ Doomed(z)'
  <2>1. CASE z = s
    <3>1. CASE Rests(s)
      <4>1. /\ seminar'.enrolled = seminar.enrolled /\ seminar'.status = seminar.status
            /\ call[s].at \in Holding /\ Claimant(s)' = Claimant(s)
            /\ call'[s].i = call[s].i
            /\ call'[s].pays = call[s].pays \/ ~Cancelled(call[s].i)
        BY <1>4, <2>1, <3>1 DEF Rests
      <4>2. Claimant(s) \in seminar.enrolled \/ Doomed(s)
        BY <1>4, <4>1 DEF CapInv, ClaimsHeld
      <4>3. ASSUME Doomed(s)
            PROVE  Doomed(s)'
        <5>1. call[s].i \in Intents /\ Live(call[s].i)
          BY <4>3, IntentCosts DEF Doomed
        <5>2. stripe'[call[s].i].st = "canceled"
          BY <1>1, <4>3, <5>1 DEF Doomed, DataMoves, IntentsKept, Cancelled
        <5> QED
          BY <4>1, <4>3, <5>2 DEF Doomed, Cancelled
      <4> QED
        BY <2>1, <4>1, <4>2, <4>3
    <3>2. CASE Takes(s)
      <4>1. Claimant(s)' = Claimant(s) /\ SetEnrolled(seminar.enrolled \cup {Claimant(s)})
        BY <3>2 DEF Takes
      <4>2. seminar'.enrolled = seminar.enrolled \cup {Claimant(s)}
        BY <1>3, <4>1 DEF SetEnrolled, SeminarOK, Seminar
      <4> QED
        BY <2>1, <4>1, <4>2
    <3> QED
      BY <1>4, <2>1, <3>1, <3>2, MoverHolds
  <2>2. CASE z # s
    <3>1. call[z].at \in Holding /\ Claimant(z)' = Claimant(z) /\ (Doomed(z) => Doomed(z)')
      BY <1>1, <1>2, <1>4, <2>2, HoldersKeep
    <3>2. CASE Gives(s)
      <4>1. seminar'.enrolled = seminar.enrolled \ {Claimant(s)} /\ seminar.status = "active"
        BY <1>3, <1>4, <3>2 DEF Gives, Unenroll, SetEnrolled, SeminarOK, Seminar
      <4>2. Claimant(z) \in seminar.enrolled \/ Doomed(z)
        BY <3>1, <4>1 DEF CapInv, ClaimsHeld
      <4>3. Claimant(z) = Claimant(s) => Doomed(z)
        BY <2>2, <3>1, <3>2, GivenBackOnce
      <4> QED
        BY <3>1, <4>1, <4>2, <4>3
    <3>3. CASE ~Gives(s)
      <4>1. seminar.enrolled \subseteq seminar'.enrolled /\ seminar.status = "active"
        BY <1>3, <1>4, <3>3
           DEF Moves, Rests, Takes, Confirms, AddStudent, SetEnrolled, SeminarOK, Seminar
      <4>2. Claimant(z) \in seminar.enrolled \/ Doomed(z)
        BY <3>1, <4>1 DEF CapInv, ClaimsHeld
      <4> QED
        BY <3>1, <4>1, <4>2
    <3> QED
      BY <3>2, <3>3
  <2> QED
    BY <2>1, <2>2
<1>5. ASSUME NEW z \in Slots \ {s}, call'[s].at \in Holding, call[z].at \in Holding,
             Claimant(s) = Claimant(z)
      PROVE  Paid /\ Cancelled(call[s].i) /\ Cancelled(call[z].i)
  <2>1. CASE Rests(s)
    <3>1. call[s].at \in Holding
      BY <1>5, <2>1 DEF Rests
    <3> QED
      BY <1>5, <3>1 DEF CapInv, ClaimsHeld
  <2>2. CASE Takes(s)
    <3>1. /\ seminar.status = "active" /\ Claimant(s) \notin seminar.enrolled
          /\ call[s].at \in {"register.take", "pay.take", "offer.take"}
      BY <2>2 DEF Takes, SeatFree
    <3>2. Doomed(z)
      BY <1>5, <3>1 DEF CapInv, ClaimsHeld
    <3>3. Paid /\ Cancelled(call[z].i)
      BY <3>2, IntentCosts DEF Doomed
    <3>4. call[s].at # "offer.take"
      BY <3>3 DEF CapInv, Steady, RunInv, AtPrice, FreeOffers
    <3>5. call[s].i \in Intents /\ Live(call[s].i) /\ stripe[call[s].i].u = Claimant(s)
      BY <3>1, <3>3, <3>4, HoldersKnow
    <3>6. call[z].i \in Intents /\ stripe[call[z].i].u = Claimant(z)
      BY <1>5, <3>3, HoldersKnow
    <3>7. call[s].i = call[z].i
      BY <1>5, <3>5, <3>6, OneIntent
    <3> QED
      BY <3>3, <3>7
  <2> QED
    BY <1>5, <2>1, <2>2, MoverHolds
<1>6. ASSUME NEW z \in Slots \ {s}, call'[s].at \in Holding, call'[z].at \in Holding,
             Claimant(s)' = Claimant(z)'
      PROVE  Paid' /\ Cancelled(call[s].i)' /\ Cancelled(call[z].i)'
  <2>1. call[z].at \in Holding /\ Claimant(z)' = Claimant(z)
        /\ (Paid /\ Cancelled(call[z].i) => Cancelled(call[z].i)')
    BY <1>1, <1>2, <1>6, HoldersKeep
  <2>2. Claimant(s)' = Claimant(s) /\ call'[s].i = call[s].i
    BY <1>6, MoverHolds
  <2>3. Paid /\ Cancelled(call[s].i) /\ Cancelled(call[z].i)
    BY <1>5, <1>6, <2>1, <2>2
  <2>4. /\ call[s].at \in Holding \cup {"register.take", "pay.take"} \/ call[s].at = "offer.take"
        /\ call[s].at # "offer.take"
    <3>1. call[s].at \in Holding \/ call[s].at \in {"register.take", "pay.take", "offer.take"}
      BY <1>6, MoverHolds DEF Rests, Takes
    <3> QED
      BY <2>3, <3>1 DEF CapInv, Steady, RunInv, AtPrice, FreeOffers
  <2>5. call[s].i \in Intents /\ Live(call[s].i)
    BY <2>3, <2>4, HoldersKnow
  <2>6. Cancelled(call[s].i)'
    BY <1>1, <2>2, <2>3, <2>5 DEF DataMoves, IntentsKept, Cancelled
  <2> QED
    BY <1>1, <2>1, <2>3, <2>6
<1>7. ASSUME NEW y \in Slots, NEW z \in Slots, y # z, call'[y].at \in Holding,
             call'[z].at \in Holding, Claimant(y)' = Claimant(z)'
      PROVE  Paid' /\ Cancelled(call[y].i)'
  <2>1. CASE y # s /\ z # s
    <3>1. Paid /\ Cancelled(call[y].i)
      <4>1. /\ call[y].at \in Holding /\ call[z].at \in Holding
            /\ Claimant(y)' = Claimant(y) /\ Claimant(z)' = Claimant(z)
        BY <1>1, <1>2, <1>7, <2>1, HoldersKeep
      <4> QED
        BY <1>7, <4>1 DEF CapInv, ClaimsHeld
    <3> QED
      BY <1>1, <1>2, <1>7, <2>1, <3>1, HoldersKeep
  <2>2. CASE y = s
    BY <1>6, <1>7, <2>2
  <2>3. CASE z = s
    BY <1>6, <1>7, <2>3
  <2> QED
    BY <2>1, <2>2, <2>3
<1> QED
  BY <1>4, <1>7 DEF ClaimsHeld

(* A confirmation adds nobody who has no seat yet. *)
LEMMA ConfirmsNoNewSeat ==
    ASSUME CapInv, NEW s \in Slots, Confirms(s)
    PROVE  seminar'.enrolled = seminar.enrolled
<1>1. RunInv(call[s]) /\ SlotOK(s) /\ SeminarOK
  BY DEF CapInv, Steady, TInv, CallsOK, DataOK
<1>2. call[s].at \in Holding /\ call[s].pays # "held"
  <2>1. CASE Paid
    BY <1>1, <2>1
       DEF Confirms, Holding, RunInv, KnowsPayment, AtPrice, MoneyLabels, FreeOffers
  <2>2. CASE ~Paid
    BY <1>1, <2>2 DEF Confirms, Holding, RunInv, AtPrice, SlotOK
  <2> QED
    BY <2>1, <2>2
<1>3. seminar.status = "active" => Claimant(s) \in seminar.enrolled
  BY <1>2 DEF CapInv, ClaimsHeld, Doomed
<1> QED
  BY <1>1, <1>3 DEF Confirms, AddStudent, SetEnrolled, SeminarOK, Seminar

(* A claim that is granted fits. *)
LEMMA ClaimFits ==
    ASSUME CapInv, NEW s \in Slots, Takes(s), seminar.cap # Unlimited
    PROVE  Cardinality(seminar.enrolled \cup {Claimant(s)}) <= seminar.cap
<1>1. /\ RunInv(call[s]) /\ call[s].cap \in Caps /\ call[s].soft \in Nat
      /\ seminar.cap \in Caps /\ seminar.enrolled \subseteq Students
  BY StoreAssumption DEF CapInv, Steady, TInv, CallsOK, Run, DataOK, SeminarOK, Seminar
<1>2. call[s].cap # Unlimited /\ call[s].cap <= seminar.cap
  BY <1>1 DEF Takes, RunInv, ReadsCap, CapLabels, AtMost
<1>3. /\ IsFiniteSet(seminar.enrolled) /\ Cardinality(seminar.enrolled) \in Nat
  BY <1>1, FS_Subset, FS_CardinalityType, StoreAssumption
<1>4. call[s].cap \in Nat /\ seminar.cap \in Nat
  BY <1>1, <1>2 DEF Caps
<1>5. ClaimableCap(call[s].cap, call[s].soft) \in 0..seminar.cap
  BY <1>1, <1>2, <1>4 DEF ClaimableCap
<1>6. Cardinality(seminar.enrolled) < seminar.cap
  BY <1>3, <1>4, <1>5, StoreAssumption DEF Takes, SeatFree
<1>7. Cardinality(seminar.enrolled \cup {Claimant(s)}) = Cardinality(seminar.enrolled) + 1
  BY <1>3, FS_AddElement DEF Takes, SeatFree
<1> QED
  BY <1>3, <1>4, <1>6, <1>7

LEMMA StillFits ==
    ASSUME CapInv, NEW s \in Slots, Moves(s)
    PROVE  Fits'
<1> SUFFICES ASSUME seminar'.cap # Unlimited
             PROVE  Cardinality(seminar'.enrolled) <= seminar'.cap
  BY DEF Fits
<1>1. /\ seminar \in Seminar /\ seminar.cap \in Caps /\ seminar.enrolled \subseteq Students
  BY DEF CapInv, TInv, DataOK, SeminarOK, Seminar
<1>2. /\ seminar.cap # Unlimited /\ seminar.cap \in Nat /\ seminar'.cap \in Nat
      /\ seminar.cap <= seminar'.cap
  BY <1>1, StoreAssumption DEF Moves, CapKept, AtMost, Caps
<1>3. IsFiniteSet(seminar.enrolled) /\ Cardinality(seminar.enrolled) \in Nat
      /\ Cardinality(seminar.enrolled) <= seminar.cap
  BY <1>1, <1>2, FS_Subset, FS_CardinalityType, StoreAssumption DEF CapInv, Fits
<1>4. CASE Rests(s)
  BY <1>2, <1>3, <1>4 DEF Rests
<1>5. CASE Takes(s)
  <2>1. seminar'.enrolled = seminar.enrolled \cup {Claimant(s)} /\ seminar'.cap = seminar.cap
    BY <1>1, <1>5 DEF Takes, SetEnrolled, Seminar
  <2> QED
    BY <1>2, <1>5, <2>1, ClaimFits
<1>6. CASE Gives(s)
  <2>1. seminar'.enrolled = seminar.enrolled \ {Claimant(s)} /\ seminar'.cap = seminar.cap
    BY <1>1, <1>6 DEF Gives, Unenroll, SetEnrolled, Seminar
  <2>2. Cardinality(seminar'.enrolled) <= Cardinality(seminar.enrolled)
        /\ Cardinality(seminar'.enrolled) \in Nat
    BY <1>3, <2>1, FS_Subset, FS_CardinalityType
  <2> QED
    BY <1>2, <1>3, <2>1, <2>2
<1>7. CASE Confirms(s)
  BY <1>2, <1>3, <1>7, ConfirmsNoNewSeat
<1> QED
  BY <1>4, <1>5, <1>6, <1>7 DEF Moves

(* What the runs and the documents know stays so. *)
LEMMA CapStillGrows ==
    ASSUME CapInv, EnvSame, CapKept
    PROVE  CapGrows'
<1>1. \A c : CapGrowsTo(c)' <=> CapGrowsTo(c)
  BY EnvKeeps
<1>2. ASSUME NEW c \in Caps, CapGrowsTo(c)
      PROVE  AtMost(seminar'.cap, c)
  BY <1>2, AtMostOrders DEF CapKept, CapInv, Steady, CapGrows
<1> QED
  BY <1>1, <1>2 DEF CapGrows

LEMMA MovesKeep ==
    ASSUME CapInv, TInv', NEW s \in Slots, Moves(s)
    PROVE  CapInv'
<1>1. DataMoves /\ CapKept /\ OneRun(s) /\ EnvSame
  BY DEF Moves, DataMoves
<1>2. ASSUME NEW z \in Slots
      PROVE  RunInv(call[z])'
  <2>1. CASE z = s
    BY <2>1 DEF Moves
  <2>2. CASE z # s
    BY <1>1, <2>2, RunStands DEF OneRun
  <2> QED
    BY <2>1, <2>2
<1>3. Steady'
  BY <1>1, <1>2, CapStillGrows DEF Steady, DataMoves
<1>4. ClaimsStand'
  BY <1>1, EnvKeeps DEF CapInv
<1> QED
  BY <1>3, <1>4, ClaimsStillHeld, StillFits DEF CapInv

-----------------------------------------------------------------------------
(* Each step of a run is such a move.                                      *)

LEMMA Documents ==
    ASSUME CapInv, EnvSame, RowsKept
    PROVE  /\ UNCHANGED <<ledger, stripe, events>> => DataMoves
           /\ RowsLive /\ UNCHANGED stripe /\ events' \subseteq events => DataMoves
           /\ RowsLive /\ IntentsKept /\ IntentsOwned' => DataMoves
<1>1. UNCHANGED ledger => RowsLive
  BY RowsAreLive
<1> QED
  BY <1>1, StripeSame DEF DataMoves

(* A run that does not touch the seats. *)
LEMMA Resting ==
    ASSUME CapInv, DataMoves, UNCHANGED seminar, NEW s \in Slots
    PROVE  /\ OneRun(s) /\ RunInv(call[s])' /\ call'[s].at \notin Holding => Moves(s)
           /\ Finish(s) => Moves(s)
           /\ \A l : Goto(s, l) /\ GoesTo(call[s], l) /\ l \notin Holding => Moves(s)
           /\ Refuse(s) => Moves(s)
           /\ EndOffer(s) /\ call[s].at # "update.write" => Moves(s)
           /\ \A ret \in {"idle", "refuse"} : Offer(s, ret) => Moves(s)
           /\ \A i \in Intents, ret \in {"idle", "failed.again"} :
                  Release(s, i, ret) /\ Live(i) /\ Gone(i) => Moves(s)
<1>0. CapKept
  BY DEF CapKept
<1>1. ASSUME OneRun(s), RunInv(call[s])', call'[s].at \notin Holding
      PROVE  Moves(s)
  BY <1>0, <1>1 DEF Moves, Rests
<1>2. {"idle", "refuse", "failed.again", "offer.read", "release.paid"} \cap Holding = {}
  BY DEF Holding
<1>3. Finish(s) => Moves(s)
  BY <1>0, <1>1, <1>2, Ends
<1>4. ASSUME NEW l, Goto(s, l), GoesTo(call[s], l), l \notin Holding
      PROVE  Moves(s)
  BY <1>0, <1>1, <1>4, GoesOn
<1>5. GoesTo(call[s], "refuse")
  BY DEF GoesTo, Buying, ClaimLabels, CaptureLabels, PayLabels, FoundLabels, HeldLabels,
         MoneyLabels, GiveUpLabels, ReleaseLabels, FreeOffers, LeaveLabels, CapLabels
<1>6. Refuse(s) => Moves(s)
  BY <1>2, <1>3, <1>4, <1>5 DEF Refuse
<1>7. EndOffer(s) /\ call[s].at # "update.write" => Moves(s)
  BY <1>0, <1>1, <1>2, OfferEnds
<1>8. \A ret \in {"idle", "refuse"} : Offer(s, ret) => Moves(s)
  BY <1>0, <1>1, <1>2, OfferBegins
<1>9. \A i \in Intents, ret \in {"idle", "failed.again"} :
          Release(s, i, ret) /\ Live(i) /\ Gone(i) => Moves(s)
  BY <1>0, <1>1, <1>2, ReleaseBegins
<1> QED
  BY <1>1, <1>3, <1>4, <1>6, <1>7, <1>8, <1>9

(* A run that keeps its claim. *)
LEMMA HoldingOn ==
    ASSUME CapInv, DataMoves, UNCHANGED seminar, NEW s \in Slots,
           call[s].at \in Holding \ FreeOffers
    PROVE  /\ /\ OneRun(s) /\ RunInv(call[s])' /\ call'[s].at \notin FreeOffers
              /\ call'[s].u = call[s].u /\ call'[s].i = call[s].i
              /\ call'[s].pays = call[s].pays \/ ~Cancelled(call[s].i)
              => Moves(s)
           /\ \A l : Goto(s, l) /\ GoesTo(call[s], l) /\ l \notin FreeOffers => Moves(s)
<1>0. CapKept
  BY DEF CapKept
<1>1. ASSUME OneRun(s), RunInv(call[s])', call'[s].at \notin FreeOffers,
             call'[s].u = call[s].u, call'[s].i = call[s].i,
             call'[s].pays = call[s].pays \/ ~Cancelled(call[s].i)
      PROVE  Moves(s)
  BY <1>0, <1>1 DEF Moves, Rests, Claimant
<1> QED
  BY <1>0, <1>1, GoesOn

(* A run that gives a seat back, confirms one, claims one. *)
LEMMA Giving ==
    ASSUME CapInv, DataMoves, NEW s \in Slots,
           call[s].at \in Holding \cup {"release.unenroll"}, Unenroll(Claimant(s))
    PROVE  /\ Finish(s) => Moves(s)
           /\ \A l : Goto(s, l) /\ GoesTo(call[s], l) /\ l \notin Holding => Moves(s)
           /\ Refuse(s) => Moves(s)
           /\ EndOffer(s) => Moves(s)
<1>0. CapKept
  BY DEF CapKept, Unenroll, SetEnrolled, CapInv, TInv, DataOK, SeminarOK, Seminar
<1>1. ASSUME OneRun(s), RunInv(call[s])', call'[s].at \notin Holding
      PROVE  Moves(s)
  BY <1>0, <1>1 DEF Moves, Gives
<1>2. {"idle", "refuse", "failed.again"} \cap Holding = {}
      /\ call[s].at # "update.write"
  BY DEF Holding
<1>3. Finish(s) => Moves(s)
  BY <1>0, <1>1, <1>2, Ends
<1>4. ASSUME NEW l, Goto(s, l), GoesTo(call[s], l), l \notin Holding
      PROVE  Moves(s)
  BY <1>0, <1>1, <1>4, GoesOn
<1>5. GoesTo(call[s], "refuse")
  BY DEF GoesTo, Buying, ClaimLabels, CaptureLabels, PayLabels, FoundLabels, HeldLabels,
         MoneyLabels, GiveUpLabels, ReleaseLabels, FreeOffers, LeaveLabels, CapLabels
<1>6. Refuse(s) => Moves(s)
  BY <1>2, <1>3, <1>4, <1>5 DEF Refuse
<1>7. EndOffer(s) => Moves(s)
  BY <1>0, <1>1, <1>2, OfferEnds
<1> QED
  BY <1>3, <1>4, <1>6, <1>7

LEMMA Confirming ==
    ASSUME CapInv, DataMoves, NEW s \in Slots,
           call[s].at \in {"register.confirm", "pay.confirm", "offer.confirm"},
           AddStudent(Claimant(s))
    PROVE  /\ Finish(s) => Moves(s)
           /\ \A l : Goto(s, l) /\ GoesTo(call[s], l) /\ l \notin Holding => Moves(s)
<1>0. CapKept
  BY DEF CapKept, AddStudent, SetEnrolled, CapInv, TInv, DataOK, SeminarOK, Seminar
<1>1. ASSUME OneRun(s), RunInv(call[s])', call'[s].at \notin Holding
      PROVE  Moves(s)
  BY <1>0, <1>1 DEF Moves, Confirms
<1>2. "idle" \notin Holding
  BY DEF Holding
<1> QED
  BY <1>0, <1>1, <1>2, Ends, GoesOn

LEMMA Taking ==
    ASSUME CapInv, DataMoves, NEW s \in Slots, NEW l, Goto(s, l), GoesTo(call[s], l),
           call[s].at \in {"register.take", "pay.take", "offer.take"},
           SeatFree(s, Claimant(s)), AddStudent(Claimant(s)), UNCHANGED requests,
           l \in FreeOffers <=> call[s].at \in FreeOffers
    PROVE  Moves(s)
<1>0. CapKept
  BY DEF CapKept, AddStudent, SetEnrolled, CapInv, TInv, DataOK, SeminarOK, Seminar
<1>1. /\ OneRun(s) /\ RunInv(call[s])' /\ call'[s].at = l /\ call'[s].u = call[s].u
      /\ call'[s].i = call[s].i /\ call'[s].r = call[s].r
  BY <1>0, GoesOn
<1>2. Claimant(s)' = Claimant(s)
  BY <1>1 DEF Claimant
<1>3. SetEnrolled(seminar.enrolled \cup {Claimant(s)})
  BY DEF SeatFree, AddStudent
<1> QED
  BY <1>0, <1>1, <1>2, <1>3 DEF Moves, Takes

-----------------------------------------------------------------------------
(* The offer loop. *)
LEMMA OfferDocuments ==
    ASSUME CapInv, NEW s \in Slots, OfferStep(s)
    PROVE  DataMoves
<1>1. UNCHANGED <<ledger, stripe, events>>
  BY DEF OfferStep, OfferRead, OfferFull, OfferPick, OfferEnrolled, OfferMake,
         OfferReread, OfferRecheck, OfferRollback, OfferCount, OfferTake,
         OfferApprove, OfferConfirm, OfferConfirmFails, OfferUndo
<1>2. EnvSame
  <2>1. UNCHANGED world \/ Fault("enroll")
    BY DEF OfferStep, OfferRead, OfferFull, OfferPick, OfferEnrolled, OfferMake,
           OfferReread, OfferRecheck, OfferRollback, OfferCount, OfferTake,
           OfferApprove, OfferConfirm, OfferConfirmFails, OfferUndo
  <2> QED
    BY <2>1, WorldKeeps DEF CapInv
<1>3. RowsKept
  <2>1. CASE OfferMake(s)
    <3>1. requests \in [RequestIds -> Request]
      BY DEF CapInv, TInv, DataOK, RequestsOK
    <3> QED
      BY <2>1, <3>1, RequestsKeep DEF OfferMake, RowsKept, Request
  <2>2. CASE ~OfferMake(s)
    <3>1. \/ UNCHANGED requests
          \/ MoveStatus(call[s].r, "pending", "approved")
          \/ MoveStatus(call[s].r, "awaiting_payment", "pending")
          \/ SetStatus(call[s].r, "approved")
          \/ MoveStatus(call[s].r, "approved", "pending")
      BY <2>2
         DEF OfferStep, OfferRead, OfferFull, OfferPick, OfferEnrolled,
             OfferReread, OfferRecheck, OfferRollback, OfferCount, OfferTake,
             OfferApprove, OfferConfirm, OfferConfirmFails, OfferUndo
    <3> QED
      BY <3>1, RequestsKeep
  <2> QED
    BY <2>1, <2>2
<1> QED
  BY <1>1, <1>2, <1>3, Documents

LEMMA OfferMoves ==
    ASSUME CapInv, NEW s \in Slots, OfferStep(s)
    PROVE  Moves(s)
<1> USE DEF At, GoesTo, Buying, ClaimLabels, CaptureLabels, PayLabels, FoundLabels,
            HeldLabels, MoneyLabels, GiveUpLabels, ReleaseLabels, FreeOffers,
            LeaveLabels, CapLabels, Holding
<1>1. DataMoves
  BY OfferDocuments
<1>2. call[s] \in Run(Labels) /\ seminar.cap \in Caps
  BY DEF CapInv, TInv, CallsOK, DataOK, SeminarOK, Seminar
<1>3. CASE OfferRead(s)
  <2>1. CASE EndOffer(s)
    BY <1>1, <1>3, <2>1, Resting DEF OfferRead
  <2>2. CASE ~EndOffer(s)
    <3> DEFINE d == [call[s] EXCEPT !.at = "offer.full",
                        !.seen = seminar.enrolled, !.cap = seminar.cap]
    <3>1. call' = [call EXCEPT ![s] = d] /\ UNCHANGED seminar
      BY <1>3, <2>2 DEF OfferRead
    <3>2. GoesAs(call[s], d) /\ d.at = "offer.full"
      BY <1>2, <1>3 DEF OfferRead, GoesAs, Run, CapInv, TInv, CallsOK, SlotOK
    <3> HIDE DEF d
    <3>3. OneRun(s) /\ call'[s] = d /\ RunInv(call[s])'
      BY <1>1, <3>1, <3>2, GoesOnAs DEF CapKept
    <3> QED
      BY <1>1, <3>1, <3>2, <3>3, Resting
  <2> QED
    BY <2>1, <2>2
<1>4. CASE OfferFull(s)
  BY <1>1, <1>4, Resting DEF OfferFull
<1>5. CASE OfferPick(s)
  <2>1. CASE EndOffer(s)
    BY <1>1, <1>5, <2>1, Resting DEF OfferPick
  <2>2. CASE ~EndOffer(s)
    <3>1. PICK r \in Oldest :
            call' = [call EXCEPT ![s].r = r, ![s].at =
                IF requests[r].u \in call[s].seen THEN "offer.enrolled"
                ELSE IF Paid THEN "offer.make" ELSE "offer.count"]
      BY <1>5, <2>2 DEF OfferPick
    <3> DEFINE d == [call[s] EXCEPT !.r = r, !.at =
                IF requests[r].u \in call[s].seen THEN "offer.enrolled"
                ELSE IF Paid THEN "offer.make" ELSE "offer.count"]
    <3>2. call' = [call EXCEPT ![s] = d] /\ UNCHANGED seminar
      BY <1>5, <3>1 DEF OfferPick
    <3>3. GoesAs(call[s], d) /\ d.at \notin Holding
      BY <1>2, <1>5 DEF OfferPick, GoesAs, Run, CapInv, TInv, CallsOK, SlotOK
    <3> HIDE DEF d
    <3>4. OneRun(s) /\ call'[s] = d /\ RunInv(call[s])'
      BY <1>1, <3>2, <3>3, GoesOnAs DEF CapKept
    <3> QED
      BY <1>1, <3>2, <3>3, <3>4, Resting
  <2> QED
    BY <2>1, <2>2
<1>6. CASE OfferEnrolled(s)
  BY <1>1, <1>6, Resting DEF OfferEnrolled
<1>7. CASE OfferMake(s)
  BY <1>1, <1>7, Resting DEF OfferMake
<1>8. CASE OfferReread(s)
  <2> DEFINE d == [call[s] EXCEPT !.at = "offer.recheck", !.seen = seminar.enrolled,
                      !.cap = IF seminar.status = "active" THEN seminar.cap ELSE Unlimited]
  <2>1. call' = [call EXCEPT ![s] = d] /\ UNCHANGED seminar
    BY <1>8 DEF OfferReread
  <2>2. GoesAs(call[s], d) /\ d.at = "offer.recheck"
    BY <1>2, <1>8 DEF OfferReread, GoesAs, Run, CapInv, TInv, CallsOK, SlotOK, Caps
  <2> HIDE DEF d
  <2>3. OneRun(s) /\ call'[s] = d /\ RunInv(call[s])'
    BY <1>1, <2>1, <2>2, GoesOnAs DEF CapKept
  <2> QED
    BY <1>1, <2>1, <2>2, <2>3, Resting
<1>9. CASE OfferRecheck(s)
  BY <1>1, <1>9, Resting DEF OfferRecheck
<1>10. CASE OfferRollback(s)
  BY <1>1, <1>10, Resting DEF OfferRollback
<1>11. CASE OfferCount(s)
  <2>1. CASE EndOffer(s)
    BY <1>1, <1>11, <2>1, Resting DEF OfferCount
  <2>2. CASE ~EndOffer(s)
    <3> DEFINE n == SoftHeld(NoOne)
               d == [call[s] EXCEPT !.at = "offer.take", !.soft = n]
    <3>1. call' = [call EXCEPT ![s] = d] /\ UNCHANGED seminar
      BY <1>11, <2>2 DEF OfferCount
    <3>2. ~Paid
      BY <1>11 DEF OfferCount, CapInv, Steady, RunInv, AtPrice
    <3> HIDE DEF n
    <3>3. GoesAs(call[s], d) /\ d.at = "offer.take"
      BY <1>2, <1>11, <3>2 DEF OfferCount, GoesAs, Run, CapInv, TInv, CallsOK, SlotOK
    <3> HIDE DEF d
    <3>4. OneRun(s) /\ call'[s] = d /\ RunInv(call[s])'
      BY <1>1, <3>1, <3>3, GoesOnAs DEF CapKept
    <3> QED
      BY <1>1, <3>1, <3>3, <3>4, Resting
  <2> QED
    BY <2>1, <2>2
<1>12. CASE OfferTake(s)
  <2>1. CASE EndOffer(s) /\ UNCHANGED seminar
    BY <1>1, <1>12, <2>1, Resting DEF OfferTake
  <2>2. CASE SeatFree(s, requests[call[s].r].u)
    <3>1. Claimant(s) = requests[call[s].r].u /\ ~Paid
      BY <1>12 DEF OfferTake, Claimant, CapInv, Steady, RunInv, AtPrice
    <3> QED
      BY <1>1, <1>12, <2>2, <3>1, Taking DEF OfferTake
  <2> QED
    BY <1>12, <2>1, <2>2 DEF OfferTake
<1>13. CASE OfferApprove(s)
  <2>1. ~Paid /\ Claimant(s) = requests[call[s].r].u
    BY <1>13 DEF OfferApprove, Claimant, CapInv, Steady, RunInv, AtPrice
  <2>2. CASE Unenroll(Claimant(s)) /\ EndOffer(s)
    BY <1>1, <1>13, <2>2, Giving DEF OfferApprove
  <2>3. CASE SetStatus(call[s].r, "approved") /\ Goto(s, "offer.confirm") /\ UNCHANGED seminar
    <3>1. CapKept
      BY <2>3 DEF CapKept
    <3>2. /\ OneRun(s) /\ RunInv(call[s])' /\ call'[s].at = "offer.confirm"
          /\ call'[s].i = call[s].i /\ call'[s].r = call[s].r
          /\ call'[s].pays = call[s].pays
      BY <1>1, <1>13, <2>1, <2>3, <3>1, GoesOn DEF OfferApprove
    <3>3. call[s].r \in RequestIds /\ requests[call[s].r].status # "none"
      BY <1>13, KnowsOK DEF OfferApprove, OfferRowLabels, CapInv, TInv
    <3>4. Claimant(s)' = Claimant(s)
      BY <1>1, <1>13, <3>2, <3>3 DEF OfferApprove, Claimant, DataMoves, RowsKept
    <3> QED
      BY <1>1, <1>13, <2>3, <3>1, <3>2, <3>4 DEF OfferApprove, Moves, Rests
  <2> QED
    BY <1>13, <2>1, <2>2, <2>3 DEF OfferApprove
<1>14. CASE OfferConfirm(s)
  <2>1. Claimant(s) = requests[call[s].r].u
    BY <1>14 DEF OfferConfirm, Claimant
  <2> QED
    BY <1>1, <1>14, <2>1, Confirming DEF OfferConfirm
<1>15. CASE OfferConfirmFails(s)
  <2>1. Claimant(s) = requests[call[s].r].u
    BY <1>15 DEF OfferConfirmFails, Claimant
  <2> QED
    BY <1>1, <1>15, <2>1, Giving DEF OfferConfirmFails
<1>16. CASE OfferUndo(s)
  BY <1>1, <1>16, Resting DEF OfferUndo
<1> QED
  BY <1>3, <1>4, <1>5, <1>6, <1>7, <1>8, <1>9, <1>10, <1>11, <1>12, <1>13,
     <1>14, <1>15, <1>16
     DEF OfferStep

(* Asking, inviting, and the host's new cap. *)
LEMMA WaitlistMoves ==
    ASSUME CapInv, NEW s \in Slots, WaitlistStep(s)
    PROVE  Moves(s)
<1> USE DEF At, GoesTo, Buying, ClaimLabels, CaptureLabels, PayLabels, FoundLabels,
            HeldLabels, MoneyLabels, GiveUpLabels, ReleaseLabels, FreeOffers,
            LeaveLabels, CapLabels, Holding
<1>0. CASE OfferStep(s)
  BY <1>0, OfferMoves
<1>1. UNCHANGED world => EnvSame
  BY WorldKeeps DEF CapInv
<1>2. CASE RequestFull(s)
  <2>1. DataMoves
    BY <1>1, <1>2, RequestsKeep, Documents DEF RequestFull
  <2> QED
    BY <1>2, <2>1, Resting DEF RequestFull
<1>3. CASE RequestFind(s)
  <2>1. DataMoves
    BY <1>1, <1>3, RequestsKeep, Documents DEF RequestFind
  <2> QED
    BY <1>3, <2>1, Resting DEF RequestFind
<1>4. CASE RequestInsert(s)
  <2>1. DataMoves
    BY <1>1, <1>4, RequestsKeep, Documents DEF RequestInsert
  <2> QED
    BY <1>4, <2>1, Resting DEF RequestInsert
<1>5. CASE InviteFind(s)
  <2>1. DataMoves
    BY <1>1, <1>5, RequestsKeep, Documents DEF InviteFind
  <2>2. Paid
    BY <1>5 DEF InviteFind, CapInv, Steady, RunInv, AtPrice
  <2> QED
    BY <1>5, <2>1, <2>2, Resting DEF InviteFind
<1>6. CASE InviteSend(s)
  <2>1. Paid
    BY <1>6 DEF InviteSend, CapInv, Steady, RunInv, AtPrice
  <2>2. DataMoves
    BY <1>1, <1>6, <2>1, RequestsKeep, Documents DEF InviteSend
  <2> QED
    BY <1>6, <2>1, <2>2, Resting DEF InviteSend
<1>7. CASE UpdateWrite(s)
  <2>1. DataMoves
    BY <1>1, <1>7, RequestsKeep, Documents DEF UpdateWrite
  <2>2. RunInv(call[s]) /\ call[s].cap \in Caps /\ seminar \in Seminar
    BY DEF CapInv, Steady, TInv, CallsOK, Run, DataOK, SeminarOK
  <2>3. CapKept
    BY <1>7, <2>2 DEF UpdateWrite, CapKept, RunInv, ReadsCap, Seminar
  <2>4. OneRun(s) /\ RunInv(call[s])' /\ call'[s].at \in {"idle", "offer.read"}
    BY <1>7, <2>1, <2>3, Ends, OfferBegins DEF UpdateWrite
  <2>5. UNCHANGED <<seminar.enrolled, seminar.status>>
    BY <1>7, <2>2 DEF UpdateWrite, Seminar
  <2> QED
    BY <2>1, <2>3, <2>4, <2>5 DEF Moves, Rests
<1> QED
  BY <1>0, <1>2, <1>3, <1>4, <1>5, <1>6, <1>7 DEF WaitlistStep

-----------------------------------------------------------------------------
(* Registrations. *)
LEMMA RegisterDocuments ==
    ASSUME CapInv, NEW s \in Slots, RegisterStep(s)
    PROVE  DataMoves
<1> USE DEF At
<1>0. (UNCHANGED world => EnvSame) /\ \A k : Fault(k) => EnvSame
  BY WorldKeeps DEF CapInv
<1>1. call[s].at \in CaptureLabels => call[s].i \in Intents /\ Live(call[s].i)
  BY KnowsOK, IntentCosts DEF WithIntent, CapInv, TInv
<1>2. CASE RegisterFull(s) \/ RegisterFind(s) \/ RegisterConsumed(s) \/ RegisterProbe(s)
           \/ RegisterCount(s) \/ RegisterTake(s) \/ RegisterWhy(s) \/ RegisterOwned(s)
           \/ RegisterWhyFull(s) \/ RegisterWhyFind(s) \/ RegisterLookup(s)
           \/ RegisterInsertFails(s) \/ RegisterAbort(s) \/ RegisterDup(s)
           \/ RegisterCaptureFails(s) \/ RegisterCapFail(s) \/ RegisterCancelFails(s)
           \/ RegisterConfirm(s) \/ RegisterConfirmFails(s)
  <2>1. UNCHANGED <<requests, ledger, stripe, events>>
    BY <1>2
       DEF RegisterFull, RegisterFind, RegisterConsumed, RegisterProbe,
           RegisterCount, RegisterTake, RegisterWhy, RegisterOwned,
           RegisterWhyFull, RegisterWhyFind, RegisterLookup,
           RegisterInsertFails, RegisterAbort, RegisterDup,
           RegisterCaptureFails, RegisterCapFail, RegisterCancelFails,
           RegisterConfirm, RegisterConfirmFails
  <2>2. EnvSame
    BY <1>0, <1>2
       DEF RegisterFull, RegisterFind, RegisterConsumed, RegisterProbe,
           RegisterCount, RegisterTake, RegisterWhy, RegisterOwned,
           RegisterWhyFull, RegisterWhyFind, RegisterLookup,
           RegisterInsertFails, RegisterAbort, RegisterDup,
           RegisterCaptureFails, RegisterCapFail, RegisterCancelFails,
           RegisterConfirm, RegisterConfirmFails
  <2> QED
    BY <2>1, <2>2, RequestsKeep, Documents
<1>3. CASE RegisterJoin(s) \/ RegisterWhyJoin(s)
  <2>1. UNCHANGED <<ledger, stripe, events>> /\ EnvSame
    BY <1>0, <1>3 DEF RegisterJoin, RegisterWhyJoin
  <2>2. RowsKept
    BY <1>3, RequestsKeep DEF RegisterJoin, RegisterWhyJoin
  <2> QED
    BY <2>1, <2>2, Documents
<1>4. CASE RegisterInsert(s) \/ RegisterCapDelete(s) \/ RegisterRecord(s)
           \/ RegisterSettle(s) \/ RegisterPaid(s)
  <2>1. UNCHANGED <<requests, stripe, events>> /\ EnvSame /\ Live(call[s].i)
    BY <1>0, <1>1, <1>4
       DEF RegisterInsert, RegisterCapDelete, RegisterRecord, RegisterSettle,
           RegisterPaid, CaptureLabels
  <2>2. UNCHANGED ledger \/ \E st : SetCharge(call[s].i, st)
    BY <1>4
       DEF RegisterInsert, RegisterCapDelete, RegisterRecord, RegisterSettle,
           RegisterPaid
  <2>3. RowsLive
    BY <2>1, <2>2, RowsAreLive
  <2> QED
    BY <2>1, <2>3, RequestsKeep, Documents
<1>5. CASE RegisterWhyCancel(s) \/ RegisterCapCancel(s) \/ RegisterCapture(s)
           \/ RegisterCaptureLost(s)
  <2>1. /\ UNCHANGED <<requests, ledger>> /\ EnvSame
        /\ call[s].i \in Intents /\ Live(call[s].i)
    BY <1>0, <1>1, <1>5
       DEF RegisterWhyCancel, RegisterCapCancel, RegisterCapture,
           RegisterCaptureLost, CaptureLabels
  <2>2. \/ CancelHold(call[s].i)
        \/ CanCapture(call[s].i) /\ Capture(call[s].i)
        \/ UNCHANGED <<stripe, events>>
    BY <1>5
       DEF RegisterWhyCancel, RegisterCapCancel, RegisterCapture, RegisterCaptureLost
  <2>3. RowsLive /\ RowsKept
    BY <2>1, RowsAreLive, RequestsKeep
  <2> QED
    BY <2>1, <2>2, <2>3, StripeMoves, Documents
<1> QED
  BY <1>2, <1>3, <1>4, <1>5 DEF RegisterStep

(* The hold is captured: the run that found it knows it as money now.      *)
LEMMA CaptureMoves ==
    ASSUME CapInv, DataMoves, NEW s \in Slots, RegisterCapture(s)
    PROVE  Moves(s)
<1> USE DEF At, GoesTo, Buying, ClaimLabels, CaptureLabels, PayLabels, FoundLabels,
            HeldLabels, MoneyLabels, GiveUpLabels, ReleaseLabels, FreeOffers,
            LeaveLabels, CapLabels, Holding
<1>0. UNCHANGED seminar /\ CapKept
  BY DEF RegisterCapture, CapKept
<1>1. call \in [Slots -> Run(Labels)] /\ SlotOK(s) /\ RunInv(call[s])
      /\ stripe \in [Intents -> Intent]
  BY DEF CapInv, Steady, TInv, CallsOK, DataOK, StripeOK
<1>2. call[s].i \in Intents /\ call[s].at = "register.capture"
  BY <1>1 DEF RegisterCapture, SlotOK, WithIntent
<1>3. CASE Goto(s, "register.capFail")
  <2>1. GoesTo(call[s], "register.capFail")
    BY <1>1, <1>2 DEF RunInv, KnowsPayment
  <2> QED
    BY <1>0, <1>2, <1>3, <2>1, HoldingOn
<1>4. CASE CanCapture(call[s].i) \/ stripe[call[s].i].st = "succeeded"
  <2> DEFINE d == [call[s] EXCEPT !.at = "register.confirm", !.pays = "settled"]
  <2>1. call' = [call EXCEPT ![s] = d]
    BY <1>4 DEF RegisterCapture
  <2>2. /\ d.at = "register.confirm" /\ d.pays = "settled" /\ d.i = call[s].i
        /\ d.u = call[s].u /\ d.ret = call[s].ret
    BY <1>1 DEF Run
  <2> HIDE DEF d
  <2>3. call'[s] = d /\ OneRun(s)
    BY <1>1, <2>1 DEF OneRun
  <2>4. stripe'[call[s].i].st = "succeeded"
    BY <1>1, <1>2, <1>4
       DEF RegisterCapture, CanCapture, Capture, SetIntent, Intent
  <2>5. IntentsKept /\ Paid' = Paid /\ Live(call[s].i)
        /\ stripe[call[s].i].u = call[s].u /\ ~stripe[call[s].i].old
    BY <1>1, <1>2, EnvKeeps DEF DataMoves, RunInv, OwnsIntent
  <2>6. stripe'[call[s].i].u = call[s].u /\ ~stripe'[call[s].i].old
        /\ Live(call[s].i)'
    BY <1>2, <2>2, <2>3, <2>5 DEF IntentsKept
  <2>7. OwnsIntent(call[s])'
    BY <2>2, <2>3, <2>6 DEF OwnsIntent
  <2>8. KnowsPayment(call[s])'
    BY <2>2, <2>3, <2>4 DEF KnowsPayment
  <2>9. GivesUp(call[s])'
    <3>1. ~Gone(call[s].i)
      BY <1>4, <2>5 DEF Gone, CanCapture, Cancelled
    <3>2. call[s].ret # "failed.again"
      BY <1>1, <3>1 DEF RunInv, GivesUp
    <3> QED
      BY <2>2, <2>3, <3>2 DEF GivesUp
  <2>10. AtPrice(call[s])'
    BY <1>1, <1>2, <2>2, <2>3, <2>5 DEF RunInv, AtPrice
  <2>11. ReadsCap(call[s])'
    BY <2>2, <2>3 DEF ReadsCap
  <2>12. RunInv(call[s])'
    BY <2>7, <2>8, <2>9, <2>10, <2>11 DEF RunInv
  <2>13. ~Cancelled(call[s].i)
    BY <1>4 DEF CanCapture, Cancelled
  <2> QED
    BY <1>0, <1>2, <2>2, <2>3, <2>12, <2>13, HoldingOn
<1> QED
  BY <1>3, <1>4 DEF RegisterCapture

LEMMA RegisterMoves ==
    ASSUME CapInv, NEW s \in Slots, RegisterStep(s)
    PROVE  Moves(s)
<1> USE DEF At, GoesTo, Buying, ClaimLabels, CaptureLabels, PayLabels, FoundLabels,
            HeldLabels, MoneyLabels, GiveUpLabels, ReleaseLabels, FreeOffers,
            LeaveLabels, CapLabels, Holding
<1>1. DataMoves
  BY RegisterDocuments
<1>2. call[s] \in Run(Labels) /\ SlotOK(s) /\ RunInv(call[s]) /\ seminar.cap \in Caps
  BY DEF CapInv, TInv, CallsOK, Steady, DataOK, SeminarOK, Seminar
<1>3. call[s].i \in Intents => Paid
  BY IntentCosts
<1>4. call[s].at \in ClaimLabels \cup CaptureLabels => Claimant(s) = call[s].u
  BY DEF Claimant
<1>5. CASE RegisterFull(s)
  BY <1>1, <1>5, Resting DEF RegisterFull, Checkin
<1>6. CASE RegisterFind(s)
  BY <1>1, <1>6, Resting DEF RegisterFind, Checkin
<1>7. CASE RegisterJoin(s)
  BY <1>1, <1>7, Resting DEF RegisterJoin, Checkin
<1>8. CASE RegisterConsumed(s)
  BY <1>1, <1>8, Resting DEF RegisterConsumed
<1>9. CASE RegisterProbe(s)
  <2>1. CASE Finish(s)
    BY <1>1, <1>9, <2>1, Resting DEF RegisterProbe
  <2>2. CASE ~Finish(s)
    <3> DEFINE p == FoundAs[stripe[call[s].i].st]
               d == [call[s] EXCEPT !.at = "register.count", !.pays = p]
    <3>1. /\ call' = [call EXCEPT ![s] = d] /\ UNCHANGED seminar
          /\ stripe[call[s].i].st \in {"hold", "processing", "succeeded"}
      BY <1>9, <2>2 DEF RegisterProbe
    <3>2. p \in {"held", "settling", "settled"}
          /\ (p # "held" => stripe[call[s].i].st \in Earned)
      BY <3>1 DEF FoundAs, Earned
    <3> HIDE DEF p
    <3>3. GoesAs(call[s], d) /\ d.at = "register.count"
      BY <1>2, <1>9, <3>2 DEF RegisterProbe, GoesAs, Run, SlotOK, WithIntent
    <3> HIDE DEF d
    <3>4. OneRun(s) /\ call'[s] = d /\ RunInv(call[s])'
      BY <1>1, <3>1, <3>3, GoesOnAs DEF CapKept
    <3> QED
      BY <1>1, <3>1, <3>3, <3>4, Resting
  <2> QED
    BY <2>1, <2>2
<1>10. CASE RegisterCount(s)
  <2>1. CASE Refuse(s) \/ Goto(s, "register.why")
    BY <1>1, <1>10, <2>1, Resting DEF RegisterCount
  <2>2. CASE ~(Refuse(s) \/ Goto(s, "register.why"))
    <3> DEFINE n == SoftHeld(NoOne)
               d == [call[s] EXCEPT !.at = "register.take", !.soft = n]
    <3>1. call' = [call EXCEPT ![s] = d] /\ UNCHANGED seminar
      BY <1>10, <2>2 DEF RegisterCount, CountForClaim
    <3> HIDE DEF n
    <3>2. GoesAs(call[s], d) /\ d.at = "register.take"
      BY <1>2, <1>10 DEF RegisterCount, GoesAs, Run, SlotOK, RunInv, KnowsPayment
    <3> HIDE DEF d
    <3>3. OneRun(s) /\ call'[s] = d /\ RunInv(call[s])'
      BY <1>1, <3>1, <3>2, GoesOnAs DEF CapKept
    <3> QED
      BY <1>1, <3>1, <3>2, <3>3, Resting
  <2> QED
    BY <2>1, <2>2
<1>11. CASE RegisterTake(s)
  <2>1. CASE Goto(s, "register.why") /\ UNCHANGED seminar
    BY <1>1, <1>11, <2>1, Resting DEF RegisterTake
  <2>2. CASE SeatFree(s, call[s].u)
    BY <1>1, <1>2, <1>4, <1>11, <2>2, Taking
       DEF RegisterTake, RunInv, KnowsPayment
  <2> QED
    BY <1>11, <2>1, <2>2 DEF RegisterTake
<1>12. CASE RegisterWhy(s)
  <2>1. CASE Refuse(s) \/ Goto(s, "register.owned")
    BY <1>1, <1>12, <2>1, Resting DEF RegisterWhy
  <2>2. CASE ~(Refuse(s) \/ Goto(s, "register.owned"))
    <3> DEFINE d == [call[s] EXCEPT !.at = "register.whyFull",
                        !.seen = seminar.enrolled, !.cap = seminar.cap]
    <3>1. call' = [call EXCEPT ![s] = d] /\ UNCHANGED seminar
      BY <1>12, <2>2 DEF RegisterWhy
    <3>2. GoesAs(call[s], d) /\ d.at = "register.whyFull"
      BY <1>2, <1>12 DEF RegisterWhy, GoesAs, Run, SlotOK
    <3> HIDE DEF d
    <3>3. OneRun(s) /\ call'[s] = d /\ RunInv(call[s])'
      BY <1>1, <3>1, <3>2, GoesOnAs DEF CapKept
    <3> QED
      BY <1>1, <3>1, <3>2, <3>3, Resting
  <2> QED
    BY <2>1, <2>2
<1>13. CASE RegisterOwned(s)
  BY <1>1, <1>13, Resting DEF RegisterOwned
<1>14. CASE RegisterWhyFull(s)
  BY <1>1, <1>14, Resting DEF RegisterWhyFull
<1>15. CASE RegisterWhyFind(s)
  BY <1>1, <1>15, Resting DEF RegisterWhyFind
<1>16. CASE RegisterWhyCancel(s)
  BY <1>1, <1>16, Resting DEF RegisterWhyCancel
<1>17. CASE RegisterWhyJoin(s)
  BY <1>1, <1>17, Resting DEF RegisterWhyJoin
<1>18. CASE RegisterLookup(s)
  <2> DEFINE known == ledger[call[s].i].charge = "pending"
             d == [call[s] EXCEPT !.row = known, !.at =
                      IF call[s].pays # "held" THEN "register.confirm"
                      ELSE IF known THEN "register.capture" ELSE "register.insert"]
  <2>1. call' = [call EXCEPT ![s] = d] /\ UNCHANGED seminar
    BY <1>18 DEF RegisterLookup
  <2> HIDE DEF known
  <2>2. GoesAs(call[s], d) /\ d.at \notin FreeOffers /\ d.pays = call[s].pays
    BY <1>2, <1>3, <1>18
       DEF RegisterLookup, GoesAs, Run, SlotOK, WithIntent, RunInv, KnowsPayment
  <2> HIDE DEF d
  <2>3. OneRun(s) /\ call'[s] = d /\ RunInv(call[s])'
    BY <1>1, <2>1, <2>2, GoesOnAs DEF CapKept
  <2> QED
    BY <1>1, <1>18, <2>1, <2>2, <2>3, HoldingOn DEF RegisterLookup, GoesAs
<1>19. CASE RegisterInsert(s)
  <2>1. call[s].pays = "held"
    BY <1>2, <1>19 DEF RegisterInsert, RunInv, KnowsPayment
  <2>2. CASE Goto(s, "register.dup")
    BY <1>1, <1>19, <2>1, <2>2, HoldingOn DEF RegisterInsert
  <2>3. CASE ~Goto(s, "register.dup")
    <3> DEFINE d == [call[s] EXCEPT !.at = "register.capture", !.row = TRUE]
    <3>1. call' = [call EXCEPT ![s] = d] /\ UNCHANGED seminar
      BY <1>19, <2>3 DEF RegisterInsert
    <3>2. GoesAs(call[s], d) /\ d.at = "register.capture" /\ d.pays = call[s].pays
      BY <1>2, <1>19, <2>1 DEF RegisterInsert, GoesAs, Run, SlotOK
    <3> HIDE DEF d
    <3>3. OneRun(s) /\ call'[s] = d /\ RunInv(call[s])'
      BY <1>1, <3>1, <3>2, GoesOnAs DEF CapKept
    <3> QED
      BY <1>1, <1>19, <3>1, <3>2, <3>3, HoldingOn DEF RegisterInsert, GoesAs
  <2> QED
    BY <2>2, <2>3
<1>20. CASE RegisterInsertFails(s)
  BY <1>1, <1>2, <1>20, HoldingOn DEF RegisterInsertFails, RunInv, KnowsPayment
<1>21. CASE RegisterAbort(s)
  BY <1>1, <1>4, <1>21, Giving DEF RegisterAbort
<1>22. CASE RegisterDup(s)
  BY <1>1, <1>4, <1>22, Giving DEF RegisterDup
<1>23. CASE RegisterCapture(s)
  BY <1>1, <1>23, CaptureMoves
<1>24. CASE RegisterCaptureFails(s) \/ RegisterCaptureLost(s)
  BY <1>1, <1>2, <1>24, HoldingOn
     DEF RegisterCaptureFails, RegisterCaptureLost, RunInv, KnowsPayment
<1>25. CASE RegisterCapFail(s)
  BY <1>1, <1>4, <1>25, Giving DEF RegisterCapFail
<1>26. CASE RegisterCapCancel(s)
  BY <1>1, <1>26, Resting DEF RegisterCapCancel
<1>27. CASE RegisterCancelFails(s)
  BY <1>1, <1>27, Resting DEF RegisterCancelFails
<1>28. CASE RegisterCapDelete(s)
  BY <1>1, <1>28, Resting DEF RegisterCapDelete
<1>29. CASE RegisterConfirm(s)
  BY <1>1, <1>4, <1>29, Confirming DEF RegisterConfirm
<1>30. CASE RegisterRecord(s) \/ RegisterSettle(s)
  BY <1>1, <1>30, Resting DEF RegisterRecord, RegisterSettle
<1>31. CASE RegisterConfirmFails(s)
  BY <1>1, <1>4, <1>31, Giving DEF RegisterConfirmFails
<1>32. CASE RegisterPaid(s)
  BY <1>1, <1>32, Resting DEF RegisterPaid
<1> QED
  BY <1>5, <1>6, <1>7, <1>8, <1>9, <1>10, <1>11, <1>12, <1>13, <1>14, <1>15,
     <1>16, <1>17, <1>18, <1>19, <1>20, <1>21, <1>22, <1>23, <1>24, <1>25,
     <1>26, <1>27, <1>28, <1>29, <1>30, <1>31, <1>32
     DEF RegisterStep

-----------------------------------------------------------------------------
(* Payments of offers, refusals, and a registration that came too late. *)
LEMMA PayDocuments ==
    ASSUME CapInv, NEW s \in Slots, PayStep(s)
    PROVE  DataMoves
<1> USE DEF At
<1>0. (UNCHANGED world => EnvSame) /\ \A k : Fault(k) => EnvSame
  BY WorldKeeps DEF CapInv
<1>1. call[s].at \in PayLabels => call[s].i \in Intents /\ Live(call[s].i)
  BY KnowsOK, IntentCosts DEF WithIntent, CapInv, TInv
<1>2. CASE PayRead(s) \/ PayConsumed(s) \/ PayProbe(s) \/ PayClearing(s) \/ PayCount(s)
           \/ PayTake(s) \/ PayLost(s) \/ PayInsertFails(s) \/ PayDup(s) \/ PayConfirm(s)
           \/ PayConfirmFails(s) \/ PayRefundFails(s)
  <2>1. UNCHANGED <<requests, ledger, stripe, events>>
    BY <1>2
       DEF PayRead, PayConsumed, PayProbe, PayClearing, PayCount, PayTake, PayLost,
           PayInsertFails, PayDup, PayConfirm, PayConfirmFails, PayRefundFails
  <2>2. EnvSame
    BY <1>0, <1>2
       DEF PayRead, PayConsumed, PayProbe, PayClearing, PayCount, PayTake, PayLost,
           PayInsertFails, PayDup, PayConfirm, PayConfirmFails, PayRefundFails
  <2> QED
    BY <2>1, <2>2, RequestsKeep, Documents
<1>3. CASE PayExpire(s) \/ PayReopen(s) \/ PayFail(s)
  <2>1. UNCHANGED <<ledger, stripe, events>> /\ EnvSame
    BY <1>0, <1>3 DEF PayExpire, PayReopen, PayFail
  <2>2. RowsKept
    BY <1>3, RequestsKeep DEF PayExpire, PayReopen, PayFail
  <2> QED
    BY <2>1, <2>2, Documents
<1>4. CASE PayApprove(s)
  <2>1. requests \in [RequestIds -> Request]
    BY DEF CapInv, TInv, DataOK, RequestsOK
  <2>2. RowsKept
    BY <1>4, <2>1, RequestsKeep DEF PayApprove, RowsKept, Request
  <2> QED
    BY <1>0, <1>4, <2>2, Documents DEF PayApprove
<1>5. CASE PayInsert(s) \/ PayBook(s)
  <2>1. UNCHANGED <<requests, stripe, events>> /\ EnvSame /\ Live(call[s].i)
    BY <1>0, <1>1, <1>5 DEF PayInsert, PayBook, PayLabels
  <2>2. UNCHANGED ledger \/ \E st : SetCharge(call[s].i, st)
    BY <1>5 DEF PayInsert, PayBook
  <2>3. RowsLive
    BY <2>1, <2>2, RowsAreLive
  <2> QED
    BY <2>1, <2>3, RequestsKeep, Documents
<1>6. CASE PayRefund(s)
  <2>1. /\ UNCHANGED <<requests, ledger, events>> /\ EnvSame
        /\ call[s].i \in Intents /\ Live(call[s].i)
        /\ Refund(call[s].i) \/ UNCHANGED stripe
    BY <1>0, <1>1, <1>6 DEF PayRefund, PayLabels
  <2>2. RowsLive /\ RowsKept
    BY <2>1, RowsAreLive, RequestsKeep
  <2> QED
    BY <2>1, <2>2, StripeMoves, Documents
<1> QED
  BY <1>2, <1>3, <1>4, <1>5, <1>6 DEF PayStep

(* The intent is found paid, or clearing. *)
LEMMA FoundMoves ==
    ASSUME CapInv, DataMoves, UNCHANGED seminar, NEW s \in Slots,
           NEW pays \in {"settling", "settled"}, PayFound(s, pays),
           call[s].at \in {"pay.probe", "pay.clearing"},
           stripe[call[s].i].st \in Earned
    PROVE  Moves(s)
<1> USE DEF Buying, ClaimLabels, CaptureLabels, PayLabels, FoundLabels,
            HeldLabels, MoneyLabels, GiveUpLabels, ReleaseLabels, FreeOffers,
            LeaveLabels, CapLabels, Holding
<1>1. call[s] \in Run(Labels) /\ SlotOK(s)
  BY DEF CapInv, TInv, CallsOK
<1>2. CASE Finish(s)
  BY <1>2, Resting
<1>3. CASE ~Finish(s)
  <2> DEFINE l == IF seminar.started \/ call[s].u \in call[s].seen
                  THEN "refuse" ELSE "pay.count"
             d == [call[s] EXCEPT !.at = l, !.pays = pays]
  <2>1. call' = [call EXCEPT ![s] = d]
    BY <1>3 DEF PayFound
  <2>2. l \in {"refuse", "pay.count"}
    OBVIOUS
  <2> HIDE DEF l
  <2>3. GoesAs(call[s], d) /\ d.at \notin Holding
    BY <1>1, <2>2 DEF GoesAs, Run, SlotOK, WithIntent
  <2> HIDE DEF d
  <2>4. OneRun(s) /\ call'[s] = d /\ RunInv(call[s])'
    BY <2>1, <2>3, GoesOnAs DEF CapKept
  <2> QED
    BY <2>3, <2>4, Resting
<1> QED
  BY <1>2, <1>3

LEMMA PayMoves ==
    ASSUME CapInv, NEW s \in Slots, PayStep(s)
    PROVE  Moves(s)
<1> USE DEF At, GoesTo, Buying, ClaimLabels, CaptureLabels, PayLabels, FoundLabels,
            HeldLabels, MoneyLabels, GiveUpLabels, ReleaseLabels, FreeOffers,
            LeaveLabels, CapLabels, Holding
<1>1. DataMoves
  BY PayDocuments
<1>2. call[s] \in Run(Labels) /\ SlotOK(s) /\ RunInv(call[s]) /\ seminar.cap \in Caps
  BY DEF CapInv, TInv, CallsOK, Steady, DataOK, SeminarOK, Seminar
<1>3. call[s].at \in PayLabels => Claimant(s) = call[s].u
  BY DEF Claimant
<1>4. call[s].at \in MoneyLabels => call[s].pays \in {"settling", "settled"}
  BY <1>2 DEF RunInv, KnowsPayment
<1>5. CASE PayRead(s)
  <2>1. CASE Finish(s)
    BY <1>1, <1>5, <2>1, Resting DEF PayRead
  <2>2. CASE ~Finish(s)
    <3> DEFINE d == [call[s] EXCEPT !.at = "pay.consumed",
                        !.seen = seminar.enrolled, !.cap = seminar.cap]
    <3>1. call' = [call EXCEPT ![s] = d] /\ UNCHANGED seminar
      BY <1>5, <2>2 DEF PayRead
    <3>2. GoesAs(call[s], d) /\ d.at = "pay.consumed"
      BY <1>2, <1>5 DEF PayRead, GoesAs, Run, SlotOK
    <3> HIDE DEF d
    <3>3. OneRun(s) /\ call'[s] = d /\ RunInv(call[s])'
      BY <1>1, <3>1, <3>2, GoesOnAs DEF CapKept
    <3> QED
      BY <1>1, <3>1, <3>2, <3>3, Resting
  <2> QED
    BY <2>1, <2>2
<1>6. CASE PayConsumed(s)
  BY <1>1, <1>6, Resting DEF PayConsumed
<1>7. CASE PayProbe(s)
  <2>1. CASE stripe[call[s].i].st = "succeeded"
    BY <1>1, <1>7, <2>1, FoundMoves DEF PayProbe, Earned
  <2>2. CASE stripe[call[s].i].st # "succeeded"
    BY <1>1, <1>7, <2>2, Resting DEF PayProbe
  <2> QED
    BY <2>1, <2>2
<1>8. CASE PayClearing(s)
  <2>1. CASE stripe[call[s].i].st = "processing"
    BY <1>1, <1>8, <2>1, FoundMoves DEF PayClearing, Earned
  <2>2. CASE stripe[call[s].i].st # "processing"
    BY <1>1, <1>8, <2>2, Resting DEF PayClearing
  <2> QED
    BY <2>1, <2>2
<1>9. CASE PayCount(s)
  <2>1. CASE Goto(s, "pay.expire")
    BY <1>1, <1>9, <2>1, Resting DEF PayCount
  <2>2. CASE ~Goto(s, "pay.expire")
    <3> DEFINE n == SoftHeld(call[s].u)
               d == [call[s] EXCEPT !.at = "pay.take", !.soft = n]
    <3>1. call' = [call EXCEPT ![s] = d] /\ UNCHANGED seminar
      BY <1>9, <2>2 DEF PayCount, CountForClaim
    <3> HIDE DEF n
    <3>2. GoesAs(call[s], d) /\ d.at = "pay.take"
      BY <1>2, <1>4, <1>9 DEF PayCount, GoesAs, Run, SlotOK
    <3> HIDE DEF d
    <3>3. OneRun(s) /\ call'[s] = d /\ RunInv(call[s])'
      BY <1>1, <3>1, <3>2, GoesOnAs DEF CapKept
    <3> QED
      BY <1>1, <3>1, <3>2, <3>3, Resting
  <2> QED
    BY <2>1, <2>2
<1>10. CASE PayTake(s)
  <2>1. CASE Goto(s, "pay.expire") /\ UNCHANGED seminar
    BY <1>1, <1>10, <2>1, Resting DEF PayTake
  <2>2. CASE SeatFree(s, call[s].u)
    BY <1>1, <1>3, <1>4, <1>10, <2>2, Taking DEF PayTake
  <2> QED
    BY <1>10, <2>1, <2>2 DEF PayTake
<1>11. CASE PayExpire(s)
  BY <1>1, <1>11, Resting DEF PayExpire
<1>12. CASE PayApprove(s)
  BY <1>1, <1>4, <1>12, HoldingOn DEF PayApprove
<1>13. CASE PayLost(s)
  BY <1>1, <1>3, <1>13, Giving DEF PayLost
<1>14. CASE PayInsert(s)
  <2>1. CASE Goto(s, "pay.dup")
    BY <1>1, <1>4, <1>14, <2>1, HoldingOn DEF PayInsert
  <2>2. CASE ~Goto(s, "pay.dup")
    <3> DEFINE d == [call[s] EXCEPT !.at = "pay.confirm", !.row = TRUE]
    <3>1. call' = [call EXCEPT ![s] = d] /\ UNCHANGED seminar
      BY <1>14, <2>2 DEF PayInsert
    <3>2. GoesAs(call[s], d) /\ d.at = "pay.confirm" /\ d.pays = call[s].pays
      BY <1>2, <1>4, <1>14 DEF PayInsert, GoesAs, Run, SlotOK
    <3> HIDE DEF d
    <3>3. OneRun(s) /\ call'[s] = d /\ RunInv(call[s])'
      BY <1>1, <3>1, <3>2, GoesOnAs DEF CapKept
    <3> QED
      BY <1>1, <1>14, <3>1, <3>2, <3>3, HoldingOn DEF PayInsert, GoesAs
  <2> QED
    BY <2>1, <2>2
<1>15. CASE PayInsertFails(s)
  BY <1>1, <1>4, <1>15, HoldingOn DEF PayInsertFails
<1>16. CASE PayDup(s)
  BY <1>1, <1>3, <1>16, Giving DEF PayDup
<1>17. CASE PayReopen(s)
  BY <1>1, <1>17, Resting DEF PayReopen
<1>18. CASE PayConfirm(s)
  BY <1>1, <1>3, <1>18, Confirming DEF PayConfirm
<1>19. CASE PayConfirmFails(s)
  BY <1>1, <1>3, <1>19, Giving DEF PayConfirmFails
<1>20. CASE PayRefund(s)
  BY <1>1, <1>20, Resting DEF PayRefund
<1>21. CASE PayRefundFails(s)
  BY <1>1, <1>21, Resting DEF PayRefundFails
<1>22. CASE PayBook(s)
  BY <1>1, <1>22, Resting DEF PayBook
<1>23. CASE PayFail(s)
  BY <1>1, <1>23, Resting DEF PayFail
<1> QED
  BY <1>5, <1>6, <1>7, <1>8, <1>9, <1>10, <1>11, <1>12, <1>13, <1>14, <1>15,
     <1>16, <1>17, <1>18, <1>19, <1>20, <1>21, <1>22, <1>23
     DEF PayStep

LEMMA RegistrationMoves ==
    ASSUME CapInv, NEW s \in Slots, RegistrationStep(s)
    PROVE  Moves(s)
<1> USE DEF At
<1>0. (UNCHANGED world => EnvSame) /\ \A k : Fault(k) => EnvSame
  BY WorldKeeps DEF CapInv
<1>1. call[s].at \in RefuseLabels => call[s].i \in Intents /\ Live(call[s].i)
  BY KnowsOK, IntentCosts DEF WithIntent, CapInv, TInv
<1>2. CASE RegisterStep(s) \/ PayStep(s)
  BY <1>2, RegisterMoves, PayMoves
<1>3. CASE RefuseStep(s) \/ RefuseFails(s)
  <2>1. /\ UNCHANGED <<seminar, requests, ledger>> /\ EnvSame
        /\ call[s].i \in Intents /\ Live(call[s].i)
    BY <1>0, <1>1, <1>3 DEF RefuseStep, RefuseFails, RefuseLabels
  <2>2. RowsLive /\ RowsKept
    BY <2>1, RowsAreLive, RequestsKeep
  <2>3. \/ CancelHold(call[s].i)
        \/ Refund(call[s].i) /\ UNCHANGED events
        \/ UNCHANGED <<stripe, events>>
    BY <1>3 DEF RefuseStep, RefuseFails
  <2>4. DataMoves
    BY <2>1, <2>2, <2>3, StripeMoves, Documents
  <2> QED
    BY <1>3, <2>1, <2>4, Resting
       DEF RefuseStep, RefuseFails, GoesTo, Buying, ClaimLabels, CaptureLabels,
           PayLabels, FoundLabels, HeldLabels, MoneyLabels, GiveUpLabels,
           ReleaseLabels, FreeOffers, LeaveLabels, CapLabels, Holding
<1>4. CASE RefuseRow(s)
  <2>1. DataMoves
    BY <1>0, <1>4, RowsAreLive, RequestsKeep, Documents DEF RefuseRow
  <2> QED
    BY <1>4, <2>1, Resting DEF RefuseRow
<1>5. CASE OrphanRecorded(s)
  <2>1. DataMoves /\ UNCHANGED seminar
    BY <1>0, <1>5, RequestsKeep, Documents DEF OrphanRecorded
  <2>2. CASE Finish(s)
    BY <2>1, <2>2, Resting
  <2>3. CASE ~Finish(s)
    <3> DEFINE p == IF stripe[call[s].i].st = "hold" THEN "held" ELSE "settled"
               d == [call[s] EXCEPT !.at = "refuse", !.pays = p]
    <3>1. call' = [call EXCEPT ![s] = d]
      BY <1>5, <2>3 DEF OrphanRecorded
    <3> HIDE DEF p
    <3>2. call[s] \in Run(Labels) /\ SlotOK(s)
      BY DEF CapInv, TInv, CallsOK
    <3>3. GoesAs(call[s], d) /\ d.at \notin Holding
      BY <1>1, <1>5, <3>2
         DEF OrphanRecorded, GoesAs, Run, RefuseLabels, Buying, ClaimLabels,
             CaptureLabels, PayLabels, FoundLabels, HeldLabels, MoneyLabels,
             GiveUpLabels, ReleaseLabels, FreeOffers, LeaveLabels, CapLabels, Holding
    <3> HIDE DEF d
    <3>4. OneRun(s) /\ call'[s] = d /\ RunInv(call[s])'
      BY <2>1, <3>1, <3>3, GoesOnAs DEF CapKept
    <3> QED
      BY <2>1, <3>3, <3>4, Resting
  <2> QED
    BY <2>2, <2>3
<1> QED
  BY <1>2, <1>3, <1>4, <1>5 DEF RegistrationStep

-----------------------------------------------------------------------------
(* Webhook events and sweeps that go on. *)
LEMMA ReconcileDocuments ==
    ASSUME CapInv, NEW s \in Slots, ReconcileStep(s), call[s].at \notin LeaveLabels
    PROVE  DataMoves
<1> USE DEF At
<1>0. (UNCHANGED world => EnvSame) /\ \A k : Fault(k) => EnvSame
  BY WorldKeeps DEF CapInv
<1>1. call[s].at \in SettleLabels => call[s].i \in Intents /\ Live(call[s].i)
  BY KnowsOK, IntentCosts DEF WithIntent, CapInv, TInv
<1>2. ~(LeaveFind(s) \/ LeaveRefund(s) \/ LeaveRefundFails(s) \/ LeaveRow(s)
        \/ LeaveBook(s) \/ LeaveUnenroll(s))
  BY DEF LeaveLabels, LeaveFind, LeaveRefund, LeaveRefundFails, LeaveRow,
         LeaveBook, LeaveUnenroll
<1>3. CASE ReleasePaid(s) \/ ReleaseUnenroll(s) \/ FailedAgain(s) \/ SucceededRecorded(s)
           \/ SucceededHeld(s) \/ SucceededDelivered(s) \/ SweepSucceeded(s)
           \/ SweepAuthorized(s) \/ SweepProcessing(s) \/ SweepEnrolled(s)
           \/ SweepRefused(s) \/ OrphanHeld(s) \/ OrphanDelivered(s)
  <2>1. UNCHANGED <<requests, ledger, stripe, events>>
    BY <1>3
       DEF ReleasePaid, ReleaseUnenroll, FailedAgain, SucceededRecorded,
           SucceededHeld, SucceededDelivered, SweepSucceeded, SweepAuthorized,
           SweepProcessing, SweepEnrolled, SweepRefused, OrphanHeld, OrphanDelivered
  <2>2. EnvSame
    BY <1>0, <1>3
       DEF ReleasePaid, ReleaseUnenroll, FailedAgain, SucceededRecorded,
           SucceededHeld, SucceededDelivered, SweepSucceeded, SweepAuthorized,
           SweepProcessing, SweepEnrolled, SweepRefused, OrphanHeld, OrphanDelivered
  <2> QED
    BY <2>1, <2>2, RequestsKeep, Documents
<1>4. CASE FailedRow(s) \/ RecordCharge(s) \/ SweepSettle(s) \/ SweepFail(s)
           \/ SweepRefunded(s) \/ SweepReleased(s)
  <2>1. UNCHANGED <<requests, stripe, events>> /\ EnvSame /\ Live(call[s].i)
    BY <1>0, <1>1, <1>4
       DEF FailedRow, RecordCharge, SweepSettle, SweepFail, SweepRefunded,
           SweepReleased, SettleLabels
  <2>2. UNCHANGED ledger \/ \E st : SetCharge(call[s].i, st)
    BY <1>4
       DEF FailedRow, RecordCharge, SweepSettle, SweepFail, SweepRefunded,
           SweepReleased, MoveCharge
  <2>3. RowsLive
    BY <2>1, <2>2, RowsAreLive
  <2> QED
    BY <2>1, <2>3, RequestsKeep, Documents
<1>5. CASE SweepRefund(s) \/ SweepCancel(s) \/ OrphanCancel(s)
  <2>1. /\ UNCHANGED <<requests, ledger>> /\ EnvSame
        /\ call[s].i \in Intents /\ Live(call[s].i)
    BY <1>0, <1>1, <1>5 DEF SweepRefund, SweepCancel, OrphanCancel, SettleLabels
  <2>2. \/ CancelHold(call[s].i)
        \/ Refund(call[s].i) /\ UNCHANGED events
    BY <1>5 DEF SweepRefund, SweepCancel, OrphanCancel
  <2>3. RowsLive /\ RowsKept
    BY <2>1, RowsAreLive, RequestsKeep
  <2> QED
    BY <2>1, <2>2, <2>3, StripeMoves, Documents
<1> QED
  BY <1>2, <1>3, <1>4, <1>5 DEF ReconcileStep

LEMMA ReconcileMoves ==
    ASSUME CapInv, NEW s \in Slots, ReconcileStep(s)
    PROVE  Moves(s)
<1>0. RunInv(call[s]) /\ call[s] \in Run(Labels) /\ SlotOK(s) /\ seminar.cap \in Caps
  BY DEF CapInv, Steady, TInv, CallsOK, DataOK, SeminarOK, Seminar
<1>1. call[s].at \notin LeaveLabels
  BY <1>0 DEF RunInv, AtPrice
<1>2. DataMoves
  BY <1>1, ReconcileDocuments
<1>3. call[s].at \in GiveUpLabels \/ call[s].ret = "failed.again" =>
          call[s].i \in Intents /\ Gone(call[s].i) /\ Live(call[s].i)
  BY <1>0, IntentCosts DEF RunInv, GivesUp
<1> USE DEF At, GoesTo, Buying, ClaimLabels, CaptureLabels, PayLabels, FoundLabels,
            HeldLabels, MoneyLabels, GiveUpLabels, ReleaseLabels, FreeOffers,
            LeaveLabels, CapLabels, Holding
<1>4. CASE ReleasePaid(s)
  BY <1>2, <1>3, <1>4, Resting DEF ReleasePaid
<1>5. CASE ReleaseUnenroll(s)
  <2>1. Claimant(s) = call[s].u
    BY <1>5 DEF ReleaseUnenroll, Claimant
  <2> QED
    BY <1>2, <1>5, <2>1, Giving DEF ReleaseUnenroll
<1>6. CASE FailedRow(s)
  BY <1>2, <1>3, <1>6, Resting DEF FailedRow
<1>7. CASE FailedAgain(s)
  BY <1>2, <1>3, <1>7, Resting DEF FailedAgain
<1>8. CASE SucceededRecorded(s) \/ SucceededHeld(s) \/ SucceededDelivered(s)
           \/ RecordCharge(s)
  BY <1>2, <1>8, Resting
     DEF SucceededRecorded, SucceededHeld, SucceededDelivered, RecordCharge
<1>9. CASE SweepSucceeded(s) \/ SweepAuthorized(s) \/ SweepProcessing(s)
           \/ SweepEnrolled(s) \/ SweepSettle(s) \/ SweepFail(s)
  BY <1>2, <1>3, <1>9, Resting
     DEF SweepSucceeded, SweepAuthorized, SweepProcessing, SweepEnrolled,
         SweepSettle, SweepFail
<1>10. CASE SweepRefund(s)
  <2> DEFINE row == ~stripe[call[s].i].refunded
             d == [call[s] EXCEPT !.at = "sweep.refunded", !.row = row]
  <2>1. call' = [call EXCEPT ![s] = d] /\ UNCHANGED seminar
    BY <1>10 DEF SweepRefund
  <2> HIDE DEF row
  <2>2. GoesAs(call[s], d) /\ d.at = "sweep.refunded"
    BY <1>0, <1>3, <1>10 DEF SweepRefund, GoesAs, Run, SlotOK
  <2> HIDE DEF d
  <2>3. OneRun(s) /\ call'[s] = d /\ RunInv(call[s])'
    BY <1>2, <2>1, <2>2, GoesOnAs DEF CapKept
  <2> QED
    BY <1>2, <2>1, <2>2, <2>3, Resting
<1>11. CASE SweepRefunded(s)
  BY <1>2, <1>3, <1>11, Resting DEF SweepRefunded
<1>12. CASE SweepCancel(s)
  BY <1>2, <1>3, <1>12, Resting DEF SweepCancel
<1>13. CASE SweepReleased(s)
  BY <1>2, <1>3, <1>13, Resting DEF SweepReleased
<1>14. CASE SweepRefused(s)
  BY <1>2, <1>14, Resting DEF SweepRefused
<1>15. CASE OrphanHeld(s)
  BY <1>2, <1>3, <1>15, Resting DEF OrphanHeld
<1>16. CASE OrphanCancel(s)
  BY <1>2, <1>3, <1>16, Resting DEF OrphanCancel
<1>17. CASE OrphanDelivered(s)
  BY <1>2, <1>17, Resting DEF OrphanDelivered
<1>18. ~(LeaveFind(s) \/ LeaveRefund(s) \/ LeaveRefundFails(s) \/ LeaveRow(s)
         \/ LeaveBook(s) \/ LeaveUnenroll(s))
  BY <1>1
     DEF LeaveFind, LeaveRefund, LeaveRefundFails, LeaveRow, LeaveBook, LeaveUnenroll
<1> QED
  BY <1>4, <1>5, <1>6, <1>7, <1>8, <1>9, <1>10, <1>11, <1>12, <1>13, <1>14,
     <1>15, <1>16, <1>17, <1>18
     DEF ReconcileStep

-----------------------------------------------------------------------------
(* Calls that arrive. *)

(* A call that begins no run. *)
LEMMA NotBegun ==
    ASSUME CapInv, DataMoves, UNCHANGED <<seminar, call>>, NEW s \in Slots, At(s, "idle")
    PROVE  Moves(s)
<1>1. CapKept /\ OneRun(s) /\ call'[s] = call[s]
  BY DEF CapKept, OneRun
<1>2. RunInv(call[s])'
  BY <1>1, RunStands
<1> QED
  BY <1>1, <1>2, Resting DEF At, Holding

(* A run that begins, at a label where it has no seat yet. *)
LEMMA Begins ==
    ASSUME CapInv, DataMoves, UNCHANGED seminar, NEW s \in Slots, NEW d,
           call' = [call EXCEPT ![s] = d], RunInv(d), d.cap \in Caps, d.pays = "none",
           d.at \notin Holding, d.at \in Buying /\ d.i \in Intents => ~stripe'[d.i].old
    PROVE  Moves(s)
<1>1. OneRun(s) /\ call'[s] = d /\ RunInv(call[s])'
  BY RunTakesOn DEF CapKept
<1> QED
  BY <1>1, Resting

LEMMA WaitlistCallMoves ==
    ASSUME CapInv, NEW s \in Slots, WaitlistCall(s)
    PROVE  Moves(s)
<1> USE DEF Buying, ClaimLabels, CaptureLabels, PayLabels, FoundLabels,
            HeldLabels, MoneyLabels, GiveUpLabels, ReleaseLabels, FreeOffers,
            LeaveLabels, CapLabels, Holding
<1>0. /\ call[s] \in Run(Labels) /\ SlotOK(s) /\ RunInv(call[s])
      /\ seminar.cap \in Caps /\ seminar.enrolled \subseteq Students
  BY DEF CapInv, TInv, CallsOK, Steady, DataOK, SeminarOK, Seminar
<1>1. call[s].at = "idle" /\ call[s].pays = "none" /\ call[s].ret = "idle" /\ At(s, "idle")
  BY <1>0 DEF WaitlistCall, RequestSeat, Invite, UpdateCap, Drain, Calling, At, SlotOK
<1>2. DataMoves
  <2>1. UNCHANGED <<requests, ledger, stripe, events>> /\ EnvSame
    BY WorldKeeps DEF WaitlistCall, RequestSeat, Invite, UpdateCap, Drain, CapInv
  <2> QED
    BY <2>1, RequestsKeep, Documents
<1>3. ASSUME NEW u \in Students, RequestSeat(s, u)
      PROVE  Moves(s)
  <2>1. CASE UNCHANGED call
    BY <1>1, <1>2, <1>3, <2>1, NotBegun DEF RequestSeat
  <2>2. CASE ~UNCHANGED call
    <3> DEFINE d == [call[s] EXCEPT !.at = "request.full", !.u = u,
                        !.seen = seminar.enrolled, !.cap = seminar.cap]
    <3>1. call' = [call EXCEPT ![s] = d] /\ UNCHANGED seminar
      BY <1>3, <2>2 DEF RequestSeat
    <3>2. /\ d.at = "request.full" /\ d.i = call[s].i /\ d.cap \in Caps
          /\ d.pays = "none" /\ d.ret = "idle"
      BY <1>0, <1>1 DEF Run
    <3> HIDE DEF d
    <3>3. RunInv(d)
      BY <1>0, <3>2 DEF RunInv, OwnsIntent, KnowsPayment, GivesUp, AtPrice, ReadsCap
    <3> QED
      BY <1>2, <3>1, <3>2, <3>3, Begins
  <2> QED
    BY <2>1, <2>2
<1>4. ASSUME NEW u \in Students, Invite(s, u)
      PROVE  Moves(s)
  <2>1. CASE UNCHANGED call
    BY <1>1, <1>2, <1>4, <2>1, NotBegun DEF Invite
  <2>2. CASE ~UNCHANGED call
    <3> DEFINE d == [call[s] EXCEPT !.at = "invite.find", !.u = u]
    <3>1. call' = [call EXCEPT ![s] = d] /\ UNCHANGED seminar
      BY <1>4, <2>2 DEF Invite
    <3>2. /\ d.at = "invite.find" /\ d.i = call[s].i /\ d.cap \in Caps
          /\ d.pays = "none" /\ d.ret = "idle"
      BY <1>0, <1>1 DEF Run
    <3>3. Paid
      BY <1>4 DEF Invite, Calling, CapInv, ClaimsStand
    <3> HIDE DEF d
    <3>4. RunInv(d)
      BY <1>0, <3>2, <3>3 DEF RunInv, OwnsIntent, KnowsPayment, GivesUp, AtPrice, ReadsCap
    <3> QED
      BY <1>2, <3>1, <3>2, <3>4, Begins
  <2> QED
    BY <2>1, <2>2
<1>5. ASSUME NEW c \in world.env.newCaps, UpdateCap(s, c)
      PROVE  Moves(s)
  <2>1. PICK b \in Caps : CapGrowsTo(b)
    BY DEF CapInv, ClaimsStand
  <2>2. c = b /\ \A a \in Caps : CapGrowsTo(a) => a = c
    BY <2>1 DEF CapGrowsTo
  <2>3. AtMost(seminar.cap, c) /\ c \in Caps
    BY <2>1, <2>2 DEF CapInv, Steady, CapGrows
  <2>4. Clamp(c) = c
    <3>1. CASE c = Unlimited
      BY <3>1 DEF Clamp
    <3>2. CASE c # Unlimited
      <4>1. c \in Nat /\ seminar.cap \in Nat /\ seminar.cap <= c /\ seminar.cap # Unlimited
        BY <1>0, <2>3, <3>2 DEF AtMost, Caps
      <4>2. Cardinality(seminar.enrolled) \in Nat
        BY <1>0, FS_Subset, FS_CardinalityType, StoreAssumption
      <4>3. Cardinality(seminar.enrolled) <= c
        BY <4>1, <4>2 DEF CapInv, Fits
      <4> QED
        BY <4>1, <4>2, <4>3 DEF Clamp
    <3> QED
      BY <3>1, <3>2
  <2>5. PICK ret \in {"offer.read", "idle"} :
            call' = [call EXCEPT ![s].at = "update.write", ![s].cap = c, ![s].ret = ret]
    BY <1>5, <2>4 DEF UpdateCap
  <2> DEFINE d == [call[s] EXCEPT !.at = "update.write", !.cap = c, !.ret = ret]
  <2>6. call' = [call EXCEPT ![s] = d] /\ UNCHANGED seminar
    BY <1>5, <2>5 DEF UpdateCap
  <2>7. /\ d.at = "update.write" /\ d.i = call[s].i /\ d.cap = c
        /\ d.pays = "none" /\ d.ret = ret
    BY <1>0, <1>1 DEF Run
  <2> HIDE DEF d
  <2>8. RunInv(d)
    BY <1>0, <2>2, <2>3, <2>7
       DEF RunInv, OwnsIntent, KnowsPayment, GivesUp, AtPrice, ReadsCap
  <2> QED
    BY <1>2, <2>3, <2>6, <2>7, <2>8, Begins
<1>6. CASE Drain(s)
  BY <1>2, <1>6, Resting DEF Drain
<1> QED
  BY <1>3, <1>4, <1>5, <1>6 DEF WaitlistCall

(* A student submits an intent that is not old. *)
LEMMA SubmittedIs ==
    ASSUME CapInv, NEW i \in Intents, NEW u \in Students, stripe[i].u = u,
           Submittable(i), Submitted(i), UNCHANGED <<requests, ledger, events>>, EnvSame
    PROVE  /\ DataMoves /\ Paid /\ Live(i) /\ ~stripe[i].old /\ ~stripe'[i].old
<1>1. Live(i) /\ Paid
  BY StoreAssumption DEF CapInv, Steady, IntentsOwned
<1>2. ~stripe[i].old
  BY DEF Submittable, CapInv, ClaimsStand
<1>3. ~stripe'[i].old
  BY <1>2 DEF Submitted, CapInv, TInv, DataOK, StripeOK, Intent
<1>4. RowsLive /\ RowsKept
  BY RowsAreLive, RequestsKeep
<1> QED
  BY <1>1, <1>2, <1>3, <1>4, StripeMoves, Documents

LEMMA RegistrationCallMoves ==
    ASSUME CapInv, NEW s \in Slots, RegistrationCall(s)
    PROVE  Moves(s)
<1> USE DEF Buying, ClaimLabels, CaptureLabels, PayLabels, FoundLabels,
            HeldLabels, MoneyLabels, GiveUpLabels, ReleaseLabels, FreeOffers,
            LeaveLabels, CapLabels, Holding
<1>0. /\ call[s] \in Run(Labels) /\ SlotOK(s) /\ RunInv(call[s])
      /\ seminar.cap \in Caps /\ AtMost(seminar.cap, seminar.cap)
  BY AtMostOrders DEF CapInv, TInv, CallsOK, Steady, DataOK, SeminarOK, Seminar
<1>1. /\ call[s].at = "idle" /\ call[s].pays = "none" /\ call[s].ret = "idle"
      /\ At(s, "idle") /\ EnvSame
  BY <1>0, WorldKeeps, ZenonT(40)
     DEF RegistrationCall, Register, Pay, Calling, At, SlotOK, CapInv
<1>2. ASSUME NEW u \in Students, NEW i \in Intents, Register(s, u, i)
      PROVE  Moves(s)
  <2>1. i # NoIntent
    BY StoreAssumption
  <2>2. DataMoves /\ Paid /\ Live(i) /\ ~stripe[i].old /\ ~stripe'[i].old
        /\ stripe[i].u = u /\ UNCHANGED seminar
    BY <1>1, <1>2, <2>1, SubmittedIs DEF Register
  <2>3. CASE seminar.status # "active"
    <3> DEFINE d == [call[s] EXCEPT !.at = "orphan.recorded", !.i = i]
    <3>1. call' = [call EXCEPT ![s] = d]
      BY <1>2, <2>1, <2>3 DEF Register
    <3>2. /\ d.at = "orphan.recorded" /\ d.i = i /\ d.cap \in Caps
          /\ d.pays = "none" /\ d.ret = "idle"
      BY <1>0, <1>1 DEF Run
    <3> HIDE DEF d
    <3>3. RunInv(d)
      BY <2>2, <3>2 DEF RunInv, OwnsIntent, KnowsPayment, GivesUp, AtPrice, ReadsCap
    <3> QED
      BY <2>2, <3>1, <3>2, <3>3, Begins
  <2>4. CASE seminar.status = "active"
    <3> DEFINE d == [call[s] EXCEPT !.at = "register.full", !.u = u, !.i = i,
                        !.seen = seminar.enrolled, !.cap = seminar.cap]
    <3>1. call' = [call EXCEPT ![s] = d]
      BY <1>2, <2>4 DEF Register
    <3>2. /\ d.at = "register.full" /\ d.i = i /\ d.u = u /\ d.cap = seminar.cap
          /\ d.pays = "none" /\ d.ret = "idle"
      BY <1>0, <1>1 DEF Run
    <3> HIDE DEF d
    <3>3. RunInv(d)
      BY <1>0, <2>2, <3>2
         DEF RunInv, OwnsIntent, KnowsPayment, GivesUp, AtPrice, ReadsCap
    <3> QED
      BY <1>0, <2>2, <3>1, <3>2, <3>3, Begins
  <2> QED
    BY <2>3, <2>4
<1>3. ASSUME NEW u \in Students, Register(s, u, NoIntent)
      PROVE  Moves(s)
  <2>1. DataMoves /\ UNCHANGED seminar
    BY <1>1, <1>3, RequestsKeep, Documents DEF Register
  <2>2. CASE UNCHANGED call
    BY <1>1, <2>1, <2>2, NotBegun
  <2>3. CASE ~UNCHANGED call
    <3> DEFINE d == [call[s] EXCEPT !.at = "register.full", !.u = u, !.i = NoIntent,
                        !.seen = seminar.enrolled, !.cap = seminar.cap]
    <3>1. call' = [call EXCEPT ![s] = d]
      BY <1>3, <2>3 DEF Register
    <3>2. /\ d.at = "register.full" /\ d.i = NoIntent /\ d.cap = seminar.cap
          /\ d.pays = "none" /\ d.ret = "idle"
      BY <1>0, <1>1 DEF Run
    <3> HIDE DEF d
    <3>3. RunInv(d)
      BY <1>0, <3>2, StoreAssumption
         DEF RunInv, OwnsIntent, KnowsPayment, GivesUp, AtPrice, ReadsCap
    <3> QED
      BY <1>0, <2>1, <3>1, <3>2, <3>3, StoreAssumption, Begins
  <2> QED
    BY <2>2, <2>3
<1>4. ASSUME NEW u \in Students, NEW i \in Intents, NEW r \in RequestIds, Pay(s, u, i, r)
      PROVE  Moves(s)
  <2>2. DataMoves /\ Paid /\ Live(i) /\ ~stripe[i].old /\ ~stripe'[i].old
        /\ stripe[i].u = u /\ UNCHANGED seminar
    BY <1>1, <1>4, SubmittedIs DEF Pay
  <2> DEFINE d == [call[s] EXCEPT !.at = "pay.read", !.u = u, !.i = i, !.r = r]
  <2>3. call' = [call EXCEPT ![s] = d]
    BY <1>4 DEF Pay
  <2>4. /\ d.at = "pay.read" /\ d.i = i /\ d.u = u /\ d.cap \in Caps
        /\ d.pays = "none" /\ d.ret = "idle"
    BY <1>0, <1>1 DEF Run
  <2> HIDE DEF d
  <2>5. RunInv(d)
    BY <2>2, <2>4 DEF RunInv, OwnsIntent, KnowsPayment, GivesUp, AtPrice, ReadsCap
  <2> QED
    BY <2>2, <2>3, <2>4, <2>5, Begins
<1> QED
  BY <1>2, <1>3, <1>4 DEF RegistrationCall

LEMMA ArrivalMoves ==
    ASSUME CapInv, NEW s \in Slots, Arrival(s)
    PROVE  Moves(s)
<1>1. \A u \in Students : ~Leave(s, u)
  BY DEF Leave, Calling, CapInv, ClaimsStand
<1> QED
  BY <1>1, WaitlistCallMoves, RegistrationCallMoves DEF Arrival

(* Stripe's events, and the sweeps. *)
LEMMA WebhookMoves ==
    ASSUME CapInv, NEW s \in Slots, WebhookStep(s)
    PROVE  Moves(s)
<1> USE DEF Buying, ClaimLabels, CaptureLabels, PayLabels, FoundLabels,
            HeldLabels, MoneyLabels, GiveUpLabels, ReleaseLabels, FreeOffers,
            LeaveLabels, CapLabels, Holding
<1>0. /\ call[s] \in Run(Labels) /\ SlotOK(s) /\ RunInv(call[s])
  BY DEF CapInv, TInv, CallsOK, Steady
<1>1. /\ call[s].at = "idle" /\ call[s].pays = "none" /\ call[s].ret = "idle"
      /\ At(s, "idle") /\ EnvSame /\ UNCHANGED <<seminar, requests, stripe>>
      /\ events' \subseteq events
  BY <1>0, WorldKeeps DEF WebhookStep, FailedEvent, SucceededEvent, At, SlotOK, CapInv
<1>2. \A i \in Intents, k \in {"succeeded", "failed"} : <<k, i>> \in events =>
          Live(i) /\ Paid /\ (k = "failed" => Cancelled(i))
  BY DEF CapInv, Steady, IntentsOwned
<1>3. DataMoves
  <2>1. RowsLive
    <3>1. ASSUME NEW i \in Intents, FailedEvent(s, i) \/ SucceededEvent(s, i)
          PROVE  RowsLive
      <4>1. Live(i)
        BY <1>2, <3>1 DEF FailedEvent, SucceededEvent
      <4>2. UNCHANGED ledger \/ SetCharge(i, "completed")
        BY <3>1 DEF FailedEvent, SucceededEvent
      <4> QED
        BY <4>1, <4>2, RowsAreLive
    <3> QED
      BY <3>1 DEF WebhookStep
  <2> QED
    BY <1>1, <2>1, RequestsKeep, Documents
<1>4. ASSUME NEW i \in Intents, FailedEvent(s, i)
      PROVE  Moves(s)
  <2>1. Live(i) /\ Cancelled(i) /\ Gone(i) /\ Paid
    BY <1>2, <1>4 DEF FailedEvent, Gone
  <2>2. CASE Release(s, i, "idle")
    BY <1>1, <1>3, <2>1, <2>2, Resting
  <2>3. CASE ~Release(s, i, "idle")
    <3> DEFINE d == [call[s] EXCEPT !.at = "failed.row", !.i = i, !.u = stripe[i].u]
    <3>1. call' = [call EXCEPT ![s] = d]
      BY <1>4, <2>3 DEF FailedEvent
    <3>2. /\ d.at = "failed.row" /\ d.i = i /\ d.cap \in Caps
          /\ d.pays = "none" /\ d.ret = "idle"
      BY <1>0, <1>1 DEF Run
    <3> HIDE DEF d
    <3>3. RunInv(d)
      BY <2>1, <3>2 DEF RunInv, OwnsIntent, KnowsPayment, GivesUp, AtPrice, ReadsCap
    <3> QED
      BY <1>1, <1>3, <3>1, <3>2, <3>3, Begins
  <2> QED
    BY <2>2, <2>3
<1>5. ASSUME NEW i \in Intents, SucceededEvent(s, i)
      PROVE  Moves(s)
  <2>1. Live(i) /\ Paid
    BY <1>2, <1>5 DEF SucceededEvent
  <2>2. CASE UNCHANGED call
    BY <1>1, <1>3, <2>2, NotBegun
  <2>3. CASE ~UNCHANGED call
    <3> DEFINE d == [call[s] EXCEPT !.at = "succeeded.recorded", !.i = i]
    <3>1. call' = [call EXCEPT ![s] = d]
      BY <1>5, <2>3 DEF SucceededEvent
    <3>2. /\ d.at = "succeeded.recorded" /\ d.i = i /\ d.cap \in Caps
          /\ d.pays = "none" /\ d.ret = "idle"
      BY <1>0, <1>1 DEF Run
    <3> HIDE DEF d
    <3>3. RunInv(d)
      BY <2>1, <3>2 DEF RunInv, OwnsIntent, KnowsPayment, GivesUp, AtPrice, ReadsCap
    <3> QED
      BY <1>1, <1>3, <3>1, <3>2, <3>3, Begins
  <2> QED
    BY <2>2, <2>3
<1> QED
  BY <1>4, <1>5 DEF WebhookStep

(* A sweep turns to an intent an hour old. *)
LEMMA HourMoves ==
    ASSUME CapInv, EnvSame, NEW s \in Slots, NEW i \in Intents, Live(i), NEW running,
           HourPasses(i, running), UNCHANGED <<seminar, requests, ledger, events>>,
           NEW d, call' = [call EXCEPT ![s] = d], d.i = i, d.ret = "idle",
           d.at \in {"sweep.succeeded", "orphan.held"}
    PROVE  Moves(s)
<1>1. DataMoves
  <2>1. RowsLive /\ RowsKept /\ "late" \notin Calls
    BY RowsAreLive, RequestsKeep DEF CapInv, ClaimsStand
  <2> QED
    BY <2>1, StripeMoves, Documents
<1>2. call'[s] = d /\ OneRun(s) /\ Paid' = Paid /\ Paid
  BY EnvKeeps DEF OneRun, CapInv, TInv, CallsOK, Steady, IntentsOwned
<1>3. Live(i)' /\ stripe'[i].old
  BY <1>1 DEF DataMoves, IntentsKept, HourPasses, CapInv, TInv, DataOK, StripeOK, Intent
<1>4. d.at \notin Buying \cup FoundLabels \cup HeldLabels \cup MoneyLabels
          \cup ReleaseLabels \cup FreeOffers \cup LeaveLabels \cup CapLabels \cup Holding
      /\ d.at # "register.confirm" /\ d.at # "update.write"
  BY DEF Buying, ClaimLabels, CaptureLabels, PayLabels, FoundLabels,
         HeldLabels, MoneyLabels, ReleaseLabels, FreeOffers,
         LeaveLabels, CapLabels, Holding
<1>5. OwnsIntent(call[s])'
  BY <1>2, <1>3, <1>4 DEF OwnsIntent, Live
<1>6. KnowsPayment(call[s])'
  BY <1>2, <1>4 DEF KnowsPayment
<1>7. GivesUp(call[s])'
  BY <1>2, <1>3, <1>4 DEF GivesUp, Gone
<1>8. AtPrice(call[s])'
  BY <1>2, <1>4 DEF AtPrice
<1>9. ReadsCap(call[s])'
  BY <1>2, <1>4 DEF ReadsCap
<1>10. RunInv(call[s])'
  BY <1>5, <1>6, <1>7, <1>8, <1>9 DEF RunInv
<1> QED
  BY <1>1, <1>2, <1>4, <1>10, Resting

LEMMA SweepMoves ==
    ASSUME CapInv, NEW s \in Slots, SweepStep(s)
    PROVE  Moves(s)
<1>0. call[s] \in Run(Labels) /\ SlotOK(s) /\ (UNCHANGED world => EnvSame)
  BY WorldKeeps DEF CapInv, TInv, CallsOK
<1>1. \A i \in Intents : Recorded(i) => Live(i)
  BY DEF CapInv, Steady, IntentsOwned
<1>2. ASSUME NEW i \in Intents, SweepPending(s, i)
      PROVE  Moves(s)
  <2> DEFINE d == [call[s] EXCEPT !.at = "sweep.succeeded", !.i = i, !.u = stripe[i].u]
  <2>1. call' = [call EXCEPT ![s] = d]
    BY <1>2 DEF SweepPending
  <2>2. d.at = "sweep.succeeded" /\ d.i = i /\ d.ret = "idle"
    BY <1>0, <1>2 DEF Run, SweepPending, At, SlotOK
  <2> HIDE DEF d
  <2> QED
    BY <1>0, <1>1, <1>2, <2>1, <2>2, HourMoves DEF SweepPending, Recorded
<1>3. ASSUME NEW i \in Intents, SweepOrphan(s, i)
      PROVE  Moves(s)
  <2> DEFINE d == [call[s] EXCEPT !.at = "orphan.held", !.i = i, !.u = stripe[i].u,
                      !.pays = FoundAs[stripe[i].st]]
  <2>1. call' = [call EXCEPT ![s] = d]
    BY <1>3 DEF SweepOrphan
  <2>2. d.at = "orphan.held" /\ d.i = i /\ d.ret = "idle"
    BY <1>0, <1>3 DEF Run, SweepOrphan, At, SlotOK
  <2>3. Live(i)
    BY <1>3 DEF SweepOrphan, Orphan, Live
  <2> HIDE DEF d
  <2> QED
    BY <1>0, <1>3, <2>1, <2>2, <2>3, HourMoves DEF SweepOrphan
<1>4. ASSUME NEW r \in RequestIds, SweepOffer(s, r)
      PROVE  Moves(s)
  <2>1. DataMoves
    BY <1>0, <1>4, RequestsKeep, Documents DEF SweepOffer
  <2> QED
    BY <1>4, <2>1, Resting DEF SweepOffer
<1> QED
  BY <1>2, <1>3, <1>4 DEF SweepStep

-----------------------------------------------------------------------------
(* What happens outside the backend moves no run. *)
LEMMA CheckoutIs ==
    ASSUME CapInv, NEW u \in Students, NEW i \in Intents, NEW r, NEW st, st # "none",
           Checkout(u, i, r, st)
    PROVE  DataMoves
<1> DEFINE x == [st |-> st, u |-> u, r |-> r, refunded |-> FALSE,
                 sent |-> FALSE, old |-> FALSE]
<1>0. stripe \in [Intents -> Intent] /\ IntentsOwned
  BY DEF CapInv, TInv, DataOK, StripeOK, Steady
<1>1. /\ stripe' = [stripe EXCEPT ![i] = x] /\ ~Live(i) /\ Paid
      /\ \A j \in Intents : stripe[j].u # u
      /\ UNCHANGED <<seminar, requests, ledger, call, world>>
      /\ \A e \in events' : e \in events \/ e = <<"succeeded", i>>
  BY DEF Checkout, Live, CapInv, ClaimsStand
<1>2. x.st = st /\ x.u = u /\ ~x.old
  OBVIOUS
<1> HIDE DEF x
<1>3. stripe'[i] = x /\ \A j \in Intents \ {i} : stripe'[j] = stripe[j]
  BY <1>0, <1>1
<1>4. EnvSame /\ RowsKept /\ Paid' = Paid
  BY <1>1, WorldKeeps, EnvKeeps, RequestsKeep DEF CapInv
<1>5. Live(i)' /\ \A j \in Intents \ {i} : Live(j)' = Live(j) /\ Cancelled(j)' = Cancelled(j)
  BY <1>2, <1>3 DEF Live, Cancelled
<1>6. IntentsKept
  BY <1>1, <1>3, <1>5 DEF IntentsKept
<1>7. /\ \A j \in Intents : Live(j)' => stripe'[j].u \in Students
      /\ \A j \in Intents : ~Live(j)' =>
            stripe'[j].u = NoOne /\ ~stripe'[j].old /\ ~Recorded(j)'
  BY <1>0, <1>1, <1>2, <1>3, <1>5 DEF IntentsOwned, Recorded
<1>8. \A j, k \in Intents : stripe'[j].u = stripe'[k].u /\ Live(j)' => j = k
  <2> SUFFICES ASSUME NEW j \in Intents, NEW k \in Intents,
                      stripe'[j].u = stripe'[k].u, Live(j)', j # k
               PROVE  FALSE
    OBVIOUS
  <2>1. j # i /\ k # i
    BY <1>1, <1>2, <1>3
  <2> QED
    BY <1>0, <1>3, <1>5, <2>1 DEF IntentsOwned
<1>9. \A j \in Intents, k \in {"succeeded", "failed"} : <<k, j>> \in events' =>
          Live(j)' /\ (k = "failed" => Cancelled(j)')
  <2> SUFFICES ASSUME NEW j \in Intents, NEW k \in {"succeeded", "failed"},
                      <<k, j>> \in events'
               PROVE  Live(j)' /\ (k = "failed" => Cancelled(j)')
    OBVIOUS
  <2>1. CASE <<k, j>> \in events
    <3>1. Live(j) /\ (k = "failed" => Cancelled(j)) /\ j # i
      BY <1>0, <1>1, <2>1 DEF IntentsOwned
    <3> QED
      BY <1>5, <3>1
  <2>2. CASE <<k, j>> = <<"succeeded", i>>
    BY <1>5, <2>2
  <2> QED
    BY <1>1, <2>1, <2>2
<1>10. IntentsOwned'
  BY <1>1, <1>4, <1>7, <1>8, <1>9 DEF IntentsOwned
<1>11. RowsLive
  BY <1>1, RowsAreLive
<1> QED
  BY <1>4, <1>6, <1>10, <1>11, Documents

(* Nothing but the documents changes, the seats at most by a deletion. *)
LEMMA StillKeeps ==
    ASSUME CapInv, TInv', DataMoves, UNCHANGED call, seminar'.cap = seminar.cap,
           \/ UNCHANGED <<seminar.enrolled, seminar.status>>
           \/ seminar'.enrolled = {} /\ seminar'.status = "deleted"
    PROVE  CapInv'
<1>1. CapKept /\ EnvSame /\ Paid' = Paid
  BY EnvKeeps DEF CapKept, DataMoves
<1>2. \A z \in Slots : RunInv(call[z])'
  BY <1>1, RunStands
<1>3. Steady'
  BY <1>1, <1>2, CapStillGrows DEF Steady, DataMoves
<1>4. ClaimsStand'
  BY <1>1, EnvKeeps DEF CapInv
<1>5. \A z \in Slots : call[z].at \in Holding =>
          /\ Claimant(z)' = Claimant(z)
          /\ Doomed(z) => Doomed(z)'
          /\ Paid /\ Cancelled(call[z].i) => Cancelled(call[z].i)'
  BY HoldersKeep
<1>6. ClaimsHeld'
  <2>1. ASSUME NEW z \in Slots, call'[z].at \in Holding, seminar'.status = "active"
        PROVE  Claimant(z)' \in seminar'.enrolled \/ Doomed(z)'
    BY <1>5, <2>1 DEF CapInv, ClaimsHeld
  <2>2. ASSUME NEW y \in Slots, NEW z \in Slots, y # z, call'[y].at \in Holding,
               call'[z].at \in Holding, Claimant(y)' = Claimant(z)'
        PROVE  Paid' /\ Cancelled(call[y].i)'
    <3>1. Paid /\ Cancelled(call[y].i)
      BY <1>5, <2>2 DEF CapInv, ClaimsHeld
    <3> QED
      BY <1>1, <1>5, <2>2, <3>1
  <2> QED
    BY <2>1, <2>2 DEF ClaimsHeld
<1>7. Fits'
  <2>1. seminar.cap # Unlimited => seminar.cap \in Nat
    BY DEF CapInv, TInv, DataOK, SeminarOK, Seminar, Caps
  <2>2. Cardinality({}) = 0
    BY FS_EmptySet
  <2> QED
    BY <2>1, <2>2 DEF CapInv, Fits
<1> QED
  BY <1>3, <1>4, <1>6, <1>7 DEF CapInv

LEMMA OutsideKeeps ==
    ASSUME CapInv, TInv', StripeStep \/ DeleteSeminar \/ Time
    PROVE  CapInv'
<1>0. seminar \in Seminar /\ (UNCHANGED world => EnvSame)
      /\ requests \in [RequestIds -> Request]
  BY WorldKeeps DEF CapInv, TInv, DataOK, SeminarOK, RequestsOK
<1>1. ASSUME NEW u \in Students, NEW i \in Intents, NEW r \in 0..MaxRequests,
             NEW st \in {"hold", "processing", "succeeded"}, Checkout(u, i, r, st)
      PROVE  CapInv'
  <2>1. DataMoves
    BY <1>1, CheckoutIs
  <2> QED
    BY <1>1, <2>1, StillKeeps DEF Checkout
<1>2. ASSUME NEW i \in Intents
      PROVE  ~DeclinedFirst(i) /\ ~WalletFails(i)
  BY DEF DeclinedFirst, WalletFails, Fault, CapInv, ClaimsStand, PaymentsHold
<1>3. ASSUME NEW i \in Intents, WalletClears(i)
      PROVE  CapInv'
  <2>1. /\ Live(i) /\ RowsLive /\ RowsKept /\ EnvSame
    BY <1>0, <1>3, RowsAreLive, RequestsKeep DEF WalletClears, Live
  <2>2. DataMoves
    BY <1>3, <2>1, StripeMoves, Documents DEF WalletClears
  <2> QED
    BY <1>3, <2>2, StillKeeps DEF WalletClears
<1>4. ASSUME DeleteSeminar
      PROVE  CapInv'
  <2>1. DataMoves
    BY <1>0, <1>4, RequestsKeep, Documents DEF DeleteSeminar
  <2>2. seminar'.cap = seminar.cap /\ seminar'.enrolled = {} /\ seminar'.status = "deleted"
    BY <1>0, <1>4 DEF DeleteSeminar, Seminar
  <2> QED
    BY <1>4, <2>1, <2>2, StillKeeps DEF DeleteSeminar
<1>5. ASSUME SeminarStarts
      PROVE  CapInv'
  <2>1. RowsKept
    BY <1>0, <1>5 DEF SeminarStarts, RowsKept, Request
  <2>2. DataMoves
    BY <1>0, <1>5, <2>1, Documents DEF SeminarStarts
  <2>3. UNCHANGED <<seminar.cap, seminar.enrolled, seminar.status>>
    BY <1>0, <1>5 DEF SeminarStarts, Seminar
  <2> QED
    BY <1>5, <2>2, <2>3, StillKeeps DEF SeminarStarts
<1>6. ASSUME NEW r \in RequestIds, WindowLapses(r)
      PROVE  CapInv'
  <2>1. RowsKept
    BY <1>0, <1>6 DEF WindowLapses, RowsKept, Request
  <2>2. DataMoves
    BY <1>0, <1>6, <2>1, Documents DEF WindowLapses
  <2> QED
    BY <1>6, <2>2, StillKeeps DEF WindowLapses
<1> QED
  BY <1>1, <1>2, <1>3, <1>4, <1>5, <1>6 DEF StripeStep, Time

(* A restart empties the slots: no claim is left to confirm. *)
LEMMA CrashKeeps ==
    ASSUME CapInv, TInv', Crash
    PROVE  CapInv'
<1>1. DataMoves /\ UNCHANGED seminar
  BY WorldKeeps, RequestsKeep, Documents DEF Crash, CapInv
<1>2. CapKept /\ EnvSame
  BY <1>1 DEF CapKept, DataMoves
<1>3. \A z \in Slots : call'[z] = Idle
  BY DEF Crash
<1>4. RunInv(Idle)'
  <2>1. Idle.at \notin Buying
    BY IdleIsGood DEF Buying, ClaimLabels, CaptureLabels, PayLabels
  <2> QED
    BY <1>1, <1>2, <2>1, IdleIsGood, RunKeeps
<1>5. \A z \in Slots : RunInv(call[z])'
  BY <1>3, <1>4
<1>6. Steady'
  BY <1>1, <1>2, <1>5, CapStillGrows DEF Steady, DataMoves
<1>7. ClaimsStand' /\ Fits'
  BY <1>1, <1>2, EnvKeeps DEF CapInv, Fits
<1>8. ClaimsHeld'
  BY <1>3, IdleIsGood DEF ClaimsHeld, Holding
<1> QED
  BY <1>6, <1>7, <1>8 DEF CapInv

-----------------------------------------------------------------------------
LEMMA InitCap == Init /\ ClaimsStand => CapInv
<1> SUFFICES ASSUME Init, ClaimsStand PROVE CapInv
  OBVIOUS
<1>1. TInv
  BY InitTyped
<1>2. \A s \in Slots : call[s] = Idle
  BY DEF Init
<1>3. \A i \in Intents : /\ stripe[i].st = "none" /\ stripe[i].u = NoOne
                         /\ ~stripe[i].old /\ ~Recorded(i)
  BY DEF Init, Recorded
<1>4. IntentsOwned
  BY <1>3 DEF IntentsOwned, Live, Init
<1>5. CapGrows
  BY DEF Init, CapGrows, CapGrowsTo
<1>6. Steady
  BY <1>2, <1>4, <1>5, IdleIsGood DEF Steady
<1>7. ClaimsHeld
  BY <1>2, IdleIsGood DEF ClaimsHeld, Holding
<1>8. Fits
  <2>1. seminar.enrolled = {} /\ seminar.cap \in Caps
    BY <1>1 DEF Init, TInv, DataOK, SeminarOK, Seminar
  <2> QED
    BY <2>1, FS_EmptySet DEF Fits, Caps
<1> QED
  BY <1>1, <1>6, <1>7, <1>8 DEF CapInv

LEMMA NextCap == CapInv /\ [Next]_storeVars => CapInv'
<1> SUFFICES ASSUME CapInv, [Next]_storeVars PROVE CapInv'
  OBVIOUS
<1>1. TInv'
  BY NextTyped DEF CapInv
<1>2. ASSUME NEW s \in Slots, Step(s) \/ Arrival(s) \/ WebhookStep(s) \/ SweepStep(s)
      PROVE  CapInv'
  <2>1. Moves(s)
    BY <1>2, WaitlistMoves, RegistrationMoves, ReconcileMoves, ArrivalMoves,
       WebhookMoves, SweepMoves DEF Step
  <2> QED
    BY <1>1, <2>1, MovesKeep
<1>3. CASE StripeStep \/ DeleteSeminar \/ Time
  BY <1>1, <1>3, OutsideKeeps
<1>4. CASE Crash
  BY <1>1, <1>4, CrashKeeps
<1>5. CASE UNCHANGED storeVars
  <2>1. DataMoves
    BY <1>5, WorldKeeps, RequestsKeep, Documents DEF storeVars, CapInv
  <2> QED
    BY <1>1, <1>5, <2>1, StillKeeps DEF storeVars
<1> QED
  BY <1>2, <1>3, <1>4, <1>5 DEF Next

(* Never more students than maxAttendees, whatever the handlers, events,   *)
(* sweeps and restarts interleave: claimSeminarSeat decides on the         *)
(* document, and enrollAndConfirmSeminar, which adds the student again     *)
(* without a look at the cap, finds the claim still there.                 *)
THEOREM NeverOverbooked == Spec /\ ClaimsStand => []SeatsWithinCap
<1>1. CapInv => SeatsWithinCap
  BY DEF CapInv, Fits, SeatsWithinCap
<1> QED
  BY <1>1, InitCap, NextCap, PTL DEF Spec
=============================================================================
