--------------------------- MODULE ExpertSessions ---------------------------
(***************************************************************************)
(* The 1:1 sessions of one student with one expert: every handler of       *)
(* SessionBooking and SessionEnding at once, with the two people, Stripe,  *)
(* the webhooks, the sweeps, the clock and restarts interleaved.           *)
(***************************************************************************)
EXTENDS SessionEnding

Init ==
    /\ \E e \in Environments : world = [env |-> e, calls |-> 0, faults |-> 0]
    /\ session = [g \in Sessions |->
                     [st |-> "none", by |-> "student", mode |-> "card",
                      decide |-> "none", payBy |-> "none", started |-> FALSE]]
    /\ ledger = [i \in Intents |->
                    [charge |-> "none", g |-> NoSession, refunds |-> 0]]
    /\ stripe = [i \in Intents |->
                    [st |-> "none", g |-> NoSession, refunded |-> FALSE,
                     sent |-> FALSE, old |-> FALSE]]
    /\ events = {}
    /\ call = [s \in Slots |-> Idle]

Step(s) == BookingStep(s) \/ EndingStep(s)

Next ==
    \/ \E s \in Slots : \/ Step(s) \/ WebhookStep(s) \/ SweepStep(s)
                        \/ BookingCall(s) \/ EndingCall(s)
    \/ StripeStep
    \/ Time
    \/ Crash

Spec == Init /\ [][Next]_sessionVars

(* A run that started goes on; Stripe delivers every event and resolves    *)
(* every wallet payment; the sweeps visit every session, row and intent    *)
(* again and again, held up only now and then because the slots are taken; *)
(* time passes.  Nobody has to call anything.                              *)
Fairness ==
    /\ \A s \in Slots : WF_sessionVars(Step(s))
    /\ \A i \in Intents :
        /\ SF_sessionVars(\E s \in Slots : FailedEvent(s, i))
        /\ SF_sessionVars(\E s \in Slots : SucceededEvent(s, i))
        /\ SF_sessionVars(\E s \in Slots : SweepPending(s, i))
        /\ SF_sessionVars(\E s \in Slots : SweepStray(s, i))
        /\ WF_sessionVars(WalletClears(i))
    /\ \A g \in Sessions :
        /\ SF_sessionVars(\E s \in Slots : SweepHold(s, g))
        /\ SF_sessionVars(SweepWindow(g))
        /\ WF_sessionVars(DecisionLapses(g))
        /\ WF_sessionVars(WindowLapses(g))
        /\ WF_sessionVars(SessionStarts(g))

FairSpec == Spec /\ Fairness

-----------------------------------------------------------------------------
Labels == {"idle"} \cup RequestLabels \cup ReadLabels \cup UndoLabels
          \cup ConfirmingLabels \cup ConfirmedLabels \cup MoneyBackLabels
          \cup CancellingLabels \cup CancelledLabels \cup HoldLabels
          \cup EventLabels \cup SweepLabels

(* The variables have their types. *)
TypeOK ==
    /\ session \in [Sessions -> Session]
    /\ ledger \in [Intents -> Ledger]
    /\ stripe \in [Intents -> Intent]
    /\ events \subseteq Event
    /\ call \in [Slots -> Run(Labels)]
    /\ world \in [env : Environments, calls : Nat, faults : Nat]

Quiet == events = {} /\ \A s \in Slots : At(s, "idle")

(* The student's hold is captured only once the charge is on the books, so *)
(* a restart after the capture leaves a row that says so.                  *)
CaptureIsOnBooks ==
    [][\A i \in Intents :
          stripe[i].st = "hold" /\ stripe'[i].st = "succeeded" => Recorded(i)]_sessionVars

(* Money kept for a session is kept for one that takes place: a charge on  *)
(* the books that was not given back belongs to a confirmed session.       *)
ChargeBuysSession ==
    Quiet => \A i \in Intents :
        Taken(i) /\ ledger[i].charge = "completed"
            => ledger[i].g # NoSession /\ session[ledger[i].g].st = "active"

(* A confirmed session is paid, or its payment is on its way.  A restart   *)
(* between the confirmation and the capture is left out: nothing notices.  *)
SessionIsBacked ==
    Quiet /\ Advertised /\ "crash" \notin Faults => \A g \in Sessions :
        session[g].st = "active" =>
            \E i \in Intents :
                /\ ledger[i].g = g \/ stripe[i].g = g
                /\ Taken(i) \/ stripe[i].st = "processing"

(* The books agree with Stripe once no run works on the intent. *)
BooksMatchStripe ==
    \A i \in Intents : (\A s \in Slots : call[s].i # i) =>
        CASE ledger[i].charge \in {"failed", "released"} -> ~Taken(i)
          [] ledger[i].charge = "completed" -> stripe[i].st = "succeeded"
          [] ledger[i].charge = "refunded"  -> stripe[i].refunded
          [] OTHER -> TRUE

-----------------------------------------------------------------------------
(* The session as its two people see it.  While a canceller may still put  *)
(* it back it is not over, and while a run that activated it has not taken *)
(* the money, or may still put it back, it is not confirmed.               *)
Working(g, labels) == \E s \in Slots : call[s].g = g /\ call[s].at \in labels
Paid(g) == \E i \in Intents : ledger[i].g = g /\ stripe[i].st = "succeeded"

Life(g) ==
    CASE session[g].st = "none"      -> "none"
      [] session[g].st = "pending"   -> "open"
      [] session[g].st = "active"    ->
             IF Working(g, ConfirmingLabels) /\ ~Paid(g) THEN "open"
             ELSE "confirmed"
      [] session[g].st = "cancelled" ->
             IF Working(g, CancellingLabels) THEN "open" ELSE "over"
      [] session[g].st = "deleted"   -> "over"

Abstract == INSTANCE SessionLife WITH life <- [g \in Sessions |-> Life(g)]

(* A session goes from open to confirmed to over and never back. *)
LivesOnce == Abstract!Spec

-----------------------------------------------------------------------------
(* Every request and every offer is decided: by its people, or by time. *)
SessionsDecided == \A g \in Sessions :
    session[g].st = "pending" ~> session[g].st # "pending"

(* A restart aside, an authorization is captured or released in the end,   *)
(* unless the capture failed: then the books call the charge failed and    *)
(* Stripe lets it expire.                                                  *)
HoldsEnd == "crash" \notin Faults => \A i \in Intents :
    stripe[i].st = "hold" ~> stripe[i].st # "hold" \/ ledger[i].charge = "failed"

(* Unless a payment is submitted or a request accepted twice, money taken  *)
(* is kept for a confirmed session or goes back.                           *)
MoneySettles == {"resubmit", "twice"} \cap Calls = {} => \A i \in Intents :
    Taken(i) ~> \/ stripe[i].refunded
                \/ /\ ledger[i].g # NoSession
                   /\ session[ledger[i].g].st = "active"

(* "Nothing was authorized on this path, so there is no money to return":  *)
(* an offer whose window has lapsed, which sweepExpiredProposedSessions is *)
(* about to cancel, was not paid for.                                      *)
OffersLapseUnpaid ==
    Quiet => \A g \in Sessions, i \in Intents :
        ~ /\ session[g].st = "pending"
          /\ session[g].by = "expert"
          /\ session[g].payBy = "lapsed"
          /\ ledger[i].g = g
          /\ Taken(i)
=============================================================================
