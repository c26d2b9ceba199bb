--------------------------- MODULE WebhookDelivery ---------------------------
(***************************************************************************)
(* Delivery of Stripe webhook events to handleStripeWebhook                *)
(* (BE/controllers/stripe.controller.ts).                                  *)
(*                                                                         *)
(* Stripe delivers an event at least once: it repeats a delivery until it  *)
(* sees a 2xx answer and may repeat one it saw answered.  The handler makes *)
(* processing idempotent by inserting a StripeWebhookEvent row with a      *)
(* unique eventId (the claim) before it runs any side effect, and deletes  *)
(* the row again when processing throws.                                   *)
(*                                                                         *)
(* A worker is one run of the handler.  Each await of the handler that     *)
(* touches the database or runs the event's side effects is one step, so   *)
(* deliveries of one event interleave.                                     *)
(***************************************************************************)
EXTENDS Naturals, FiniteSets

CONSTANTS
    Events,      \* the Stripe events
    Workers,     \* handler runs that can be in flight together
    Rejected,    \* checkout events whose amount differs from the expected one
    Environments \* what the handler may meet, see below

FaultKinds == {"claim", "process", "release", "reply", "crash"}

(* In an environment some kinds of faults happen, up to a bound on their   *)
(* number, and Stripe delivers one event at a time or several together.    *)
ASSUME ConstantsAssumption ==
    /\ Rejected \subseteq Events
    /\ \A e \in Environments :
          /\ e.faults \subseteq FaultKinds
          /\ e.maxFaults \in Nat
          /\ e.together \in BOOLEAN

VARIABLES
    claims,    \* events that have a StripeWebhookEvent row
    pc,        \* pc[w]: where worker w is
    event,     \* event[w]: the event worker w handles
    owns,      \* owns[w]: worker w inserted the claim (claimId is set)
    applied,   \* applied[e]: completed runs of e's side effects, counted to 2
    acked,     \* events Stripe has seen answered with 2xx
    faults,    \* faults so far
    env        \* the environment

vars == <<claims, pc, event, owns, applied, acked, faults, env>>

Faults == env.faults
MaxFaults == env.maxFaults

Labels == {"idle", "claim", "process", "reply", "release"}

TypeOK ==
    /\ claims \subseteq Events
    /\ pc \in [Workers -> Labels]
    /\ event \in [Workers -> Events]
    /\ owns \in [Workers -> BOOLEAN]
    /\ applied \in [Events -> 0..2]
    /\ acked \subseteq Events
    /\ env \in Environments
    /\ faults \in 0..MaxFaults

Init ==
    /\ env \in Environments
    /\ claims = {}
    /\ pc = [w \in Workers |-> "idle"]
    /\ event \in [Workers -> Events]
    /\ owns = [w \in Workers |-> FALSE]
    /\ applied = [e \in Events |-> 0]
    /\ acked = {}
    /\ faults = 0

(* One more fault of kind k, while the budget lasts. *)
Fault(k) ==
    /\ k \in Faults
    /\ faults < MaxFaults
    /\ faults' = faults + 1
    /\ UNCHANGED env

Goto(w, label) == pc' = [pc EXCEPT ![w] = label]

-----------------------------------------------------------------------------
(* Stripe posts event e: the first delivery, a retry, or a duplicate. *)
Deliver(e, w) ==
    /\ pc[w] = "idle"
    /\ env.together \/ \A v \in Workers : pc[v] = "idle"
    /\ Goto(w, "claim")
    /\ event' = [event EXCEPT ![w] = e]
    /\ owns' = [owns EXCEPT ![w] = FALSE]
    /\ UNCHANGED <<claims, applied, acked, faults, env>>

(* Mutant of ClaimEvent: eventId without its unique index. *)
MutClaimNotUnique(w) ==
    /\ pc[w] = "claim"
    /\ claims' = claims \cup {event[w]}
    /\ owns' = [owns EXCEPT ![w] = TRUE]
    /\ Goto(w, "process")
    /\ UNCHANGED <<event, applied, acked, faults, env>>

(* StripeWebhookEvent.create succeeds: no other delivery holds the claim. *)
ClaimEvent(w) ==
    /\ pc[w] = "claim"
    /\ event[w] \notin claims
    /\ claims' = claims \cup {event[w]}
    /\ owns' = [owns EXCEPT ![w] = TRUE]
    /\ Goto(w, "process")
    /\ UNCHANGED <<event, applied, acked, faults, env>>

(* create fails with E11000: the delivery is acknowledged as a duplicate. *)
IgnoreDuplicate(w) ==
    /\ pc[w] = "claim"
    /\ event[w] \in claims
    /\ acked' = acked \cup {event[w]}
    /\ Goto(w, "idle")
    /\ UNCHANGED <<claims, event, owns, applied, faults, env>>

(* create fails with any other error: the handler goes on without a claim. *)
ClaimError(w) ==
    /\ pc[w] = "claim"
    /\ Fault("claim")
    /\ Goto(w, "process")
    /\ UNCHANGED <<claims, event, owns, applied, acked>>

(* The side effects of the event run to the end. *)
Apply(w) ==
    /\ pc[w] = "process"
    /\ event[w] \notin Rejected
    /\ applied' = [applied EXCEPT ![event[w]] = IF @ < 2 THEN @ + 1 ELSE @]
    /\ Goto(w, "reply")
    /\ UNCHANGED <<claims, event, owns, acked, faults, env>>

(* The amount paid is not the amount expected: answered 400, claim kept. *)
RejectAmount(w) ==
    /\ pc[w] = "process"
    /\ event[w] \in Rejected
    /\ Goto(w, "idle")
    /\ UNCHANGED <<claims, event, owns, applied, acked, faults, env>>

(* Processing throws before the event's side effects are complete. *)
ProcessingFails(w) ==
    /\ pc[w] = "process"
    /\ Fault("process")
    /\ Goto(w, "release")
    /\ UNCHANGED <<claims, event, owns, applied, acked>>

(* Mutant of ReleaseClaim: a failed run keeps its claim. *)
MutKeepClaim(w) ==
    /\ pc[w] = "release"
    /\ Goto(w, "idle")
    /\ UNCHANGED <<claims, event, owns, applied, acked, faults, env>>

(* The catch blocks: delete the claim this run inserted, answer 500. *)
ReleaseClaim(w) ==
    /\ pc[w] = "release"
    /\ claims' = IF owns[w] THEN claims \ {event[w]} ELSE claims
    /\ Goto(w, "idle")
    /\ UNCHANGED <<event, owns, applied, acked, faults, env>>

(* The delete itself fails; .catch(() => null) swallows it. *)
ReleaseFails(w) ==
    /\ pc[w] = "release"
    /\ owns[w]
    /\ Fault("release")
    /\ Goto(w, "idle")
    /\ UNCHANGED <<claims, event, owns, applied, acked>>

(* The 2xx answer reaches Stripe. *)
Reply(w) ==
    /\ pc[w] = "reply"
    /\ acked' = acked \cup {event[w]}
    /\ Goto(w, "idle")
    /\ UNCHANGED <<claims, event, owns, applied, faults, env>>

(* The 2xx answer is lost or late; Stripe will retry. *)
ReplyLost(w) ==
    /\ pc[w] = "reply"
    /\ Fault("reply")
    /\ Goto(w, "idle")
    /\ UNCHANGED <<claims, event, owns, applied, acked>>

(* The single backend container restarts: every run in flight is gone. *)
Crash ==
    /\ Fault("crash")
    /\ pc' = [w \in Workers |-> "idle"]
    /\ UNCHANGED <<claims, event, owns, applied, acked>>

Step(w) ==
    \/ ClaimEvent(w)
    \/ IgnoreDuplicate(w)
    \/ ClaimError(w)
    \/ Apply(w)
    \/ RejectAmount(w)
    \/ ProcessingFails(w)
    \/ ReleaseClaim(w)
    \/ ReleaseFails(w)
    \/ Reply(w)
    \/ ReplyLost(w)

Next ==
    \/ \E e \in Events, w \in Workers : Deliver(e, w)
    \/ \E w \in Workers : Step(w)
    \/ Crash

Spec == Init /\ [][Next]_vars

(* Stripe keeps retrying an event it has not seen answered, and Node runs  *)
(* every handler that was started on to its end.                           *)
Retry(e) == e \notin acked /\ \E w \in Workers : Deliver(e, w)

FairSpec ==
    /\ Spec
    /\ \A e \in Events : SF_vars(Retry(e))
    /\ \A w \in Workers : WF_vars(Step(w))

-----------------------------------------------------------------------------
Busy(w) == pc[w] \in {"process", "reply", "release"}

(* The unique index at work: while a run that inserted the claim of an     *)
(* event is in flight, the claim is there and no other run of that event   *)
(* owns one, whatever fails and whenever the container restarts.           *)
SingleOwner ==
    \A w \in Workers : Busy(w) /\ owns[w] =>
        /\ event[w] \in claims
        /\ \A v \in Workers \ {w} :
              Busy(v) /\ owns[v] => event[v] # event[w]

(* models/StripeWebhookEvent.ts: a replay loses the insert and is acked    *)
(* without re-running any side effect.  Unless inserting claims can fail   *)
(* for another reason than the index, no event's side effects complete     *)
(* twice, however often it is delivered, interleaved, crashed or retried.  *)
AppliedAtMostOnce ==
    "claim" \notin Faults => \A e \in Events : applied[e] <= 1

(* "Released whenever processing fails, so Stripe's retry is not swallowed *)
(* as a duplicate" (stripe.controller.ts:801): an event that Stripe        *)
(* believes delivered has been applied or a run that may apply it is still *)
(* in flight.                                                              *)
RetryNotSwallowed ==
    \A e \in acked \ Rejected :
        \/ applied[e] > 0
        \/ \E w \in Workers : event[w] = e /\ pc[w] = "process"

(* So it is when Stripe delivers one event at a time, no restart cuts a    *)
(* run short and no failed run fails to delete its claim.                  *)
Undisturbed == ~env.together /\ {"crash", "release"} \cap Faults = {}
RetryAloneNotSwallowed == Undisturbed => RetryNotSwallowed

(* Then every event that is not rejected is applied in the end.            *)
EventuallyApplied ==
    Undisturbed => \A e \in Events \ Rejected : <>(applied[e] > 0)
=============================================================================
