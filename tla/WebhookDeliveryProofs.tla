------------------------ MODULE WebhookDeliveryProofs ------------------------
(***************************************************************************)
(* WebhookDelivery is safe for every set of events and workers, every set  *)
(* of faults and every bound on them.                                      *)
(***************************************************************************)
EXTENDS WebhookDelivery, TLAPS

(* A run that inserted the claim of its event holds it, alone; a run that  *)
(* has yet to insert owns nothing.                                         *)
OwnersHold ==
    \A w \in Workers :
        /\ Busy(w) /\ owns[w] => event[w] \in claims
        /\ pc[w] = "claim" => ~owns[w]

OwnersDiffer ==
    \A v, w \in Workers :
        v # w /\ Busy(v) /\ owns[v] /\ Busy(w) /\ owns[w] => event[v] # event[w]

(* Why no event is applied twice when every run needs the claim: what is   *)
(* unclaimed has not been applied, and neither has what a run is about to  *)
(* apply or to release.                                                    *)
ClaimGuardsEffects ==
    "claim" \notin Faults =>
        /\ \A w \in Workers : Busy(w) => owns[w]
        /\ \A e \in Events \ claims : applied[e] = 0
        /\ \A w \in Workers :
              pc[w] \in {"process", "release"} => applied[event[w]] = 0
        /\ \A e \in Events : applied[e] <= 1

IInv == TypeOK /\ OwnersHold /\ OwnersDiffer /\ ClaimGuardsEffects

(* Every fault of any kind keeps the counter within its bound. *)
LEMMA FaultType ==
    ASSUME TypeOK, NEW k, Fault(k)
    PROVE  faults' \in 0..MaxFaults' /\ env' \in Environments
BY ConstantsAssumption DEF TypeOK, Fault, MaxFaults

LEMMA InitIInv == Init => IInv
BY ConstantsAssumption
   DEF Init, IInv, TypeOK, Labels, OwnersHold, OwnersDiffer,
       ClaimGuardsEffects, Busy, MaxFaults

(* A type-correct state stays type-correct. *)
LEMMA TypeStep == TypeOK /\ [Next]_vars => TypeOK'
<1> SUFFICES ASSUME TypeOK, [Next]_vars PROVE TypeOK'
  OBVIOUS
<1> USE FaultType DEF TypeOK, Labels, Goto, MaxFaults
<1>1. ASSUME NEW e \in Events, NEW w \in Workers, Deliver(e, w) PROVE TypeOK'
  BY <1>1 DEF Deliver
<1>2. ASSUME NEW w \in Workers, Step(w) PROVE TypeOK'
  <2>1. CASE ClaimEvent(w)
    BY <2>1 DEF ClaimEvent
  <2>2. CASE IgnoreDuplicate(w)
    BY <2>2 DEF IgnoreDuplicate
  <2>3. CASE ClaimError(w)
    BY <2>3 DEF ClaimError
  <2>4. CASE Apply(w)
    BY <2>4 DEF Apply
  <2>5. CASE RejectAmount(w)
    BY <2>5 DEF RejectAmount
  <2>6. CASE ProcessingFails(w)
    BY <2>6 DEF ProcessingFails
  <2>7. CASE ReleaseClaim(w)
    BY <2>7 DEF ReleaseClaim
  <2>8. CASE ReleaseFails(w)
    BY <2>8 DEF ReleaseFails
  <2>9. CASE Reply(w)
    BY <2>9 DEF Reply
  <2>10. CASE ReplyLost(w)
    BY <2>10 DEF ReplyLost
  <2> QED
    BY <1>2, <2>1, <2>2, <2>3, <2>4, <2>5, <2>6, <2>7, <2>8, <2>9, <2>10
       DEF Step
<1>3. CASE Crash
  BY <1>3 DEF Crash
<1>4. CASE UNCHANGED vars
  BY <1>4 DEF vars
<1> QED
  BY <1>1, <1>2, <1>3, <1>4 DEF Next

(* The inductive step of the claim discipline, one case per action. *)
LEMMA ClaimStep == IInv /\ [Next]_vars => (OwnersHold /\ OwnersDiffer /\ ClaimGuardsEffects)'
<1> SUFFICES ASSUME IInv, [Next]_vars
             PROVE  (OwnersHold /\ OwnersDiffer /\ ClaimGuardsEffects)'
  OBVIOUS
<1> USE DEF IInv, TypeOK, Labels, Goto, OwnersHold, OwnersDiffer,
            ClaimGuardsEffects, Busy, Faults
<1>1. ASSUME NEW e \in Events, NEW w \in Workers, Deliver(e, w)
      PROVE (OwnersHold /\ OwnersDiffer /\ ClaimGuardsEffects)'
  BY <1>1 DEF Deliver
<1>2. ASSUME NEW w \in Workers, Step(w)
      PROVE (OwnersHold /\ OwnersDiffer /\ ClaimGuardsEffects)'
  <2>1. CASE ClaimEvent(w)
    BY <2>1 DEF ClaimEvent
  <2>2. CASE IgnoreDuplicate(w)
    BY <2>2 DEF IgnoreDuplicate
  <2>3. CASE ClaimError(w)
    BY <2>3 DEF ClaimError, Fault
  <2>4. CASE Apply(w)
    BY <2>4 DEF Apply
  <2>5. CASE RejectAmount(w)
    BY <2>5 DEF RejectAmount
  <2>6. CASE ProcessingFails(w)
    BY <2>6 DEF ProcessingFails, Fault
  <2>7. CASE ReleaseClaim(w)
    BY <2>7 DEF ReleaseClaim
  <2>8. CASE ReleaseFails(w)
    BY <2>8 DEF ReleaseFails, Fault
  <2>9. CASE Reply(w)
    BY <2>9 DEF Reply
  <2>10. CASE ReplyLost(w)
    BY <2>10 DEF ReplyLost, Fault
  <2> QED
    BY <1>2, <2>1, <2>2, <2>3, <2>4, <2>5, <2>6, <2>7, <2>8, <2>9, <2>10
       DEF Step
<1>3. CASE Crash
  BY <1>3 DEF Crash, Fault
<1>4. CASE UNCHANGED vars
  BY <1>4 DEF vars
<1> QED
  BY <1>1, <1>2, <1>3, <1>4 DEF Next

(* The invariant all the others follow from. *)
THEOREM Inductive == Spec => []IInv
<1>1. IInv /\ [Next]_vars => IInv'
  BY TypeStep, ClaimStep DEF IInv
<1> QED
  BY InitIInv, <1>1, PTL DEF Spec

(* Every reachable state of the handler and its claim table is well typed. *)
THEOREM TypeCorrect == Spec => []TypeOK
BY Inductive, PTL DEF IInv

(* Two deliveries of one event never both own its claim, and an owner's    *)
(* claim row is there for as long as it runs.                              *)
THEOREM OwnerIsSingle == Spec => []SingleOwner
<1>1. IInv => SingleOwner
  BY DEF IInv, OwnersHold, OwnersDiffer, SingleOwner
<1> QED
  BY Inductive, <1>1, PTL

(* Webhook delivery is idempotent: no event is applied twice. *)
THEOREM DeliveryIsIdempotent == Spec => []AppliedAtMostOnce
<1>1. IInv => AppliedAtMostOnce
  BY DEF IInv, ClaimGuardsEffects, AppliedAtMostOnce
<1> QED
  BY Inductive, <1>1, PTL

-----------------------------------------------------------------------------
(* Why no retry is swallowed when deliveries do not overlap: a claim that   *)
(* no run in flight will use or give up belongs to an event that was       *)
(* applied, and Stripe is told so only then.                               *)
AtWork(w, e) == event[w] = e /\ owns[w] /\ pc[w] \in {"process", "release"}

ClaimsKept ==
    Undisturbed =>
        /\ \A v, w \in Workers : v # w => pc[v] = "idle" \/ pc[w] = "idle"
        /\ \A e \in claims \ Rejected :
              applied[e] > 0 \/ \E w \in Workers : AtWork(w, e)
        /\ \A w \in Workers : pc[w] = "reply" => applied[event[w]] > 0
        /\ \A e \in acked \ Rejected : applied[e] > 0

LEMMA ClaimsKeptStep == TypeOK /\ ClaimsKept /\ [Next]_vars => ClaimsKept'
<1> SUFFICES ASSUME TypeOK, ClaimsKept, [Next]_vars PROVE ClaimsKept'
  OBVIOUS
<1> USE DEF TypeOK, Labels, Goto, ClaimsKept, AtWork, Undisturbed, Faults
<1>1. ASSUME NEW e \in Events, NEW w \in Workers, Deliver(e, w)
      PROVE  ClaimsKept'
  BY <1>1 DEF Deliver
<1>2. ASSUME NEW w \in Workers, Step(w) PROVE ClaimsKept'
  <2>1. CASE ClaimEvent(w)
    BY <2>1 DEF ClaimEvent
  <2>2. CASE IgnoreDuplicate(w)
    BY <2>2 DEF IgnoreDuplicate
  <2>3. CASE ClaimError(w)
    BY <2>3 DEF ClaimError, Fault
  <2>4. CASE Apply(w)
    BY <2>4 DEF Apply
  <2>5. CASE RejectAmount(w)
    BY <2>5 DEF RejectAmount
  <2>6. CASE ProcessingFails(w)
    BY <2>6 DEF ProcessingFails, Fault
  <2>7. CASE ReleaseClaim(w)
    BY <2>7 DEF ReleaseClaim
  <2>8. CASE ReleaseFails(w)
    BY <2>8 DEF ReleaseFails, Fault
  <2>9. CASE Reply(w)
    BY <2>9 DEF Reply
  <2>10. CASE ReplyLost(w)
    BY <2>10 DEF ReplyLost, Fault
  <2> QED
    BY <1>2, <2>1, <2>2, <2>3, <2>4, <2>5, <2>6, <2>7, <2>8, <2>9, <2>10
       DEF Step
<1>3. CASE Crash
  BY <1>3 DEF Crash, Fault
<1>4. CASE UNCHANGED vars
  BY <1>4 DEF vars
<1> QED
  BY <1>1, <1>2, <1>3, <1>4 DEF Next

(* Delivered one at a time, an event Stripe believes delivered was applied. *)
THEOREM NoRetrySwallowed == Spec => []RetryAloneNotSwallowed
<1>1. Init => ClaimsKept
  BY DEF Init, ClaimsKept
<1>2. ClaimsKept => RetryAloneNotSwallowed
  BY DEF ClaimsKept, RetryAloneNotSwallowed, RetryNotSwallowed
<1> QED
  BY <1>1, <1>2, TypeCorrect, ClaimsKeptStep, PTL DEF Spec
=============================================================================
