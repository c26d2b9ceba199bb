----------------------------- MODULE SweepTimer -----------------------------
(***************************************************************************)
(* The clock of the mail sweeps.  A unit of time is short against every    *)
(* window of the sweeps and long against one tick of a sweep; server.ts    *)
(* calls a sweep when it boots and every Interval units from then on.      *)
(***************************************************************************)
EXTENDS Integers, FiniteSets

CONSTANTS
    Interval,
    Horizon,       \* bound on the clock
    Environments   \* what the program may meet

ASSUME TimerAssumption ==
    /\ Interval \in Nat \ {0}
    /\ Horizon \in Nat
    /\ \A e \in Environments : e.maxCalls \in Nat /\ e.maxFaults \in Nat

VARIABLES
    now,
    world      \* the environment, the calls and the faults met so far

NoTime == -1
Time == {NoTime} \cup 0..(Horizon + 1)

Calls == world.env.calls
Faults == world.env.faults

Fault(k) ==
    /\ k \in Faults
    /\ world.faults < world.env.maxFaults
    /\ world' = [world EXCEPT !.faults = @ + 1]

(* A sweep is on time while its next tick is not overdue. *)
OnTime(ticked) == ticked = NoTime \/ now + 1 - ticked <= Interval
=============================================================================
