----------------------------- MODULE MailSweeps -----------------------------
(***************************************************************************)
(* The two mail sweeps of the backend on their common clock.               *)
(***************************************************************************)
EXTENDS SessionReminders, UnreadMails

vars == <<now, world, reminderVars, unreadVars>>

Init ==
    /\ \E e \in Environments : world = [env |-> e, calls |-> 0, faults |-> 0]
    /\ now = 0
    /\ ReminderInit
    /\ UnreadInit

Clock ==
    /\ now < Horizon
    /\ RemindersOnTime
    /\ UnreadOnTime
    /\ now' = now + 1
    /\ UNCHANGED <<world, reminderVars, unreadVars>>

(* A restart: ticks in flight are gone, the sweeps begin anew. *)
Crash ==
    /\ Fault("crash")
    /\ tick' = [s \in Slots |-> NoTick]
    /\ sweep' = NoSweep
    /\ UNCHANGED <<now, session, activated, ticked, mailed, user, rooms,
                   unread, started, swept, owed>>

Next ==
    \/ ReminderStep /\ UNCHANGED unreadVars
    \/ UnreadStep /\ UNCHANGED reminderVars
    \/ Clock
    \/ Crash

Spec == Init /\ [][Next]_vars

(* The variables have their types. *)
TypeOK ==
    /\ now \in 0..Horizon
    /\ world \in [env: Environments, calls: Nat, faults: Nat]
    /\ ReminderTypeOK
    /\ UnreadTypeOK
=============================================================================
