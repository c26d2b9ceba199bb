----------------------------- MODULE AdminDesk ------------------------------
(***************************************************************************)
(* What the admins do with the ledger: they refund payments and send links *)
(* to pay again (AdminPayments), and record the cheques experts are paid   *)
(* with (Payroll).  Each keeps the rows of PaymentHistory it is about;     *)
(* Desks says which of their environments meet.                            *)
(***************************************************************************)
EXTENDS AdminPayments, Payroll

CONSTANT Desks

ASSUME DesksAssumption == Desks \subseteq Environments \X Books

deskVars == <<vars, payrollVars>>

DeskInit == Init /\ PayrollInit /\ <<world.env, books>> \in Desks

DeskNext ==
    \/ Next /\ UNCHANGED payrollVars
    \/ PayrollNext /\ UNCHANGED vars

DeskSpec ==
    /\ DeskInit /\ [][DeskNext]_deskVars
    /\ Fairness
=============================================================================
