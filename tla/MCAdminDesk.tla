---------------------------- MODULE MCAdminDesk -----------------------------
(* Small instances of AdminDesk. *)
EXTENDS AdminDesk, MCAdminPayments

CONSTANTS b1, b2, b3

MCRates == [commission |-> 20, studentFee |-> 3, tax |-> 0, cap |-> 500, free |-> 100]

(* Seminars of 10 dollars and 9.99 and a free session, refunded by the     *)
(* students' cancelling and by admins; two admins recording cheques over   *)
(* two months, while charges settle and students cancel; two admins who    *)
(* wait for the month to settle.                                           *)
Cents == [b \in {b1, b2, b3} |->
             CASE b = b1 -> 1000 [] b = b2 -> 999 [] b = b3 -> 0]
Quarter == [booked |-> {b1, b2, b3}, advertised |-> Cents,
            kind |-> [b \in {b1, b2, b3} |->
                         IF b = b3 THEN "individual" ELSE "seminar"],
            begins |-> {"pending", "completed"}, rules |-> CancellationRules,
            sums |-> {343, 1030}, numbers |-> {}, patient |-> FALSE,
            months |-> 1, asks |-> 0]
Cheques == [Quarter EXCEPT !.booked = {b1, b2}, !.begins = {"pending"},
                           !.sums = {}, !.rules = {"processing_fee"}, !.asks = 2]
Patient == [Cheques EXCEPT !.patient = TRUE, !.months = 2, !.rules = {"full"},
                           !.numbers = {1}]

(* A desk at which nobody pays or is paid. *)
Idling == [Booking EXCEPT !.calls = {}, !.faults = {}, !.until = 0]
Unbooked == [Quarter EXCEPT !.booked = {}]

MCEnvironments == Everything \cup {Idling}
MCBooks == {Quarter, Cheques, Patient, Unbooked}
MCDesks == (Everything \X {Unbooked}) \cup ({Idling} \X (MCBooks \ {Unbooked}))
=============================================================================
