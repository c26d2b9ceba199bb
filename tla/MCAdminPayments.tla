--------------------------- MODULE MCAdminPayments ---------------------------
(* Small instances of AdminPayments. *)
EXTENDS AdminPayments

CONSTANTS l1, l2

Booking == [kind |-> [p \in {l1, l2} |-> "retry"], charge |-> "completed",
            start |-> 2, over |-> 3, until |-> 3, maxCalls |-> 3, maxFaults |-> 1,
            calls |-> {"refund", "link"}, faults |-> {"mail"}]

(* A session that was paid for; one whose payment failed; restarts and     *)
(* answers that are lost; and a payment for something else.                *)
Unpaid == [Booking EXCEPT !.charge = "failed", !.calls = {"link", "refund", "overlap"},
                          !.faults = {"mail", "save"}]
Restarted == [Booking EXCEPT !.faults = {"crash"}, !.maxCalls = 2]
Unanswered == [Booking EXCEPT !.faults = {"lost"}, !.maxCalls = 2]
Interrupted == [Booking EXCEPT !.faults = {"crash"}, !.maxCalls = 2,
                               !.kind = [p \in {l1, l2} |-> "adhoc"]]
Other == [Unpaid EXCEPT !.charge = "completed", !.calls = Booking.calls,
                        !.kind = [p \in {l1, l2} |-> "adhoc"]]
Everything == {Booking, Unpaid, Restarted, Unanswered, Interrupted, Other}
=============================================================================
