---------------------------- MODULE SessionLife -----------------------------
(***************************************************************************)
(* What a 1:1 session promises its two people, whatever handlers, webhooks *)
(* and sweeps do: it is open until it is confirmed or over, a confirmed    *)
(* session never goes back to being open, and what is over stays over.     *)
(***************************************************************************)
CONSTANT Sessions

VARIABLE life

Init == life = [g \in Sessions |-> "none"]

Move(g, from, to) ==
    /\ life[g] \in from
    /\ life' = [life EXCEPT ![g] = to]

(* The student requests it, or the expert proposes it. *)
Ask(g) == Move(g, {"none"}, "open")

(* The expert's yes or the student's payment. *)
Confirm(g) == Move(g, {"open"}, "confirmed")

(* Declined, withdrawn, expired; or the money went back. *)
End(g) == Move(g, {"open", "confirmed"}, "over")

(* A restart ends all the decisions under way: each stands or falls. *)
Restart ==
    \E all \in SUBSET {g \in Sessions : life[g] = "open"} :
        \E to \in [all -> {"confirmed", "over"}] :
            life' = [g \in Sessions |-> IF g \in all THEN to[g] ELSE life[g]]

Next == Restart \/ \E g \in Sessions : Ask(g) \/ Confirm(g) \/ End(g)

Spec == Init /\ [][Next]_life
=============================================================================
