-------------------------- MODULE MCWebhookDelivery --------------------------
(* Instances of WebhookDelivery for TLC. *)
EXTENDS WebhookDelivery, TLC

CONSTANTS e1, e2, w1, w2, w3

MCTwoEvents == {e1, e2}
MCSecondRejected == {e2}
MCThreeWorkers == {w1, w2, w3}
MCTwoWorkers == {w1, w2}
MCOneEvent == {e1}

(* Deliveries that overlap, with restarts; deliveries one at a time. *)
Overlapping == [faults |-> {"process", "release", "reply", "crash"},
                maxFaults |-> 2, together |-> TRUE]
OneByOne == [faults |-> {"claim", "process", "reply"},
             maxFaults |-> 3, together |-> FALSE]
MCBoth == {Overlapping, OneByOne}

(* Two deliveries of one event, one failure. *)
MCRetry == {[faults |-> {"process"}, maxFaults |-> 1, together |-> TRUE]}
=============================================================================
