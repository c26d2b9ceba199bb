---------------------------- MODULE MCMailSweeps ----------------------------
(* Small instances of MailSweeps: the windows keep the order they have in  *)
(* the code (a tick is shorter than what is stale, that than the lead).    *)
EXTENDS MailSweeps, TLC

MCLead == [k \in Kinds |-> IF k = "24h" THEN 5 ELSE 2]
MCStale == [k \in Kinds |-> IF k = "24h" THEN 2 ELSE 1]

Symmetry == Permutations(Slots)

MCUsers == {"u1", "u2"}
MCRooms == {"r1", "r2"}

Nothing == [calls |-> {}, starts |-> {}, chats |-> {}, maxCalls |-> 0,
            faults |-> {}, maxFaults |-> 1]

(* Sessions confirmed early and late, cancelled, or moved while a restart  *)
(* or a slow tick makes ticks overlap.                                     *)
Reminded == [Nothing EXCEPT
    !.calls = {"remind", "confirm", "cancel"}, !.starts = {2, 5, 6}]
Moved == [Nothing EXCEPT
    !.calls = {"remind", "confirm", "move"}, !.starts = {3, 6},
    !.faults = {"slow", "send", "crash"}]

(* A user with two rooms who comes and goes; two users with a room each    *)
(* while Rocket.Chat and the mail service fail.                            *)
Unread == [Nothing EXCEPT
    !.calls = {"unread"}, !.chats = {"u1"} \X MCRooms, !.maxCalls = 4]
UnreadFailing == [Nothing EXCEPT
    !.calls = {"unread"}, !.chats = {<<"u1", "r1">>}, !.maxCalls = 3,
    !.faults = {"rocketchat", "send", "crash"}, !.maxFaults = 2]
TwoUsers == [Nothing EXCEPT
    !.calls = {"unread"}, !.chats = {<<"u1", "r1">>, <<"u2", "r1">>},
    !.maxCalls = 2, !.faults = {"rocketchat"}, !.maxFaults = 2]
Everything == {Reminded, Moved, Unread, UnreadFailing, TwoUsers}
=============================================================================
