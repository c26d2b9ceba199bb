----------------------------- MODULE MCMeetings -----------------------------
(* Small instances of Meetings; the intervals keep their order. *)
EXTENDS Meetings, TLC

CONSTANTS h, a, b

Symmetry == Permutations({a, b}) \cup Permutations(Slots)

(* A group with its host and two members, in which nothing happens. *)
Group == [direct |-> FALSE, admin |-> h, members |-> {h, a, b}, starters |-> {h},
          calls |-> {}, maxCalls |-> 4, until |-> 3, inviteFor |-> 1,
          most |-> 1]

(* People come and go, the messenger is loaded again. *)
ComeAndGo == [Group EXCEPT !.calls = {"start", "join", "reload"}, !.until = 3]
(* Browsers are killed, the messengers look. *)
Abandoned == [Group EXCEPT !.calls = {"start", "join", "vanish", "poll"},
                           !.members = {h, a}, !.until = 7, !.maxCalls = 3]
(* A script hooks the conference late; then two others are there. *)
HookedLate == [Group EXCEPT !.calls = {"start", "join", "late"}, !.until = 2]
(* Reports get lost and tabs fall silent, while messengers look. *)
Throttled == [Group EXCEPT !.calls = {"start", "join", "poll", "silence"},
                           !.members = {h, a}, !.until = 4, !.maxCalls = 3]
(* Requests overlap while roles change: fewer of them among more people,   *)
(* and more of them among fewer.                                           *)
Overlapping == [Group EXCEPT !.until = 0, !.maxCalls = 3,
    !.calls = {"overlap", "start", "join", "promote", "demote", "remove"}]
Changing == [Overlapping EXCEPT !.members = {h, a}, !.maxCalls = 4]
(* A guest with an invitation; end requests get lost. *)
Guests == [Group EXCEPT !.calls = {"start", "invite", "guest", "end", "lost"},
                        !.members = {h, a}, !.until = 2]
(* A direct call that both start at once, with a restart. *)
Direct == [Group EXCEPT !.direct = TRUE, !.members = {a, b}, !.starters = {a, b},
    !.calls = {"overlap", "double", "start", "crash"}, !.until = 0, !.maxCalls = 3,
    !.most = 2]
Coming == {ComeAndGo}
Everything == {ComeAndGo, Abandoned, HookedLate, Throttled, Overlapping, Changing,
               Guests, Direct}
=============================================================================
