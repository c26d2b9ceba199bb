---------------------------- MODULE MeetingRoom -----------------------------
(***************************************************************************)
(* The tab of a meeting (wisdomlinked-meeting-end-on-hangup.js) and the    *)
(* messenger that opened it (meetingSession.ts): they count the others in  *)
(* the room, report, and ask the backend to end the meeting.  Jitsi tells  *)
(* a script that listens of people who come and go without delay.          *)
(***************************************************************************)
EXTENDS MeetingStore

(* trackMeetingJoin: a tab opens with the link the backend answered. *)
Opens(u, m) ==
    /\ tab' = [tab EXCEPT ![u] = [NoTab EXCEPT !.m = m, !.watched = TRUE]]
    /\ linked' = [linked EXCEPT ![m] = @ \cup {u}]

(* onParticipantJoined, onParticipantLeft *)
Heard(n) == IF n = NoCount THEN n ELSE n + 1
Missed(n) == IF n \in {NoCount, 0} THEN n ELSE n - 1

(* Somebody comes into the room; the tabs there hear of it. *)
Comes(u, mine) ==
    LET m == tab[u].m IN
    /\ Acts /\ m # NoMeeting /\ ~tab[u].in
    /\ tab' = [v \in Users |->
          CASE v = u -> mine
            [] v \in InRoom(m) -> [tab[v] EXCEPT !.alone = NoTime, !.count = Heard(@)]
            [] OTHER -> tab[v]]
    /\ entered' = [entered EXCEPT ![m] = now]
    /\ left' = [left EXCEPT ![m] = Occupied]
    /\ UNCHANGED <<now, docVars, posts, blind, run, looked>>

(* onConferenceJoined, of a script that has hooked the conference: the tab *)
(* takes itself for alone, says so to the messenger, and hears of the      *)
(* people who are there afterwards.                                        *)
Enter(u) ==
    LET others == InRoom(tab[u].m) IN
    /\ Comes(u, [tab[u] EXCEPT !.in = TRUE, !.count = Cardinality(others),
                               !.alone = IF others = {} THEN now ELSE NoTime])
    /\ pending' = [pending EXCEPT ![u] = tab[u].m]
    /\ UNCHANGED world

(* A tab may be in the room before the script, which looks for the         *)
(* conference every 1.5 seconds, finds it.                                 *)
EnterUnhooked(u) ==
    /\ Calling("late")
    /\ Comes(u, [tab[u] EXCEPT !.in = TRUE])
    /\ UNCHANGED pending

(* hookConferenceLeave on a conference that was joined: the tab counts     *)
(* from zero, and never hears of those who came before.                    *)
Hook(u) ==
    /\ tab[u].m # NoMeeting /\ tab[u].in /\ ~Hooked(u)
    /\ tab' = [tab EXCEPT ![u] = [@ EXCEPT !.count = 0, !.alone = now]]
    /\ pending' = [pending EXCEPT ![u] = tab[u].m]
    /\ blind' = IF Others(u) = {} THEN blind ELSE blind \cup {tab[u].m}
    /\ UNCHANGED <<now, world, docVars, posts, entered, left, run, looked>>

(* Somebody leaves: a tab that now counts nobody tells the messenger.      *)
Gone(u, asks) ==
    LET m == tab[u].m
        alone == {v \in Others(u) : Missed(tab[v].count) = 0}
    IN  /\ tab' = [v \in Users |->
              CASE v = u -> NoTab
                [] v \in Others(u) ->
                       [tab[v] EXCEPT !.count = Missed(@),
                                      !.alone = IF v \in alone THEN now ELSE @]
                [] OTHER -> tab[v]]
        /\ pending' = [v \in Users |->
              CASE v = u /\ asks -> NoMeeting
                [] v \in alone -> m
                [] OTHER -> pending[v]]
        /\ left' = IF ~tab[u].in \/ Others(u) # {} THEN left
                   ELSE [left EXCEPT ![m] = [at |-> now, alone |->
                            tab[u].alone # NoTime /\ tab[u].told > tab[u].alone]]
        /\ UNCHANGED <<entered, blind>>

(* isLastParticipantLeaving *)
Last(u) == tab[u].count = 0

(* Mutant of Leave: the tab asks for the end whoever else is there. *)
MutLeave(u) ==
    /\ Acts /\ tab[u].m # NoMeeting
    /\ Gone(u, TRUE)
    /\ posts' = posts \cup ({"tab", "return"} \X {u} \X {tab[u].m})
    /\ UNCHANGED <<now, world, docVars, run, looked>>

(* The user hangs up or closes the tab.  A tab that counts nobody else     *)
(* asks for the end and tells the messenger, which asks again; a messenger *)
(* that watches the tab asks in any case.                                  *)
Leave(u) ==
    /\ Acts /\ tab[u].m # NoMeeting
    /\ LET returns == Last(u) \/ tab[u].watched
           kinds == {k \in {"tab", "return"} : IF k = "tab" THEN Last(u) ELSE returns}
       IN  /\ Gone(u, returns)
           /\ posts' = posts \cup (kinds \X {u} \X {tab[u].m})
    /\ UNCHANGED <<now, world, docVars, run, looked>>

(* The browser is killed, tab and messenger. *)
Vanish(u) ==
    /\ Acts /\ tab[u].m # NoMeeting
    /\ Calling("vanish")
    /\ Gone(u, TRUE)
    /\ UNCHANGED <<now, docVars, posts, run, looked>>

(* useEndMeetingOnReturn: a messenger that is loaded again asks for the    *)
(* end of the meeting it was told somebody is alone in.                    *)
Reload(u) ==
    /\ Acts /\ pending[u] # NoMeeting
    /\ Calling("reload")
    /\ posts' = posts \cup {<<"return", u, pending[u]>>}
    /\ pending' = [pending EXCEPT ![u] = NoMeeting]
    /\ tab' = [tab EXCEPT ![u].watched = FALSE]
    /\ UNCHANGED <<now, docVars, entered, left, blind, run, looked>>

(* A request that never reaches the backend. *)
PostLost ==
    /\ Calling("lost")
    /\ \E p \in posts : posts' = posts \ {p}
    /\ UNCHANGED <<now, docVars, tab, pending, entered, left, blind, run, looked>>

(* postHeartbeat: the first report of a tab is sent before it has heard of *)
(* anybody.                                                                *)
Reported(u) == IF tab[u].beat = NoTime THEN 0 ELSE tab[u].count

(* A report that fails is dropped, and a tab in the background is          *)
(* throttled: the backend hears nothing until the next one is due.         *)
BeatLost(u) ==
    /\ "silence" \in Calls
    /\ BeatDue(u)
    /\ tab' = [tab EXCEPT ![u].beat = now]
    /\ UNCHANGED <<now, world, docVars, pending, posts, entered, left, blind, run, looked>>

RoomStep ==
    \/ \E u \in Users : \/ Enter(u) \/ EnterUnhooked(u) \/ Hook(u)
                        \/ Leave(u) \/ Vanish(u) \/ Reload(u) \/ BeatLost(u)
    \/ PostLost
=============================================================================
