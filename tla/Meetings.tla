------------------------------ MODULE Meetings ------------------------------
(***************************************************************************)
(* The handlers of meeting.controller.ts on the meetings of one chat.      *)
(* Each reads a document, decides, and saves what it changed; others work  *)
(* in between.                                                             *)
(***************************************************************************)
EXTENDS MeetingRoom, MeetingRoles

(* A request on an active document; one that is over age is ended first,   *)
(* and the request refused.                                                *)
Opening(s, l, u, v, m) ==
    /\ Acts /\ Free(s)
    /\ meeting[m].st = "active"
    /\ Reads(s, IF Stale(meeting[m]) THEN "expire" ELSE l, u, v, m)
    /\ UNCHANGED <<now, docVars, roomVars, looked>>

Expire(s) ==
    /\ At(s, "expire")
    /\ Ended({run[s].m})
    /\ Finish(s)
    /\ UNCHANGED <<now, world, invited, granted, linked, roomVars, looked>>

-----------------------------------------------------------------------------
(* startMeeting; unless the environment has them do so, no two people      *)
(* start at once.                                                          *)

StartLabels == {"start.find", "start.expire", "start.close", "start.closed",
                "start.create"}

(* A person opens one meeting tab at a time, and waits for its link. *)
TabLabels == {"join"} \cup StartLabels
AsksForTab(u) ==
    tab[u].m = NoMeeting /\ \A z \in Slots : run[z].at \in TabLabels => run[z].u # u

Active == {m \in Meetings : meeting[m].st = "active"}
Newest == {m \in Active : \A n \in Active : meeting[n].start <= meeting[m].start}

(* The document of the next meeting; an environment bounds their number. *)
Unused ==
    LET free == {m \in Meetings : meeting[m].st = "none"}
    IN  {m \in free : /\ m = CHOOSE n \in free : TRUE
                      /\ Cardinality(Meetings \ free) < Chat.most}

Start(s, u) ==
    /\ Acts /\ Free(s)
    /\ AsksForTab(u)
    /\ u \in Chat.members
    /\ Active # {} \/ Unused # {}
    /\ "double" \in Calls \/ \A z \in Slots : run[z].at \notin StartLabels
    /\ Calling("start")
    /\ run' = [run EXCEPT ![s] = [Idle EXCEPT !.at = "start.find", !.u = u]]
    /\ UNCHANGED <<now, docVars, roomVars, looked>>

(* canStartDirectMessageCall, canStartGroupMeeting *)
StartsAnew(s) ==
    IF run[s].u \in Chat.starters THEN Goto(s, "start.close") ELSE Finish(s)

StartFind(s) ==
    /\ At(s, "start.find")
    /\ \/ Active = {} /\ StartsAnew(s)
       \/ \E m \in Newest :
             CASE Stale(meeting[m]) -> Reads(s, "start.expire", run[s].u, NoOne, m)
               [] ~Stale(meeting[m]) /\ MayJoin(meeting[m], run[s].u) ->
                      Reads(s, "join", run[s].u, NoOne, m)
               [] OTHER -> Finish(s)
    /\ UNCHANGED <<now, world, docVars, roomVars, looked>>

StartExpire(s) ==
    /\ At(s, "start.expire")
    /\ Ended({run[s].m})
    /\ StartsAnew(s)
    /\ UNCHANGED <<now, world, invited, granted, linked, roomVars, looked>>

(* closeActiveMeetingsForScope *)
StartClose(s) ==
    /\ At(s, "start.close")
    /\ run' = [run EXCEPT ![s].ms = Active,
                          ![s].at = IF Active = {} THEN "start.create" ELSE "start.closed"]
    /\ UNCHANGED <<now, world, docVars, roomVars, looked>>

StartClosed(s) ==
    /\ At(s, "start.closed")
    /\ Ended(run[s].ms)
    /\ Goto(s, "start.create")
    /\ UNCHANGED <<now, world, invited, granted, linked, roomVars, looked>>

StartCreate(s) ==
    /\ At(s, "start.create")
    /\ \E m \in Unused :
          /\ meeting' = [meeting EXCEPT ![m] = [NoDoc EXCEPT !.st = "active",
                 !.by = run[s].u, !.start = now, !.joined = {run[s].u}]]
          /\ Opens(run[s].u, m)
    /\ Finish(s)
    /\ UNCHANGED <<now, world, invited, granted, pending, posts, entered, left, blind,
                   looked>>

-----------------------------------------------------------------------------
(* getMeetingJoinInfo, and joinMeetingFromGuestInvite for anybody who was  *)
(* given the link.                                                         *)

JoinByLink(s, u, m) ==
    /\ AsksForTab(u)
    /\ Stale(meeting[m]) \/ MayJoin(meeting[m], u)
    /\ Calling("join")
    /\ Opening(s, "join", u, NoOne, m)

JoinByInvite(s, u, m) ==
    /\ AsksForTab(u)
    /\ now < invited[m]
    /\ Stale(meeting[m]) \/ u \notin meeting[m].removed
    /\ Calling("guest")
    /\ Opening(s, "join", u, NoOne, m)

(* Mutant of Join: the whole document is written back as it was read. *)
MutJoin(s) ==
    /\ At(s, "join")
    /\ meeting' = [meeting EXCEPT ![run[s].m] =
                      [run[s].doc EXCEPT !.joined = @ \cup {run[s].u}]]
    /\ Opens(run[s].u, run[s].m)
    /\ Finish(s)
    /\ UNCHANGED <<now, world, invited, granted, pending, posts, entered, left, blind,
                   looked>>

Join(s) ==
    /\ At(s, "join")
    /\ meeting' = [meeting EXCEPT ![run[s].m].joined = @ \cup {run[s].u}]
    /\ Opens(run[s].u, run[s].m)
    /\ Finish(s)
    /\ UNCHANGED <<now, world, invited, granted, pending, posts, entered, left, blind,
                   looked>>

(* createMeetingGuestInvite; InviteFor is the time it is good for. *)
Invite(u, m) ==
    /\ Acts
    /\ Calling("invite")
    /\ meeting[m].st = "active" /\ ~Stale(meeting[m])
    /\ u \in meeting[m].joined
    /\ invited' = [invited EXCEPT ![m] = now + Chat.inviteFor]
    /\ UNCHANGED <<now, meeting, granted, linked, roomVars, run, looked>>

-----------------------------------------------------------------------------
(* endMeeting, endMeetingFromCall *)

EndByHost(s, u, m) ==
    /\ Calling("end")
    /\ \/ Stale(meeting[m])
       \/ MayJoin(meeting[m], u) /\ Moderates(meeting[m], u)
    /\ Opening(s, "end.right", u, NoOne, m)

(* A request of a tab or a messenger: who is no moderator has to have left *)
(* last, which a messenger's word alone does not show.                     *)
Refused(doc, p) ==
    \/ ~MayJoin(doc, p[2])
    \/ ~Moderates(doc, p[2]) /\ p[1] = "return" /\ ~LastReportsEmpty(doc)

EndPosted(s, p) ==
    /\ Free(s)
    /\ posts' = posts \ {p}
    /\ LET doc == meeting[p[3]]
           reads(l) == Reads(s, l, p[2], NoOne, p[3])
       IN  CASE Stale(doc) -> reads("expire")
             [] ~Stale(doc) /\ doc.st = "active" /\ ~Refused(doc, p) ->
                    reads(IF Moderates(doc, p[2]) THEN "end.right" ELSE "end.last")
             [] OTHER -> UNCHANGED run
    /\ UNCHANGED <<now, world, docVars, tab, pending, entered, left, blind, looked>>

End(s) ==
    /\ run[s].at \in {"end.right", "end.last"}
    /\ Ended({run[s].m})
    /\ Finish(s)
    /\ UNCHANGED <<now, world, invited, granted, linked, roomVars, looked>>

-----------------------------------------------------------------------------
(* meetingHeartbeat *)
Heartbeat(s, u) ==
    /\ Free(s)
    /\ BeatDue(u)
    /\ tab' = [tab EXCEPT ![u].beat = now]
    /\ IF meeting[tab[u].m].st = "ended" THEN UNCHANGED run
       ELSE run' = [run EXCEPT ![s] = [Idle EXCEPT !.at = "beat", !.u = u,
                        !.m = tab[u].m, !.remote = Reported(u)]]
    /\ UNCHANGED <<now, world, docVars, pending, posts, entered, left, blind, looked>>

(* The tab has told of those who are there, unless it had before.          *)
Tells(u, m) ==
    tab' = IF tab[u].m = m /\ tab[u].told <= (IF tab[u].alone > entered[m]
                                              THEN tab[u].alone ELSE entered[m])
           THEN [tab EXCEPT ![u].told = now] ELSE tab

SaveBeat(s) ==
    /\ At(s, "beat")
    /\ meeting' = [meeting EXCEPT ![run[s].m].beat = now,
                                  ![run[s].m].remote = run[s].remote]
    /\ Tells(run[s].u, run[s].m)
    /\ Finish(s)
    /\ UNCHANGED <<now, world, invited, granted, linked, pending, posts, entered,
                   left, blind, looked>>

(* getMeetingThread: a meeting over age or silent is ended; the silent one *)
(* only after a second look at whether it is still active.                 *)
Look(s, m) ==
    /\ "poll" \in Calls
    /\ m \notin looked
    /\ looked' = looked \cup {m}
    /\ Acts /\ Free(s)
    /\ meeting[m].st = "active"
    /\ CASE Stale(meeting[m]) -> Reads(s, "expire", NoOne, NoOne, m)
         [] ~Stale(meeting[m]) /\ Silent(meeting[m]) ->
                Reads(s, "silent", NoOne, NoOne, m)
         [] OTHER -> UNCHANGED run
    /\ UNCHANGED <<now, world, docVars, roomVars>>

LookAgain(s) ==
    /\ At(s, "silent")
    /\ IF meeting[run[s].m].st = "active" THEN Goto(s, "end.silent") ELSE Finish(s)
    /\ UNCHANGED <<now, world, docVars, roomVars, looked>>

EndSilent(s) ==
    /\ At(s, "end.silent")
    /\ Ended({run[s].m})
    /\ Finish(s)
    /\ UNCHANGED <<now, world, invited, granted, linked, roomVars, looked>>

-----------------------------------------------------------------------------
Init ==
    /\ \E e \in Environments : world = [env |-> e, calls |-> 0]
    /\ now = 0
    /\ meeting = [m \in Meetings |-> NoDoc]
    /\ invited = [m \in Meetings |-> NoTime]
    /\ granted = [m \in Meetings |-> {}]
    /\ linked = [m \in Meetings |-> {}]
    /\ tab = [u \in Users |-> NoTab]
    /\ pending = [u \in Users |-> NoMeeting]
    /\ posts = {}
    /\ entered = [m \in Meetings |-> NoTime]
    /\ left = [m \in Meetings |-> Occupied]
    /\ blind = {}
    /\ run = [s \in Slots |-> Idle]
    /\ looked = {}

(* A unit of time is long against a request: the clock waits for those in  *)
(* flight, for the reports that are due, sent or lost, for the scripts to  *)
(* hook and for the look a messenger takes at a live meeting, which        *)
(* follows its start by a unit at most.                                    *)
Clock ==
    /\ now < world.env.until
    /\ Answered
    /\ \A u \in Users : tab[u].in => Hooked(u)
    /\ "poll" \in Calls => \A m \in Active :
           m \in looked \/ meeting[m].start = now
    /\ now' = now + 1
    /\ looked' = {}
    /\ UNCHANGED <<world, docVars, roomVars, run>>

(* A restart of the backend. *)
Crash ==
    /\ ~Quiet
    /\ Calling("crash")
    /\ run' = [s \in Slots |-> Idle]
    /\ UNCHANGED <<now, docVars, roomVars, looked>>

RunStep(s) ==
    \/ \E u \in Users : Start(s, u) \/ Heartbeat(s, u)
    \/ \E u \in Users, m \in Meetings :
          JoinByLink(s, u, m) \/ JoinByInvite(s, u, m) \/ EndByHost(s, u, m)
    \/ \E p \in posts : EndPosted(s, p)
    \/ \E m \in Meetings : Look(s, m)
    \/ StartFind(s) \/ StartExpire(s) \/ StartClose(s) \/ StartClosed(s)
    \/ StartCreate(s) \/ Join(s) \/ End(s) \/ Expire(s) \/ SaveBeat(s)
    \/ LookAgain(s) \/ EndSilent(s)

Next ==
    \/ \E s \in Slots : RunStep(s) \/ RoleStep(s)
    \/ RoomStep
    \/ \E u \in Users, m \in Meetings : Invite(u, m)
    \/ Clock
    \/ Crash

Spec == Init /\ [][Next]_vars

-----------------------------------------------------------------------------
Labels == {"idle", "expire", "join", "end.right", "end.last", "beat", "silent",
           "end.silent"} \cup StartLabels \cup RoleLabels

(* The variables have their types. *)
TypeOK ==
    /\ now \in 0..Horizon
    /\ world \in [env: Environments, calls: Nat]
    /\ meeting \in [Meetings -> Doc]
    /\ invited \in [Meetings -> Int]
    /\ granted \in [Meetings -> SUBSET Users]
    /\ linked \in [Meetings -> SUBSET Users]
    /\ tab \in [Users -> Tab]
    /\ pending \in [Users -> Meetings \cup {NoMeeting}]
    /\ posts \subseteq {"tab", "return"} \X Users \X Meetings
    /\ entered \in [Meetings -> Time]
    /\ left \in [Meetings -> [at: Time, alone: BOOLEAN]]
    /\ blind \subseteq Meetings
    /\ run \in [Slots -> [at: Labels, u: Users \cup {NoOne}, v: Users \cup {NoOne},
                           m: Meetings \cup {NoMeeting}, doc: Doc, ms: SUBSET Meetings,
                           remote: Counts]]
    /\ looked \subseteq Meetings

(* A moderator may end a meeting for everybody, and so does its age.  Who  *)
(* else asks for the end, a tab that is closed, a messenger loaded again   *)
(* or the silence of the tabs, never cuts off two people once one of them  *)
(* has told the backend of the other since somebody last came in: not even *)
(* if all reports are lost from then on.  Left out are the meetings in     *)
(* which a script hooked too late to hear of everybody: its tab goes on    *)
(* taking itself for alone, and does end the meeting for the others.       *)
NobodyCutOff ==
    [][\A m \in Meetings, s \in Slots :
          /\ meeting[m].st = "active" /\ meeting'[m].st = "ended"
          /\ run[s].m = m /\ m \notin blind
          /\ run[s].at \in {"end.last", "end.silent"} /\ run'[s].at = "idle"
          => \/ Cardinality(InRoom(m)) <= 1
             \/ \A u \in InRoom(m) : tab[u].told \notin (entered[m] + 1)..(now - 1)]_vars

(* Whoever is no moderator ends a meeting for themselves alone: a meeting  *)
(* two others are in is "still in progress" (meetingUserFacingCopy.ts) and *)
(* their request is refused.                                               *)
InProgressNotEnded ==
    [][\A m \in Meetings, s \in Slots :
          /\ run[s].at = "end.last" /\ run[s].m = m
          /\ meeting[m].st = "active" /\ meeting'[m].st = "ended"
          => Cardinality(InRoom(m)) <= 1]_vars

(* While somebody has the chat open, no meeting outlives its age; and one  *)
(* whose last guest had been alone long enough to report it is over soon,  *)
(* even if nobody asked for its end.                                       *)
AbandonedEnds ==
    "poll" \in Calls => \A m \in Active :
        /\ now <= meeting[m].start + MaxActive + 1
        /\ InRoom(m) = {} /\ left[m].alone => now <= left[m].at + Fresh + 1

(* Requests that overlap lose nothing of each other's work: who got a link *)
(* is among the participants, who was promoted and not demoted since is a  *)
(* delegate, and nobody else is; unless two change roles at once.          *)
NothingLost ==
    Quiet /\ "double" \notin Calls => \A m \in Meetings :
        linked[m] \subseteq meeting[m].joined /\ meeting[m].delegates = granted[m]
=============================================================================
