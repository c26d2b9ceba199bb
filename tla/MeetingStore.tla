---------------------------- MODULE MeetingStore ----------------------------
(***************************************************************************)
(* The video meetings of one chat: the MeetingThread documents, the room   *)
(* as the tabs of its people see it, and the requests under way.           *)
(***************************************************************************)
EXTENDS Integers, FiniteSets

CONSTANTS
    Users,
    Meetings,      \* ids of MeetingThread documents
    Slots,         \* requests that can be in flight together
    NoOne, NoMeeting,
    Beat,          \* a tab reports itself every Beat units of time
    Fresh,         \* MEETING_HEARTBEAT_STALE_MS
    MaxActive,     \* MEETING_MAX_ACTIVE_MS
    Horizon,       \* bound on the clock
    Environments   \* the chat and what the program may meet

ASSUME MeetingAssumption ==
    /\ NoOne \notin Users /\ NoMeeting \notin Meetings
    /\ {Beat, Fresh, MaxActive} \subseteq Nat \ {0}
    /\ Beat < Fresh /\ Fresh < MaxActive
    /\ Horizon \in Nat
    /\ IsFiniteSet(Users)
    /\ \A e \in Environments :
          /\ e.starters \subseteq e.members /\ e.members \subseteq Users
          /\ {e.maxCalls, e.most, e.inviteFor} \subseteq Nat
          /\ e.until \in 0..Horizon

VARIABLES
    now,
    world,      \* the environment and the calls made so far
    meeting,    \* the documents
    invited,    \* invited[m]: when the guest invite of m expires
    tab,        \* tab[u]: the meeting tab of user u, see below
    pending,    \* wlPendingEndMeeting in the messenger of u
    posts,      \* end requests that tabs and messengers have sent
    run,        \* the requests in flight
    looked,     \* the meetings a messenger looked at in this unit of time
    granted,    \* granted[m]: the delegates, going by the answers given
    linked,     \* linked[m]: who was given a link to the room
    entered,    \* entered[m]: when somebody last came into the room
    left,       \* left[m]: when the room emptied, and how
    blind       \* the meetings in which a tab never heard of somebody

docVars == <<meeting, invited, granted, linked>>
roomVars == <<tab, pending, posts, entered, left, blind>>
vars == <<now, world, docVars, roomVars, run, looked>>

Calls == world.env.calls
Chat == world.env

NoTime == -1
Time == {NoTime} \cup 0..Horizon
NoCount == -1
Counts == {NoCount} \cup Nat

Doc == [st: {"none", "active", "ended"}, by: Users \cup {NoOne}, start: Time,
        joined: SUBSET Users, removed: SUBSET Users, delegates: SUBSET Users,
        beat: Time, remote: Counts]
NoDoc == [st |-> "none", by |-> NoOne, start |-> NoTime, joined |-> {},
          removed |-> {}, delegates |-> {}, beat |-> NoTime, remote |-> NoCount]

(* A tab: whether it is in the room or still about to join, remoteJoinCount *)
(* (none before the script hooks the conference), since when it takes      *)
(* itself for alone, its last report, and whether the messenger that       *)
(* opened it still watches it.  For the properties alone, told: when a     *)
(* report of it on the present company was first saved.                    *)
Tab == [m: Meetings \cup {NoMeeting}, in: BOOLEAN, count: Counts, alone: Time,
        beat: Time, told: Time, watched: BOOLEAN]
NoTab == [m |-> NoMeeting, in |-> FALSE, count |-> NoCount, alone |-> NoTime,
          beat |-> NoTime, told |-> NoTime, watched |-> FALSE]

(* The people Jitsi has in the room, and the others there. *)
InRoom(m) == {u \in Users : tab[u].m = m /\ tab[u].in}
Others(u) == IF tab[u].in THEN InRoom(tab[u].m) \ {u} ELSE {}
Hooked(u) == tab[u].count # NoCount

Occupied == [at |-> NoTime, alone |-> FALSE]

(* A request: who makes it, about whom, and the document it read. *)
Idle == [at |-> "idle", u |-> NoOne, v |-> NoOne, m |-> NoMeeting, doc |-> NoDoc,
         ms |-> {}, remote |-> NoCount]

At(s, l) == run[s].at = l
Finish(s) == run' = [run EXCEPT ![s] = Idle]
Goto(s, l) == run' = [run EXCEPT ![s].at = l]
Reads(s, l, u, v, m) ==
    run' = [run EXCEPT ![s] = [Idle EXCEPT !.at = l, !.u = u, !.v = v, !.m = m,
                                           !.doc = meeting[m]]]
Quiet == \A s \in Slots : At(s, "idle")

(* startHeartbeat: a report when the tab enters, then one every interval.  *)
BeatDue(u) == Hooked(u) /\ (tab[u].beat = NoTime \/ now - tab[u].beat >= Beat)

(* Requests overlap where the environment says so; elsewhere one is over   *)
(* before the next begins, and people act when all requests are answered.  *)
Free(s) == At(s, "idle") /\ ("overlap" \in Calls \/ Quiet)
Answered == Quiet /\ posts = {} /\ \A u \in Users : ~BeatDue(u)
Acts == "overlap" \in Calls \/ Answered

Calling(k) ==
    /\ k \in Calls
    /\ world.calls < world.env.maxCalls
    /\ world' = [world EXCEPT !.calls = @ + 1]

-----------------------------------------------------------------------------
(* Roles and the state of a meeting, on a document as it was read. *)

(* isCanonicalMeetingModerator: the starter of a direct call, the admin of *)
(* a group.                                                                *)
Host(doc) == IF Chat.direct THEN doc.by ELSE Chat.admin
Moderates(doc, u) == u = Host(doc) \/ u \in doc.delegates

(* canUserJoinMeeting and isRemovedFromMeeting *)
MayJoin(doc, u) == u \in Chat.members /\ u \notin doc.removed

Stale(doc) == doc.st = "active" /\ now - doc.start > MaxActive

(* canEndMeetingAsLastParticipant *)
LastReportsEmpty(doc) ==
    doc.beat # NoTime /\ now - doc.beat <= Fresh /\ doc.remote = 0

(* Mutant of Silent: a count of zero is taken for a missing one. *)
MutSilent(doc) ==
    /\ doc.st = "active"
    /\ doc.beat # NoTime /\ now - doc.beat > Fresh
    /\ doc.remote > 0

(* reconcileStaleActiveMeetingFromHeartbeat *)
Silent(doc) ==
    /\ doc.st = "active"
    /\ doc.beat # NoTime /\ now - doc.beat > Fresh
    /\ doc.remote = 0

(* A save writes the paths that were changed, on the document of by then.  *)
Ended(ms) ==
    meeting' = [m \in Meetings |->
        IF m \in ms THEN [meeting[m] EXCEPT !.st = "ended"] ELSE meeting[m]]
=============================================================================
