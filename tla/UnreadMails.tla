---------------------------- MODULE UnreadMails -----------------------------
(***************************************************************************)
(* sweepUnreadMessageEmails: somebody who has not opened the chat for a    *)
(* while and has unread messages is told by mail.  The sweep decides on    *)
(* what it read when its tick began, asks Rocket.Chat, and claims the mail *)
(* on the person as they are by then.                                      *)
(***************************************************************************)
EXTENDS SweepTimer

CONSTANTS
    Users,          \* with an address, not blocked, mails wanted
    Rooms,
    Idle, Retry,    \* UNREAD_EMAIL_IDLE_MS, UNREAD_EMAIL_RETRY_MS
    MaxFailures     \* MAX_CONSECUTIVE_RC_FAILURES

ASSUME UnreadAssumption ==
    /\ Retry \in Nat /\ Idle \in Nat /\ Retry < Idle
    /\ MaxFailures \in Nat \ {0}
    /\ \A e \in Environments : e.chats \subseteq Users \X Rooms

(* The users of the environment with the rooms of each. *)
Chats == world.env.chats
People == {c[1] : c \in Chats}

(* Bound on messages and visits. *)
Calling ==
    /\ world.calls < world.env.maxCalls
    /\ world' = [world EXCEPT !.calls = @ + 1]

VARIABLES
    user,      \* the marks in the User document, see below
    rooms,     \* rooms[u][r]: the lastMessageAt of the room
    unread,    \* the rooms in which Rocket.Chat counts unread messages
    started,   \* AppState.unreadEmailSweepActivatedAt
    swept,     \* when the last tick began
    sweep,     \* the tick in flight: the flag "sweeping" allows one
    owed       \* when messages arrived that are unread and untold

unreadVars == <<user, rooms, unread, started, swept, sweep, owed>>

(* chatLastSeenAt and unreadEmail{Sent,Checked,CountdownFrom,Failed}At *)
Marks == [seen: Time, sent: Time, checked: Time, countdown: Time, failed: Time]
Blank == [seen |-> NoTime, sent |-> NoTime, checked |-> NoTime,
          countdown |-> NoTime, failed |-> NoTime]

(* todo: the candidates with their marks as the tick read them; who, from: *)
(* the one at work and the start of their countdown.                       *)
SweepLabels ==
    {"idle", "users", "countdown", "count", "checked", "failed", "claim", "mail"}
NoSweep == [at |-> "idle", now |-> NoTime, todo |-> {}, read |-> [u \in Users |-> Blank],
            who |-> {}, from |-> NoTime, failures |-> 0]

UnreadInit ==
    /\ user = [u \in Users |-> Blank]
    /\ rooms = [u \in Users |-> [r \in Rooms |-> NoTime]]
    /\ unread = [u \in Users |-> {}]
    /\ started = NoTime
    /\ swept = NoTime
    /\ sweep = NoSweep
    /\ owed = [u \in Users |-> {}]

Latest(times) == CHOOSE t \in times : \A v \in times : v <= t
Earliest(times) == CHOOSE t \in times : \A v \in times : t <= v

-----------------------------------------------------------------------------
(* A message arrives.  No message and no visit falls on the very instant a *)
(* tick begins.                                                            *)
Message(u, r) ==
    /\ <<u, r>> \in Chats
    /\ Calling
    /\ now # swept
    /\ rooms' = [rooms EXCEPT ![u][r] = now]
    /\ unread' = [unread EXCEPT ![u] = @ \cup {r}]
    /\ owed' = [owed EXCEPT ![u] = @ \cup {now}]
    /\ UNCHANGED <<now, user, started, swept, sweep>>

(* recordChatSeen: the user opens the chat, and reads everything or not;   *)
(* a second visit within the throttle is not written down.                 *)
Visit(u) ==
    /\ u \in People
    /\ Calling
    /\ now # swept
    /\ user[u].seen < now
    /\ user' = [user EXCEPT ![u].seen = now]
    /\ \/ UNCHANGED <<unread, owed>>
       \/ unread' = [unread EXCEPT ![u] = {}] /\ owed' = [owed EXCEPT ![u] = {}]
    /\ UNCHANGED <<now, rooms, started, swept, sweep>>

-----------------------------------------------------------------------------
(* decideUnreadEmail, on the marks read and the rooms' last messages. *)

Wait == [do |-> "wait", from |-> NoTime]
Check == [do |-> "check", from |-> NoTime]

(* Mutant of Decide: messages from before the last visit do not count.     *)
MutDecide(marks, activity, at, since) ==
    LET absent  == Latest({marks.seen, since})
        this(t) == IF t >= absent THEN t ELSE NoTime
        sent    == this(marks.sent)
        checked == this(marks.checked)
        floor   == Latest({absent, sent, checked})
        newer   == {t \in activity : t > floor}
        ready   == /\ marks.failed = NoTime \/ at - marks.failed >= Retry
                   /\ at - absent >= Idle
        elapsed(t) == at - t >= Idle
    IN  IF ~ready THEN Wait
        ELSE IF sent = NoTime THEN IF newer # {} THEN Check ELSE Wait
        ELSE IF marks.countdown > floor
             THEN IF elapsed(marks.countdown) THEN Check ELSE Wait
        ELSE IF newer = {} THEN Wait
        ELSE IF elapsed(Earliest(newer)) THEN Check
        ELSE [do |-> "countdown", from |-> Earliest(newer)]

Decide(marks, activity, at, since) ==
    LET absent  == Latest({marks.seen, since})
        this(t) == IF t >= absent THEN t ELSE NoTime
        sent    == this(marks.sent)
        checked == this(marks.checked)
        floor   == Latest({sent, checked})
        newer   == {t \in activity : t > floor}
        ready   == /\ marks.failed = NoTime \/ at - marks.failed >= Retry
                   /\ at - absent >= Idle
        elapsed(t) == at - t >= Idle
    IN  IF ~ready THEN Wait
        ELSE IF sent = NoTime THEN IF newer # {} THEN Check ELSE Wait
        ELSE IF marks.countdown > floor
             THEN IF elapsed(marks.countdown) THEN Check ELSE Wait
        ELSE IF newer = {} THEN Wait
        ELSE IF elapsed(Earliest(newer)) THEN Check
        ELSE [do |-> "countdown", from |-> Earliest(newer)]

-----------------------------------------------------------------------------
(* The tick.  Its "now" is fixed when it begins. *)

Candidates(at) ==
    {u \in People : user[u].seen = NoTime \/ user[u].seen <= at - Idle}

Sweep ==
    /\ "unread" \in Calls
    /\ sweep.at = "idle"
    /\ swept < now
    /\ swept' = now
    /\ started' = IF started = NoTime THEN now ELSE started
    /\ sweep' = IF now - started' < Idle THEN sweep
                ELSE [NoSweep EXCEPT !.at = "users", !.now = now,
                          !.todo = Candidates(now), !.read = user]
    /\ UNCHANGED <<now, world, user, rooms, unread, owed>>

Done == sweep' = [sweep EXCEPT !.at = "users", !.who = {}, !.from = NoTime]
Doing(l) == sweep' = [sweep EXCEPT !.at = l]

Stamp(u, mark) ==
    user' = [user EXCEPT ![u][mark] = sweep.now]

(* loadUserRooms and the decision. *)
SweepUser ==
    /\ sweep.at = "users"
    /\ \E u \in sweep.todo :
          LET activity == {rooms[u][r] : r \in Rooms} \ {NoTime}
              d == Decide(sweep.read[u], activity, sweep.now, started)
          IN  sweep' = [sweep EXCEPT !.todo = @ \ {u},
                  !.who = IF d.do = "wait" THEN {} ELSE {u}, !.from = d.from,
                  !.at = CASE d.do = "wait"      -> "users"
                           [] d.do = "countdown" -> "countdown"
                           [] d.do = "check"     -> "count"]
    /\ UNCHANGED <<now, world, user, rooms, unread, started, swept, owed>>

SweepEnds ==
    /\ sweep.at = "users"
    /\ sweep.todo = {}
    /\ sweep' = NoSweep
    /\ UNCHANGED <<now, world, user, rooms, unread, started, swept, owed>>

StartCountdown ==
    /\ sweep.at = "countdown"
    /\ \E u \in sweep.who : user' = [user EXCEPT ![u].countdown = sweep.from]
    /\ Done
    /\ UNCHANGED <<now, world, rooms, unread, started, swept, owed>>

(* Rocket.Chat answers. *)
CountUnread ==
    /\ sweep.at = "count"
    /\ \E u \in sweep.who :
          sweep' = [sweep EXCEPT !.failures = 0,
                        !.at = IF unread[u] = {} THEN "checked" ELSE "claim"]
    /\ UNCHANGED <<now, world, user, rooms, unread, started, swept, owed>>

CountFails ==
    /\ sweep.at = "count"
    /\ Fault("rocketchat")
    /\ Doing("failed")
    /\ UNCHANGED <<now, user, rooms, unread, started, swept, owed>>

(* After too many failures in a row the tick gives up. *)
MarkFailed ==
    /\ sweep.at = "failed"
    /\ \E u \in sweep.who : Stamp(u, "failed")
    /\ sweep' = IF sweep.failures + 1 >= MaxFailures THEN NoSweep
                ELSE [sweep EXCEPT !.at = "users", !.who = {}, !.from = NoTime,
                                   !.failures = @ + 1]
    /\ UNCHANGED <<now, world, rooms, unread, started, swept, owed>>

MarkChecked ==
    /\ sweep.at = "checked"
    /\ \E u \in sweep.who : Stamp(u, "checked")
    /\ Done
    /\ UNCHANGED <<now, world, rooms, unread, started, swept, owed>>

(* Mutant of ClaimMail: the claim does not look at chatLastSeenAt. *)
MutClaimMail ==
    /\ sweep.at = "claim"
    /\ \E u \in sweep.who :
          IF user[u].sent = sweep.read[u].sent
          THEN /\ user' = [user EXCEPT ![u].sent = sweep.now,
                                       ![u].checked = sweep.now]
               /\ Doing("mail")
          ELSE Done /\ UNCHANGED user
    /\ UNCHANGED <<now, world, rooms, unread, started, swept, owed>>

(* The claim: unless the user was back, or mailed, since the tick read.    *)
ClaimMail ==
    /\ sweep.at = "claim"
    /\ \E u \in sweep.who :
          IF /\ user[u].seen = sweep.read[u].seen
             /\ user[u].sent = sweep.read[u].sent
          THEN /\ user' = [user EXCEPT ![u].sent = sweep.now,
                                       ![u].checked = sweep.now]
               /\ Doing("mail")
          ELSE Done /\ UNCHANGED user
    /\ UNCHANGED <<now, world, rooms, unread, started, swept, owed>>

SendMail ==
    /\ sweep.at = "mail"
    /\ owed' = [u \in Users |-> IF u \in sweep.who
                    THEN {t \in owed[u] : t > sweep.now} ELSE owed[u]]
    /\ Done
    /\ UNCHANGED <<now, world, user, rooms, unread, started, swept>>

SendFails ==
    /\ sweep.at = "mail"
    /\ Fault("send")
    /\ Done
    /\ UNCHANGED <<now, user, rooms, unread, started, swept, owed>>

UnreadStep ==
    \/ \E u \in Users : Visit(u) \/ \E r \in Rooms : Message(u, r)
    \/ Sweep \/ SweepUser \/ SweepEnds \/ StartCountdown \/ CountUnread
    \/ CountFails \/ MarkFailed \/ MarkChecked \/ ClaimMail \/ SendMail
    \/ SendFails

UnreadOnTime ==
    "unread" \in Calls /\ swept # NoTime =>
        OnTime(swept) /\ (sweep.at # "idle" => now <= sweep.now)

-----------------------------------------------------------------------------
Sweeps ==
    [at: SweepLabels, now: Time, todo: SUBSET Users, read: [Users -> Marks],
     who: SUBSET Users, from: Time, failures: 0..MaxFailures]

UnreadTypeOK ==
    /\ user \in [Users -> Marks]
    /\ rooms \in [Users -> [Rooms -> Time]]
    /\ unread \in [Users -> SUBSET Rooms]
    /\ started \in Time /\ swept \in Time
    /\ sweep \in Sweeps
    /\ owed \in [Users -> SUBSET Time]

(* Only who has been away for the whole idle time gets a mail, whatever    *)
(* they do while the tick works; and in one absence never two mails within *)
(* the idle time.                                                          *)
MailsAreRare ==
    [][\A u \in Users : user'[u].sent # user[u].sent =>
          LET at == user'[u].sent IN
          /\ at - Latest({user[u].seen, started}) >= Idle
          /\ user[u].sent >= Latest({user[u].seen, started}) =>
                 at - user[u].sent >= Idle]_unreadVars

(* While Rocket.Chat answers, nobody who stays away is left untold: a mail *)
(* goes out within the idle time after a message, or after the last visit, *)
(* give or take two ticks: one to see the message, and one because a       *)
(* second message in the room hides when the first arrived.                *)
ToldInTime ==
    ({"rocketchat", "send", "crash"} \cap Faults = {} /\ started # NoTime) =>
        \A u \in Users : \A t \in owed[u] :
            now <= Latest({t, user[u].seen, started}) + Idle + 2 * Interval
=============================================================================
