-------------------------- MODULE MailSweepsProofs --------------------------
(***************************************************************************)
(* What the mail sweeps promise for every set of sessions, users and ticks *)
(* in flight, and every value of their windows.                            *)
(***************************************************************************)
EXTENDS MailSweeps, WellFoundedInduction, TLAPS

-----------------------------------------------------------------------------
(* Of two times the later one; of some times since 0 the earliest. *)

LEMMA LatestOfTwo ==
    ASSUME NEW a \in Int, NEW b \in Int
    PROVE  /\ Latest({a, b}) \in {a, b}
           /\ a <= Latest({a, b}) /\ b <= Latest({a, b})
<1>1. CASE a <= b
  <2>1. \A v \in {a, b} : v <= b
    BY <1>1
  <2> QED
    BY <2>1 DEF Latest
<1>2. CASE b <= a
  <2>1. \A v \in {a, b} : v <= a
    BY <1>2
  <2> QED
    BY <2>1 DEF Latest
<1> QED
  BY <1>1, <1>2

LEMMA EarliestOfSome ==
    ASSUME NEW T, T \subseteq Nat, T # {}
    PROVE  /\ Earliest(T) \in T
           /\ \A t \in T : Earliest(T) <= t
<1> DEFINE Less == {p \in Nat \X Nat : p[1] < p[2]}
<1>1. IsWellFoundedOn(Less, Nat)
  BY NatLessThanWellFounded DEF OpToRel
<1>2. PICK m \in T : \A t \in T : <<t, m>> \notin Less
  <2> HIDE DEF Less
  <2> QED
    BY <1>1, WFMin
<1>3. ASSUME NEW t \in T PROVE m <= t
  <2>1. <<t, m>> \notin Less /\ t \in Nat /\ m \in Nat
    BY <1>2
  <2> QED
    BY <2>1
<1> QED
  BY <1>3 DEF Earliest

-----------------------------------------------------------------------------
(* Types.  Every call and every fault keeps the environment. *)
WorldOK == world \in [env: Environments, calls: Nat, faults: Nat]

LEMMA FaultWorld == ASSUME WorldOK, NEW k, Fault(k) PROVE WorldOK'
<1>1. world' = [world EXCEPT !.faults = world.faults + 1]
  BY DEF Fault
<1> QED
  BY <1>1 DEF WorldOK

LEMMA CallWorld == WorldOK /\ Calling => WorldOK'
<1> SUFFICES ASSUME WorldOK, Calling PROVE WorldOK'
  OBVIOUS
<1>1. world' = [world EXCEPT !.calls = world.calls + 1]
  BY DEF Calling
<1> QED
  BY <1>1 DEF WorldOK

(* A tick whose record is replaced by another stays well typed. *)
LEMMA NewTick ==
    ASSUME WorldOK, ReminderTypeOK, NEW s \in Slots, NEW row \in Ticks,
           tick' = [tick EXCEPT ![s] = row],
           UNCHANGED <<now, world, session, activated, mailed>>, ticked' \in Time
    PROVE  WorldOK' /\ now' = now /\ ReminderTypeOK'
BY DEF WorldOK, ReminderTypeOK

LEMMA NewDocument ==
    ASSUME WorldOK, ReminderTypeOK, NEW g \in Sessions, NEW doc \in Documents,
           session' = [session EXCEPT ![g] = doc],
           UNCHANGED <<now, world, activated, ticked, tick, mailed>>
    PROVE  WorldOK' /\ now' = now /\ ReminderTypeOK'
BY DEF WorldOK, ReminderTypeOK

LEMMA ReminderTypes ==
    ASSUME WorldOK, now \in 0..Horizon, ReminderTypeOK, ReminderStep
    PROVE  WorldOK' /\ now' = now /\ ReminderTypeOK'
<1>a. now \in Time /\ NoTime \in Time /\ 0..Horizon \subseteq Time
  BY TimerAssumption DEF Time
<1>b. \A s \in Slots : tick[s] \in Ticks
  BY DEF ReminderTypeOK
<1>c. \A g \in Sessions : session[g] \in Documents
  BY DEF ReminderTypeOK
<1>d. activated \in Time /\ ticked \in Time
  BY DEF ReminderTypeOK
<1>e. world.env.starts \subseteq 0..Horizon
  BY ReminderAssumption DEF WorldOK
<1>1. ASSUME NEW g \in Sessions, Confirm(g) PROVE WorldOK' /\ now' = now /\ ReminderTypeOK'
  <2>1. PICK t \in world.env.starts : session' = [session EXCEPT ![g] =
            [st |-> "active", start |-> t, since |-> now, sent |-> {}]]
    BY <1>1 DEF Confirm
  <2> DEFINE doc == [st |-> "active", start |-> t, since |-> now, sent |-> {}]
  <2>2. doc \in Documents
    BY <1>a, <1>c, <1>e DEF Documents
  <2>3. session' = [session EXCEPT ![g] = doc]
    BY <2>1
  <2>4. UNCHANGED <<now, world, activated, ticked, tick, mailed>>
    BY <1>1 DEF Confirm
  <2> HIDE DEF doc
  <2> QED
    BY <2>2, <2>3, <2>4, NewDocument
<1>2. ASSUME NEW g \in Sessions, CancelSession(g) PROVE WorldOK' /\ now' = now /\ ReminderTypeOK'
  <2> DEFINE doc == [session[g] EXCEPT !.st = "cancelled"]
  <2>1. doc \in Documents
    BY <1>a, <1>c, <1>e DEF Documents
  <2>2. session' = [session EXCEPT ![g] = doc]
    BY <1>2 DEF CancelSession
  <2>3. UNCHANGED <<now, world, activated, ticked, tick, mailed>>
    BY <1>2 DEF CancelSession
  <2> HIDE DEF doc
  <2> QED
    BY <2>1, <2>2, <2>3, NewDocument
<1>3. ASSUME NEW g \in Sessions, MoveStart(g) PROVE WorldOK' /\ now' = now /\ ReminderTypeOK'
  <2>1. PICK t \in world.env.starts : session' = [session EXCEPT ![g].start = t]
    BY <1>3 DEF MoveStart
  <2> DEFINE doc == [session[g] EXCEPT !.start = t]
  <2>2. doc \in Documents
    BY <1>a, <1>c, <1>e DEF Documents
  <2>3. session' = [session EXCEPT ![g] = doc]
    BY <2>1
  <2>4. UNCHANGED <<now, world, activated, ticked, tick, mailed>>
    BY <1>3 DEF MoveStart
  <2> HIDE DEF doc
  <2> QED
    BY <2>2, <2>3, <2>4, NewDocument
<1>4. ASSUME NEW s \in Slots, Tick(s) PROVE WorldOK' /\ now' = now /\ ReminderTypeOK'
  <2> DEFINE row == [tick[s] EXCEPT !.at = "activation", !.now = now]
  <2>1. row \in Ticks
    BY <1>a, <1>b, <1>d DEF Ticks, Labels
  <2>2. tick' = [tick EXCEPT ![s] = row]
    BY <1>4 DEF Tick, Goto
  <2>3. UNCHANGED <<now, world, session, activated, mailed>> /\ ticked' \in Time
    BY <1>4, <1>a, <1>d DEF Tick
  <2> HIDE DEF row
  <2> QED
    BY <2>1, <2>2, <2>3, NewTick
<1>5. ASSUME NEW s \in Slots, ReadActivation(s) PROVE WorldOK' /\ now' = now /\ ReminderTypeOK'
  <2> DEFINE row == IF activated = NoTime THEN [tick[s] EXCEPT !.at = "activate"]
                    ELSE [tick[s] EXCEPT !.at = "find", !.notBefore = activated]
  <2>1. row \in Ticks
    BY <1>a, <1>b, <1>d DEF Ticks, Labels
  <2>2. tick' = [tick EXCEPT ![s] = row]
    BY <1>5 DEF ReadActivation, Goto
  <2>3. UNCHANGED <<now, world, session, activated, mailed>> /\ ticked' \in Time
    BY <1>5, <1>a, <1>d DEF ReadActivation
  <2> HIDE DEF row
  <2> QED
    BY <2>1, <2>2, <2>3, NewTick
<1>6. ASSUME NEW s \in Slots, Activate(s) PROVE WorldOK' /\ now' = now /\ ReminderTypeOK'
  <2> DEFINE row == [tick[s] EXCEPT !.at = "activated"]
  <2>1. row \in Ticks
    BY <1>b DEF Ticks, Labels
  <2>2. tick' = [tick EXCEPT ![s] = row]
    BY <1>6 DEF Activate, Goto
  <2>3. UNCHANGED <<now, world, session, ticked, mailed>>
    BY <1>6 DEF Activate
  <2>4. tick[s].now \in Time
    BY <1>b DEF Ticks
  <2>5. activated' \in Time
    BY <1>6, <1>d, <2>4 DEF Activate
  <2> HIDE DEF row
  <2> QED
    BY <2>1, <2>2, <2>3, <2>5 DEF ReminderTypeOK, WorldOK
<1>7. ASSUME NEW s \in Slots, FindDue(s) PROVE WorldOK' /\ now' = now /\ ReminderTypeOK'
  <2> DEFINE due ==
          {d \in Sessions \X Kinds :
               /\ Found(session[d[1]], tick[s].now)
               /\ d[2] \in Due(session[d[1]], tick[s].now, tick[s].notBefore)}
             row == [tick[s] EXCEPT !.at = "claim", !.due = due]
  <2>1. due \subseteq Sessions \X Kinds
    OBVIOUS
  <2>2. tick' = [tick EXCEPT ![s] = row]
    BY <1>7 DEF FindDue
  <2>3. UNCHANGED <<now, world, session, activated, ticked, mailed>>
    BY <1>7 DEF FindDue
  <2> HIDE DEF due
  <2>4. row \in Ticks
    BY <1>b, <2>1 DEF Ticks, Labels
  <2> HIDE DEF row
  <2> QED
    BY <2>2, <2>3, <2>4, <1>d, NewTick
<1>8. ASSUME NEW s \in Slots, Claim(s) PROVE WorldOK' /\ now' = now /\ ReminderTypeOK'
  <2>1. PICK d \in tick[s].due :
          /\ tick' = [tick EXCEPT ![s].due = @ \ {d},
                 ![s].at = IF d[2] \in session[d[1]].sent THEN @ ELSE "mail",
                 ![s].one = IF d[2] \in session[d[1]].sent THEN {} ELSE {d}]
          /\ session' = [session EXCEPT ![d[1]].sent = @ \cup {d[2]}]
    BY <1>8 DEF Claim
  <2>2. d \in Sessions \X Kinds /\ d[1] \in Sessions /\ d[2] \in Kinds
    BY <1>b DEF Ticks
  <2> DEFINE due == tick[s].due \ {d}
             l == IF d[2] \in session[d[1]].sent THEN tick[s].at ELSE "mail"
             one == IF d[2] \in session[d[1]].sent THEN {} ELSE {d}
             row == [tick[s] EXCEPT !.due = due, !.at = l, !.one = one]
             doc == [session[d[1]] EXCEPT !.sent = @ \cup {d[2]}]
  <2>3. tick' = [tick EXCEPT ![s] = row]
    BY <2>1
  <2>4. session' = [session EXCEPT ![d[1]] = doc]
    BY <2>1
  <2>5. due \subseteq Sessions \X Kinds /\ l \in Labels /\ one \subseteq Sessions \X Kinds
    BY <1>b, <2>2 DEF Ticks, Labels
  <2>6. doc \in Documents
    BY <1>c, <2>2 DEF Documents
  <2> HIDE DEF due, l, one
  <2>7. row \in Ticks
    BY <1>b, <2>5 DEF Ticks
  <2>8. UNCHANGED <<now, world, activated, ticked, mailed>>
    BY <1>8 DEF Claim
  <2> HIDE DEF row, doc
  <2> QED
    BY <2>2, <2>3, <2>4, <2>6, <2>7, <2>8 DEF ReminderTypeOK, WorldOK
<1>9. ASSUME NEW s \in Slots, TickEnds(s) PROVE WorldOK' /\ now' = now /\ ReminderTypeOK'
  <2>1. NoTick \in Ticks
    BY <1>a DEF NoTick, Ticks, Labels
  <2> QED
    BY <1>9, <1>d, <2>1, NewTick DEF TickEnds
<1>10. ASSUME NEW s \in Slots, Mail(s) PROVE WorldOK' /\ now' = now /\ ReminderTypeOK'
  <2>1. PICK d \in tick[s].one : mailed' = [mailed EXCEPT ![d[1]][d[2]] = @ + 1]
    BY <1>10 DEF Mail
  <2>2. d[1] \in Sessions /\ d[2] \in Kinds
    BY <1>b DEF Ticks
  <2>3. mailed' \in [Sessions -> [Kinds -> Nat]]
    BY <2>1, <2>2 DEF ReminderTypeOK
  <2> DEFINE row == [tick[s] EXCEPT !.at = "claim", !.one = {}]
  <2>4. row \in Ticks
    BY <1>b DEF Ticks, Labels
  <2>5. tick' = [tick EXCEPT ![s] = row]
    BY <1>10 DEF Mail
  <2>6. UNCHANGED <<now, world, session, activated, ticked>>
    BY <1>10 DEF Mail
  <2> HIDE DEF row
  <2> QED
    BY <2>3, <2>4, <2>5, <2>6 DEF ReminderTypeOK, WorldOK
<1>11. ASSUME NEW s \in Slots, MailFails(s) PROVE WorldOK' /\ now' = now /\ ReminderTypeOK'
  <2> DEFINE row == [tick[s] EXCEPT !.at = "claim", !.one = {}]
  <2>1. row \in Ticks
    BY <1>b DEF Ticks, Labels
  <2>2. tick' = [tick EXCEPT ![s] = row]
    BY <1>11 DEF MailFails
  <2>3. UNCHANGED <<now, session, activated, ticked, mailed>> /\ WorldOK'
    BY <1>11, FaultWorld DEF MailFails
  <2> HIDE DEF row
  <2> QED
    BY <2>1, <2>2, <2>3 DEF ReminderTypeOK
<1> QED
  BY <1>1, <1>2, <1>3, <1>4, <1>5, <1>6, <1>7, <1>8, <1>9, <1>10, <1>11
     DEF ReminderStep
(* The tick of the other sweep moves on, ends with one user, and stamps    *)
(* a user, with values of their types.                                     *)
LEMMA DoingType ==
    ASSUME sweep \in Sweeps
    PROVE  /\ \A l \in SweepLabels : Doing(l) => sweep' \in Sweeps
           /\ Done => sweep' \in Sweeps
           /\ NoSweep \in Sweeps
           /\ sweep.now \in Time
<1>1. ASSUME NEW l \in SweepLabels, Doing(l) PROVE sweep' \in Sweeps
  BY <1>1 DEF Doing, Sweeps
<1>2. ASSUME Done PROVE sweep' \in Sweeps
  BY <1>2 DEF Done, Sweeps, SweepLabels, Time
<1>3. [u \in Users |-> Blank] \in [Users -> Marks]
  BY DEF Blank, Marks, Time
<1>4. NoSweep \in Sweeps
  BY <1>3, UnreadAssumption DEF NoSweep, Sweeps, SweepLabels, Time
<1> QED
  BY <1>1, <1>2, <1>4 DEF Sweeps

LEMMA StampType ==
    ASSUME user \in [Users -> Marks], NEW u \in Users, NEW t \in Time
    PROVE  /\ user' = [user EXCEPT ![u].seen = t] => user' \in [Users -> Marks]
           /\ user' = [user EXCEPT ![u].countdown = t] => user' \in [Users -> Marks]
           /\ user' = [user EXCEPT ![u].failed = t] => user' \in [Users -> Marks]
           /\ user' = [user EXCEPT ![u].checked = t] => user' \in [Users -> Marks]
           /\ user' = [user EXCEPT ![u].sent = t, ![u].checked = t] =>
                  user' \in [Users -> Marks]
<1>1. ASSUME user' = [user EXCEPT ![u].seen = t] PROVE user' \in [Users -> Marks]
  <2> DEFINE marks == [user[u] EXCEPT !.seen = t]
  <2>1. marks \in Marks /\ user' = [user EXCEPT ![u] = marks]
    BY <1>1 DEF Marks
  <2> HIDE DEF marks
  <2> QED
    BY <2>1
<1>2. ASSUME user' = [user EXCEPT ![u].countdown = t] PROVE user' \in [Users -> Marks]
  <2> DEFINE marks == [user[u] EXCEPT !.countdown = t]
  <2>1. marks \in Marks /\ user' = [user EXCEPT ![u] = marks]
    BY <1>2 DEF Marks
  <2> HIDE DEF marks
  <2> QED
    BY <2>1
<1>3. ASSUME user' = [user EXCEPT ![u].failed = t] PROVE user' \in [Users -> Marks]
  <2> DEFINE marks == [user[u] EXCEPT !.failed = t]
  <2>1. marks \in Marks /\ user' = [user EXCEPT ![u] = marks]
    BY <1>3 DEF Marks
  <2> HIDE DEF marks
  <2> QED
    BY <2>1
<1>4. ASSUME user' = [user EXCEPT ![u].checked = t] PROVE user' \in [Users -> Marks]
  <2> DEFINE marks == [user[u] EXCEPT !.checked = t]
  <2>1. marks \in Marks /\ user' = [user EXCEPT ![u] = marks]
    BY <1>4 DEF Marks
  <2> HIDE DEF marks
  <2> QED
    BY <2>1
<1>5. ASSUME user' = [user EXCEPT ![u].sent = t, ![u].checked = t]
      PROVE  user' \in [Users -> Marks]
  <2> DEFINE marks == [user[u] EXCEPT !.sent = t, !.checked = t]
  <2>1. marks \in Marks /\ user' = [user EXCEPT ![u] = marks]
    BY <1>5 DEF Marks
  <2> HIDE DEF marks
  <2> QED
    BY <2>1
<1> QED
  BY <1>1, <1>2, <1>3, <1>4, <1>5

(* The rooms' last messages are times since 0, and a decision carries one. *)
LEMMA DecisionType ==
    ASSUME NEW marks \in Marks, NEW activity, activity \subseteq Time \ {NoTime},
           NEW at \in Time, NEW since \in Time
    PROVE  /\ Decide(marks, activity, at, since).do \in {"wait", "check", "countdown"}
           /\ Decide(marks, activity, at, since).from \in Time
<1> DEFINE absent  == Latest({marks.seen, since})
           this(t) == IF t >= absent THEN t ELSE NoTime
           sent    == this(marks.sent)
           checked == this(marks.checked)
           floor   == Latest({sent, checked})
           newer   == {t \in activity : t > floor}
           ready   == /\ marks.failed = NoTime \/ at - marks.failed >= Retry
                      /\ at - absent >= Idle
           elapsed(t) == at - t >= Idle
<1>1. activity \subseteq Nat /\ NoTime \in Time
  BY TimerAssumption DEF Time, NoTime
<1>2. newer \subseteq activity /\ newer \subseteq Nat
  BY <1>1
<1>3. newer # {} => Earliest(newer) \in Time
  <2> HIDE DEF newer
  <2> QED
    BY <1>2, EarliestOfSome
<1>4. Decide(marks, activity, at, since) =
        IF ~ready THEN Wait
        ELSE IF sent = NoTime THEN IF newer # {} THEN Check ELSE Wait
        ELSE IF marks.countdown > floor
             THEN IF elapsed(marks.countdown) THEN Check ELSE Wait
        ELSE IF newer = {} THEN Wait
        ELSE IF elapsed(Earliest(newer)) THEN Check
        ELSE [do |-> "countdown", from |-> Earliest(newer)]
  BY DEF Decide
<1> HIDE DEF absent, sent, checked, floor, newer, ready, elapsed
<1>5. \/ Decide(marks, activity, at, since) \in {Wait, Check}
      \/ /\ newer # {}
         /\ Decide(marks, activity, at, since) =
                [do |-> "countdown", from |-> Earliest(newer)]
  BY <1>4
<1> QED
  BY <1>1, <1>3, <1>5 DEF Wait, Check

LEMMA UnreadTypes ==
    ASSUME WorldOK, now \in 0..Horizon, UnreadTypeOK, UnreadStep
    PROVE  WorldOK' /\ now' = now /\ UnreadTypeOK'
<1>a. now \in Time /\ NoTime \in Time
  BY TimerAssumption DEF Time
<1>b. sweep \in Sweeps /\ user \in [Users -> Marks] /\ started \in Time
  BY DEF UnreadTypeOK
<1>c. sweep.now \in Time /\ sweep.who \subseteq Users
  BY <1>b DEF Sweeps
<1>d. Chats \subseteq Users \X Rooms
  BY UnreadAssumption DEF WorldOK, Chats
<1>e. People \subseteq Users
  BY <1>d DEF People
<1>1. ASSUME NEW u \in Users, NEW r \in Rooms, Message(u, r)
      PROVE  WorldOK' /\ now' = now /\ UnreadTypeOK'
  BY <1>1, <1>a, CallWorld DEF Message, UnreadTypeOK
<1>2. ASSUME NEW u \in Users, Visit(u)
      PROVE  WorldOK' /\ now' = now /\ UnreadTypeOK'
  <2>1. user' \in [Users -> Marks]
    BY <1>2, <1>a, <1>b, StampType DEF Visit
  <2>2. UNCHANGED <<now, rooms, started, swept, sweep>> /\ WorldOK'
    BY <1>2, CallWorld DEF Visit
  <2>3. \/ UNCHANGED <<unread, owed>>
        \/ /\ unread' = [unread EXCEPT ![u] = {}]
           /\ owed' = [owed EXCEPT ![u] = {}]
    BY <1>2 DEF Visit
  <2> QED
    BY <2>1, <2>2, <2>3 DEF UnreadTypeOK
<1>3. ASSUME Sweep PROVE WorldOK' /\ now' = now /\ UnreadTypeOK'
  <2>1. Candidates(now) \subseteq Users
    BY <1>e DEF Candidates
  <2> DEFINE begun == [NoSweep EXCEPT !.at = "users", !.now = now,
                           !.todo = Candidates(now), !.read = user]
  <2>2. begun \in Sweeps
    BY <2>1, <1>a, <1>b, DoingType DEF Sweeps, SweepLabels
  <2>3. sweep' \in {sweep, begun}
    BY <1>3 DEF Sweep
  <2>4. /\ swept' = now /\ started' \in {now, started}
        /\ UNCHANGED <<now, world, user, rooms, unread, owed>>
    BY <1>3 DEF Sweep
  <2> HIDE DEF begun
  <2> QED
    BY <2>2, <2>3, <2>4, <1>a DEF UnreadTypeOK, WorldOK
<1>4. ASSUME SweepUser PROVE WorldOK' /\ now' = now /\ UnreadTypeOK'
  <2>1. PICK u \in sweep.todo :
          LET activity == {rooms[u][r] : r \in Rooms} \ {NoTime}
              d == Decide(sweep.read[u], activity, sweep.now, started)
          IN  sweep' = [sweep EXCEPT !.todo = @ \ {u},
                  !.who = IF d.do = "wait" THEN {} ELSE {u}, !.from = d.from,
                  !.at = CASE d.do = "wait"      -> "users"
                           [] d.do = "countdown" -> "countdown"
                           [] d.do = "check"     -> "count"]
    BY <1>4 DEF SweepUser
  <2> DEFINE activity == {rooms[u][r] : r \in Rooms} \ {NoTime}
             d == Decide(sweep.read[u], activity, sweep.now, started)
             who == IF d.do = "wait" THEN {} ELSE {u}
             l == CASE d.do = "wait"      -> "users"
                    [] d.do = "countdown" -> "countdown"
                    [] d.do = "check"     -> "count"
             todo == sweep.todo \ {u}
  <2>2. u \in Users /\ sweep.read[u] \in Marks
    BY <1>b DEF Sweeps
  <2>3. activity \subseteq Time \ {NoTime}
    BY <2>2 DEF UnreadTypeOK
  <2>4. d.do \in {"wait", "check", "countdown"} /\ d.from \in Time
    <3> HIDE DEF activity
    <3> QED
      BY <2>2, <2>3, <1>b, <1>c, DecisionType
  <2>5. sweep' = [sweep EXCEPT !.todo = todo, !.who = who, !.from = d.from, !.at = l]
    BY <2>1
  <2> HIDE DEF d
  <2>6. who \subseteq Users /\ l \in SweepLabels /\ todo \subseteq Users
    BY <2>2, <2>4, <1>b DEF Sweeps, SweepLabels
  <2> HIDE DEF who, l, todo
  <2>7. sweep' \in Sweeps
    BY <2>4, <2>5, <2>6, <1>b DEF Sweeps
  <2> QED
    BY <1>4, <2>7 DEF SweepUser, UnreadTypeOK, WorldOK
<1>5. ASSUME SweepEnds PROVE WorldOK' /\ now' = now /\ UnreadTypeOK'
  BY <1>5, <1>b, DoingType DEF SweepEnds, UnreadTypeOK, WorldOK
<1>6. ASSUME StartCountdown PROVE WorldOK' /\ now' = now /\ UnreadTypeOK'
  <2>1. user' \in [Users -> Marks]
    <3>1. sweep.from \in Time
      BY <1>b DEF Sweeps
    <3> QED
      BY <1>6, <1>b, <1>c, <3>1, StampType DEF StartCountdown
  <2>2. UNCHANGED <<now, world, rooms, unread, started, swept, owed>> /\ Done
    BY <1>6 DEF StartCountdown
  <2> QED
    BY <2>1, <2>2, <1>b, DoingType DEF UnreadTypeOK, WorldOK
<1>7. ASSUME CountUnread PROVE WorldOK' /\ now' = now /\ UnreadTypeOK'
  <2>1. PICK u \in sweep.who :
          sweep' = [sweep EXCEPT !.failures = 0,
                        !.at = IF unread[u] = {} THEN "checked" ELSE "claim"]
    BY <1>7 DEF CountUnread
  <2> DEFINE l == IF unread[u] = {} THEN "checked" ELSE "claim"
  <2>2. l \in SweepLabels /\ 0 \in 0..MaxFailures
    BY UnreadAssumption DEF SweepLabels
  <2>3. sweep' = [sweep EXCEPT !.failures = 0, !.at = l]
    BY <2>1
  <2> HIDE DEF l
  <2>4. sweep' \in Sweeps
    BY <2>2, <2>3, <1>b DEF Sweeps
  <2> QED
    BY <1>7, <2>4 DEF CountUnread, UnreadTypeOK, WorldOK
<1>8. ASSUME CountFails PROVE WorldOK' /\ now' = now /\ UnreadTypeOK'
  BY <1>8, <1>b, FaultWorld, DoingType DEF CountFails, UnreadTypeOK, SweepLabels
<1>9. ASSUME MarkFailed PROVE WorldOK' /\ now' = now /\ UnreadTypeOK'
  <2>1. user' \in [Users -> Marks]
    BY <1>9, <1>b, <1>c, StampType DEF MarkFailed, Stamp
  <2>2. sweep' \in Sweeps
    <3>1. CASE sweep.failures + 1 >= MaxFailures
      BY <1>9, <3>1, <1>b, DoingType DEF MarkFailed
    <3>2. CASE ~(sweep.failures + 1 >= MaxFailures)
      <4>1. sweep' = [sweep EXCEPT !.at = "users", !.who = {}, !.from = NoTime,
                                   !.failures = @ + 1]
        BY <1>9, <3>2 DEF MarkFailed
      <4>2. sweep.failures + 1 \in 0..MaxFailures
        BY <3>2, <1>b, UnreadAssumption DEF Sweeps
      <4> QED
        BY <4>1, <4>2, <1>a, <1>b DEF Sweeps, SweepLabels
    <3> QED
      BY <3>1, <3>2
  <2> QED
    BY <1>9, <2>1, <2>2 DEF MarkFailed, UnreadTypeOK, WorldOK
<1>10. ASSUME MarkChecked PROVE WorldOK' /\ now' = now /\ UnreadTypeOK'
  <2>1. user' \in [Users -> Marks]
    BY <1>10, <1>b, <1>c, StampType DEF MarkChecked, Stamp
  <2>2. UNCHANGED <<now, world, rooms, unread, started, swept, owed>> /\ Done
    BY <1>10 DEF MarkChecked
  <2> QED
    BY <2>1, <2>2, <1>b, DoingType DEF UnreadTypeOK, WorldOK
<1>11. ASSUME ClaimMail PROVE WorldOK' /\ now' = now /\ UnreadTypeOK'
  <2>1. PICK u \in sweep.who :
          \/ /\ user' = [user EXCEPT ![u].sent = sweep.now, ![u].checked = sweep.now]
             /\ Doing("mail")
          \/ Done /\ UNCHANGED user
    BY <1>11 DEF ClaimMail
  <2>2. user' \in [Users -> Marks]
    BY <2>1, <1>b, <1>c, StampType
  <2>3. sweep' \in Sweeps
    BY <2>1, <1>b, DoingType DEF SweepLabels
  <2> QED
    BY <1>11, <2>2, <2>3 DEF ClaimMail, UnreadTypeOK, WorldOK
<1>12. ASSUME SendMail PROVE WorldOK' /\ now' = now /\ UnreadTypeOK'
  <2>1. owed' \in [Users -> SUBSET Time]
    BY <1>12 DEF SendMail, UnreadTypeOK
  <2>2. UNCHANGED <<now, world, user, rooms, unread, started, swept>> /\ Done
    BY <1>12 DEF SendMail
  <2> QED
    BY <2>1, <2>2, <1>b, DoingType DEF UnreadTypeOK, WorldOK
<1>13. ASSUME SendFails PROVE WorldOK' /\ now' = now /\ UnreadTypeOK'
  BY <1>13, <1>b, FaultWorld, DoingType DEF SendFails, UnreadTypeOK
<1> QED
  BY <1>1, <1>2, <1>3, <1>4, <1>5, <1>6, <1>7, <1>8, <1>9, <1>10, <1>11,
     <1>12, <1>13 DEF UnreadStep

LEMMA TypeStep == TypeOK /\ [Next]_vars => TypeOK'
<1> SUFFICES ASSUME TypeOK, [Next]_vars PROVE TypeOK'
  OBVIOUS
<1>a. now \in 0..Horizon /\ WorldOK /\ ReminderTypeOK /\ UnreadTypeOK
  BY DEF TypeOK, WorldOK
<1>1. CASE ReminderStep /\ UNCHANGED unreadVars
  <2>1. UnreadTypeOK'
    BY <1>1, <1>a DEF unreadVars, UnreadTypeOK
  <2> QED
    BY <1>1, <1>a, <2>1, ReminderTypes DEF TypeOK, WorldOK
<1>2. CASE UnreadStep /\ UNCHANGED reminderVars
  <2>1. ReminderTypeOK'
    BY <1>2, <1>a DEF reminderVars, ReminderTypeOK
  <2> QED
    BY <1>2, <1>a, <2>1, UnreadTypes DEF TypeOK, WorldOK
<1>3. CASE Clock
  <2>1. now' \in 0..Horizon
    BY <1>3, <1>a, TimerAssumption DEF Clock
  <2> QED
    BY <1>3, <1>a, <2>1
       DEF Clock, TypeOK, WorldOK, unreadVars, UnreadTypeOK, reminderVars,
           ReminderTypeOK
<1>4. CASE Crash
  <2>1. NoTick \in Ticks
    BY DEF NoTick, Ticks, Labels, Time
  <2>2. WorldOK' /\ NoSweep \in Sweeps
    BY <1>4, <1>a, FaultWorld, DoingType DEF Crash, UnreadTypeOK
  <2> QED
    BY <1>4, <1>a, <2>1, <2>2
       DEF Crash, TypeOK, WorldOK, UnreadTypeOK, ReminderTypeOK
<1>5. CASE UNCHANGED vars
  BY <1>5, <1>a
     DEF vars, TypeOK, WorldOK, unreadVars, UnreadTypeOK, reminderVars,
         ReminderTypeOK
<1> QED
  BY <1>1, <1>2, <1>3, <1>4, <1>5 DEF Next

LEMMA TypeInit == Init => TypeOK
<1> SUFFICES ASSUME Init PROVE TypeOK
  OBVIOUS
<1>1. now \in 0..Horizon /\ NoTime \in Time /\ 0 \in Time
  BY TimerAssumption DEF Init, Time
<1>2. PICK e \in Environments : world = [env |-> e, calls |-> 0, faults |-> 0]
  BY DEF Init
<1>3. world.env.starts \subseteq Time
  BY <1>2, TimerAssumption, ReminderAssumption DEF Time
<1>4. session \in [Sessions -> Documents]
  <2> DEFINE blank == [st |-> "none", start |-> NoTime, since |-> NoTime, sent |-> {}]
             fresh == {[st |-> "active", start |-> t, since |-> 0, sent |-> {}] :
                           t \in world.env.starts}
  <2>1. blank \in Documents
    BY <1>1 DEF Documents
  <2>2. fresh \subseteq Documents
    BY <1>1, <1>3 DEF Documents
  <2>3. session \in [Sessions -> {blank} \cup fresh]
    BY DEF Init, ReminderInit
  <2> HIDE DEF blank, fresh
  <2> QED
    BY <2>1, <2>2, <2>3
<1>5. NoTick \in Ticks
  BY <1>1 DEF NoTick, Ticks, Labels
<1>6. ReminderTypeOK
  BY <1>1, <1>4, <1>5 DEF Init, ReminderInit, ReminderTypeOK
<1>7. Blank \in Marks
  BY <1>1 DEF Blank, Marks
<1>8. NoSweep \in Sweeps
  <2>1. [u \in Users |-> Blank] \in [Users -> Marks]
    BY <1>7
  <2> QED
    BY <1>1, <2>1, UnreadAssumption DEF NoSweep, Sweeps, SweepLabels
<1>9. UnreadTypeOK
  BY <1>1, <1>7, <1>8 DEF Init, UnreadInit, UnreadTypeOK
<1> QED
  BY <1>1, <1>2, <1>6, <1>9 DEF TypeOK

(* The variables of the two sweeps have their types.                       *)
THEOREM TypeCorrect == Spec => []TypeOK
BY TypeInit, TypeStep, PTL DEF Spec

-----------------------------------------------------------------------------
(* Why nobody is reminded twice: a mail is sent only by the tick that set  *)
(* its mark, and a mark is never taken back; what was found due belongs to *)
(* a session that was confirmed and will not be confirmed again.           *)
MarksStay ==
    /\ \A g \in Sessions : session[g].st = "none" => session[g].sent = {}
    /\ \A g \in Sessions : \A k \in Kinds :
          /\ mailed[g][k] >= 1 => k \in session[g].sent
          /\ mailed[g][k] <= 1
    /\ \A s \in Slots : \A d \in tick[s].due : session[d[1]].st # "none"
    /\ \A s \in Slots : \A d \in tick[s].one :
          d[2] \in session[d[1]].sent /\ mailed[d[1]][d[2]] = 0
    /\ \A s, z \in Slots : s # z => tick[s].one \cap tick[z].one = {}

LEMMA MarksStayStep == TypeOK /\ MarksStay /\ [Next]_vars => MarksStay'
<1> SUFFICES ASSUME TypeOK, MarksStay, [Next]_vars PROVE MarksStay'
  OBVIOUS
<1> USE DEF MarksStay
<1>a. /\ session \in [Sessions -> Documents] /\ tick \in [Slots -> Ticks]
      /\ mailed \in [Sessions -> [Kinds -> Nat]]
  BY DEF TypeOK, ReminderTypeOK
<1>b. \A s \in Slots :
          tick[s].due \subseteq Sessions \X Kinds /\ tick[s].one \subseteq Sessions \X Kinds
  BY <1>a DEF Ticks
<1>c. \A g \in Sessions : session[g].sent \subseteq Kinds
  BY <1>a DEF Documents
<1>1. CASE UNCHANGED reminderVars
  BY <1>1 DEF reminderVars
<1>2. CASE Crash
  BY <1>2, <1>a DEF Crash, NoTick
<1>3. ASSUME NEW g \in Sessions, Confirm(g) PROVE MarksStay'
  <2>1. PICK t : session' = [session EXCEPT ![g] =
            [st |-> "active", start |-> t, since |-> now, sent |-> {}]]
    BY <1>3 DEF Confirm
  <2>2. session[g].sent = {} /\ UNCHANGED <<tick, mailed>>
    BY <1>3 DEF Confirm
  <2>3. /\ session'[g].st = "active" /\ session'[g].sent = {}
        /\ \A h \in Sessions \ {g} : session'[h] = session[h]
    BY <2>1, <1>a
  <2> QED
    BY <2>2, <2>3, <1>a, <1>b
<1>4. ASSUME NEW g \in Sessions, CancelSession(g) \/ MoveStart(g) PROVE MarksStay'
  <2>1. UNCHANGED <<tick, mailed>> /\ session[g].st = "active"
    BY <1>4 DEF CancelSession, MoveStart
  <2>2. /\ session'[g].st # "none" /\ session'[g].sent = session[g].sent
        /\ \A h \in Sessions \ {g} : session'[h] = session[h]
    BY <1>4, <1>a DEF CancelSession, MoveStart, Documents
  <2>3. \A h \in Sessions : /\ session'[h].sent = session[h].sent
                            /\ session'[h].st = "none" => session[h].st = "none"
                            /\ session[h].st # "none" => session'[h].st # "none"
    BY <2>1, <2>2
  <2> HIDE DEF MarksStay
  <2>4. /\ \A h \in Sessions : session'[h].st = "none" => session'[h].sent = {}
        /\ \A h \in Sessions : \A k \in Kinds :
              /\ mailed'[h][k] >= 1 => k \in session'[h].sent
              /\ mailed'[h][k] <= 1
    BY <2>1, <2>3 DEF MarksStay
  <2>5. /\ \A s \in Slots : \A d \in tick'[s].due : session'[d[1]].st # "none"
        /\ \A s \in Slots : \A d \in tick'[s].one :
              d[2] \in session'[d[1]].sent /\ mailed'[d[1]][d[2]] = 0
        /\ \A s, z \in Slots : s # z => tick'[s].one \cap tick'[z].one = {}
    BY <2>1, <2>3, <1>b DEF MarksStay
  <2> QED
    BY <2>4, <2>5 DEF MarksStay
<1>5. ASSUME NEW s \in Slots, Tick(s) \/ ReadActivation(s) \/ Activate(s)
      PROVE  MarksStay'
  <2>1. UNCHANGED <<session, mailed>>
    BY <1>5 DEF Tick, ReadActivation, Activate
  <2>2. /\ tick'[s].due = tick[s].due /\ tick'[s].one = tick[s].one
        /\ \A z \in Slots \ {s} : tick'[z] = tick[z]
    BY <1>5, <1>a DEF Tick, ReadActivation, Activate, Goto, Ticks
  <2> QED
    BY <2>1, <2>2
<1>6. ASSUME NEW s \in Slots, FindDue(s) PROVE MarksStay'
  <2>1. UNCHANGED <<session, mailed>>
    BY <1>6 DEF FindDue
  <2>2. /\ tick'[s].one = tick[s].one
        /\ \A z \in Slots \ {s} : tick'[z] = tick[z]
    BY <1>6, <1>a DEF FindDue, Ticks
  <2>3. \A d \in tick'[s].due : session[d[1]].st # "none"
    BY <1>6, <1>a DEF FindDue, Ticks, Found
  <2> QED
    BY <2>1, <2>2, <2>3
<1>7. ASSUME NEW s \in Slots, Claim(s) PROVE MarksStay'
  <2>1. PICK d \in tick[s].due :
          /\ tick' = [tick EXCEPT ![s].due = @ \ {d},
                 ![s].at = IF d[2] \in session[d[1]].sent THEN @ ELSE "mail",
                 ![s].one = IF d[2] \in session[d[1]].sent THEN {} ELSE {d}]
          /\ session' = [session EXCEPT ![d[1]].sent = @ \cup {d[2]}]
    BY <1>7 DEF Claim
  <2>2. d[1] \in Sessions /\ d[2] \in Kinds /\ d = <<d[1], d[2]>> /\ UNCHANGED mailed
    BY <1>7, <1>b DEF Claim
  <2>3. /\ session'[d[1]].sent = session[d[1]].sent \cup {d[2]}
        /\ session'[d[1]].st = session[d[1]].st
        /\ \A h \in Sessions \ {d[1]} : session'[h] = session[h]
    BY <2>1, <2>2, <1>a DEF Documents
  <2>4. /\ tick'[s].due \subseteq tick[s].due
        /\ tick'[s].one = IF d[2] \in session[d[1]].sent THEN {} ELSE {d}
        /\ \A z \in Slots \ {s} : tick'[z] = tick[z]
    BY <2>1, <1>a DEF Ticks
  <2>5. d[2] \notin session[d[1]].sent =>
            /\ mailed[d[1]][d[2]] = 0
            /\ \A z \in Slots : d \notin tick[z].one
    BY <2>2, <1>a
  <2>6. \A g \in Sessions : /\ session[g].sent \subseteq session'[g].sent
                            /\ session'[g].st = session[g].st
    BY <2>2, <2>3
  <2>7. \A g \in Sessions : session'[g].st = "none" => session'[g].sent = {}
    BY <2>1, <2>2, <2>3
  <2>8. \A z \in Slots : \A e \in tick'[z].due : session'[e[1]].st # "none"
    BY <2>4, <2>6, <1>b
  <2>9. \A z \in Slots : \A e \in tick'[z].one :
            e[2] \in session'[e[1]].sent /\ mailed[e[1]][e[2]] = 0
    BY <2>2, <2>3, <2>4, <2>5, <2>6, <1>b
  <2>10. \A y, z \in Slots : y # z => tick'[y].one \cap tick'[z].one = {}
    BY <2>4, <2>5
  <2> QED
    BY <2>2, <2>6, <2>7, <2>8, <2>9, <2>10, <1>c
<1>8. ASSUME NEW s \in Slots, TickEnds(s) \/ MailFails(s) PROVE MarksStay'
  <2>1. UNCHANGED <<session, mailed>>
    BY <1>8 DEF TickEnds, MailFails
  <2>2. /\ tick'[s].due \subseteq tick[s].due /\ tick'[s].one = {}
        /\ \A z \in Slots \ {s} : tick'[z] = tick[z]
    BY <1>8, <1>a DEF TickEnds, MailFails, NoTick, Ticks
  <2> QED
    BY <2>1, <2>2
<1>9. ASSUME NEW s \in Slots, Mail(s) PROVE MarksStay'
  <2>1. PICK d \in tick[s].one : mailed' = [mailed EXCEPT ![d[1]][d[2]] = @ + 1]
    BY <1>9 DEF Mail
  <2>2. d[1] \in Sessions /\ d[2] \in Kinds /\ d = <<d[1], d[2]>> /\ UNCHANGED session
    BY <1>9, <1>b DEF Mail
  <2>3. /\ tick'[s].due = tick[s].due /\ tick'[s].one = {}
        /\ \A z \in Slots \ {s} : tick'[z] = tick[z]
    BY <1>9, <1>a DEF Mail, Ticks
  <2>4. /\ mailed'[d[1]][d[2]] = 1
        /\ \A g \in Sessions : \A k \in Kinds :
              <<g, k>> # d => mailed'[g][k] = mailed[g][k]
    BY <2>1, <2>2, <1>a
  <2>5. \A z \in Slots \ {s} : d \notin tick[z].one
    BY <2>1
  <2>6. \A z \in Slots : \A e \in tick'[z].one :
            e[2] \in session'[e[1]].sent /\ mailed'[e[1]][e[2]] = 0
    <3> SUFFICES ASSUME NEW z \in Slots, NEW e \in tick'[z].one
                 PROVE  e[2] \in session'[e[1]].sent /\ mailed'[e[1]][e[2]] = 0
      OBVIOUS
    <3>1. z # s /\ e \in tick[z].one /\ e # d
      BY <2>3, <2>5
    <3>2. e[1] \in Sessions /\ e[2] \in Kinds /\ e = <<e[1], e[2]>>
      BY <3>1, <1>b
    <3> QED
      BY <3>1, <3>2, <2>2, <2>4
  <2>7. \A g \in Sessions : \A k \in Kinds :
            /\ mailed'[g][k] >= 1 => k \in session'[g].sent
            /\ mailed'[g][k] <= 1
    <3> SUFFICES ASSUME NEW g \in Sessions, NEW k \in Kinds
                 PROVE  /\ mailed'[g][k] >= 1 => k \in session'[g].sent
                        /\ mailed'[g][k] <= 1
      OBVIOUS
    <3>1. CASE <<g, k>> = d
      BY <3>1, <2>1, <2>2, <2>4
    <3>2. CASE <<g, k>> # d
      BY <3>2, <2>2, <2>4
    <3> QED
      BY <3>1, <3>2
  <2> QED
    BY <2>2, <2>3, <2>6, <2>7
<1>10. CASE ReminderStep
  BY <1>10, <1>3, <1>4, <1>5, <1>6, <1>7, <1>8, <1>9 DEF ReminderStep
<1> QED
  BY <1>1, <1>2, <1>10 DEF Next, vars, Clock

(* Nobody gets the same reminder twice, whatever ticks, restarts, hosts    *)
(* and students do at the same time.                                       *)
THEOREM RemindersAreSingle == Spec => []RemindedOnce
<1>1. Init => MarksStay
  BY DEF Init, ReminderInit, MarksStay, NoTick
<1>2. MarksStay => RemindedOnce
  BY DEF MarksStay, RemindedOnce
<1> QED
  BY <1>1, <1>2, MarksStayStep, TypeCorrect, PTL DEF Spec

-----------------------------------------------------------------------------
(* Why mails about unread messages are rare: who is asked about, or mailed *)
(* to, was away for the idle time when the tick read their marks and had   *)
(* no mail in it; and the claim compares these marks with the present ones.*)
Rare(marks, at, since) ==
    /\ at - Latest({marks.seen, since}) >= Idle
    /\ marks.sent >= Latest({marks.seen, since}) => at - marks.sent >= Idle

DecidedWell ==
    /\ sweep.at # "idle" => started # NoTime
    /\ sweep.at \in {"count", "claim"} =>
          \A u \in sweep.who : Rare(sweep.read[u], sweep.now, started)

LEMMA DecisionRare ==
    ASSUME NEW marks \in Marks, NEW activity, activity \subseteq Time \ {NoTime},
           NEW at \in Time, NEW since \in Time \ {NoTime},
           Decide(marks, activity, at, since).do = "check"
    PROVE  Rare(marks, at, since)
<1> DEFINE absent  == Latest({marks.seen, since})
           this(t) == IF t >= absent THEN t ELSE NoTime
           sent    == this(marks.sent)
           checked == this(marks.checked)
           floor   == Latest({sent, checked})
           newer   == {t \in activity : t > floor}
           ready   == /\ marks.failed = NoTime \/ at - marks.failed >= Retry
                      /\ at - absent >= Idle
           elapsed(t) == at - t >= Idle
<1> HIDE DEF absent, sent, checked, floor, newer, ready, elapsed
<1>1. /\ marks.seen \in Int /\ marks.sent \in Int /\ marks.checked \in Int
      /\ marks.countdown \in Int /\ at \in Int /\ since \in Nat
      /\ activity \subseteq Nat
  BY TimerAssumption DEF Marks, Time, NoTime
<1>2. absent \in Int /\ since <= absent
  <2>1. since \in Int
    BY <1>1
  <2>2. Latest({marks.seen, since}) \in {marks.seen, since}
        /\ since <= Latest({marks.seen, since})
    BY <1>1, <2>1, LatestOfTwo
  <2> QED
    BY <1>1, <2>2 DEF absent
<1>3. /\ sent \in Int /\ checked \in Int
      /\ marks.sent >= absent => sent = marks.sent /\ sent >= 0
  BY <1>1, <1>2 DEF sent, checked, NoTime
<1>4. floor \in Int /\ sent <= floor
  BY <1>3, LatestOfTwo DEF floor
<1>5. newer # {} => Earliest(newer) \in Nat /\ Earliest(newer) > floor
  <2>1. newer \subseteq Nat /\ \A t \in newer : t > floor
    BY <1>1 DEF newer
  <2> QED
    BY <2>1, EarliestOfSome
<1>6. Decide(marks, activity, at, since) =
        IF ~ready THEN Wait
        ELSE IF sent = NoTime THEN IF newer # {} THEN Check ELSE Wait
        ELSE IF marks.countdown > floor
             THEN IF elapsed(marks.countdown) THEN Check ELSE Wait
        ELSE IF newer = {} THEN Wait
        ELSE IF elapsed(Earliest(newer)) THEN Check
        ELSE [do |-> "countdown", from |-> Earliest(newer)]
  BY DEF Decide, absent, sent, checked, floor, newer, ready, elapsed
<1>7. Wait.do # "check" /\ [do |-> "countdown", from |-> Earliest(newer)].do # "check"
  BY DEF Wait
<1>8. /\ ready
      /\ \/ sent = NoTime
         \/ marks.countdown > floor /\ elapsed(marks.countdown)
         \/ newer # {} /\ elapsed(Earliest(newer))
  BY <1>6, <1>7
<1>9. at - absent >= Idle
  BY <1>8 DEF ready
<1>10. ASSUME marks.sent >= absent PROVE at - marks.sent >= Idle
  <2>1. sent = marks.sent /\ sent # NoTime
    BY <1>3, <1>10 DEF NoTime
  <2>2. CASE marks.countdown > floor /\ elapsed(marks.countdown)
    BY <2>1, <2>2, <1>1, <1>3, <1>4, UnreadAssumption DEF elapsed
  <2>3. CASE newer # {} /\ elapsed(Earliest(newer))
    BY <2>1, <2>3, <1>1, <1>3, <1>4, <1>5, UnreadAssumption DEF elapsed
  <2> QED
    BY <1>8, <2>1, <2>2, <2>3
<1> QED
  BY <1>9, <1>10 DEF Rare, absent

LEMMA DecidedStep == TypeOK /\ DecidedWell /\ [Next]_vars => DecidedWell'
<1> SUFFICES ASSUME TypeOK, DecidedWell, [Next]_vars PROVE DecidedWell'
  OBVIOUS
<1>a. sweep \in Sweeps /\ started \in Time /\ now \in Nat
  BY TimerAssumption DEF TypeOK, UnreadTypeOK
<1>1. CASE UNCHANGED <<sweep, started>>
  BY <1>1 DEF DecidedWell
<1>2. CASE Crash
  BY <1>2 DEF Crash, DecidedWell, NoSweep
<1>3. CASE Sweep
  <2>1. started' # NoTime
    BY <1>3, <1>a DEF Sweep, NoTime
  <2>2. sweep'.at \in {"idle", "users"}
    BY <1>3 DEF Sweep, NoSweep
  <2> QED
    BY <2>1, <2>2 DEF DecidedWell
<1>4. CASE SweepUser
  <2>1. PICK u \in sweep.todo :
          LET activity == {rooms[u][r] : r \in Rooms} \ {NoTime}
              d == Decide(sweep.read[u], activity, sweep.now, started)
          IN  sweep' = [sweep EXCEPT !.todo = @ \ {u},
                  !.who = IF d.do = "wait" THEN {} ELSE {u}, !.from = d.from,
                  !.at = CASE d.do = "wait"      -> "users"
                           [] d.do = "countdown" -> "countdown"
                           [] d.do = "check"     -> "count"]
    BY <1>4 DEF SweepUser
  <2> DEFINE activity == {rooms[u][r] : r \in Rooms} \ {NoTime}
             d == Decide(sweep.read[u], activity, sweep.now, started)
  <2>2. u \in Users /\ sweep.read[u] \in Marks /\ sweep.now \in Time
    BY <1>a DEF Sweeps
  <2>3. activity \subseteq Time \ {NoTime}
    BY <2>2 DEF TypeOK, UnreadTypeOK
  <2>4. started \in Time \ {NoTime} /\ UNCHANGED started
    BY <1>4, <1>a DEF SweepUser, DecidedWell
  <2>5. d.do \in {"wait", "check", "countdown"}
    <3> HIDE DEF activity
    <3> QED
      BY <2>2, <2>3, <2>4, DecisionType
  <2>6. d.do = "check" => Rare(sweep.read[u], sweep.now, started)
    <3> HIDE DEF activity
    <3> QED
      BY <2>2, <2>3, <2>4, DecisionRare
  <2>7. /\ sweep'.now = sweep.now /\ sweep'.read = sweep.read
        /\ sweep'.who \subseteq {u}
        /\ sweep'.at = CASE d.do = "wait"      -> "users"
                         [] d.do = "countdown" -> "countdown"
                         [] d.do = "check"     -> "count"
    BY <2>1, <1>a DEF Sweeps
  <2> HIDE DEF d
  <2>8. sweep'.at \in {"count", "claim"} => d.do = "check"
    BY <2>5, <2>7
  <2> QED
    BY <2>4, <2>6, <2>7, <2>8 DEF DecidedWell
<1>5. CASE CountUnread
  <2>1. /\ sweep'.now = sweep.now /\ sweep'.read = sweep.read
        /\ sweep'.who = sweep.who /\ sweep.at = "count" /\ UNCHANGED started
    BY <1>5, <1>a DEF CountUnread, Sweeps
  <2> QED
    BY <2>1 DEF DecidedWell
<1>6. CASE SweepEnds \/ StartCountdown \/ CountFails \/ MarkFailed
           \/ MarkChecked \/ ClaimMail \/ SendMail \/ SendFails
  <2>1. sweep.at # "idle" /\ UNCHANGED started
    BY <1>6 DEF SweepEnds, StartCountdown, CountFails, MarkFailed, MarkChecked,
                ClaimMail, SendMail, SendFails
  <2>2. sweep'.at \in {"idle", "users", "failed", "mail"}
    <3>1. Done => sweep'.at = "users"
      BY <1>a DEF Done, Sweeps
    <3>2. \A l : Doing(l) => sweep'.at = l
      BY <1>a DEF Doing, Sweeps
    <3>3. CASE MarkFailed
      BY <3>3, <1>a DEF MarkFailed, NoSweep, Sweeps
    <3>4. CASE ClaimMail
      BY <3>1, <3>2, <3>4 DEF ClaimMail
    <3> QED
      BY <1>6, <3>1, <3>2, <3>3, <3>4
         DEF SweepEnds, StartCountdown, CountFails, MarkChecked, SendMail,
             SendFails, NoSweep
  <2> QED
    BY <2>1, <2>2 DEF DecidedWell
<1>7. CASE UnreadStep
  <2>1. \A u \in Users : Visit(u) => UNCHANGED <<sweep, started>>
    BY DEF Visit
  <2>2. \A u \in Users : \A r \in Rooms : Message(u, r) => UNCHANGED <<sweep, started>>
    BY DEF Message
  <2> QED
    BY <1>7, <1>1, <1>3, <1>4, <1>5, <1>6, <2>1, <2>2 DEF UnreadStep
<1> QED
  BY <1>1, <1>2, <1>7 DEF Next, vars, unreadVars, Clock

LEMMA RareStep ==
    TypeOK /\ DecidedWell /\ [Next]_vars =>
        [\A u \in Users : user'[u].sent # user[u].sent =>
            LET at == user'[u].sent IN
            /\ at - Latest({user[u].seen, started}) >= Idle
            /\ user[u].sent >= Latest({user[u].seen, started}) =>
                   at - user[u].sent >= Idle]_unreadVars
<1> SUFFICES ASSUME TypeOK, DecidedWell, [Next]_vars, NEW u \in Users,
                    user'[u].sent # user[u].sent
             PROVE  LET at == user'[u].sent IN
                    /\ at - Latest({user[u].seen, started}) >= Idle
                    /\ user[u].sent >= Latest({user[u].seen, started}) =>
                           at - user[u].sent >= Idle
  OBVIOUS
<1>a. sweep \in Sweeps /\ user \in [Users -> Marks]
  BY DEF TypeOK, UnreadTypeOK
<1>b. sweep.who \subseteq Users
  BY <1>a DEF Sweeps
<1>1. \A w \in Users : Visit(w) => user'[u].sent = user[u].sent
  BY <1>a DEF Visit, Marks
<1>2. StartCountdown \/ MarkFailed \/ MarkChecked => user'[u].sent = user[u].sent
  BY <1>a, <1>b DEF StartCountdown, MarkFailed, MarkChecked, Stamp, Marks
<1>3. \A w \in Users : \A r \in Rooms : Message(w, r) => UNCHANGED user
  BY DEF Message
<1>4. Sweep \/ SweepUser \/ SweepEnds \/ CountUnread \/ CountFails \/ SendMail
      \/ SendFails => UNCHANGED user
  BY DEF Sweep, SweepUser, SweepEnds, CountUnread, CountFails, SendMail, SendFails
<1>5. Clock \/ Crash \/ UNCHANGED vars \/ UNCHANGED unreadVars => UNCHANGED user
  BY DEF Clock, Crash, vars, unreadVars
<1>6. ClaimMail
  BY <1>1, <1>2, <1>3, <1>4, <1>5 DEF Next, UnreadStep
<1>7. PICK w \in sweep.who :
          /\ user[w].seen = sweep.read[w].seen
          /\ user[w].sent = sweep.read[w].sent
          /\ user' = [user EXCEPT ![w].sent = sweep.now, ![w].checked = sweep.now]
  BY <1>6 DEF ClaimMail
<1>8. u = w /\ user'[u].sent = sweep.now
  BY <1>7, <1>a, <1>b DEF Marks
<1>9. Rare(sweep.read[u], sweep.now, started)
  BY <1>6, <1>7, <1>8 DEF ClaimMail, DecidedWell
<1> QED
  BY <1>7, <1>8, <1>9 DEF Rare

(* Only who has been away for the idle time is mailed, and in one absence  *)
(* never twice within it.                                                  *)
THEOREM UnreadMailsAreRare == Spec => MailsAreRare
<1>1. Init => DecidedWell
  BY DEF Init, UnreadInit, DecidedWell, NoSweep
<1> QED
  BY <1>1, DecidedStep, RareStep, TypeCorrect, PTL DEF Spec, MailsAreRare

-----------------------------------------------------------------------------
(* Why no reminder comes late or never, where ticks are short and no mail  *)
(* fails: ticks begin at most Interval apart, so the first one after a     *)
(* mark begins before the reminder is stale; and a tick decides and mails  *)
(* within two units of time.                                               *)
Punctual == {"send", "crash", "slow"} \cap Faults = {} /\ "move" \notin Calls

Deciding == {"activation", "activate", "activated", "find"}

TicksOnTime ==
    /\ ticked # NoTime =>
          "remind" \in Calls /\ ticked <= now /\ now - ticked <= Interval
    /\ ticked = NoTime =>
          activated = NoTime /\ \A s \in Slots : tick[s].at = "idle"
    /\ \A s \in Slots : tick[s].at # "idle" => tick[s].now \in {now - 1, now}

(* What a tick has in hand, by where it is. *)
TicksHold ==
    \A s \in Slots :
        /\ tick[s].at \in {"find", "claim", "mail"} =>
              activated # NoTime /\ tick[s].notBefore = activated
        /\ tick[s].at \notin {"claim", "mail"} => tick[s].due = {}
        /\ tick[s].at # "mail" => tick[s].one = {}
        /\ \A d, e \in tick[s].one : d = e
        /\ \A d \in tick[s].due \cup tick[s].one :
              tick[s].now <= Mark(session[d[1]].start, d[2]) + Stale[d[2]]

MarksAreMails ==
    \A g \in Sessions, k \in Kinds :
        k \in session[g].sent =>
            mailed[g][k] = 1 \/ \E s \in Slots : <<g, k>> \in tick[s].one

(* The sweep was at work before the mark, or the tick that will say so is. *)
AtWork(mark) ==
    \/ activated # NoTime /\ activated <= mark
    \/ activated = NoTime /\ \E s \in Slots : tick[s].at # "idle" /\ tick[s].now <= mark

Awaited(g, k) ==
    LET mark == Mark(session[g].start, k) IN
    session[g].st = "active" /\ session[g].since <= mark /\ AtWork(mark)

(* Whose mark has passed for a tick is dealt with, or will be by a tick    *)
(* that began soon after the mark.                                         *)
Met(g, k) ==
    \/ k \in session[g].sent
    \/ \E s \in Slots :
          \/ <<g, k>> \in tick[s].due
          \/ /\ tick[s].at \in Deciding
             /\ tick[s].now > Mark(session[g].start, k)
             /\ tick[s].now <= Mark(session[g].start, k) + Stale[k]
MarksAreMet ==
    \A g \in Sessions, k \in Kinds :
        Awaited(g, k) /\ ticked > Mark(session[g].start, k) => Met(g, k)

Timely == Punctual => TicksOnTime /\ TicksHold /\ MarksAreMails /\ MarksAreMet

LEMMA EnvironmentStays == TypeOK /\ [Next]_vars => world'.env = world.env
<1> SUFFICES ASSUME TypeOK, [Next]_vars PROVE world'.env = world.env
  OBVIOUS
<1>0. world \in [env: Environments, calls: Nat, faults: Nat]
  BY DEF TypeOK
<1>1. \A k : Fault(k) => world'.env = world.env
  BY <1>0 DEF Fault
<1>2. Calling => world'.env = world.env
  BY <1>0 DEF Calling
<1>3. CASE ReminderStep
  <2>1. (\E s \in Slots : MailFails(s)) => world'.env = world.env
    BY <1>1 DEF MailFails
  <2>2. ~(\E s \in Slots : MailFails(s)) => UNCHANGED world
    BY <1>3 DEF ReminderStep, Confirm, CancelSession, MoveStart, Tick, ReadActivation,
           Activate, FindDue, Claim, TickEnds, Mail
  <2> QED BY <2>1, <2>2
<1>4. CASE UnreadStep
  <2>1. (\E u \in Users : Visit(u) \/ \E r \in Rooms : Message(u, r)) => Calling
    BY DEF Visit, Message
  <2>2. CountFails \/ SendFails => \E k : Fault(k)
    BY DEF CountFails, SendFails
  <2>3. Sweep \/ SweepUser \/ SweepEnds \/ StartCountdown \/ CountUnread
        \/ MarkFailed \/ MarkChecked \/ ClaimMail \/ SendMail => UNCHANGED world
    BY DEF Sweep, SweepUser, SweepEnds, StartCountdown, CountUnread, MarkFailed,
           MarkChecked, ClaimMail, SendMail
  <2> QED BY <1>1, <1>2, <1>4, <2>1, <2>2, <2>3 DEF UnreadStep
<1> QED
  BY <1>1, <1>3, <1>4 DEF Next, Clock, Crash, vars

(* The windows in the order they have: a tick is shorter than what is      *)
(* stale, and that than the lead.                                          *)
LEMMA Windows ==
    ASSUME TypeOK, NEW g \in Sessions, NEW k \in Kinds
    PROVE  /\ Mark(session[g].start, k) \in Int /\ session[g].start \in Int
           /\ session[g].since \in Int
           /\ Stale[k] \in Nat /\ Interval \in Nat \ {0} /\ Interval <= Stale[k]
           /\ Mark(session[g].start, k) + Stale[k] < session[g].start
           /\ Mark(session[g].start, k) <= session[g].start - Cutoff
           /\ session[g].start <= Mark(session[g].start, k) + Lead["24h"]
           /\ Lead["24h"] \in Nat /\ Cutoff \in Nat
<1>1. session[g].start \in Int /\ session[g].since \in Int
  BY TimerAssumption DEF TypeOK, ReminderTypeOK, Documents, Time, NoTime
<1>2. k = "24h" \/ k = "15m"
  BY DEF Kinds
<1>3. Lead["24h"] \in Nat /\ Lead["15m"] \in Nat /\ Lead["15m"] <= Lead["24h"]
  BY ReminderAssumption DEF Kinds
<1>4. Stale[k] \in Nat /\ Interval <= Stale[k] /\ Stale[k] < Lead[k] /\ Interval \in Nat \ {0}
  BY ReminderAssumption, TimerAssumption
<1> QED
  BY <1>1, <1>2, <1>3, <1>4 DEF Mark, Cutoff

LEMMA TimelyStep == TypeOK /\ MarksStay /\ Timely /\ [Next]_vars => Timely'
<1> SUFFICES ASSUME TypeOK, MarksStay, Timely, [Next]_vars, Punctual'
             PROVE  (TicksOnTime /\ TicksHold /\ MarksAreMails /\ MarksAreMet)'
  BY DEF Timely
<1>0. Punctual /\ Calls' = Calls /\ Faults' = Faults
  BY EnvironmentStays DEF Punctual, Calls, Faults
<1>a. TicksOnTime /\ TicksHold /\ MarksAreMails /\ MarksAreMet
  BY <1>0 DEF Timely
<1>b. /\ session \in [Sessions -> Documents] /\ tick \in [Slots -> Ticks]
      /\ mailed \in [Sessions -> [Kinds -> Nat]]
      /\ now \in Nat /\ ticked \in Int /\ activated \in Int
      /\ \A s \in Slots : tick[s].now \in Int
  BY TimerAssumption DEF TypeOK, ReminderTypeOK, Time, NoTime, Ticks
<1>c. \A s \in Slots :
          tick[s].due \subseteq Sessions \X Kinds /\ tick[s].one \subseteq Sessions \X Kinds
  BY <1>b DEF Ticks
<1>1. CASE UNCHANGED <<now, reminderVars>>
  BY <1>1, <1>0, <1>a DEF reminderVars, TicksOnTime, TicksHold, MarksAreMails, MarksAreMet,
     Awaited, AtWork, Met, Calls
<1>2. CASE Crash
  BY <1>2, <1>0 DEF Crash, Fault, Punctual
<1>3. CASE Clock
  <2>1. /\ now' = now + 1 /\ RemindersOnTime
        /\ UNCHANGED <<session, activated, ticked, tick, mailed>>
    BY <1>3 DEF Clock, reminderVars
  <2>2. TicksHold' /\ MarksAreMails' /\ MarksAreMet'
    BY <2>1, <1>a DEF TicksHold, MarksAreMails, MarksAreMet, Awaited, AtWork, Met
  <2>3. ticked # NoTime => /\ now + 1 - ticked <= Interval
                           /\ \A s \in Slots : tick[s].at # "idle" => now <= tick[s].now
    BY <2>1, <1>0, <1>a DEF RemindersOnTime, OnTime, Punctual, TicksOnTime
  <2>4. \A s \in Slots : tick[s].at # "idle" => tick[s].now = now
    BY <2>3, <1>a, <1>b DEF TicksOnTime
  <2>5. TicksOnTime'
    BY <2>1, <2>3, <2>4, <1>0, <1>a, <1>b DEF TicksOnTime
  <2> QED BY <2>2, <2>5
<1>4. ASSUME NEW g \in Sessions, Confirm(g)
      PROVE  (TicksOnTime /\ TicksHold /\ MarksAreMails /\ MarksAreMet)'
  <2>1. PICK t : session' = [session EXCEPT ![g] =
            [st |-> "active", start |-> t, since |-> now, sent |-> {}]]
    BY <1>4 DEF Confirm
  <2>2. session[g].st = "none" /\ session[g].sent = {}
        /\ UNCHANGED <<now, activated, ticked, tick, mailed>>
    BY <1>4 DEF Confirm, MarksStay
  <2>3. /\ session'[g].since = now /\ session'[g].sent = {} /\ session'[g].start = t
        /\ \A h \in Sessions \ {g} : session'[h] = session[h]
    BY <2>1, <1>b
  <2>4. TypeOK'
    BY TypeStep
  <2>5. TicksOnTime'
    BY <2>2, <1>0, <1>a DEF TicksOnTime
  <2>6. \A s \in Slots : \A d \in tick[s].due \cup tick[s].one :
            d[1] \in Sessions \ {g}
    BY <2>2, <1>c DEF MarksStay
  <2>7. TicksHold'
    BY <2>2, <2>3, <2>6, <1>a DEF TicksHold
  <2>8. MarksAreMails'
    BY <2>2, <2>3, <1>a DEF MarksAreMails
  <2>9. ASSUME NEW k \in Kinds, Awaited(g, k)', ticked' > Mark(session'[g].start, k)
        PROVE  FALSE
    <3>0. session'[g].start \in Time
      BY <2>4 DEF TypeOK, ReminderTypeOK, Documents
    <3>1. Mark(session'[g].start, k) \in Int
      BY <3>0, ReminderAssumption, TimerAssumption DEF Time, NoTime, Mark
    <3>2. now <= Mark(session'[g].start, k) /\ AtWork(Mark(session'[g].start, k))
      BY <2>2, <2>3, <2>9 DEF Awaited, AtWork
    <3>3. ticked <= now
      BY <3>2, <1>a, <1>b DEF AtWork, TicksOnTime
    <3> QED BY <3>1, <3>2, <3>3, <2>2, <2>9, <1>b
  <2>10. ASSUME NEW h \in Sessions \ {g}, NEW k \in Kinds, Awaited(h, k)',
                ticked' > Mark(session'[h].start, k)
         PROVE  Met(h, k)'
    <3>1. Awaited(h, k) /\ ticked > Mark(session[h].start, k)
      BY <2>2, <2>3, <2>10 DEF Awaited, AtWork
    <3>2. Met(h, k)
      BY <3>1, <1>a DEF MarksAreMet
    <3> QED BY <2>2, <2>3, <3>2 DEF Met
  <2> QED BY <2>5, <2>7, <2>8, <2>9, <2>10 DEF MarksAreMet
<1>5. ASSUME NEW g \in Sessions, CancelSession(g)
      PROVE  (TicksOnTime /\ TicksHold /\ MarksAreMails /\ MarksAreMet)'
  <2>1. /\ session' = [session EXCEPT ![g].st = "cancelled"]
        /\ UNCHANGED <<now, activated, ticked, tick, mailed>>
    BY <1>5 DEF CancelSession
  <2>2. /\ \A h \in Sessions : /\ session'[h].sent = session[h].sent
                               /\ session'[h].start = session[h].start
                               /\ session'[h].since = session[h].since
                               /\ session'[h].st = "active" => session[h].st = "active"
    BY <2>1, <1>b DEF Documents
  <2>3. TicksOnTime'
    BY <2>1, <1>0, <1>a DEF TicksOnTime
  <2>4. TicksHold'
    BY <2>1, <2>2, <1>a, <1>c DEF TicksHold
  <2>5. MarksAreMails'
    BY <2>1, <2>2, <1>a DEF MarksAreMails
  <2>6. MarksAreMet'
    BY <2>1, <2>2, <1>a DEF MarksAreMet, Awaited, AtWork, Met
  <2> QED BY <2>3, <2>4, <2>5, <2>6
<1>6. ASSUME NEW g \in Sessions, MoveStart(g) PROVE FALSE
  BY <1>6, <1>0 DEF MoveStart, Punctual
<1>7. ASSUME NEW s \in Slots, Tick(s)
      PROVE  (TicksOnTime /\ TicksHold /\ MarksAreMails /\ MarksAreMet)'
  <2>1. /\ "remind" \in Calls /\ tick[s].at = "idle" /\ ticked < now /\ ticked' = now
        /\ UNCHANGED <<now, session, activated, mailed>>
    BY <1>7 DEF Tick
  <2>2. /\ tick'[s].at = "activation" /\ tick'[s].now = now
        /\ tick'[s].due = tick[s].due /\ tick'[s].one = tick[s].one
        /\ \A z \in Slots \ {s} : tick'[z] = tick[z]
    BY <1>7, <1>b DEF Tick, Ticks
  <2>3. tick[s].due = {} /\ tick[s].one = {}
    BY <2>1, <1>a DEF TicksHold
  <2>4. TicksOnTime'
    BY <2>1, <2>2, <1>0, <1>a, <1>b, TimerAssumption DEF TicksOnTime, NoTime
  <2>5. TicksHold'
    BY <2>1, <2>2, <2>3, <1>a DEF TicksHold
  <2>6. MarksAreMails'
    BY <2>1, <2>2, <2>3, <1>a DEF MarksAreMails
  <2>8. ASSUME NEW mark \in Int, AtWork(mark)', now > mark PROVE AtWork(mark)
    <3>1. CASE activated # NoTime /\ activated <= mark
      BY <3>1 DEF AtWork
    <3>2. CASE activated = NoTime
      <4>1. PICK z \in Slots : tick'[z].at # "idle" /\ tick'[z].now <= mark
        BY <3>2, <2>1, <2>8 DEF AtWork
      <4>2. z # s
        BY <4>1, <2>2, <2>8, <1>b
      <4> QED BY <4>1, <4>2, <3>2, <2>2 DEF AtWork
    <3> QED BY <3>1, <3>2, <2>1, <2>8 DEF AtWork
  <2>7. ASSUME NEW g \in Sessions, NEW k \in Kinds, Awaited(g, k)',
               ticked' > Mark(session'[g].start, k)
        PROVE  Met(g, k)'
    <3> DEFINE mark == Mark(session[g].start, k)
    <3>1. mark \in Int /\ Stale[k] \in Nat /\ Interval <= Stale[k] /\ Interval \in Nat
      BY Windows
    <3>2. now > mark
      BY <2>1, <2>7
    <3> HIDE DEF mark
    <3>4. AtWork(mark)
      BY <3>1, <3>2, <2>1, <2>7, <2>8 DEF Awaited, mark
    <3>5. Awaited(g, k)
      BY <3>4, <2>1, <2>7 DEF Awaited, mark
    <3>6. CASE ticked > mark
      <4>1. Met(g, k)
        BY <3>5, <3>6, <1>a DEF MarksAreMet, mark
      <4> QED BY <4>1, <2>1, <2>2, <2>3 DEF Met, Deciding
    <3>7. CASE ticked <= mark
      <4>1. ticked # NoTime
        BY <3>4, <1>a DEF AtWork, TicksOnTime
      <4>2. now - ticked <= Interval
        BY <4>1, <1>a DEF TicksOnTime
      <4>3. now <= mark + Stale[k]
        BY <3>1, <3>7, <4>2, <1>b
      <4> QED BY <4>3, <3>2, <2>1, <2>2 DEF Met, Deciding, mark
    <3> QED BY <3>1, <3>6, <3>7, <1>b
  <2> QED BY <2>4, <2>5, <2>6, <2>7 DEF MarksAreMet
<1>8. ASSUME NEW s \in Slots, ReadActivation(s) \/ Activate(s)
      PROVE  (TicksOnTime /\ TicksHold /\ MarksAreMails /\ MarksAreMet)'
  <2>1. /\ tick[s].at \in {"activation", "activate", "activated"}
        /\ UNCHANGED <<now, ticked, session, mailed>>
    BY <1>8 DEF ReadActivation, Activate
  <2>2. /\ tick'[s].at \in {"activate", "activated", "find"}
        /\ tick'[s].now = tick[s].now
        /\ tick'[s].due = tick[s].due /\ tick'[s].one = tick[s].one
        /\ tick'[s].at = "find" => activated' # NoTime /\ tick'[s].notBefore = activated'
        /\ \A z \in Slots \ {s} : tick'[z] = tick[z]
    BY <1>8, <1>b DEF ReadActivation, Activate, Goto, Ticks
  <2>3. \/ activated' = activated
        \/ activated = NoTime /\ activated' = tick[s].now
    BY <1>8 DEF ReadActivation, Activate
  <2>4. ticked # NoTime
    BY <2>1, <1>a DEF TicksOnTime
  <2>5. TicksOnTime'
    BY <2>1, <2>2, <2>4, <1>0, <1>a DEF TicksOnTime
  <2>6. TicksHold'
    BY <2>1, <2>2, <2>3, <1>a DEF TicksHold
  <2>7. MarksAreMails'
    BY <2>1, <2>2, <1>a DEF MarksAreMails
  <2>8. ASSUME NEW mark \in Int, AtWork(mark)' PROVE AtWork(mark)
    <3>1. CASE activated' = activated
      BY <3>1, <2>1, <2>2, <2>8 DEF AtWork
    <3>2. CASE activated = NoTime /\ activated' = tick[s].now /\ activated' # NoTime
      BY <3>2, <2>1, <2>8 DEF AtWork
    <3> QED BY <3>1, <3>2, <2>3
  <2>9. ASSUME NEW g \in Sessions, NEW k \in Kinds, Awaited(g, k)',
               ticked' > Mark(session'[g].start, k)
        PROVE  Met(g, k)'
    <3>1. Mark(session[g].start, k) \in Int
      BY Windows
    <3>2. AtWork(Mark(session[g].start, k))
      BY <3>1, <2>1, <2>8, <2>9 DEF Awaited
    <3>3. Met(g, k)
      BY <3>2, <2>1, <2>9, <1>a DEF MarksAreMet, Awaited
    <3> QED BY <3>3, <2>1, <2>2 DEF Met, Deciding
  <2> QED BY <2>5, <2>6, <2>7, <2>9 DEF MarksAreMet
<1>9. ASSUME NEW s \in Slots, FindDue(s)
      PROVE  (TicksOnTime /\ TicksHold /\ MarksAreMails /\ MarksAreMet)'
  <2> DEFINE due == {d \in Sessions \X Kinds :
               /\ Found(session[d[1]], tick[s].now)
               /\ d[2] \in Due(session[d[1]], tick[s].now, tick[s].notBefore)}
  <2>1. /\ tick[s].at = "find"
        /\ UNCHANGED <<now, ticked, activated, session, mailed>>
    BY <1>9 DEF FindDue
  <2>2. /\ tick'[s].at = "claim" /\ tick'[s].due = due
        /\ tick'[s].now = tick[s].now /\ tick'[s].one = tick[s].one
        /\ tick'[s].notBefore = tick[s].notBefore
        /\ \A z \in Slots \ {s} : tick'[z] = tick[z]
    BY <1>9, <1>b DEF FindDue, Ticks
  <2>3. activated # NoTime /\ tick[s].notBefore = activated
        /\ tick[s].due = {} /\ tick[s].one = {}
    BY <2>1, <1>a DEF TicksHold
  <2>4. TicksOnTime'
    BY <2>1, <2>2, <1>0, <1>a DEF TicksOnTime
  <2>5. \A d \in due : tick[s].now <= Mark(session[d[1]].start, d[2]) + Stale[d[2]]
    <3> SUFFICES ASSUME NEW d \in due
                 PROVE  tick[s].now <= Mark(session[d[1]].start, d[2]) + Stale[d[2]]
      OBVIOUS
    <3>1. d[1] \in Sessions /\ d[2] \in Kinds
      OBVIOUS
    <3>2. tick[s].now - Mark(session[d[1]].start, d[2]) <= Stale[d[2]]
      BY DEF Due
    <3> HIDE DEF due
    <3> QED BY <3>1, <3>2, <1>b, Windows
  <2>6. TicksHold'
    <3> HIDE DEF due
    <3> QED BY <2>1, <2>2, <2>3, <2>5, <1>a DEF TicksHold
  <2>7. MarksAreMails'
    BY <2>1, <2>2, <1>a, ZenonT(40) DEF MarksAreMails
  <2>8. ASSUME NEW g \in Sessions, NEW k \in Kinds, Awaited(g, k)',
               ticked' > Mark(session'[g].start, k)
        PROVE  Met(g, k)'
    <3> DEFINE mark == Mark(session[g].start, k)
    <3>1. AtWork(mark)
      BY <2>1, <2>2, <2>8 DEF Awaited, AtWork
    <3>2. session[g].st = "active" /\ session[g].since <= mark /\ activated <= mark
      BY <3>1, <2>1, <2>3, <2>8 DEF Awaited, AtWork
    <3>3. Met(g, k)
      BY <3>1, <3>2, <2>1, <2>8, <1>a DEF MarksAreMet, Awaited
    <3>4. CASE k \in session[g].sent
      BY <3>4, <2>1 DEF Met
    <3>5. CASE \E z \in Slots \ {s} : tick'[z] = tick[z] /\
                  (\/ <<g, k>> \in tick[z].due
                   \/ /\ tick[z].at \in Deciding
                      /\ tick[z].now > mark /\ tick[z].now <= mark + Stale[k])
      BY <3>5, <2>1 DEF Met
    <3>6. CASE k \notin session[g].sent /\ tick[s].now > mark /\ tick[s].now <= mark + Stale[k]
      <4>1. Found(session[g], tick[s].now)
        BY <3>2, <3>6, <1>b, Windows DEF Found
      <4>2. k \in Due(session[g], tick[s].now, tick[s].notBefore)
        <5>1. /\ session[g].start > tick[s].now
              /\ session[g].since <= session[g].start - Cutoff
              /\ tick[s].notBefore <= mark
              /\ mark <= tick[s].now /\ tick[s].now - mark <= Stale[k]
          <6>1. /\ mark \in Int /\ session[g].start \in Int /\ session[g].since \in Int
                /\ Stale[k] \in Nat /\ Cutoff \in Nat
                /\ mark + Stale[k] < session[g].start /\ mark <= session[g].start - Cutoff
            BY Windows
          <6>2. tick[s].now \in Int /\ activated \in Int
            BY <1>b
          <6> HIDE DEF mark, due
          <6> QED BY <6>1, <6>2, <3>2, <3>6, <2>3
        <5> QED BY <5>1, <3>2, <3>6 DEF Due
      <4>3. <<g, k>> \in due
        BY <4>1, <4>2
      <4> HIDE DEF due
      <4> QED BY <4>3, <2>2 DEF Met
    <3> QED BY <3>3, <3>4, <3>5, <3>6, <2>2, <2>3 DEF Met
  <2> QED BY <2>4, <2>6, <2>7, <2>8 DEF MarksAreMet
<1>10. ASSUME NEW s \in Slots, Claim(s)
       PROVE  (TicksOnTime /\ TicksHold /\ MarksAreMails /\ MarksAreMet)'
  <2>1. PICK d \in tick[s].due :
          /\ tick' = [tick EXCEPT ![s].due = @ \ {d},
                 ![s].at = IF d[2] \in session[d[1]].sent THEN @ ELSE "mail",
                 ![s].one = IF d[2] \in session[d[1]].sent THEN {} ELSE {d}]
          /\ session' = [session EXCEPT ![d[1]].sent = @ \cup {d[2]}]
    BY <1>10 DEF Claim
  <2>2. /\ d[1] \in Sessions /\ d[2] \in Kinds /\ d = <<d[1], d[2]>>
        /\ tick[s].at = "claim" /\ tick[s].one = {}
        /\ UNCHANGED <<now, activated, ticked, mailed>>
    BY <1>10, <1>a, <1>c DEF Claim, TicksHold
  <2>3. /\ session'[d[1]].sent = session[d[1]].sent \cup {d[2]}
        /\ \A h \in Sessions : /\ session'[h].st = session[h].st
                               /\ session'[h].start = session[h].start
                               /\ session'[h].since = session[h].since
        /\ \A h \in Sessions \ {d[1]} : session'[h] = session[h]
    BY <2>1, <2>2, <1>b DEF Documents
  <2>4. /\ tick'[s].due = tick[s].due \ {d} /\ tick'[s].now = tick[s].now
        /\ tick'[s].notBefore = tick[s].notBefore
        /\ \A z \in Slots \ {s} : tick'[z] = tick[z]
    BY <2>1, <1>b DEF Ticks
  <2>5. IF d[2] \in session[d[1]].sent
        THEN tick'[s].at = "claim" /\ tick'[s].one = {}
        ELSE tick'[s].at = "mail" /\ tick'[s].one = {d}
    BY <2>1, <2>2, <1>b DEF Ticks
  <2>6. TicksOnTime'
    BY <2>2, <2>4, <2>5, <1>0, <1>a DEF TicksOnTime
  <2>7. TicksHold'
    <3>1. \A z \in Slots : \A e \in tick'[z].due \cup tick'[z].one :
              e[1] \in Sessions /\ e[2] \in Kinds /\ e \in tick[z].due \cup tick[z].one
      BY <2>2, <2>4, <2>5, <1>c
    <3>2. \A z \in Slots : \A e \in tick'[z].due \cup tick'[z].one :
              tick'[z].now <= Mark(session'[e[1]].start, e[2]) + Stale[e[2]]
      BY <3>1, <2>3, <2>4, <1>a DEF TicksHold
    <3>3. \A z \in Slots :
        /\ tick'[z].at \in {"find", "claim", "mail"} =>
              activated' # NoTime /\ tick'[z].notBefore = activated'
        /\ tick'[z].at \notin {"claim", "mail"} => tick'[z].due = {}
        /\ tick'[z].at # "mail" => tick'[z].one = {}
        /\ \A x, y \in tick'[z].one : x = y
      BY <2>2, <2>4, <2>5, <1>a DEF TicksHold
    <3> QED BY <3>2, <3>3 DEF TicksHold
  <2>8. ASSUME NEW g \in Sessions, NEW k \in Kinds, k \in session'[g].sent
        PROVE  mailed'[g][k] = 1 \/ \E z \in Slots : <<g, k>> \in tick'[z].one
    <3>1. CASE k \in session[g].sent
      BY <3>1, <2>2, <2>4, <1>a DEF MarksAreMails
    <3>2. CASE k \notin session[g].sent
      <4>1. g = d[1] /\ k = d[2]
        BY <3>2, <2>3, <2>8
      <4> QED BY <4>1, <3>2, <2>2, <2>5
    <3> QED BY <3>1, <3>2
  <2>9. ASSUME NEW g \in Sessions, NEW k \in Kinds, Awaited(g, k)',
               ticked' > Mark(session'[g].start, k)
        PROVE  Met(g, k)'
    <3>1. AtWork(Mark(session[g].start, k))
      BY <2>2, <2>3, <2>4, <2>5, <2>9 DEF Awaited, AtWork
    <3>2. Met(g, k)
      BY <3>1, <2>2, <2>3, <2>9, <1>a DEF MarksAreMet, Awaited
    <3>3. CASE <<g, k>> = d
      BY <3>3, <2>2, <2>3 DEF Met
    <3>4. CASE <<g, k>> # d
      <4>1. session[g].sent \subseteq session'[g].sent
        BY <2>3
      <4>2. tick[s].at \notin Deciding
        BY <2>2 DEF Deciding
      <4> QED BY <3>2, <3>4, <4>1, <4>2, <2>3, <2>4 DEF Met
    <3> QED BY <3>3, <3>4
  <2> QED BY <2>6, <2>7, <2>8, <2>9 DEF MarksAreMails, MarksAreMet
<1>11. ASSUME NEW s \in Slots, TickEnds(s)
       PROVE  (TicksOnTime /\ TicksHold /\ MarksAreMails /\ MarksAreMet)'
  <2>1. /\ tick[s].at = "claim" /\ tick[s].due = {} /\ tick[s].one = {}
        /\ UNCHANGED <<now, activated, ticked, mailed, session>>
    BY <1>11, <1>a DEF TickEnds, TicksHold
  <2>2. /\ tick'[s].at = "idle" /\ tick'[s].due = {} /\ tick'[s].one = {}
        /\ \A z \in Slots \ {s} : tick'[z] = tick[z]
    BY <1>11, <1>b DEF TickEnds, NoTick
  <2>3. TicksOnTime'
    BY <2>1, <2>2, <1>0, <1>a DEF TicksOnTime
  <2>4. TicksHold'
    BY <2>1, <2>2, <1>a DEF TicksHold
  <2>5. MarksAreMails'
    BY <2>1, <2>2, <1>a DEF MarksAreMails
  <2>6. ASSUME NEW g \in Sessions, NEW k \in Kinds, Awaited(g, k)',
               ticked' > Mark(session'[g].start, k)
        PROVE  Met(g, k)'
    <3>1. AtWork(Mark(session[g].start, k))
      BY <2>1, <2>2, <2>6 DEF Awaited, AtWork
    <3>2. Met(g, k)
      BY <3>1, <2>1, <2>6, <1>a DEF MarksAreMet, Awaited
    <3> QED BY <3>2, <2>1, <2>2 DEF Met, Deciding
  <2> QED BY <2>3, <2>4, <2>5, <2>6 DEF MarksAreMet
<1>12. ASSUME NEW s \in Slots, Mail(s)
       PROVE  (TicksOnTime /\ TicksHold /\ MarksAreMails /\ MarksAreMet)'
  <2>1. PICK d \in tick[s].one : mailed' = [mailed EXCEPT ![d[1]][d[2]] = @ + 1]
    BY <1>12 DEF Mail
  <2>2. /\ d[1] \in Sessions /\ d[2] \in Kinds /\ d = <<d[1], d[2]>>
        /\ tick[s].at = "mail" /\ mailed[d[1]][d[2]] = 0
        /\ UNCHANGED <<now, activated, ticked, session>>
    BY <1>12, <1>c DEF Mail, MarksStay
  <2>3. /\ tick'[s].at = "claim" /\ tick'[s].due = tick[s].due /\ tick'[s].one = {}
        /\ tick'[s].now = tick[s].now /\ tick'[s].notBefore = tick[s].notBefore
        /\ \A z \in Slots \ {s} : tick'[z] = tick[z]
    BY <1>12, <1>b DEF Mail, Ticks
  <2>4. /\ mailed'[d[1]][d[2]] = 1
        /\ \A g \in Sessions : \A k \in Kinds :
              <<g, k>> # d => mailed'[g][k] = mailed[g][k]
    BY <2>1, <2>2, <1>b
  <2>5. TicksOnTime'
    BY <2>2, <2>3, <1>0, <1>a DEF TicksOnTime
  <2>6. TicksHold'
    BY <2>2, <2>3, <1>a DEF TicksHold
  <2>7. ASSUME NEW g \in Sessions, NEW k \in Kinds, k \in session'[g].sent
        PROVE  mailed'[g][k] = 1 \/ \E z \in Slots : <<g, k>> \in tick'[z].one
    <3>1. CASE <<g, k>> = d
      BY <3>1, <2>2, <2>4
    <3>2. CASE <<g, k>> # d
      <4>1. <<g, k>> \notin tick[s].one
        BY <3>2, <1>a DEF TicksHold
      <4>2. mailed[g][k] = 1 \/ \E z \in Slots : <<g, k>> \in tick[z].one
        BY <2>2, <2>7, <1>a DEF MarksAreMails
      <4> QED BY <3>2, <4>1, <4>2, <2>3, <2>4
    <3> QED BY <3>1, <3>2
  <2>8. ASSUME NEW g \in Sessions, NEW k \in Kinds, Awaited(g, k)',
               ticked' > Mark(session'[g].start, k)
        PROVE  Met(g, k)'
    <3>1. AtWork(Mark(session[g].start, k))
      BY <2>2, <2>3, <2>8 DEF Awaited, AtWork
    <3>2. Met(g, k)
      BY <3>1, <2>2, <2>8, <1>a DEF MarksAreMet, Awaited
    <3> QED BY <3>2, <2>2, <2>3 DEF Met, Deciding
  <2> QED BY <2>5, <2>6, <2>7, <2>8 DEF MarksAreMails, MarksAreMet
<1>13. ASSUME NEW s \in Slots, MailFails(s) PROVE FALSE
  BY <1>13, <1>0 DEF MailFails, Fault, Punctual
<1>14. CASE ReminderStep
  BY <1>14, <1>4, <1>5, <1>6, <1>7, <1>8, <1>9, <1>10, <1>11, <1>12, <1>13 DEF ReminderStep
<1>15. CASE UnreadStep /\ UNCHANGED reminderVars
  <2>1. UNCHANGED now
    BY <1>15 DEF UnreadStep, Visit, Message, Sweep, SweepUser, SweepEnds, StartCountdown,
       CountUnread, CountFails, MarkFailed, MarkChecked, ClaimMail, SendMail, SendFails
  <2> QED BY <2>1, <1>1, <1>15
<1> QED
  BY <1>1, <1>2, <1>3, <1>14, <1>15 DEF Next, vars

(* A session confirmed before a mark has its reminder when it starts, for  *)
(* any sessions, ticks in flight and windows in the order they have, where *)
(* ticks are short and nothing restarts, fails to send or moves a session. *)
THEOREM RemindersAreInTime == Spec => []RemindedInTime
<1>1. Init => MarksStay /\ Timely
  <2> SUFFICES ASSUME Init PROVE MarksStay /\ Timely
    OBVIOUS
  <2>1. /\ \A g \in Sessions : session[g].sent = {}
        /\ activated = NoTime /\ ticked = NoTime
        /\ tick = [s \in Slots |-> NoTick]
        /\ mailed = [g \in Sessions |-> [k \in Kinds |-> 0]]
    BY DEF Init, ReminderInit
  <2>2. MarksStay
    BY <2>1 DEF MarksStay, NoTick
  <2>3. TicksOnTime /\ TicksHold /\ MarksAreMails
    BY <2>1 DEF TicksOnTime, TicksHold, MarksAreMails, NoTick
  <2>4. MarksAreMet
    BY <2>1 DEF MarksAreMet, Awaited, AtWork, NoTick
  <2> QED BY <2>2, <2>3, <2>4 DEF Timely
<1>2. TypeOK /\ MarksStay /\ Timely => RemindedInTime
  <2> SUFFICES ASSUME TypeOK, MarksStay, Timely, Punctual, NEW g \in Sessions, NEW k \in Kinds,
                      session[g].st = "active",
                      activated # NoTime,
                      activated <= Mark(session[g].start, k),
                      session[g].since <= Mark(session[g].start, k),
                      session[g].start < now
               PROVE  mailed[g][k] = 1
    BY DEF RemindedInTime, Punctual
  <2> DEFINE mark == Mark(session[g].start, k)
  <2>1. TicksOnTime /\ TicksHold /\ MarksAreMails /\ MarksAreMet
    BY DEF Timely
  <2>2. /\ mark \in Int /\ Stale[k] \in Nat /\ session[g].start \in Int
        /\ mark + Stale[k] < session[g].start /\ Interval <= Stale[k] /\ Interval \in Nat
    BY Windows
  <2>3. now \in Nat /\ ticked \in Int /\ \A s \in Slots : tick[s].now \in Int
    BY TimerAssumption DEF TypeOK, ReminderTypeOK, Time, NoTime, Ticks
  <2> HIDE DEF mark
  <2>4. now - ticked <= Interval
    BY <2>1 DEF TicksOnTime
  <2>5. ticked > mark
    BY <2>2, <2>3, <2>4
  <2>6. Met(g, k)
    BY <2>1, <2>5 DEF MarksAreMet, Awaited, AtWork, mark
  <2>7. ASSUME NEW s \in Slots, tick[s].at # "idle", tick[s].now <= mark + Stale[k]
        PROVE  FALSE
    <3>1. tick[s].now >= now - 1
      BY <2>1, <2>3, <2>7 DEF TicksOnTime
    <3> QED BY <3>1, <2>2, <2>3, <2>7
  <2>8. \A s \in Slots : <<g, k>> \notin tick[s].due \cup tick[s].one
    <3> SUFFICES ASSUME NEW s \in Slots, <<g, k>> \in tick[s].due \cup tick[s].one
                 PROVE  FALSE
      OBVIOUS
    <3>1. tick[s].now <= mark + Stale[k] /\ tick[s].at # "idle"
      BY <2>1 DEF TicksHold, mark
    <3> QED BY <3>1, <2>7
  <2>9. k \in session[g].sent
    BY <2>6, <2>7, <2>8 DEF Met, Deciding, mark
  <2> QED BY <2>1, <2>8, <2>9 DEF MarksAreMails
<1> QED
  BY <1>1, <1>2, TypeInit, TypeStep, MarksStayStep, TimelyStep, PTL DEF Spec

-----------------------------------------------------------------------------
(* Why nobody who stays away is left untold, while Rocket.Chat answers and *)
(* the backend stays up: an unread message is newer than the last mail and *)
(* the last check, so that the next tick which finds its reader long away  *)
(* asks about it, or counts down from the room's last message; a countdown *)
(* that has begun ends with a mail, a check that finds nothing unread, or  *)
(* a visit.                                                                *)
Answering == {"rocketchat", "send", "crash"} \cap Faults = {}

Away(u) == Latest({user[u].seen, started})

SweepsOnTime ==
    /\ started = NoTime <=> swept = NoTime
    /\ started <= swept /\ swept <= now
    /\ swept # NoTime => "unread" \in Calls /\ now - swept <= Interval
    /\ sweep.at # "idle" =>
          /\ started # NoTime /\ sweep.now = swept /\ now - swept <= 1
          /\ swept - started >= Idle

(* No mark is ahead of the sweep, but a countdown from a message that came *)
(* while it worked; and a mail in this absence was not sent early in it.   *)
MarksInOrder ==
    \A u \in Users :
        /\ user[u].failed = NoTime /\ user[u].seen <= now
        /\ user[u].sent <= swept /\ user[u].checked <= swept
        /\ user[u].countdown <= swept + 1
        /\ user[u].sent # NoTime => u \in People
        /\ started # NoTime /\ user[u].sent >= Away(u) =>
              user[u].sent >= Away(u) + Idle

OwedAreUnread ==
    \A u \in Users :
        /\ \A r \in Rooms : rooms[u][r] <= now
        /\ \A t \in owed[u] :
              /\ t # NoTime /\ u \in People /\ unread[u] # {}
              /\ \E r \in Rooms : t <= rooms[u][r]

(* Those the tick in flight has not decided on, or is not through with. *)
InHand == sweep.todo \cup (IF sweep.at = "mail" THEN {} ELSE sweep.who)
Slack(u) == IF u \in InHand THEN Interval ELSE 0

Mailed(u) == started # NoTime /\ user[u].sent >= Away(u)
Counting(u) ==
    user[u].countdown > user[u].sent /\ user[u].countdown > user[u].checked

(* Nothing but a visit has changed the marks of those in hand. *)
AsRead(u) ==
    LET read == sweep.read[u] IN
    /\ user[u].sent = read.sent /\ user[u].checked = read.checked
    /\ user[u].countdown = read.countdown /\ read.countdown <= swept
    /\ read.failed = NoTime /\ read.seen <= swept - Idle
    /\ user[u].seen = read.seen \/ user[u].seen > swept

ToCount(u) ==
    /\ user[u].seen = sweep.read[u].seen => Mailed(u)
    /\ ~Counting(u)
    /\ sweep.from > user[u].sent /\ sweep.from > user[u].checked
    /\ sweep.from <= swept + 1 /\ swept < sweep.from + Idle

SweepHolds ==
    /\ sweep.at # "failed"
    /\ sweep.at = "idle" => sweep.todo = {}
    /\ sweep.at \in {"idle", "users"} => sweep.who = {}
    /\ \A u, v \in sweep.who : u = v
    /\ sweep.todo \cap sweep.who = {}
    /\ sweep.todo \cup sweep.who \subseteq People
    /\ \A u \in InHand : AsRead(u)
    /\ sweep.at = "countdown" => \A u \in sweep.who : ToCount(u)
    /\ sweep.at = "checked" => \A u \in sweep.who : \A t \in owed[u] : t > swept

CountdownsEnd ==
    \A u \in Users : Mailed(u) /\ Counting(u) =>
        swept < user[u].countdown + Idle + Slack(u)

Awaiting(u, t) ==
    /\ t > user[u].sent /\ t > user[u].checked
    /\ IF ~Mailed(u)
       THEN swept < t + Slack(u) \/ swept < Away(u) + Idle + Slack(u)
       ELSE IF Counting(u) THEN user[u].countdown <= t + Interval
       ELSE swept < t + Slack(u)

Telling(u, t) ==
    /\ sweep.at = "mail" /\ u \in sweep.who
    /\ t <= swept
    /\ swept < t + Idle + 2 * Interval \/ swept < Away(u) + Idle + 2 * Interval

NoneForgotten ==
    started # NoTime =>
        \A u \in Users : \A t \in owed[u] : Awaiting(u, t) \/ Telling(u, t)

Attends ==
    /\ SweepsOnTime /\ MarksInOrder /\ OwedAreUnread
    /\ SweepHolds /\ CountdownsEnd /\ NoneForgotten

(* All times are numbers, and the absence of a user began with the later   *)
(* of two.                                                                 *)
Numbers ==
    /\ now \in Nat /\ started \in Int /\ swept \in Int /\ NoTime <= started
    /\ sweep.now \in Int /\ sweep.from \in Int
    /\ \A u \in Users :
          /\ user[u].seen \in Int /\ user[u].sent \in Int /\ user[u].checked \in Int
          /\ user[u].countdown \in Int /\ NoTime <= user[u].sent
          /\ NoTime <= user[u].seen
          /\ \A r \in Rooms : rooms[u][r] \in Int
          /\ \A t \in owed[u] : t \in Int /\ NoTime <= t
          /\ Away(u) \in {user[u].seen, started}
          /\ user[u].seen <= Away(u) /\ started <= Away(u)

LEMMA NumbersHold == TypeOK => Numbers
<1> SUFFICES ASSUME TypeOK PROVE Numbers
  OBVIOUS
<1>1. \A t \in Time : t \in Int /\ NoTime <= t
  BY TimerAssumption DEF Time, NoTime
<1>2. /\ now \in Nat /\ started \in Time /\ swept \in Time
      /\ sweep.now \in Time /\ sweep.from \in Time
  BY TimerAssumption DEF TypeOK, UnreadTypeOK, Sweeps
<1>3. ASSUME NEW u \in Users
      PROVE  /\ user[u].seen \in Time /\ user[u].sent \in Time
             /\ user[u].checked \in Time /\ user[u].countdown \in Time
             /\ \A r \in Rooms : rooms[u][r] \in Time
             /\ \A t \in owed[u] : t \in Time
  BY <1>3 DEF TypeOK, UnreadTypeOK, Marks
<1>4. ASSUME NEW u \in Users
      PROVE  /\ Away(u) \in {user[u].seen, started}
             /\ user[u].seen <= Away(u) /\ started <= Away(u)
  <2>1. user[u].seen \in Int /\ started \in Int
    BY <1>1, <1>2, <1>3
  <2> QED BY <2>1, LatestOfTwo DEF Away
<1> QED
  BY <1>1, <1>2, <1>3, <1>4 DEF Numbers

(* What a tick decides on a user away for the idle time: to wait, because  *)
(* a countdown runs or nothing is new; to count down from a new message.   *)
LEMMA DecisionDue ==
    ASSUME NEW marks \in Marks, NEW activity, activity \subseteq Time \ {NoTime},
           NEW at \in Time, NEW since \in Time \ {NoTime},
           marks.failed = NoTime, at - Latest({marks.seen, since}) >= Idle
    PROVE  LET d == Decide(marks, activity, at, since)
               told == marks.sent >= Latest({marks.seen, since})
               counting == marks.countdown > marks.sent /\ marks.countdown > marks.checked
           IN /\ d.do = "wait" =>
                    \/ told /\ counting /\ at < marks.countdown + Idle
                    \/ /\ told => ~counting
                       /\ \A t \in activity : t <= marks.sent \/ t <= marks.checked
              /\ d.do = "countdown" =>
                    /\ told /\ ~counting /\ d.from \in activity
                    /\ d.from > marks.sent /\ d.from > marks.checked
                    /\ at < d.from + Idle
<1> DEFINE absent  == Latest({marks.seen, since})
           this(t) == IF t >= absent THEN t ELSE NoTime
           sent    == this(marks.sent)
           checked == this(marks.checked)
           floor   == Latest({sent, checked})
           newer   == {t \in activity : t > floor}
           ready   == /\ marks.failed = NoTime \/ at - marks.failed >= Retry
                      /\ at - absent >= Idle
           elapsed(t) == at - t >= Idle
           d == Decide(marks, activity, at, since)
           counting == marks.countdown > marks.sent /\ marks.countdown > marks.checked
<1> HIDE DEF absent, sent, checked, floor, newer, ready, elapsed, d, counting
<1>1. /\ marks.seen \in Int /\ marks.sent \in Int /\ marks.checked \in Int
      /\ marks.countdown \in Int /\ at \in Int /\ since \in Nat
      /\ NoTime <= marks.sent /\ NoTime <= marks.checked /\ NoTime <= marks.countdown
      /\ activity \subseteq Nat /\ NoTime = -1 /\ Idle \in Nat
  BY TimerAssumption, UnreadAssumption DEF Marks, Time, NoTime
<1>2. absent \in Int /\ since <= absent
  <2>1. since \in Int
    BY <1>1
  <2>2. Latest({marks.seen, since}) \in {marks.seen, since}
        /\ since <= Latest({marks.seen, since})
    BY <1>1, <2>1, LatestOfTwo
  <2> QED
    BY <1>1, <2>2 DEF absent
<1>3. /\ sent = IF marks.sent >= absent THEN marks.sent ELSE NoTime
      /\ checked = IF marks.checked >= absent THEN marks.checked ELSE NoTime
  BY DEF sent, checked
<1>4. sent \in Int /\ checked \in Int
  BY <1>1, <1>3
<1>5. floor \in {sent, checked} /\ sent <= floor /\ checked <= floor
  BY <1>4, LatestOfTwo DEF floor
<1>6. newer # {} => Earliest(newer) \in newer
  <2>1. newer \subseteq Nat
    BY <1>1 DEF newer
  <2> QED
    BY <2>1, EarliestOfSome
<1>7. d = IF ~ready THEN Wait
          ELSE IF sent = NoTime THEN IF newer # {} THEN Check ELSE Wait
          ELSE IF marks.countdown > floor
               THEN IF elapsed(marks.countdown) THEN Check ELSE Wait
          ELSE IF newer = {} THEN Wait
          ELSE IF elapsed(Earliest(newer)) THEN Check
          ELSE [do |-> "countdown", from |-> Earliest(newer)]
  BY DEF Decide, absent, sent, checked, floor, newer, ready, elapsed, d
<1>8. ready
  BY DEF ready, absent
<1>9. sent = NoTime <=> ~(marks.sent >= absent)
  BY <1>1, <1>2, <1>3
<1>10. marks.sent >= absent => (marks.countdown > floor <=> counting)
  BY <1>1, <1>2, <1>3, <1>4, <1>5 DEF counting
<1>11. \A t \in activity : t \notin newer => t <= marks.sent \/ t <= marks.checked
  BY <1>1, <1>3, <1>4, <1>5 DEF newer
<1>12. ASSUME d.do = "wait"
       PROVE  \/ marks.sent >= absent /\ counting /\ at < marks.countdown + Idle
              \/ /\ marks.sent >= absent => ~counting
                 /\ \A t \in activity : t <= marks.sent \/ t <= marks.checked
  <2>1. Check.do # "wait" /\ [do |-> "countdown", from |-> Earliest(newer)].do # "wait"
    BY DEF Check
  <2>2. CASE marks.sent >= absent /\ marks.countdown > floor
    <3>1. ~elapsed(marks.countdown)
      BY <1>7, <1>8, <1>9, <1>12, <2>1, <2>2
    <3> QED BY <3>1, <1>1, <1>10, <2>2 DEF elapsed
  <2>3. CASE ~(marks.sent >= absent /\ marks.countdown > floor)
    <3>1. newer = {}
      BY <1>7, <1>8, <1>9, <1>12, <2>1, <2>3
    <3> QED BY <3>1, <1>10, <1>11, <2>3
  <2> QED BY <2>2, <2>3
<1>13. ASSUME d.do = "countdown"
       PROVE  /\ marks.sent >= absent /\ ~counting /\ d.from \in activity
              /\ d.from > marks.sent /\ d.from > marks.checked
              /\ at < d.from + Idle
  <2>1. Check.do # "countdown" /\ Wait.do # "countdown"
    BY DEF Check, Wait
  <2>2. /\ marks.sent >= absent /\ ~(marks.countdown > floor)
        /\ newer # {} /\ ~elapsed(Earliest(newer))
        /\ d = [do |-> "countdown", from |-> Earliest(newer)]
    BY <1>7, <1>8, <1>9, <1>13, <2>1
  <2>3. d.from \in newer /\ ~elapsed(d.from)
    BY <2>2, <1>6
  <2>4. d.from \in activity /\ d.from \in Nat /\ d.from > floor
    BY <2>3, <1>1 DEF newer
  <2>5. d.from > marks.sent /\ d.from > marks.checked
    BY <2>2, <2>4, <1>1, <1>2, <1>3, <1>4, <1>5
  <2>6. at < d.from + Idle
    BY <2>3, <2>4, <1>1 DEF elapsed
  <2> QED BY <2>2, <2>4, <2>5, <2>6, <1>10
<1> QED
  BY <1>12, <1>13 DEF d, absent, counting

(* One step after the other: the clock, messages and visits. *)
LEMMA ClockAttends ==
    ASSUME TypeOK, Attends, Numbers, Clock PROVE Attends'
<1>1. /\ now' = now + 1 /\ UNCHANGED <<world, user, rooms, unread, started, swept, sweep, owed>>
      /\ UnreadOnTime
  BY DEF Clock, unreadVars
<1>2. /\ UNCHANGED People /\ UNCHANGED InHand /\ UNCHANGED Calls
      /\ \A u \in Users : UNCHANGED <<Away(u), Slack(u), Mailed(u), Counting(u)>>
  BY <1>1 DEF People, Chats, Calls, InHand, Away, Slack, Mailed, Counting
<1>3. SweepsOnTime'
  <2>1. swept # NoTime => now + 1 - swept <= Interval
    BY <1>1 DEF UnreadOnTime, OnTime, Attends, SweepsOnTime
  <2>2. sweep.at # "idle" => now <= sweep.now
    BY <1>1 DEF UnreadOnTime, Attends, SweepsOnTime
  <2> QED BY <1>1, <1>2, <2>1, <2>2 DEF Attends, SweepsOnTime, Numbers
<1>4. MarksInOrder'
  BY <1>1, <1>2 DEF Attends, MarksInOrder, Numbers
<1>5. OwedAreUnread'
  BY <1>1, <1>2 DEF Attends, OwedAreUnread, Numbers
<1>6. SweepHolds'
  <2>1. sweep.who \subseteq Users
    BY DEF TypeOK, UnreadTypeOK, Sweeps
  <2>2. \A u \in InHand : UNCHANGED AsRead(u)
    BY <1>1 DEF AsRead
  <2>3. \A u \in sweep.who : UNCHANGED ToCount(u)
    BY <2>1, <1>1, <1>2 DEF ToCount
  <2> QED BY <2>2, <2>3, <1>1, <1>2 DEF Attends, SweepHolds
<1>7. CountdownsEnd' /\ NoneForgotten'
  BY <1>1, <1>2 DEF Attends, CountdownsEnd, NoneForgotten, Awaiting, Telling
<1> QED
  BY <1>3, <1>4, <1>5, <1>6, <1>7 DEF Attends

LEMMA MessageAttends ==
    ASSUME TypeOK, Attends, Numbers, world'.env = world.env,
           NEW w \in Users, NEW q \in Rooms, Message(w, q)
    PROVE  Attends'
<1>1. /\ now # swept /\ w \in People
      /\ rooms' = [rooms EXCEPT ![w][q] = now]
      /\ unread' = [unread EXCEPT ![w] = @ \cup {q}]
      /\ owed' = [owed EXCEPT ![w] = @ \cup {now}]
      /\ UNCHANGED <<now, user, started, swept, sweep>>
  BY DEF Message, People
<1>2. /\ UNCHANGED People /\ UNCHANGED InHand /\ UNCHANGED Calls
      /\ \A u \in Users : UNCHANGED <<Away(u), Slack(u), Mailed(u), Counting(u)>>
  BY <1>1 DEF People, Chats, Calls, InHand, Away, Slack, Mailed, Counting
<1>3. /\ rooms \in [Users -> [Rooms -> Time]] /\ unread \in [Users -> SUBSET Rooms]
      /\ owed \in [Users -> SUBSET Time] /\ now # NoTime
  BY TimerAssumption DEF TypeOK, UnreadTypeOK, NoTime
<1>4. /\ \A u \in Users : owed'[u] \subseteq owed[u] \cup {now}
      /\ \A u \in Users \ {w} : rooms'[u] = rooms[u] /\ unread'[u] = unread[u] /\ owed'[u] = owed[u]
      /\ rooms'[w][q] = now /\ \A r \in Rooms \ {q} : rooms'[w][r] = rooms[w][r]
      /\ q \in unread'[w] /\ owed'[w] = owed[w] \cup {now}
  BY <1>1, <1>3
<1>5. swept < now
  BY <1>1 DEF Attends, SweepsOnTime, Numbers
<1>6. SweepsOnTime' /\ MarksInOrder'
  BY <1>1, <1>2 DEF Attends, SweepsOnTime, MarksInOrder
<1>7. OwedAreUnread'
  <2>1. \A u \in Users : \A r \in Rooms : rooms'[u][r] <= now'
    BY <1>1, <1>4 DEF Attends, OwedAreUnread, Numbers
  <2>2. ASSUME NEW t \in owed'[w]
        PROVE  t # NoTime /\ \E r \in Rooms : t <= rooms'[w][r]
    <3>1. t <= now
      <4>1. CASE t = now
        BY <4>1 DEF Numbers
      <4>2. CASE t \in owed[w]
        <5>1. PICK r \in Rooms : t <= rooms[w][r]
          BY <4>2 DEF Attends, OwedAreUnread
        <5> QED BY <4>2, <5>1 DEF Attends, OwedAreUnread, Numbers
      <4> QED BY <4>1, <4>2, <1>4
    <3> QED BY <3>1, <1>3, <1>4 DEF Attends, OwedAreUnread
  <2>3. ASSUME NEW u \in Users \ {w}, NEW t \in owed'[u]
        PROVE  /\ t # NoTime /\ u \in People /\ unread'[u] # {}
               /\ \E r \in Rooms : t <= rooms'[u][r]
    <3>1. t \in owed[u] /\ rooms'[u] = rooms[u] /\ unread'[u] = unread[u]
      BY <1>4
    <3> QED BY <3>1 DEF Attends, OwedAreUnread
  <2>4. w \in People /\ unread'[w] # {} /\ People' = People
    BY <1>1, <1>2, <1>4
  <2> QED BY <2>1, <2>2, <2>3, <2>4 DEF OwedAreUnread
<1>8. SweepHolds'
  <2>1. sweep.who \subseteq Users
    BY DEF TypeOK, UnreadTypeOK, Sweeps
  <2>2. \A u \in InHand : UNCHANGED AsRead(u)
    BY <1>1 DEF AsRead
  <2>3. \A u \in sweep.who : UNCHANGED ToCount(u)
    BY <2>1, <1>1, <1>2 DEF ToCount
  <2>4. ASSUME sweep.at = "checked", NEW u \in sweep.who, NEW t \in owed'[u]
        PROVE  t > swept
    <3>1. t \in owed[u] \/ t = now
      BY <2>1, <2>4, <1>4
    <3> QED BY <3>1, <2>4, <1>5 DEF Attends, SweepHolds, Numbers
  <2> QED BY <2>2, <2>3, <2>4, <1>1, <1>2 DEF Attends, SweepHolds
<1>9. CountdownsEnd'
  BY <1>1, <1>2 DEF Attends, CountdownsEnd
<1>10. NoneForgotten'
  <2>1. ASSUME NEW u \in Users PROVE Awaiting(u, now)'
    <3>1. user[u].sent <= swept /\ user[u].checked <= swept /\ user[u].countdown <= swept + 1
      BY DEF Attends, MarksInOrder
    <3>2. Slack(u) \in Nat /\ Interval \in Nat
      BY TimerAssumption DEF Slack
    <3>3. user[u].sent < now /\ user[u].checked < now /\ user[u].countdown <= now + Interval
          /\ swept < now + Slack(u)
      BY <3>1, <3>2, <1>5 DEF Numbers
    <3> QED BY <3>3, <1>1, <1>2 DEF Awaiting
  <2>2. ASSUME NEW u \in Users, NEW t \in owed[u], started # NoTime
        PROVE  (Awaiting(u, t) \/ Telling(u, t))'
    BY <2>2, <1>1, <1>2 DEF Attends, NoneForgotten, Awaiting, Telling
  <2> QED BY <2>1, <2>2, <1>1, <1>4 DEF NoneForgotten
<1> QED
  BY <1>6, <1>7, <1>8, <1>9, <1>10 DEF Attends

LEMMA VisitAttends ==
    ASSUME TypeOK, Attends, Numbers, Numbers', world'.env = world.env,
           NEW w \in Users, Visit(w)
    PROVE  Attends'
<1>1. /\ now # swept
      /\ user' = [user EXCEPT ![w].seen = now]
      /\ UNCHANGED <<now, rooms, started, swept, sweep>>
      /\ \/ UNCHANGED <<unread, owed>>
         \/ unread' = [unread EXCEPT ![w] = {}] /\ owed' = [owed EXCEPT ![w] = {}]
  BY DEF Visit
<1>2. /\ UNCHANGED People /\ UNCHANGED InHand /\ UNCHANGED Calls
      /\ \A u \in Users : UNCHANGED <<Slack(u)>>
  BY <1>1 DEF People, Chats, Calls, InHand, Slack
<1>3. /\ user \in [Users -> Marks] /\ unread \in [Users -> SUBSET Rooms]
      /\ owed \in [Users -> SUBSET Time]
  BY DEF TypeOK, UnreadTypeOK
<1>4. /\ user'[w].seen = now /\ user'[w].sent = user[w].sent
      /\ user'[w].checked = user[w].checked /\ user'[w].failed = user[w].failed
      /\ user'[w].countdown = user[w].countdown
      /\ \A u \in Users \ {w} : user'[u] = user[u]
  BY <1>1, <1>3 DEF Marks
<1>5. /\ \A u \in Users : owed'[u] \subseteq owed[u]
      /\ \A u \in Users : owed'[u] # {} => unread'[u] = unread[u]
  BY <1>1, <1>3
<1>6. swept < now
  BY <1>1 DEF Attends, SweepsOnTime, Numbers
<1>7. \A u \in Users \ {w} : UNCHANGED <<Away(u), Mailed(u), Counting(u)>>
  BY <1>1, <1>4 DEF Away, Mailed, Counting
<1>8. Away(w)' >= now /\ Away(w)' \in Int /\ ~Mailed(w)'
  <2>1. Away(w)' >= now /\ Away(w)' \in Int
    BY <1>4 DEF Numbers
  <2>2. user'[w].sent <= swept
    BY <1>4 DEF Attends, MarksInOrder
  <2> QED BY <2>1, <2>2, <1>4, <1>6 DEF Mailed, Numbers
<1>9. SweepsOnTime'
  BY <1>1, <1>2 DEF Attends, SweepsOnTime
<1>10. MarksInOrder'
  <2>1. ~(started' # NoTime /\ user'[w].sent >= Away(w)')
    BY <1>8 DEF Mailed
  <2>2. user'[w].seen <= now
    BY <1>4 DEF Numbers
  <2>3. \A u \in Users \ {w} : Away(u)' = Away(u)
    BY <1>7
  <2> QED BY <2>1, <2>2, <2>3, <1>1, <1>2, <1>4 DEF Attends, MarksInOrder
<1>11. OwedAreUnread'
  BY <1>1, <1>2, <1>5 DEF Attends, OwedAreUnread
<1>12. SweepHolds'
  <2>1. ASSUME NEW u \in InHand PROVE AsRead(u)'
    <3>1. u \in Users
      BY DEF InHand, TypeOK, UnreadTypeOK, Sweeps
    <3>2. CASE u = w
      BY <3>2, <1>1, <1>4, <1>6 DEF Attends, SweepHolds, AsRead
    <3>3. CASE u # w
      BY <3>1, <3>3, <1>1, <1>4 DEF Attends, SweepHolds, AsRead
    <3> QED BY <3>2, <3>3
  <2>2. ASSUME NEW u \in sweep.who, sweep.at = "countdown" PROVE ToCount(u)'
    <3>1. u \in Users /\ u \in InHand
      BY <2>2 DEF InHand, TypeOK, UnreadTypeOK, Sweeps
    <3>2. ToCount(u)
      BY <2>2 DEF Attends, SweepHolds
    <3>3. CASE u = w
      <4>1. sweep.read[w].seen <= swept - Idle /\ Idle \in Nat
        BY <3>1, <3>3, UnreadAssumption DEF Attends, SweepHolds, AsRead
      <4>2. sweep.read[w].seen \in Int
        <5>1. sweep.read[w] \in Marks
          BY DEF TypeOK, UnreadTypeOK, Sweeps
        <5> QED BY <5>1, TimerAssumption DEF Marks, Time, NoTime
      <4>3. user'[w].seen # sweep.read[w].seen
        BY <4>1, <4>2, <1>4, <1>6 DEF Numbers
      <4> QED BY <4>3, <3>2, <3>3, <1>1, <1>4 DEF ToCount, Counting
    <3>4. CASE u # w
      BY <3>1, <3>2, <3>4, <1>1, <1>4, <1>7 DEF ToCount
    <3> QED BY <3>3, <3>4
  <2>3. sweep.who \subseteq Users
    BY DEF TypeOK, UnreadTypeOK, Sweeps
  <2> QED BY <2>1, <2>2, <2>3, <1>1, <1>2, <1>5 DEF Attends, SweepHolds
<1>13. CountdownsEnd'
  BY <1>1, <1>2, <1>4, <1>7, <1>8 DEF Attends, CountdownsEnd
<1>14. NoneForgotten'
  <2> SUFFICES ASSUME NEW u \in Users, NEW t \in owed'[u], started # NoTime
               PROVE  (Awaiting(u, t) \/ Telling(u, t))'
    BY <1>1 DEF NoneForgotten
  <2>1. Awaiting(u, t) \/ Telling(u, t)
    BY <1>5 DEF Attends, NoneForgotten
  <2>2. CASE u # w
    BY <2>1, <2>2, <1>1, <1>2, <1>4, <1>7 DEF Awaiting, Telling
  <2>3. CASE u = w
    <3>1. Slack(w) \in Nat /\ Interval \in Nat /\ Idle \in Nat
      BY TimerAssumption, UnreadAssumption DEF Slack
    <3>2. swept < Away(w)' + Idle + Slack(w) /\ swept < Away(w)' + Idle + 2 * Interval
      BY <3>1, <1>6, <1>8 DEF Numbers
    <3> QED BY <3>2, <2>1, <2>3, <1>1, <1>2, <1>4, <1>8 DEF Awaiting, Telling
  <2> QED BY <2>2, <2>3
<1> QED
  BY <1>9, <1>10, <1>11, <1>12, <1>13, <1>14 DEF Attends

(* A tick begins: whoever it does not take on is back, or was, too lately  *)
(* for a mail; the others it takes in hand.                                *)
LEMMA SweepAttends ==
    ASSUME TypeOK, Attends, Numbers, Numbers', world'.env = world.env, Sweep
    PROVE  Attends'
<1> DEFINE begun == [NoSweep EXCEPT !.at = "users", !.now = now,
                         !.todo = Candidates(now), !.read = user]
<1>1. /\ "unread" \in Calls /\ sweep.at = "idle" /\ swept < now /\ swept' = now
      /\ started' = IF started = NoTime THEN now ELSE started
      /\ sweep' = IF now - started' < Idle THEN sweep ELSE begun
      /\ UNCHANGED <<now, world, user, rooms, unread, owed>>
  BY DEF Sweep
<1>2. /\ begun.at = "users" /\ begun.now = now /\ begun.todo = Candidates(now)
      /\ begun.read = user /\ begun.who = {}
  BY DEF NoSweep
<1> HIDE DEF begun
<1>3. UNCHANGED People /\ UNCHANGED Calls /\ Candidates(now) \subseteq People
  BY <1>1 DEF People, Chats, Calls, Candidates
<1>4. \A u \in Users : UNCHANGED <<Counting(u)>>
  BY <1>1 DEF Counting
<1>5. Interval \in Nat \ {0} /\ Idle \in Nat \ {0} /\ NoTime = -1
  BY TimerAssumption, UnreadAssumption DEF NoTime
<1>6. /\ sweep.todo = {} /\ sweep.who = {} /\ InHand = {}
      /\ sweep'.at # "idle" => InHand' = Candidates(now)
      /\ sweep'.at = "idle" => InHand' = {}
  <2>1. sweep.todo = {} /\ sweep.who = {}
    BY <1>1 DEF Attends, SweepHolds
  <2> QED BY <2>1, <1>1, <1>2 DEF InHand
<1>7. /\ started' # NoTime /\ started' <= now /\ started' \in Nat /\ now \in Nat
      /\ started # NoTime => started' = started /\ now - swept <= Interval
      /\ started = NoTime => started' = now /\ swept = NoTime /\ sweep' = sweep
  BY <1>1, <1>5 DEF Attends, SweepsOnTime, Numbers
<1>a. PICK since \in Nat : since = started'
  BY <1>7
<1>b. /\ ~(now - since < Idle) => now - Idle \in Nat /\ now - since >= Idle
      /\ sweep' = IF now - since < Idle THEN sweep ELSE begun
  BY <1>1, <1>5, <1>7, <1>a
<1>8. SweepsOnTime'
  BY <1>1, <1>2, <1>3, <1>5, <1>7 DEF Attends, SweepsOnTime
<1>9. ASSUME NEW u \in Users, started # NoTime
      PROVE  UNCHANGED <<Away(u), Mailed(u)>>
  BY <1>1, <1>9 DEF Away, Mailed
<1>10. ASSUME NEW u \in Users, started = NoTime
       PROVE  /\ ~Mailed(u)' /\ user[u].sent = NoTime /\ user[u].checked <= NoTime
              /\ Away(u)' = now
  <2>1. Away(u)' >= now /\ Away(u)' \in {user[u].seen, now}
    BY <1>1, <1>7, <1>10 DEF Numbers
  <2>2. user[u].sent <= swept /\ user[u].checked <= swept /\ user[u].seen <= now
    BY DEF Attends, MarksInOrder
  <2> QED BY <2>1, <2>2, <1>1, <1>5, <1>7, <1>10 DEF Mailed, Numbers
<1>11. MarksInOrder'
  <2> SUFFICES ASSUME NEW u \in Users
               PROVE  /\ user[u].failed = NoTime /\ user[u].seen <= now
                      /\ user[u].sent <= now /\ user[u].checked <= now
                      /\ user[u].countdown <= now + 1
                      /\ user[u].sent # NoTime => u \in People
                      /\ Mailed(u)' => user[u].sent >= Away(u)' + Idle
    BY <1>1, <1>3, <1>7 DEF MarksInOrder, Mailed
  <2>1. /\ user[u].failed = NoTime /\ user[u].seen <= now
        /\ user[u].sent <= swept /\ user[u].checked <= swept
        /\ user[u].countdown <= swept + 1
        /\ user[u].sent # NoTime => u \in People
        /\ Mailed(u) => user[u].sent >= Away(u) + Idle
    BY DEF Attends, MarksInOrder, Mailed
  <2> QED BY <2>1, <1>1, <1>9, <1>10 DEF Numbers
<1>12. OwedAreUnread'
  BY <1>1, <1>3 DEF Attends, OwedAreUnread
<1>13. SweepHolds'
  <2>1. CASE sweep' = sweep
    BY <2>1, <1>1, <1>3, <1>6 DEF Attends, SweepHolds
  <2>2. CASE sweep' = begun /\ now - Idle \in Nat
    <3>1. ASSUME NEW u \in Candidates(now) PROVE AsRead(u)'
      <4>1. u \in Users
        <5>1. Chats \subseteq Users \X Rooms
          BY UnreadAssumption DEF TypeOK, Chats
        <5> QED BY <5>1, <1>3 DEF People
      <4>2. user[u].seen <= now - Idle
        <5>1. user[u].seen = NoTime \/ user[u].seen <= now - Idle
          BY DEF Candidates
        <5>2. now - Idle \in Nat
          BY <2>2
        <5> QED BY <5>1, <5>2, <1>5
      <4>3. user[u].failed = NoTime /\ user[u].countdown <= now
        <5>1. user[u].failed = NoTime /\ user[u].countdown <= swept + 1
          BY <4>1 DEF Attends, MarksInOrder
        <5> QED BY <5>1, <4>1, <1>1 DEF Numbers
      <4> QED BY <4>2, <4>3, <2>2, <1>1, <1>2 DEF AsRead
    <3> QED BY <3>1, <2>2, <1>1, <1>2, <1>3, <1>6 DEF SweepHolds
  <2> QED BY <2>1, <2>2, <1>b
(* Whom the tick does not take on. *)
<1>14. ASSUME NEW u \in People, u \in Users, u \notin InHand'
       PROVE  now < Away(u)' + Idle /\ (started # NoTime => ~Mailed(u))
  <2>1. PICK away \in Int : /\ away = Away(u)'
                            /\ away >= user[u].seen /\ away >= since
    BY <1>1, <1>a, <1>14 DEF Numbers
  <2>2. now < away + Idle
    <3>1. CASE now - since < Idle
      BY <3>1, <2>1, <1>5, <1>7
    <3>2. CASE sweep' = begun
      <4>1. u \notin Candidates(now)
        BY <3>2, <1>2, <1>6, <1>14
      <4>2. user[u].seen > now - Idle
        BY <4>1, <1>5, <1>14 DEF Candidates, Numbers
      <4> QED BY <4>2, <2>1, <1>5, <1>14 DEF Numbers
    <3> QED BY <3>1, <3>2, <1>b
  <2>3. ASSUME started # NoTime, Mailed(u) PROVE FALSE
    <3>1. user[u].sent >= Away(u) + Idle /\ user[u].sent <= swept
      BY <2>3, <1>14 DEF Attends, MarksInOrder, Mailed
    <3>2. Away(u) = away
      BY <2>1, <2>3, <1>9, <1>14
    <3> QED BY <3>1, <3>2, <2>2, <1>1, <1>5, <1>14 DEF Numbers
  <2> QED BY <2>1, <2>2, <2>3
<1>15. CountdownsEnd'
  <2> SUFFICES ASSUME NEW u \in Users, Mailed(u)', Counting(u)
               PROVE  now < user[u].countdown + Idle + Slack(u)'
    BY <1>1, <1>4 DEF CountdownsEnd
  <2>1. started # NoTime /\ Mailed(u)
    BY <1>9, <1>10
  <2>2. u \in People
    <3>1. user[u].sent # NoTime
      BY <2>1, <1>5 DEF Mailed, Numbers
    <3> QED BY <3>1 DEF Attends, MarksInOrder
  <2>3. u \in InHand'
    BY <2>1, <2>2, <1>14
  <2>4. Slack(u)' = Interval /\ Slack(u) = 0
    BY <2>3, <1>6 DEF Slack
  <2>5. swept < user[u].countdown + Idle + 0
    BY <2>1, <2>4 DEF Attends, CountdownsEnd
  <2> QED BY <2>1, <2>4, <2>5, <1>5, <1>7 DEF Numbers
<1>16. NoneForgotten'
  <2> SUFFICES ASSUME NEW u \in Users, NEW t \in owed[u]
               PROVE  Awaiting(u, t)'
    BY <1>1 DEF NoneForgotten
  <2>1. t \in Nat /\ u \in People
    BY <1>5 DEF Attends, OwedAreUnread, Numbers
  <2>2. CASE started = NoTime
    <3>1. sweep'.at = "idle" /\ now < now + Idle
      BY <2>2, <1>1, <1>5, <1>7
    <3>2. Slack(u)' = 0
      BY <3>1, <1>6 DEF Slack
    <3>3. user[u].sent < t /\ user[u].checked < t
      BY <2>1, <2>2, <1>5, <1>10 DEF Numbers
    <3> QED BY <3>1, <3>2, <3>3, <2>2, <1>1, <1>5, <1>7, <1>10 DEF Awaiting
  <2>3. CASE started # NoTime
    <3>1. Awaiting(u, t) /\ Slack(u) = 0
      BY <2>3, <1>1, <1>6 DEF Attends, NoneForgotten, Telling, Slack
    <3>2. CASE u \in InHand'
      <4>1. Slack(u)' = Interval
        BY <3>2 DEF Slack
      <4>2. \A x \in Int : swept < x => now < x + Interval
        BY <2>3, <1>5, <1>7 DEF Numbers
      <4>3. swept < t + 0 => now < t + Interval
        BY <4>2, <2>1
      <4>4. swept < Away(u) + Idle + 0 => now < Away(u) + Idle + Interval
        <5>1. Away(u) \in Int
          BY DEF Numbers
        <5> QED BY <5>1, <4>2, <1>5
      <4> QED BY <4>1, <4>3, <4>4, <3>1, <2>3, <1>1, <1>4, <1>9 DEF Awaiting
    <3>3. CASE u \notin InHand'
      <4>1. Slack(u)' = 0 /\ now < Away(u)' + Idle /\ ~Mailed(u)'
        BY <3>3, <2>1, <2>3, <1>9, <1>14 DEF Slack
      <4>2. now < Away(u)' + Idle + 0
        BY <4>1, <1>5 DEF Numbers
      <4> QED BY <4>1, <4>2, <3>1, <1>1 DEF Awaiting
    <3> QED BY <3>2, <3>3
  <2> QED BY <2>2, <2>3
<1> QED
  BY <1>8, <1>11, <1>12, <1>13, <1>15, <1>16 DEF Attends

(* The tick decides on somebody, on the marks it read: only a visit may    *)
(* have changed them, and it puts a mail off by itself.                    *)
LEMMA SweepUserAttends ==
    ASSUME TypeOK, Attends, Numbers, SweepUser PROVE Attends'
<1>1. PICK u \in sweep.todo :
        LET activity == {rooms[u][r] : r \in Rooms} \ {NoTime}
            d == Decide(sweep.read[u], activity, sweep.now, started)
        IN  sweep' = [sweep EXCEPT !.todo = @ \ {u},
                !.who = IF d.do = "wait" THEN {} ELSE {u}, !.from = d.from,
                !.at = CASE d.do = "wait"      -> "users"
                         [] d.do = "countdown" -> "countdown"
                         [] d.do = "check"     -> "count"]
  BY DEF SweepUser
<1> DEFINE activity == {rooms[u][r] : r \in Rooms} \ {NoTime}
           d == Decide(sweep.read[u], activity, sweep.now, started)
           read == sweep.read[u]
<1>2. /\ sweep.at = "users" /\ UNCHANGED <<now, world, user, rooms, unread, started, swept, owed>>
  BY DEF SweepUser
<1>3. u \in Users /\ read \in Marks /\ sweep \in Sweeps
  BY DEF TypeOK, UnreadTypeOK, Sweeps
<1>4. /\ sweep.who = {} /\ u \in InHand /\ AsRead(u) /\ u \in People
      /\ started # NoTime /\ sweep.now = swept /\ now - swept <= 1
      /\ swept - started >= Idle
  BY <1>2 DEF Attends, SweepHolds, SweepsOnTime, InHand
<1>5. activity \subseteq Time \ {NoTime}
  BY <1>3 DEF TypeOK, UnreadTypeOK
<1>6. /\ \A r \in Rooms : rooms[u][r] # NoTime => rooms[u][r] \in activity
      /\ \A t \in activity : t \in Int /\ t <= swept + 1
  <2>1. \A r \in Rooms : rooms[u][r] <= now /\ rooms[u][r] \in Int
    BY <1>3 DEF Attends, OwedAreUnread, Numbers
  <2>2. now <= swept + 1
    BY <1>4 DEF Numbers
  <2> QED BY <2>1, <2>2 DEF Numbers
<1> HIDE DEF activity
<1>7. d.do \in {"wait", "check", "countdown"}
  BY <1>3, <1>4, <1>5, DecisionType DEF TypeOK, UnreadTypeOK, Sweeps
<1>8. LET told == read.sent >= Latest({read.seen, started})
          counting == read.countdown > read.sent /\ read.countdown > read.checked
      IN /\ d.do = "wait" =>
               \/ told /\ counting /\ swept < read.countdown + Idle
               \/ /\ told => ~counting
                  /\ \A t \in activity : t <= read.sent \/ t <= read.checked
         /\ d.do = "countdown" =>
               /\ told /\ ~counting /\ d.from \in activity
               /\ d.from > read.sent /\ d.from > read.checked
               /\ swept < d.from + Idle
  <2>1. swept - Latest({read.seen, started}) >= Idle
    <3>1. read.seen \in Int /\ started \in Int
      BY <1>3, TimerAssumption DEF Marks, Time, NoTime, Numbers
    <3>2. Latest({read.seen, started}) \in {read.seen, started}
      BY <3>1, LatestOfTwo
    <3>3. read.seen <= swept - Idle /\ Idle \in Nat
      BY <1>4, UnreadAssumption DEF AsRead
    <3> QED BY <3>1, <3>2, <3>3, <1>4 DEF Numbers
  <2>2. /\ swept \in Time /\ started \in Time \ {NoTime} /\ read.failed = NoTime
    BY <1>4 DEF TypeOK, UnreadTypeOK, AsRead
  <2> QED BY <2>1, <2>2, <1>3, <1>4, <1>5, DecisionDue
<1>9. /\ sweep'.todo = sweep.todo \ {u} /\ sweep'.from = d.from
      /\ sweep'.now = sweep.now /\ sweep'.read = sweep.read
      /\ sweep'.who = IF d.do = "wait" THEN {} ELSE {u}
      /\ sweep'.at = CASE d.do = "wait"      -> "users"
                       [] d.do = "countdown" -> "countdown"
                       [] d.do = "check"     -> "count"
  BY <1>1, <1>3 DEF Sweeps, activity
<1> HIDE DEF d
<1>10. /\ sweep'.at \in {"users", "countdown", "count"}
       /\ sweep'.at = "users" <=> d.do = "wait"
       /\ sweep'.at = "countdown" <=> d.do = "countdown"
  BY <1>7, <1>9
<1>11. /\ InHand' = IF d.do = "wait" THEN InHand \ {u} ELSE InHand
       /\ \A w \in Users : UNCHANGED <<Away(w), Mailed(w), Counting(w)>>
       /\ UNCHANGED <<People, Calls>>
  <2>1. InHand = sweep.todo /\ InHand' = sweep'.todo \cup sweep'.who
    BY <1>2, <1>4, <1>10 DEF InHand
  <2>2. InHand' = IF d.do = "wait" THEN InHand \ {u} ELSE InHand
    BY <2>1, <1>9
  <2> QED BY <2>2, <1>2 DEF Away, Mailed, Counting, People, Chats, Calls
<1>12. user[u].seen = read.seen \/ (user[u].seen > swept /\ ~Mailed(u))
  <2>1. user[u].sent <= swept
    BY <1>3 DEF Attends, MarksInOrder
  <2> QED BY <2>1, <1>3, <1>4 DEF AsRead, Mailed, Numbers
<1>13. user[u].seen = read.seen =>
         /\ Mailed(u) <=> read.sent >= Latest({read.seen, started})
         /\ Counting(u) <=> read.countdown > read.sent /\ read.countdown > read.checked
  BY <1>4 DEF Mailed, Away, Counting, AsRead
<1>14. SweepsOnTime' /\ MarksInOrder' /\ OwedAreUnread'
  <2>1. sweep'.at # "idle" /\ sweep.at # "idle"
    BY <1>2, <1>10
  <2> QED BY <2>1, <1>2, <1>9, <1>11 DEF Attends, SweepsOnTime, MarksInOrder, OwedAreUnread
<1>15. SweepHolds'
  <2>1. ASSUME NEW w \in InHand' PROVE AsRead(w)'
    <3>1. AsRead(w)
      BY <2>1, <1>11 DEF Attends, SweepHolds
    <3> QED BY <3>1, <1>2, <1>9 DEF AsRead
  <2>2. ASSUME sweep'.at = "countdown" PROVE ToCount(u)'
    <3>1. d.do = "countdown"
      BY <2>2, <1>10
    <3>2. /\ user[u].seen = read.seen => Mailed(u) /\ ~Counting(u)
          /\ d.from > read.sent /\ d.from > read.checked
          /\ swept < d.from + Idle /\ d.from <= swept + 1
      BY <3>1, <1>6, <1>8, <1>13
    <3>3. ~Counting(u)
      BY <3>1, <1>4, <1>8 DEF Counting, AsRead
    <3> QED BY <3>2, <3>3, <1>2, <1>3, <1>4, <1>9, <1>11 DEF ToCount, AsRead
  <2>3. sweep'.todo \cup sweep'.who \subseteq People
    BY <1>4, <1>9 DEF Attends, SweepHolds
  <2> QED BY <2>1, <2>2, <2>3, <1>4, <1>9, <1>10, <1>11 DEF Attends, SweepHolds
<1>16. ASSUME NEW w \in Users, w # u PROVE Slack(w)' = Slack(w)
  BY <1>11, <1>16 DEF Slack
<1>17. d.do # "wait" => Slack(u)' = Slack(u)
  BY <1>11 DEF Slack
<1>18. d.do = "wait" => Slack(u)' = 0
  BY <1>11 DEF Slack
<1>19. CountdownsEnd'
  <2>1. ASSUME d.do = "wait", Mailed(u), Counting(u)
        PROVE  swept < user[u].countdown + Idle + 0
    <3>1. user[u].seen = read.seen
      BY <2>1, <1>12
    <3>2. swept < read.countdown + Idle /\ read.countdown = user[u].countdown
      BY <3>1, <2>1, <1>4, <1>8, <1>13 DEF AsRead
    <3> QED BY <3>2, <1>3, UnreadAssumption DEF Numbers
  <2> QED BY <2>1, <1>2, <1>11, <1>16, <1>17, <1>18 DEF Attends, CountdownsEnd
<1>20. NoneForgotten'
  <2> SUFFICES ASSUME NEW w \in Users, NEW t \in owed[w] PROVE Awaiting(w, t)'
    BY <1>2 DEF NoneForgotten
  <2>1. Awaiting(w, t)
    BY <1>2, <1>4 DEF Attends, NoneForgotten, Telling
  <2>2. CASE w # u \/ d.do # "wait"
    BY <2>1, <2>2, <1>2, <1>11, <1>16, <1>17 DEF Awaiting
  <2>3. CASE w = u /\ d.do = "wait"
    <3>1. t > user[u].sent /\ t > user[u].checked /\ t \in Int /\ t # NoTime /\ t >= NoTime
      BY <2>1, <2>3 DEF Awaiting, Numbers, Attends, OwedAreUnread
    <3>2. CASE user[u].seen = read.seen
      <4>1. PICK r \in Rooms : t <= rooms[u][r]
        BY <2>3 DEF Attends, OwedAreUnread
      <4>2. rooms[u][r] \in Int /\ rooms[u][r] # NoTime
        BY <3>1, <4>1, <1>3 DEF Numbers, NoTime
      <4>3. ~(rooms[u][r] <= read.sent \/ rooms[u][r] <= read.checked)
        BY <3>1, <4>1, <4>2, <1>3, <1>4 DEF AsRead, Numbers
      <4>4. Mailed(u) /\ Counting(u)
        BY <2>3, <3>2, <4>2, <4>3, <1>6, <1>8, <1>13
      <4> QED BY <4>4, <2>1, <2>3, <1>2, <1>11 DEF Awaiting
    <3>3. CASE user[u].seen > swept /\ ~Mailed(u)
      <4>1. swept < Away(u) + Idle + 0
        BY <3>3, <1>3, UnreadAssumption DEF Numbers
      <4> QED BY <4>1, <3>3, <2>1, <2>3, <1>2, <1>11, <1>18 DEF Awaiting
    <3> QED BY <3>2, <3>3, <1>12
  <2> QED BY <2>2, <2>3
<1> QED
  BY <1>14, <1>15, <1>19, <1>20 DEF Attends

(* The tick ends, or is through with somebody. *)
LEMMA SweepEndsAttends ==
    ASSUME TypeOK, Attends, Numbers, SweepEnds PROVE Attends'
<1>1. /\ sweep.at = "users" /\ sweep.todo = {} /\ sweep.who = {} /\ sweep' = NoSweep
      /\ UNCHANGED <<now, world, user, rooms, unread, started, swept, owed>>
  BY DEF SweepEnds, Attends, SweepHolds
<1>2. sweep'.at = "idle" /\ sweep'.todo = {} /\ sweep'.who = {}
  BY <1>1 DEF NoSweep
<1>3. InHand = {} /\ InHand' = {}
  BY <1>1, <1>2 DEF InHand
<1>4. /\ UNCHANGED <<People, Calls>>
      /\ \A u \in Users : UNCHANGED <<Away(u), Mailed(u), Counting(u), Slack(u)>>
  BY <1>1, <1>3 DEF Away, Mailed, Counting, Slack, People, Chats, Calls
<1>5. SweepsOnTime' /\ MarksInOrder' /\ OwedAreUnread'
  BY <1>1, <1>2, <1>4 DEF Attends, SweepsOnTime, MarksInOrder, OwedAreUnread
<1>6. SweepHolds' /\ CountdownsEnd'
  BY <1>1, <1>2, <1>3, <1>4 DEF Attends, SweepHolds, CountdownsEnd
<1>7. NoneForgotten'
  BY <1>1, <1>4 DEF Attends, NoneForgotten, Awaiting, Telling
<1> QED
  BY <1>5, <1>6, <1>7 DEF Attends

(* The one at work, and what is the same for everybody else when the tick  *)
(* is through with them.                                                   *)
LEMMA ThroughWith ==
    ASSUME TypeOK, Attends, sweep.at \notin {"idle", "users"},
           Done, UNCHANGED <<world, started, swept>>, NEW u \in sweep.who
    PROVE  /\ u \in Users /\ u \in People /\ u \notin sweep.todo
           /\ sweep'.at = "users" /\ sweep'.who = {} /\ sweep'.now = sweep.now
           /\ sweep'.todo = sweep.todo /\ sweep'.read = sweep.read
           /\ InHand' = InHand \ {u} /\ Slack(u)' = 0
           /\ \A w \in Users \ {u} : UNCHANGED Slack(w)
           /\ \A w \in Users \ {u} : w \notin sweep.who
           /\ started # NoTime /\ sweep.now = swept
           /\ UNCHANGED <<People, Calls>>
<1>1. sweep \in Sweeps
  BY DEF TypeOK, UnreadTypeOK
<1>2. /\ sweep'.at = "users" /\ sweep'.who = {} /\ sweep'.now = sweep.now
      /\ sweep'.todo = sweep.todo /\ sweep'.read = sweep.read
  BY <1>1 DEF Done, Sweeps
<1>3. u \in Users /\ u \in People /\ u \notin sweep.todo /\ sweep.who = {u}
  BY <1>1 DEF Attends, SweepHolds, Sweeps
<1>4. InHand' = sweep.todo /\ InHand' = InHand \ {u}
  BY <1>2, <1>3 DEF InHand
<1>5. Slack(u)' = 0 /\ \A w \in Users \ {u} : UNCHANGED Slack(w)
  BY <1>4 DEF Slack
<1> QED
  BY <1>2, <1>3, <1>4, <1>5 DEF Attends, SweepsOnTime, People, Chats, Calls

LEMMA StartCountdownAttends ==
    ASSUME TypeOK, Attends, Numbers, StartCountdown PROVE Attends'
<1>1. PICK u \in sweep.who : user' = [user EXCEPT ![u].countdown = sweep.from]
  BY DEF StartCountdown
<1>2. /\ sweep.at = "countdown" /\ Done
      /\ UNCHANGED <<now, world, rooms, unread, started, swept, owed>>
  BY DEF StartCountdown
<1>3. /\ u \in Users /\ u \in People /\ u \notin sweep.todo
      /\ sweep'.at = "users" /\ sweep'.who = {} /\ sweep'.now = sweep.now
      /\ sweep'.todo = sweep.todo /\ sweep'.read = sweep.read
      /\ InHand' = InHand \ {u} /\ Slack(u)' = 0
      /\ \A w \in Users \ {u} : UNCHANGED Slack(w)
      /\ started # NoTime /\ sweep.now = swept
      /\ UNCHANGED <<People, Calls>>
  BY <1>2, ThroughWith
<1>4. /\ user'[u].seen = user[u].seen /\ user'[u].sent = user[u].sent
      /\ user'[u].checked = user[u].checked /\ user'[u].failed = user[u].failed
      /\ user'[u].countdown = sweep.from
      /\ \A w \in Users \ {u} : user'[w] = user[w]
  BY <1>1, <1>3 DEF TypeOK, UnreadTypeOK, Marks
<1>5. /\ \A w \in Users : UNCHANGED <<Away(w), Mailed(w)>>
      /\ \A w \in Users \ {u} : UNCHANGED Counting(w)
  BY <1>2, <1>4 DEF Away, Mailed, Counting
<1>6. ToCount(u) /\ AsRead(u) /\ u \in InHand
  BY <1>2 DEF Attends, SweepHolds, InHand
<1>7. Counting(u)' /\ sweep.from <= swept + 1 /\ swept < sweep.from + Idle
  BY <1>4, <1>6 DEF Counting, ToCount
<1>8. SweepsOnTime' /\ OwedAreUnread'
  BY <1>2, <1>3 DEF Attends, SweepsOnTime, OwedAreUnread
<1>9. MarksInOrder'
  BY <1>2, <1>3, <1>4, <1>5, <1>7 DEF Attends, MarksInOrder
<1>10. SweepHolds'
  <2>1. ASSUME NEW w \in InHand' PROVE AsRead(w)'
    <3>1. AsRead(w) /\ w # u /\ w \in Users
      BY <2>1, <1>3 DEF Attends, SweepHolds, InHand, TypeOK, UnreadTypeOK, Sweeps
    <3> QED BY <3>1, <1>2, <1>3, <1>4 DEF AsRead
  <2> QED BY <2>1, <1>3 DEF Attends, SweepHolds
<1>11. CountdownsEnd'
  <2>1. swept < user'[u].countdown + Idle + 0
    BY <1>4, <1>7, UnreadAssumption DEF Numbers
  <2> QED BY <2>1, <1>2, <1>3, <1>4, <1>5 DEF Attends, CountdownsEnd
<1>12. NoneForgotten'
  <2> SUFFICES ASSUME NEW w \in Users, NEW t \in owed[w] PROVE Awaiting(w, t)'
    BY <1>2 DEF NoneForgotten
  <2>1. Awaiting(w, t)
    BY <1>2, <1>3 DEF Attends, NoneForgotten, Telling
  <2>2. CASE w # u
    BY <2>1, <2>2, <1>2, <1>3, <1>4, <1>5 DEF Awaiting
  <2>3. CASE w = u
    <3>1. CASE Mailed(u)
      <4>1. swept < t + Interval
        BY <3>1, <2>1, <2>3, <1>6 DEF Awaiting, ToCount, Slack
      <4>2. sweep.from <= t + Interval
        BY <4>1, <2>3, <1>7, TimerAssumption DEF Numbers
      <4> QED BY <4>2, <3>1, <2>1, <2>3, <1>2, <1>4, <1>5, <1>7 DEF Awaiting
    <3>2. CASE ~Mailed(u)
      <4>1. user[u].seen > swept
        BY <3>2, <1>6 DEF ToCount, AsRead
      <4>2. swept < Away(u) + Idle + 0
        BY <4>1, <1>3, UnreadAssumption DEF Numbers
      <4> QED BY <4>2, <3>2, <2>1, <2>3, <1>2, <1>3, <1>4, <1>5 DEF Awaiting
    <3> QED BY <3>1, <3>2
  <2> QED BY <2>2, <2>3
<1> QED
  BY <1>8, <1>9, <1>10, <1>11, <1>12 DEF Attends

LEMMA CountUnreadAttends ==
    ASSUME TypeOK, Attends, Numbers, CountUnread PROVE Attends'
<1>1. PICK u \in sweep.who :
        sweep' = [sweep EXCEPT !.failures = 0,
                      !.at = IF unread[u] = {} THEN "checked" ELSE "claim"]
  BY DEF CountUnread
<1>2. /\ sweep.at = "count"
      /\ UNCHANGED <<now, world, user, rooms, unread, started, swept, owed>>
  BY DEF CountUnread
<1>3. /\ sweep'.at = IF unread[u] = {} THEN "checked" ELSE "claim"
      /\ sweep'.who = sweep.who /\ sweep'.todo = sweep.todo
      /\ sweep'.now = sweep.now /\ sweep'.read = sweep.read
  BY <1>1 DEF TypeOK, UnreadTypeOK, Sweeps
<1>4. u \in Users /\ sweep.who = {u}
  BY DEF Attends, SweepHolds, TypeOK, UnreadTypeOK, Sweeps
<1>5. InHand' = InHand
  BY <1>2, <1>3 DEF InHand
<1>6. /\ UNCHANGED <<People, Calls>>
      /\ \A w \in Users : UNCHANGED <<Away(w), Mailed(w), Counting(w), Slack(w)>>
  BY <1>2, <1>5 DEF Away, Mailed, Counting, Slack, People, Chats, Calls
<1>7. SweepsOnTime' /\ MarksInOrder' /\ OwedAreUnread'
  BY <1>2, <1>3, <1>6 DEF Attends, SweepsOnTime, MarksInOrder, OwedAreUnread
<1>8. SweepHolds'
  <2>1. sweep'.at = "checked" => owed[u] = {}
    BY <1>3, <1>4 DEF Attends, OwedAreUnread
  <2>2. \A w \in InHand : UNCHANGED AsRead(w)
    BY <1>2, <1>3 DEF AsRead
  <2> QED BY <2>1, <2>2, <1>2, <1>3, <1>4, <1>5, <1>6 DEF Attends, SweepHolds
<1>9. CountdownsEnd' /\ NoneForgotten'
  BY <1>2, <1>3, <1>6 DEF Attends, CountdownsEnd, NoneForgotten, Awaiting, Telling
<1> QED
  BY <1>7, <1>8, <1>9 DEF Attends

LEMMA MarkCheckedAttends ==
    ASSUME TypeOK, Attends, Numbers, MarkChecked PROVE Attends'
<1>1. PICK u \in sweep.who : user' = [user EXCEPT ![u].checked = sweep.now]
  BY DEF MarkChecked, Stamp
<1>2. /\ sweep.at = "checked" /\ Done
      /\ UNCHANGED <<now, world, rooms, unread, started, swept, owed>>
  BY DEF MarkChecked
<1>3. /\ u \in Users /\ u \in People /\ u \notin sweep.todo
      /\ sweep'.at = "users" /\ sweep'.who = {} /\ sweep'.now = sweep.now
      /\ sweep'.todo = sweep.todo /\ sweep'.read = sweep.read
      /\ InHand' = InHand \ {u} /\ Slack(u)' = 0
      /\ \A w \in Users \ {u} : UNCHANGED Slack(w)
      /\ started # NoTime /\ sweep.now = swept
      /\ UNCHANGED <<People, Calls>>
  BY <1>2, ThroughWith
<1>4. /\ user'[u].seen = user[u].seen /\ user'[u].sent = user[u].sent
      /\ user'[u].checked = swept /\ user'[u].failed = user[u].failed
      /\ user'[u].countdown = user[u].countdown
      /\ \A w \in Users \ {u} : user'[w] = user[w]
  BY <1>1, <1>3 DEF TypeOK, UnreadTypeOK, Marks
<1>5. /\ \A w \in Users : UNCHANGED <<Away(w), Mailed(w)>>
      /\ \A w \in Users \ {u} : UNCHANGED Counting(w)
  BY <1>2, <1>4 DEF Away, Mailed, Counting
<1>6. AsRead(u) /\ (\A t \in owed[u] : t > swept) /\ user[u].sent <= swept
  BY <1>2, <1>3 DEF Attends, SweepHolds, InHand, MarksInOrder
<1>7. ~Counting(u)' /\ swept \in Int
  BY <1>3, <1>4, <1>6 DEF Counting, AsRead, Numbers
<1>8. SweepsOnTime' /\ OwedAreUnread'
  BY <1>2, <1>3 DEF Attends, SweepsOnTime, OwedAreUnread
<1>9. MarksInOrder'
  BY <1>2, <1>3, <1>4, <1>5, <1>7 DEF Attends, MarksInOrder
<1>10. SweepHolds'
  <2>1. ASSUME NEW w \in InHand' PROVE AsRead(w)'
    <3>1. AsRead(w) /\ w # u /\ w \in Users
      BY <2>1, <1>3 DEF Attends, SweepHolds, InHand, TypeOK, UnreadTypeOK, Sweeps
    <3> QED BY <3>1, <1>2, <1>3, <1>4 DEF AsRead
  <2> QED BY <2>1, <1>3 DEF Attends, SweepHolds
<1>11. CountdownsEnd'
  BY <1>2, <1>3, <1>4, <1>5, <1>7 DEF Attends, CountdownsEnd
<1>12. NoneForgotten'
  <2> SUFFICES ASSUME NEW w \in Users, NEW t \in owed[w] PROVE Awaiting(w, t)'
    BY <1>2 DEF NoneForgotten
  <2>1. Awaiting(w, t)
    BY <1>2, <1>3 DEF Attends, NoneForgotten, Telling
  <2>2. CASE w # u
    BY <2>1, <2>2, <1>2, <1>3, <1>4, <1>5 DEF Awaiting
  <2>3. CASE w = u
    <3>1. t > swept /\ swept < t + 0 /\ t > user[u].sent
      BY <2>3, <1>3, <1>6 DEF Numbers
    <3> QED BY <3>1, <2>3, <1>2, <1>3, <1>4, <1>7 DEF Awaiting
  <2> QED BY <2>2, <2>3
<1> QED
  BY <1>8, <1>9, <1>10, <1>11, <1>12 DEF Attends

(* The claim: with the mail the marks are as new as the tick; or the user  *)
(* was back, and waits anew.                                               *)
LEMMA ClaimMailAttends ==
    ASSUME TypeOK, Attends, Numbers, ClaimMail PROVE Attends'
<1>1. PICK u \in sweep.who :
        IF /\ user[u].seen = sweep.read[u].seen
           /\ user[u].sent = sweep.read[u].sent
        THEN /\ user' = [user EXCEPT ![u].sent = sweep.now, ![u].checked = sweep.now]
             /\ Doing("mail")
        ELSE Done /\ UNCHANGED user
  BY DEF ClaimMail
<1>2. /\ sweep.at = "claim"
      /\ UNCHANGED <<now, world, rooms, unread, started, swept, owed>>
  BY DEF ClaimMail
<1>3. /\ u \in Users /\ u \in People /\ u \in InHand /\ sweep.who = {u} /\ u \notin sweep.todo
  BY <1>2 DEF Attends, SweepHolds, InHand, TypeOK, UnreadTypeOK, Sweeps
<1>4. AsRead(u) /\ started # NoTime /\ sweep.now = swept /\ swept - started >= Idle
  BY <1>2, <1>3 DEF Attends, SweepHolds, SweepsOnTime
<1>5. Interval \in Nat /\ Idle \in Nat /\ Slack(u) = Interval
  BY <1>3, TimerAssumption, UnreadAssumption DEF Slack
<1>6. CASE user[u].seen # sweep.read[u].seen
  <2>1. Done /\ UNCHANGED user
    BY <1>1, <1>6
  <2>2. /\ sweep'.at = "users" /\ sweep'.who = {} /\ sweep'.now = sweep.now
        /\ sweep'.todo = sweep.todo /\ sweep'.read = sweep.read
        /\ InHand' = InHand \ {u} /\ Slack(u)' = 0
        /\ \A w \in Users \ {u} : UNCHANGED Slack(w)
        /\ UNCHANGED <<People, Calls>>
    BY <2>1, <1>2, ThroughWith
  <2>3. \A w \in Users : UNCHANGED <<Away(w), Mailed(w), Counting(w)>>
    BY <2>1, <1>2 DEF Away, Mailed, Counting
  <2>4. user[u].seen > swept /\ user[u].sent <= swept
    BY <1>3, <1>4, <1>6 DEF AsRead, Attends, MarksInOrder
  <2>5. ~Mailed(u) /\ swept < Away(u) + Idle + 0
    BY <2>4, <1>3, <1>5 DEF Mailed, Numbers
  <2>6. SweepsOnTime' /\ OwedAreUnread' /\ MarksInOrder'
    BY <1>2, <2>1, <2>2, <2>3 DEF Attends, SweepsOnTime, OwedAreUnread, MarksInOrder
  <2>7. SweepHolds'
    <3>1. ASSUME NEW w \in InHand' PROVE AsRead(w)'
      BY <3>1, <1>2, <2>1, <2>2 DEF Attends, SweepHolds, AsRead
    <3> QED BY <3>1, <2>2 DEF Attends, SweepHolds
  <2>8. CountdownsEnd'
    BY <1>2, <2>1, <2>2, <2>3, <2>5 DEF Attends, CountdownsEnd
  <2>9. NoneForgotten'
    <3> SUFFICES ASSUME NEW w \in Users, NEW t \in owed[w] PROVE Awaiting(w, t)'
      BY <1>2 DEF NoneForgotten
    <3>1. Awaiting(w, t)
      BY <1>2, <1>4 DEF Attends, NoneForgotten, Telling
    <3>2. CASE w # u
      BY <3>1, <3>2, <1>2, <2>1, <2>2, <2>3 DEF Awaiting
    <3>3. CASE w = u
      BY <3>1, <3>3, <1>2, <2>1, <2>2, <2>3, <2>5 DEF Awaiting
    <3> QED BY <3>2, <3>3
  <2> QED BY <2>6, <2>7, <2>8, <2>9 DEF Attends
<1>7. CASE user[u].seen = sweep.read[u].seen
  <2>1. /\ user' = [user EXCEPT ![u].sent = sweep.now, ![u].checked = sweep.now]
        /\ Doing("mail")
    BY <1>1, <1>4, <1>7 DEF AsRead
  <2>2. /\ sweep'.at = "mail" /\ sweep'.who = sweep.who /\ sweep'.now = sweep.now
        /\ sweep'.todo = sweep.todo /\ sweep'.read = sweep.read
    BY <2>1 DEF Doing, TypeOK, UnreadTypeOK, Sweeps
  <2>3. /\ user'[u].seen = user[u].seen /\ user'[u].sent = swept
        /\ user'[u].checked = swept /\ user'[u].failed = user[u].failed
        /\ user'[u].countdown = user[u].countdown
        /\ \A w \in Users \ {u} : user'[w] = user[w]
    BY <2>1, <1>3, <1>4 DEF TypeOK, UnreadTypeOK, Marks
  <2>4. InHand' = InHand \ {u}
    BY <2>2, <1>2, <1>3 DEF InHand
  <2>5. /\ Slack(u)' = 0 /\ \A w \in Users \ {u} : UNCHANGED Slack(w)
        /\ \A w \in Users : UNCHANGED Away(w)
        /\ \A w \in Users \ {u} : UNCHANGED <<Mailed(w), Counting(w)>>
        /\ UNCHANGED <<People, Calls>>
    BY <1>2, <2>3, <2>4 DEF Slack, Away, Mailed, Counting, People, Chats, Calls
  <2>6. swept >= Away(u) + Idle /\ user[u].countdown <= swept /\ ~Counting(u)'
    <3>1. sweep.read[u].seen <= swept - Idle /\ user[u].countdown <= swept
      BY <1>4 DEF AsRead
    <3>2. Away(u) \in {user[u].seen, started}
      BY <1>3 DEF Numbers
    <3>3. swept >= Away(u) + Idle
      BY <3>1, <3>2, <1>3, <1>4, <1>5, <1>7 DEF Numbers
    <3> QED BY <3>1, <3>3, <2>3, <1>3 DEF Counting, Numbers
  <2>7. SweepsOnTime' /\ OwedAreUnread'
    BY <1>2, <2>2, <2>5 DEF Attends, SweepsOnTime, OwedAreUnread
  <2>8. MarksInOrder'
    <3>1. swept <= swept
      BY DEF Numbers
    <3> QED BY <3>1, <1>2, <1>3, <2>3, <2>5, <2>6 DEF Attends, MarksInOrder
  <2>9. SweepHolds'
    <3>1. ASSUME NEW w \in InHand' PROVE AsRead(w)'
      <4>1. AsRead(w) /\ w # u /\ w \in Users
        BY <3>1, <2>4 DEF Attends, SweepHolds, InHand, TypeOK, UnreadTypeOK, Sweeps
      <4> QED BY <4>1, <1>2, <2>2, <2>3 DEF AsRead
    <3> QED BY <3>1, <1>3, <2>2, <2>5 DEF Attends, SweepHolds
  <2>10. CountdownsEnd'
    BY <1>2, <2>3, <2>5, <2>6 DEF Attends, CountdownsEnd
  <2>11. NoneForgotten'
    <3> SUFFICES ASSUME NEW w \in Users, NEW t \in owed[w]
                 PROVE  (Awaiting(w, t) \/ Telling(w, t))'
      BY <1>2 DEF NoneForgotten
    <3>1. Awaiting(w, t) /\ t \in Int
      BY <1>2, <1>4 DEF Attends, NoneForgotten, Telling, Numbers
    <3>2. CASE w # u
      BY <3>1, <3>2, <1>2, <2>3, <2>5 DEF Awaiting
    <3>3. CASE w = u /\ t > swept
      <4>1. swept < t + 0
        BY <3>1, <3>3 DEF Numbers
      <4>2. Mailed(u)'
        BY <1>2, <1>3, <1>4, <1>5, <2>3, <2>5, <2>6 DEF Mailed, Numbers
      <4> QED BY <4>1, <4>2, <3>3, <1>2, <2>3, <2>5, <2>6 DEF Awaiting
    <3>4. CASE w = u /\ t <= swept
      <4>1. Away(u) \in Int /\ swept \in Int /\ user[u].countdown \in Int
        BY <1>3 DEF Numbers
      <4>2. CASE ~Mailed(u)
        <5>1. swept < t + Interval \/ swept < Away(u) + Idle + Interval
          BY <3>1, <3>4, <4>2, <1>5 DEF Awaiting
        <5>2. swept < t + Idle + 2 * Interval \/ swept < Away(u) + Idle + 2 * Interval
          BY <5>1, <4>1, <3>1, <1>5
        <5> QED BY <5>2, <3>4, <1>2, <1>3, <2>2, <2>5 DEF Telling
      <4>3. CASE Mailed(u) /\ Counting(u)
        <5>1. swept < user[u].countdown + Idle + Interval /\ user[u].countdown <= t + Interval
          BY <3>1, <3>4, <4>3, <1>3, <1>5 DEF Awaiting, Attends, CountdownsEnd
        <5>2. swept < t + Idle + 2 * Interval
          BY <5>1, <4>1, <3>1, <1>5
        <5> QED BY <5>2, <3>4, <1>2, <1>3, <2>2, <2>5 DEF Telling
      <4>4. CASE Mailed(u) /\ ~Counting(u)
        <5>1. swept < t + Interval
          BY <3>1, <3>4, <4>4, <1>5 DEF Awaiting
        <5>2. swept < t + Idle + 2 * Interval
          BY <5>1, <4>1, <3>1, <1>5
        <5> QED BY <5>2, <3>4, <1>2, <1>3, <2>2, <2>5 DEF Telling
      <4> QED BY <4>2, <4>3, <4>4
    <3>5. t > swept \/ t <= swept
      BY <3>1 DEF Numbers
    <3> QED BY <3>2, <3>3, <3>4, <3>5
  <2> QED BY <2>7, <2>8, <2>9, <2>10, <2>11 DEF Attends
<1> QED
  BY <1>6, <1>7

LEMMA SendMailAttends ==
    ASSUME TypeOK, Attends, Numbers, SendMail PROVE Attends'
<1>1. /\ sweep.at = "mail" /\ Done
      /\ owed' = [u \in Users |-> IF u \in sweep.who
                      THEN {t \in owed[u] : t > sweep.now} ELSE owed[u]]
      /\ UNCHANGED <<now, world, user, rooms, unread, started, swept>>
  BY DEF SendMail
<1>2. /\ sweep'.at = "users" /\ sweep'.who = {} /\ sweep'.now = sweep.now
      /\ sweep'.todo = sweep.todo /\ sweep'.read = sweep.read
  BY <1>1 DEF Done, TypeOK, UnreadTypeOK, Sweeps
<1>3. InHand' = InHand /\ sweep.now = swept
  BY <1>1, <1>2 DEF InHand, Attends, SweepsOnTime
<1>4. /\ UNCHANGED <<People, Calls>>
      /\ \A w \in Users : UNCHANGED <<Away(w), Mailed(w), Counting(w), Slack(w)>>
  BY <1>1, <1>3 DEF Away, Mailed, Counting, Slack, People, Chats, Calls
<1>5. \A w \in Users : \A t \in owed'[w] : t \in owed[w] /\ (w \in sweep.who => t > swept)
  BY <1>1, <1>3
<1>6. SweepsOnTime' /\ OwedAreUnread' /\ MarksInOrder'
  BY <1>1, <1>2, <1>4, <1>5 DEF Attends, SweepsOnTime, OwedAreUnread, MarksInOrder
<1>7. SweepHolds'
  <2>1. \A w \in InHand : UNCHANGED AsRead(w)
    BY <1>1, <1>2 DEF AsRead
  <2> QED BY <2>1, <1>2, <1>3, <1>4 DEF Attends, SweepHolds
<1>8. CountdownsEnd'
  BY <1>1, <1>4 DEF Attends, CountdownsEnd
<1>9. NoneForgotten'
  <2> SUFFICES ASSUME NEW w \in Users, NEW t \in owed'[w], started # NoTime
               PROVE  Awaiting(w, t)'
    BY <1>1 DEF NoneForgotten
  <2>1. ~Telling(w, t)
    <3>1. t \in owed[w] /\ (w \in sweep.who => t > swept)
      BY <1>5
    <3> QED BY <3>1 DEF Telling, Numbers
  <2>2. Awaiting(w, t)
    BY <2>1, <1>5 DEF Attends, NoneForgotten
  <2> QED BY <2>2, <1>1, <1>4 DEF Awaiting
<1> QED
  BY <1>6, <1>7, <1>8, <1>9 DEF Attends

Attending == Answering => Attends

LEMMA AttendingStep == TypeOK /\ TypeOK' /\ Numbers' /\ Attending /\ [Next]_vars => Attending'
<1> SUFFICES ASSUME TypeOK, TypeOK', Numbers', Attending, [Next]_vars, Answering'
             PROVE  Attends'
  BY DEF Attending
<1>1. world'.env = world.env
  BY EnvironmentStays
<1>2. Answering /\ Attends /\ Numbers
  BY <1>1, NumbersHold DEF Attending, Answering, Faults
<1>3. /\ ~Fault("rocketchat") /\ ~Fault("send") /\ ~Fault("crash")
  BY <1>2 DEF Answering, Fault
<1>4. CASE Clock
  BY <1>2, <1>4, ClockAttends
<1>5. CASE Crash
  BY <1>3, <1>5 DEF Crash
<1>6. CASE UnreadStep
  <2>1. ASSUME NEW u \in Users, Visit(u) PROVE Attends'
    BY <2>1, <1>1, <1>2, VisitAttends
  <2>2. ASSUME NEW u \in Users, NEW r \in Rooms, Message(u, r) PROVE Attends'
    BY <2>2, <1>1, <1>2, MessageAttends
  <2>3. CASE Sweep
    BY <2>3, <1>1, <1>2, SweepAttends
  <2>4. CASE SweepUser
    BY <2>4, <1>2, SweepUserAttends
  <2>5. CASE SweepEnds
    BY <2>5, <1>2, SweepEndsAttends
  <2>6. CASE StartCountdown
    BY <2>6, <1>2, StartCountdownAttends
  <2>7. CASE CountUnread
    BY <2>7, <1>2, CountUnreadAttends
  <2>8. ~CountFails /\ ~SendFails /\ ~MarkFailed
    BY <1>2, <1>3 DEF CountFails, SendFails, MarkFailed, Attends, SweepHolds
  <2>9. CASE MarkChecked
    BY <2>9, <1>2, MarkCheckedAttends
  <2>10. CASE ClaimMail
    BY <2>10, <1>2, ClaimMailAttends
  <2>11. CASE SendMail
    BY <2>11, <1>2, SendMailAttends
  <2> QED BY <1>6, <2>1, <2>2, <2>3, <2>4, <2>5, <2>6, <2>7, <2>8, <2>9, <2>10, <2>11
          DEF UnreadStep
<1>7. CASE UNCHANGED <<now, unreadVars>>
  <2>1. /\ UNCHANGED <<now, user, rooms, unread, started, swept, sweep, owed>>
        /\ UNCHANGED <<People, Calls, InHand>>
    BY <1>1, <1>7 DEF unreadVars, People, Chats, Calls, InHand
  <2>2. \A w : UNCHANGED <<Away(w), Mailed(w), Counting(w), Slack(w), AsRead(w), ToCount(w)>>
    BY <2>1 DEF Away, Mailed, Counting, Slack, AsRead, ToCount
  <2>3. SweepsOnTime' /\ MarksInOrder' /\ OwedAreUnread'
    BY <1>2, <2>1, <2>2 DEF Attends, SweepsOnTime, MarksInOrder, OwedAreUnread
  <2>4. SweepHolds' /\ CountdownsEnd'
    BY <1>2, <2>1, <2>2 DEF Attends, SweepHolds, CountdownsEnd
  <2>5. NoneForgotten'
    BY <1>2, <2>1, <2>2 DEF Attends, NoneForgotten, Awaiting, Telling
  <2> QED BY <2>3, <2>4, <2>5 DEF Attends
<1>8. ReminderStep => UNCHANGED now
  BY DEF ReminderStep, Confirm, CancelSession, MoveStart, Tick, ReadActivation,
         Activate, FindDue, Claim, TickEnds, Mail, MailFails
<1> QED
  BY <1>4, <1>5, <1>6, <1>7, <1>8 DEF Next, vars

(* While Rocket.Chat answers, whoever stays away is told of an unread      *)
(* message within the idle time and two ticks, whatever else they, other   *)
(* users and the clock do meanwhile.                                       *)
THEOREM AbsentAreTold == Spec => []ToldInTime
<1>1. Init => Attending
  <2> SUFFICES ASSUME Init PROVE Attends
    BY DEF Attending
  <2>1. /\ now = 0 /\ started = NoTime /\ swept = NoTime /\ sweep = NoSweep
        /\ user = [u \in Users |-> Blank] /\ owed = [u \in Users |-> {}]
        /\ rooms = [u \in Users |-> [r \in Rooms |-> NoTime]]
    BY DEF Init, UnreadInit
  <2>2. sweep.at = "idle" /\ sweep.todo = {} /\ sweep.who = {} /\ InHand = {}
    BY <2>1 DEF NoSweep, InHand
  <2>3. SweepsOnTime /\ OwedAreUnread
    BY <2>1, <2>2 DEF SweepsOnTime, OwedAreUnread, NoTime
  <2>4. MarksInOrder
    BY <2>1 DEF MarksInOrder, Blank, NoTime
  <2>5. SweepHolds /\ CountdownsEnd /\ NoneForgotten
    BY <2>1, <2>2 DEF SweepHolds, CountdownsEnd, NoneForgotten, Mailed
  <2> QED BY <2>3, <2>4, <2>5 DEF Attends
<1>2. TypeOK /\ Attending => ToldInTime
  <2> SUFFICES ASSUME Attends, Numbers, started # NoTime, NEW u \in Users, NEW t \in owed[u]
               PROVE  now <= Latest({t, user[u].seen, started}) + Idle + 2 * Interval
    BY NumbersHold DEF ToldInTime, Attending, Answering
  <2> DEFINE latest == Latest({t, user[u].seen, started})
  <2>1. /\ t \in Int /\ user[u].seen \in Int /\ started \in Int /\ now \in Int /\ swept \in Int
        /\ Away(u) \in {user[u].seen, started} /\ user[u].countdown \in Int
        /\ Interval \in Nat \ {0} /\ Idle \in Nat
    BY TimerAssumption, UnreadAssumption DEF Numbers
  <2>2. latest \in Int /\ t <= latest /\ Away(u) <= latest
    <3>1. PICK m \in {t, user[u].seen, started} : \A v \in {t, user[u].seen, started} : v <= m
      <4>1. (\E m \in {user[u].seen, started} : user[u].seen <= m /\ started <= m)
        BY <2>1
      <4>2. PICK n \in {user[u].seen, started} : user[u].seen <= n /\ started <= n
        BY <4>1
      <4>3. CASE t <= n
        BY <4>2, <4>3
      <4>4. CASE n <= t
        BY <4>2, <4>4, <2>1
      <4> QED BY <4>3, <4>4, <4>2, <2>1
    <3>2. /\ latest \in {t, user[u].seen, started}
          /\ \A v \in {t, user[u].seen, started} : v <= latest
      BY <3>1 DEF Latest
    <3> HIDE DEF latest
    <3> QED BY <3>2, <2>1
  <2> HIDE DEF latest
  <2>3. now <= swept + Interval /\ (sweep.at # "idle" => now <= swept + 1)
    BY <2>1 DEF Attends, SweepsOnTime
  <2>4. now <= swept + 1 \/ Slack(u) = 0
    <3>1. sweep.at = "idle" => InHand = {}
      BY DEF Attends, SweepHolds, InHand
    <3> QED BY <3>1, <2>3 DEF Slack
  <2>5. Slack(u) \in {0, Interval}
    BY DEF Slack
  <2>6. \/ swept < t + Slack(u) \/ swept < Away(u) + Idle + Slack(u)
        \/ swept < t + Interval + Idle + Slack(u)
        \/ now <= swept + 1 /\ (swept < t + Idle + 2 * Interval
                                \/ swept < Away(u) + Idle + 2 * Interval)
    <3>1. Awaiting(u, t) \/ Telling(u, t)
      BY DEF Attends, NoneForgotten
    <3>2. CASE Telling(u, t)
      BY <3>2, <2>3 DEF Telling
    <3>3. CASE Awaiting(u, t) /\ ~(Mailed(u) /\ Counting(u))
      BY <3>3 DEF Awaiting
    <3>4. CASE Awaiting(u, t) /\ Mailed(u) /\ Counting(u)
      <4>1. user[u].countdown <= t + Interval
            /\ swept < user[u].countdown + Idle + Slack(u)
        BY <3>4 DEF Awaiting, Attends, CountdownsEnd
      <4> QED BY <4>1, <2>1, <2>5
    <3> QED BY <3>1, <3>2, <3>3, <3>4
  <2>7. Away(u) \in Int /\ now <= swept + Interval
    BY <2>1, <2>3
  <2>8. now <= latest + Idle + 2 * Interval
    BY <2>1, <2>2, <2>4, <2>5, <2>6, <2>7
  <2> QED BY <2>8 DEF latest
<1>3. TypeOK' => Numbers'
  BY NumbersHold, PTL
<1> QED
  BY <1>1, <1>2, <1>3, TypeInit, TypeStep, AttendingStep, PTL DEF Spec

=============================================================================
