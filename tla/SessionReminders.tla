-------------------------- MODULE SessionReminders --------------------------
(***************************************************************************)
(* sweepSessionReminders: one mail of each kind before a session starts.   *)
(* Ticks overlap: with each other, with a restart, and with hosts and      *)
(* students who cancel.  GroupChat and Event documents are swept alike.    *)
(***************************************************************************)
EXTENDS SweepTimer

CONSTANTS
    Sessions,
    Slots,        \* ticks that can be in flight together
    Lead,         \* REMINDER_LEAD_MS
    Stale         \* REMINDER_STALE_AFTER_MS

Kinds == {"24h", "15m"}
Cutoff == Lead["15m"]

ASSUME ReminderAssumption ==
    /\ Lead \in [Kinds -> Nat] /\ Stale \in [Kinds -> Nat]
    /\ \A k \in Kinds : Interval <= Stale[k] /\ Stale[k] < Lead[k]
    /\ Lead["15m"] <= Lead["24h"]
    /\ \A e \in Environments : e.starts \subseteq 0..Horizon

VARIABLES
    session,      \* status, start, when it was confirmed, remindersSent
    activated,    \* AppState.reminderSweepActivatedAt
    ticked,       \* when the last tick began
    tick,         \* tick[s]: the tick in slot s
    mailed        \* mailed[g][k]: mails of kind k sent for session g

reminderVars == <<session, activated, ticked, tick, mailed>>

Labels == {"idle", "activation", "activate", "activated", "find", "claim", "mail"}
NoTick == [at |-> "idle", now |-> NoTime, notBefore |-> NoTime, due |-> {},
           one |-> {}]

Goto(s, l) == tick' = [tick EXCEPT ![s].at = l]

ReminderInit ==
    /\ session \in [Sessions ->
           {[st |-> "none", start |-> NoTime, since |-> NoTime, sent |-> {}]}
           \cup {[st |-> "active", start |-> t, since |-> 0, sent |-> {}] :
                     t \in world.env.starts}]
    /\ activated = NoTime
    /\ ticked = NoTime
    /\ tick = [s \in Slots |-> NoTick]
    /\ mailed = [g \in Sessions |-> [k \in Kinds |-> 0]]

-----------------------------------------------------------------------------
(* Sessions are confirmed, cancelled and, seminars, moved by their host. *)

Confirm(g) ==
    /\ "confirm" \in Calls
    /\ session[g].st = "none"
    /\ \E t \in world.env.starts :
          /\ t > now
          /\ session' = [session EXCEPT ![g] =
                [st |-> "active", start |-> t, since |-> now, sent |-> {}]]
    /\ UNCHANGED <<now, world, activated, ticked, tick, mailed>>

CancelSession(g) ==
    /\ "cancel" \in Calls
    /\ session[g].st = "active"
    /\ session' = [session EXCEPT ![g].st = "cancelled"]
    /\ UNCHANGED <<now, world, activated, ticked, tick, mailed>>

(* updateGroupChat: the new start; remindersSent stays as it is. *)
MoveStart(g) ==
    /\ "move" \in Calls
    /\ session[g].st = "active"
    /\ \E t \in world.env.starts :
          /\ t > now
          /\ session' = [session EXCEPT ![g].start = t]
    /\ UNCHANGED <<now, world, activated, ticked, tick, mailed>>

-----------------------------------------------------------------------------
(* dueReminders: the kinds whose mark has passed, not too long ago. *)

Mark(start, k) == start - Lead[k]

(* Mutant of Due: a 15-minute mail counts as stale from its mark on. *)
MutDue(doc, at, notBefore) ==
    {k \in Kinds \ doc.sent :
        /\ doc.start > at
        /\ doc.since <= doc.start - Cutoff
        /\ doc.since <= Mark(doc.start, k)
        /\ notBefore <= Mark(doc.start, k)
        /\ Mark(doc.start, k) < at
        /\ at - Mark(doc.start, k) < Stale[k]}

Due(doc, at, notBefore) ==
    {k \in Kinds \ doc.sent :
        /\ doc.start > at
        /\ doc.since <= doc.start - Cutoff
        /\ doc.since <= Mark(doc.start, k)
        /\ notBefore <= Mark(doc.start, k)
        /\ Mark(doc.start, k) <= at
        /\ at - Mark(doc.start, k) <= Stale[k]}

(* reminderQueryWindow *)
Found(doc, at) ==
    doc.st = "active" /\ at < doc.start /\ doc.start <= at + Lead["24h"]

-----------------------------------------------------------------------------
(* A tick; its "now" is fixed when it begins. *)

Tick(s) ==
    /\ "remind" \in Calls
    /\ tick[s].at = "idle"
    /\ ticked < now
    /\ ticked' = now
    /\ tick' = [tick EXCEPT ![s].at = "activation", ![s].now = now]
    /\ UNCHANGED <<now, world, session, activated, mailed>>

(* sweepActivatedAt: read, set unless set, read again. *)
ReadActivation(s) ==
    /\ tick[s].at \in {"activation", "activated"}
    /\ IF activated = NoTime THEN Goto(s, "activate")
       ELSE tick' = [tick EXCEPT ![s].at = "find", ![s].notBefore = activated]
    /\ UNCHANGED <<now, world, session, activated, ticked, mailed>>

Activate(s) ==
    /\ tick[s].at = "activate"
    /\ activated' = IF activated = NoTime THEN tick[s].now ELSE activated
    /\ Goto(s, "activated")
    /\ UNCHANGED <<now, world, session, ticked, mailed>>

(* All sessions of the window are read at once; what is due is decided on  *)
(* what was read.                                                          *)
FindDue(s) ==
    /\ tick[s].at = "find"
    /\ tick' = [tick EXCEPT ![s].at = "claim", ![s].due =
           {d \in Sessions \X Kinds :
               /\ Found(session[d[1]], tick[s].now)
               /\ d[2] \in Due(session[d[1]], tick[s].now, tick[s].notBefore)}]
    /\ UNCHANGED <<now, world, session, activated, ticked, mailed>>

(* Mutant of Claim: the mark is set whether or not it was set before. *)
MutClaim(s) ==
    /\ tick[s].at = "claim"
    /\ \E d \in tick[s].due :
          /\ tick' = [tick EXCEPT ![s].at = "mail", ![s].due = @ \ {d},
                                  ![s].one = {d}]
          /\ session' = [session EXCEPT ![d[1]].sent = @ \cup {d[2]}]
    /\ UNCHANGED <<now, world, activated, ticked, mailed>>

(* claimReminder, on the document as it is by now. *)
Claim(s) ==
    /\ tick[s].at = "claim"
    /\ \E d \in tick[s].due :
          /\ tick' = [tick EXCEPT ![s].due = @ \ {d},
                 ![s].at = IF d[2] \in session[d[1]].sent THEN @ ELSE "mail",
                 ![s].one = IF d[2] \in session[d[1]].sent THEN {} ELSE {d}]
          /\ session' = [session EXCEPT ![d[1]].sent = @ \cup {d[2]}]
    /\ UNCHANGED <<now, world, activated, ticked, mailed>>

TickEnds(s) ==
    /\ tick[s].at = "claim"
    /\ tick[s].due = {}
    /\ tick' = [tick EXCEPT ![s] = NoTick]
    /\ UNCHANGED <<now, world, session, activated, ticked, mailed>>

(* The host and the attendees are read and mailed one after another. *)
Mail(s) ==
    /\ tick[s].at = "mail"
    /\ \E d \in tick[s].one :
          mailed' = [mailed EXCEPT ![d[1]][d[2]] = @ + 1]
    /\ tick' = [tick EXCEPT ![s].at = "claim", ![s].one = {}]
    /\ UNCHANGED <<now, world, session, activated, ticked>>

(* remindOne: a failed send is logged. *)
MailFails(s) ==
    /\ tick[s].at = "mail"
    /\ Fault("send")
    /\ tick' = [tick EXCEPT ![s].at = "claim", ![s].one = {}]
    /\ UNCHANGED <<now, session, activated, ticked, mailed>>

ReminderStep ==
    \/ \E g \in Sessions : Confirm(g) \/ CancelSession(g) \/ MoveStart(g)
    \/ \E s \in Slots :
          \/ Tick(s) \/ ReadActivation(s) \/ Activate(s) \/ FindDue(s)
          \/ Claim(s) \/ TickEnds(s) \/ Mail(s) \/ MailFails(s)

(* The clock waits for the tick that is due, and no tick lasts longer than *)
(* a unit of time.                                                         *)
RemindersOnTime ==
    "remind" \in Calls /\ ticked # NoTime /\ "slow" \notin Faults =>
        /\ OnTime(ticked)
        /\ \A s \in Slots : tick[s].at # "idle" => now <= tick[s].now

-----------------------------------------------------------------------------
Documents ==
    [st: {"none", "active", "cancelled"}, start: Time, since: Time,
     sent: SUBSET Kinds]
Ticks ==
    [at: Labels, now: Time, notBefore: Time,
     due: SUBSET (Sessions \X Kinds), one: SUBSET (Sessions \X Kinds)]

ReminderTypeOK ==
    /\ session \in [Sessions -> Documents]
    /\ activated \in Time /\ ticked \in Time
    /\ tick \in [Slots -> Ticks]
    /\ mailed \in [Sessions -> [Kinds -> Nat]]

(* Nobody gets the same reminder twice, however ticks overlap, restart and *)
(* fail, and also if the session is moved.                                 *)
RemindedOnce == \A g \in Sessions, k \in Kinds : mailed[g][k] <= 1

(* A session confirmed before a mark has its reminder when it starts: a    *)
(* mark is never skipped between two ticks.  A restart or a failed send    *)
(* may lose the mail, and a session that is moved may get none.            *)
RemindedInTime ==
    ({"send", "crash", "slow"} \cap Faults = {} /\ "move" \notin Calls) =>
        \A g \in Sessions, k \in Kinds :
            /\ session[g].st = "active"
            /\ activated # NoTime
            /\ activated <= Mark(session[g].start, k)
            /\ session[g].since <= Mark(session[g].start, k)
            /\ session[g].start < now
            => mailed[g][k] = 1
=============================================================================
