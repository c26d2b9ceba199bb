---------------------------- MODULE MeetingRoles ----------------------------
(***************************************************************************)
(* The moderators of a meeting promote, demote and remove people.  Unless  *)
(* the environment has them do so, no two role changes overlap: demoting   *)
(* and removing write the whole list of delegates as it was read.          *)
(***************************************************************************)
EXTENDS MeetingStore

RoleLabels == {"promote", "demote", "remove"}

ChangesRole(s, l, u, v, m) ==
    /\ Acts /\ Free(s)
    /\ meeting[m].st = "active"
    /\ v \in Chat.members
    /\ Moderates(meeting[m], u)
    /\ "double" \in Calls \/ \A z \in Slots : run[z].at \notin RoleLabels
    /\ Calling(l)
    /\ Reads(s, l, u, v, m)
    /\ UNCHANGED <<now, docVars, roomVars, looked>>

(* delegateMeetingModerator *)
Promote(s, u, v, m) ==
    /\ MayJoin(meeting[m], u)
    /\ v \notin {u, Host(meeting[m])}
    /\ ChangesRole(s, "promote", u, v, m)

(* revokeDelegatedMeetingModerator; a delegate may step down. *)
Demote(s, u, v, m) ==
    /\ MayJoin(meeting[m], u)
    /\ v # Host(meeting[m])
    /\ v \in meeting[m].delegates
    /\ ChangesRole(s, "demote", u, v, m)

(* revokeMeetingParticipant: the caller may have been removed as well. *)
Remove(s, u, v, m) ==
    /\ u \in Chat.members
    /\ v # u /\ v \notin meeting[m].removed
    /\ ChangesRole(s, "remove", u, v, m)

Written(s, doc, delegates) ==
    /\ meeting' = [meeting EXCEPT ![run[s].m] = doc]
    /\ granted' = [granted EXCEPT ![run[s].m] = delegates]
    /\ Finish(s)
    /\ UNCHANGED <<now, world, invited, linked, roomVars, looked>>

(* The list is pushed to, unless the person was on it already. *)
SavePromotion(s) ==
    /\ At(s, "promote")
    /\ LET doc == meeting[run[s].m]
           v == run[s].v
       IN  Written(s, [doc EXCEPT !.delegates =
                          IF v \in run[s].doc.delegates THEN @ ELSE @ \cup {v}],
                      granted[run[s].m] \cup {v})

SaveDemotion(s) ==
    /\ At(s, "demote")
    /\ LET v == run[s].v
       IN  Written(s, [meeting[run[s].m] EXCEPT
                          !.delegates = run[s].doc.delegates \ {v}],
                      granted[run[s].m] \ {v})

SaveRemoval(s) ==
    /\ At(s, "remove")
    /\ LET v == run[s].v
           read == run[s].doc.delegates
       IN  Written(s, [meeting[run[s].m] EXCEPT !.removed = @ \cup {v},
                          !.delegates = IF v \in read THEN read \ {v} ELSE @],
                      granted[run[s].m] \ {v})

RoleStep(s) ==
    \/ \E u, v \in Users, m \in Meetings :
          Promote(s, u, v, m) \/ Demote(s, u, v, m) \/ Remove(s, u, v, m)
    \/ SavePromotion(s) \/ SaveDemotion(s) \/ SaveRemoval(s)
=============================================================================
