--------------------------- MODULE MeetingsProofs ---------------------------
(***************************************************************************)
(* Meetings is well typed, requests that overlap lose nothing of each      *)
(* other's work, abandoned meetings end, and nobody is cut off, for any    *)
(* people, meetings and number of requests.                                *)
(***************************************************************************)
EXTENDS Meetings, FiniteSetTheorems, TLAPS

-----------------------------------------------------------------------------
(* The parts of the invariant.                                             *)

Runs == [at: Labels, u: Users \cup {NoOne}, v: Users \cup {NoOne},
         m: Meetings \cup {NoMeeting}, doc: Doc, ms: SUBSET Meetings, remote: Counts]

(* The documents and the requests; and everything else.                    *)
DocTypes ==
    /\ meeting \in [Meetings -> Doc]
    /\ granted \in [Meetings -> SUBSET Users]
    /\ linked \in [Meetings -> SUBSET Users]
    /\ run \in [Slots -> Runs]

RestTypes ==
    /\ now \in 0..Horizon
    /\ world \in [env: Environments, calls: Nat]
    /\ invited \in [Meetings -> Int]
    /\ tab \in [Users -> Tab]
    /\ pending \in [Users -> Meetings \cup {NoMeeting}]
    /\ posts \subseteq {"tab", "return"} \X Users \X Meetings
    /\ entered \in [Meetings -> Time]
    /\ left \in [Meetings -> [at: Time, alone: BOOLEAN]]
    /\ blind \subseteq Meetings
    /\ looked \subseteq Meetings

Writing == {"join"} \cup RoleLabels
Asking == Writing \cup StartLabels

(* A request that will write somebody into a document is of somebody, and  *)
(* about a meeting that was started.                                       *)
Callers ==
    \A s \in Slots :
        /\ run[s].at \in Asking => run[s].u \in Users
        /\ run[s].at \in RoleLabels => run[s].v \in Users
        /\ run[s].at \in Writing =>
              run[s].m \in Meetings /\ meeting[run[s].m].st # "none"

(* Nobody has a link or a role in a meeting that was not started.          *)
UnusedAreEmpty ==
    \A m \in Meetings : meeting[m].st = "none" =>
        linked[m] = {} /\ granted[m] = {} /\ meeting[m].delegates = {}

LinksKept == \A m \in Meetings : linked[m] \subseteq meeting[m].joined

(* Role changes go one by one, so that each writes on the list it read,    *)
(* and the list is that of the answers given.                              *)
RolesInTurn ==
    "double" \notin Calls =>
        /\ \A s, z \in Slots :
              run[s].at \in RoleLabels /\ run[z].at \in RoleLabels => s = z
        /\ \A s \in Slots : run[s].at \in RoleLabels =>
              run[s].doc.delegates = meeting[run[s].m].delegates
        /\ \A m \in Meetings : meeting[m].delegates = granted[m]

Kept == UnusedAreEmpty /\ LinksKept /\ RolesInTurn
MInv == DocTypes /\ RestTypes /\ Callers /\ Kept

LEMMA TypesAreBoth == TypeOK <=> DocTypes /\ RestTypes
BY DEF TypeOK, DocTypes, RestTypes, Runs

-----------------------------------------------------------------------------
(* What the steps do to requests and documents.                            *)

LEMMA NoDocIsDoc == NoDoc \in Doc
BY MeetingAssumption DEF NoDoc, Doc, Time, NoTime, Counts, NoCount

LEMMA IdleIsRun == Idle \in Runs /\ Idle.at = "idle"
BY NoDocIsDoc DEF Idle, Runs, Labels, Counts, NoCount

(* The request of s moves on: the others stay, and what it says of a       *)
(* document was just read there.                                           *)
RunMoves(s) ==
    /\ run' \in [Slots -> Runs]
    /\ \A z \in Slots \ {s} : run'[z] = run[z]
    /\ run'[s].at \in Asking => run'[s].u \in Users
    /\ run'[s].at \in Writing =>
          run'[s].m \in Meetings /\ meeting[run'[s].m].st # "none"
    /\ run'[s].at \in RoleLabels =>
          /\ run'[s].v \in Users
          /\ run'[s].doc = meeting[run'[s].m]
          /\ "double" \in Calls \/ \A z \in Slots : run[z].at \notin RoleLabels

(* No participant, delegate or meeting appears or disappears.              *)
DocsKeep ==
    /\ meeting' \in [Meetings -> Doc]
    /\ \A m \in Meetings :
          /\ meeting'[m].joined = meeting[m].joined
          /\ meeting'[m].delegates = meeting[m].delegates
          /\ meeting'[m].st = "none" => meeting[m].st = "none"
    /\ UNCHANGED <<granted, linked>>

SameEnv == world'.env = world.env

LEMMA RunEnds ==
    ASSUME DocTypes, NEW s \in Slots, Finish(s)
    PROVE  RunMoves(s) /\ run'[s].at = "idle"
<1>1. run' \in [Slots -> Runs] /\ run'[s].at = "idle"
      /\ \A z \in Slots \ {s} : run'[z] = run[z]
  BY IdleIsRun DEF Finish, DocTypes
<1>2. "idle" \notin Asking \cup Writing \cup RoleLabels
  BY DEF Asking, Writing, RoleLabels, StartLabels
<1> QED
  BY <1>1, <1>2 DEF RunMoves

LEMMA RunGoes ==
    ASSUME DocTypes, Callers, NEW s \in Slots, NEW l \in Labels \ Writing, Goto(s, l),
           run[s].at \in Asking \/ l \notin Asking
    PROVE  RunMoves(s) /\ run'[s].at = l
<1> DEFINE c == [run[s] EXCEPT !.at = l]
<1>1. c \in Runs /\ c.at = l /\ c.u = run[s].u
  BY DEF DocTypes, Runs
<1>2. run' = [run EXCEPT ![s] = c]
  BY DEF Goto
<1> HIDE DEF c
<1>3. run' \in [Slots -> Runs] /\ run'[s] = c /\ \A z \in Slots \ {s} : run'[z] = run[z]
  BY <1>1, <1>2 DEF DocTypes
<1>4. l \notin RoleLabels
  BY DEF Writing
<1> QED
  BY <1>1, <1>3, <1>4 DEF RunMoves, Callers

LEMMA RunReads ==
    ASSUME DocTypes, NEW s \in Slots, NEW l \in Labels, NEW u \in Users \cup {NoOne},
           NEW v \in Users \cup {NoOne}, NEW m \in Meetings, Reads(s, l, u, v, m),
           l \in Asking => u \in Users,
           l \in Writing => meeting[m].st # "none",
           l \in RoleLabels =>
              /\ v \in Users
              /\ "double" \in Calls \/ \A z \in Slots : run[z].at \notin RoleLabels
    PROVE  RunMoves(s)
<1> DEFINE c == [Idle EXCEPT !.at = l, !.u = u, !.v = v, !.m = m, !.doc = meeting[m]]
<1>1. c \in Runs /\ c.at = l /\ c.u = u /\ c.v = v /\ c.m = m /\ c.doc = meeting[m]
  BY IdleIsRun DEF DocTypes, Runs, Idle
<1>2. run' = [run EXCEPT ![s] = c]
  BY DEF Reads
<1> HIDE DEF c
<1>3. run' \in [Slots -> Runs] /\ run'[s] = c /\ \A z \in Slots \ {s} : run'[z] = run[z]
  BY <1>1, <1>2 DEF DocTypes
<1> QED
  BY <1>1, <1>3 DEF RunMoves

LEMMA DocsSame ==
    ASSUME DocTypes, UNCHANGED docVars
    PROVE  DocsKeep
BY DEF DocTypes, docVars, DocsKeep

LEMMA DocsEnd ==
    ASSUME DocTypes, NEW ms, Ended(ms), UNCHANGED <<granted, linked>>
    PROVE  DocsKeep
<1>1. \A m \in Meetings : LET d == [meeting[m] EXCEPT !.st = "ended"] IN
          d \in Doc /\ d.joined = meeting[m].joined
          /\ d.delegates = meeting[m].delegates /\ d.st = "ended"
  BY DEF DocTypes, Doc
<1>2. \A m \in Meetings : meeting'[m] = IF m \in ms THEN [meeting[m] EXCEPT !.st = "ended"]
                                        ELSE meeting[m]
  BY DEF Ended
<1>3. \A m \in Meetings : meeting'[m] \in Doc
  BY <1>1, <1>2 DEF DocTypes
<1>4. meeting' \in [Meetings -> Doc]
  BY <1>3 DEF Ended
<1> QED
  BY <1>1, <1>2, <1>4 DEF DocsKeep

LEMMA CallingKeeps ==
    ASSUME RestTypes, NEW k, Calling(k)
    PROVE  world' \in [env: Environments, calls: Nat] /\ SameEnv
<1>1. world' = [world EXCEPT !.calls = world.calls + 1]
  BY DEF Calling
<1> QED
  BY <1>1 DEF RestTypes, SameEnv

(* A step that keeps the documents and moves one request keeps the         *)
(* invariant; a step that moves none does as well.                         *)
LEMMA MovesKeep ==
    ASSUME MInv, NEW s \in Slots, DocsKeep, RunMoves(s), SameEnv
    PROVE  DocTypes' /\ Callers' /\ Kept'
<1> USE DEF MInv
<1>1. DocTypes'
  BY DEF DocTypes, DocsKeep, RunMoves
<1>2. \A z \in Slots : run[z].at \in Writing => meeting'[run[z].m].st # "none"
  BY DEF Callers, DocsKeep
<1>3. run'[s].at \in Writing => meeting'[run'[s].m].st # "none"
  BY DEF RunMoves, DocsKeep
<1>4. Callers'
  <2> SUFFICES ASSUME NEW z \in Slots
               PROVE  /\ run'[z].at \in Asking => run'[z].u \in Users
                      /\ run'[z].at \in RoleLabels => run'[z].v \in Users
                      /\ run'[z].at \in Writing =>
                            run'[z].m \in Meetings /\ meeting'[run'[z].m].st # "none"
    BY DEF Callers
  <2>1. CASE z = s
    BY <2>1, <1>3 DEF RunMoves
  <2>2. CASE z # s
    <3>1. run'[z] = run[z]
      BY <2>2 DEF RunMoves
    <3> QED
      BY <3>1, <1>2 DEF Callers
  <2> QED
    BY <2>1, <2>2
<1>5. UnusedAreEmpty' /\ LinksKept'
  BY DEF Kept, UnusedAreEmpty, LinksKept, DocsKeep
<1>6. RolesInTurn'
  <2> SUFFICES ASSUME "double" \notin Calls
               PROVE  /\ \A z, y \in Slots :
                            run'[z].at \in RoleLabels /\ run'[y].at \in RoleLabels => z = y
                      /\ \A z \in Slots : run'[z].at \in RoleLabels =>
                            run'[z].doc.delegates = meeting'[run'[z].m].delegates
                      /\ \A m \in Meetings : meeting'[m].delegates = granted'[m]
    BY DEF RolesInTurn, SameEnv, Calls
  <2>1. run'[s].at \in RoleLabels => \A z \in Slots : run[z].at \notin RoleLabels
    BY DEF RunMoves
  <2>2. \A z, y \in Slots : run'[z].at \in RoleLabels /\ run'[y].at \in RoleLabels => z = y
    BY <2>1 DEF RunMoves, Kept, RolesInTurn
  <2>3. ASSUME NEW z \in Slots, run'[z].at \in RoleLabels
        PROVE  run'[z].doc.delegates = meeting'[run'[z].m].delegates
    <3>1. CASE z = s
      <4>1. run'[s].m \in Meetings /\ run'[s].doc = meeting[run'[s].m]
        BY <2>3, <3>1 DEF RunMoves, Writing
      <4> QED
        BY <4>1, <3>1 DEF DocsKeep
    <3>2. CASE z # s
      <4>1. run'[z] = run[z]
        BY <3>2 DEF RunMoves
      <4>2. run[z].m \in Meetings /\ run[z].doc.delegates = meeting[run[z].m].delegates
        BY <4>1, <2>3 DEF Callers, Writing, Kept, RolesInTurn
      <4> QED
        BY <4>1, <4>2 DEF DocsKeep
    <3> QED
      BY <3>1, <3>2
  <2>4. \A m \in Meetings : meeting'[m].delegates = granted'[m]
    BY DEF Kept, RolesInTurn, DocsKeep
  <2> QED
    BY <2>2, <2>3, <2>4
<1> QED
  BY <1>1, <1>4, <1>5, <1>6 DEF Kept

LEMMA StillKeeps ==
    ASSUME MInv, UNCHANGED <<docVars, run>>, SameEnv
    PROVE  DocTypes' /\ Callers' /\ Kept'
BY DEF MInv, DocTypes, Callers, Kept, UnusedAreEmpty, LinksKept, RolesInTurn, docVars,
       SameEnv, Calls

-----------------------------------------------------------------------------
(* The steps that read a document, or move on without one.                 *)

LEMMA OpeningMoves ==
    ASSUME MInv, NEW s \in Slots, NEW l \in {"join", "end.right"}, NEW u \in Users,
           NEW m \in Meetings, Opening(s, l, u, NoOne, m)
    PROVE  DocsKeep /\ RunMoves(s)
<1>1. UNCHANGED docVars
  BY DEF Opening
<1>2. PICK k \in {"expire", l} : Reads(s, k, u, NoOne, m)
  BY DEF Opening
<1>3. k \in Labels /\ k \notin RoleLabels
  BY DEF Labels, RoleLabels
<1>4. meeting[m].st # "none"
  BY DEF Opening
<1>5. RunMoves(s)
  BY <1>2, <1>3, <1>4, RunReads DEF MInv
<1> QED
  BY <1>1, <1>5, DocsSame DEF MInv

LEMMA JoiningMoves ==
    ASSUME MInv, NEW s \in Slots, NEW u \in Users, NEW m \in Meetings,
           JoinByLink(s, u, m) \/ JoinByInvite(s, u, m) \/ EndByHost(s, u, m)
    PROVE  DocsKeep /\ RunMoves(s) /\ SameEnv
<1>1. \E k : Calling(k)
  BY DEF JoinByLink, JoinByInvite, EndByHost
<1>2. SameEnv
  BY <1>1, CallingKeeps DEF MInv
<1>3. \E l \in {"join", "end.right"} : Opening(s, l, u, NoOne, m)
  BY DEF JoinByLink, JoinByInvite, EndByHost
<1> QED
  BY <1>2, <1>3, OpeningMoves

LEMMA RolesMove ==
    ASSUME MInv, NEW s \in Slots, NEW u \in Users, NEW v \in Users, NEW m \in Meetings,
           Promote(s, u, v, m) \/ Demote(s, u, v, m) \/ Remove(s, u, v, m)
    PROVE  DocsKeep /\ RunMoves(s) /\ SameEnv
<1>1. PICK l \in RoleLabels : ChangesRole(s, l, u, v, m)
  BY DEF Promote, Demote, Remove, RoleLabels
<1>2. /\ Calling(l) /\ Reads(s, l, u, v, m) /\ UNCHANGED docVars
      /\ meeting[m].st = "active"
      /\ "double" \in Calls \/ \A z \in Slots : run[z].at \notin RoleLabels
  BY <1>1 DEF ChangesRole
<1>3. l \in Labels
  BY DEF Labels
<1>4. RunMoves(s)
  BY <1>2, <1>3, RunReads DEF MInv
<1> QED
  BY <1>2, <1>4, CallingKeeps, DocsSame DEF MInv

LEMMA StartMoves ==
    ASSUME MInv, NEW s \in Slots, NEW u \in Users, Start(s, u)
    PROVE  DocsKeep /\ RunMoves(s) /\ SameEnv
<1> DEFINE c == [Idle EXCEPT !.at = "start.find", !.u = u]
<1>1. c \in Runs /\ c.at = "start.find" /\ c.u = u
  BY IdleIsRun DEF Runs, Idle, Labels, StartLabels
<1>2. run' = [run EXCEPT ![s] = c]
  BY DEF Start
<1> HIDE DEF c
<1>3. run' \in [Slots -> Runs] /\ run'[s] = c /\ \A z \in Slots \ {s} : run'[z] = run[z]
  BY <1>1, <1>2 DEF MInv, DocTypes
<1>4. "start.find" \notin Writing /\ "start.find" \notin RoleLabels
  BY DEF Writing, RoleLabels
<1>5. RunMoves(s)
  BY <1>1, <1>3, <1>4 DEF RunMoves
<1>6. Calling("start") /\ UNCHANGED docVars
  BY DEF Start
<1> QED
  BY <1>5, <1>6, CallingKeeps, DocsSame DEF MInv

LEMMA StartsAnewMoves ==
    ASSUME MInv, NEW s \in Slots, run[s].at \in StartLabels, StartsAnew(s)
    PROVE  RunMoves(s)
<1>1. CASE Finish(s)
  BY <1>1, RunEnds DEF MInv
<1>2. CASE Goto(s, "start.close")
  <2>1. "start.close" \in Labels \ Writing /\ run[s].at \in Asking
    BY DEF Labels, StartLabels, Writing, RoleLabels, Asking
  <2> QED
    BY <1>2, <2>1, RunGoes DEF MInv
<1> QED
  BY <1>1, <1>2 DEF StartsAnew

LEMMA StartFindMoves ==
    ASSUME MInv, NEW s \in Slots, StartFind(s)
    PROVE  DocsKeep /\ RunMoves(s) /\ SameEnv
<1>1. UNCHANGED <<world, docVars>> /\ run[s].at = "start.find"
  BY DEF StartFind, At
<1>2. run[s].at \in StartLabels /\ run[s].at \in Asking
  BY <1>1 DEF StartLabels, Asking
<1>3. run[s].u \in Users
  BY <1>2 DEF MInv, Callers
<1>4. RunMoves(s)
  <2>1. CASE StartsAnew(s)
    BY <2>1, <1>2, StartsAnewMoves
  <2>2. CASE Finish(s)
    BY <2>2, RunEnds DEF MInv
  <2>3. ASSUME NEW m \in Newest, NEW l \in {"start.expire", "join"},
               Reads(s, l, run[s].u, NoOne, m)
        PROVE  RunMoves(s)
    <3>1. m \in Meetings /\ meeting[m].st # "none"
      BY DEF Newest, Active
    <3>2. l \in Labels /\ l \notin RoleLabels
      BY DEF Labels, StartLabels, RoleLabels
    <3> QED
      BY <2>3, <3>1, <3>2, <1>3, RunReads DEF MInv
  <2>4. \/ StartsAnew(s)
        \/ \E m \in Newest : \/ Reads(s, "start.expire", run[s].u, NoOne, m)
                             \/ Reads(s, "join", run[s].u, NoOne, m)
                             \/ Finish(s)
    BY DEF StartFind
  <2> QED
    BY <2>1, <2>2, <2>3, <2>4
<1> QED
  BY <1>1, <1>4, DocsSame DEF MInv, SameEnv

LEMMA StartCloseMoves ==
    ASSUME MInv, NEW s \in Slots, StartClose(s)
    PROVE  DocsKeep /\ RunMoves(s) /\ SameEnv
<1> DEFINE l == IF Active = {} THEN "start.create" ELSE "start.closed"
           c == [run[s] EXCEPT !.ms = Active, !.at = l]
<1>1. UNCHANGED <<world, docVars>> /\ run[s].at = "start.close"
  BY DEF StartClose, At
<1>2. Active \in SUBSET Meetings
  BY DEF Active
<1>3. l \in Labels /\ l \notin Writing /\ l \notin RoleLabels
  BY DEF Labels, StartLabels, Writing, RoleLabels
<1> HIDE DEF l
<1>4. c \in Runs /\ c.at = l /\ c.u = run[s].u
  BY <1>2, <1>3 DEF MInv, DocTypes, Runs
<1>5. run' = [run EXCEPT ![s] = c]
  BY DEF StartClose, l
<1> HIDE DEF c
<1>6. run' \in [Slots -> Runs] /\ run'[s] = c /\ \A z \in Slots \ {s} : run'[z] = run[z]
  BY <1>4, <1>5 DEF MInv, DocTypes
<1>7. run[s].u \in Users
  BY <1>1 DEF MInv, Callers, Asking, StartLabels
<1>8. RunMoves(s)
  BY <1>3, <1>4, <1>6, <1>7 DEF RunMoves
<1> QED
  BY <1>1, <1>8, DocsSame DEF MInv, SameEnv

LEMMA PostedMoves ==
    ASSUME MInv, NEW s \in Slots, NEW p \in posts, EndPosted(s, p)
    PROVE  \/ DocsKeep /\ RunMoves(s) /\ SameEnv
           \/ UNCHANGED <<docVars, run>> /\ SameEnv
<1>1. UNCHANGED <<world, docVars>>
  BY DEF EndPosted
<1>2. p[2] \in Users /\ p[3] \in Meetings
  BY DEF MInv, RestTypes
<1>3. ASSUME NEW l \in {"expire", "end.right", "end.last"},
             Reads(s, l, p[2], NoOne, p[3])
      PROVE  RunMoves(s)
  <2>1. l \in Labels /\ l \notin Asking /\ l \notin Writing /\ l \notin RoleLabels
    BY DEF Labels, Asking, Writing, RoleLabels, StartLabels
  <2> QED
    BY <1>2, <1>3, <2>1, RunReads DEF MInv
<1>4. \/ \E l \in {"expire", "end.right", "end.last"} : Reads(s, l, p[2], NoOne, p[3])
      \/ UNCHANGED run
  BY DEF EndPosted
<1> QED
  BY <1>1, <1>3, <1>4, DocsSame DEF MInv, SameEnv

LEMMA LookMoves ==
    ASSUME MInv, NEW s \in Slots, NEW m \in Meetings, Look(s, m)
    PROVE  \/ DocsKeep /\ RunMoves(s) /\ SameEnv
           \/ UNCHANGED <<docVars, run>> /\ SameEnv
<1>1. UNCHANGED <<world, docVars>>
  BY DEF Look
<1>2. ASSUME NEW l \in {"expire", "silent"}, Reads(s, l, NoOne, NoOne, m)
      PROVE  RunMoves(s)
  <2>1. l \in Labels /\ l \notin Asking /\ l \notin Writing /\ l \notin RoleLabels
    BY DEF Labels, Asking, Writing, RoleLabels, StartLabels
  <2> QED
    BY <1>2, <2>1, RunReads DEF MInv
<1>3. \/ \E l \in {"expire", "silent"} : Reads(s, l, NoOne, NoOne, m)
      \/ UNCHANGED run
  BY DEF Look
<1> QED
  BY <1>1, <1>2, <1>3, DocsSame DEF MInv, SameEnv

LEMMA LookAgainMoves ==
    ASSUME MInv, NEW s \in Slots, LookAgain(s)
    PROVE  DocsKeep /\ RunMoves(s) /\ SameEnv
<1>1. UNCHANGED <<world, docVars>>
  BY DEF LookAgain
<1>2. "end.silent" \in Labels \ Writing /\ "end.silent" \notin Asking
  BY DEF Labels, Asking, Writing, RoleLabels, StartLabels
<1>3. Finish(s) \/ Goto(s, "end.silent")
  BY DEF LookAgain
<1>4. RunMoves(s)
  BY <1>2, <1>3, RunEnds, RunGoes DEF MInv
<1> QED
  BY <1>1, <1>4, DocsSame DEF MInv, SameEnv

LEMMA ReportedIsCount ==
    ASSUME RestTypes, NEW u \in Users
    PROVE  Reported(u) \in Counts
<1>1. tab[u].count \in Counts /\ 0 \in Counts
  BY DEF RestTypes, Tab, Counts
<1> QED
  BY <1>1 DEF Reported

LEMMA HeartbeatMoves ==
    ASSUME MInv, NEW s \in Slots, NEW u \in Users, Heartbeat(s, u)
    PROVE  \/ DocsKeep /\ RunMoves(s) /\ SameEnv
           \/ UNCHANGED <<docVars, run>> /\ SameEnv
<1> DEFINE c == [Idle EXCEPT !.at = "beat", !.u = u, !.m = tab[u].m,
                             !.remote = Reported(u)]
<1>1. UNCHANGED <<world, docVars>>
  BY DEF Heartbeat
<1>2. tab[u].m \in Meetings \cup {NoMeeting}
  BY DEF MInv, RestTypes, Tab
<1>3. Reported(u) \in Counts
  BY ReportedIsCount DEF MInv
<1>4. c \in Runs /\ c.at = "beat"
  BY <1>2, <1>3, IdleIsRun DEF Runs, Idle, Labels
<1>5. UNCHANGED run \/ run' = [run EXCEPT ![s] = c]
  BY DEF Heartbeat
<1> HIDE DEF c
<1>6. ASSUME run' = [run EXCEPT ![s] = c]
      PROVE  RunMoves(s)
  <2>1. /\ run' \in [Slots -> Runs] /\ run'[s] = c
        /\ \A z \in Slots \ {s} : run'[z] = run[z]
    BY <1>4, <1>6 DEF MInv, DocTypes
  <2>2. "beat" \notin Asking \cup Writing \cup RoleLabels
    BY DEF Asking, Writing, RoleLabels, StartLabels
  <2> QED
    BY <1>4, <2>1, <2>2 DEF RunMoves
<1> QED
  BY <1>1, <1>5, <1>6, DocsSame DEF MInv, SameEnv

-----------------------------------------------------------------------------
(* The steps that end meetings or note a report.                           *)

LEMMA EndingMoves ==
    ASSUME MInv, NEW s \in Slots,
           Expire(s) \/ End(s) \/ EndSilent(s) \/ StartExpire(s) \/ StartClosed(s)
    PROVE  DocsKeep /\ RunMoves(s) /\ SameEnv
<1>1. UNCHANGED <<world, granted, linked>>
  BY DEF Expire, End, EndSilent, StartExpire, StartClosed
<1>2. \E ms : Ended(ms)
  BY DEF Expire, End, EndSilent, StartExpire, StartClosed
<1>3. DocsKeep
  BY <1>1, <1>2, DocsEnd DEF MInv
<1>4. CASE Finish(s)
  BY <1>1, <1>3, <1>4, RunEnds DEF MInv, SameEnv
<1>5. CASE StartExpire(s)
  <2>1. run[s].at \in StartLabels /\ StartsAnew(s)
    BY <1>5 DEF StartExpire, At, StartLabels
  <2> QED
    BY <1>1, <1>3, <2>1, StartsAnewMoves DEF SameEnv
<1>6. CASE StartClosed(s)
  <2>1. run[s].at \in Asking /\ Goto(s, "start.create")
    BY <1>6 DEF StartClosed, At, Asking, StartLabels
  <2>2. "start.create" \in Labels \ Writing
    BY DEF Labels, StartLabels, Writing, RoleLabels
  <2> QED
    BY <1>1, <1>3, <2>1, <2>2, RunGoes DEF MInv, SameEnv
<1> QED
  BY <1>4, <1>5, <1>6 DEF Expire, End, EndSilent

LEMMA BeatMoves ==
    ASSUME MInv, NEW s \in Slots, SaveBeat(s)
    PROVE  DocsKeep /\ RunMoves(s) /\ SameEnv
<1> DEFINE n == run[s].m
           d == [meeting[n] EXCEPT !.beat = now, !.remote = run[s].remote]
<1>1. meeting' = [meeting EXCEPT ![n] = d] /\ UNCHANGED <<world, granted, linked>>
  BY DEF SaveBeat
<1>2. now \in Time /\ run[s].remote \in Counts
  BY DEF MInv, RestTypes, DocTypes, Runs, Time
<1>3. n \in Meetings => /\ d \in Doc /\ d.joined = meeting[n].joined
                        /\ d.delegates = meeting[n].delegates /\ d.st = meeting[n].st
  BY <1>2, ZenonT(40) DEF MInv, DocTypes, Doc
<1> HIDE DEF d, n
<1>4. DocsKeep
  BY <1>1, <1>3 DEF MInv, DocTypes, DocsKeep
<1> QED
  BY <1>1, <1>4, RunEnds DEF MInv, SameEnv, SaveBeat

-----------------------------------------------------------------------------
(* The steps that write people into a document. *)

LEMMA WritesKeep ==
    ASSUME MInv, NEW s \in Slots, NEW m \in Meetings, NEW d \in Doc, d.st # "none",
           meeting' = [meeting EXCEPT ![m] = d], Finish(s), SameEnv,
           granted' \in [Meetings -> SUBSET Users], linked' \in [Meetings -> SUBSET Users],
           \A n \in Meetings \ {m} : granted'[n] = granted[n] /\ linked'[n] = linked[n],
           linked'[m] \subseteq d.joined,
           "double" \notin Calls =>
              /\ d.delegates = granted'[m]
              /\ \/ d.delegates = meeting[m].delegates
                 \/ \A z \in Slots \ {s} : run[z].at \notin RoleLabels
    PROVE  DocTypes' /\ Callers' /\ Kept'
<1> USE DEF MInv
<1>1. /\ meeting' \in [Meetings -> Doc] /\ meeting'[m] = d
      /\ \A n \in Meetings \ {m} : meeting'[n] = meeting[n]
  BY DEF DocTypes
<1>2. /\ run' \in [Slots -> Runs] /\ run'[s].at = "idle"
      /\ \A z \in Slots \ {s} : run'[z] = run[z]
  BY RunEnds DEF RunMoves
<1>3. "idle" \notin Asking /\ "idle" \notin Writing /\ "idle" \notin RoleLabels
  BY DEF Asking, Writing, RoleLabels, StartLabels
<1>4. DocTypes'
  BY <1>1, <1>2 DEF DocTypes
<1>5. \A n \in Meetings : meeting'[n].st = "none" => n # m /\ meeting[n].st = "none"
  BY <1>1
<1>6. Callers'
  <2> SUFFICES ASSUME NEW z \in Slots
               PROVE  /\ run'[z].at \in Asking => run'[z].u \in Users
                      /\ run'[z].at \in RoleLabels => run'[z].v \in Users
                      /\ run'[z].at \in Writing =>
                            run'[z].m \in Meetings /\ meeting'[run'[z].m].st # "none"
    BY DEF Callers
  <2>1. CASE z = s
    BY <2>1, <1>2, <1>3
  <2>2. CASE z # s
    BY <2>2, <1>2, <1>5 DEF Callers
  <2> QED
    BY <2>1, <2>2
<1>7. UnusedAreEmpty'
  BY <1>1, <1>5 DEF Kept, UnusedAreEmpty
<1>8. LinksKept'
  BY <1>1 DEF Kept, LinksKept
<1>9. RolesInTurn'
  <2> SUFFICES ASSUME "double" \notin Calls
               PROVE  /\ \A z, y \in Slots :
                            run'[z].at \in RoleLabels /\ run'[y].at \in RoleLabels => z = y
                      /\ \A z \in Slots : run'[z].at \in RoleLabels =>
                            run'[z].doc.delegates = meeting'[run'[z].m].delegates
                      /\ \A n \in Meetings : meeting'[n].delegates = granted'[n]
    BY DEF RolesInTurn, SameEnv, Calls
  <2>1. \A z \in Slots : run'[z].at \in RoleLabels => z # s /\ run'[z] = run[z]
    BY <1>2, <1>3
  <2>2. \A z, y \in Slots : run'[z].at \in RoleLabels /\ run'[y].at \in RoleLabels => z = y
    BY <2>1 DEF Kept, RolesInTurn
  <2>3. ASSUME NEW z \in Slots, run'[z].at \in RoleLabels
        PROVE  run'[z].doc.delegates = meeting'[run'[z].m].delegates
    <3>1. z # s /\ run'[z] = run[z] /\ run[z].at \in RoleLabels
      BY <2>1, <2>3
    <3>2. run[z].m \in Meetings /\ run[z].doc.delegates = meeting[run[z].m].delegates
      BY <3>1 DEF Callers, Writing, Kept, RolesInTurn
    <3>3. d.delegates = meeting[m].delegates
      BY <3>1
    <3> QED
      BY <1>1, <3>1, <3>2, <3>3
  <2>4. \A n \in Meetings : meeting'[n].delegates = granted'[n]
    BY <1>1 DEF Kept, RolesInTurn
  <2> QED
    BY <2>2, <2>3, <2>4
<1> QED
  BY <1>4, <1>6, <1>7, <1>8, <1>9 DEF Kept

LEMMA JoinKeeps ==
    ASSUME MInv, NEW s \in Slots, Join(s)
    PROVE  DocTypes' /\ Callers' /\ Kept'
<1> DEFINE m == run[s].m
           u == run[s].u
           d == [meeting[m] EXCEPT !.joined = meeting[m].joined \cup {u}]
<1>1. m \in Meetings /\ u \in Users /\ meeting[m].st # "none"
  BY DEF MInv, Callers, Join, At, Asking, Writing
<1>2. meeting' = [meeting EXCEPT ![m] = d]
  BY DEF Join
<1>3. /\ d \in Doc /\ d.st = meeting[m].st /\ d.delegates = meeting[m].delegates
      /\ d.joined = meeting[m].joined \cup {u}
  BY <1>1 DEF MInv, DocTypes, Doc
<1>4. linked' = [linked EXCEPT ![m] = linked[m] \cup {u}] /\ UNCHANGED <<world, granted>>
  BY DEF Join, Opens
<1>5. Finish(s)
  BY DEF Join
<1> HIDE DEF m, u, d
<1>6. /\ linked' \in [Meetings -> SUBSET Users] /\ linked'[m] = linked[m] \cup {u}
      /\ \A n \in Meetings \ {m} : linked'[n] = linked[n]
  BY <1>1, <1>4 DEF MInv, DocTypes
<1>7. linked'[m] \subseteq d.joined
  BY <1>1, <1>3, <1>6 DEF MInv, Kept, LinksKept
<1>8. "double" \notin Calls => d.delegates = granted'[m]
  BY <1>1, <1>3, <1>4 DEF MInv, Kept, RolesInTurn
<1>9. granted' \in [Meetings -> SUBSET Users] /\ SameEnv
  BY <1>4 DEF MInv, DocTypes, SameEnv
<1> QED
  BY <1>1, <1>2, <1>3, <1>4, <1>5, <1>6, <1>7, <1>8, <1>9, WritesKeep

LEMMA CreateKeeps ==
    ASSUME MInv, NEW s \in Slots, StartCreate(s)
    PROVE  DocTypes' /\ Callers' /\ Kept'
<1> DEFINE u == run[s].u
           d == [NoDoc EXCEPT !.st = "active", !.by = u, !.start = now, !.joined = {u}]
<1>1. PICK m \in Unused : meeting' = [meeting EXCEPT ![m] = d] /\ Opens(u, m)
  BY DEF StartCreate
<1>2. m \in Meetings /\ meeting[m].st = "none" /\ u \in Users /\ now \in Time
  BY DEF Unused, MInv, Callers, StartCreate, At, Asking, StartLabels, RestTypes, Time
<1>3. d \in Doc /\ d.st = "active" /\ d.delegates = {} /\ d.joined = {u}
  BY <1>2, NoDocIsDoc DEF Doc, NoDoc
<1>4. linked' = [linked EXCEPT ![m] = linked[m] \cup {u}] /\ UNCHANGED <<world, granted>>
  BY <1>1 DEF StartCreate, Opens
<1>5. linked[m] = {} /\ granted[m] = {} /\ meeting[m].delegates = {}
  BY <1>2 DEF MInv, Kept, UnusedAreEmpty
<1>6. Finish(s)
  BY DEF StartCreate
<1> HIDE DEF u, d
<1>7. /\ linked' \in [Meetings -> SUBSET Users] /\ linked'[m] = {u}
      /\ \A n \in Meetings \ {m} : linked'[n] = linked[n]
  BY <1>2, <1>4, <1>5 DEF MInv, DocTypes
<1>8. granted' \in [Meetings -> SUBSET Users] /\ SameEnv
  BY <1>4 DEF MInv, DocTypes, SameEnv
<1> QED
  BY <1>1, <1>2, <1>3, <1>4, <1>5, <1>6, <1>7, <1>8, WritesKeep

LEMMA RolesKeep ==
    ASSUME MInv, NEW s \in Slots, SavePromotion(s) \/ SaveDemotion(s) \/ SaveRemoval(s)
    PROVE  DocTypes' /\ Callers' /\ Kept'
<1> DEFINE m == run[s].m
           v == run[s].v
<1>1. run[s].at \in RoleLabels
  BY DEF SavePromotion, SaveDemotion, SaveRemoval, At, RoleLabels
<1>2. m \in Meetings /\ v \in Users /\ meeting[m].st # "none"
  BY <1>1 DEF MInv, Callers, Writing
<1>3. "double" \notin Calls =>
         /\ run[s].doc.delegates = meeting[m].delegates
         /\ meeting[m].delegates = granted[m]
         /\ \A z \in Slots \ {s} : run[z].at \notin RoleLabels
  BY <1>1, <1>2 DEF MInv, Kept, RolesInTurn
<1>4. /\ run[s].doc \in Doc /\ run[s].doc.delegates \subseteq Users
      /\ meeting[m] \in Doc /\ granted[m] \subseteq Users
  BY <1>2 DEF MInv, DocTypes, Runs, Doc
<1>5. ASSUME NEW d \in Doc, NEW g \in SUBSET Users, Written(s, d, g),
             d.st = meeting[m].st, d.joined = meeting[m].joined,
             "double" \notin Calls => d.delegates = g
      PROVE  DocTypes' /\ Callers' /\ Kept'
  <2>1. /\ meeting' = [meeting EXCEPT ![m] = d] /\ granted' = [granted EXCEPT ![m] = g]
        /\ Finish(s) /\ UNCHANGED <<world, linked>>
    BY <1>5 DEF Written
  <2> HIDE DEF m, v
  <2>2. /\ granted' \in [Meetings -> SUBSET Users] /\ granted'[m] = g
        /\ \A n \in Meetings \ {m} : granted'[n] = granted[n]
    BY <1>2, <2>1 DEF MInv, DocTypes
  <2>3. linked' \in [Meetings -> SUBSET Users] /\ linked'[m] \subseteq d.joined /\ SameEnv
    BY <1>2, <1>5, <2>1 DEF MInv, DocTypes, Kept, LinksKept, SameEnv
  <2> QED
    BY <1>2, <1>3, <1>5, <2>1, <2>2, <2>3, WritesKeep
<1> DEFINE read == run[s].doc.delegates
<1>6. CASE SavePromotion(s)
  <2> DEFINE list == IF v \in read THEN meeting[m].delegates
                     ELSE meeting[m].delegates \cup {v}
             d == [meeting[m] EXCEPT !.delegates = list]
  <2>1. list \in SUBSET Users
    BY <1>2, <1>4 DEF Doc
  <2>2. "double" \notin Calls => list = granted[m] \cup {v}
    BY <1>3
  <2>3. Written(s, d, granted[m] \cup {v})
    BY <1>6 DEF SavePromotion
  <2> HIDE DEF list, m, v
  <2>4. d \in Doc /\ d.st = meeting[m].st /\ d.joined = meeting[m].joined
        /\ d.delegates = list
    BY <1>4, <2>1 DEF Doc
  <2> HIDE DEF d
  <2>5. granted[m] \cup {v} \in SUBSET Users
    BY <1>2, <1>4
  <2> QED
    BY <1>5, <2>2, <2>3, <2>4, <2>5
<1>7. CASE SaveDemotion(s)
  <2> DEFINE d == [meeting[m] EXCEPT !.delegates = read \ {v}]
  <2>1. Written(s, d, granted[m] \ {v})
    BY <1>7 DEF SaveDemotion
  <2> HIDE DEF m, v
  <2>2. d \in Doc /\ d.st = meeting[m].st /\ d.joined = meeting[m].joined
        /\ d.delegates = read \ {v}
    BY <1>4 DEF Doc
  <2> HIDE DEF d
  <2> QED
    BY <1>3, <1>4, <1>5, <2>1, <2>2
<1>8. CASE SaveRemoval(s)
  <2> DEFINE list == IF v \in read THEN read \ {v} ELSE meeting[m].delegates
             d == [meeting[m] EXCEPT !.removed = meeting[m].removed \cup {v},
                                     !.delegates = list]
  <2>1. list \in SUBSET Users
    BY <1>4 DEF Doc
  <2>2. "double" \notin Calls => list = granted[m] \ {v}
    BY <1>3
  <2>3. Written(s, d, granted[m] \ {v})
    BY <1>8 DEF SaveRemoval
  <2> HIDE DEF list, m, v
  <2>4. d \in Doc /\ d.st = meeting[m].st /\ d.joined = meeting[m].joined
        /\ d.delegates = list
    BY <1>2, <1>4, <2>1 DEF Doc
  <2> HIDE DEF d
  <2> QED
    BY <1>4, <1>5, <2>2, <2>3, <2>4
<1> QED
  BY <1>6, <1>7, <1>8

-----------------------------------------------------------------------------
(* The room, the clock and the counters keep their types.                  *)

LEMMA NoTabIsTab == NoTab \in Tab /\ NoTime \in Time /\ Occupied \in [at: Time, alone: BOOLEAN]
BY DEF NoTab, Tab, Time, Occupied, Counts

LEMMA CountsMove == \A n \in Counts : Heard(n) \in Counts /\ Missed(n) \in Counts
BY DEF Counts, NoCount, Heard, Missed

LEMMA WorldStays ==
    ASSUME RestTypes, UNCHANGED world \/ \E k : Calling(k)
    PROVE  world' \in [env: Environments, calls: Nat]
BY CallingKeeps DEF RestTypes

LEMMA TabsOpen ==
    ASSUME RestTypes, NEW u \in Users, NEW m \in Meetings, Opens(u, m)
    PROVE  tab' \in [Users -> Tab]
<1>1. [NoTab EXCEPT !.m = m, !.watched = TRUE] \in Tab
  BY NoTabIsTab DEF Tab, NoTab
<1> QED
  BY <1>1 DEF Opens, RestTypes

LEMMA TabsGo ==
    ASSUME RestTypes, NEW u \in Users, NEW asks, Gone(u, asks)
    PROVE  /\ tab' \in [Users -> Tab]
           /\ pending' \in [Users -> Meetings \cup {NoMeeting}]
           /\ left' \in [Meetings -> [at: Time, alone: BOOLEAN]]
           /\ UNCHANGED <<entered, blind>>
<1>1. now \in Time /\ tab[u].m \in Meetings \cup {NoMeeting}
  BY DEF RestTypes, Time, Tab
<1>2. \A v \in Users : \A t \in {now, tab[v].alone} :
         [tab[v] EXCEPT !.count = Missed(tab[v].count), !.alone = t] \in Tab
  <2> SUFFICES ASSUME NEW v \in Users, NEW t \in {now, tab[v].alone}
               PROVE  [tab[v] EXCEPT !.count = Missed(tab[v].count), !.alone = t] \in Tab
    OBVIOUS
  <2>1. tab[v] \in Tab
    BY DEF RestTypes
  <2>2. t \in Time /\ Missed(tab[v].count) \in Counts
    BY <1>1, <2>1, CountsMove DEF Tab
  <2> QED
    BY <2>1, <2>2 DEF Tab
<1>3. tab' \in [Users -> Tab]
  <2> DEFINE alone == {v \in Others(u) : Missed(tab[v].count) = 0}
  <2>1. tab' = [v \in Users |->
            CASE v = u -> NoTab
              [] v \in Others(u) ->
                     [tab[v] EXCEPT !.count = Missed(tab[v].count),
                                    !.alone = IF v \in alone THEN now ELSE tab[v].alone]
              [] OTHER -> tab[v]]
    BY DEF Gone
  <2> HIDE DEF alone
  <2> QED
    BY <1>2, <2>1, NoTabIsTab DEF RestTypes
<1>4. pending' \in [Users -> Meetings \cup {NoMeeting}]
  BY <1>1 DEF Gone, RestTypes
<1>5. left' \in [Meetings -> [at: Time, alone: BOOLEAN]]
  <2>1. [at |-> now, alone |-> tab[u].alone # NoTime /\ tab[u].told > tab[u].alone]
           \in [at: Time, alone: BOOLEAN]
    BY <1>1
  <2> QED
    BY <2>1 DEF Gone, RestTypes
<1> QED
  BY <1>3, <1>4, <1>5 DEF Gone

LEMMA RoomKeeps ==
    ASSUME MInv, RoomStep
    PROVE  RestTypes' /\ UNCHANGED run /\ UNCHANGED docVars /\ SameEnv
<1> USE DEF MInv
<1>1. ASSUME NEW u \in Users, NEW mine \in Tab, Comes(u, mine),
             pending' \in [Users -> Meetings \cup {NoMeeting}],
             UNCHANGED world \/ \E k : Calling(k)
      PROVE  RestTypes' /\ UNCHANGED run /\ UNCHANGED docVars /\ SameEnv
  <2>1. tab[u].m \in Meetings /\ now \in Time
    BY <1>1 DEF Comes, RestTypes, Tab, Time
  <2>2. \A v \in Users : [tab[v] EXCEPT !.alone = NoTime, !.count = Heard(tab[v].count)] \in Tab
    BY NoTabIsTab, CountsMove DEF RestTypes, Tab
  <2>3. tab' \in [Users -> Tab]
    BY <1>1, <2>2 DEF Comes, RestTypes
  <2>4. /\ entered' \in [Meetings -> Time]
        /\ left' \in [Meetings -> [at: Time, alone: BOOLEAN]]
    BY <1>1, <2>1, NoTabIsTab DEF Comes, RestTypes
  <2>5. world' \in [env: Environments, calls: Nat] /\ SameEnv
    BY <1>1, CallingKeeps DEF RestTypes, SameEnv
  <2> QED
    BY <1>1, <2>3, <2>4, <2>5 DEF Comes, RestTypes, docVars
<1>6. ASSUME NEW u \in Users, Enter(u)
      PROVE  RestTypes' /\ UNCHANGED run /\ UNCHANGED docVars /\ SameEnv
  <2> DEFINE others == InRoom(tab[u].m)
             t == IF others = {} THEN now ELSE NoTime
             mine == [tab[u] EXCEPT !.in = TRUE, !.count = Cardinality(others), !.alone = t]
  <2>1. Comes(u, mine) /\ UNCHANGED world /\ tab[u].m \in Meetings
    BY <1>6 DEF Enter, Comes, RestTypes, Tab
  <2>2. t \in Time /\ Cardinality(others) \in Counts
    <3>1. IsFiniteSet(others)
      BY MeetingAssumption, FS_Subset DEF InRoom
    <3>2. Cardinality(others) \in Nat
      BY <3>1, FS_CardinalityType
    <3> QED
      BY <3>2, NoTabIsTab DEF RestTypes, Time, Counts
  <2>3. pending' \in [Users -> Meetings \cup {NoMeeting}]
    BY <1>6, <2>1 DEF Enter, RestTypes
  <2> HIDE DEF others, t
  <2>4. mine \in Tab
    <3>1. tab[u] \in Tab
      BY DEF RestTypes
    <3> QED
      BY <2>2, <3>1 DEF Tab
  <2> HIDE DEF mine
  <2> QED
    BY <1>1, <2>1, <2>3, <2>4 DEF Comes
<1>7. ASSUME NEW u \in Users, EnterUnhooked(u)
      PROVE  RestTypes' /\ UNCHANGED run /\ UNCHANGED docVars /\ SameEnv
  <2>1. [tab[u] EXCEPT !.in = TRUE] \in Tab
    <3>1. tab[u] \in Tab
      BY DEF RestTypes
    <3> QED
      BY <3>1 DEF Tab
  <2>2. pending' \in [Users -> Meetings \cup {NoMeeting}]
    BY <1>7 DEF EnterUnhooked, RestTypes
  <2> QED
    BY <1>1, <1>7, <2>1, <2>2 DEF EnterUnhooked, Comes
<1>8. ASSUME NEW u \in Users, Hook(u)
      PROVE  RestTypes' /\ UNCHANGED run /\ UNCHANGED docVars /\ SameEnv
  <2>1. tab[u].m \in Meetings \cup {NoMeeting} /\ now \in Time /\ 0 \in Counts
    BY DEF RestTypes, Tab, Time, Counts
  <2>2. pending' \in [Users -> Meetings \cup {NoMeeting}]
    BY <1>8, <2>1 DEF Hook, RestTypes
  <2>3. [tab[u] EXCEPT !.count = 0, !.alone = now] \in Tab
    <3>1. tab[u] \in Tab
      BY DEF RestTypes
    <3> QED
      BY <2>1, <3>1 DEF Tab
  <2>5. tab' \in [Users -> Tab]
    BY <1>8, <2>3 DEF Hook, RestTypes
  <2>6. blind' \subseteq Meetings
    <3>1. tab[u].m \in Meetings
      BY <1>8, <2>1 DEF Hook
    <3> QED
      BY <1>8, <3>1 DEF Hook, RestTypes
  <2> QED
    BY <1>8, <2>2, <2>5, <2>6 DEF Hook, RestTypes, SameEnv, docVars
<1>9. ASSUME NEW u \in Users, BeatLost(u)
      PROVE  RestTypes' /\ UNCHANGED run /\ UNCHANGED docVars /\ SameEnv
  <2>1. now \in Time
    BY DEF RestTypes, Time
  <2>2. [tab[u] EXCEPT !.beat = now] \in Tab
    BY <2>1 DEF RestTypes, Tab
  <2> QED
    BY <1>9, <2>2 DEF BeatLost, RestTypes, SameEnv, docVars
<1>2. ASSUME NEW u \in Users, Leave(u)
      PROVE  RestTypes' /\ UNCHANGED run /\ UNCHANGED docVars /\ SameEnv
  <2>1. tab[u].m \in Meetings
    BY <1>2 DEF Leave, RestTypes, Tab
  <2>2. \E asks : Gone(u, asks)
    BY <1>2 DEF Leave
  <2>3. posts' \subseteq {"tab", "return"} \X Users \X Meetings
    BY <1>2, <2>1 DEF Leave, RestTypes
  <2> QED
    BY <1>2, <2>2, <2>3, TabsGo DEF Leave, RestTypes, SameEnv, docVars
<1>3. ASSUME NEW u \in Users, Vanish(u)
      PROVE  RestTypes' /\ UNCHANGED run /\ UNCHANGED docVars /\ SameEnv
  <2>1. Gone(u, TRUE) /\ Calling("vanish")
    BY <1>3 DEF Vanish
  <2> QED
    BY <1>3, <2>1, TabsGo, CallingKeeps DEF Vanish, RestTypes, docVars
<1>4. ASSUME NEW u \in Users, Reload(u)
      PROVE  RestTypes' /\ UNCHANGED run /\ UNCHANGED docVars /\ SameEnv
  <2>1. pending[u] \in Meetings /\ Calling("reload")
    BY <1>4 DEF Reload, RestTypes
  <2>4. pending' \in [Users -> Meetings \cup {NoMeeting}]
    BY <1>4 DEF Reload, RestTypes
  <2>5. posts' \subseteq {"tab", "return"} \X Users \X Meetings
    BY <1>4, <2>1 DEF Reload, RestTypes
  <2>2. [tab[u] EXCEPT !.watched = FALSE] \in Tab
    <3>1. tab[u] \in Tab
      BY DEF RestTypes
    <3> QED
      BY <3>1 DEF Tab
  <2>3. tab' \in [Users -> Tab]
    BY <1>4, <2>2 DEF Reload, RestTypes
  <2> QED
    BY <1>4, <2>1, <2>3, <2>4, <2>5, CallingKeeps DEF Reload, RestTypes, docVars
<1>5. ASSUME PostLost
      PROVE  RestTypes' /\ UNCHANGED run /\ UNCHANGED docVars /\ SameEnv
  BY <1>5, CallingKeeps DEF PostLost, RestTypes, docVars
<1> QED
  BY <1>2, <1>3, <1>4, <1>5, <1>6, <1>7, <1>8, <1>9 DEF RoomStep

LEMMA TellsKeeps ==
    ASSUME RestTypes, NEW u, NEW m, Tells(u, m)
    PROVE  /\ tab' \in [Users -> Tab]
           /\ \A v \in Users :
                 /\ tab'[v].m = tab[v].m /\ tab'[v].in = tab[v].in
                 /\ tab'[v].beat = tab[v].beat /\ tab'[v].alone = tab[v].alone
                 /\ tab'[v].count = tab[v].count
                 /\ \/ tab'[v].told = tab[v].told
                    \/ tab'[v].told = now /\ tab[v].m = m
<1>1. now \in Time
  BY DEF RestTypes, Time
<1>2. \A v \in Users : LET d == [tab[v] EXCEPT !.told = now] IN
         /\ d \in Tab /\ d.m = tab[v].m /\ d.in = tab[v].in /\ d.beat = tab[v].beat
         /\ d.alone = tab[v].alone /\ d.count = tab[v].count /\ d.told = now
  BY <1>1 DEF RestTypes, Tab
<1>3. /\ tab' \in [Users -> Tab]
      /\ \A v \in Users : \/ tab'[v] = tab[v]
                           \/ /\ tab'[v] = [tab[v] EXCEPT !.told = now]
                              /\ tab[v].m = m
  BY <1>2 DEF Tells, RestTypes
<1> QED
  BY <1>2, <1>3

LEMMA RequestsKeepRest ==
    ASSUME MInv, NEW s \in Slots, RunStep(s) \/ RoleStep(s)
    PROVE  RestTypes'
<1> USE DEF MInv
<1>1. ASSUME UNCHANGED <<now, invited, roomVars, looked>>,
             UNCHANGED world \/ \E k : Calling(k)
      PROVE  RestTypes'
  BY <1>1, WorldStays DEF RestTypes, roomVars
<1>2. ASSUME NEW u \in Users, NEW m \in Meetings, Opens(u, m),
             UNCHANGED <<now, world, invited, pending, posts, entered, left, blind, looked>>
      PROVE  RestTypes'
  BY <1>2, TabsOpen DEF RestTypes
<1>3. CASE RoleStep(s)
  <2>1. \A u, v \in Users, m \in Meetings :
           Promote(s, u, v, m) \/ Demote(s, u, v, m) \/ Remove(s, u, v, m) =>
              UNCHANGED <<now, invited, roomVars, looked>> /\ \E k : Calling(k)
    BY DEF Promote, Demote, Remove, ChangesRole, docVars
  <2>2. SavePromotion(s) \/ SaveDemotion(s) \/ SaveRemoval(s) =>
           UNCHANGED <<now, world, invited, roomVars, looked>>
    BY DEF SavePromotion, SaveDemotion, SaveRemoval, Written
  <2> QED
    BY <1>3, <1>1, <2>1, <2>2 DEF RoleStep
<1>4. ASSUME NEW u \in Users, Start(s, u)
      PROVE  RestTypes'
  BY <1>4, <1>1 DEF Start, docVars
<1>5. ASSUME NEW u \in Users, Heartbeat(s, u)
      PROVE  RestTypes'
  <2>1. now \in Time
    BY DEF RestTypes, Time
  <2>2. [tab[u] EXCEPT !.beat = now] \in Tab
    BY <2>1 DEF RestTypes, Tab
  <2> QED
    BY <1>5, <2>2 DEF Heartbeat, RestTypes, docVars
<1>6. ASSUME NEW u \in Users, NEW m \in Meetings,
             JoinByLink(s, u, m) \/ JoinByInvite(s, u, m) \/ EndByHost(s, u, m)
      PROVE  RestTypes'
  BY <1>6, <1>1 DEF JoinByLink, JoinByInvite, EndByHost, Opening, docVars
<1>7. ASSUME NEW p \in posts, EndPosted(s, p)
      PROVE  RestTypes'
  BY <1>7 DEF EndPosted, RestTypes, docVars
<1>8. ASSUME NEW m \in Meetings, Look(s, m)
      PROVE  RestTypes'
  BY <1>8 DEF Look, RestTypes, docVars, roomVars
<1>9. CASE \/ StartFind(s) \/ StartExpire(s) \/ StartClose(s) \/ StartClosed(s)
           \/ End(s) \/ Expire(s) \/ LookAgain(s) \/ EndSilent(s)
  <2>1. UNCHANGED <<now, world, invited, roomVars, looked>>
    BY <1>9 DEF StartFind, StartExpire, StartClose, StartClosed, End, Expire,
                LookAgain, EndSilent, docVars
  <2> QED
    BY <2>1, <1>1
<1>12. CASE SaveBeat(s)
  BY <1>12, TellsKeeps DEF SaveBeat, RestTypes
<1>10. CASE StartCreate(s)
  <2>1. run[s].u \in Users
    BY <1>10 DEF StartCreate, At, Callers, Asking, StartLabels
  <2> QED
    BY <1>10, <1>2, <2>1 DEF StartCreate, Unused
<1>11. CASE Join(s)
  <2>1. run[s].u \in Users /\ run[s].m \in Meetings
    BY <1>11 DEF Join, At, Callers, Asking, Writing
  <2> QED
    BY <1>11, <1>2, <2>1 DEF Join
<1> QED
  BY <1>3, <1>4, <1>5, <1>6, <1>7, <1>8, <1>9, <1>10, <1>11, <1>12 DEF RunStep

LEMMA InviteKeeps ==
    ASSUME MInv, NEW u \in Users, NEW m \in Meetings, Invite(u, m)
    PROVE  MInv'
<1> USE DEF MInv
<1>1. Calling("invite") /\ UNCHANGED <<now, meeting, granted, linked, run, looked>>
      /\ UNCHANGED <<tab, pending, posts, entered, left, blind>>
      /\ invited' = [invited EXCEPT ![m] = now + Chat.inviteFor]
  BY DEF Invite, roomVars
<1>2. now + Chat.inviteFor \in Int
  BY MeetingAssumption DEF RestTypes, Chat
<1>3. invited' \in [Meetings -> Int]
  BY <1>1, <1>2 DEF RestTypes
<1>4. SameEnv /\ world' \in [env: Environments, calls: Nat]
  BY <1>1, CallingKeeps
<1>5. RestTypes'
  BY <1>1, <1>3, <1>4 DEF RestTypes
<1>6. DocTypes' /\ Callers' /\ Kept'
  BY <1>1, <1>4 DEF DocTypes, Callers, Kept, UnusedAreEmpty, LinksKept, RolesInTurn,
                    SameEnv, Calls
<1> QED
  BY <1>5, <1>6

LEMMA ClockKeeps == MInv /\ Clock => MInv'
<1> SUFFICES ASSUME MInv, Clock
             PROVE  MInv'
  OBVIOUS
<1> USE DEF MInv
<1>1. world.env.until \in 0..Horizon /\ now < world.env.until
  BY MeetingAssumption DEF RestTypes, Clock
<1>2. now' \in 0..Horizon
  BY <1>1, MeetingAssumption DEF RestTypes, Clock
<1>3. RestTypes'
  BY <1>2 DEF RestTypes, Clock, docVars, roomVars
<1> QED
  BY <1>3, StillKeeps DEF Clock, SameEnv

(* A restart forgets the requests under way, not the documents.            *)
LEMMA CrashKeeps == MInv /\ Crash => MInv'
<1> SUFFICES ASSUME MInv, Crash
             PROVE  MInv'
  OBVIOUS
<1> USE DEF MInv
<1>1. /\ run' = [s \in Slots |-> Idle]
      /\ UNCHANGED <<now, meeting, invited, granted, linked, looked>>
      /\ UNCHANGED <<tab, pending, posts, entered, left, blind>>
  BY DEF Crash, docVars, roomVars
<1>2. SameEnv /\ world' \in [env: Environments, calls: Nat]
  BY CallingKeeps DEF Crash
<1>3. \A s \in Slots : run'[s] \in Runs /\ run'[s].at \notin Asking
                       /\ run'[s].at \notin Writing /\ run'[s].at \notin RoleLabels
  BY <1>1, IdleIsRun DEF Asking, Writing, RoleLabels, StartLabels
<1>4. DocTypes'
  BY <1>1, <1>3 DEF DocTypes
<1>5. RestTypes'
  BY <1>1, <1>2 DEF RestTypes
<1>6. Callers' /\ Kept'
  BY <1>1, <1>2, <1>3 DEF Callers, Kept, UnusedAreEmpty, LinksKept, RolesInTurn,
                          SameEnv, Calls
<1> QED
  BY <1>4, <1>5, <1>6

-----------------------------------------------------------------------------
LEMMA InitKept == Init => MInv
<1> SUFFICES ASSUME Init
             PROVE  MInv
  OBVIOUS
<1>1. \A s \in Slots : run[s] \in Runs /\ run[s].at \notin Asking
                       /\ run[s].at \notin Writing /\ run[s].at \notin RoleLabels
  BY IdleIsRun DEF Init, Asking, Writing, RoleLabels, StartLabels
<1>2. /\ run \in [Slots -> Runs] /\ meeting \in [Meetings -> Doc]
      /\ granted \in [Meetings -> SUBSET Users] /\ linked \in [Meetings -> SUBSET Users]
  BY <1>1, NoDocIsDoc DEF Init
<1>3. world \in [env: Environments, calls: Nat]
  BY DEF Init
<1>4. /\ tab \in [Users -> Tab] /\ pending \in [Users -> Meetings \cup {NoMeeting}]
      /\ entered \in [Meetings -> Time] /\ left \in [Meetings -> [at: Time, alone: BOOLEAN]]
      /\ invited \in [Meetings -> Int]
  BY NoTabIsTab DEF Init, NoTime
<1>5. now \in 0..Horizon /\ posts = {} /\ looked = {} /\ blind = {}
  BY MeetingAssumption DEF Init
<1>6. \A m \in Meetings : meeting[m].delegates = {} /\ meeting[m].joined = {}
                          /\ granted[m] = {} /\ linked[m] = {}
  BY DEF Init, NoDoc
<1> QED
  BY <1>1, <1>2, <1>3, <1>4, <1>5, <1>6
     DEF MInv, DocTypes, RestTypes, Callers, Kept, UnusedAreEmpty, LinksKept, RolesInTurn

LEMMA NextKept == MInv /\ [Next]_vars => MInv'
<1> SUFFICES ASSUME MInv, [Next]_vars
             PROVE  MInv'
  OBVIOUS
<1>1. ASSUME NEW s \in Slots, RunStep(s) \/ RoleStep(s)
      PROVE  MInv'
  <2>1. CASE RunStep(s)
    <3>1. \/ DocsKeep /\ RunMoves(s) /\ SameEnv
          \/ UNCHANGED <<docVars, run>> /\ SameEnv
          \/ StartCreate(s) \/ Join(s)
      BY <2>1, JoiningMoves, StartMoves, StartFindMoves, StartCloseMoves, PostedMoves,
         LookMoves, LookAgainMoves, HeartbeatMoves, EndingMoves, BeatMoves DEF RunStep
    <3>2. DocTypes' /\ Callers' /\ Kept'
      BY <3>1, MovesKeep, StillKeeps, CreateKeeps, JoinKeeps
    <3> QED
      BY <2>1, <3>2, RequestsKeepRest DEF MInv
  <2>2. CASE RoleStep(s)
    <3>1. \/ DocsKeep /\ RunMoves(s) /\ SameEnv
          \/ SavePromotion(s) \/ SaveDemotion(s) \/ SaveRemoval(s)
      BY <2>2, RolesMove DEF RoleStep
    <3>2. DocTypes' /\ Callers' /\ Kept'
      BY <3>1, MovesKeep, RolesKeep
    <3> QED
      BY <2>2, <3>2, RequestsKeepRest DEF MInv
  <2> QED
    BY <1>1, <2>1, <2>2
<1>2. CASE RoomStep
  BY <1>2, RoomKeeps, StillKeeps DEF MInv
<1>3. ASSUME NEW u \in Users, NEW m \in Meetings, Invite(u, m)
      PROVE  MInv'
  BY <1>3, InviteKeeps
<1>4. CASE Clock
  BY <1>4, ClockKeeps
<1>5. CASE Crash
  BY <1>5, CrashKeeps
<1>6. CASE UNCHANGED vars
  <2>1. RestTypes' /\ SameEnv /\ UNCHANGED <<docVars, run>>
    BY <1>6 DEF MInv, RestTypes, SameEnv, vars, roomVars, docVars
  <2> QED
    BY <2>1, StillKeeps DEF MInv
<1> QED
  BY <1>1, <1>2, <1>3, <1>4, <1>5, <1>6 DEF Next

(* In every chat the variables have their types, whatever requests overlap *)
(* and whenever the backend restarts: a tab reports a count of people that *)
(* there are, and no document leaves its schema.                           *)
THEOREM TypeCorrect == Spec => []TypeOK
BY InitKept, NextKept, TypesAreBoth, PTL DEF Spec, MInv

(* Whoever was given a link is among the participants, and the delegates   *)
(* are exactly those whose promotion was answered and not taken back, for  *)
(* any people, meetings and number of requests in flight, if no two change *)
(* roles at once.                                                          *)
THEOREM NothingIsLost == Spec => []NothingLost
<1>1. MInv => NothingLost
  BY DEF MInv, Kept, LinksKept, RolesInTurn, NothingLost
<1> QED
  BY <1>1, InitKept, NextKept, PTL DEF Spec

-----------------------------------------------------------------------------
(* The rooms and the reports.  Unless a restart drops requests, the        *)
(* documents say of each room what those in it have reported.              *)

(* A person who waits for a link has no tab, and waits for one answer.     *)
OneTab ==
    \A s \in Slots : run[s].at \in TabLabels =>
        /\ tab[run[s].u].m = NoMeeting
        /\ \A z \in Slots : run[z].at \in TabLabels /\ run[z].u = run[s].u => z = s

(* Only meetings that were started have tabs, reports and a past.          *)
Placed ==
    /\ \A u \in Users :
          /\ tab[u].in => tab[u].m \in Meetings
          /\ tab[u].m \in Meetings => meeting[tab[u].m].st # "none"
    /\ \A s \in Slots : run[s].at = "beat" /\ run[s].m \in Meetings =>
          meeting[run[s].m].st # "none"
    /\ \A m \in Meetings : meeting[m].st = "none" => ~left[m].alone

(* Nothing is dated in the future.                                         *)
Past ==
    /\ \A u \in Users : tab[u].beat <= now /\ tab[u].alone <= now /\ tab[u].told <= now
    /\ \A m \in Meetings :
          entered[m] <= now /\ meeting[m].beat <= now /\ meeting[m].start <= now

(* A tab counts no more people than there are others in the room, and all  *)
(* of them where no script hooked too late.                                *)
CountsAt(u) ==
    /\ ~tab[u].in => ~Hooked(u)
    /\ ~Hooked(u) => tab[u].alone = NoTime
    /\ Hooked(u) =>
          /\ tab[u].count <= Cardinality(Others(u))
          /\ tab[u].m \notin blind => tab[u].count = Cardinality(Others(u))
Counted == \A u \in Users : CountsAt(u)

BeatsOf(m) == {s \in Slots : run[s].at = "beat" /\ run[s].m = m}
Empty(doc) == doc.beat # NoTime /\ doc.remote = 0

(* Who is alone in a room reports an empty one, from the time on.          *)
ToldAlone(m, u) ==
    Others(u) = {} /\ tab[u].alone # NoTime =>
        /\ tab[u].alone < now => \A z \in BeatsOf(m) : run[z].remote = 0
        /\ tab[u].alone < tab[u].told => Empty(meeting[m])

(* Who is not, reports the others after the last one has come in, unless   *)
(* a script hooked too late.                                               *)
ToldOthers(m, u) ==
    m \notin blind /\ Others(u) # {} =>
        /\ entered[m] < now => \A z \in BeatsOf(m) : run[z].remote # 0
        /\ entered[m] < tab[u].told => meeting[m].remote # 0

(* What the last to leave has reported, when they had been alone.          *)
ToldLast(m) ==
    InRoom(m) = {} /\ left[m].alone =>
        /\ \A z \in BeatsOf(m) : run[z].remote = 0
        /\ BeatsOf(m) # {} => left[m].at = now
        /\ Empty(meeting[m])
        /\ meeting[m].beat <= left[m].at
        /\ meeting[m].start <= left[m].at

ToldBy(m, u) ==
    /\ entered[m] < now => tab[u].beat # NoTime
    /\ ToldAlone(m, u)
    /\ ToldOthers(m, u)

Told == \A m \in Active : ToldLast(m) /\ \A u \in InRoom(m) : ToldBy(m, u)

(* A messenger's look at a meeting that is over leads to its end.          *)
Closing == {"expire", "start.expire", "silent", "end.silent"}
Overdue(m) == Stale(meeting[m]) \/ Silent(meeting[m])
LookedAt ==
    \A m \in Active : m \in looked /\ Overdue(m) =>
        \E s \in Slots : run[s].at \in Closing /\ run[s].m = m

(* Two people are in a room, and one of them has told of the other since   *)
(* somebody last came in.                                                  *)
Settled(m) ==
    /\ m \notin blind
    /\ \E u \in InRoom(m) : /\ Others(u) # {}
                            /\ entered[m] < tab[u].told /\ tab[u].told < now

(* Who is no moderator asks for the end of a room that is empty, or that   *)
(* somebody has just come into, or in which a script hooked too late.      *)
Judged == {"end.last", "silent", "end.silent"}
Vacant(m) == InRoom(m) = {} \/ entered[m] = now \/ m \in blind
Asked ==
    /\ \A p \in posts : p[1] = "tab" => Vacant(p[3])
    /\ \A s \in Slots, m \in Active :
          run[s].at \in Judged /\ run[s].m = m => ~Settled(m)

RoomInv == OneTab /\ Placed /\ Past /\ Counted /\ Told /\ LookedAt /\ Asked /\ AbandonedEnds
AInv == MInv /\ "crash" \notin Calls /\ RoomInv

LEMMA TimesAreInts ==
    ASSUME MInv
    PROVE  /\ now \in Nat /\ {Beat, Fresh, MaxActive} \subseteq Nat \ {0}
           /\ \A u \in Users : /\ tab[u].beat \in Int /\ tab[u].alone \in Int
                               /\ tab[u].told \in Int /\ tab[u].count \in Counts
                               /\ tab[u].m \in Meetings \cup {NoMeeting}
           /\ \A m \in Meetings : entered[m] \in Int /\ left[m].at \in Int
                 /\ meeting[m].beat \in Int /\ meeting[m].start \in Int
                 /\ meeting[m].remote \in Int
<1>1. /\ Time \subseteq Int /\ Counts \subseteq Int /\ now \in Nat
      /\ {Beat, Fresh, MaxActive} \subseteq Nat \ {0}
  BY MeetingAssumption DEF Time, NoTime, Counts, NoCount, MInv, RestTypes
<1>2. \A u \in Users : tab[u] \in Tab
  BY DEF MInv, RestTypes
<1>3. \A m \in Meetings : meeting[m] \in Doc /\ entered[m] \in Time
                          /\ left[m] \in [at: Time, alone: BOOLEAN]
  BY DEF MInv, RestTypes, DocTypes
<1>4. \A u \in Users : /\ tab[u].beat \in Int /\ tab[u].alone \in Int
                       /\ tab[u].told \in Int /\ tab[u].count \in Counts
                       /\ tab[u].m \in Meetings \cup {NoMeeting}
  BY <1>1, <1>2 DEF Tab
<1>5. \A m \in Meetings : entered[m] \in Int /\ left[m].at \in Int
         /\ meeting[m].beat \in Int /\ meeting[m].start \in Int /\ meeting[m].remote \in Int
  BY <1>1, <1>3 DEF Doc
<1> QED
  BY <1>1, <1>4, <1>5

(* Nobody comes into a room or leaves it. *)
LEMMA SameRooms ==
    ASSUME \A u \in Users : tab'[u].in = tab[u].in /\ tab'[u].m = tab[u].m
    PROVE  /\ \A m : InRoom(m)' = InRoom(m)
           /\ \A u \in Users : Others(u)' = Others(u)
<1>1. \A m : InRoom(m)' = InRoom(m)
  BY DEF InRoom
<1>2. ASSUME NEW u \in Users
      PROVE  Others(u)' = Others(u)
  <2>1. PICK m : m = tab[u].m /\ m = tab'[u].m
    OBVIOUS
  <2> QED
    BY <1>1, <2>1 DEF Others
<1> QED
  BY <1>1, <1>2

(* The others in a room are some of its people. *)
LEMMA OthersAre ==
    ASSUME MInv, NEW u \in Users
    PROVE  /\ IsFiniteSet(Others(u)) /\ Cardinality(Others(u)) \in Nat
           /\ Cardinality(Others(u)) = 0 <=> Others(u) = {}
           /\ \A m : u \in InRoom(m) => Others(u) = InRoom(m) \ {u}
<1>1. IsFiniteSet(Others(u))
  BY MeetingAssumption, FS_Subset DEF Others, InRoom
<1> QED
  BY <1>1, FS_CardinalityType, FS_EmptySet DEF Others, InRoom

(* The people in a room stay there, and so does what they have told.       *)
RoomStays(m) ==
    /\ UNCHANGED now /\ entered'[m] = entered[m] /\ left'[m] = left[m]
    /\ m \in blind' <=> m \in blind
    /\ \A u \in Users :
          (tab[u].in /\ tab[u].m = m) \/ (tab'[u].in /\ tab'[u].m = m) =>
             /\ tab'[u].in /\ tab[u].in /\ tab'[u].m = m /\ tab[u].m = m
             /\ tab'[u].alone = tab[u].alone /\ tab'[u].told = tab[u].told
             /\ tab'[u].count = tab[u].count
             /\ tab[u].beat # NoTime => tab'[u].beat # NoTime

DocsStand ==
    \A m \in Meetings :
        /\ meeting'[m].st \in {meeting[m].st, "ended"}
        /\ meeting'[m].beat = meeting[m].beat
        /\ meeting'[m].remote = meeting[m].remote
        /\ meeting'[m].start = meeting[m].start

LEMMA RoomsSame ==
    ASSUME NEW m, RoomStays(m)
    PROVE  InRoom(m)' = InRoom(m) /\ \A u \in InRoom(m) : Others(u)' = Others(u)
<1>1. InRoom(m)' = InRoom(m)
  BY DEF RoomStays, InRoom
<1>2. ASSUME NEW u \in InRoom(m)
      PROVE  Others(u)' = Others(u)
  <2>1. Others(u) = InRoom(m) \ {u} /\ Others(u)' = InRoom(m)' \ {u}
    BY <1>2 DEF Others, InRoom, RoomStays
  <2> QED
    BY <1>1, <2>1
<1> QED
  BY <1>1, <1>2

(* Who stays in a room counts right, if they did.                          *)
LEMMA CountsStay ==
    ASSUME Counted, NEW m, RoomStays(m), NEW u \in InRoom(m)'
    PROVE  CountsAt(u)'
<1>1. /\ u \in Users /\ u \in InRoom(m) /\ tab'[u].in /\ tab[u].in
      /\ tab'[u].m = m /\ tab[u].m = m /\ tab'[u].count = tab[u].count
      /\ tab'[u].alone = tab[u].alone
  BY DEF RoomStays, InRoom
<1>2. Others(u)' = Others(u)
  BY <1>1, RoomsSame
<1> QED
  BY <1>1, <1>2 DEF Counted, CountsAt, Hooked, RoomStays

(* What a room is told of stays so, as long as no report is under way that *)
(* was not, or the documents are as they were.                             *)
LEMMA ToldStays ==
    ASSUME Told, NEW m \in Active, m \in Meetings, RoomStays(m),
           BeatsOf(m)' = BeatsOf(m), \A z \in BeatsOf(m) : run'[z] = run[z],
           meeting'[m].beat = meeting[m].beat, meeting'[m].remote = meeting[m].remote,
           meeting'[m].start = meeting[m].start
    PROVE  ToldLast(m)' /\ \A u \in InRoom(m)' : ToldBy(m, u)'
<1>1. InRoom(m)' = InRoom(m)
  BY RoomsSame
<1>2. \A u \in InRoom(m) : /\ u \in Users /\ Others(u)' = Others(u)
                           /\ tab'[u].alone = tab[u].alone /\ tab'[u].told = tab[u].told
                           /\ tab[u].beat # NoTime => tab'[u].beat # NoTime
  BY RoomsSame DEF RoomStays, InRoom
<1>3. Empty(meeting[m])' <=> Empty(meeting[m])
  BY DEF Empty
<1>4. /\ UNCHANGED now /\ entered'[m] = entered[m] /\ left'[m] = left[m]
      /\ m \in blind' <=> m \in blind
  BY DEF RoomStays
<1>5. ToldLast(m)'
  <2>1. ToldLast(m)
    BY DEF Told
  <2> QED
    BY <2>1, <1>1, <1>3, <1>4 DEF ToldLast
<1>6. ASSUME NEW u \in InRoom(m)
      PROVE  ToldBy(m, u)'
  <2>1. ToldBy(m, u)
    BY DEF Told
  <2> QED
    BY <2>1, <1>2, <1>3, <1>4, <1>6 DEF ToldBy, ToldAlone, ToldOthers
<1> QED
  BY <1>1, <1>5, <1>6

LEMMA BeatsStay ==
    ASSUME NEW s \in Slots, NEW m, \A z \in Slots \ {s} : run'[z] = run[z],
           run[s].at # "beat", run'[s].at # "beat"
    PROVE  BeatsOf(m)' = BeatsOf(m) /\ \A z \in BeatsOf(m) : run'[z] = run[z]
BY DEF BeatsOf

(* A request that is no report moves on: one that will open a tab keeps    *)
(* its person, one that closes a meeting does so, and one that was judged  *)
(* was judged well.                                                        *)
DeskMoves(s) ==
    /\ DocsStand /\ SameEnv
    /\ \A z \in Slots \ {s} : run'[z] = run[z]
    /\ run[s].at # "beat" /\ run'[s].at # "beat"
    /\ run'[s].at \in TabLabels =>
          \/ run[s].at \in TabLabels /\ run'[s].u = run[s].u
          \/ /\ tab[run'[s].u].m = NoMeeting
             /\ \A z \in Slots : run[z].at \in TabLabels => run[z].u # run'[s].u
    /\ run[s].at \in Closing =>
          \/ run'[s].at \in Closing /\ run'[s].m = run[s].m
          \/ run[s].m \in Meetings => meeting'[run[s].m].st # "active"
    /\ run'[s].at \in Judged =>
          \/ run[s].at \in Judged /\ run'[s].m = run[s].m
          \/ \A m \in Active : run'[s].m = m => ~Settled(m)

Seen(s) ==
    \A m \in looked' \ looked : Overdue(m) => run'[s].at \in Closing /\ run'[s].m = m

AtDesk(s) ==
    /\ DeskMoves(s) /\ Seen(s)
    /\ UNCHANGED <<now, tab, entered, left, blind>>
    /\ posts' \subseteq posts

LEMMA DeskKeeps ==
    ASSUME AInv, NEW s \in Slots, AtDesk(s)
    PROVE  RoomInv'
<1> USE DEF AInv, RoomInv, AtDesk
<1>1. \A m \in Meetings : RoomStays(m) /\ InRoom(m)' = InRoom(m)
  BY RoomsSame DEF RoomStays
<1>2. Active' \subseteq Active /\ Active \subseteq Meetings
  BY DEF Active, DeskMoves, DocsStand
<1>3. OneTab'
  <2> SUFFICES ASSUME NEW z \in Slots, run'[z].at \in TabLabels
               PROVE  /\ tab[run'[z].u].m = NoMeeting
                      /\ \A y \in Slots : run'[y].at \in TabLabels
                                          /\ run'[y].u = run'[z].u => y = z
    BY DEF OneTab
  <2>1. ASSUME NEW y \in Slots, run'[y].at \in TabLabels
        PROVE  /\ tab[run'[y].u].m = NoMeeting
               /\ y # s => run[y].at \in TabLabels /\ run'[y] = run[y]
    BY <2>1 DEF DeskMoves, OneTab
  <2>2. ASSUME NEW y \in Slots, run'[y].at \in TabLabels, y # s,
               run'[s].at \in TabLabels
        PROVE  run'[y].u # run'[s].u
    BY <2>1, <2>2 DEF DeskMoves, OneTab
  <2>3. \A y \in Slots : run'[y].at \in TabLabels /\ run'[y].u = run'[z].u => y = z
    <3> SUFFICES ASSUME NEW y \in Slots, run'[y].at \in TabLabels,
                        run'[y].u = run'[z].u, y # z
                 PROVE  FALSE
      OBVIOUS
    <3>1. y # s /\ z # s
      BY <2>2
    <3>2. run'[y] = run[y] /\ run'[z] = run[z]
          /\ run[y].at \in TabLabels /\ run[z].at \in TabLabels
      BY <2>1, <3>1
    <3> QED
      BY <3>2 DEF OneTab
  <2> QED
    BY <2>1, <2>3
<1>4. Placed'
  <2>1. \A m \in Meetings : meeting'[m].st = "none" => meeting[m].st = "none"
    BY DEF DeskMoves, DocsStand
  <2>2. \A z \in Slots : run'[z].at = "beat" => run'[z] = run[z]
    BY DEF DeskMoves
  <2> QED
    BY <2>1, <2>2 DEF Placed
<1>5. Past'
  BY DEF Past, DeskMoves, DocsStand
<1>11. Counted'
  <2>1. \A u : Others(u)' = Others(u)
    BY DEF Others, InRoom
  <2> QED
    BY <2>1 DEF Counted, CountsAt, Hooked
<1>6. Told'
  <2> SUFFICES ASSUME NEW m \in Active'
               PROVE  ToldLast(m)' /\ \A u \in InRoom(m)' : ToldBy(m, u)'
    BY DEF Told
  <2>1. m \in Active /\ m \in Meetings
    BY <1>2
  <2>2. BeatsOf(m)' = BeatsOf(m) /\ \A z \in BeatsOf(m) : run'[z] = run[z]
    BY BeatsStay DEF DeskMoves
  <2>3. /\ meeting'[m].beat = meeting[m].beat /\ meeting'[m].remote = meeting[m].remote
        /\ meeting'[m].start = meeting[m].start
    BY <2>1 DEF DeskMoves, DocsStand
  <2> QED
    BY <1>1, <2>1, <2>2, <2>3, ToldStays
<1>7. LookedAt'
  <2> SUFFICES ASSUME NEW m \in Active', m \in looked', Overdue(m)'
               PROVE  \E z \in Slots : run'[z].at \in Closing /\ run'[z].m = m
    BY DEF LookedAt
  <2>1. m \in Active /\ m \in Meetings /\ meeting'[m].st = "active"
    BY <1>2 DEF Active
  <2>2. Overdue(m)
    BY <2>1 DEF Overdue, Stale, Silent, DeskMoves, DocsStand, Active
  <2>3. CASE m \notin looked
    BY <2>2, <2>3 DEF Seen
  <2>4. CASE m \in looked
    <3>1. PICK z \in Slots : run[z].at \in Closing /\ run[z].m = m
      BY <2>1, <2>2, <2>4 DEF LookedAt
    <3>2. CASE z # s
      BY <3>1, <3>2 DEF DeskMoves
    <3>3. CASE z = s
      BY <2>1, <3>1, <3>3 DEF DeskMoves
    <3> QED
      BY <3>2, <3>3
  <2> QED
    BY <2>3, <2>4
<1>8. \A m \in Meetings : Settled(m)' => Settled(m)
  <2>1. \A m \in Meetings : \A u \in InRoom(m) : Others(u)' = Others(u)
    BY RoomsSame, <1>1
  <2> QED
    BY <1>1, <2>1 DEF Settled
<1>9. Asked'
  <2>1. \A p \in posts' : p[1] = "tab" => Vacant(p[3])'
    <3> SUFFICES ASSUME NEW p \in posts', p[1] = "tab"
                 PROVE  Vacant(p[3])'
      OBVIOUS
    <3>1. p \in posts /\ p[3] \in Meetings
      BY DEF MInv, RestTypes
    <3> QED
      BY <1>1, <3>1 DEF Asked, Vacant
  <2>2. ASSUME NEW z \in Slots, NEW m \in Active', run'[z].at \in Judged, run'[z].m = m
        PROVE  ~Settled(m)'
    <3>1. m \in Active /\ (Settled(m)' => Settled(m))
      BY <1>2, <1>8
    <3>2. z # s => run'[z] = run[z]
      BY DEF DeskMoves
    <3> QED
      BY <2>2, <3>1, <3>2 DEF DeskMoves, Asked
  <2> QED
    BY <2>1, <2>2 DEF Asked
<1>10. AbandonedEnds'
  <2> SUFFICES ASSUME "poll" \in Calls, NEW m \in Active'
               PROVE  /\ now' <= meeting'[m].start + MaxActive + 1
                      /\ InRoom(m)' = {} /\ left'[m].alone =>
                             now' <= left'[m].at + Fresh + 1
    BY DEF AbandonedEnds, DeskMoves, SameEnv, Calls
  <2>1. m \in Active /\ m \in Meetings /\ meeting'[m].start = meeting[m].start
    BY <1>2 DEF DeskMoves, DocsStand
  <2> QED
    BY <1>1, <2>1 DEF AbandonedEnds
<1> QED
  BY <1>3, <1>4, <1>5, <1>6, <1>7, <1>9, <1>10, <1>11

-----------------------------------------------------------------------------
(* The requests that are no reports and open no tab.                       *)

LEMMA ReadsAre ==
    ASSUME MInv, NEW s \in Slots, NEW l, NEW u, NEW v, NEW m, Reads(s, l, u, v, m)
    PROVE  /\ run'[s].at = l /\ run'[s].u = u /\ run'[s].m = m
           /\ \A z \in Slots \ {s} : run'[z] = run[z]
BY DEF Reads, MInv, DocTypes, Idle

LEMMA FinishIs ==
    ASSUME MInv, NEW s \in Slots, Finish(s)
    PROVE  run'[s].at = "idle" /\ \A z \in Slots \ {s} : run'[z] = run[z]
BY DEF Finish, MInv, DocTypes, Idle

LEMMA GotoIs ==
    ASSUME MInv, NEW s \in Slots, NEW l, Goto(s, l)
    PROVE  /\ run'[s].at = l /\ run'[s].u = run[s].u /\ run'[s].m = run[s].m
           /\ \A z \in Slots \ {s} : run'[z] = run[z]
BY DEF Goto, MInv, DocTypes, Runs

LEMMA EndedIs ==
    ASSUME MInv, NEW ms, Ended(ms)
    PROVE  DocsStand /\ \A m \in Meetings \cap ms : meeting'[m].st = "ended"
BY DEF Ended, DocsStand, MInv, DocTypes, Doc

LEMMA LabelsApart ==
    /\ {"idle", "beat", "end.right", "promote", "demote", "remove"} \cap
          (TabLabels \cup Closing \cup Judged) = {}
    /\ "expire" \in Closing /\ "expire" \notin TabLabels \cup Judged
    /\ TabLabels \cap Judged = {}
    /\ "end.last" \notin TabLabels \cup Closing
    /\ "join" \in TabLabels /\ "join" \notin Closing
BY DEF TabLabels, StartLabels, Closing, Judged

LEMMA OpeningAtDesk ==
    ASSUME AInv, NEW s \in Slots, NEW l \in {"join", "end.right"}, NEW u \in Users,
           NEW m \in Meetings, Opening(s, l, u, NoOne, m), SameEnv,
           l = "join" => AsksForTab(u)
    PROVE  AtDesk(s)
<1> USE DEF AInv
<1>1. /\ run[s].at = "idle"
      /\ UNCHANGED <<now, meeting, tab, posts, entered, left, blind, looked>>
  BY DEF Opening, Free, At, docVars, roomVars
<1>2. PICK k \in {"expire", l} : Reads(s, k, u, NoOne, m)
  BY DEF Opening
<1>3. /\ run'[s].at = k /\ run'[s].u = u /\ run'[s].m = m
      /\ \A z \in Slots \ {s} : run'[z] = run[z]
  BY <1>2, ReadsAre
<1>4. DocsStand
  BY <1>1 DEF DocsStand
<1>5. k # "beat" /\ k \notin Judged /\ (k \in TabLabels => l = "join")
  BY LabelsApart
<1>6. DeskMoves(s)
  BY <1>1, <1>3, <1>4, <1>5, LabelsApart DEF DeskMoves, AsksForTab
<1> QED
  BY <1>1, <1>6 DEF AtDesk, Seen

LEMMA JoiningAtDesk ==
    ASSUME AInv, NEW s \in Slots, NEW u \in Users, NEW m \in Meetings,
           JoinByLink(s, u, m) \/ JoinByInvite(s, u, m) \/ EndByHost(s, u, m)
    PROVE  AtDesk(s)
<1>1. SameEnv
  BY JoiningMoves DEF AInv
<1>2. \E l \in {"join", "end.right"} : Opening(s, l, u, NoOne, m)
                                        /\ (l = "join" => AsksForTab(u))
  BY DEF JoinByLink, JoinByInvite, EndByHost
<1> QED
  BY <1>1, <1>2, OpeningAtDesk

LEMMA RolesAtDesk ==
    ASSUME AInv, NEW s \in Slots, RoleStep(s)
    PROVE  AtDesk(s)
<1> USE DEF AInv
<1>1. ASSUME NEW u \in Users, NEW v \in Users, NEW m \in Meetings,
             Promote(s, u, v, m) \/ Demote(s, u, v, m) \/ Remove(s, u, v, m)
      PROVE  AtDesk(s)
  <2>1. PICK l \in RoleLabels : ChangesRole(s, l, u, v, m)
    BY <1>1 DEF Promote, Demote, Remove, RoleLabels
  <2>2. /\ run[s].at = "idle" /\ Reads(s, l, u, v, m)
        /\ UNCHANGED <<now, meeting, tab, posts, entered, left, blind, looked>>
    BY <2>1 DEF ChangesRole, Free, At, docVars, roomVars
  <2>3. run'[s].at = l /\ \A z \in Slots \ {s} : run'[z] = run[z]
    BY <2>2, ReadsAre
  <2>4. l # "beat" /\ l \notin TabLabels /\ l \notin Judged
    BY LabelsApart DEF RoleLabels
  <2>5. DocsStand /\ SameEnv
    BY <1>1, <2>2, RolesMove DEF DocsStand
  <2>6. DeskMoves(s)
    BY <2>2, <2>3, <2>4, <2>5, LabelsApart DEF DeskMoves
  <2> QED
    BY <2>2, <2>6 DEF AtDesk, Seen
<1>2. CASE SavePromotion(s) \/ SaveDemotion(s) \/ SaveRemoval(s)
  <2> DEFINE m == run[s].m
  <2>1. /\ run[s].at \in RoleLabels /\ Finish(s)
        /\ UNCHANGED <<now, world, tab, posts, entered, left, blind, looked>>
    BY <1>2 DEF SavePromotion, SaveDemotion, SaveRemoval, Written, At, RoleLabels, roomVars
  <2>2. meeting[m] \in Doc
    BY <2>1 DEF Callers, Writing, MInv, DocTypes
  <2>3. ASSUME NEW list,
               meeting' = [meeting EXCEPT ![m] = [meeting[m] EXCEPT !.delegates = list]]
        PROVE  DocsStand
    BY <2>2, <2>3 DEF DocsStand, MInv, DocTypes, Doc
  <2>4. ASSUME NEW gone, NEW list,
               meeting' = [meeting EXCEPT ![m] = [meeting[m] EXCEPT !.removed = gone,
                                                                    !.delegates = list]]
        PROVE  DocsStand
    BY <2>2, <2>4 DEF DocsStand, MInv, DocTypes, Doc
  <2>8. DocsStand
    BY <1>2, <2>3, <2>4 DEF SavePromotion, SaveDemotion, SaveRemoval, Written
  <2>5. run'[s].at = "idle" /\ \A z \in Slots \ {s} : run'[z] = run[z]
    BY <2>1, FinishIs
  <2>6. run[s].at # "beat" /\ run[s].at \notin Closing
    BY <2>1, LabelsApart DEF RoleLabels
  <2>7. DeskMoves(s)
    BY <2>1, <2>5, <2>6, <2>8, LabelsApart DEF DeskMoves, SameEnv
  <2> QED
    BY <2>1, <2>7 DEF AtDesk, Seen
<1> QED
  BY <1>1, <1>2 DEF RoleStep

LEMMA StartAtDesk ==
    ASSUME AInv, NEW s \in Slots, NEW u \in Users, Start(s, u)
    PROVE  AtDesk(s)
<1> USE DEF AInv
<1>1. /\ run[s].at = "idle" /\ AsksForTab(u)
      /\ UNCHANGED <<now, meeting, tab, posts, entered, left, blind, looked>>
      /\ run' = [run EXCEPT ![s] = [Idle EXCEPT !.at = "start.find", !.u = u]]
  BY DEF Start, Free, At, docVars, roomVars
<1>2. /\ run'[s].at = "start.find" /\ run'[s].u = u
      /\ \A z \in Slots \ {s} : run'[z] = run[z]
  BY <1>1 DEF MInv, DocTypes, Idle
<1>3. DocsStand /\ SameEnv
  BY <1>1, StartMoves DEF DocsStand
<1>4. "start.find" \notin Closing \cup Judged
  BY DEF Closing, Judged
<1>5. DeskMoves(s)
  BY <1>1, <1>2, <1>3, <1>4, LabelsApart DEF DeskMoves, AsksForTab
<1> QED
  BY <1>1, <1>5 DEF AtDesk, Seen

LEMMA StartFindAtDesk ==
    ASSUME AInv, NEW s \in Slots, StartFind(s) \/ StartClose(s)
    PROVE  AtDesk(s)
<1> USE DEF AInv
<1>1. /\ run[s].at \in {"start.find", "start.close"}
      /\ UNCHANGED <<now, world, meeting, tab, posts, entered, left, blind, looked>>
  BY DEF StartFind, StartClose, At, docVars, roomVars
<1>2. /\ run'[s].at \in {"idle", "join", "start.expire", "start.close", "start.create",
                         "start.closed"}
      /\ run'[s].at # "idle" => run'[s].u = run[s].u
      /\ \A z \in Slots \ {s} : run'[z] = run[z]
  <2>1. CASE StartFind(s)
    <3>1. \/ Goto(s, "start.close") \/ Finish(s)
          \/ \E m : \/ Reads(s, "start.expire", run[s].u, NoOne, m)
                    \/ Reads(s, "join", run[s].u, NoOne, m)
      BY <2>1 DEF StartFind, StartsAnew
    <3> QED
      BY <3>1, ReadsAre, FinishIs, GotoIs
  <2>2. CASE StartClose(s)
    <3>1. PICK l \in {"start.create", "start.closed"} :
             run' = [run EXCEPT ![s].ms = Active, ![s].at = l]
      BY <2>2 DEF StartClose
    <3> QED
      BY <3>1 DEF MInv, DocTypes, Runs
  <2> QED
    BY <2>1, <2>2
<1>3. DocsStand /\ SameEnv
  BY <1>1 DEF DocsStand, SameEnv
<1>4. run[s].at \in TabLabels /\ run[s].at # "beat" /\ run[s].at \notin Closing
  BY <1>1 DEF TabLabels, StartLabels, Closing
<1>5. run'[s].at # "beat" /\ run'[s].at \notin Judged
      /\ (run'[s].at \in TabLabels => run'[s].at # "idle")
  BY <1>2, LabelsApart DEF Judged
<1>6. DeskMoves(s)
  BY <1>2, <1>3, <1>4, <1>5 DEF DeskMoves
<1> QED
  BY <1>1, <1>6 DEF AtDesk, Seen

LEMMA EndingAtDesk ==
    ASSUME AInv, NEW s \in Slots,
           Expire(s) \/ End(s) \/ EndSilent(s) \/ StartExpire(s) \/ StartClosed(s)
    PROVE  AtDesk(s)
<1> USE DEF AInv
<1>1. UNCHANGED <<now, world, tab, posts, entered, left, blind, looked>>
  BY DEF Expire, End, EndSilent, StartExpire, StartClosed, roomVars
<1>2. DocsStand /\ (run[s].at \in Closing /\ run[s].m \in Meetings =>
                        meeting'[run[s].m].st = "ended")
  <2>1. CASE StartClosed(s)
    BY <2>1, EndedIs DEF StartClosed, At, Closing
  <2>2. CASE ~StartClosed(s)
    <3>1. Ended({run[s].m})
      BY <2>2 DEF Expire, End, EndSilent, StartExpire
    <3> QED
      BY <3>1, EndedIs
  <2> QED
    BY <2>1, <2>2
<1>3. /\ \A z \in Slots \ {s} : run'[z] = run[z]
      /\ run'[s].at \in {"idle", "start.close", "start.create"}
      /\ run'[s].at # "idle" => run[s].at \in TabLabels /\ run'[s].u = run[s].u
  <2>1. CASE Finish(s)
    BY <2>1, FinishIs
  <2>2. CASE StartExpire(s) /\ ~Finish(s)
    BY <2>2, GotoIs DEF StartExpire, StartsAnew, At, TabLabels, StartLabels
  <2>3. CASE StartClosed(s)
    BY <2>3, GotoIs DEF StartClosed, At, TabLabels, StartLabels
  <2> QED
    BY <2>1, <2>2, <2>3 DEF Expire, End, EndSilent
<1>4. run[s].at # "beat"
  BY DEF Expire, End, EndSilent, StartExpire, StartClosed, At
<1>5. run'[s].at # "beat" /\ run'[s].at \notin Judged
      /\ (run'[s].at \in TabLabels => run'[s].at # "idle")
  BY <1>3, LabelsApart DEF Judged
<1>6. DeskMoves(s)
  BY <1>1, <1>2, <1>3, <1>4, <1>5 DEF DeskMoves, SameEnv
<1> QED
  BY <1>1, <1>6 DEF AtDesk, Seen

(* A room whose people were told of is not told of as empty.               *)
LEMMA SettledIsTold ==
    ASSUME AInv, NEW m \in Active, meeting[m].remote = 0
    PROVE  ~Settled(m)
BY DEF AInv, RoomInv, Told, ToldBy, ToldOthers, Settled

LEMMA LooksAtDesk ==
    ASSUME AInv, NEW s \in Slots,
           LookAgain(s) \/ \E m \in Meetings : Look(s, m)
    PROVE  AtDesk(s)
<1> USE DEF AInv
<1>1. /\ UNCHANGED <<now, world, meeting, tab, posts, entered, left, blind>>
      /\ DocsStand /\ SameEnv
  BY DEF LookAgain, Look, docVars, roomVars, DocsStand, SameEnv
<1>2. CASE LookAgain(s)
  <2>1. run[s].at = "silent" /\ UNCHANGED looked
    BY <1>2 DEF LookAgain, At
  <2>2. CASE Finish(s)
    <3>1. run'[s].at = "idle" /\ \A z \in Slots \ {s} : run'[z] = run[z]
      BY <2>2, FinishIs
    <3>2. meeting'[run[s].m].st # "active"
      BY <1>1, <1>2, <2>1, <3>1, GotoIs DEF LookAgain
    <3>3. DeskMoves(s)
      BY <1>1, <2>1, <3>1, <3>2, LabelsApart DEF DeskMoves
    <3> QED
      BY <1>1, <2>1, <3>3 DEF AtDesk, Seen
  <2>3. CASE Goto(s, "end.silent")
    <3>1. /\ run'[s].at = "end.silent" /\ run'[s].m = run[s].m
          /\ \A z \in Slots \ {s} : run'[z] = run[z]
      BY <2>3, GotoIs
    <3>2. /\ "end.silent" \in Closing \cap Judged /\ "silent" \in Judged
          /\ "end.silent" \notin TabLabels
      BY LabelsApart DEF Closing, Judged
    <3>3. DeskMoves(s)
      BY <1>1, <2>1, <3>1, <3>2, LabelsApart DEF DeskMoves
    <3> QED
      BY <1>1, <2>1, <3>3 DEF AtDesk, Seen
  <2> QED
    BY <1>2, <2>2, <2>3 DEF LookAgain
<1>3. ASSUME NEW m \in Meetings, Look(s, m)
      PROVE  AtDesk(s)
  <2>1. run[s].at = "idle" /\ looked' = looked \cup {m} /\ m \in Active
    BY <1>3 DEF Look, Free, At, Active
  <2>2. CASE UNCHANGED run
    <3>1. ~Overdue(m)
      <4>1. \A l : ~Reads(s, l, NoOne, NoOne, m) \/ l = "idle"
        BY <2>1, <2>2, ReadsAre
      <4> QED
        BY <1>3, <4>1 DEF Look, Overdue
    <3>2. DeskMoves(s)
      BY <1>1, <2>1, <2>2, LabelsApart DEF DeskMoves
    <3> QED
      BY <1>1, <2>1, <3>1, <3>2 DEF AtDesk, Seen
  <2>3. ASSUME NEW l \in {"expire", "silent"}, Reads(s, l, NoOne, NoOne, m),
               l = "silent" => Silent(meeting[m])
        PROVE  AtDesk(s)
    <3>1. run'[s].at = l /\ run'[s].m = m /\ \A z \in Slots \ {s} : run'[z] = run[z]
      BY <2>3, ReadsAre
    <3>2. l \in Closing /\ l \notin TabLabels /\ (l \in Judged => l = "silent")
      BY LabelsApart DEF Closing, Judged, TabLabels, StartLabels
    <3>3. l = "silent" => ~Settled(m)
      BY <2>1, <2>3, SettledIsTold DEF Silent
    <3>4. DeskMoves(s)
      BY <1>1, <2>1, <3>1, <3>2, <3>3, LabelsApart DEF DeskMoves
    <3> QED
      BY <1>1, <2>1, <3>1, <3>2, <3>4 DEF AtDesk, Seen
  <2> QED
    BY <1>3, <2>2, <2>3 DEF Look
<1> QED
  BY <1>2, <1>3

LEMMA PostedAtDesk ==
    ASSUME AInv, NEW s \in Slots, NEW p \in posts, EndPosted(s, p)
    PROVE  AtDesk(s)
<1> USE DEF AInv
<1>1. /\ UNCHANGED <<now, world, meeting, tab, entered, left, blind, looked>>
      /\ posts' = posts \ {p} /\ run[s].at = "idle"
      /\ DocsStand /\ SameEnv
  BY DEF EndPosted, docVars, Free, At, DocsStand, SameEnv
<1>2. p[1] \in {"tab", "return"} /\ p[3] \in Meetings
  BY DEF MInv, RestTypes
<1>3. CASE UNCHANGED run
  <2>1. DeskMoves(s)
    BY <1>1, <1>3, LabelsApart DEF DeskMoves
  <2> QED
    BY <1>1, <2>1 DEF AtDesk, Seen
<1>4. ASSUME NEW l \in {"expire", "end.right", "end.last"},
             Reads(s, l, p[2], NoOne, p[3]), l = "end.last" => (p[3] \in Active => ~Settled(p[3]))
      PROVE  AtDesk(s)
  <2>1. run'[s].at = l /\ run'[s].m = p[3] /\ \A z \in Slots \ {s} : run'[z] = run[z]
    BY <1>4, ReadsAre
  <2>2. l # "beat" /\ l \notin TabLabels /\ (l \in Judged => l = "end.last")
    BY LabelsApart
  <2>3. DeskMoves(s)
    BY <1>1, <1>4, <2>1, <2>2, LabelsApart DEF DeskMoves
  <2> QED
    BY <1>1, <2>3 DEF AtDesk, Seen
<1>5. ASSUME p[3] \in Active, Settled(p[3])
      PROVE  Refused(meeting[p[3]], p) \/ Moderates(meeting[p[3]], p[2])
  <2>1. meeting[p[3]].remote # 0
    BY <1>5, SettledIsTold
  <2>2. p[1] # "tab"
    <3>1. PICK u \in InRoom(p[3]) : entered[p[3]] < tab[u].told /\ tab[u].told < now
      BY <1>5 DEF Settled
    <3>2. entered[p[3]] # now
      BY <1>2, <3>1, TimesAreInts DEF InRoom
    <3> QED
      BY <1>5, <3>1, <3>2 DEF RoomInv, Asked, Vacant, Settled
  <2> QED
    BY <1>2, <2>1, <2>2 DEF Refused, LastReportsEmpty
<1>6. \/ UNCHANGED run
      \/ \E l \in {"expire", "end.right"} : Reads(s, l, p[2], NoOne, p[3])
      \/ /\ Reads(s, "end.last", p[2], NoOne, p[3])
         /\ ~Refused(meeting[p[3]], p) /\ ~Moderates(meeting[p[3]], p[2])
  BY DEF EndPosted
<1> QED
  BY <1>3, <1>4, <1>5, <1>6

-----------------------------------------------------------------------------
(* The requests that open a tab. *)

LEMMA TabOpens ==
    ASSUME AInv, NEW s \in Slots, NEW u \in Users, NEW m \in Meetings,
           run[s].at \in {"join", "start.create"}, run[s].u = u, Opens(u, m), Finish(s),
           UNCHANGED <<now, world, posts, entered, left, blind, looked>>,
           \A n \in Meetings \ {m} : meeting'[n] = meeting[n],
           \/ /\ meeting[m].st # "none" /\ meeting'[m].st = meeting[m].st
              /\ meeting'[m].beat = meeting[m].beat
              /\ meeting'[m].remote = meeting[m].remote
              /\ meeting'[m].start = meeting[m].start
           \/ /\ meeting[m].st = "none" /\ meeting'[m].st = "active"
              /\ meeting'[m].beat = NoTime /\ meeting'[m].start = now
    PROVE  RoomInv'
<1> USE DEF AInv, RoomInv
<1>1. run'[s].at = "idle" /\ \A z \in Slots \ {s} : run'[z] = run[z]
  BY FinishIs
<1>2. run[s].at # "beat" /\ run'[s].at # "beat"
  BY <1>1, LabelsApart
<1>3. /\ tab'[u].m = m /\ ~tab'[u].in /\ tab'[u].beat = NoTime /\ tab'[u].alone = NoTime
      /\ tab'[u].told = NoTime /\ tab'[u].count = NoCount
      /\ \A w \in Users \ {u} : tab'[w] = tab[w]
  BY DEF Opens, MInv, RestTypes, NoTab
<1>4. run[s].at \in TabLabels /\ tab[u].m = NoMeeting /\ ~tab[u].in
  BY MeetingAssumption DEF OneTab, Placed, TabLabels, StartLabels
<1>5. \A n \in Meetings : RoomStays(n)
  BY <1>3, <1>4 DEF RoomStays
<1>6. \A n \in Meetings : InRoom(n)' = InRoom(n)
  BY <1>5, RoomsSame
<1>7. now \in Nat /\ MaxActive \in Nat
  BY TimesAreInts
<1>8. meeting[m].st = "none" => InRoom(m) = {} /\ ~left[m].alone
  BY DEF InRoom, Placed
<1>9. OneTab'
  <2>1. ASSUME NEW z \in Slots, run'[z].at \in TabLabels
        PROVE  z # s /\ run'[z] = run[z] /\ run[z].u # u
    BY <1>1, <1>4, <2>1, LabelsApart DEF OneTab
  <2>2. \A w : w # u => tab'[w] = tab[w]
    BY <1>3 DEF Opens, MInv, RestTypes
  <2> QED
    BY <2>1, <2>2 DEF OneTab
<1>10. Placed'
  <2>1. \A n \in Meetings : meeting'[n].st = "none" => meeting[n].st = "none" /\ n # m
    OBVIOUS
  <2>2. \A z \in Slots : run'[z].at = "beat" => run'[z] = run[z]
    BY <1>1
  <2> QED
    BY <1>3, <2>1, <2>2 DEF Placed
<1>11. Past'
  <2>1. NoTime <= now
    BY <1>7 DEF NoTime
  <2> QED
    BY <1>3, <1>7, <2>1 DEF Past
<1>17. Counted'
  <2>1. \A w \in Users \ {u} : Others(w)' = Others(w)
    BY <1>3, <1>6 DEF Others, Placed
  <2> QED
    BY <1>3, <2>1 DEF Counted, CountsAt, Hooked
<1>12. Told'
  <2> SUFFICES ASSUME NEW n \in Active'
               PROVE  ToldLast(n)' /\ \A w \in InRoom(n)' : ToldBy(n, w)'
    BY DEF Told
  <2>1. n \in Meetings
    BY DEF Active
  <2>2. CASE n \in Active
    <3>1. BeatsOf(n)' = BeatsOf(n) /\ \A z \in BeatsOf(n) : run'[z] = run[z]
      BY <1>1, <1>2, BeatsStay
    <3>2. /\ meeting'[n].beat = meeting[n].beat /\ meeting'[n].remote = meeting[n].remote
          /\ meeting'[n].start = meeting[n].start
      BY <2>1, <2>2 DEF Active
    <3> QED
      BY <1>5, <2>1, <2>2, <3>1, <3>2, ToldStays
  <2>3. CASE n \notin Active
    <3>1. n = m /\ meeting[m].st = "none"
      BY <2>1, <2>3 DEF Active
    <3> QED
      BY <1>6, <1>8, <3>1 DEF ToldLast
  <2> QED
    BY <2>2, <2>3
<1>13. ASSUME NEW n \in Active'
       PROVE  \/ /\ n \in Active /\ n \in Meetings /\ meeting'[n].st = meeting[n].st
                 /\ meeting'[n].beat = meeting[n].beat
                 /\ meeting'[n].remote = meeting[n].remote
                 /\ meeting'[n].start = meeting[n].start
              \/ n = m /\ meeting[m].st = "none" /\ meeting'[m].start = now
                 /\ meeting'[m].beat = NoTime
  BY DEF Active
<1>14. LookedAt'
  <2> SUFFICES ASSUME NEW n \in Active', n \in looked, Overdue(n)'
               PROVE  \E z \in Slots : run'[z].at \in Closing /\ run'[z].m = n
    BY DEF LookedAt
  <2>1. CASE n \in Active /\ meeting'[n].st = meeting[n].st
                /\ meeting'[n].beat = meeting[n].beat
                /\ meeting'[n].remote = meeting[n].remote
                /\ meeting'[n].start = meeting[n].start
    <3>1. PICK z \in Slots : run[z].at \in Closing /\ run[z].m = n
      BY <2>1 DEF LookedAt, Overdue, Stale, Silent
    <3>2. z # s
      BY <3>1 DEF Closing
    <3> QED
      BY <1>1, <3>1, <3>2
  <2>2. CASE meeting'[n].start = now /\ meeting'[n].beat = NoTime
    BY <1>7, <2>2 DEF Overdue, Stale, Silent
  <2> QED
    BY <1>13, <2>1, <2>2
<1>15. Asked'
  <2>1. \A p \in posts : p[3] \in Meetings
    BY DEF MInv, RestTypes
  <2>2. \A p \in posts' : p[1] = "tab" => Vacant(p[3])'
    BY <1>6, <2>1 DEF Asked, Vacant
  <2>3. ASSUME NEW z \in Slots, NEW n \in Active', run'[z].at \in Judged, run'[z].m = n
        PROVE  ~Settled(n)'
    <3>1. n \in Meetings /\ z # s /\ run'[z] = run[z]
      BY <1>1, <2>3, LabelsApart DEF Active
    <3>2. \A w \in InRoom(n) : Others(w)' = Others(w)
      BY <1>5, <3>1, RoomsSame
    <3>3. Settled(n)' => Settled(n)
      BY <1>5, <1>6, <3>1, <3>2 DEF Settled, RoomStays, InRoom
    <3>4. CASE n \in Active
      BY <2>3, <3>1, <3>3, <3>4 DEF Asked
    <3>5. CASE n \notin Active
      BY <1>8, <1>13, <3>3, <3>5 DEF Settled
    <3> QED
      BY <3>4, <3>5
  <2> QED
    BY <2>2, <2>3 DEF Asked
<1>16. AbandonedEnds'
  <2> SUFFICES ASSUME "poll" \in Calls, NEW n \in Active'
               PROVE  /\ now <= meeting'[n].start + MaxActive + 1
                      /\ InRoom(n)' = {} /\ left[n].alone => now <= left[n].at + Fresh + 1
    BY DEF AbandonedEnds, Calls
  <2>1. CASE n \in Active /\ n \in Meetings /\ meeting'[n].start = meeting[n].start
    BY <1>6, <2>1 DEF AbandonedEnds
  <2>2. CASE n = m /\ meeting[m].st = "none" /\ meeting'[m].start = now
    BY <1>7, <1>8, <2>2
  <2> QED
    BY <1>13, <2>1, <2>2
<1> QED
  BY <1>9, <1>10, <1>11, <1>12, <1>14, <1>15, <1>16, <1>17

LEMMA JoinRooms ==
    ASSUME AInv, NEW s \in Slots, Join(s)
    PROVE  RoomInv'
<1> USE DEF AInv
<1> DEFINE m == run[s].m
           u == run[s].u
<1>1. run[s].at = "join" /\ run[s].at \in TabLabels
  BY LabelsApart DEF Join, At
<1>2. m \in Meetings /\ u \in Users /\ meeting[m].st # "none"
  BY <1>1 DEF MInv, Callers, Asking, Writing
<1>3. /\ Opens(u, m) /\ Finish(s)
      /\ UNCHANGED <<now, world, posts, entered, left, blind, looked>>
      /\ meeting' = [meeting EXCEPT ![m].joined = meeting[m].joined \cup {u}]
  BY DEF Join
<1> HIDE DEF m, u
<1>4. /\ meeting'[m].st = meeting[m].st /\ meeting'[m].beat = meeting[m].beat
      /\ meeting'[m].remote = meeting[m].remote /\ meeting'[m].start = meeting[m].start
      /\ \A n \in Meetings \ {m} : meeting'[n] = meeting[n]
  BY <1>2, <1>3 DEF MInv, DocTypes, Doc
<1> QED
  BY <1>1, <1>2, <1>3, <1>4, TabOpens DEF u

LEMMA CreateRooms ==
    ASSUME AInv, NEW s \in Slots, StartCreate(s)
    PROVE  RoomInv'
<1> USE DEF AInv
<1> DEFINE u == run[s].u
           d == [NoDoc EXCEPT !.st = "active", !.by = u, !.start = now, !.joined = {u}]
<1>1. run[s].at = "start.create" /\ run[s].at \in TabLabels
  BY DEF StartCreate, At, TabLabels, StartLabels
<1>2. u \in Users
  BY <1>1 DEF MInv, Callers, Asking, StartLabels
<1>3. PICK m \in Meetings : meeting[m].st = "none" /\ Opens(u, m)
                            /\ meeting' = [meeting EXCEPT ![m] = d]
  BY DEF StartCreate, Unused
<1>4. Finish(s) /\ UNCHANGED <<now, world, posts, entered, left, blind, looked>>
  BY DEF StartCreate
<1>5. d.st = "active" /\ d.beat = NoTime /\ d.start = now
  BY DEF NoDoc
<1> HIDE DEF u, d
<1>6. meeting'[m] = d /\ \A n \in Meetings \ {m} : meeting'[n] = meeting[n]
  BY <1>3 DEF MInv, DocTypes
<1> QED
  BY <1>1, <1>2, <1>3, <1>4, <1>5, <1>6, TabOpens DEF u

-----------------------------------------------------------------------------
(* The steps of the room. *)

(* One room changes, and the documents know of it what they should.        *)
LEMMA OneRoomChanges ==
    ASSUME AInv, NEW m \in Meetings, UNCHANGED <<now, meeting, run, looked>>, SameEnv,
           \A n \in Meetings \ {m} : RoomStays(n),
           \A u \in Users : /\ tab'[u].m \in {tab[u].m, NoMeeting}
                            /\ tab'[u].in => tab'[u].m \in Meetings
                            /\ tab'[u].beat <= now /\ tab'[u].alone <= now
                            /\ tab'[u].told <= now
                            /\ ~tab'[u].in \/ tab'[u].m = m => CountsAt(u)',
           entered'[m] <= now, blind \subseteq blind',
           left'[m].alone => meeting[m].st # "none",
           m \in Active => ToldLast(m)' /\ \A u \in InRoom(m)' : ToldBy(m, u)',
           Settled(m)' => Settled(m),
           \A p \in posts' : p[1] = "tab" => /\ p[3] \in Meetings
                                             /\ p \in posts \/ (p[3] = m /\ Vacant(m)'),
           Vacant(m) => Vacant(m)',
           InRoom(m)' = {} /\ left'[m].alone =>
              left'[m].at = now \/ (InRoom(m) = {} /\ left'[m] = left[m])
    PROVE  RoomInv'
<1> USE DEF AInv, RoomInv
<1>1. \A n \in Meetings \ {m} : InRoom(n)' = InRoom(n)
                                /\ entered'[n] = entered[n] /\ left'[n] = left[n]
  BY RoomsSame DEF RoomStays
<1>2. Active' = Active /\ Active \subseteq Meetings
  BY DEF Active
<1>3. OneTab'
  <2>1. \A u \in Users : tab[u].m = NoMeeting => tab'[u].m = NoMeeting
    OBVIOUS
  <2>2. \A s \in Slots : run[s].at \in TabLabels => run[s].u \in Users
    BY DEF MInv, Callers, Asking, Writing, TabLabels
  <2> QED
    BY <2>1, <2>2 DEF OneTab
<1>4. Placed'
  <2>1. NoMeeting \notin Meetings
    BY MeetingAssumption
  <2>2. \A n \in Meetings : meeting[n].st = "none" => ~left'[n].alone
    BY <1>1 DEF Placed
  <2> QED
    BY <2>1, <2>2 DEF Placed
<1>5. Past'
  BY <1>1 DEF Past
<1>10. Counted'
  <2>1. ASSUME NEW u \in Users, tab'[u].in, tab'[u].m # m
        PROVE  CountsAt(u)'
    <3>1. PICK n \in Meetings \ {m} : n = tab'[u].m
      BY <2>1
    <3>2. u \in InRoom(n)' /\ RoomStays(n)
      BY <2>1, <3>1 DEF InRoom
    <3> QED
      BY <3>2, CountsStay
  <2> QED
    BY <2>1 DEF Counted
<1>6. Told'
  <2> SUFFICES ASSUME NEW n \in Active
               PROVE  ToldLast(n)' /\ \A u \in InRoom(n)' : ToldBy(n, u)'
    BY <1>2 DEF Told
  <2>1. CASE n = m
    BY <2>1
  <2>2. CASE n # m
    <3>1. n \in Meetings \ {m} /\ RoomStays(n)
      BY <1>2, <2>2
    <3>2. BeatsOf(n)' = BeatsOf(n) /\ \A z \in BeatsOf(n) : run'[z] = run[z]
      BY DEF BeatsOf
    <3> QED
      BY <3>1, <3>2, ToldStays
  <2> QED
    BY <2>1, <2>2
<1>7. LookedAt'
  BY <1>2 DEF LookedAt, Overdue, Stale, Silent
<1>8. Asked'
  <2>1. ASSUME NEW p \in posts', p[1] = "tab"
        PROVE  Vacant(p[3])'
    <3>1. CASE p[3] = m /\ Vacant(m)'
      BY <3>1 DEF Vacant
    <3>2. CASE p \in posts /\ p[3] # m
      <4>1. PICK n \in Meetings \ {m} : n = p[3]
        BY <2>1, <3>2
      <4> QED
        BY <1>1, <2>1, <3>2, <4>1 DEF Asked, Vacant
    <3>3. CASE p \in posts /\ p[3] = m
      BY <2>1, <3>3 DEF Asked, Vacant
    <3> QED
      BY <2>1, <3>1, <3>2, <3>3
  <2>2. ASSUME NEW n \in Active
        PROVE  Settled(n)' => Settled(n)
    <3>1. CASE n = m
      BY <3>1
    <3>2. CASE n # m
      <4>1. n \in Meetings \ {m} /\ RoomStays(n)
        BY <1>2, <3>2
      <4> QED
        BY <1>1, <4>1, RoomsSame DEF Settled, RoomStays, InRoom
    <3> QED
      BY <3>1, <3>2
  <2>3. ASSUME NEW s \in Slots, NEW n \in Active, run[s].at \in Judged, run[s].m = n
        PROVE  ~Settled(n)'
    BY <2>2, <2>3 DEF Asked
  <2> QED
    BY <1>2, <2>1, <2>3 DEF Asked
<1>9. AbandonedEnds'
  <2> SUFFICES ASSUME "poll" \in Calls, NEW n \in Active
               PROVE  /\ now <= meeting[n].start + MaxActive + 1
                      /\ InRoom(n)' = {} /\ left'[n].alone =>
                             now <= left'[n].at + Fresh + 1
    BY <1>2 DEF AbandonedEnds, SameEnv, Calls
  <2>1. CASE n # m
    <3>1. n \in Meetings \ {m}
      BY <1>2, <2>1
    <3> QED
      BY <1>1, <3>1 DEF AbandonedEnds
  <2>2. CASE n = m
    BY <2>2, TimesAreInts DEF AbandonedEnds
  <2> QED
    BY <2>1, <2>2
<1> QED
  BY <1>3, <1>4, <1>5, <1>6, <1>7, <1>8, <1>9, <1>10

(* Somebody comes in whose script counts the others, or does not yet.      *)
CountsOrNot(u, mine) ==
    /\ mine.in /\ mine.m = tab[u].m /\ mine.beat = tab[u].beat /\ mine.told = tab[u].told
    /\ \/ /\ mine.count = Cardinality(InRoom(tab[u].m))
          /\ mine.alone = now \/ (InRoom(tab[u].m) # {} /\ mine.alone = NoTime)
       \/ mine.count = NoCount /\ mine.alone = NoTime

LEMMA ComesAre ==
    ASSUME NEW u \in Users, NEW mine, Comes(u, mine), NEW v \in Users
    PROVE  /\ v = u => tab'[v] = mine
           /\ v # u /\ v \in InRoom(tab[u].m) =>
                 tab'[v] = [tab[v] EXCEPT !.alone = NoTime, !.count = Heard(tab[v].count)]
           /\ v # u /\ v \notin InRoom(tab[u].m) => tab'[v] = tab[v]
<1>1. u \notin InRoom(tab[u].m)
  BY DEF Comes, InRoom
<1>2. tab' = [w \in Users |->
          CASE w = u -> mine
            [] w \in InRoom(tab[u].m) ->
                  [tab[w] EXCEPT !.alone = NoTime, !.count = Heard(tab[w].count)]
            [] OTHER -> tab[w]]
  BY Zenon DEF Comes
<1>3. tab'[u] = mine
  BY <1>1, <1>2
<1>4. v # u /\ v \in InRoom(tab[u].m) =>
         tab'[v] = [tab[v] EXCEPT !.alone = NoTime, !.count = Heard(tab[v].count)]
  BY <1>2
<1>5. v # u /\ v \notin InRoom(tab[u].m) => tab'[v] = tab[v]
  BY <1>2
<1> QED
  BY <1>3, <1>4, <1>5

LEMMA ComesRooms ==
    ASSUME AInv, NEW u \in Users, NEW mine, Comes(u, mine), SameEnv, CountsOrNot(u, mine)
    PROVE  RoomInv'
<1> USE DEF AInv, RoomInv
<1>1. PICK m \in Meetings : m = tab[u].m
  BY TimesAreInts DEF Comes
<1> DEFINE others == InRoom(m)
<1>2. ~tab[u].in /\ UNCHANGED <<now, meeting, posts, blind, run, looked>>
  BY Zenon DEF Comes, docVars
<1>21. entered' = [entered EXCEPT ![m] = now] /\ left' = [left EXCEPT ![m] = Occupied]
  BY <1>1, Zenon DEF Comes
<1>22. \A v \in Users : /\ v = u => tab'[v] = mine
                        /\ v # u /\ v \in others => tab'[v] = [tab[v] EXCEPT
                               !.alone = NoTime, !.count = Heard(tab[v].count)]
                        /\ v # u /\ v \notin others => tab'[v] = tab[v]
  <2> HIDE DEF others, AInv, RoomInv
  <2> SUFFICES ASSUME NEW v \in Users
               PROVE  /\ v = u => tab'[v] = mine
                      /\ v # u /\ v \in others => tab'[v] = [tab[v] EXCEPT
                             !.alone = NoTime, !.count = Heard(tab[v].count)]
                      /\ v # u /\ v \notin others => tab'[v] = tab[v]
    OBVIOUS
  <2>1. InRoom(tab[u].m) = others
    BY <1>1 DEF others
  <2>2. /\ v = u => tab'[v] = mine
        /\ v # u /\ v \in InRoom(tab[u].m) =>
              tab'[v] = [tab[v] EXCEPT !.alone = NoTime, !.count = Heard(tab[v].count)]
        /\ v # u /\ v \notin InRoom(tab[u].m) => tab'[v] = tab[v]
    BY ComesAre
  <2> QED
    BY <2>1, <2>2, Zenon
<1>3. now \in Nat /\ NoTime <= now
      /\ \A v \in Users : /\ tab[v].beat \in Int /\ tab[v].alone \in Int
                          /\ tab[v].told \in Int /\ tab[v].count \in Counts
  BY TimesAreInts DEF NoTime
<1>4. u \notin others
  BY <1>2 DEF InRoom
<1>6. \A v \in Users : LET d == [tab[v] EXCEPT !.alone = NoTime, !.count = Heard(tab[v].count)] IN
         /\ d.in = tab[v].in /\ d.m = tab[v].m /\ d.beat = tab[v].beat
         /\ d.told = tab[v].told /\ d.alone = NoTime /\ d.count = Heard(tab[v].count)
  BY DEF MInv, RestTypes, Tab
<1>5. tab'[u] = mine
  BY <1>22, Zenon
<1>7. /\ \A v \in Users \ {u} : /\ tab'[v].in = tab[v].in /\ tab'[v].m = tab[v].m
                                /\ tab'[v].beat = tab[v].beat /\ tab'[v].told = tab[v].told
                                /\ v \in others => /\ tab'[v].alone = NoTime
                                                   /\ tab'[v].count = Heard(tab[v].count)
                                /\ v \notin others => /\ tab'[v].alone = tab[v].alone
                                                      /\ tab'[v].count = tab[v].count
  <2> HIDE DEF others
  <2>2. ASSUME NEW v \in Users \ {u}, v \in others
        PROVE  tab'[v] = [tab[v] EXCEPT !.alone = NoTime, !.count = Heard(tab[v].count)]
    BY <1>22, <2>2, Zenon
  <2>3. ASSUME NEW v \in Users \ {u}, v \notin others
        PROVE  tab'[v] = tab[v]
    BY <1>22, <2>3, Zenon
  <2> QED
    BY <1>6, <2>2, <2>3, ZenonT(40)
<1>19. /\ tab'[u].in /\ tab'[u].m = m /\ tab'[u].beat = tab[u].beat
       /\ tab'[u].told = tab[u].told
       /\ \/ /\ tab'[u].count = Cardinality(others)
             /\ tab'[u].alone = now \/ (others # {} /\ tab'[u].alone = NoTime)
          \/ tab'[u].count = NoCount /\ tab'[u].alone = NoTime
  BY <1>1, <1>5, Zenon DEF CountsOrNot
<1>20. tab'[u].alone <= now
  BY <1>3, <1>19
<1>8. entered'[m] = now /\ left'[m] = Occupied
      /\ \A n \in Meetings \ {m} : entered'[n] = entered[n] /\ left'[n] = left[n]
  <2>1. entered \in [Meetings -> Time] /\ left \in [Meetings -> [at: Time, alone: BOOLEAN]]
    BY DEF MInv, RestTypes
  <2> QED
    BY <1>21, <2>1
<1>9. \A n \in Meetings \ {m} : RoomStays(n)
  BY <1>1, <1>2, <1>7, <1>8, <1>19 DEF RoomStays, InRoom
<1>10. u \in InRoom(m)' /\ InRoom(m)' = others \cup {u}
  BY <1>1, <1>7, <1>19 DEF InRoom
<1>11. ASSUME NEW v \in Users, ~tab'[v].in \/ tab'[v].m = m
       PROVE  CountsAt(v)'
  <2>1. CASE v = u
    <3>1. Others(u)' = others
      BY <1>1, <1>4, <1>10, <1>19 DEF Others
    <3>2. IsFiniteSet(others)
      BY MeetingAssumption, FS_Subset DEF InRoom
    <3>3. Cardinality(others) \in Nat /\ NoCount \notin Nat
      BY <3>2, FS_CardinalityType DEF NoCount
    <3> QED
      BY <1>1, <1>19, <2>1, <3>1, <3>3 DEF CountsAt, Hooked
  <2>2. CASE v \in others
    <3>1. v # u /\ tab[v].in /\ tab[v].m = m /\ tab'[v].in /\ tab'[v].m = m
      BY <1>4, <1>7, <2>2 DEF InRoom
    <3>2. Others(v) = others \ {v} /\ Others(v)' = Others(v) \cup {u} /\ u \notin Others(v)
      BY <1>4, <1>10, <3>1 DEF Others
    <3>3. IsFiniteSet(Others(v)) /\ Cardinality(Others(v)) \in Nat
      BY OthersAre
    <3>4. Cardinality(Others(v)') = Cardinality(Others(v)) + 1
      BY <3>2, <3>3, FS_AddElement
    <3>5. CountsAt(v) /\ tab[v].count \in Counts
      BY <1>3 DEF Counted
    <3>6. tab'[v].alone = NoTime /\ tab'[v].count = Heard(tab[v].count)
      BY <1>7, <2>2, <3>1
    <3>7. /\ Hooked(v)' <=> Hooked(v)
          /\ Hooked(v) => tab[v].count \in Nat /\ tab'[v].count = tab[v].count + 1
      BY <3>5, <3>6 DEF Hooked, Heard, Counts, NoCount
    <3>8. Hooked(v) => /\ tab'[v].count <= Cardinality(Others(v)')
                       /\ m \notin blind => tab'[v].count = Cardinality(Others(v)')
      BY <3>1, <3>3, <3>4, <3>5, <3>7 DEF CountsAt
    <3> QED
      BY <1>2, <3>1, <3>6, <3>7, <3>8 DEF CountsAt
  <2>3. CASE v # u /\ v \notin others
    <3>1. tab'[v].in = tab[v].in /\ tab'[v].m = tab[v].m /\ ~tab[v].in
          /\ tab'[v].count = tab[v].count /\ tab'[v].alone = tab[v].alone
      BY <1>7, <1>11, <2>3 DEF InRoom
    <3>2. CountsAt(v)
      BY DEF Counted
    <3> QED
      BY <3>1, <3>2 DEF CountsAt, Hooked
  <2> QED
    BY <2>1, <2>2, <2>3
<1>12. \A v \in Users : /\ tab'[v].m \in {tab[v].m, NoMeeting}
                        /\ tab'[v].in => tab'[v].m \in Meetings
                        /\ tab'[v].beat <= now /\ tab'[v].alone <= now
                        /\ tab'[v].told <= now
                        /\ ~tab'[v].in \/ tab'[v].m = m => CountsAt(v)'
  BY <1>1, <1>3, <1>7, <1>11, <1>19, <1>20 DEF Placed, Past
<1>13. ~left'[m].alone
  BY <1>8 DEF Occupied
<1>14. ASSUME NEW v \in InRoom(m)'
       PROVE  ToldBy(m, v)'
  <2>1. v \in Users /\ tab'[v].in /\ tab'[v].m = m /\ tab'[v].told <= now
        /\ tab'[v].told \in Int /\ tab'[v].alone \in Int
    BY <1>3, <1>7, <1>12, <1>19 DEF InRoom, NoTime
  <2>2. Others(v)' = {} => tab'[v].alone \in {now, NoTime}
    <3>1. Others(v)' = InRoom(m)' \ {v}
      BY <2>1 DEF Others, InRoom
    <3>2. CASE v = u
      <4>1. Others(v)' = others
        BY <1>4, <1>10, <3>1, <3>2
      <4> QED
        BY <1>19, <3>2, <4>1
    <3>3. CASE v # u
      BY <1>10, <3>1, <3>3
    <3> QED
      BY <3>2, <3>3
  <2>3. UNCHANGED now /\ entered'[m] = now
    BY <1>2, <1>8
  <2> QED
    BY <1>3, <2>1, <2>2, <2>3 DEF ToldBy, ToldAlone, ToldOthers
<1>15. ToldLast(m)' /\ ~Settled(m)'
  <2>1. ToldLast(m)'
    BY <1>10 DEF ToldLast
  <2>2. ASSUME NEW v \in InRoom(m)'
        PROVE  ~(entered'[m] < tab'[v].told /\ tab'[v].told < now')
    <3>1. v \in Users /\ tab'[v].told \in Int
      BY <1>3, <1>7, <1>19 DEF InRoom
    <3>2. UNCHANGED now /\ entered'[m] = now
      BY <1>2, <1>8
    <3> QED
      BY <1>3, <3>1, <3>2
  <2> QED
    BY <2>1, <2>2 DEF Settled
<1>16. \A p \in posts' : p \in posts /\ p[3] \in Meetings
  BY <1>2 DEF MInv, RestTypes
<1>17. entered'[m] <= now /\ Vacant(m)'
  BY <1>2, <1>3, <1>8 DEF Vacant
<1>18. /\ left'[m].alone => meeting[m].st # "none"
       /\ m \in Active => ToldLast(m)' /\ \A v \in InRoom(m)' : ToldBy(m, v)'
       /\ Settled(m)' => Settled(m)
       /\ \A p \in posts' : p[1] = "tab" =>
             p[3] \in Meetings /\ (p \in posts \/ (p[3] = m /\ Vacant(m)'))
       /\ Vacant(m) => Vacant(m)'
       /\ InRoom(m)' = {} /\ left'[m].alone =>
             left'[m].at = now \/ (InRoom(m) = {} /\ left'[m] = left[m])
       /\ blind \subseteq blind'
  BY <1>2, <1>13, <1>14, <1>15, <1>16, <1>17
<1> HIDE DEF AInv, RoomInv, others
<1> QED
  BY <1>2, <1>9, <1>12, <1>17, <1>18, OneRoomChanges

LEMMA EnterRooms ==
    ASSUME AInv, NEW u \in Users, Enter(u) \/ EnterUnhooked(u)
    PROVE  RoomInv'
<1> USE DEF AInv
<1>1. tab[u] \in Tab
  BY DEF MInv, RestTypes
<1>2. CASE Enter(u)
  <2> DEFINE others == InRoom(tab[u].m)
             n == Cardinality(others)
             t == IF others = {} THEN now ELSE NoTime
             mine == [tab[u] EXCEPT !.in = TRUE, !.count = n, !.alone = t]
  <2>1. Comes(u, mine) /\ SameEnv
    BY <1>2 DEF Enter, SameEnv
  <2>2. t = now \/ (others # {} /\ t = NoTime)
    OBVIOUS
  <2> HIDE DEF n, t
  <2>3. /\ mine.in /\ mine.m = tab[u].m /\ mine.beat = tab[u].beat
        /\ mine.told = tab[u].told /\ mine.count = n /\ mine.alone = t
    BY <1>1 DEF Tab
  <2> HIDE DEF mine, others
  <2> QED
    BY <2>1, <2>2, <2>3, ComesRooms, Zenon DEF n, others, CountsOrNot
<1>3. CASE EnterUnhooked(u)
  <2> DEFINE mine == [tab[u] EXCEPT !.in = TRUE]
  <2>1. Comes(u, mine) /\ SameEnv
    BY <1>3, CallingKeeps DEF EnterUnhooked, MInv
  <2>2. tab[u].count = NoCount /\ tab[u].alone = NoTime
    BY <2>1 DEF Comes, RoomInv, Counted, CountsAt, Hooked
  <2>3. /\ mine.in /\ mine.m = tab[u].m /\ mine.beat = tab[u].beat
        /\ mine.told = tab[u].told /\ mine.count = NoCount /\ mine.alone = NoTime
    BY <1>1, <2>2 DEF Tab
  <2> HIDE DEF mine
  <2> QED
    BY <2>1, <2>3, ComesRooms, Zenon DEF CountsOrNot
<1> QED
  BY <1>2, <1>3

(* A script that hooks late counts from zero: where somebody is there, the *)
(* meeting is one of those it may get wrong.                               *)
LEMMA HookRooms ==
    ASSUME AInv, NEW u \in Users, Hook(u)
    PROVE  RoomInv'
<1> USE DEF AInv, RoomInv
<1>1. PICK m \in Meetings : m = tab[u].m
  BY DEF Hook, Placed
<1>2. /\ tab[u].in /\ ~Hooked(u) /\ SameEnv
      /\ UNCHANGED <<now, meeting, posts, run, looked, entered, left>>
      /\ blind' = IF Others(u) = {} THEN blind ELSE blind \cup {m}
      /\ tab' = [tab EXCEPT ![u] = [tab[u] EXCEPT !.count = 0, !.alone = now]]
  BY <1>1 DEF Hook, docVars, SameEnv
<1>3. now \in Nat /\ NoTime <= now
      /\ \A v \in Users : tab[v].told \in Int /\ tab[v].alone \in Int
      /\ entered[m] \in Int
  BY TimesAreInts DEF NoTime
<1>4. LET d == [tab[u] EXCEPT !.count = 0, !.alone = now] IN
         /\ d.in = tab[u].in /\ d.m = tab[u].m /\ d.beat = tab[u].beat
         /\ d.told = tab[u].told /\ d.alone = now /\ d.count = 0
  BY DEF MInv, RestTypes, Tab
<1>5. /\ \A v \in Users : /\ tab'[v].in = tab[v].in /\ tab'[v].m = tab[v].m
                          /\ tab'[v].beat = tab[v].beat /\ tab'[v].told = tab[v].told
      /\ \A v \in Users \ {u} : tab'[v].alone = tab[v].alone /\ tab'[v].count = tab[v].count
      /\ tab'[u].alone = now /\ tab'[u].count = 0
  BY <1>2, <1>4 DEF MInv, RestTypes
<1>6. /\ \A n : InRoom(n)' = InRoom(n)
      /\ \A v \in Users : Others(v)' = Others(v)
  BY <1>5, SameRooms
<1>7. u \in InRoom(m)
  BY <1>1, <1>2 DEF InRoom
<1>8. \A n \in Meetings \ {m} : RoomStays(n)
  BY <1>1, <1>2, <1>5 DEF RoomStays
<1>9. ASSUME NEW v \in Users, ~tab'[v].in \/ tab'[v].m = m
      PROVE  CountsAt(v)'
  <2>1. CASE v = u
    <3>1. Cardinality(Others(u)) \in Nat
          /\ (Cardinality(Others(u)) = 0 <=> Others(u) = {})
      BY OthersAre
    <3> QED
      BY <1>1, <1>2, <1>5, <1>6, <2>1, <3>1 DEF CountsAt, Hooked, NoCount
  <2>2. CASE v # u
    <3>1. CountsAt(v)
      BY DEF Counted
    <3> QED
      BY <1>2, <1>5, <1>6, <2>2, <3>1 DEF CountsAt, Hooked
  <2> QED
    BY <2>1, <2>2
<1>10. ASSUME m \in Active
       PROVE  ToldLast(m)' /\ \A v \in InRoom(m)' : ToldBy(m, v)'
  <2>1. ToldLast(m)'
    BY <1>6, <1>7 DEF ToldLast
  <2>2. BeatsOf(m)' = BeatsOf(m) /\ \A z \in BeatsOf(m) : run'[z] = run[z]
    BY <1>2 DEF BeatsOf
  <2>3. ASSUME NEW v \in InRoom(m)
        PROVE  ToldBy(m, v)'
    <3>1. v \in Users /\ tab[v].told <= now /\ ToldBy(m, v) /\ Others(v) = InRoom(m) \ {v}
      BY <1>10, OthersAre DEF Told, InRoom, Past
    <3>2. Others(v)' = Others(v) /\ tab'[v].told = tab[v].told /\ tab'[v].beat = tab[v].beat
      BY <1>5, <1>6, <3>1
    <3>3. CASE v = u
      BY <1>1, <1>2, <1>3, <1>5, <2>2, <3>1, <3>2, <3>3
         DEF ToldBy, ToldAlone, ToldOthers
    <3>4. CASE v # u
      <4>1. Others(v) # {} /\ Others(u) # {}
        BY <1>7, <3>1, <3>4, OthersAre
      <4>2. m \in blind'
        BY <1>2, <4>1
      <4> QED
        BY <1>2, <3>1, <3>2, <4>1, <4>2 DEF ToldBy, ToldAlone, ToldOthers
    <3> QED
      BY <3>3, <3>4
  <2> QED
    BY <1>6, <2>1, <2>3
<1>11. Settled(m)' => Settled(m)
  BY <1>2, <1>5, <1>6 DEF Settled, InRoom
<1>12. \A p \in posts' : p[1] = "tab" => p \in posts /\ p[3] \in Meetings
  BY <1>2 DEF MInv, RestTypes
<1>13. Vacant(m) => Vacant(m)'
  BY <1>2, <1>6 DEF Vacant
<1>14. entered'[m] <= now /\ (left'[m].alone => meeting[m].st # "none")
       /\ blind \subseteq blind'
  BY <1>2 DEF Past, Placed
<1>15. \A v \in Users : /\ tab'[v].m \in {tab[v].m, NoMeeting}
                        /\ tab'[v].in => tab'[v].m \in Meetings
                        /\ tab'[v].beat <= now /\ tab'[v].alone <= now
                        /\ tab'[v].told <= now
                        /\ ~tab'[v].in \/ tab'[v].m = m => CountsAt(v)'
  BY <1>3, <1>5, <1>9 DEF Placed, Past
<1> HIDE DEF AInv, RoomInv
<1> QED
  BY <1>2, <1>6, <1>7, <1>8, <1>10, <1>11, <1>12, <1>13, <1>14, <1>15, OneRoomChanges

LEMMA GoneAre ==
    ASSUME NEW u \in Users, NEW asks, Gone(u, asks), NEW v \in Users
    PROVE  /\ v = u => tab'[v] = NoTab
           /\ v # u /\ v \in Others(u) =>
                 tab'[v] = [tab[v] EXCEPT !.count = Missed(tab[v].count),
                        !.alone = IF Missed(tab[v].count) = 0 THEN now ELSE tab[v].alone]
           /\ v # u /\ v \notin Others(u) => tab'[v] = tab[v]
<1> DEFINE alone == {w \in Others(u) : Missed(tab[w].count) = 0}
<1>1. u \notin Others(u) /\ (v \in alone <=> v \in Others(u) /\ Missed(tab[v].count) = 0)
  BY DEF Others
<1>2. tab' = [w \in Users |->
          CASE w = u -> NoTab
            [] w \in Others(u) -> [tab[w] EXCEPT !.count = Missed(tab[w].count),
                                      !.alone = IF w \in alone THEN now ELSE tab[w].alone]
            [] OTHER -> tab[w]]
  BY Zenon DEF Gone
<1> HIDE DEF alone
<1>3. tab'[u] = NoTab
  BY <1>1, <1>2
<1>4. v # u /\ v \in Others(u) =>
         tab'[v] = [tab[v] EXCEPT !.count = Missed(tab[v].count),
                        !.alone = IF Missed(tab[v].count) = 0 THEN now ELSE tab[v].alone]
  BY <1>1, <1>2
<1>5. v # u /\ v \notin Others(u) => tab'[v] = tab[v]
  BY <1>2
<1> QED
  BY <1>3, <1>4, <1>5

LEMMA GoneRooms ==
    ASSUME AInv, NEW u \in Users, tab[u].m # NoMeeting, NEW asks, Gone(u, asks),
           UNCHANGED <<now, meeting, run, looked>>, SameEnv,
           \A p \in posts' : p[1] = "tab" => \/ p \in posts
                                             \/ p[3] = tab[u].m /\ Last(u)
    PROVE  RoomInv'
<1> USE DEF AInv, RoomInv
<1>1. PICK m \in Meetings : m = tab[u].m
  BY TimesAreInts
<1> DEFINE there == Others(u)
<1>2. /\ now \in Nat /\ NoTime <= now /\ NoTime # now
      /\ \A v \in Users : /\ tab[v].alone \in Int /\ tab[v].told \in Int
                          /\ tab[v].count \in Counts
      /\ meeting[m].beat \in Int /\ meeting[m].start \in Int
  BY TimesAreInts DEF NoTime
<1>3. /\ \A v \in Users : tab[v] \in Tab
      /\ left \in [Meetings -> [at: Time, alone: BOOLEAN]]
  BY DEF MInv, RestTypes
<1>4. UNCHANGED <<entered, blind>>
  BY Zenon DEF Gone
<1>5. left' = IF ~tab[u].in \/ there # {} THEN left
              ELSE [left EXCEPT ![m] = [at |-> now, alone |->
                       tab[u].alone # NoTime /\ tab[u].told > tab[u].alone]]
  BY <1>1, Zenon DEF Gone
<1>6. ASSUME NEW v \in Users, v # u, v \in there
      PROVE  /\ tab'[v].in = tab[v].in /\ tab'[v].m = tab[v].m
             /\ tab'[v].beat = tab[v].beat /\ tab'[v].told = tab[v].told
             /\ tab'[v].count = Missed(tab[v].count)
             /\ tab'[v].alone = IF tab'[v].count = 0 THEN now ELSE tab[v].alone
  <2> DEFINE n == Missed(tab[v].count)
             t == IF n = 0 THEN now ELSE tab[v].alone
             d == [tab[v] EXCEPT !.count = n, !.alone = t]
  <2>1. tab'[v] = d
    BY <1>6, GoneAre, Zenon
  <2> HIDE DEF n, t
  <2>2. /\ d.in = tab[v].in /\ d.m = tab[v].m /\ d.beat = tab[v].beat
        /\ d.told = tab[v].told /\ d.count = n /\ d.alone = t
    BY <1>3 DEF Tab
  <2> HIDE DEF d
  <2> QED
    BY <2>1, <2>2, Zenon DEF n, t
<1>7. \A v \in Users : v # u /\ v \notin there => tab'[v] = tab[v]
  BY GoneAre
<1>8. /\ ~tab'[u].in /\ tab'[u].m = NoMeeting /\ tab'[u].beat = NoTime
      /\ tab'[u].alone = NoTime /\ tab'[u].told = NoTime /\ tab'[u].count = NoCount
  <2>1. tab'[u] = NoTab
    BY GoneAre
  <2> QED
    BY <2>1 DEF NoTab
<1>9. /\ \A n \in Meetings \ {m} : left'[n] = left[n]
      /\ ~tab[u].in \/ there # {} => left'[m] = left[m]
      /\ tab[u].in /\ there = {} =>
            /\ left'[m].at = now
            /\ left'[m].alone <=> tab[u].alone # NoTime /\ tab[u].told > tab[u].alone
  BY <1>3, <1>5
<1>10. /\ \A v \in there : v \in Users /\ v # u /\ tab[u].in /\ tab[v].in /\ tab[v].m = m
       /\ \A v \in Users : v # u /\ tab[u].in /\ tab[v].in /\ tab[v].m = m => v \in there
  BY <1>1 DEF Others, InRoom
<1> HIDE DEF there
<1>11. \A v \in Users : v # u => /\ tab'[v].in = tab[v].in /\ tab'[v].m = tab[v].m
                                 /\ tab'[v].beat = tab[v].beat
                                 /\ tab'[v].told = tab[v].told
                                 /\ tab'[v].alone \in {now, tab[v].alone}
  BY <1>6, <1>7
<1>12. \A n \in Meetings \ {m} : RoomStays(n)
  <2> SUFFICES ASSUME NEW n \in Meetings \ {m}
               PROVE  RoomStays(n)
    OBVIOUS
  <2>1. n # NoMeeting
    BY MeetingAssumption
  <2>2. ASSUME NEW v \in Users, tab[v].m = n \/ tab'[v].m = n
        PROVE  v # u /\ tab'[v] = tab[v]
    BY <1>1, <1>7, <1>8, <1>10, <1>11, <2>1, <2>2
  <2> QED
    BY <1>4, <1>9, <2>2 DEF RoomStays
<1>13. InRoom(m)' = InRoom(m) \ {u}
  BY <1>8, <1>11 DEF InRoom
<1>14. ASSUME NEW v \in InRoom(m)'
       PROVE  /\ v \in Users /\ v # u /\ v \in InRoom(m) /\ tab[v].in /\ tab[v].m = m
              /\ tab'[v].in /\ tab'[v].m = m
              /\ Others(v)' = Others(v) \ {u}
              /\ tab[u].in => v \in there /\ u \in Others(v)
  <2>1. v \in Users /\ v # u /\ tab[v].in /\ tab[v].m = m /\ tab'[v].in /\ tab'[v].m = m
    BY <1>8, <1>11 DEF InRoom
  <2>2. Others(v) = InRoom(m) \ {v} /\ Others(v)' = InRoom(m)' \ {v}
    BY <2>1 DEF Others, InRoom
  <2>3. tab[u].in => u \in InRoom(m)
    BY <1>1 DEF InRoom
  <2> QED
    BY <1>10, <1>13, <2>1, <2>2, <2>3 DEF InRoom
<1>15. ASSUME NEW v \in Users, ~tab'[v].in \/ tab'[v].m = m
       PROVE  CountsAt(v)'
  <2>1. CASE v = u
    BY <1>8, <2>1 DEF CountsAt, Hooked
  <2>2. CASE v # u /\ ~tab[v].in
    <3>1. tab'[v] = tab[v] /\ CountsAt(v)
      BY <1>7, <1>10, <2>2 DEF Counted
    <3> QED
      BY <2>2, <3>1 DEF CountsAt, Hooked
  <2>3. CASE v # u /\ tab[v].in
    <3>1. v \in InRoom(m)' /\ CountsAt(v)
      BY <1>11, <1>15, <2>3 DEF InRoom, Counted
    <3>2. CASE ~tab[u].in
      <4>1. tab'[v] = tab[v]
        BY <1>7, <1>10, <2>3, <3>2
      <4>2. Others(v)' = Others(v)
        BY <1>1, <1>14, <3>1, <3>2 DEF Others, InRoom
      <4> QED
        BY <1>4, <3>1, <4>1, <4>2 DEF CountsAt, Hooked
    <3>3. CASE tab[u].in
      <4>1. /\ v \in there /\ u \in Others(v) /\ Others(v)' = Others(v) \ {u}
            /\ tab[v].in /\ tab[v].m = m /\ tab'[v].in /\ tab'[v].m = m
        BY <1>14, <3>1, <3>3
      <4>2. IsFiniteSet(Others(v)) /\ Cardinality(Others(v)) \in Nat
            /\ Cardinality(Others(v)) # 0
        BY <4>1, OthersAre
      <4>3. Cardinality(Others(v)') = Cardinality(Others(v)) - 1
        BY <4>1, <4>2, FS_RemoveElement
      <4>4. tab'[v].count = Missed(tab[v].count) /\ tab[v].count \in Counts
            /\ tab'[v].alone = IF tab'[v].count = 0 THEN now ELSE tab[v].alone
        BY <1>2, <1>6, <2>3, <4>1
      <4>5. CASE ~Hooked(v)
        <5>1. tab'[v].count = NoCount /\ NoCount # 0
          BY <4>4, <4>5 DEF Hooked, Missed, NoCount
        <5> QED
          BY <3>1, <4>1, <4>4, <4>5, <5>1 DEF CountsAt, Hooked
      <4>6. CASE Hooked(v)
        <5>1. /\ tab[v].count \in Nat /\ tab[v].count <= Cardinality(Others(v))
              /\ m \notin blind => tab[v].count = Cardinality(Others(v))
          BY <3>1, <4>1, <4>4, <4>6 DEF CountsAt, Hooked, Counts
        <5>2. /\ tab'[v].count \in Nat /\ tab'[v].count # NoCount
              /\ tab'[v].count <= Cardinality(Others(v)')
              /\ m \notin blind => tab'[v].count = Cardinality(Others(v)')
          BY <4>2, <4>3, <4>4, <5>1 DEF Missed, NoCount
        <5> QED
          BY <1>4, <4>1, <5>2 DEF CountsAt, Hooked
      <4> QED
        BY <4>5, <4>6
    <3> QED
      BY <3>2, <3>3
  <2> QED
    BY <2>1, <2>2, <2>3
<1>16. \A v \in Users : /\ tab'[v].m \in {tab[v].m, NoMeeting}
                        /\ tab'[v].in => tab'[v].m \in Meetings
                        /\ tab'[v].beat <= now /\ tab'[v].alone <= now
                        /\ tab'[v].told <= now
                        /\ ~tab'[v].in \/ tab'[v].m = m => CountsAt(v)'
  BY <1>2, <1>8, <1>11, <1>15 DEF Placed, Past
<1>17. entered'[m] <= now /\ entered'[m] = entered[m] /\ blind' = blind
       /\ blind \subseteq blind'
  BY <1>4 DEF Past
<1>18. left'[m].alone => meeting[m].st # "none"
  BY <1>1 DEF Placed
<1>19. Vacant(m) => Vacant(m)'
  BY <1>13, <1>17 DEF Vacant
<1>20. BeatsOf(m)' = BeatsOf(m) /\ \A z \in BeatsOf(m) : run'[z] = run[z]
  BY DEF BeatsOf
<1>21. ASSUME NEW v \in InRoom(m)', Others(v)' = {}, tab[u].in
       PROVE  tab'[v].alone \in {now, NoTime}
  <2>1. v \in there /\ v \in Users /\ v # u /\ CountsAt(v)'
    BY <1>10, <1>14, <1>15, <1>21
  <2>2. CASE ~Hooked(v)'
    BY <2>1, <2>2 DEF CountsAt
  <2>3. CASE Hooked(v)'
    <3>1. Cardinality(Others(v)') = 0
      BY <1>21, FS_EmptySet
    <3>2. tab'[v].count <= 0
      BY <2>1, <2>3, <3>1 DEF CountsAt
    <3>3. tab'[v].count \in Nat
      BY <1>2, <1>6, <2>1, <2>3 DEF Hooked, Missed, Counts, NoCount
    <3> QED
      BY <1>6, <2>1, <3>2, <3>3
  <2> QED
    BY <2>2, <2>3
<1>22. ASSUME m \in Active
       PROVE  ToldLast(m)' /\ \A v \in InRoom(m)' : ToldBy(m, v)'
  <2>1. CASE ~tab[u].in
    <3>1. RoomStays(m)
      <4>1. ASSUME NEW v \in Users, (tab[v].in /\ tab[v].m = m) \/ tab'[v].in
            PROVE  v # u /\ tab'[v] = tab[v]
        BY <1>7, <1>8, <1>10, <2>1, <4>1
      <4> QED
        BY <1>9, <1>17, <2>1, <4>1 DEF RoomStays
    <3> QED
      BY <1>20, <1>22, <3>1, ToldStays
  <2>2. CASE tab[u].in
    <3>1. ToldBy(m, u) /\ ToldLast(m)
      BY <1>1, <1>22, <2>2 DEF Told, InRoom
    <3>2. ToldLast(m)'
      <4> SUFFICES ASSUME InRoom(m)' = {}, left'[m].alone
                   PROVE  /\ \A z \in BeatsOf(m) : run[z].remote = 0
                          /\ left'[m].at = now
                          /\ Empty(meeting[m])
                          /\ meeting[m].beat <= left'[m].at
                          /\ meeting[m].start <= left'[m].at
        BY <1>20 DEF ToldLast, Empty
      <4>1. there = {}
        BY <1>10, <1>13 DEF InRoom
      <4>2. left'[m].at = now /\ tab[u].alone # NoTime /\ tab[u].told > tab[u].alone
        BY <1>9, <2>2, <4>1
      <4>3. ToldAlone(m, u) /\ tab[u].told <= now
        BY <3>1 DEF ToldBy, Past
      <4>4. tab[u].alone < now /\ tab[u].alone < tab[u].told
        BY <1>2, <4>2, <4>3
      <4> QED
        BY <4>1, <4>2, <4>3, <4>4 DEF ToldAlone, Past, there
    <3>3. ASSUME NEW v \in InRoom(m)'
          PROVE  ToldBy(m, v)'
      <4>1. /\ v \in Users /\ v # u /\ v \in InRoom(m) /\ Others(v) # {}
            /\ tab'[v].beat = tab[v].beat /\ tab'[v].told = tab[v].told
            /\ tab'[v].told <= now
        BY <1>11, <1>14, <1>16, <2>2, <3>3
      <4>2. ToldBy(m, v)
        BY <1>22, <4>1 DEF Told
      <4>3. Others(v)' = {} => tab'[v].alone \in {now, NoTime}
        BY <1>21, <2>2, <3>3
      <4>4. ToldAlone(m, v)'
        BY <1>2, <4>1, <4>3 DEF ToldAlone
      <4>5. ToldOthers(m, v)'
        BY <1>17, <1>20, <4>1, <4>2 DEF ToldBy, ToldOthers
      <4> QED
        BY <1>17, <4>1, <4>2, <4>4, <4>5 DEF ToldBy
    <3> QED
      BY <3>2, <3>3
  <2> QED
    BY <2>1, <2>2
<1>23. Settled(m)' => Settled(m)
  <2>1. ASSUME NEW v \in InRoom(m)', Others(v)' # {}
        PROVE  v \in InRoom(m) /\ Others(v) # {} /\ tab'[v].told = tab[v].told
    BY <1>11, <1>14, <2>1
  <2> QED
    BY <1>17, <2>1 DEF Settled
<1>24. \A p \in posts' : p[1] = "tab" =>
          p[3] \in Meetings /\ (p \in posts \/ (p[3] = m /\ Vacant(m)'))
  <2>1. Last(u) => Vacant(m)'
    <3> SUFFICES ASSUME Last(u), m \notin blind
                 PROVE  InRoom(m)' = {}
      BY <1>17 DEF Vacant
    <3>1. Hooked(u) /\ CountsAt(u)
      BY DEF Last, Hooked, NoCount, Counted
    <3>2. Cardinality(Others(u)) = 0 /\ tab[u].in
      BY <1>1, <3>1 DEF CountsAt, Last
    <3>3. Others(u) = {}
      BY <3>2, OthersAre
    <3> QED
      BY <1>1, <1>13, <3>2, <3>3 DEF Others
  <2>2. \A p \in posts : p[3] \in Meetings
    BY DEF MInv, RestTypes
  <2> QED
    BY <1>1, <2>1, <2>2
<1>25. InRoom(m)' = {} /\ left'[m].alone =>
          left'[m].at = now \/ (InRoom(m) = {} /\ left'[m] = left[m])
  <2>1. CASE tab[u].in /\ there = {}
    BY <1>9, <2>1
  <2>2. CASE tab[u].in /\ there # {}
    BY <1>10, <1>13, <2>2 DEF InRoom
  <2>3. CASE ~tab[u].in
    BY <1>9, <1>13, <2>3 DEF InRoom
  <2> QED
    BY <2>1, <2>2, <2>3
<1> HIDE DEF AInv, RoomInv
<1> QED
  BY <1>12, <1>16, <1>17, <1>18, <1>19, <1>22, <1>23, <1>24, <1>25, OneRoomChanges

(* Steps that leave all rooms and documents as they are. *)
LEMMA StillRooms ==
    ASSUME AInv, UNCHANGED <<now, meeting, run, looked, entered, left, blind>>, SameEnv,
           \A p \in posts' : p[1] = "tab" => p \in posts,
           \A u \in Users : /\ tab'[u].m = tab[u].m /\ tab'[u].in = tab[u].in
                            /\ tab'[u].alone = tab[u].alone /\ tab'[u].told = tab[u].told
                            /\ tab'[u].count = tab[u].count
                            /\ tab'[u].beat \in {tab[u].beat, now}
    PROVE  RoomInv'
<1> USE DEF AInv, RoomInv
<1>1. \A m \in Meetings : RoomStays(m)
  <2>1. now # NoTime
    BY TimesAreInts DEF NoTime
  <2> QED
    BY <2>1 DEF RoomStays
<1>4. \A u \in Users : CountsAt(u)'
  BY SameRooms DEF Counted, CountsAt, Hooked
<1>2. CASE Meetings = {}
  <2>1. Active = {} /\ Active' = {}
    BY <1>2 DEF Active
  <2>2. posts = {}
    BY <1>2 DEF MInv, RestTypes
  <2>3. \A s \in Slots : run[s].at \in TabLabels => run[s].u \in Users
    BY DEF MInv, Callers, Asking, Writing, TabLabels
  <2>6. now \in Nat
    BY TimesAreInts
  <2>4. OneTab' /\ Placed' /\ Past' /\ Counted'
    BY <1>2, <1>4, <2>3, <2>6 DEF OneTab, Placed, Past, Counted
  <2>5. Told' /\ LookedAt' /\ Asked' /\ AbandonedEnds'
    BY <2>1, <2>2 DEF Told, LookedAt, Asked, AbandonedEnds
  <2> QED
    BY <2>4, <2>5
<1>3. ASSUME NEW m \in Meetings
      PROVE  RoomInv'
  <2>1. BeatsOf(m)' = BeatsOf(m) /\ \A z \in BeatsOf(m) : run'[z] = run[z]
    BY DEF BeatsOf
  <2>2. m \in Active => ToldLast(m)' /\ \A v \in InRoom(m)' : ToldBy(m, v)'
    BY <1>1, <2>1, ToldStays
  <2>3. /\ InRoom(m)' = InRoom(m) /\ (Settled(m)' => Settled(m))
        /\ Vacant(m) => Vacant(m)'
    <3>1. InRoom(m)' = InRoom(m) /\ \A v \in Users : Others(v)' = Others(v)
      BY SameRooms
    <3> QED
      BY <3>1 DEF Settled, InRoom, Vacant
  <2>4. \A p \in posts' : p[1] = "tab" => p \in posts /\ p[3] \in Meetings
    BY DEF MInv, RestTypes
  <2>5. \A u \in Users : /\ tab'[u].m \in {tab[u].m, NoMeeting}
                         /\ tab'[u].in => tab'[u].m \in Meetings
                         /\ tab'[u].beat <= now /\ tab'[u].alone <= now
                         /\ tab'[u].told <= now
                         /\ ~tab'[u].in \/ tab'[u].m = m => CountsAt(u)'
    BY <1>4, TimesAreInts DEF Placed, Past
  <2>6. entered'[m] <= now /\ (left'[m].alone => meeting[m].st # "none")
    BY DEF Past, Placed
  <2> HIDE DEF AInv, RoomInv
  <2> QED
    BY <1>1, <2>2, <2>3, <2>4, <2>5, <2>6, OneRoomChanges
<1> QED
  BY <1>2, <1>3

LEMMA RoomStepRooms ==
    ASSUME AInv, RoomStep
    PROVE  RoomInv'
<1> USE DEF AInv
<1>0. SameEnv
  BY RoomKeeps
<1>1. ASSUME NEW u \in Users, Leave(u)
      PROVE  RoomInv'
  <2>1. /\ tab[u].m # NoMeeting /\ Gone(u, Last(u) \/ tab[u].watched)
        /\ UNCHANGED <<now, meeting, run, looked>>
    BY <1>1 DEF Leave, docVars
  <2>2. \A p \in posts' : p[1] = "tab" => p \in posts \/ (p[3] = tab[u].m /\ Last(u))
    BY <1>1 DEF Leave
  <2> QED
    BY <1>0, <2>1, <2>2, GoneRooms
<1>2. ASSUME NEW u \in Users, Vanish(u)
      PROVE  RoomInv'
  <2>1. /\ tab[u].m # NoMeeting /\ Gone(u, TRUE)
        /\ UNCHANGED <<now, meeting, run, looked, posts>>
    BY <1>2 DEF Vanish, docVars
  <2> QED
    BY <1>0, <2>1, GoneRooms
<1>3. ASSUME NEW u \in Users, Reload(u)
      PROVE  RoomInv'
  <2>1. /\ UNCHANGED <<now, meeting, run, looked, entered, left, blind>>
        /\ \A p \in posts' : p[1] = "tab" => p \in posts
    BY <1>3 DEF Reload, docVars
  <2>2. LET d == [tab[u] EXCEPT !.watched = FALSE] IN
           d.m = tab[u].m /\ d.in = tab[u].in /\ d.beat = tab[u].beat
           /\ d.alone = tab[u].alone /\ d.told = tab[u].told /\ d.count = tab[u].count
    BY DEF MInv, RestTypes, Tab
  <2>3. \A v \in Users : tab'[v] = IF v = u THEN [tab[u] EXCEPT !.watched = FALSE]
                                   ELSE tab[v]
    BY <1>3 DEF Reload, MInv, RestTypes
  <2>4. \A v \in Users : /\ tab'[v].m = tab[v].m /\ tab'[v].in = tab[v].in
                         /\ tab'[v].beat = tab[v].beat /\ tab'[v].alone = tab[v].alone
                         /\ tab'[v].told = tab[v].told /\ tab'[v].count = tab[v].count
    BY <2>2, <2>3
  <2> QED
    BY <1>0, <2>1, <2>4, StillRooms
<1>4. ASSUME PostLost
      PROVE  RoomInv'
  <2>1. /\ UNCHANGED <<now, meeting, run, looked, entered, left, blind, tab>>
        /\ posts' \subseteq posts
    BY <1>4 DEF PostLost, docVars
  <2> QED
    BY <1>0, <2>1, StillRooms
<1>5. ASSUME NEW u \in Users, BeatLost(u)
      PROVE  RoomInv'
  <2>1. UNCHANGED <<now, meeting, run, looked, entered, left, blind, posts>>
    BY <1>5 DEF BeatLost, docVars
  <2>2. \A v \in Users : /\ tab'[v].m = tab[v].m /\ tab'[v].in = tab[v].in
                         /\ tab'[v].alone = tab[v].alone /\ tab'[v].told = tab[v].told
                         /\ tab'[v].count = tab[v].count
                         /\ tab'[v].beat \in {tab[v].beat, now}
    BY <1>5 DEF BeatLost, MInv, RestTypes, Tab
  <2> QED
    BY <1>0, <2>1, <2>2, StillRooms
<1> QED
  BY <1>1, <1>2, <1>3, <1>4, <1>5, EnterRooms, HookRooms DEF RoomStep

-----------------------------------------------------------------------------
(* The reports and the clock. *)

LEMMA HeartbeatRooms ==
    ASSUME AInv, NEW s \in Slots, NEW u \in Users, Heartbeat(s, u)
    PROVE  RoomInv'
<1> USE DEF AInv, RoomInv
<1>0. Hooked(u) /\ tab[u].in /\ CountsAt(u)
  BY DEF Heartbeat, BeatDue, Counted, CountsAt
<1>1. PICK m \in Meetings : m = tab[u].m
  BY <1>0 DEF Placed
<1>2. /\ UNCHANGED <<now, world, meeting, posts, entered, left, blind, looked>>
      /\ run[s].at = "idle"
      /\ tab' = [tab EXCEPT ![u].beat = now]
  BY DEF Heartbeat, docVars, Free, At
<1>3. /\ now \in Nat /\ NoTime <= now /\ NoTime # now
      /\ \A v \in Users : tab[v].beat \in Int /\ tab[v].alone \in Int
                          /\ tab[v].count \in Counts
      /\ \A n \in Meetings : entered[n] \in Int
  BY TimesAreInts DEF NoTime
<1>4. /\ \A v \in Users : tab'[v].in = tab[v].in /\ tab'[v].m = tab[v].m
                          /\ tab'[v].alone = tab[v].alone
                          /\ tab'[v].told = tab[v].told
                          /\ tab'[v].count = tab[v].count
      /\ tab'[u].beat = now /\ \A v \in Users \ {u} : tab'[v].beat = tab[v].beat
  BY <1>2 DEF MInv, RestTypes, Tab
<1>5. /\ \A n : InRoom(n)' = InRoom(n)
      /\ \A v \in Users : Others(v)' = Others(v)
  BY <1>4, SameRooms
<1>6. Counted'
  BY <1>2, <1>4, <1>5 DEF Counted, CountsAt, Hooked
<1>7. /\ \A z \in Slots \ {s} : run'[z] = run[z]
      /\ \/ meeting[m].st = "ended" /\ run'[s] = run[s]
         \/ run'[s].at = "beat" /\ run'[s].m = m /\ run'[s].remote = Reported(u)
  <2> DEFINE c == [Idle EXCEPT !.at = "beat", !.u = u, !.m = tab[u].m,
                               !.remote = Reported(u)]
  <2>1. \/ meeting[m].st = "ended" /\ UNCHANGED run
        \/ run' = [run EXCEPT ![s] = c]
    BY <1>1 DEF Heartbeat
  <2>2. c.at = "beat" /\ c.m = m /\ c.remote = Reported(u)
    BY <1>1 DEF Idle
  <2> HIDE DEF c
  <2> QED
    BY <2>1, <2>2 DEF MInv, DocTypes
<1>8. run'[s].at \in {"idle", "beat"}
  BY <1>2, <1>7
<1>9. Active' = Active /\ Active \subseteq Meetings
  BY <1>2 DEF Active
<1>10. OneTab'
  BY <1>4, <1>7, <1>8, LabelsApart DEF OneTab, MInv, Callers, Asking, Writing, TabLabels
<1>11. Placed'
  BY <1>1, <1>2, <1>4, <1>7 DEF Placed
<1>12. Past'
  BY <1>2, <1>3, <1>4 DEF Past
<1>13. Others(u) = {} => Reported(u) = 0
  <2>1. Others(u) = {} => Cardinality(Others(u)) = 0
    BY FS_EmptySet
  <2> QED
    BY <1>0, <1>3, <2>1 DEF Reported, CountsAt, Hooked, Counts, NoCount
<1>14. m \notin blind /\ Others(u) # {} /\ tab[u].beat # NoTime => Reported(u) # 0
  <2>1. Others(u) # {} => Cardinality(Others(u)) # 0
    BY OthersAre
  <2> QED
    BY <1>0, <1>1, <2>1 DEF Reported, CountsAt
<1>15. Told'
  <2> SUFFICES ASSUME NEW n \in Active
               PROVE  ToldLast(n)' /\ \A v \in InRoom(n)' : ToldBy(n, v)'
    BY <1>9 DEF Told
  <2>1. CASE n # m
    <3>1. n \in Meetings /\ RoomStays(n)
      BY <1>1, <1>2, <1>3, <1>4, <1>9, <2>1 DEF RoomStays
    <3>2. BeatsOf(n)' = BeatsOf(n) /\ \A z \in BeatsOf(n) : run'[z] = run[z]
      BY <1>2, <1>7, <2>1 DEF BeatsOf
    <3>3. /\ meeting'[n].beat = meeting[n].beat /\ meeting'[n].remote = meeting[n].remote
          /\ meeting'[n].start = meeting[n].start
      BY <1>2
    <3> QED
      BY <3>1, <3>2, <3>3, ToldStays
  <2>2. CASE n = m
    <3>1. run'[s].at = "beat" /\ run'[s].m = m /\ run'[s].remote = Reported(u)
      BY <1>7, <2>2 DEF Active
    <3>2. BeatsOf(m)' = BeatsOf(m) \cup {s} /\ s \notin BeatsOf(m)
          /\ \A z \in BeatsOf(m) : run'[z] = run[z]
      BY <1>2, <1>7, <3>1 DEF BeatsOf
    <3>3. u \in InRoom(m)
      BY <1>0, <1>1 DEF InRoom
    <3>4. ToldLast(m)'
      BY <1>5, <3>3 DEF ToldLast
    <3>5. ASSUME NEW v \in InRoom(m)
          PROVE  ToldBy(m, v)'
      <4>1. v \in Users /\ tab[v].in /\ tab[v].m = m /\ ToldBy(m, v)
            /\ (Others(v) = {} => v = u)
        <5>1. v \in Users /\ tab[v].in /\ tab[v].m = m /\ ToldBy(m, v)
          BY <2>2 DEF Told, InRoom
        <5>2. Others(v) = InRoom(m) \ {v}
          BY <5>1 DEF Others
        <5> QED
          BY <3>3, <5>1, <5>2
      <4>2. Others(v) # {} => Others(u) # {}
        <5>1. Others(v) = InRoom(m) \ {v} /\ Others(u) = InRoom(m) \ {u}
          BY <1>0, <1>1, <4>1 DEF Others
        <5> QED
          BY <3>3, <3>5, <5>1
      <4>3. entered[m] < now => tab[u].beat # NoTime
        BY <2>2, <3>3 DEF Told, ToldBy
      <4>4. tab'[v].beat \in {tab[v].beat, now} /\ tab'[v].alone = tab[v].alone
            /\ tab'[v].told = tab[v].told /\ Others(v)' = Others(v)
        BY <1>4, <1>5, <4>1
      <4>5. entered'[m] < now' => tab'[v].beat # NoTime
        BY <1>2, <1>3, <4>1, <4>4 DEF ToldBy
      <4>6. ToldAlone(m, v)'
        BY <1>2, <1>13, <3>1, <3>2, <4>1, <4>4 DEF ToldBy, ToldAlone, Empty
      <4>7. ToldOthers(m, v)'
        BY <1>2, <1>14, <3>1, <3>2, <4>1, <4>2, <4>3, <4>4 DEF ToldBy, ToldOthers
      <4> QED
        BY <4>5, <4>6, <4>7 DEF ToldBy
    <3> QED
      BY <1>5, <2>2, <3>4, <3>5
  <2> QED
    BY <2>1, <2>2
<1>16. LookedAt'
  <2>1. run[s].at \notin Closing
    BY <1>2, LabelsApart
  <2> QED
    BY <1>2, <1>7, <1>9, <2>1 DEF LookedAt, Overdue, Stale, Silent
<1>17. Asked'
  <2>1. \A n \in Meetings : Settled(n)' => Settled(n)
    BY <1>2, <1>4, <1>5 DEF Settled, InRoom
  <2>2. \A z \in Slots : run'[z].at \in Judged => run'[z] = run[z]
    BY <1>7, <1>8, LabelsApart
  <2> QED
    BY <1>2, <1>5, <1>9, <2>1, <2>2 DEF Asked, Vacant
<1>18. AbandonedEnds'
  BY <1>2, <1>5, <1>9 DEF AbandonedEnds, Calls
<1> QED
  BY <1>6, <1>10, <1>11, <1>12, <1>15, <1>16, <1>17, <1>18

LEMMA SaveBeatRooms ==
    ASSUME AInv, NEW s \in Slots, SaveBeat(s)
    PROVE  RoomInv'
<1> USE DEF AInv, RoomInv
<1> DEFINE r == run[s].remote
           m == run[s].m
           d == [meeting[m] EXCEPT !.beat = now, !.remote = r]
<1>1. /\ run[s].at = "beat" /\ meeting' = [meeting EXCEPT ![m] = d] /\ Finish(s)
      /\ UNCHANGED <<now, world, posts, entered, left, blind, looked>>
      /\ Tells(run[s].u, m)
  BY DEF SaveBeat, At
<1>2. run'[s].at = "idle" /\ \A z \in Slots \ {s} : run'[z] = run[z]
  BY <1>1, FinishIs
<1>3. /\ now \in Nat /\ MaxActive \in Nat /\ Fresh \in Nat
      /\ \A v \in Users : /\ tab[v].beat \in Int /\ tab[v].alone \in Int
                          /\ tab[v].told \in Int /\ tab[v].told <= now
      /\ \A n \in Meetings : entered[n] \in Int
  BY TimesAreInts DEF Past
<1>15. \A v \in Users :
          /\ tab'[v].m = tab[v].m /\ tab'[v].in = tab[v].in
          /\ tab'[v].beat = tab[v].beat /\ tab'[v].alone = tab[v].alone
          /\ tab'[v].count = tab[v].count
          /\ tab'[v].told = tab[v].told \/ (tab'[v].told = now /\ tab[v].m = m)
  BY <1>1, TellsKeeps DEF MInv
<1>16. \A v \in Users : tab'[v].told \in Int /\ tab'[v].told <= now
  BY <1>3, <1>15
<1>4. \A n \in Meetings : /\ n = m => meeting'[n].beat = now /\ meeting'[n].remote = r
                          /\ n # m => /\ meeting'[n].beat = meeting[n].beat
                                      /\ meeting'[n].remote = meeting[n].remote
                          /\ meeting'[n].st = meeting[n].st
                          /\ meeting'[n].start = meeting[n].start
  BY <1>1 DEF MInv, DocTypes, Doc
<1> HIDE DEF d
<1>5. \A n \in Meetings : n # m => RoomStays(n)
  BY <1>1, <1>15 DEF RoomStays
<1>6. /\ \A n : InRoom(n)' = InRoom(n)
      /\ \A v \in Users : Others(v)' = Others(v)
  BY <1>15, SameRooms
<1>17. Counted'
  BY <1>1, <1>6, <1>15 DEF Counted, CountsAt, Hooked
<1>7. Active' = Active /\ Active \subseteq Meetings
  BY <1>4 DEF Active
<1>8. OneTab'
  <2>1. \A z \in Slots : run[z].at \in TabLabels => run[z].u \in Users
    BY DEF MInv, Callers, Asking, Writing, TabLabels
  <2>2. \A z \in Slots : run'[z].at \in TabLabels => z # s
    BY <1>2, LabelsApart
  <2> QED
    BY <1>2, <1>15, <2>1, <2>2 DEF OneTab
<1>9. Placed'
  BY <1>1, <1>2, <1>4, <1>15, LabelsApart DEF Placed
<1>10. Past'
  BY <1>1, <1>3, <1>4, <1>15, <1>16 DEF Past
<1>11. Told'
  <2> SUFFICES ASSUME NEW n \in Active
               PROVE  ToldLast(n)' /\ \A v \in InRoom(n)' : ToldBy(n, v)'
    BY <1>7 DEF Told
  <2>1. CASE n # m
    <3>1. BeatsOf(n)' = BeatsOf(n) /\ \A z \in BeatsOf(n) : run'[z] = run[z]
      BY <1>1, <1>2, <2>1 DEF BeatsOf
    <3> QED
      BY <1>4, <1>5, <1>7, <2>1, <3>1, ToldStays
  <2>2. CASE n = m
    <3>1. s \in BeatsOf(n) /\ BeatsOf(n)' = BeatsOf(n) \ {s}
          /\ \A z \in BeatsOf(n) \ {s} : run'[z] = run[z]
      BY <1>1, <1>2, <2>2 DEF BeatsOf
    <3>2. meeting'[n].beat = now /\ meeting'[n].remote = r
          /\ meeting'[n].start = meeting[n].start
      BY <1>4, <1>7, <2>2
    <3>3. now # NoTime
      BY <1>3 DEF NoTime
    <3>4. ToldLast(n)'
      <4>1. ToldLast(n) /\ InRoom(n)' = InRoom(n)
        BY <1>6, <1>7 DEF Told
      <4> QED
        BY <1>1, <1>3, <3>1, <3>2, <3>3, <4>1 DEF ToldLast, Empty
    <3>5. ASSUME NEW v \in InRoom(n)
          PROVE  ToldBy(n, v)'
      <4>1. /\ ToldBy(n, v) /\ Others(v)' = Others(v) /\ v \in Users
            /\ tab'[v].told \in Int /\ tab'[v].told <= now
            /\ tab'[v].alone = tab[v].alone /\ tab'[v].beat = tab[v].beat
            /\ tab[v].alone \in Int /\ entered[n] \in Int
        BY <1>3, <1>6, <1>7, <1>15, <1>16 DEF Told, InRoom
      <4>2. ToldAlone(n, v)'
        <5> SUFFICES ASSUME Others(v) = {}, tab[v].alone # NoTime, tab[v].alone < now
                     PROVE  (\A z \in BeatsOf(n)' : run'[z].remote = 0) /\ Empty(meeting[n])'
          BY <1>1, <1>3, <4>1 DEF ToldAlone
        <5>1. r = 0 /\ \A z \in BeatsOf(n) : run[z].remote = 0
          BY <3>1, <4>1 DEF ToldBy, ToldAlone
        <5> QED
          BY <3>1, <3>2, <3>3, <5>1 DEF Empty
      <4>3. ToldOthers(n, v)'
        <5> SUFFICES ASSUME n \notin blind, Others(v) # {}, entered[n] < now
                     PROVE  (\A z \in BeatsOf(n)' : run'[z].remote # 0)
                            /\ meeting'[n].remote # 0
          BY <1>1, <1>3, <4>1 DEF ToldOthers
        <5>1. r # 0 /\ \A z \in BeatsOf(n) : run[z].remote # 0
          BY <3>1, <4>1 DEF ToldBy, ToldOthers
        <5> QED
          BY <3>1, <3>2, <5>1
      <4> QED
        BY <1>1, <4>1, <4>2, <4>3 DEF ToldBy
    <3> QED
      BY <1>6, <1>7, <3>4, <3>5
  <2> QED
    BY <2>1, <2>2
<1>12. LookedAt'
  <2> SUFFICES ASSUME NEW n \in Active, n \in looked, Overdue(n)'
               PROVE  \E z \in Slots : run'[z].at \in Closing /\ run'[z].m = n
    BY <1>1, <1>7 DEF LookedAt
  <2>1. meeting'[n].beat = now \/ meeting'[n].beat = meeting[n].beat
    BY <1>4, <1>7
  <2>2. Overdue(n)
    BY <1>1, <1>3, <1>4, <1>7, <2>1 DEF Overdue, Stale, Silent
  <2>3. PICK z \in Slots : run[z].at \in Closing /\ run[z].m = n
    BY <2>2 DEF LookedAt
  <2>4. z # s
    BY <1>1, <2>3, LabelsApart
  <2> QED
    BY <1>2, <2>3, <2>4
<1>13. Asked'
  <2>1. ASSUME NEW n \in Meetings, Settled(n)'
        PROVE  Settled(n)
    <3>1. PICK v \in InRoom(n) : /\ Others(v)' # {} /\ n \notin blind
                                 /\ entered[n] < tab'[v].told /\ tab'[v].told < now
      BY <1>1, <1>6, <2>1 DEF Settled
    <3>2. v \in Users /\ tab'[v].told # now
      BY <1>3, <1>16, <3>1 DEF InRoom
    <3> QED
      BY <1>6, <1>15, <3>1, <3>2 DEF Settled
  <2>2. \A z \in Slots : run'[z].at \in Judged => run'[z] = run[z]
    BY <1>2, LabelsApart
  <2>3. \A p \in posts : p[3] \in Meetings
    BY DEF MInv, RestTypes
  <2> QED
    BY <1>1, <1>6, <1>7, <2>1, <2>2, <2>3 DEF Asked, Vacant
<1>14. AbandonedEnds'
  BY <1>1, <1>4, <1>6, <1>7 DEF AbandonedEnds, Calls
<1> QED
  BY <1>8, <1>9, <1>10, <1>17, <1>11, <1>12, <1>13, <1>14

(* The clock waits for the answers, the reports that are due, and a look   *)
(* at each live meeting.                                                   *)
LEMMA ClockRooms ==
    ASSUME AInv, Clock
    PROVE  RoomInv'
<1> USE DEF AInv, RoomInv
<1>1. /\ Quiet /\ posts = {} /\ \A u \in Users : ~BeatDue(u)
      /\ now' = now + 1 /\ looked' = {}
      /\ \A u \in Users : tab[u].in => Hooked(u)
      /\ UNCHANGED <<world, meeting, tab, posts, entered, left, blind, run>>
  BY DEF Clock, Answered, docVars, roomVars
<1>2. /\ now \in Nat /\ NoTime < now + 1
      /\ {Beat, Fresh, MaxActive} \subseteq Nat \ {0}
      /\ \A u \in Users : /\ tab[u].beat \in Int /\ tab[u].alone \in Int
                          /\ tab[u].told \in Int /\ tab[u].told <= now
      /\ \A m \in Meetings : /\ entered[m] \in Int /\ left[m].at \in Int
                             /\ meeting[m].beat \in Int /\ meeting[m].start \in Int
  BY TimesAreInts DEF NoTime, Past
<1>3. \A s \in Slots : run[s].at = "idle"
  BY <1>1 DEF Quiet, At
<1>4. \A m : BeatsOf(m) = {} /\ BeatsOf(m)' = {}
  BY <1>1, <1>3 DEF BeatsOf
<1>5. /\ \A m : InRoom(m)' = InRoom(m)
      /\ \A u : Others(u)' = Others(u)
      /\ Active' = Active /\ Active \subseteq Meetings
  BY <1>1 DEF InRoom, Others, Active
<1>6. \A u \in Users : tab[u].in => tab[u].beat # NoTime
  BY <1>1 DEF BeatDue
<1>7. OneTab' /\ Placed' /\ Counted'
  BY <1>1, <1>5 DEF OneTab, Placed, Counted, CountsAt, Hooked
<1>8. Past'
  BY <1>1, <1>2 DEF Past
<1>9. Told'
  <2> SUFFICES ASSUME NEW m \in Active
               PROVE  ToldLast(m)' /\ \A u \in InRoom(m)' : ToldBy(m, u)'
    BY <1>5 DEF Told
  <2>1. m \in Meetings /\ (Empty(meeting[m])' <=> Empty(meeting[m]))
    BY <1>1, <1>5 DEF Empty
  <2>2. ToldLast(m)'
    <3>1. ToldLast(m)
      BY DEF Told
    <3> QED
      BY <1>1, <1>4, <1>5, <2>1, <3>1 DEF ToldLast
  <2>3. ASSUME NEW u \in InRoom(m)
        PROVE  ToldBy(m, u)'
    <3>1. u \in Users /\ tab[u].in /\ ToldBy(m, u)
      BY DEF Told, InRoom
    <3>2. tab[u].beat # NoTime
      BY <1>6, <3>1
    <3>3. ToldAlone(m, u)'
      BY <1>1, <1>2, <1>4, <1>5, <2>1, <3>1, <3>2 DEF ToldBy, ToldAlone
    <3>4. ToldOthers(m, u)'
      BY <1>1, <1>2, <1>4, <1>5, <2>1, <3>1, <3>2 DEF ToldBy, ToldOthers
    <3> QED
      BY <1>1, <3>2, <3>3, <3>4 DEF ToldBy
  <2> QED
    BY <1>5, <2>2, <2>3
<1>10. LookedAt' /\ Asked'
  BY <1>1, <1>3 DEF LookedAt, Asked, Judged
<1>11. AbandonedEnds'
  <2> SUFFICES ASSUME "poll" \in Calls, NEW m \in Active
               PROVE  /\ now + 1 <= meeting[m].start + MaxActive + 1
                      /\ InRoom(m) = {} /\ left[m].alone => now + 1 <= left[m].at + Fresh + 1
    BY <1>1, <1>5 DEF AbandonedEnds, Calls
  <2>1. m \in Meetings /\ meeting[m].st = "active" /\ ToldLast(m)
    BY <1>5 DEF Active, Told
  <2>2. CASE meeting[m].start = now
    BY <1>2, <2>1, <2>2 DEF ToldLast
  <2>3. CASE meeting[m].start # now
    <3>1. ~Overdue(m)
      <4>1. m \in looked
        BY <2>3 DEF Clock
      <4>2. "idle" \notin Closing
        BY LabelsApart
      <4> QED
        BY <1>3, <4>1, <4>2 DEF LookedAt
    <3> QED
      BY <1>2, <2>1, <3>1 DEF Overdue, Stale, Silent, ToldLast, Empty
  <2> QED
    BY <2>2, <2>3
<1> QED
  BY <1>7, <1>8, <1>9, <1>10, <1>11

-----------------------------------------------------------------------------
LEMMA InitRooms == Init /\ "crash" \notin Calls => AInv
<1> SUFFICES ASSUME Init, "crash" \notin Calls
             PROVE  RoomInv
  BY InitKept DEF AInv
<1>1. /\ \A s \in Slots : run[s].at = "idle"
      /\ \A u \in Users : /\ tab[u].m = NoMeeting /\ ~tab[u].in /\ tab[u].beat = NoTime
                          /\ tab[u].alone = NoTime /\ tab[u].told = NoTime
                          /\ tab[u].count = NoCount
      /\ \A m \in Meetings : /\ entered[m] = NoTime /\ ~left[m].alone
                             /\ meeting[m].st = "none" /\ meeting[m].beat = NoTime
                             /\ meeting[m].start = NoTime
      /\ now = 0 /\ posts = {} /\ looked = {}
  BY DEF Init, Idle, NoTab, NoDoc, Occupied
<1>2. Active = {} /\ NoTime <= 0 /\ NoMeeting \notin Meetings
  BY <1>1, MeetingAssumption DEF Active, NoTime
<1>3. OneTab /\ Placed /\ Past /\ Counted
  BY <1>1, <1>2, LabelsApart DEF OneTab, Placed, Past, Counted, CountsAt, Hooked
<1>4. Told /\ LookedAt /\ Asked /\ AbandonedEnds
  BY <1>1, <1>2 DEF Told, LookedAt, Asked, AbandonedEnds
<1> QED
  BY <1>3, <1>4 DEF RoomInv

(* A step changes nothing of the environment but the count of its calls.   *)
LEMMA EnvStays ==
    ASSUME MInv, [Next]_vars
    PROVE  SameEnv
<1>1. ASSUME \E k : Calling(k)
      PROVE  SameEnv
  BY <1>1, CallingKeeps DEF MInv
<1>2. ASSUME UNCHANGED world
      PROVE  SameEnv
  BY <1>2 DEF SameEnv
<1>3. ASSUME NEW s \in Slots, RunStep(s)
      PROVE  SameEnv
  <2>1. ASSUME NEW u \in Users, Start(s, u) \/ Heartbeat(s, u)
        PROVE  SameEnv
    BY <1>1, <1>2, <2>1 DEF Start, Heartbeat
  <2>2. ASSUME NEW u \in Users, NEW m \in Meetings,
               JoinByLink(s, u, m) \/ JoinByInvite(s, u, m) \/ EndByHost(s, u, m)
        PROVE  SameEnv
    BY <2>2, JoiningMoves
  <2>3. CASE (\E p \in posts : EndPosted(s, p)) \/ \E m \in Meetings : Look(s, m)
    BY <1>2, <2>3 DEF EndPosted, Look
  <2>4. CASE StartFind(s) \/ StartExpire(s) \/ StartClose(s) \/ StartClosed(s)
             \/ StartCreate(s)
    BY <1>2, <2>4 DEF StartFind, StartExpire, StartClose, StartClosed, StartCreate
  <2>5. CASE Join(s) \/ End(s) \/ Expire(s) \/ SaveBeat(s) \/ LookAgain(s) \/ EndSilent(s)
    BY <1>2, <2>5 DEF Join, End, Expire, SaveBeat, LookAgain, EndSilent
  <2> QED
    BY <1>3, <2>1, <2>2, <2>3, <2>4, <2>5 DEF RunStep
<1>4. ASSUME NEW s \in Slots, RoleStep(s)
      PROVE  SameEnv
  <2>1. ASSUME SavePromotion(s) \/ SaveDemotion(s) \/ SaveRemoval(s)
        PROVE  SameEnv
    BY <1>2, <2>1 DEF SavePromotion, SaveDemotion, SaveRemoval, Written
  <2> QED
    BY <1>4, <2>1, RolesMove DEF RoleStep
<1>5. ASSUME RoomStep
      PROVE  SameEnv
  BY <1>5, RoomKeeps
<1>6. ASSUME (\E u \in Users, m \in Meetings : Invite(u, m)) \/ Clock \/ Crash
      PROVE  SameEnv
  BY <1>1, <1>2, <1>6 DEF Invite, Clock, Crash
<1>7. ASSUME UNCHANGED vars
      PROVE  SameEnv
  BY <1>2, <1>7 DEF vars
<1> QED
  BY <1>3, <1>4, <1>5, <1>6, <1>7 DEF Next

LEMMA NextRooms ==
    ASSUME AInv, [Next]_vars
    PROVE  AInv'
<1> USE DEF AInv
<1>1. ASSUME NEW s \in Slots, RunStep(s)
      PROVE  RoomInv'
  <2>1. ASSUME Join(s) \/ StartCreate(s)
        PROVE  RoomInv'
    BY <2>1, JoinRooms, CreateRooms
  <2>2. ASSUME SaveBeat(s) \/ \E u \in Users : Heartbeat(s, u)
        PROVE  RoomInv'
    BY <2>2, SaveBeatRooms, HeartbeatRooms
  <2>3. ASSUME AtDesk(s)
        PROVE  RoomInv'
    BY <2>3, DeskKeeps
  <2> QED
    BY <1>1, <2>1, <2>2, <2>3, StartAtDesk, JoiningAtDesk, PostedAtDesk, LooksAtDesk,
       StartFindAtDesk, EndingAtDesk DEF RunStep
<1>2. ASSUME NEW s \in Slots, RoleStep(s)
      PROVE  RoomInv'
  BY <1>2, RolesAtDesk, DeskKeeps
<1>3. ASSUME RoomStep
      PROVE  RoomInv'
  BY <1>3, RoomStepRooms
<1>4. SameEnv
  BY EnvStays
<1>5. ASSUME (\E u \in Users, m \in Meetings : Invite(u, m)) \/ UNCHANGED vars
      PROVE  RoomInv'
  <2>1. UNCHANGED <<now, meeting, run, looked, tab, posts, entered, left, blind>>
    BY <1>5 DEF Invite, roomVars, docVars, vars
  <2> QED
    BY <1>4, <2>1, StillRooms
<1>6. ASSUME Clock
      PROVE  RoomInv'
  BY <1>6, ClockRooms
<1>7. ~Crash
  BY DEF Crash, Calling
<1>8. RoomInv'
  BY <1>1, <1>2, <1>3, <1>5, <1>6, <1>7 DEF Next
<1>9. MInv'
  BY NextKept
<1> QED
  BY <1>4, <1>8, <1>9 DEF SameEnv, Calls

(* While somebody has the chat open and no restart drops a request, a      *)
(* meeting is ended at the latest a unit after its age, and one whose last *)
(* guest had reported being alone a unit after the report went stale, for  *)
(* any people, meetings, requests in flight and intervals.                 *)
THEOREM AbandonedIsEnded == Spec /\ "crash" \notin Calls => []AbandonedEnds
<1>1. AInv => AbandonedEnds
  BY DEF AInv, RoomInv
<1> QED
  BY <1>1, InitRooms, NextRooms, PTL DEF Spec

(* Who is no moderator never ends a meeting for two people who are in it,  *)
(* once one of them has told the backend of the other since somebody last  *)
(* came in, whatever is asked for or no longer reported, for any people,   *)
(* meetings, requests in flight and intervals.  A restart that drops a     *)
(* request is left out, and so are the meetings in which a script hooked   *)
(* too late to hear of everybody.                                          *)
THEOREM NobodyIsCutOff == Spec /\ "crash" \notin Calls => NobodyCutOff
<1> DEFINE Spared ==
        \A m \in Meetings, s \in Slots :
           /\ meeting[m].st = "active" /\ meeting'[m].st = "ended"
           /\ run[s].m = m /\ m \notin blind
           /\ run[s].at \in {"end.last", "end.silent"} /\ run'[s].at = "idle"
           => \/ Cardinality(InRoom(m)) <= 1
              \/ \A u \in InRoom(m) : tab[u].told \notin (entered[m] + 1)..(now - 1)
<1>1. ASSUME AInv, NEW m \in Meetings, NEW s \in Slots,
             meeting[m].st = "active", run[s].m = m, m \notin blind,
             run[s].at \in {"end.last", "end.silent"}
      PROVE  \/ Cardinality(InRoom(m)) <= 1
             \/ \A u \in InRoom(m) : tab[u].told \notin (entered[m] + 1)..(now - 1)
  <2>1. ~Settled(m)
    BY <1>1 DEF AInv, RoomInv, Asked, Judged, Active
  <2>2. now \in Int /\ entered[m] \in Int /\ \A u \in Users : tab[u].told \in Int
    BY <1>1, TimesAreInts DEF AInv
  <2>3. ASSUME NEW u \in InRoom(m), tab[u].told \in (entered[m] + 1)..(now - 1)
        PROVE  Cardinality(InRoom(m)) <= 1
    <3>1. u \in Users /\ entered[m] < tab[u].told /\ tab[u].told < now
      BY <2>2, <2>3 DEF InRoom
    <3>2. Others(u) = {}
      BY <1>1, <2>1, <2>3, <3>1 DEF Settled
    <3>3. InRoom(m) = {u}
      BY <2>3, <3>2 DEF Others, InRoom
    <3> QED
      BY <3>3, FS_Singleton
  <2> QED
    BY <2>3
<1>2. AInv /\ [Next]_vars => [Spared]_vars
  BY <1>1
<1> QED
  BY <1>2, InitRooms, NextRooms, PTL DEF Spec, NobodyCutOff
=============================================================================
