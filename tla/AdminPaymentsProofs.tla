-------------------------- MODULE AdminPaymentsProofs --------------------------
(***************************************************************************)
(* AdminPayments is well typed, keeps the place with the money and books   *)
(* what was paid, for any number of links, requests and units of time.     *)
(***************************************************************************)
EXTENDS AdminPayments, FiniteSetTheorems, TLAPS

-----------------------------------------------------------------------------
(* The calls of a run, typed, and what it works on.                        *)

Refunding == {"refund.sum", "refund.stripe", "refund.row", "release",
              "release.rows", "release.paid", "release.seat"}
Linking == {"link.row", "link.mail"}
Hooking == {"hook", "hook.save"}

(* A refund works on a payment, a link request or an event on a link; and  *)
(* no two requests make the same link, no two runs take the same event.    *)
RunsWork ==
    /\ \A s \in Slots :
          /\ run[s].at \in Refunding => run[s].p \in Payments
          /\ run[s].at \in Linking => run[s].p \in Links /\ link[run[s].p] = "made"
          /\ run[s].at \in Hooking => run[s].p \in Links /\ link[run[s].p] = "claimed"
          /\ run[s].at = "link.row" => row[run[s].p].st = "none"
          /\ run[s].at = "link.mail" => row[run[s].p].st # "none"
          /\ run[s].at = "hook.save" =>
                \E q \in Links : /\ run[s].rows = {q} /\ row[q].st # "none"
                                 /\ Retry(run[s].p) => q = run[s].p
                                 /\ ~Retry(run[s].p) => ~Retry(q)
    /\ \A s, z \in Slots :
          /\ s # z /\ run[s].p = run[z].p
          /\ run[s].at \in Linking \cup Hooking
          => run[z].at \notin Linking \cup Hooking

(* A link not made yet has no record, one that is sent has.                *)
LinksFirst ==
    \A p \in Links :
        /\ link[p] = "none" => row[p].st = "none"
        /\ link[p] \notin {"none", "made"} => row[p].st # "none"

TInv == TypeOK /\ RunsWork /\ LinksFirst

LEMMA CallingWorld ==
    ASSUME TypeOK, NEW k, Calling(k) \/ Fault(k)
    PROVE  /\ world' \in [env: Environments, calls: Nat, faults: Nat]
           /\ world'.env = world.env
<1>1. CASE Calling(k)
  <2>1. world' = [world EXCEPT !.calls = world.calls + 1]
    BY <1>1 DEF Calling
  <2> QED
    BY <2>1 DEF TypeOK
<1>2. CASE Fault(k)
  <2>1. world' = [world EXCEPT !.faults = world.faults + 1]
    BY <1>2 DEF Fault
  <2> QED
    BY <2>1 DEF TypeOK
<1> QED
  BY <1>1, <1>2

(* What the steps do to runs, records and links, one by one.               *)
LEMMA IdleIsRun == Idle \in Runs
BY PaymentAssumption DEF Idle, Runs, Labels

LEMMA RunChanges ==
    ASSUME TypeOK, NEW s \in Slots
    PROVE  /\ \A l \in Labels : Goto(s, l) =>
                  /\ run' \in [Slots -> Runs] /\ run'[s].at = l
                  /\ run'[s].p = run[s].p /\ run'[s].rows = run[s].rows
                  /\ run'[s].amount = run[s].amount
                  /\ \A z \in Slots \ {s} : run'[z] = run[z]
           /\ Finish(s) =>
                  /\ run' \in [Slots -> Runs] /\ run'[s] = Idle
                  /\ \A z \in Slots \ {s} : run'[z] = run[z]
           /\ \A c \in Runs : run' = [run EXCEPT ![s] = c] =>
                  /\ run' \in [Slots -> Runs] /\ run'[s] = c
                  /\ \A z \in Slots \ {s} : run'[z] = run[z]
<1>1. run \in [Slots -> Runs]
  BY DEF TypeOK
<1>2. ASSUME NEW l \in Labels, Goto(s, l)
      PROVE  /\ run' \in [Slots -> Runs] /\ run'[s].at = l
             /\ run'[s].p = run[s].p /\ run'[s].rows = run[s].rows
             /\ run'[s].amount = run[s].amount
             /\ \A z \in Slots \ {s} : run'[z] = run[z]
  <2> DEFINE c == [run[s] EXCEPT !.at = l]
  <2>1. c \in Runs /\ c.at = l /\ c.p = run[s].p /\ c.rows = run[s].rows
        /\ c.amount = run[s].amount
    BY <1>1 DEF Runs
  <2>2. run' = [run EXCEPT ![s] = c]
    BY <1>2 DEF Goto
  <2> HIDE DEF c
  <2> QED
    BY <1>1, <2>1, <2>2
<1>3. ASSUME Finish(s)
      PROVE  /\ run' \in [Slots -> Runs] /\ run'[s] = Idle
             /\ \A z \in Slots \ {s} : run'[z] = run[z]
  BY <1>1, <1>3, IdleIsRun DEF Finish
<1>4. ASSUME NEW c \in Runs, run' = [run EXCEPT ![s] = c]
      PROVE  /\ run' \in [Slots -> Runs] /\ run'[s] = c
             /\ \A z \in Slots \ {s} : run'[z] = run[z]
  BY <1>1, <1>4
<1> QED
  BY <1>2, <1>3, <1>4

(* The steps of a refund leave records and links alone.                    *)
RefundStep(s) ==
    \/ RefundSum(s) \/ RefundStripe(s) \/ RefundStripeLost(s) \/ RefundRow(s)
    \/ Release(s) \/ ReleaseRows(s) \/ ReleasePaid(s) \/ ReleaseSeat(s)
    \/ \E p \in Payments, amount \in 1..Full : RefundAsk(s, p, amount)

LEMMA GivenBack ==
    ASSUME TypeOK, NEW p \in Payments, NEW amount \in 0..Full, Refundable(p, amount),
           refunded' = [refunded EXCEPT ![p] = @ + amount]
    PROVE  refunded' \in [Payments -> 0..Full]
<1>1. refunded[p] \in 0..Full /\ amount <= Full - refunded[p] /\ Full \in Nat
  BY PaymentAssumption DEF TypeOK, Refundable
<1>2. refunded[p] + amount \in 0..Full
  BY <1>1
<1> QED
  BY <1>2 DEF TypeOK

LEMMA RefundTypes ==
    ASSUME TInv, NEW s \in Slots, RefundStep(s)
    PROVE  /\ TypeOK'
           /\ UNCHANGED <<row, link>> /\ world'.env = world.env
           /\ \A z \in Slots \ {s} : run'[z] = run[z]
           /\ run'[s].at \in Refunding \cup {"idle"}
           /\ run'[s].at # "idle" => run'[s].p \in Payments
<1> DEFINE Goal == /\ TypeOK'
                   /\ UNCHANGED <<row, link>> /\ world'.env = world.env
                   /\ \A z \in Slots \ {s} : run'[z] = run[z]
                   /\ run'[s].at \in Refunding \cup {"idle"}
                   /\ run'[s].at # "idle" => run'[s].p \in Payments
<1>a. TypeOK
  BY DEF TInv
<1>b. /\ run[s].at \in Refunding => run[s].p \in Payments
      /\ run[s].amount \in 0..Full /\ run[s] \in Runs
  BY DEF TInv, RunsWork, TypeOK, Runs
<1>c. Idle.at = "idle"
  BY DEF Idle
<1>1. ASSUME NEW p \in Payments, NEW amount \in 1..Full, RefundAsk(s, p, amount)
      PROVE  Goal
  <2> DEFINE c == [Idle EXCEPT !.at = "refund.sum", !.p = row[p].of, !.amount = amount]
  <2>1. row[p].of \in Payments
    BY <1>1, <1>a DEF RefundAsk, TypeOK, Rows
  <2>2. /\ c \in Runs /\ c.at = "refund.sum" /\ c.p = row[p].of
    <3>1. amount \in 0..Full
      BY PaymentAssumption
    <3> QED
      BY <2>1, <3>1, IdleIsRun DEF Idle, Runs, Labels
  <2>3. run' = [run EXCEPT ![s] = c]
    BY <1>1 DEF RefundAsk
  <2> HIDE DEF c
  <2>4. /\ run' \in [Slots -> Runs] /\ run'[s] = c
        /\ \A z \in Slots \ {s} : run'[z] = run[z]
    BY <1>a, <2>2, <2>3, RunChanges
  <2>5. /\ world' \in [env: Environments, calls: Nat, faults: Nat]
        /\ world'.env = world.env
    BY <1>1, <1>a, CallingWorld DEF RefundAsk
  <2>6. UNCHANGED <<now, moneyVars, seated>>
    BY <1>1 DEF RefundAsk
  <2> QED
    BY <1>a, <2>1, <2>2, <2>4, <2>5, <2>6 DEF TypeOK, moneyVars, Refunding
<1>2. ASSUME RefundSum(s) PROVE Goal
  <2>1. run[s].at \in Refunding /\ (Goto(s, "refund.stripe") \/ Finish(s))
    BY <1>2 DEF RefundSum, At, Refunding
  <2>2. /\ run' \in [Slots -> Runs] /\ \A z \in Slots \ {s} : run'[z] = run[z]
        /\ run'[s].at \in Refunding \cup {"idle"}
        /\ run'[s].at # "idle" => run'[s].p = run[s].p
    BY <2>1, <1>a, <1>c, RunChanges DEF Refunding, Labels
  <2>3. UNCHANGED <<now, world, row, link, refunded, booked, seated>>
    BY <1>2 DEF RefundSum, moneyVars
  <2> QED
    BY <1>a, <1>b, <2>1, <2>2, <2>3 DEF TypeOK
<1>3. ASSUME RefundStripe(s) PROVE Goal
  <2>1. run[s].at \in Refunding /\ (Goto(s, "refund.row") \/ Finish(s))
    BY <1>3 DEF RefundStripe, At, Refunding
  <2>2. /\ run' \in [Slots -> Runs] /\ \A z \in Slots \ {s} : run'[z] = run[z]
        /\ run'[s].at \in Refunding \cup {"idle"}
        /\ run'[s].at # "idle" => run'[s].p = run[s].p
    BY <2>1, <1>a, <1>c, RunChanges DEF Refunding, Labels
  <2>3. UNCHANGED <<now, world, row, link, booked, seated>>
    BY <1>3 DEF RefundStripe, moneyVars
  <2>4. refunded' \in [Payments -> 0..Full]
    <3>1. CASE Refundable(run[s].p, run[s].amount)
      BY <1>3, <3>1, <1>a, <1>b, <2>1, GivenBack DEF RefundStripe
    <3>2. CASE ~Refundable(run[s].p, run[s].amount)
      BY <1>3, <3>2, <1>a DEF RefundStripe, TypeOK
    <3> QED
      BY <3>1, <3>2
  <2> QED
    BY <1>a, <1>b, <2>1, <2>2, <2>3, <2>4 DEF TypeOK
<1>4. ASSUME RefundStripeLost(s) PROVE Goal
  <2>1. run[s].at \in Refunding /\ Finish(s)
    BY <1>4 DEF RefundStripeLost, At, Refunding
  <2>2. /\ run' \in [Slots -> Runs] /\ \A z \in Slots \ {s} : run'[z] = run[z]
        /\ run'[s].at = "idle"
    BY <2>1, <1>a, <1>c, RunChanges
  <2>3. UNCHANGED <<now, row, link, booked, seated>>
    BY <1>4 DEF RefundStripeLost
  <2>4. refunded' \in [Payments -> 0..Full]
    BY <1>4, <1>a, <1>b, <2>1, GivenBack DEF RefundStripeLost
  <2>5. /\ world' \in [env: Environments, calls: Nat, faults: Nat]
        /\ world'.env = world.env
    BY <1>4, <1>a, CallingWorld DEF RefundStripeLost
  <2> QED
    BY <1>a, <2>2, <2>3, <2>4, <2>5 DEF TypeOK
<1>5. ASSUME RefundRow(s) PROVE Goal
  <2>1. run[s].at \in Refunding /\ (Goto(s, "release"))
    BY <1>5 DEF RefundRow, At, Refunding
  <2>2. /\ run' \in [Slots -> Runs] /\ \A z \in Slots \ {s} : run'[z] = run[z]
        /\ run'[s].at \in Refunding \cup {"idle"}
        /\ run'[s].at # "idle" => run'[s].p = run[s].p
    BY <2>1, <1>a, <1>c, RunChanges DEF Refunding, Labels
  <2>3. UNCHANGED <<now, world, row, link, refunded, seated>>
    BY <1>5 DEF RefundRow, moneyVars
  <2>4. booked' \in [Payments -> Nat]
    BY <1>5, <1>a, <1>b, <2>1, PaymentAssumption DEF RefundRow, TypeOK
  <2> QED
    BY <1>a, <1>b, <2>1, <2>2, <2>3, <2>4 DEF TypeOK
<1>6. ASSUME Release(s) PROVE Goal
  <2>1. run[s].at \in Refunding /\ (Goto(s, "release.rows") \/ Finish(s))
    BY <1>6 DEF Release, At, Refunding
  <2>2. /\ run' \in [Slots -> Runs] /\ \A z \in Slots \ {s} : run'[z] = run[z]
        /\ run'[s].at \in Refunding \cup {"idle"}
        /\ run'[s].at # "idle" => run'[s].p = run[s].p
    BY <2>1, <1>a, <1>c, RunChanges DEF Refunding, Labels
  <2>3. UNCHANGED <<now, world, row, link, refunded, booked, seated>>
    BY <1>6 DEF Release, moneyVars
  <2> QED
    BY <1>a, <1>b, <2>1, <2>2, <2>3 DEF TypeOK
<1>7. ASSUME ReleaseRows(s) PROVE Goal
  <2> DEFINE c == [run[s] EXCEPT !.at = "release.paid", !.rows = Counts]
  <2>1. run[s].at \in Refunding
    BY <1>7 DEF ReleaseRows, At, Refunding
  <2>2. c \in Runs /\ c.at = "release.paid" /\ c.p = run[s].p
    BY <1>b DEF Runs, Labels, Counts
  <2>3. run' = [run EXCEPT ![s] = c] /\ UNCHANGED <<now, world, moneyVars, seated>>
    BY <1>7 DEF ReleaseRows
  <2> HIDE DEF c
  <2>4. /\ run' \in [Slots -> Runs] /\ run'[s] = c
        /\ \A z \in Slots \ {s} : run'[z] = run[z]
    BY <1>a, <2>2, <2>3, RunChanges
  <2> QED
    BY <1>a, <1>b, <2>1, <2>2, <2>3, <2>4 DEF TypeOK, moneyVars, Refunding
<1>8. ASSUME ReleasePaid(s) PROVE Goal
  <2>1. run[s].at \in Refunding /\ (Goto(s, "release.seat") \/ Finish(s))
    BY <1>8 DEF ReleasePaid, At, Refunding
  <2>2. /\ run' \in [Slots -> Runs] /\ \A z \in Slots \ {s} : run'[z] = run[z]
        /\ run'[s].at \in Refunding \cup {"idle"}
        /\ run'[s].at # "idle" => run'[s].p = run[s].p
    BY <2>1, <1>a, <1>c, RunChanges DEF Refunding, Labels
  <2>3. UNCHANGED <<now, world, row, link, refunded, booked, seated>>
    BY <1>8 DEF ReleasePaid, moneyVars
  <2> QED
    BY <1>a, <1>b, <2>1, <2>2, <2>3 DEF TypeOK
<1>9. ASSUME ReleaseSeat(s) PROVE Goal
  <2>1. run[s].at \in Refunding /\ (Finish(s))
    BY <1>9 DEF ReleaseSeat, At, Refunding
  <2>2. /\ run' \in [Slots -> Runs] /\ \A z \in Slots \ {s} : run'[z] = run[z]
        /\ run'[s].at \in Refunding \cup {"idle"}
        /\ run'[s].at # "idle" => run'[s].p = run[s].p
    BY <2>1, <1>a, <1>c, RunChanges DEF Refunding, Labels
  <2>3. UNCHANGED <<now, world, row, link, refunded, booked>> /\ seated' = FALSE
    BY <1>9 DEF ReleaseSeat, moneyVars
  <2> QED
    BY <1>a, <1>b, <2>1, <2>2, <2>3 DEF TypeOK
<1> QED
  BY <1>1, <1>2, <1>3, <1>4, <1>5, <1>6, <1>7, <1>8, <1>9 DEF RefundStep

(* The steps of a link, from the request to the event, and what they do to *)
(* its record and to the runs.                                             *)
LEMMA LinkAskType ==
    ASSUME TInv, NEW s \in Slots, NEW p \in Links, LinkAsk(s, p)
    PROVE  /\ TypeOK' /\ UNCHANGED <<now, row, refunded, booked, seated>>
           /\ world'.env = world.env
           /\ \A z \in Slots \ {s} : run'[z] = run[z]
           /\ run[s].at = "idle" /\ run'[s].at = "link.row" /\ run'[s].p = p
           /\ link[p] = "none" /\ link' = [link EXCEPT ![p] = "made"]
<1>a. TypeOK
  BY DEF TInv
<1> DEFINE c == [Idle EXCEPT !.at = "link.row", !.p = p, !.expires = Expiry(p)]
<1>1. Expiry(p) \in 0..Horizon + 1
  <2>1. world.env.start \in 0..Horizon /\ now \in 0..Horizon
    BY <1>a, PaymentAssumption DEF TypeOK
  <2>2. now + Life \in Nat /\ Horizon \in Nat
    BY <2>1, PaymentAssumption
  <2> QED
    BY <2>1, <2>2 DEF Expiry, Earlier, Env
<1>2. c \in Runs /\ c.at = "link.row" /\ c.p = p
  <2> HIDE DEF Expiry
  <2> QED
    BY <1>1, IdleIsRun, PaymentAssumption DEF Idle, Runs, Labels, Payments
<1>3. run' = [run EXCEPT ![s] = c]
  BY DEF LinkAsk
<1> HIDE DEF c
<1>4. /\ run' \in [Slots -> Runs] /\ run'[s] = c
      /\ \A z \in Slots \ {s} : run'[z] = run[z]
  BY <1>a, <1>2, <1>3, RunChanges
<1>5. /\ world' \in [env: Environments, calls: Nat, faults: Nat]
      /\ world'.env = world.env
  BY <1>a, CallingWorld DEF LinkAsk
<1>6. /\ UNCHANGED <<now, row, refunded, booked, seated>>
      /\ run[s].at = "idle" /\ link[p] = "none" /\ link' = [link EXCEPT ![p] = "made"]
  BY DEF LinkAsk, At
<1> QED
  BY <1>a, <1>2, <1>4, <1>5, <1>6 DEF TypeOK

LEMMA LinkRowType ==
    ASSUME TInv, NEW s \in Slots, LinkRow(s)
    PROVE  /\ TypeOK' /\ UNCHANGED <<now, world, link, refunded, booked, seated>>
           /\ \A z \in Slots \ {s} : run'[z] = run[z]
           /\ run[s].at = "link.row" /\ run'[s].at = "link.mail"
           /\ run'[s].p = run[s].p /\ run[s].p \in Links
           /\ row'[run[s].p].st = "pending"
           /\ \A q \in Payments \ {run[s].p} : row'[q] = row[q]
<1>a. TypeOK
  BY DEF TInv
<1>b. run[s].at = "link.row" /\ Goto(s, "link.mail")
  BY DEF LinkRow, At
<1>c. run[s].p \in Links /\ run[s].p \in Payments
  BY <1>b DEF TInv, RunsWork, Linking, Payments
<1>1. /\ run' \in [Slots -> Runs] /\ \A z \in Slots \ {s} : run'[z] = run[z]
      /\ run'[s].at = "link.mail" /\ run'[s].p = run[s].p
  BY <1>a, <1>b, RunChanges DEF Labels
<1> DEFINE r == [row[run[s].p] EXCEPT !.st = "pending", !.expires = run[s].expires]
<1>2. r \in Rows /\ r.st = "pending"
  <2>1. run[s].expires \in 0..Horizon + 1 /\ row[run[s].p] \in Rows
    BY <1>a, <1>c DEF TypeOK, Runs
  <2> QED
    BY <2>1 DEF Rows
<1>3. row' = [row EXCEPT ![run[s].p] = r]
  BY DEF LinkRow
<1> HIDE DEF r
<1>4. UNCHANGED <<now, world, link, refunded, booked, seated>>
  BY DEF LinkRow
<1> QED
  BY <1>a, <1>b, <1>c, <1>1, <1>2, <1>3, <1>4 DEF TypeOK

LEMMA LinkMailType ==
    ASSUME TInv, NEW s \in Slots, LinkMail(s) \/ LinkMailFails(s)
    PROVE  /\ TypeOK' /\ UNCHANGED <<now, row, refunded, booked, seated>>
           /\ world'.env = world.env
           /\ \A z \in Slots \ {s} : run'[z] = run[z]
           /\ run[s].at = "link.mail" /\ run'[s].at = "idle" /\ run[s].p \in Links
           /\ UNCHANGED link \/ link' = [link EXCEPT ![run[s].p] = "sent"]
<1>a. TypeOK
  BY DEF TInv
<1>b. run[s].at = "link.mail" /\ Finish(s)
  BY DEF LinkMail, LinkMailFails, At
<1>c. run[s].p \in Links
  BY <1>b DEF TInv, RunsWork, Linking
<1>1. /\ run' \in [Slots -> Runs] /\ \A z \in Slots \ {s} : run'[z] = run[z]
      /\ run'[s].at = "idle"
  BY <1>a, <1>b, RunChanges DEF Idle
<1>2. /\ world' \in [env: Environments, calls: Nat, faults: Nat]
      /\ world'.env = world.env
  BY <1>a, CallingWorld DEF LinkMail, LinkMailFails, TypeOK
<1>3. /\ UNCHANGED <<now, row, refunded, booked, seated>>
      /\ UNCHANGED link \/ link' = [link EXCEPT ![run[s].p] = "sent"]
  BY DEF LinkMail, LinkMailFails, moneyVars
<1> QED
  BY <1>a, <1>b, <1>c, <1>1, <1>2, <1>3 DEF TypeOK

(* The steps of an event.                                                  *)
LEMMA HookType ==
    ASSUME TInv, NEW s \in Slots, NEW p \in Links, Hook(s, p)
    PROVE  /\ TypeOK' /\ UNCHANGED <<now, world, row, refunded, booked, seated>>
           /\ \A z \in Slots \ {s} : run'[z] = run[z]
           /\ run[s].at = "idle" /\ run'[s].at = "hook" /\ run'[s].p = p
           /\ link[p] = "paid" /\ link' = [link EXCEPT ![p] = "claimed"]
<1>a. TypeOK
  BY DEF TInv
<1> DEFINE c == [Idle EXCEPT !.at = "hook", !.p = p]
<1>1. c \in Runs /\ c.at = "hook" /\ c.p = p
  BY IdleIsRun DEF Idle, Runs, Labels, Payments
<1>2. run' = [run EXCEPT ![s] = c]
  BY DEF Hook
<1> HIDE DEF c
<1>3. /\ run' \in [Slots -> Runs] /\ run'[s] = c
      /\ \A z \in Slots \ {s} : run'[z] = run[z]
  BY <1>a, <1>1, <1>2, RunChanges
<1>4. /\ UNCHANGED <<now, world, row, refunded, booked, seated>>
      /\ run[s].at = "idle" /\ link[p] = "paid" /\ link' = [link EXCEPT ![p] = "claimed"]
  BY DEF Hook, At
<1> QED
  BY <1>a, <1>1, <1>3, <1>4 DEF TypeOK

LEMMA HookFindType ==
    ASSUME TInv, NEW s \in Slots, HookFind(s)
    PROVE  /\ TypeOK' /\ UNCHANGED <<now, world, row, refunded, booked, seated>>
           /\ \A z \in Slots \ {s} : run'[z] = run[z]
           /\ run[s].at = "hook" /\ run[s].p \in Links
           /\ \/ /\ Found(run[s].p) = {} /\ run'[s].at = "idle"
                 /\ link' = [link EXCEPT ![run[s].p] = "done"]
              \/ /\ run'[s].at = "hook.save" /\ run'[s].p = run[s].p
                 /\ \E q \in Found(run[s].p) : run'[s].rows = {q}
                 /\ UNCHANGED link
<1>a. TypeOK
  BY DEF TInv
<1>b. run[s].at = "hook"
  BY DEF HookFind, At
<1>c. run[s].p \in Links /\ Found(run[s].p) \subseteq Payments
  BY <1>b DEF TInv, RunsWork, Hooking, Found, Payments
<1>d. UNCHANGED <<now, world, row, refunded, booked, seated>>
  BY DEF HookFind
<1>1. CASE /\ Found(run[s].p) = {}
           /\ link' = [link EXCEPT ![run[s].p] = "done"]
           /\ Finish(s)
  <2>1. /\ run' \in [Slots -> Runs] /\ \A z \in Slots \ {s} : run'[z] = run[z]
        /\ run'[s].at = "idle"
    BY <1>a, <1>1, RunChanges DEF Idle
  <2> QED
    BY <1>a, <1>b, <1>c, <1>d, <1>1, <2>1 DEF TypeOK
<1>2. ASSUME NEW q \in Found(run[s].p), UNCHANGED link,
             run' = [run EXCEPT ![s].at = "hook.save", ![s].rows = {q}]
      PROVE  /\ run' \in [Slots -> Runs] /\ \A z \in Slots \ {s} : run'[z] = run[z]
             /\ run'[s].at = "hook.save" /\ run'[s].p = run[s].p
             /\ run'[s].rows = {q}
  <2> DEFINE c == [run[s] EXCEPT !.at = "hook.save", !.rows = {q}]
  <2>1. c \in Runs /\ c.at = "hook.save" /\ c.p = run[s].p /\ c.rows = {q}
    BY <1>a, <1>c DEF TypeOK, Runs, Labels
  <2>2. run' = [run EXCEPT ![s] = c]
    BY <1>2
  <2> HIDE DEF c
  <2> QED
    BY <1>a, <2>1, <2>2, RunChanges
<1>3. \/ /\ Found(run[s].p) = {}
         /\ link' = [link EXCEPT ![run[s].p] = "done"]
         /\ Finish(s)
      \/ \E q \in Found(run[s].p) :
            /\ run' = [run EXCEPT ![s].at = "hook.save", ![s].rows = {q}]
            /\ UNCHANGED link
  BY DEF HookFind
<1>4. CASE \E q \in Found(run[s].p) :
              /\ run' = [run EXCEPT ![s].at = "hook.save", ![s].rows = {q}]
              /\ UNCHANGED link
  <2>1. PICK q \in Found(run[s].p) :
              /\ run' = [run EXCEPT ![s].at = "hook.save", ![s].rows = {q}]
              /\ UNCHANGED link
    BY <1>4
  <2>2. /\ run' \in [Slots -> Runs] /\ \A z \in Slots \ {s} : run'[z] = run[z]
        /\ run'[s].at = "hook.save" /\ run'[s].p = run[s].p
        /\ run'[s].rows = {q}
    BY <1>2, <2>1
  <2> QED
    BY <1>a, <1>b, <1>c, <1>d, <2>1, <2>2 DEF TypeOK
<1> QED
  BY <1>1, <1>3, <1>4

LEMMA HookSaveType ==
    ASSUME TInv, NEW s \in Slots, HookSave(s)
    PROVE  /\ TypeOK' /\ UNCHANGED <<now, world, refunded, booked, seated>>
           /\ \A z \in Slots \ {s} : run'[z] = run[z]
           /\ run[s].at = "hook.save" /\ run'[s].at = "idle" /\ run[s].p \in Links
           /\ link' = [link EXCEPT ![run[s].p] = "done"]
           /\ \A q \in run[s].rows : row'[q].st = "completed" /\ row'[q].of = run[s].p
           /\ \A q \in Payments \ run[s].rows : row'[q] = row[q]
<1>a. TypeOK
  BY DEF TInv
<1>b. run[s].at = "hook.save" /\ Finish(s)
  BY DEF HookSave, At
<1>c. run[s].p \in Links /\ run[s].p \in Payments /\ run[s].rows \subseteq Payments
  BY <1>a, <1>b DEF TInv, RunsWork, Hooking, Payments, TypeOK, Runs
<1>1. /\ run' \in [Slots -> Runs] /\ \A z \in Slots \ {s} : run'[z] = run[z]
      /\ run'[s].at = "idle"
  BY <1>a, <1>b, RunChanges DEF Idle
<1> DEFINE new(q) == [row[q] EXCEPT !.st = "completed", !.of = run[s].p]
<1>2. \A q \in Payments :
          new(q) \in Rows /\ new(q).st = "completed" /\ new(q).of = run[s].p
  BY <1>a, <1>c DEF TypeOK, Rows
<1>3. row' = [q \in Payments |-> IF q \in run[s].rows THEN new(q) ELSE row[q]]
  BY DEF HookSave
<1> HIDE DEF new
<1>4. row' \in [Payments -> Rows]
  BY <1>a, <1>2, <1>3 DEF TypeOK
<1>5. /\ \A q \in run[s].rows : row'[q].st = "completed" /\ row'[q].of = run[s].p
      /\ \A q \in Payments \ run[s].rows : row'[q] = row[q]
  BY <1>c, <1>2, <1>3
<1>6. /\ UNCHANGED <<now, world, refunded, booked, seated>>
      /\ link' = [link EXCEPT ![run[s].p] = "done"]
  BY DEF HookSave
<1> QED
  BY <1>a, <1>b, <1>c, <1>1, <1>4, <1>5, <1>6 DEF TypeOK

LEMMA HookFailsType ==
    ASSUME TInv, NEW s \in Slots, HookFails(s)
    PROVE  /\ TypeOK' /\ UNCHANGED <<now, row, refunded, booked, seated>>
           /\ world'.env = world.env
           /\ \A z \in Slots \ {s} : run'[z] = run[z]
           /\ run[s].at = "hook.save" /\ run'[s].at = "idle" /\ run[s].p \in Links
           /\ link' = [link EXCEPT ![run[s].p] = "paid"]
<1>a. TypeOK
  BY DEF TInv
<1>b. run[s].at = "hook.save" /\ Finish(s)
  BY DEF HookFails, At
<1>c. run[s].p \in Links
  BY <1>b DEF TInv, RunsWork, Hooking
<1>1. /\ run' \in [Slots -> Runs] /\ \A z \in Slots \ {s} : run'[z] = run[z]
      /\ run'[s].at = "idle"
  BY <1>a, <1>b, RunChanges DEF Idle
<1>2. /\ world' \in [env: Environments, calls: Nat, faults: Nat]
      /\ world'.env = world.env
  BY <1>a, CallingWorld DEF HookFails
<1>3. /\ UNCHANGED <<now, row, refunded, booked, seated>>
      /\ link' = [link EXCEPT ![run[s].p] = "paid"]
  BY DEF HookFails
<1> QED
  BY <1>a, <1>b, <1>c, <1>1, <1>2, <1>3 DEF TypeOK

(* The student, the sweep, the clock and restarts.                         *)
LEMMA PayType ==
    ASSUME TInv, NEW p \in Links, Pay(p)
    PROVE  /\ TypeOK' /\ UNCHANGED <<now, world, row, refunded, booked, seated, run>>
           /\ link[p] = "sent" /\ link' = [link EXCEPT ![p] = "paid"]
BY DEF Pay, TInv, TypeOK

LEMMA SweepType ==
    ASSUME TInv, Sweep
    PROVE  /\ TypeOK' /\ UNCHANGED <<now, world, link, refunded, booked, seated, run>>
           /\ Lapsed \subseteq Links /\ \A p \in Lapsed : Retry(p) /\ Pending(p)
           /\ \A p \in Lapsed : row'[p].st = "failed" /\ row'[p].of = row[p].of
           /\ \A p \in Payments \ Lapsed : row'[p] = row[p]
<1>a. TypeOK
  BY DEF TInv
<1> DEFINE new(p) == [row[p] EXCEPT !.st = "failed"]
<1>1. \A p \in Payments : new(p) \in Rows /\ new(p).st = "failed" /\ new(p).of = row[p].of
  BY <1>a DEF TypeOK, Rows
<1>2. row' = [p \in Payments |-> IF p \in Lapsed THEN new(p) ELSE row[p]]
  BY DEF Sweep
<1> HIDE DEF new
<1>3. /\ Lapsed \subseteq Links /\ Lapsed \subseteq Payments
      /\ \A p \in Lapsed : Retry(p) /\ Pending(p)
  BY DEF Lapsed, Payments
<1>4. row' \in [Payments -> Rows]
  BY <1>a, <1>1, <1>2 DEF TypeOK
<1>5. /\ \A p \in Lapsed : row'[p].st = "failed" /\ row'[p].of = row[p].of
      /\ \A p \in Payments \ Lapsed : row'[p] = row[p]
  BY <1>1, <1>2, <1>3
<1>6. UNCHANGED <<now, world, link, refunded, booked, seated, run>>
  BY DEF Sweep
<1> QED
  BY <1>a, <1>3, <1>4, <1>5, <1>6 DEF TypeOK

LEMMA ClockType ==
    ASSUME TInv, Clock
    PROVE  /\ TypeOK' /\ UNCHANGED <<world, row, link, refunded, booked, seated, run>>
           /\ now' = now + 1
<1>1. TypeOK /\ Env.until \in 0..Horizon
  BY PaymentAssumption DEF TInv, TypeOK, Env
<1> QED
  BY <1>1, PaymentAssumption DEF Clock, moneyVars, TypeOK

LEMMA CrashType ==
    ASSUME TInv, Crash
    PROVE  /\ TypeOK' /\ UNCHANGED <<now, row, link, refunded, booked, seated>>
           /\ world'.env = world.env /\ \A s \in Slots : run'[s].at = "idle"
           /\ "crash" \in Env.faults
<1>a. TypeOK
  BY DEF TInv
<1>1. /\ world' \in [env: Environments, calls: Nat, faults: Nat]
      /\ world'.env = world.env
  BY <1>a, CallingWorld DEF Crash
<1>2. run' \in [Slots -> Runs] /\ \A s \in Slots : run'[s].at = "idle"
  BY IdleIsRun DEF Crash, Idle
<1>3. UNCHANGED <<now, row, link, refunded, booked, seated>> /\ "crash" \in Env.faults
  BY DEF Crash, Fault, moneyVars
<1> QED
  BY <1>a, <1>1, <1>2, <1>3 DEF TypeOK

LEMMA SameKind ==
    ASSUME world'.env = world.env PROVE \A p : Retry(p)' <=> Retry(p)
BY DEF Retry, Env

-----------------------------------------------------------------------------
(* The runs keep to their work.                                            *)
LEMMA TInvStep == TInv /\ [Next]_vars => TInv'
<1> SUFFICES ASSUME TInv, [Next]_vars PROVE TInv'
  OBVIOUS
<1>a. TypeOK /\ RunsWork /\ LinksFirst
  BY DEF TInv
<1>b. \A s \in Slots : run[s] \in Runs
  BY <1>a DEF TypeOK
<1>c. Refunding \cap (Linking \cup Hooking) = {} /\ Linking \cap Hooking = {}
      /\ "idle" \notin Refunding \cup Linking \cup Hooking
  BY DEF Refunding, Linking, Hooking
<1>1. ASSUME NEW s \in Slots, RefundStep(s) PROVE TInv'
  <2>1. /\ TypeOK' /\ UNCHANGED <<row, link>> /\ world'.env = world.env
        /\ \A z \in Slots \ {s} : run'[z] = run[z]
        /\ run'[s].at \in Refunding \cup {"idle"}
        /\ run'[s].at # "idle" => run'[s].p \in Payments
    BY <1>1, RefundTypes
  <2>2. \A p : Retry(p)' <=> Retry(p)
    BY <2>1, SameKind
  <2>3. run'[s].at \notin Linking \cup Hooking
    BY <2>1, <1>c
  <2>4. run'[s].at \notin {"link.row", "hook.save"}
    BY <2>3 DEF Linking, Hooking
  <2> QED
    BY <2>1, <2>2, <2>3, <2>4, <1>a DEF TInv, RunsWork, LinksFirst, Refunding
<1>2. ASSUME NEW s \in Slots, NEW p \in Links, LinkAsk(s, p) PROVE TInv'
  <2>1. /\ TypeOK' /\ UNCHANGED <<now, row, refunded, booked, seated>>
        /\ world'.env = world.env
        /\ \A z \in Slots \ {s} : run'[z] = run[z]
        /\ run[s].at = "idle" /\ run'[s].at = "link.row" /\ run'[s].p = p
        /\ link[p] = "none" /\ link' = [link EXCEPT ![p] = "made"]
    BY <1>2, LinkAskType
  <2>2. \A q : Retry(q)' <=> Retry(q)
    BY <2>1, SameKind
  <2>3. link'[p] = "made" /\ \A q \in Links \ {p} : link'[q] = link[q]
    BY <2>1, <1>a DEF TypeOK
  <2>4. \A z \in Slots : run[z].at \in Linking \cup Hooking => run[z].p # p
    BY <2>1, <1>a DEF RunsWork
  <2>5. row[p].st = "none"
    BY <2>1, <1>a DEF LinksFirst
  <2>6. LinksFirst'
    BY <2>1, <2>3, <1>a DEF LinksFirst
  <2>7. RunsWork'
    BY <2>1, <2>2, <2>3, <2>4, <2>5, <1>a, <1>c
       DEF RunsWork, Refunding, Linking, Hooking
  <2> QED
    BY <2>1, <2>6, <2>7 DEF TInv
<1>3. ASSUME NEW s \in Slots, LinkRow(s) PROVE TInv'
  <2>1. /\ TypeOK' /\ UNCHANGED <<now, world, link, refunded, booked, seated>>
        /\ \A z \in Slots \ {s} : run'[z] = run[z]
        /\ run[s].at = "link.row" /\ run'[s].at = "link.mail"
        /\ run'[s].p = run[s].p /\ run[s].p \in Links
        /\ row'[run[s].p].st = "pending"
        /\ \A q \in Payments \ {run[s].p} : row'[q] = row[q]
    BY <1>3, LinkRowType
  <2>2. \A q : Retry(q)' <=> Retry(q)
    BY <2>1, SameKind
  <2>3. link[run[s].p] = "made"
    BY <2>1, <1>a DEF RunsWork, Linking
  <2>4. LinksFirst'
    BY <2>1, <2>3, <1>a DEF LinksFirst, Payments
  <2>5. \A z \in Slots \ {s} : run[z].at = "link.row" => run[z].p # run[s].p
    BY <2>1, <1>a DEF RunsWork, Linking
  <2>6. \A z \in Slots \ {s} : run'[z].at = "link.row" => row'[run'[z].p].st = "none"
    BY <2>1, <2>5, <1>a DEF RunsWork, Linking, Payments
  <2>7. \A q \in Payments : row[q].st # "none" => row'[q].st # "none"
    BY <2>1
  <2>8. RunsWork'
    <3>1. \A z \in Slots \ {s} :
              /\ run'[z].at = "link.mail" => row'[run'[z].p].st # "none"
              /\ run'[z].at = "hook.save" =>
                    \E q \in Links : /\ run'[z].rows = {q} /\ row'[q].st # "none"
                                     /\ Retry(run'[z].p) => q = run'[z].p
                                     /\ ~Retry(run'[z].p) => ~Retry(q)
      BY <2>1, <2>7, <1>a DEF RunsWork, Linking, Payments
    <3> QED
      BY <2>1, <2>2, <2>3, <2>6, <3>1, <1>a DEF RunsWork, Refunding, Linking, Hooking
  <2> QED
    BY <2>1, <2>4, <2>8 DEF TInv
<1>4. ASSUME NEW s \in Slots, LinkMail(s) \/ LinkMailFails(s) PROVE TInv'
  <2>1. /\ TypeOK' /\ UNCHANGED <<now, row, refunded, booked, seated>>
        /\ world'.env = world.env
        /\ \A z \in Slots \ {s} : run'[z] = run[z]
        /\ run[s].at = "link.mail" /\ run'[s].at = "idle" /\ run[s].p \in Links
        /\ UNCHANGED link \/ link' = [link EXCEPT ![run[s].p] = "sent"]
    BY <1>4, LinkMailType
  <2>2. \A q : Retry(q)' <=> Retry(q)
    BY <2>1, SameKind
  <2>3. link[run[s].p] = "made"
    BY <2>1, <1>a DEF RunsWork, Linking
  <2>4. /\ link'[run[s].p] # "none"
        /\ \A q \in Links \ {run[s].p} : link'[q] = link[q]
    BY <2>1, <2>3, <1>a DEF TypeOK
  <2>5. \A z \in Slots \ {s} : run[z].at \in Linking \cup Hooking => run[z].p # run[s].p
    BY <2>1, <1>a DEF RunsWork, Linking
  <2>6. LinksFirst'
    BY <2>1, <2>3, <2>4, <1>a DEF LinksFirst, RunsWork
  <2>7. RunsWork'
    BY <2>1, <2>2, <2>4, <2>5, <1>a DEF RunsWork, Refunding, Linking, Hooking
  <2> QED
    BY <2>1, <2>6, <2>7 DEF TInv
<1>5. ASSUME NEW s \in Slots, NEW p \in Links, Hook(s, p) PROVE TInv'
  <2>1. /\ TypeOK' /\ UNCHANGED <<now, world, row, refunded, booked, seated>>
        /\ \A z \in Slots \ {s} : run'[z] = run[z]
        /\ run[s].at = "idle" /\ run'[s].at = "hook" /\ run'[s].p = p
        /\ link[p] = "paid" /\ link' = [link EXCEPT ![p] = "claimed"]
    BY <1>5, HookType
  <2>2. \A q : Retry(q)' <=> Retry(q)
    BY <2>1, SameKind
  <2>3. link'[p] = "claimed" /\ \A q \in Links \ {p} : link'[q] = link[q]
    BY <2>1, <1>a DEF TypeOK
  <2>4. \A z \in Slots : run[z].at \in Linking \cup Hooking => run[z].p # p
    BY <2>1, <1>a DEF RunsWork
  <2>6. LinksFirst'
    BY <2>1, <2>3, <1>a DEF LinksFirst
  <2>7. RunsWork'
    BY <2>1, <2>2, <2>3, <2>4, <1>a DEF RunsWork, Refunding, Linking, Hooking
  <2> QED
    BY <2>1, <2>6, <2>7 DEF TInv
<1>6. ASSUME NEW s \in Slots, HookFind(s) PROVE TInv'
  <2>1. /\ TypeOK' /\ UNCHANGED <<now, world, row, refunded, booked, seated>>
        /\ \A z \in Slots \ {s} : run'[z] = run[z]
        /\ run[s].at = "hook" /\ run[s].p \in Links
        /\ \/ /\ Found(run[s].p) = {} /\ run'[s].at = "idle"
              /\ link' = [link EXCEPT ![run[s].p] = "done"]
           \/ /\ run'[s].at = "hook.save" /\ run'[s].p = run[s].p
              /\ \E q \in Found(run[s].p) : run'[s].rows = {q}
              /\ UNCHANGED link
    BY <1>6, HookFindType
  <2>2. \A q : Retry(q)' <=> Retry(q)
    BY <2>1, SameKind
  <2>3. link[run[s].p] = "claimed"
    BY <2>1, <1>a DEF RunsWork, Hooking
  <2>4. /\ link'[run[s].p] # "none"
        /\ \A q \in Links \ {run[s].p} : link'[q] = link[q]
        /\ run'[s].at = "hook.save" => link'[run[s].p] = "claimed"
    BY <2>1, <2>3, <1>a DEF TypeOK
  <2>5. \A z \in Slots \ {s} : run[z].at \in Linking \cup Hooking => run[z].p # run[s].p
    BY <2>1, <1>a DEF RunsWork, Hooking
  <2>6. LinksFirst'
    BY <2>1, <2>3, <2>4, <1>a DEF LinksFirst
  <2>7. \A q \in Found(run[s].p) : /\ q \in Links
                                   /\ Retry(run[s].p) => q = run[s].p
                                   /\ ~Retry(run[s].p) => ~Retry(q)
                                   /\ row[q].st # "none"
    BY <2>1, <2>3, <1>a DEF Found, Pending, LinksFirst
  <2>8. RunsWork'
    BY <2>1, <2>2, <2>4, <2>5, <2>7, <1>a DEF RunsWork, Refunding, Linking, Hooking
  <2> QED
    BY <2>1, <2>6, <2>8 DEF TInv
<1>7. ASSUME NEW s \in Slots, HookSave(s) PROVE TInv'
  <2>1. /\ TypeOK' /\ UNCHANGED <<now, world, refunded, booked, seated>>
        /\ \A z \in Slots \ {s} : run'[z] = run[z]
        /\ run[s].at = "hook.save" /\ run'[s].at = "idle" /\ run[s].p \in Links
        /\ link' = [link EXCEPT ![run[s].p] = "done"]
        /\ \A q \in run[s].rows : row'[q].st = "completed" /\ row'[q].of = run[s].p
        /\ \A q \in Payments \ run[s].rows : row'[q] = row[q]
    BY <1>7, HookSaveType
  <2>2. \A q : Retry(q)' <=> Retry(q)
    BY <2>1, SameKind
  <2>3. link[run[s].p] = "claimed"
    BY <2>1, <1>a DEF RunsWork, Hooking
  <2>4. /\ link'[run[s].p] = "done"
        /\ \A q \in Links \ {run[s].p} : link'[q] = link[q]
    BY <2>1, <1>a DEF TypeOK
  <2>5. \A z \in Slots \ {s} : run[z].at \in Linking \cup Hooking => run[z].p # run[s].p
    BY <2>1, <1>a DEF RunsWork, Hooking
  <2>6. PICK q \in Links : run[s].rows = {q} /\ row[q].st # "none"
    BY <2>1, <1>a DEF RunsWork
  <2>7. \A r \in Payments : (row'[r].st = "none") <=> (row[r].st = "none")
    BY <2>1, <2>6
  <2>8. LinksFirst'
    BY <2>1, <2>3, <2>4, <2>7, <1>a DEF LinksFirst, Payments
  <2>9. RunsWork'
    <3>1. \A z \in Slots \ {s} :
              /\ run'[z].at \in Linking => run'[z].p \in Links /\ link'[run'[z].p] = "made"
              /\ run'[z].at \in Hooking => run'[z].p \in Links /\ link'[run'[z].p] = "claimed"
      BY <2>1, <2>4, <2>5, <1>a DEF RunsWork
    <3>2. \A z \in Slots \ {s} :
              /\ run'[z].at = "link.row" => row'[run'[z].p].st = "none"
              /\ run'[z].at = "link.mail" => row'[run'[z].p].st # "none"
              /\ run'[z].at = "hook.save" =>
                    \E r \in Links : /\ run'[z].rows = {r} /\ row'[r].st # "none"
                                     /\ Retry(run'[z].p) => r = run'[z].p
                                     /\ ~Retry(run'[z].p) => ~Retry(r)
      BY <2>1, <2>7, <1>a DEF RunsWork, Linking, Payments
    <3> QED
      BY <2>1, <2>2, <3>1, <3>2, <1>a DEF RunsWork, Refunding, Linking, Hooking
  <2> QED
    BY <2>1, <2>8, <2>9 DEF TInv
<1>8. ASSUME NEW s \in Slots, HookFails(s) PROVE TInv'
  <2>1. /\ TypeOK' /\ UNCHANGED <<now, row, refunded, booked, seated>>
        /\ world'.env = world.env
        /\ \A z \in Slots \ {s} : run'[z] = run[z]
        /\ run[s].at = "hook.save" /\ run'[s].at = "idle" /\ run[s].p \in Links
        /\ link' = [link EXCEPT ![run[s].p] = "paid"]
    BY <1>8, HookFailsType
  <2>2. \A q : Retry(q)' <=> Retry(q)
    BY <2>1, SameKind
  <2>3. link[run[s].p] = "claimed"
    BY <2>1, <1>a DEF RunsWork, Hooking
  <2>4. /\ link'[run[s].p] = "paid"
        /\ \A q \in Links \ {run[s].p} : link'[q] = link[q]
    BY <2>1, <1>a DEF TypeOK
  <2>5. \A z \in Slots \ {s} : run[z].at \in Linking \cup Hooking => run[z].p # run[s].p
    BY <2>1, <1>a DEF RunsWork, Hooking
  <2>6. LinksFirst'
    BY <2>1, <2>3, <2>4, <1>a DEF LinksFirst
  <2>7. RunsWork'
    BY <2>1, <2>2, <2>4, <2>5, <1>a DEF RunsWork, Refunding, Linking, Hooking
  <2> QED
    BY <2>1, <2>6, <2>7 DEF TInv
<1>9. ASSUME NEW p \in Links, Pay(p) PROVE TInv'
  <2>1. /\ TypeOK' /\ UNCHANGED <<now, world, row, refunded, booked, seated, run>>
        /\ link[p] = "sent" /\ link' = [link EXCEPT ![p] = "paid"]
    BY <1>9, PayType
  <2>2. \A q : Retry(q)' <=> Retry(q)
    BY <2>1, SameKind
  <2>3. link'[p] = "paid" /\ \A q \in Links \ {p} : link'[q] = link[q]
    BY <2>1, <1>a DEF TypeOK
  <2>4. \A z \in Slots : run[z].at \in Linking \cup Hooking => run[z].p # p
    BY <2>1, <1>a DEF RunsWork
  <2>5. LinksFirst'
    BY <2>1, <2>3, <1>a DEF LinksFirst
  <2>6. RunsWork'
    BY <2>1, <2>2, <2>3, <2>4, <1>a DEF RunsWork
  <2> QED
    BY <2>1, <2>5, <2>6 DEF TInv
<1>10. CASE Sweep
  <2>1. /\ TypeOK' /\ UNCHANGED <<now, world, link, refunded, booked, seated, run>>
        /\ Lapsed \subseteq Links /\ \A p \in Lapsed : Retry(p) /\ Pending(p)
        /\ \A p \in Lapsed : row'[p].st = "failed" /\ row'[p].of = row[p].of
        /\ \A p \in Payments \ Lapsed : row'[p] = row[p]
    BY <1>10, SweepType
  <2>2. \A q : Retry(q)' <=> Retry(q)
    BY <2>1, SameKind
  <2>3. \A r \in Payments : (row'[r].st = "none") <=> (row[r].st = "none")
    BY <2>1 DEF Pending
  <2>4. LinksFirst'
    BY <2>1, <2>3, <1>a DEF LinksFirst, Payments
  <2>5. RunsWork'
    BY <2>1, <2>2, <2>3, <1>a DEF RunsWork, Linking, Payments
  <2> QED
    BY <2>1, <2>4, <2>5 DEF TInv
<1>11. CASE Clock
  BY <1>11, <1>a, ClockType, SameKind DEF TInv, RunsWork, LinksFirst
<1>12. CASE Crash
  <2>1. /\ TypeOK' /\ UNCHANGED <<now, row, link, refunded, booked, seated>>
        /\ \A s \in Slots : run'[s].at = "idle"
    BY <1>12, CrashType
  <2> QED
    BY <2>1, <1>a DEF TInv, RunsWork, LinksFirst, Refunding, Linking, Hooking
<1>13. CASE UNCHANGED vars
  <2>1. \A p : Retry(p)' <=> Retry(p)
    BY <1>13, SameKind DEF vars
  <2> QED
    BY <1>13, <1>a, <2>1 DEF vars, moneyVars, TInv, TypeOK, RunsWork, LinksFirst
<1> QED
  BY <1>1, <1>2, <1>3, <1>4, <1>5, <1>6, <1>7, <1>8, <1>9, <1>10, <1>11, <1>12,
     <1>13 DEF Next, RunStep, RefundStep

LEMMA TInvInit == Init => TInv
<1> SUFFICES ASSUME Init PROVE TInv
  OBVIOUS
<1>1. PICK e \in Environments :
          /\ world = [env |-> e, calls |-> 0, faults |-> 0]
          /\ row = [p \in Payments |-> IF p # Charge THEN NoRow
                       ELSE [NoRow EXCEPT !.st = e.charge, !.of = p]]
  BY DEF Init
<1>2. world \in [env: Environments, calls: Nat, faults: Nat]
  BY <1>1
<1>3. row \in [Payments -> Rows]
  <2> DEFINE first == [NoRow EXCEPT !.st = e.charge, !.of = Charge]
  <2>1. NoRow \in Rows
    BY PaymentAssumption DEF NoRow, Rows
  <2>2. e.charge \in {"completed", "failed"} /\ Charge \in Payments
    BY PaymentAssumption DEF Payments
  <2>3. first \in Rows
    BY <2>1, <2>2 DEF Rows
  <2>4. row = [p \in Payments |-> IF p # Charge THEN NoRow ELSE first]
    BY <1>1
  <2> HIDE DEF first
  <2> QED
    BY <2>1, <2>3, <2>4
<1>4. \A p \in Links : row[p].st = "none"
  BY <1>1, PaymentAssumption DEF Payments, NoRow
<1>5. TypeOK
  <2>1. /\ now = 0 /\ link = [p \in Links |-> "none"]
        /\ refunded = [p \in Payments |-> 0] /\ booked = [p \in Payments |-> 0]
        /\ seated = TRUE /\ run = [s \in Slots |-> Idle]
    BY DEF Init
  <2>2. now \in 0..Horizon /\ refunded \in [Payments -> 0..Full]
    BY <2>1, PaymentAssumption
  <2> QED
    BY <2>1, <2>2, <1>2, <1>3, IdleIsRun DEF TypeOK
<1>6. \A s \in Slots : run[s].at = "idle"
  BY DEF Init, Idle
<1>7. RunsWork /\ LinksFirst
  BY <1>4, <1>6 DEF Init, RunsWork, LinksFirst, Refunding, Linking, Hooking
<1> QED
  BY <1>5, <1>7 DEF TInv

(* Every reachable state is well typed, whatever admins, students, Stripe, *)
(* failures and restarts do at the same time.                              *)
THEOREM TypeCorrect == Spec => []TypeOK
<1>1. TInv => TypeOK
  BY DEF TInv
<1>2. Spec => []TInv
  BY TInvInit, TInvStep, PTL DEF Spec
<1> QED
  BY <1>1, <1>2, PTL

-----------------------------------------------------------------------------
(***************************************************************************)
(* The place goes with the money, and what was paid is booked, for any     *)
(* number of links, requests and units of time.                            *)
(***************************************************************************)
(* A link to pay again completes its own record and no other.              *)
OwnRows ==
    \A q \in Payments, p \in Links :
        Retry(p) /\ row[q].of = p => q = p /\ row[q].st = "completed"

(* So what is refunded of such a link was completed before.                *)
PaidFirst ==
    \A p \in Links : Retry(p) /\ row[p].st # "completed" =>
        /\ booked[p] = 0
        /\ \A s \in Slots : run[s].at \in Refunding => run[s].p # p

(* A refund that is about to look at the place, or will take it away.      *)
Releasing(s) ==
    \/ run[s].at \in {"release", "release.rows"} /\ (run[s].p = Charge \/ Retry(run[s].p))
    \/ run[s].at = "release.paid" /\ ~StillPaid(run[s].rows)
    \/ run[s].at = "release.seat"

(* While nothing the student paid is theirs any more, but the place is,    *)
(* some refund is on its way to it.                                        *)
NothingPaid ==
    /\ "crash" \notin Env.faults /\ seated /\ now < Env.over
    /\ ~StillPaid(Counts) /\ \E p \in Counts : booked[p] # 0
PlaceFollows == NothingPaid => \E s \in Slots : Releasing(s)

PlaceInv == TInv /\ OwnRows /\ PaidFirst /\ PlaceFollows

-----------------------------------------------------------------------------
(* What other steps than a refund's leave alone.                           *)
LEMMA OtherStep ==
    ASSUME TInv, [Next]_vars, \A s \in Slots : ~RefundStep(s)
    PROVE  /\ UNCHANGED <<booked, seated>> /\ world'.env = world.env
           /\ now' >= now
           /\ \A z \in Slots : run'[z].at \in Refunding => run'[z] = run[z]
           /\ "crash" \in Env.faults
              \/ \A z \in Slots : run[z].at \in Refunding => run'[z] = run[z]
           /\ \/ UNCHANGED row \/ Sweep
              \/ \E s \in Slots : LinkRow(s) \/ HookSave(s)
<1> DEFINE Goal ==
      /\ UNCHANGED <<booked, seated>> /\ world'.env = world.env
      /\ now' >= now
      /\ \A z \in Slots : run'[z].at \in Refunding => run'[z] = run[z]
      /\ "crash" \in Env.faults
         \/ \A z \in Slots : run[z].at \in Refunding => run'[z] = run[z]
      /\ \/ UNCHANGED row \/ Sweep
         \/ \E s \in Slots : LinkRow(s) \/ HookSave(s)
<1>a. now \in Int
  BY PaymentAssumption DEF TInv, TypeOK
<1>1. ASSUME NEW s \in Slots, NEW p \in Links, LinkAsk(s, p) PROVE Goal
  BY <1>1, <1>a, LinkAskType DEF Refunding
<1>2. ASSUME NEW s \in Slots, LinkRow(s) PROVE Goal
  BY <1>2, <1>a, LinkRowType DEF Refunding
<1>3. ASSUME NEW s \in Slots, LinkMail(s) \/ LinkMailFails(s) PROVE Goal
  BY <1>3, <1>a, LinkMailType DEF Refunding
<1>4. ASSUME NEW s \in Slots, NEW p \in Links, Hook(s, p) PROVE Goal
  BY <1>4, <1>a, HookType DEF Refunding
<1>5. ASSUME NEW s \in Slots, HookFind(s) PROVE Goal
  BY <1>5, <1>a, HookFindType DEF Refunding
<1>6. ASSUME NEW s \in Slots, HookSave(s) PROVE Goal
  BY <1>6, <1>a, HookSaveType DEF Refunding
<1>7. ASSUME NEW s \in Slots, HookFails(s) PROVE Goal
  BY <1>7, <1>a, HookFailsType DEF Refunding
<1>8. ASSUME NEW p \in Links, Pay(p) PROVE Goal
  BY <1>8, <1>a, PayType
<1>9. ASSUME Sweep PROVE Goal
  BY <1>9, <1>a, SweepType
<1>10. ASSUME Clock PROVE Goal
  BY <1>10, <1>a, ClockType
<1>11. ASSUME Crash PROVE Goal
  BY <1>11, <1>a, CrashType DEF Refunding
<1>12. ASSUME UNCHANGED vars PROVE Goal
  BY <1>12, <1>a DEF vars, moneyVars
<1> HIDE DEF Goal
<1>13. Goal
  BY <1>1, <1>2, <1>3, <1>4, <1>5, <1>6, <1>7, <1>8, <1>9, <1>10, <1>11, <1>12
     DEF Next, RunStep, RefundStep
<1> QED
  BY <1>13 DEF Goal

(* What a refund's steps work on and book.                                 *)
LEMMA RefundMoves ==
    ASSUME TInv, NEW s \in Slots, RefundStep(s)
    PROVE  /\ now' = now
           /\ run'[s].at \in Refunding =>
                 \/ run[s].at \in Refunding /\ run'[s].p = run[s].p
                 \/ \E q \in Payments : run'[s].p = row[q].of
           /\ \/ UNCHANGED booked
              \/ /\ RefundRow(s) /\ run[s].at = "refund.row" /\ run[s].p \in Payments
                 /\ \E a \in Nat : booked' = [booked EXCEPT ![run[s].p] = @ + a]
<1> DEFINE Goal ==
      /\ now' = now
      /\ run'[s].at \in Refunding =>
            \/ run[s].at \in Refunding /\ run'[s].p = run[s].p
            \/ \E q \in Payments : run'[s].p = row[q].of
      /\ \/ UNCHANGED booked
         \/ /\ RefundRow(s) /\ run[s].at = "refund.row" /\ run[s].p \in Payments
            /\ \E a \in Nat : booked' = [booked EXCEPT ![run[s].p] = @ + a]
<1>a. TypeOK
  BY DEF TInv
<1>b. "idle" \notin Refunding /\ Idle.at = "idle"
  BY DEF Refunding, Idle
<1>c. Refunding \subseteq Labels
  BY DEF Refunding, Labels
<1>d. ASSUME NEW l \in Refunding, Goto(s, l) PROVE run'[s].p = run[s].p
  BY <1>a, <1>c, <1>d, RunChanges
<1>e. ASSUME Finish(s) PROVE run'[s].at \notin Refunding
  BY <1>a, <1>b, <1>e, RunChanges
<1>1. ASSUME RefundSum(s) PROVE Goal
  BY <1>1, <1>d, <1>e DEF RefundSum, At, Refunding, moneyVars
<1>2. ASSUME RefundStripe(s) \/ RefundStripeLost(s) PROVE Goal
  BY <1>2, <1>d, <1>e DEF RefundStripe, RefundStripeLost, At, Refunding
<1>3. ASSUME RefundRow(s) PROVE Goal
  <2>1. run[s].at = "refund.row" /\ run[s].amount \in 0..Full /\ Full \in Nat
    BY <1>3, <1>a, PaymentAssumption DEF RefundRow, At, TypeOK, Runs
  <2>2. run[s].p \in Payments
    BY <2>1 DEF TInv, RunsWork, Refunding
  <2>3. run[s].amount \in Nat /\ now' = now
        /\ booked' = [booked EXCEPT ![run[s].p] = @ + run[s].amount]
    BY <1>3, <2>1 DEF RefundRow
  <2>4. run'[s].p = run[s].p
    BY <1>3, <1>d DEF RefundRow, Refunding
  <2> QED
    BY <1>3, <2>1, <2>2, <2>3, <2>4 DEF Refunding
<1>4. ASSUME Release(s) PROVE Goal
  BY <1>4, <1>d, <1>e DEF Release, At, Refunding, moneyVars
<1>5. ASSUME ReleaseRows(s) PROVE Goal
  <2>1. run[s].at = "release.rows" /\ UNCHANGED <<now, booked>>
        /\ run' = [run EXCEPT ![s].at = "release.paid", ![s].rows = Counts]
    BY <1>5 DEF ReleaseRows, At, moneyVars
  <2>2. run'[s].p = run[s].p
    BY <2>1, <1>a DEF TypeOK, Runs
  <2> QED
    BY <2>1, <2>2 DEF Refunding
<1>6. ASSUME ReleasePaid(s) PROVE Goal
  BY <1>6, <1>d, <1>e DEF ReleasePaid, At, Refunding, moneyVars
<1>7. ASSUME ReleaseSeat(s) PROVE Goal
  BY <1>7, <1>e DEF ReleaseSeat, At, moneyVars
<1>8. ASSUME NEW p \in Payments, NEW amount \in 1..Full, RefundAsk(s, p, amount)
      PROVE Goal
  <2> DEFINE c == [Idle EXCEPT !.at = "refund.sum", !.p = row[p].of, !.amount = amount]
  <2>1. c.p = row[p].of
    BY DEF Idle
  <2>2. run' = [run EXCEPT ![s] = c] /\ UNCHANGED <<now, booked>>
    BY <1>8 DEF RefundAsk, moneyVars
  <2> HIDE DEF c
  <2>3. run'[s] = c
    BY <2>2, <1>a DEF TypeOK
  <2> QED
    BY <2>1, <2>2, <2>3
<1> HIDE DEF Goal
<1>9. Goal
  BY <1>1, <1>2, <1>3, <1>4, <1>5, <1>6, <1>7, <1>8 DEF RefundStep
<1> QED
  BY <1>9 DEF Goal

(* Records are completed for good, and once, by an event on their link.    *)
LEMMA RowMoves ==
    ASSUME TInv, [Next]_vars
    PROVE  /\ world'.env = world.env
           /\ \A q \in Payments : row[q].st = "completed" => row'[q].st = "completed"
           /\ \A q \in Payments :
                 \/ row'[q].of = row[q].of
                 \/ \E s \in Slots : HookSave(s) /\ q \in run[s].rows
                                     /\ row'[q].of = run[s].p
           /\ \A q \in Payments :
                 row'[q].st = "completed" /\ row[q].st # "completed" =>
                    \E s \in Slots : HookSave(s) /\ q \in run[s].rows
<1> DEFINE Goal ==
      /\ \A q \in Payments : row[q].st = "completed" => row'[q].st = "completed"
      /\ \A q \in Payments :
            \/ row'[q].of = row[q].of
            \/ \E s \in Slots : HookSave(s) /\ q \in run[s].rows
                                /\ row'[q].of = run[s].p
      /\ \A q \in Payments :
            row'[q].st = "completed" /\ row[q].st # "completed" =>
               \E s \in Slots : HookSave(s) /\ q \in run[s].rows
<1>1. ASSUME UNCHANGED row PROVE Goal
  BY <1>1
<1>2. ASSUME Sweep PROVE Goal
  BY <1>2, SweepType DEF Pending
<1>3. ASSUME NEW s \in Slots, LinkRow(s) PROVE Goal
  <2>1. /\ run[s].at = "link.row" /\ row'[run[s].p].st = "pending"
        /\ \A q \in Payments \ {run[s].p} : row'[q] = row[q]
    BY <1>3, LinkRowType
  <2>2. row[run[s].p].st = "none"
    BY <2>1 DEF TInv, RunsWork
  <2>3. \A q \in Payments : row'[q].of = row[q].of
    BY <1>3 DEF LinkRow, TInv, TypeOK, Rows
  <2> QED
    BY <2>1, <2>2, <2>3
<1>4. ASSUME NEW s \in Slots, HookSave(s) PROVE Goal
  BY <1>4, HookSaveType
<1> HIDE DEF Goal
<1>5. ASSUME \E s \in Slots : RefundStep(s) PROVE Goal
  BY <1>1, <1>5, RefundTypes
<1>6. ASSUME \A s \in Slots : ~RefundStep(s) PROVE Goal
  BY <1>1, <1>2, <1>3, <1>4, <1>6, OtherStep
<1>7. Goal /\ world'.env = world.env
  BY <1>5, <1>6, RefundTypes, OtherStep
<1> QED
  BY <1>7 DEF Goal

LEMMA OwnRowsStep ==
    ASSUME TInv, OwnRows, [Next]_vars PROVE OwnRows'
<1>1. \A p : Retry(p)' <=> Retry(p)
  BY RowMoves, SameKind
<1>2. SUFFICES ASSUME NEW q \in Payments, NEW p \in Links, Retry(p), row'[q].of = p
               PROVE  q = p /\ row'[q].st = "completed"
  BY <1>1 DEF OwnRows
<1>3. CASE row'[q].of = row[q].of
  BY <1>2, <1>3, RowMoves DEF OwnRows
<1>4. ASSUME NEW s \in Slots, HookSave(s), q \in run[s].rows, row'[q].of = run[s].p
      PROVE  q = p /\ row'[q].st = "completed"
  BY <1>2, <1>4, HookSaveType DEF TInv, RunsWork
<1> QED
  BY <1>3, <1>4, RowMoves

LEMMA PaidFirstStep ==
    ASSUME TInv, OwnRows, PaidFirst, [Next]_vars PROVE PaidFirst'
<1>1. \A p : Retry(p)' <=> Retry(p)
  BY RowMoves, SameKind
<1>2. SUFFICES ASSUME NEW p \in Links, Retry(p), row'[p].st # "completed"
               PROVE  /\ booked'[p] = 0
                      /\ \A s \in Slots : run'[s].at \in Refunding => run'[s].p # p
  BY <1>1 DEF PaidFirst
<1>3. p \in Payments
  BY DEF Payments
<1>4. row[p].st # "completed"
  BY <1>2, <1>3, RowMoves
<1>5. booked[p] = 0 /\ \A s \in Slots : run[s].at \in Refunding => run[s].p # p
  BY <1>2, <1>4 DEF PaidFirst
<1>6. \A q \in Payments : row[q].of # p
  BY <1>2, <1>4 DEF OwnRows
<1>7. ASSUME NEW s \in Slots, RefundStep(s)
      PROVE  /\ booked'[p] = 0
             /\ \A z \in Slots : run'[z].at \in Refunding => run'[z].p # p
  <2>1. booked'[p] = 0
    <3>1. CASE UNCHANGED booked
      BY <1>5, <3>1
    <3>2. ASSUME run[s].at = "refund.row", NEW a \in Nat,
                 booked' = [booked EXCEPT ![run[s].p] = @ + a]
          PROVE  booked'[p] = 0
      BY <1>3, <1>5, <3>2 DEF TInv, TypeOK, Refunding
    <3> QED
      BY <1>7, <3>1, <3>2, RefundMoves
  <2>2. run'[s].at \in Refunding => run'[s].p # p
    BY <1>5, <1>6, <1>7, RefundMoves
  <2>3. \A z \in Slots \ {s} : run'[z] = run[z]
    BY <1>7, RefundTypes
  <2> QED
    BY <1>5, <2>1, <2>2, <2>3
<1>8. CASE \A s \in Slots : ~RefundStep(s)
  BY <1>5, <1>8, OtherStep
<1> QED
  BY <1>7, <1>8

(* Of what the student paid with, nothing is lost from sight.              *)
LEMMA CountsMove ==
    ASSUME TInv, PaidFirst, [Next]_vars
    PROVE  /\ Counts \subseteq Counts'
           /\ \A p \in Counts' \ Counts : booked[p] = 0
<1>1. \A p : Retry(p)' <=> Retry(p)
  BY RowMoves, SameKind
<1>2. Counts \subseteq Counts'
  BY <1>1, RowMoves DEF Counts
<1>3. ASSUME NEW p \in Counts', p \notin Counts PROVE booked[p] = 0
  <2>1. /\ p \in Payments /\ (p = Charge \/ Retry(p))
        /\ row'[p].st = "completed" /\ row[p].st # "completed"
    BY <1>1, <1>3 DEF Counts
  <2>2. PICK s \in Slots : HookSave(s) /\ p \in run[s].rows
    BY <2>1, RowMoves
  <2>3. p \in Links
    BY <2>2, HookSaveType DEF TInv, RunsWork
  <2>4. Retry(p)
    BY <2>1, <2>3, PaymentAssumption
  <2> QED
    BY <2>1, <2>3, <2>4 DEF PaidFirst
<1> QED
  BY <1>2, <1>3

LEMMA PlaceFollowsStep ==
    ASSUME TInv, PaidFirst, PlaceFollows, [Next]_vars PROVE PlaceFollows'
<1> SUFFICES ASSUME NothingPaid' PROVE \E s \in Slots : Releasing(s)'
  BY DEF PlaceFollows
<1>a. TypeOK /\ world'.env = world.env
  BY RowMoves DEF TInv
<1>b. /\ "crash" \notin Env.faults /\ seated' /\ now' < Env.over
      /\ \A p \in Counts' : booked'[p] # 0
      /\ \E p \in Counts' : booked'[p] # 0
  BY <1>a DEF NothingPaid, StillPaid, Env
<1>c. now \in Int /\ now' \in Int /\ Env.over \in Int
  <2>1. TInv'
    BY TInvStep
  <2> QED
    BY <1>a, <2>1, PaymentAssumption DEF TInv, TypeOK, Env
<1>d. \A p : Retry(p)' <=> Retry(p)
  BY <1>a, SameKind
<1>1. ASSUME \A s \in Slots : ~RefundStep(s) PROVE \E s \in Slots : Releasing(s)'
  <2>1. UNCHANGED <<booked, seated>> /\ now < Env.over
    <3>1. UNCHANGED <<booked, seated>> /\ now' >= now
      BY <1>1, OtherStep
    <3>2. now' < Env.over
      BY <1>b
    <3>3. now < Env.over
      BY <1>c, <3>1, <3>2
    <3> QED
      BY <3>1, <3>3
  <2>2. \A p \in Counts' : p \in Counts
    BY <1>b, <2>1, CountsMove
  <2>3. NothingPaid
    BY <1>b, <2>1, <2>2, CountsMove DEF NothingPaid, StillPaid
  <2>4. PICK z \in Slots : Releasing(z)
    BY <2>3 DEF PlaceFollows
  <2>5. run'[z] = run[z]
    BY <1>1, <1>b, <2>4, OtherStep DEF Releasing, Refunding
  <2> QED
    BY <2>1, <2>4, <2>5, <1>d DEF Releasing, StillPaid
<1>2. ASSUME NEW s \in Slots, RefundStep(s) PROVE \E z \in Slots : Releasing(z)'
  <2>1. /\ UNCHANGED <<row, now>> /\ \A z \in Slots \ {s} : run'[z] = run[z]
    BY <1>2, RefundTypes, RefundMoves
  <2>2. Counts' = Counts
    BY <2>1, <1>d DEF Counts
  <2>3. ASSUME NEW p \in Payments, booked[p] # 0 PROVE booked'[p] # 0
    BY <1>2, <1>a, <2>3, RefundMoves DEF TypeOK
  <2>4. ASSUME NEW z \in Slots, z # s, Releasing(z) PROVE Releasing(z)'
    <3>1. run'[z] = run[z] /\ run[z].rows \subseteq Payments
      BY <2>1, <2>4, <1>a DEF TypeOK, Runs
    <3> QED
      BY <2>3, <2>4, <3>1, <1>d DEF Releasing, StillPaid
  <2>5. ASSUME RefundRow(s), run[s].p = Charge \/ Retry(run[s].p) PROVE Releasing(s)'
    <3>1. run'[s].at = "release" /\ run'[s].p = run[s].p
      BY <1>a, <2>5, RunChanges DEF RefundRow, Labels
    <3> QED
      BY <2>5, <3>1, <1>d DEF Releasing
  <2>6. CASE ~(RefundRow(s) /\ (run[s].p = Charge \/ Retry(run[s].p)))
    <3>1. \A p \in Counts : booked'[p] = booked[p]
      BY <1>2, <1>a, <2>6, RefundMoves DEF TypeOK, Counts
    <3>2. seated
      BY <1>2, <1>b DEF RefundStep, RefundAsk, RefundSum, RefundStripe,
         RefundStripeLost, RefundRow, Release, ReleaseRows, ReleasePaid, ReleaseSeat
    <3>3. NothingPaid
      BY <1>b, <2>1, <2>2, <3>1, <3>2 DEF NothingPaid, StillPaid
    <3>4. PICK z \in Slots : Releasing(z)
      BY <3>3 DEF PlaceFollows
    <3>5. CASE z # s
      BY <2>4, <3>4, <3>5
    <3>6. CASE z = s
      <4>1. run[s].at \in {"release", "release.rows", "release.paid", "release.seat"}
        BY <3>4, <3>6 DEF Releasing
      <4>2. Release(s) \/ ReleaseRows(s) \/ ReleasePaid(s) \/ ReleaseSeat(s)
        BY <1>2, <4>1 DEF RefundStep, RefundAsk, RefundSum, RefundStripe,
           RefundStripeLost, RefundRow, At
      <4>3. ASSUME Release(s) PROVE Releasing(s)'
        <5>1. run[s].at = "release" /\ (run[s].p = Charge \/ Retry(run[s].p))
          BY <3>4, <3>6, <4>3 DEF Releasing, Release, At
        <5>2. Goto(s, "release.rows")
          BY <4>3, <5>1, <3>3 DEF Release, NothingPaid
        <5>3. run'[s].at = "release.rows" /\ run'[s].p = run[s].p
          BY <1>a, <5>2, RunChanges DEF Labels
        <5> QED
          BY <5>1, <5>3, <1>d DEF Releasing
      <4>4. ASSUME ReleaseRows(s) PROVE Releasing(s)'
        <5>1. run' = [run EXCEPT ![s].at = "release.paid", ![s].rows = Counts]
              /\ UNCHANGED booked
          BY <4>4 DEF ReleaseRows, moneyVars
        <5>2. run'[s].at = "release.paid" /\ run'[s].rows = Counts
          BY <5>1, <1>a DEF TypeOK, Runs
        <5> QED
          BY <3>3, <5>1, <5>2 DEF Releasing, NothingPaid, StillPaid
      <4>5. ASSUME ReleasePaid(s) PROVE Releasing(s)'
        <5>1. run[s].at = "release.paid" /\ ~StillPaid(run[s].rows)
          BY <3>4, <3>6, <4>5 DEF Releasing, ReleasePaid, At
        <5>2. Goto(s, "release.seat")
          BY <4>5, <5>1 DEF ReleasePaid
        <5>3. run'[s].at = "release.seat"
          BY <1>a, <5>2, RunChanges DEF Labels
        <5> QED
          BY <5>3 DEF Releasing
      <4>6. ~ReleaseSeat(s)
        BY <1>b DEF ReleaseSeat
      <4> QED
        BY <4>2, <4>3, <4>4, <4>5, <4>6
    <3> QED
      BY <3>5, <3>6
  <2> QED
    BY <2>5, <2>6
<1> QED
  BY <1>1, <1>2

LEMMA PlaceInvInit == Init => PlaceInv
<1> SUFFICES ASSUME Init PROVE PlaceInv
  OBVIOUS
<1>1. TInv
  BY TInvInit
<1>2. /\ booked = [p \in Payments |-> 0] /\ run = [s \in Slots |-> Idle]
      /\ Idle.at = "idle" /\ "idle" \notin Refunding
  BY DEF Init, Idle, Refunding
<1>3. PICK e \in Environments :
          row = [p \in Payments |-> IF p # Charge THEN NoRow
                       ELSE [NoRow EXCEPT !.st = e.charge, !.of = p]]
  BY DEF Init
<1>4. \A q \in Payments : row[q].of = (IF q = Charge THEN Charge ELSE Nothing)
  BY <1>3 DEF NoRow
<1>5. OwnRows
  BY <1>4, PaymentAssumption DEF OwnRows, Payments
<1>6. PaidFirst
  BY <1>2 DEF PaidFirst, Payments
<1>7. PlaceFollows
  BY <1>2 DEF PlaceFollows, NothingPaid, Counts
<1> QED
  BY <1>1, <1>5, <1>6, <1>7 DEF PlaceInv

(* A refund leaves nobody in the place whose payments are all refunded,    *)
(* however refunds, links and deliveries overlap, unless a restart kills   *)
(* the request on its way to the place.                                    *)
THEOREM PlaceGoesWithMoney == Spec => []SeatGoesWithMoney
<1>1. PlaceInv /\ [Next]_vars => PlaceInv'
  BY TInvStep, OwnRowsStep, PaidFirstStep, PlaceFollowsStep DEF PlaceInv
<1>2. PlaceInv => SeatGoesWithMoney
  <2>1. Quiet => \A s \in Slots : ~Releasing(s)
    BY DEF Quiet, At, Releasing
  <2> QED
    BY <2>1 DEF PlaceInv, PlaceFollows, NothingPaid, SeatGoesWithMoney
<1> QED
  BY <1>1, <1>2, PlaceInvInit, PTL DEF Spec

-----------------------------------------------------------------------------
(* Links to pay something else that still need a record, and the records   *)
(* there are.                                                              *)
Due == {p \in Links : /\ ~Retry(p)
                      /\ \/ link[p] \in {"sent", "paid", "claimed"}
                         \/ \E s \in Slots : run[s].at = "link.mail" /\ run[s].p = p}
Open == {p \in Links : ~Retry(p) /\ Pending(p)}

(* Events are handled one at a time, so the record that was found is still *)
(* pending when it is saved; and there is one for every link.              *)
OneByOne ==
    "overlap" \notin Env.calls =>
        /\ \A s, z \in Slots : run[s].at \in Hooking /\ run[z].at \in Hooking => s = z
        /\ \A s \in Slots : run[s].at = "hook.save" /\ ~Retry(run[s].p) =>
              run[s].rows \subseteq Open
        /\ Cardinality(Due) <= Cardinality(Open)

(* Each link that was paid completed a record of its kind.                 *)
Completed(p) ==
    \E q \in Links : /\ row[q].st = "completed" /\ row[q].of = p
                     /\ Retry(p) => q = p
                     /\ ~Retry(p) => ~Retry(q)
DoneIsCompleted ==
    "overlap" \notin Env.calls => \A p \in Links : link[p] = "done" => Completed(p)

BooksInv == TInv /\ OneByOne /\ DoneIsCompleted

-----------------------------------------------------------------------------
(* A step adds a link that needs a record with its record, takes one away  *)
(* with its record, or has no record less and no link more.                *)
LEMMA DueMoves ==
    ASSUME TInv, [Next]_vars
    PROVE  \/ Due' \subseteq Due /\ Open \subseteq Open'
           \/ \E p \in Links : /\ p \notin Open /\ p \in Open'
                               /\ Due' \subseteq Due \cup {p} /\ Open \subseteq Open'
           \/ \E s \in Slots, q \in Links :
                 /\ HookSave(s) /\ ~Retry(run[s].p)
                 /\ run[s].p \in Due \ Due' /\ run[s].rows = {q}
                 /\ Due' \subseteq Due /\ Open \subseteq Open' \cup {q}
<1> DEFINE Keep == Due' \subseteq Due /\ Open \subseteq Open'
<1> DEFINE More == \E p \in Links : /\ p \notin Open /\ p \in Open'
                               /\ Due' \subseteq Due \cup {p} /\ Open \subseteq Open'
<1> DEFINE Less == \E s \in Slots, q \in Links :
                 /\ HookSave(s) /\ ~Retry(run[s].p)
                 /\ run[s].p \in Due \ Due' /\ run[s].rows = {q}
                 /\ Due' \subseteq Due /\ Open \subseteq Open' \cup {q}
<1>a. TypeOK /\ RunsWork
  BY DEF TInv
<1>b. \A p : Retry(p)' <=> Retry(p)
  BY RowMoves, SameKind
<1>c. Links \subseteq Payments
  BY DEF Payments
<1>1. ASSUME NEW s \in Slots, RefundStep(s) PROVE Keep
  BY <1>1, <1>b, RefundTypes DEF Due, Open, Pending, Refunding
<1>2. ASSUME NEW s \in Slots, NEW p \in Links, LinkAsk(s, p) PROVE Keep
  BY <1>2, <1>a, <1>b, LinkAskType DEF Due, Open, Pending, TypeOK
<1>3. ASSUME NEW s \in Slots, LinkRow(s) PROVE Keep \/ More
  <2>1. /\ UNCHANGED link /\ \A z \in Slots \ {s} : run'[z] = run[z]
        /\ run[s].at = "link.row" /\ run'[s].at = "link.mail"
        /\ run'[s].p = run[s].p /\ run[s].p \in Links
        /\ row'[run[s].p].st = "pending"
        /\ \A q \in Payments \ {run[s].p} : row'[q] = row[q]
    BY <1>3, LinkRowType
  <2>2. row[run[s].p].st = "none"
    BY <2>1, <1>a DEF RunsWork
  <2>3. Open \subseteq Open'
    BY <2>1, <2>2, <1>b, <1>c DEF Open, Pending
  <2>4. Due' \subseteq Due \cup {run[s].p}
    BY <2>1, <1>b DEF Due
  <2>5. CASE Retry(run[s].p)
    <3>1. Due' \subseteq Due
      BY <2>4, <2>5, <1>b DEF Due
    <3> QED
      BY <2>3, <3>1
  <2>6. CASE ~Retry(run[s].p)
    <3>1. run[s].p \notin Open /\ run[s].p \in Open'
      BY <2>1, <2>2, <2>6, <1>b DEF Open, Pending
    <3> QED
      BY <2>1, <2>3, <2>4, <3>1
  <2> QED
    BY <2>5, <2>6
<1>4. ASSUME NEW s \in Slots, LinkMail(s) \/ LinkMailFails(s) PROVE Keep
  BY <1>4, <1>a, <1>b, LinkMailType DEF Due, Open, Pending, TypeOK
<1>5. ASSUME NEW s \in Slots, NEW p \in Links, Hook(s, p) PROVE Keep
  BY <1>5, <1>a, <1>b, HookType DEF Due, Open, Pending, TypeOK
<1>6. ASSUME NEW s \in Slots, HookFind(s) PROVE Keep
  BY <1>6, <1>a, <1>b, HookFindType DEF Due, Open, Pending, TypeOK
<1>7. ASSUME NEW s \in Slots, HookSave(s) PROVE Keep \/ Less
  <2>1. /\ \A z \in Slots \ {s} : run'[z] = run[z]
        /\ run[s].at = "hook.save" /\ run'[s].at = "idle" /\ run[s].p \in Links
        /\ link' = [link EXCEPT ![run[s].p] = "done"]
        /\ \A q \in Payments \ run[s].rows : row'[q] = row[q]
    BY <1>7, HookSaveType
  <2>2. PICK q \in Links : /\ run[s].rows = {q}
                           /\ Retry(run[s].p) => q = run[s].p
    BY <2>1, <1>a DEF RunsWork
  <2>3. link'[run[s].p] = "done"
        /\ \A p \in Links \ {run[s].p} : link'[p] = link[p]
    BY <2>1, <1>a DEF TypeOK
  <2>4. Due' \subseteq Due
    BY <2>1, <2>3, <1>b DEF Due
  <2>5. Open \subseteq Open' \cup {q}
    BY <2>1, <2>2, <1>b, <1>c DEF Open, Pending
  <2>6. CASE Retry(run[s].p)
    <3>1. q \notin Open
      BY <2>2, <2>6 DEF Open
    <3> QED
      BY <2>4, <2>5, <3>1
  <2>7. CASE ~Retry(run[s].p)
    <3>1. link[run[s].p] = "claimed"
      BY <2>1, <1>a DEF RunsWork, Hooking
    <3>2. run[s].p \in Due
      BY <2>1, <2>7, <3>1 DEF Due
    <3>3. \A z \in Slots : run'[z].at = "link.mail" => run'[z].p # run[s].p
      BY <2>1, <1>a DEF RunsWork, Linking, Hooking
    <3>4. run[s].p \notin Due'
      BY <2>3, <3>3 DEF Due
    <3> QED
      BY <1>7, <2>2, <2>4, <2>5, <2>7, <3>2, <3>4
  <2> QED
    BY <2>6, <2>7
<1>8. ASSUME NEW s \in Slots, HookFails(s) PROVE Keep
  <2>1. link[run[s].p] = "claimed"
    BY <1>8, <1>a, HookFailsType DEF RunsWork, Hooking
  <2> QED
    BY <1>8, <2>1, <1>a, <1>b, HookFailsType DEF Due, Open, Pending, TypeOK
<1>9. ASSUME NEW p \in Links, Pay(p) PROVE Keep
  BY <1>9, <1>a, <1>b, PayType DEF Due, Open, Pending, TypeOK
<1>10. ASSUME Sweep PROVE Keep
  BY <1>10, <1>b, <1>c, SweepType DEF Due, Open, Pending
<1>11. ASSUME Clock PROVE Keep
  BY <1>11, <1>b, ClockType DEF Due, Open, Pending
<1>12. ASSUME Crash PROVE Keep
  BY <1>12, <1>b, CrashType DEF Due, Open, Pending
<1>13. ASSUME UNCHANGED vars PROVE Keep
  BY <1>13, <1>b DEF Due, Open, Pending, vars, moneyVars
<1> HIDE DEF Keep, More, Less
<1>14. Keep \/ More \/ Less
  BY <1>1, <1>2, <1>3, <1>4, <1>5, <1>6, <1>7, <1>8, <1>9, <1>10, <1>11, <1>12,
     <1>13 DEF Next, RunStep, RefundStep
<1> QED
  BY <1>14 DEF Keep, More, Less

LEMMA OneMore ==
    ASSUME NEW S, NEW x, IsFiniteSet(S)
    PROVE  IsFiniteSet(S \cup {x}) /\ Cardinality(S \cup {x}) <= Cardinality(S) + 1
<1>1. /\ IsFiniteSet(S \cup {x})
      /\ Cardinality(S \cup {x}) =
            IF x \in S THEN Cardinality(S) ELSE Cardinality(S) + 1
  BY FS_AddElement
<1>2. Cardinality(S) \in Nat
  BY FS_CardinalityType
<1> QED
  BY <1>1, <1>2

(* There is a record for every link that needs one.                        *)
LEMMA DueIsOpen ==
    ASSUME TInv, OneByOne, [Next]_vars, "overlap" \notin Env.calls
    PROVE  (Cardinality(Due) <= Cardinality(Open))'
<1>1. /\ IsFiniteSet(Due) /\ IsFiniteSet(Open)
      /\ IsFiniteSet(Due') /\ IsFiniteSet(Open')
  <2>1. /\ Due \subseteq Links /\ Open \subseteq Links
        /\ Due' \subseteq Links /\ Open' \subseteq Links
    BY DEF Due, Open
  <2> QED
    BY <2>1, FS_Subset, PaymentAssumption
<1>2. Cardinality(Due) <= Cardinality(Open)
  BY DEF OneByOne
<1>3. /\ Cardinality(Due) \in Nat /\ Cardinality(Open) \in Nat
      /\ Cardinality(Due') \in Nat /\ Cardinality(Open') \in Nat
  BY <1>1, FS_CardinalityType
<1>4. ASSUME Due' \subseteq Due, Open \subseteq Open'
      PROVE  Cardinality(Due') <= Cardinality(Open')
  BY <1>1, <1>2, <1>3, <1>4, FS_Subset
<1>5. ASSUME NEW p \in Links, p \notin Open, p \in Open',
             Due' \subseteq Due \cup {p}, Open \subseteq Open'
      PROVE  Cardinality(Due') <= Cardinality(Open')
  <2>1. /\ IsFiniteSet(Due \cup {p}) /\ Cardinality(Due \cup {p}) <= Cardinality(Due) + 1
    BY <1>1, OneMore
  <2>2. Cardinality(Due') <= Cardinality(Due \cup {p})
    BY <1>5, <2>1, FS_Subset
  <2>3. /\ IsFiniteSet(Open \cup {p}) /\ Cardinality(Open \cup {p}) = Cardinality(Open) + 1
    BY <1>1, <1>5, FS_AddElement
  <2>4. Cardinality(Open \cup {p}) <= Cardinality(Open')
    BY <1>1, <1>5, FS_Subset
  <2>5. Cardinality(Due \cup {p}) \in Nat
    BY <2>1, FS_CardinalityType
  <2> QED
    BY <1>2, <1>3, <2>1, <2>2, <2>3, <2>4, <2>5
<1>6. ASSUME NEW s \in Slots, NEW q \in Links, HookSave(s), ~Retry(run[s].p),
             run[s].p \in Due \ Due', run[s].rows = {q},
             Due' \subseteq Due, Open \subseteq Open' \cup {q}
      PROVE  Cardinality(Due') <= Cardinality(Open')
  <2>1. run[s].at = "hook.save"
    BY <1>6 DEF HookSave, At
  <2>2. q \in Open
    BY <1>6, <2>1 DEF OneByOne
  <2>3. /\ IsFiniteSet(Due \ {run[s].p})
        /\ Cardinality(Due \ {run[s].p}) = Cardinality(Due) - 1
    <3>1. run[s].p \in Due
      BY <1>6
    <3> QED
      BY <1>1, <3>1, FS_RemoveElement
  <2>4. /\ IsFiniteSet(Open \ {q}) /\ Cardinality(Open \ {q}) = Cardinality(Open) - 1
    BY <1>1, <2>2, FS_RemoveElement
  <2>5. Cardinality(Due') <= Cardinality(Due \ {run[s].p})
    <3>1. Due' \subseteq Due \ {run[s].p}
      BY <1>6
    <3> QED
      BY <2>3, <3>1, FS_Subset
  <2>6. Cardinality(Open \ {q}) <= Cardinality(Open')
    <3>1. Open \ {q} \subseteq Open'
      BY <1>6
    <3> QED
      BY <1>1, <3>1, FS_Subset
  <2> QED
    BY <1>2, <1>3, <2>3, <2>4, <2>5, <2>6
<1> QED
  BY <1>4, <1>5, <1>6, DueMoves

LEMMA OneByOneStep ==
    ASSUME TInv, OneByOne, [Next]_vars PROVE OneByOne'
<1>a. world'.env = world.env /\ \A p : Retry(p)' <=> Retry(p)
  BY RowMoves, SameKind
<1>b. TypeOK /\ RunsWork
  BY DEF TInv
<1> SUFFICES ASSUME "overlap" \notin Env.calls
             PROVE  OneByOne'
  BY <1>a DEF OneByOne, Env
<1>c. /\ \A s, z \in Slots : run[s].at \in Hooking /\ run[z].at \in Hooking => s = z
      /\ \A s \in Slots : run[s].at = "hook.save" /\ ~Retry(run[s].p) =>
            run[s].rows \subseteq Open
  BY DEF OneByOne
<1> DEFINE Alone ==
      /\ \A s, z \in Slots : run'[s].at \in Hooking /\ run'[z].at \in Hooking => s = z
      /\ \A s \in Slots : run'[s].at = "hook.save" /\ ~Retry(run'[s].p) =>
            run'[s].rows \subseteq Open'
<1>d. ASSUME \A s \in Slots : run'[s].at \in Hooking => run'[s] = run[s],
             Open \subseteq Open'
      PROVE  Alone
  BY <1>c, <1>d DEF Hooking
<1>e. Links \subseteq Payments
  BY DEF Payments
<1>1. ASSUME NEW s \in Slots, RefundStep(s) PROVE Alone
  <2>1. \A z \in Slots : run'[z].at \in Hooking => run'[z] = run[z]
    BY <1>1, RefundTypes DEF Refunding, Hooking
  <2> QED
    BY <1>1, <1>a, <1>d, <2>1, RefundTypes DEF Open, Pending
<1>2. ASSUME NEW s \in Slots, NEW p \in Links, LinkAsk(s, p) PROVE Alone
  BY <1>2, <1>a, <1>d, LinkAskType DEF Hooking, Open, Pending
<1>3. ASSUME NEW s \in Slots, LinkRow(s) PROVE Alone
  <2>1. \A z \in Slots : run'[z].at \in Hooking => run'[z] = run[z]
    BY <1>3, LinkRowType DEF Hooking
  <2>2. Open \subseteq Open'
    BY <1>3, <1>a, <1>e, LinkRowType DEF Open, Pending
  <2> QED
    BY <1>d, <2>1, <2>2
<1>4. ASSUME NEW s \in Slots, LinkMail(s) \/ LinkMailFails(s) PROVE Alone
  BY <1>4, <1>a, <1>d, LinkMailType DEF Hooking, Open, Pending
<1>5. ASSUME NEW s \in Slots, NEW p \in Links, Hook(s, p) PROVE Alone
  <2>1. \A z \in Slots : run[z].at \notin Hooking
    BY <1>5 DEF Hook, Hooking
  <2> QED
    BY <1>5, <2>1, HookType DEF Hooking
<1>6. ASSUME NEW s \in Slots, HookFind(s) PROVE Alone
  <2>1. /\ run[s].at = "hook" /\ UNCHANGED row
        /\ \A z \in Slots \ {s} : run'[z] = run[z]
    BY <1>6, HookFindType
  <2>2. \A z \in Slots \ {s} : run'[z].at \notin Hooking
    BY <1>c, <2>1 DEF Hooking
  <2>3. run'[s].at = "hook.save" /\ ~Retry(run'[s].p) => run'[s].rows \subseteq Open'
    <3>1. SUFFICES ASSUME run'[s].at = "hook.save", ~Retry(run'[s].p)
                   PROVE  run'[s].rows \subseteq Open'
      OBVIOUS
    <3>2. PICK q \in Found(run[s].p) : run'[s].rows = {q} /\ run'[s].p = run[s].p
      BY <1>6, <3>1, HookFindType
    <3>3. q \in Open
      BY <3>1, <3>2 DEF Found, Open
    <3> QED
      BY <1>a, <2>1, <3>2, <3>3 DEF Open, Pending
  <2> QED
    BY <2>2, <2>3 DEF Hooking
<1>7. ASSUME NEW s \in Slots, HookSave(s) PROVE Alone
  <2>1. \A z \in Slots : run'[z].at \notin Hooking
    BY <1>7, <1>c, HookSaveType DEF Hooking
  <2> QED
    BY <2>1 DEF Hooking
<1>8. ASSUME NEW s \in Slots, HookFails(s) PROVE Alone
  BY <1>8, <1>a, <1>d, HookFailsType DEF Hooking, Open, Pending
<1>9. ASSUME NEW p \in Links, Pay(p) PROVE Alone
  BY <1>9, <1>a, <1>d, PayType DEF Open, Pending
<1>10. ASSUME Sweep PROVE Alone
  BY <1>10, <1>a, <1>d, <1>e, SweepType DEF Open, Pending
<1>11. ASSUME Clock PROVE Alone
  BY <1>11, <1>a, <1>d, ClockType DEF Open, Pending
<1>12. ASSUME Crash PROVE Alone
  BY <1>12, CrashType DEF Hooking
<1>13. ASSUME UNCHANGED vars PROVE Alone
  BY <1>13, <1>a, <1>d DEF Open, Pending, vars, moneyVars
<1> HIDE DEF Alone
<1>14. Alone
  BY <1>1, <1>2, <1>3, <1>4, <1>5, <1>6, <1>7, <1>8, <1>9, <1>10, <1>11, <1>12,
     <1>13 DEF Next, RunStep, RefundStep
<1>15. (Cardinality(Due) <= Cardinality(Open))'
  BY DueIsOpen
<1> QED
  BY <1>14, <1>15, <1>a DEF Alone, OneByOne

LEMMA DoneStep ==
    ASSUME BooksInv, [Next]_vars PROVE DoneIsCompleted'
<1>a. world'.env = world.env /\ \A p : Retry(p)' <=> Retry(p)
  BY RowMoves, SameKind DEF BooksInv
<1>b. TInv /\ TypeOK /\ RunsWork /\ OneByOne
  BY DEF BooksInv, TInv
<1> SUFFICES ASSUME "overlap" \notin Env.calls, NEW p \in Links, link'[p] = "done"
             PROVE  Completed(p)'
  BY <1>a DEF DoneIsCompleted, Env
<1>1. ASSUME link[p] = "done" PROVE Completed(p)'
  <2>1. PICK q \in Links : /\ row[q].st = "completed" /\ row[q].of = p
                           /\ Retry(p) => q = p
                           /\ ~Retry(p) => ~Retry(q)
    BY <1>1 DEF BooksInv, DoneIsCompleted, Completed
  <2>2. q \in Payments
    BY DEF Payments
  <2>3. row'[q].st = "completed"
    BY <1>b, <2>1, <2>2, RowMoves
  <2>4. row'[q].of = p
    <3>1. CASE row'[q].of = row[q].of
      BY <2>1, <3>1
    <3>2. ASSUME NEW s \in Slots, HookSave(s), q \in run[s].rows,
                 row'[q].of = run[s].p
          PROVE  row'[q].of = p
      <4>1. run[s].at = "hook.save"
        BY <3>2 DEF HookSave, At
      <4>2. CASE Retry(run[s].p)
        BY <1>b, <2>1, <3>2, <4>1, <4>2 DEF RunsWork
      <4>3. CASE ~Retry(run[s].p)
        <5>1. q \in Open
          BY <1>b, <3>2, <4>1, <4>3 DEF OneByOne
        <5> QED
          BY <2>1, <5>1 DEF Open, Pending
      <4> QED
        BY <4>2, <4>3
    <3> QED
      BY <1>b, <2>2, <3>1, <3>2, RowMoves
  <2> QED
    BY <1>a, <2>1, <2>3, <2>4 DEF Completed
<1>2. ASSUME NEW s \in Slots, HookSave(s), link[p] # "done" PROVE Completed(p)'
  <2>1. /\ run[s].p \in Links /\ run[s].at = "hook.save"
        /\ link' = [link EXCEPT ![run[s].p] = "done"]
        /\ \A q \in run[s].rows : row'[q].st = "completed" /\ row'[q].of = run[s].p
    BY <1>b, <1>2, HookSaveType
  <2>2. p = run[s].p
    BY <1>b, <1>2, <2>1 DEF TypeOK
  <2>3. PICK q \in Links : /\ run[s].rows = {q}
                           /\ Retry(run[s].p) => q = run[s].p
                           /\ ~Retry(run[s].p) => ~Retry(q)
    BY <1>b, <2>1 DEF RunsWork
  <2> QED
    BY <1>a, <2>1, <2>2, <2>3 DEF Completed
<1>3. ASSUME NEW s \in Slots, HookFind(s), link[p] # "done" PROVE FALSE
  <2>1. /\ run[s].at = "hook" /\ run[s].p \in Links
        /\ Found(run[s].p) = {} /\ link' = [link EXCEPT ![run[s].p] = "done"]
    BY <1>b, <1>3, HookFindType
  <2>2. ~Retry(run[s].p) /\ Open = {}
    BY <2>1 DEF Found, Open
  <2>3. run[s].p \in Due
    BY <1>b, <2>1, <2>2 DEF Due, RunsWork, Hooking
  <2>4. Cardinality(Due) <= Cardinality(Open)
    BY <1>b DEF OneByOne
  <2>5. IsFiniteSet(Due) /\ Cardinality(Open) = 0
    <3>1. Due \subseteq Links
      BY DEF Due
    <3> QED
      BY <2>2, <3>1, FS_Subset, FS_EmptySet, PaymentAssumption
  <2>6. Cardinality(Due) # 0 /\ Cardinality(Due) \in Nat
    BY <2>3, <2>5, FS_EmptySet, FS_CardinalityType
  <2> QED
    BY <2>4, <2>5, <2>6
<1>4. ASSUME ~\E s \in Slots : HookSave(s) \/ HookFind(s) PROVE link[p] = "done"
  <2>1. ASSUME NEW s \in Slots, RefundStep(s) PROVE link[p] = "done"
    BY <1>b, <2>1, RefundTypes
  <2>2. ASSUME NEW s \in Slots, NEW q \in Links, LinkAsk(s, q) PROVE link[p] = "done"
    BY <1>b, <2>2, LinkAskType DEF TypeOK
  <2>3. ASSUME NEW s \in Slots, LinkRow(s) PROVE link[p] = "done"
    BY <1>b, <2>3, LinkRowType
  <2>4. ASSUME NEW s \in Slots, LinkMail(s) \/ LinkMailFails(s)
        PROVE  link[p] = "done"
    BY <1>b, <2>4, LinkMailType DEF TypeOK
  <2>5. ASSUME NEW s \in Slots, NEW q \in Links, Hook(s, q) PROVE link[p] = "done"
    BY <1>b, <2>5, HookType DEF TypeOK
  <2>6. ASSUME NEW s \in Slots, HookFails(s) PROVE link[p] = "done"
    BY <1>b, <2>6, HookFailsType DEF TypeOK
  <2>7. ASSUME NEW q \in Links, Pay(q) PROVE link[p] = "done"
    BY <1>b, <2>7, PayType DEF TypeOK
  <2>8. ASSUME Sweep \/ Clock \/ Crash \/ UNCHANGED vars PROVE link[p] = "done"
    BY <1>b, <2>8, SweepType, ClockType, CrashType DEF vars, moneyVars
  <2> QED
    BY <1>4, <2>1, <2>2, <2>3, <2>4, <2>5, <2>6, <2>7, <2>8
       DEF Next, RunStep, RefundStep
<1> QED
  BY <1>1, <1>2, <1>3, <1>4

LEMMA BooksInvInit == Init => BooksInv
<1> SUFFICES ASSUME Init PROVE BooksInv
  OBVIOUS
<1>1. TInv
  BY TInvInit
<1>2. /\ \A p \in Links : link[p] = "none"
      /\ \A s \in Slots : run[s].at = "idle"
  BY DEF Init, Idle
<1>3. Due = {} /\ IsFiniteSet(Open)
  <2>1. Open \subseteq Links
    BY DEF Open
  <2> QED
    BY <1>2, <2>1, FS_Subset, PaymentAssumption DEF Due
<1>4. Cardinality(Due) = 0 /\ Cardinality(Open) \in Nat
  BY <1>3, FS_EmptySet, FS_CardinalityType
<1>5. OneByOne
  BY <1>2, <1>4 DEF OneByOne, Hooking
<1>6. DoneIsCompleted
  BY <1>2 DEF DoneIsCompleted
<1> QED
  BY <1>1, <1>5, <1>6 DEF BooksInv

(* Whatever is paid is booked, on the record of the link itself where it   *)
(* pays a session again, even if the sweep or a failing save came between, *)
(* as long as the events of like payments are handled one by one.          *)
THEOREM PaymentsAreBooked == Spec => []PaidIsBooked
<1>1. BooksInv /\ [Next]_vars => BooksInv'
  BY TInvStep, OneByOneStep, DoneStep DEF BooksInv
<1>2. BooksInv => PaidIsBooked
  BY DEF BooksInv, DoneIsCompleted, Completed, PaidIsBooked
<1> QED
  BY <1>1, <1>2, BooksInvInit, PTL DEF Spec

=============================================================================
