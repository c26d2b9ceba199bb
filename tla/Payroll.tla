------------------------------ MODULE Payroll ------------------------------
(***************************************************************************)
(* The cheques by which an expert is paid for the charges of a month       *)
(* (payroll.controller.ts, utils/expertPayroll.ts,                         *)
(* utils/paymentSummary.ts), beside the handlers that complete the charges *)
(* and give money back.  All charges are those of one expert: every query  *)
(* is by expert, or its rows are grouped by expert.                        *)
(***************************************************************************)
EXTENDS Pricing, Sequences, FiniteSets

LOCAL INSTANCE FiniteSetsExt

CONSTANTS
    Bookings,    \* what the expert is booked for, each with its own intent
    Clerks,      \* requests of admins that can be in flight together
    Books        \* what the bookings are, and what may happen to them

Kinds == {"seminar", "individual"}

(* The bookings made, their advertised prices and kinds, how their charges *)
(* begin, the rules in force when students cancel, the sums admins give    *)
(* back, the numbers cheques are corrected to, whether the admins leave a  *)
(* month alone until it has settled; and bounds on the calendar (months)   *)
(* and the requests for cheques (asks).                                    *)
ASSUME BooksAssumption ==
    /\ IsFiniteSet(Bookings)
    /\ \A e \in Books :
          /\ e.booked \subseteq Bookings
          /\ e.advertised \in [Bookings -> Nat]
          /\ e.kind \in [Bookings -> Kinds]
          /\ e.begins \subseteq {"pending", "completed"}
          /\ e.rules \subseteq CancellationRules
          /\ e.sums \subseteq Nat \ {0}
          /\ e.numbers \subseteq Nat /\ e.patient \in BOOLEAN
          /\ {e.months, e.asks} \subseteq Nat

VARIABLES
    books,      \* the member of Books
    month,      \* the current UTC month
    entry,      \* entry[b]: the charge row of b and its refund rows
    leaving,    \* cancelled and refunded, the charge row not marked yet
    cheques,    \* PayrollCheque rows
    clerk,      \* clerk[c]: a request in flight
    asked       \* requests so far

ledgerVars == <<entry, leaving>>
chequeVars == <<cheques, clerk, asked>>
payrollVars == <<books, month, ledgerVars, chequeVars>>

Price(b) == ChargeCents(books.advertised[b])
Net(b) == ExpertNet(books.advertised[b])

(* A charge row, the month of its createdAt, and the amounts of the refund *)
(* rows with its intent.                                                   *)
NoEntry == [st |-> "none", m |-> 0, back |-> <<>>]

Booked == {b \in Bookings : entry[b].st # "none"}

Sum(f, S) == MapThenSumSet(LAMBDA x : f[x], S)
Back(b) == Sum(entry[b].back, DOMAIN entry[b].back)

-----------------------------------------------------------------------------
(* The ledger, as the handlers of bookings and refunds write it. *)

Book(b) ==
    /\ b \in books.booked /\ entry[b].st = "none"
    /\ \E st \in books.begins :
          entry' = [entry EXCEPT ![b] = [st |-> st, m |-> month, back |-> <<>>]]
    /\ UNCHANGED leaving

(* A pending charge is captured, or its hold let go; or its money is given *)
(* back without a refund row, when the booking failed after the capture.   *)
Settle(b) ==
    /\ entry[b].st = "pending"
    /\ \E st \in {"completed", "failed", "refunded"} :
          entry' = [entry EXCEPT ![b].st = st]
    /\ UNCHANGED leaving

(* The student cancels.  Nothing more is given back when a refund row is   *)
(* there.                                                                  *)
CancelAndRefund(b) ==
    /\ entry[b].st = "completed" /\ entry[b].back = <<>>
    /\ \E rule \in books.rules :
          LET cents == CancellationRefund(rule, books.advertised[b]) IN
          /\ cents > 0
          /\ entry' = [entry EXCEPT ![b].back = Append(@, cents)]
    /\ leaving' = leaving \cup {b}

CancelMark(b) ==
    /\ b \in leaving
    /\ entry' = [entry EXCEPT ![b].st = "refunded"]
    /\ leaving' = leaving \ {b}

(* processRefund: the charge keeps its status.  Stripe has nothing left to *)
(* give of a charge that was refunded without a row.                       *)
AdminRefund(b, cents) ==
    /\ entry[b].st \in {"completed", "refunded"}
    /\ entry[b].st = "refunded" => entry[b].back # <<>>
    /\ Back(b) + cents <= Price(b)
    /\ entry' = [entry EXCEPT ![b].back = Append(@, cents)]
    /\ UNCHANGED leaving

-----------------------------------------------------------------------------
(* The net of a month, from statuses st of the charge rows. *)

(* Rows of the month: charges made in it that are completed or refunded,   *)
(* and every refund row with the intent of one of them.                    *)
MonthRows(st, m) ==
    {b \in Bookings : entry[b].m = m /\ st[b] \in {"completed", "refunded"}}

(* refundExpertNetCents, for one amount given back. *)
ShareOf(b, cents) ==
    IF cents >= Price(b) THEN Net(b) ELSE Rounded(Net(b) * cents, Price(b))

SharesBack(b) ==
    Sum([i \in DOMAIN entry[b].back |-> ShareOf(b, entry[b].back[i])],
        DOMAIN entry[b].back)

(* Where a refund row is counted: refundsInChargeBucket gives it the       *)
(* classification of its charge.                                           *)
MutRefundKind(b) == "individual"
RefundKind(b) == books.kind[b]

(* netBucket: refunded charges count against refund rows, not as income. *)
NetBucket(st, m, k) ==
    LET rows == MonthRows(st, m)
        charges(s) == {b \in rows : books.kind[b] = k /\ st[b] = s}
        nets == [b \in Bookings |-> Net(b)]
        refunds == Sum([b \in Bookings |-> SharesBack(b)],
                       {b \in rows : RefundKind(b) = k})
        excess == refunds - Sum(nets, charges("refunded"))
    IN  Sum(nets, charges("completed")) - IF excess > 0 THEN excess ELSE 0

LiveNet(st, m) == NetBucket(st, m, "seminar") + NetBucket(st, m, "individual")

Statuses == [b \in Bookings |-> entry[b].st]

-----------------------------------------------------------------------------
(* recordPayrollCheque, updatePayrollCheque *)

NoRequest == [at |-> "idle", m |-> 0, seen |-> [b \in Bookings |-> "none"],
              cents |-> 0]

Answer(c) == clerk' = [clerk EXCEPT ![c] = NoRequest]

HasCheque(m) == \E q \in cheques : q.m = m

Settled(m) == m < month /\ \A b \in Bookings :
                              entry[b].m = m => entry[b].st # "pending"

(* The charges of the month are read; the refund rows of their intents are *)
(* read after them, and decide what the amount is.                         *)
ChequeAsk(c, m) ==
    /\ clerk[c].at = "idle" /\ asked < books.asks
    /\ books.patient => Settled(m)
    /\ asked' = asked + 1
    /\ clerk' = [clerk EXCEPT ![c] = [NoRequest EXCEPT
                    !.at = "refunds", !.m = m, !.seen = Statuses]]
    /\ UNCHANGED cheques

ChequeNet(c) ==
    /\ clerk[c].at = "refunds"
    /\ LET net == LiveNet(clerk[c].seen, clerk[c].m) IN
       IF net > 0
       THEN clerk' = [clerk EXCEPT ![c] = [NoRequest EXCEPT
                         !.at = "exists", !.m = clerk[c].m, !.cents = net]]
       ELSE Answer(c)
    /\ UNCHANGED <<cheques, asked>>

ChequeExists(c) ==
    /\ clerk[c].at = "exists"
    /\ IF HasCheque(clerk[c].m) THEN Answer(c)
       ELSE clerk' = [clerk EXCEPT ![c].at = "create"]
    /\ UNCHANGED <<cheques, asked>>

(* The insert; expert, year and month are a unique index. *)
ChequeRow(c) == [m |-> clerk[c].m, cents |-> clerk[c].cents, no |-> 0, by |-> c]
MutChequeCreate(c) ==
    /\ clerk[c].at = "create"
    /\ cheques' = cheques \cup {ChequeRow(c)}
    /\ Answer(c)
    /\ UNCHANGED asked
ChequeCreate(c) ==
    /\ clerk[c].at = "create"
    /\ cheques' = IF HasCheque(clerk[c].m) THEN cheques ELSE cheques \cup {ChequeRow(c)}
    /\ Answer(c)
    /\ UNCHANGED asked

(* The number and the date of a cheque can be corrected, nothing else. *)
ChequeUpdate(q, no) ==
    /\ cheques' = (cheques \ {q}) \cup {[q EXCEPT !.no = no]}
    /\ UNCHANGED <<clerk, asked>>

-----------------------------------------------------------------------------
MonthEnds == month < books.months /\ month' = month + 1

PayrollCrash ==
    /\ leaving # {} \/ \E c \in Clerks : clerk[c].at # "idle"
    /\ leaving' = {}
    /\ clerk' = [c \in Clerks |-> NoRequest]
    /\ UNCHANGED <<books, month, entry, cheques, asked>>

PayrollInit ==
    /\ books \in Books
    /\ month = 1
    /\ entry = [b \in Bookings |-> NoEntry]
    /\ leaving = {}
    /\ cheques = {}
    /\ clerk = [c \in Clerks |-> NoRequest]
    /\ asked = 0

LedgerStep(b) ==
    Book(b) \/ Settle(b) \/ CancelAndRefund(b) \/ CancelMark(b)
              \/ \E cents \in books.sums : AdminRefund(b, cents)

ChequeStep(c) ==
    \/ \E m \in 1..month : ChequeAsk(c, m)
    \/ ChequeNet(c) \/ ChequeExists(c) \/ ChequeCreate(c)

PayrollNext ==
    \/ /\ \E b \in Bookings : LedgerStep(b)
       /\ UNCHANGED <<books, month, chequeVars>>
    \/ /\ \/ \E c \in Clerks : ChequeStep(c)
          \/ \E q \in cheques, no \in books.numbers : ChequeUpdate(q, no)
       /\ UNCHANGED <<books, month, ledgerVars>>
    \/ MonthEnds /\ UNCHANGED <<books, ledgerVars, chequeVars>>
    \/ PayrollCrash

-----------------------------------------------------------------------------
(* What the expert is due of a charge: the share of what it still holds. *)
Due(b) == Rounded(Net(b) * (Price(b) - Back(b)), Price(b))

(* The net of a month pays the share of all that its completed charges     *)
(* still hold, whatever was given back of which, but for a cent a refund:  *)
(* no less; and more only by what charges marked refunded count against    *)
(* the refunds of other charges.                                           *)
LiveNetIsDue ==
    \A m \in {entry[b].m : b \in Booked} :
        LET rows == MonthRows(Statuses, m)
            due(s) == Sum([b \in Bookings |-> Due(b)],
                          {b \in rows : entry[b].st = s})
            cents == Sum([b \in Bookings |-> Len(entry[b].back)], rows)
            net == LiveNet(Statuses, m)
        IN  /\ due("completed") - cents <= net
            /\ net <= due("completed") + due("refunded") + cents

(* However many admins record cheques at once, and whatever is refunded    *)
(* meanwhile: no charge is paid twice; and none is forgotten, where admins *)
(* leave a month alone until it is over and its charges have settled.      *)
ChequesPay ==
    /\ cheques # {} =>
          Sum([q \in cheques |-> q.cents], cheques) <=
          Sum([b \in Bookings |-> Net(b)],
              {b \in Bookings : entry[b].st \in {"completed", "refunded"}})
    /\ books.patient => \A q \in cheques : LiveNet(Statuses, q.m) <= q.cents
=============================================================================
