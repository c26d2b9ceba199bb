# WisdomLinked in TLA+

WisdomLinked connects students with experts: paid one-to-one sessions, group
seminars with a limited number of seats, chat and video meetings. This
directory models the part of the backend (`src/BE`) where a mistake costs
somebody money, a seat, a session or a meeting: who gets a seat, when a card is
charged and when the charge is written to the books, how failures are made
good, what the admins refund and pay out, who is reminded and told, and when a
meeting ends. The modules are translated from the code; `PROJECT.json` names
for every definition the lines it stands for.

Short names below: GC is `src/BE/controllers/groupChat.controller.ts`, SC is
`src/BE/controllers/stripe.controller.ts`.

## 1. Inventory of the system

| Part | State it keeps | Operations | What is hard | What makes it correct |
|---|---|---|---|---|
| Seminar seats and waitlist (GC 1815-2181, 3318-3472, 4086-4371, 4705-4790, 5970-6031) | `GroupChat` (participants, maxAttendees, status), `SeminarSeatRequest` rows | join the waitlist, offer the next seat, invite, change the capacity, delete, expire an offer | offers and claims interleave; the number of offers is counted before the claim; the rows are protected by unique partial indexes only | no oversold seminar, offers in order, no seat left free, offers end |
| Seminar registration and payment (GC 2331-2702, 3774-4020; SC 55-271, 360-481) | the above, `PaymentHistory` charge and refund rows, payment intents at Stripe | checkout, register (claim, record, capture, confirm), pay for an offer | four systems are written one after the other with an `await` between each; any of the writes can fail | a hold is captured only when it is booked; nobody is enrolled without a payment; nobody pays for nothing |
| Reconciliation (GC 2206-2243, 4866-5348, 6356-6448; `utils/pendingPayment.ts`, `utils/paymentIntegrity.ts`) | the same | a student leaves; payment webhooks; the sweep over pending rows; the sweep over intents nobody booked | runs concurrently with the handlers it repairs, decides on stale answers | the books agree with Stripe; holds and money settle |
| Stripe webhook delivery (SC 797-1031) | `StripeWebhookEvent` rows with a unique `eventId` | claim, process, release, answer | at-least-once delivery, concurrent duplicates, failures and restarts between the steps | side effects run once; a retry is not lost |
| 1:1 sessions (GC 687-1107, 3176-3309, 4580-4703, 4792-4864, 5350-5754, 6070-6354) | `GroupChat` of type individual, withheld and pending charges | request, propose, accept, pay, decline, cancel, sweeps of holds and offers | the hold is parked until the expert decides; decision, payment, expiry and cancellation race | a session is open, then confirmed, then over, and never back; confirmed means paid |
| Admin refunds, retry payment links (SC 658-795, 848-1284, GC 2796-2924) | charge, retry and refund rows | refund, send a link, settle the link's checkout, sweep lapsed links | two admins at once; link expiry against payment; lost answers | refunds booked are refunds made; the seat goes with the money; what is paid is booked |
| Prices, fees, payroll (`utils/bookingPrice.ts`, `utils/paymentSummary.ts`, `utils/expertPayroll.ts`, `controllers/payroll.controller.ts`) | cheques | arithmetic on cents; record and correct a cheque | rounding; rows of one month summed before they are set against each other; the net is read before the cheque is written | the net is the expert's share of what is held; no charge is paid out twice |
| Session reminders, unread-message mails (`services/*Sweep.ts`) | marks on sessions and users | periodic sweeps | overlapping ticks, restarts, decisions on what was read before Rocket.Chat answered | at most one mail per mark, and one in time |
| Meetings (`controllers/meeting.controller.ts`, `src/jitsi/server-scripts`, `src/FE` messenger) | `MeetingThread` documents, the tabs of the people in the room | start, join, heartbeat, look, end, invite, promote, demote, remove | documents saved whole after an `await`; silence of a tab may mean anything | abandoned meetings end, others are not cut off, nobody's join or role is lost |
| Seminar series (GC 1119-1150, 1874-1909, `utils/recurrence.ts`) | several `GroupChat` with a `seriesId` | claim all future dates, roll back, enrol | a claim over many documents without a transaction | all dates or none |
| Accounts, chat bridge, communities, events, terms, search and help, administration, mail | documents of their own | mostly single-document updates or calls to an external server | little shared state | - |
| React client (`src/FE`), image functions, operations | - | callers and configuration | a client may call twice, late or never | - |

How the parts interact. The browser calls the REST handlers; each handler is an
`async` function, so other handlers run whenever it awaits MongoDB or Stripe.
`createStripePaymentIntent` makes a payment intent whose metadata names the
student and what is paid for; the browser completes it at Stripe and then calls
the handler that books it. Stripe calls `handleStripeWebhook` about the same
intents. The sweeps of `src/BE/server.ts:154-171` run every few minutes. One
backend container runs per environment (`server.ts:173`), so concurrency comes
from `await`, not from processes, and a restart ends every run at once. Nothing
uses a MongoDB transaction: documents are protected by conditional updates and
unique indexes.

## 2. Modules

| Modules | Model |
|---|---|
| `SeatStore`, `SeatWaitlist`, `SeatRegistration`, `SeatReconciliation`, `SeminarSeats` | seminars: what the handlers share; the offer loop, invitations, capacity; checkout, registration and offers paid; leaving, webhook events and sweeps; all of it together |
| `SessionStore`, `SessionBooking`, `SessionEnding`, `ExpertSessions` | 1:1 sessions: what the handlers share; checkout, request, proposal and acceptance; cancellation, expiry, webhook events and sweeps; all of it together |
| `SessionLife` | the abstract session its two people see; `ExpertSessions` implements it (`LivesOnce`) |
| `WebhookDelivery` | the claim protocol of `handleStripeWebhook` |
| `AdminPayments` | refunds and retry links of the admins, with the student who pays, Stripe's events and the sweep |
| `Pricing`, `Payroll` | prices, fees and refunds in cents; the ledger of one expert and the cheques recorded from it |
| `AdminDesk` | `AdminPayments` beside `Payroll`, in environments of their own |
| `SweepTimer`, `SessionReminders`, `UnreadMails`, `MailSweeps` | the common clock, the two mail sweeps, both together |
| `MeetingStore`, `MeetingRoles`, `MeetingRoom`, `Meetings` | meeting documents and tabs; promote, demote, remove; what tabs and messengers do; the handlers, all together |
| `MC*` | the instances TLC checks: environments, symmetry, windows |
| `*Proofs` | the theorems: `SeminarSeatsProofs`, `SeatCapProofs`, `ExpertSessionsProofs`, `SessionBooksProofs`, `WebhookDeliveryProofs`, `AdminPaymentsProofs`, `MailSweepsProofs`, `MeetingsProofs` |

### What all the models have in common

*A run.* `call[s]` (or `run[s]`) is one run of a handler in slot `s`: a label
and the locals it carries across awaits. **Every await on the database, on
Stripe or on Rocket.Chat ends a step**, so what a run read earlier is stale when
it is used, exactly as in the code. Between two awaits a step does everything
the code does. Labels name the handler and the await they stand at
(`register.capture`, `accept.insert`, `hold.claim`, ...); the action that leaves
`register.capture` is `RegisterCapture`, its failures `RegisterCaptureFails` and
`RegisterCaptureLost` (done, but the answer is lost).

*Documents.* A conditional update tests and changes a document in one step,
because the code does so in one `findOneAndUpdate`; a document that is read,
changed and saved takes two steps. A unique index is a guard that makes the
write throw.

*Environments.* An environment (a record in an `MC` module) says what may
happen: prices, which handlers are called, how a checkout leaves an intent,
which faults occur, and bounds on calls and faults. It is chosen once in `Init`,
so one run of TLC explores several. The theorems hold for every set of
environments.

*Bounds, all named.* `Slots` runs at once; `maxCalls` and `maxFaults` per
environment; `MaxRequests` seat request rows; `Horizon` or `until` on a clock;
a second refund row is the last one counted. Integers do not overflow here:
amounts are cents well inside a double's 53 bits.

### Seminars

`seminar` is the `GroupChat`; `requests` are the `SeminarSeatRequest` rows in
order of creation, `Indexed` their unique partial index. `ledger[i]` is the
charge row of intent `i` (unique by index) and its refund rows. `stripe[i]` is
the intent: `hold` is `requires_capture`, `processing` a wallet payment still
clearing. The payment window of an offer lapses at any moment (`WindowLapses`),
and at the latest when the seminar starts. The sweeps look at rows and intents
an hour old; `HourPasses` lets the hour pass for an intent at which a run is
working only if the student submitted late, and only where the run has not just
written the row (registration refreshes its `updatedAt`).

Abstracted: one seminar, not part of a series; amounts match, so the mismatch
branches of `resolveBookingPayment` are not taken; leaving refunds the whole
charge; the loop's limit of 25 turns and 20 rows and the sweeps' limit of 200
rows are not reached; the orphan sweep's listing and its "recorded" check are
one step; the sweep inside `getSeminarSeatRequests` is the independent
`SweepOffer`. Mails, chat synchronisation and the user's own list of groups are
left out; where they can throw and thereby change control
(`enrollAndConfirmSeminar`), the fault `enroll` stands for it.

### 1:1 sessions

`session[g]` is the `GroupChat`: its status, who began it, how the student said
they would pay, and its two deadlines (`decide`, `payBy`), which lapse at any
moment. A student's request by card parks its hold: the charge row is
`withheld` and names the session. `acceptIndividualAppointment` activates the
session *before* it takes the money, and puts it back if that fails; so a
session that is `active` with a run still confirming it is not yet confirmed to
its people, and one that is `cancelled` by a run that may put it back is not yet
over. `Life(g)` says so, and is the refinement mapping to `SessionLife`.

### Stripe webhooks

A worker is one run of `handleStripeWebhook`. `ClaimEvent`, `IgnoreDuplicate`
and `ClaimError` are the three outcomes of `StripeWebhookEvent.create`; `Apply`,
`RejectAmount` and `ProcessingFails` those of the event's side effects;
`ReleaseClaim` and `ReleaseFails` the `deleteOne(...).catch` of the two error
paths. Stripe repeats a delivery at will, also of an event already answered.
What one event does is detailed in `SeatReconciliation`, `SessionEnding` and
`AdminPayments`.

### Admin payments and payroll

`AdminPayments` has one booking, its charge, and links to pay again (`retry`) or
to pay something else (`adhoc`); money is counted in units a refund can be made
in. `Payroll` has the charges of one expert in cents as `Pricing` computes
them, with the refund rows cancellations and admins write and the cheques. The
two share no rows; `AdminDesk` puts them side by side so that one run covers
both, and `Desks` says which environments meet: either one moves or the other.

### Mail sweeps

One unit of time is short against every window and long against one tick.
`SweepTimer` lets time pass only when no sweep is overdue, so a sweep ticks every
`Interval`, and what the code promises "in time" becomes a state invariant on
the clock. A tick reads, then claims each mail on the document as it is by then;
`slow` ticks and restarts make ticks overlap. The code tells a visit from a tick
by milliseconds; here no message and no visit falls on the very unit a tick
begins, but both fall between any two of its steps.

### Meetings

`meeting[m]` is the `MeetingThread`, `tab[u]` the Jitsi tab of a person, with
`count`, its `remoteJoinCount`, `pending[u]` what the messenger remembers to ask
for after a reload. A request reads the document (`run[s].doc`) and saves what
it changed later. `count` follows the events the script hears (`Heard`,
`Missed`), not the people in the room: a script that looks for the conference
every 1.5 seconds may find it joined (`EnterUnhooked`), then starts from zero
(`Hook`) and never counts those who were there; `blind` names the meetings in
which this happened. A report that is due is sent (`Heartbeat`), or lost or
withheld by a throttled timer (`BeatLost`), after which the next is due a beat
later. Time passes only when every report due was sent or lost, every tab in a
room is hooked and, where somebody has the chat open, every active meeting was
looked at. `tab[u].told` and `blind` are history for the properties: no action
is decided by them. External and assumed favourably: once a script listens,
Jitsi tells it of people who come and go without delay, and a script that has
hooked before the tab joins hears of everybody who is there; a person has one
tab.

## 3. Runs

| Run (cfg, module) | Instance | Question |
|---|---|---|
| `webhooks` (`Webhooks`, `MCWebhookDelivery`) | 2 events, one rejected for its amount; 3 workers; 2 or 3 faults | one owner per event, nothing applied twice, every event applied in the end |
| `seat_safety` (`SeatSafety`, `MCSeminarSeats`) | 2 students, 2 intents, 2 slots, 2 rows; 14 environments | capacity, seats backed by money, kept charges have their seat, books agree, no capture without a row |
| `seat_turn` (`SeatTurn`) | 3 students, 2 intents, 1 slot, 3 rows | the waitlist in order, no free seat while somebody waits |
| `seat_liveness` (`SeatLiveness`) | 2 students, 1 intent, 2 slots, 3 rows, fair | runs, offers, holds and money come to an end |
| `sessions` (`SessionSafety`, `MCExpertSessions`) | 2 sessions, 2 intents, 2 slots; 12 environments | a confirmed session is paid, a kept charge has its session, books agree, the life of a session |
| `session_liveness` (`SessionLiveness`) | 1 session, 1 intent, 2 slots; 10 environments, fair | requests and offers are decided, holds and money settle |
| `mails` (`Mails`, `MCMailSweeps`) | 1 session, 2 ticks; 2 users, 2 rooms; 7 units of time | no mail twice, none skipped |
| `meetings` (`Meetings`, `MCMeetings`) | 3 people, 2 meetings, 2 requests; 7 units of time; 8 environments | meetings end when they should and only then; nothing is lost |
| `payments` (`Payments`, `MCAdminDesk`) | 2 links, 2 requests, 3 units of time; 3 bookings, 2 clerks, 2 months | refunds, seats and links agree with Stripe; net and cheques agree with the charges |
| `webhook_swallowed` | 1 event, 2 workers, 1 failure | violated: see findings |
| `session_double_payment` | 1 session, 1 intent, 2 slots | violated: see findings |
| `meeting_cut_off` | 3 people | violated: see findings |

Why these bounds suffice for what is asked. Two slots are what every race here
needs: one run that decides on what it read and one that changes it in between.
Two students compete for one seat (or two, in `CardsTwice`); a third is needed
only for order, where the seat moves from one waiting student to the next while
another waits. Two sessions and two intents let a payment be taken for the wrong
one. Three or four calls cover a booking, its competitor, a retry and a
cancellation. Faults are bounded by one or two because a second failure inside
the clean-up of the first is the deepest the code handles. The windows of the
mail sweeps and the meetings keep the order they have in the code (a tick is
shorter than what is stale, that than the lead; a beat shorter than a report
stays fresh, that than a meeting may last), which is all the code compares; the
horizons let every window pass once with room after it. In the meetings the
environment `HookedLate` has three people, so that two others are there at a
late hook, and `Throttled` runs until 4, past the time a report stays fresh, so
that an occupied room does fall silent. What the theorems of
section 4 state holds without these bounds.

Deadlock is not checked except for `WebhookDelivery`, where Stripe may always
deliver again: with its calls used up a seminar, a session, a meeting or a desk
may rest.

### Properties

* Seats: `SeatsWithinCap`, `OffersWithinCap`, `OffersInTurn`,
  `NobodyWaitsForFreeSeat`, `SeatIsBacked` (with `SeatVerdict`, the verdict of
  the admin report in `utils/paymentIntegrity.ts`), `BooksMatchStripe`,
  `ChargeBuysSeat`, `ChargedOnce`; the action property `CaptureIsBooked`; the
  liveness properties `RunsEnd`, `OffersEnd`, `HoldsEnd`, `MoneySettles`.
* Sessions: `ChargeBuysSession`, `SessionIsBacked`, `BooksMatchStripe`, the
  action property `CaptureIsOnBooks`, the refinement `LivesOnce`, and
  `SessionsDecided`, `HoldsEnd`, `MoneySettles`.
* Webhooks: `SingleOwner`, `AppliedAtMostOnce`, `RetryAloneNotSwallowed`,
  `EventuallyApplied`.
* Admins: `RefundsMatchStripe`, `SeatGoesWithMoney`, `PaidIsBooked`,
  `LinksSettle`, `LiveNetIsDue`, `ChequesPay`.
* Mails: `RemindedOnce`, `RemindedInTime`, `ToldInTime`, and the action property
  `MailsAreRare`.
* Meetings: `AbandonedEnds`, `NothingLost`, and the action property
  `NobodyCutOff`.

Several are stated for moments when nothing is under way (`Quiet`, `SettledFor`):
in between the code is expected to be inconsistent.

### Findings

* `webhook_swallowed`: two deliveries of an event at once; the second is
  acknowledged while the first is about to fail (SC 823), against the comment at
  SC 801.
* `session_double_payment`: the payment of an offer submitted twice; the second
  run meets the unique index and puts back the session that the first has
  activated and is paying for (GC 5647). The offer then lapses with the money
  taken, against the comment at GC 4788-4791.
* `meeting_cut_off`: a tab says nobody else is there before it has heard of
  anybody (`wisdomlinked-meeting-end-on-hangup.js:319`); a participant who
  reloads the messenger meanwhile ends the meeting for everyone, against
  `utils/meetingUserFacingCopy.ts:33-34`. A script that hooks late leads to the
  same at any time (see below).

### Where a property is asked, and where not

Some properties do not hold in every environment. That is a statement about the
code: the property names its premises (a condition on `Calls` or `Faults`), or
the run names the environments it makes its claim for. What TLC finds outside
them:

Seminars.

* Two forms submitted for one card: the second run finds the intent captured by
  the first, no longer counts it as a hold, sees the student enrolled, and
  refunds the payment of the first (GC 2503-2511). The student keeps the seat
  with the money returned (`SeatIsBacked` leaves `resubmit` out).
* A wallet that fails or a card declined while the registration runs: the failed
  event gives the seat away, `enrollAndConfirmSeminar` adds the student again
  with an unconditional `$addToSet` (GC 2266), and the seminar is oversold. The
  same after a student left, or submitted an hour late, in the middle of a
  registration of their own (`PaymentsHold`, `ClaimsStand`).
* A student abandons a checkout and completes a second one. The sweep releases
  the abandoned hold and, because the second charge is still `pending`, unenrols
  the student (GC 2231-2238); the charge is then completed. `ChargeBuysSeat`
  leaves this out.
* A wallet payment clears between the three questions of the sweep (GC
  4884-4892); its row is marked failed (`BooksMatchStripe` leaves `late` out,
  and its theorem wallet payments that clear later). A
  registration by wallet that a student leaves and submits again while it still
  clears has its old pending row marked completed; no environment of the runs
  has all three.
* With two offer loops at once a rollback can leave the later student with the
  offer (`OffersInTurn`), and a waitlist row inserted just after a drain looked
  waits until the next event (`NobodyWaitsForFreeSeat`). Both are checked with
  handlers one after another.
* A leave that does not see a still pending charge does not refund it. A restart
  between approving a paid offer and writing its charge row (GC 3919-3960)
  leaves money the sweep and the webhook both skip as "held by a seat request".
* A capture whose answer is lost unenrols the student and is then booked by the
  succeeded event; `ChargeBuysSeat` is checked without it.
* A second wallet payment that is never submitted looks delivered to
  `orphanIntentWasDelivered`, because the student is enrolled, and is recorded
  as earned; `ChargedOnce` is checked for cards.
* Deleting a paid seminar refunds nobody; lowering `maxAttendees` clamps to the
  participants just read and may end below those enrolled meanwhile.

1:1 sessions.

* A restart between activation and capture leaves a confirmed session that was
  never paid, and no sweep looks at active sessions (`SessionIsBacked` leaves
  `crash` out); one in the middle of a cancellation leaves the hold.
* An expert who accepts before the student's hold is parked, and a student who
  cancels before it is, leave the hold outside the session.
* A card declined on an offer, a hold parked late, an approval sent twice whose
  capture fails, a stale decision of `sweepExpiredSessionHolds`, a wallet that
  clears between the sweep's questions, and a stray payment refunded while it is
  being accepted can each leave money and session apart; the environments of
  `sessions` leave them out one by one.
* A session asked for twice, with both intents captured, is paid twice.
* A request submitted again after its capture leaves a second pending session
  without a deadline, which no sweep decides (`SessionsDecided`).
* `LivesOnce` fails where the payment of an offer is submitted twice (the
  finding above) and where a session that costs only the fee is approved twice
  early; its theorem has the premise `OnePayment`.

Admins.

* A refund whose row is lost, by a restart or a lost answer, can never be
  booked: asking again is refused as already refunded. `RefundsMatchStripe` then
  only bounds the books; `SeatGoesWithMoney` leaves restarts out.
* Two links for like ad hoc payments whose events come in at once complete the
  same row (`PaidIsBooked` leaves `overlap` out). A retry link completed between
  the two questions of a release takes a paid student's place. An ad hoc link is
  reusable, and a second payment by it is never booked.
* Two partial refunds at once mark nothing refunded.
* Charges marked `refunded` without a refund row, or with a smaller one (a
  cancellation fee was kept), offset the refund rows of *other* charges of the
  same month and kind, so that the expert is paid for refunded sessions
  (against the comment at `utils/expertPayroll.ts:76-80`). `LiveNetIsDue` bounds
  the net by the share of what such charges still hold.
* A charge that settles after the cheque of its month is in no cheque
  (`ChequesPay` asks for it where admins wait).

Mails.

* A session that is moved keeps its marks and may start unreminded
  (`RemindedInTime` leaves moved ones out); one cancelled or moved between
  reading and claiming is still mailed.

Meetings.

* Two people who start at once make two live meetings; two role changes at once
  write the whole list of delegates and bring a demoted one back (`NothingLost`
  leaves `double` out).
* A host who reloads the messenger ends the meeting; one who was removed by a
  delegate cannot end theirs; a guest from outside cannot be removed.
* A script that hooks the conference after the tab joined, with others there,
  counts from zero for good: its tab reports an empty room, and whoever closes
  it, or a messenger loaded again, ends the meeting for the others. TLC finds
  this in `HookedLate` as soon as `NobodyCutOff` drops `m \notin blind`.
* A single person waiting alone may be cut off, and two may before either has
  told of the other: `NobodyCutOff` begins with the first report saved at a time
  after the last arrival. From then on it holds whatever reports are lost. A
  restart can lose a report or an expiry (the theorems leave `crash` out).

### Fairness

No fairness is assumed of students, experts, hosts, admins or faults. `FairSpec`
assumes weak fairness of every step of a run (Node runs a started handler on),
of time passing for a deadline and of a wallet payment resolving. Webhook
deliveries and the sweeps get strong fairness: Stripe retries for days, and each
sweep visits every row on each pass, while in the model it needs one of the
finitely many slots, which other runs take and give back; the slots are a bound
of the model, not of the code. In the seat liveness run `MaxRequests` covers
every row the calls can ask for, so that no run waits for a row that does not
exist. For `WebhookDelivery`, Stripe retries what it has not seen answered and a
started run goes on. For `AdminDesk`, requests go on and the sweep ticks. What
the mail sweeps and the meetings do in time is stated on their clocks, without
fairness.

## 4. Proofs

TLAPS checks the following for every value of the constants that satisfies the
named assumptions of the modules (`StoreAssumption`, `SessionAssumption`,
`ConstantsAssumption`, `PaymentAssumption`, `TimerAssumption`,
`ReminderAssumption`, `UnreadAssumption`, `MeetingAssumption`): they say that
constants are sets, numbers and records of the right kind, that the model values
for "nobody" are outside the sets, and, for windows, the order they have in the
code. Any number of people, documents, intents, runs in flight, calls and
faults is covered, and every environment unless a premise is named.

| Theorem | States | Premise beyond the property's own |
|---|---|---|
| `SeminarSeatsProofs!TypeCorrect` | `[]TypeOK` | - |
| `SeminarSeatsProofs!CaptureBooked` | `CaptureIsBooked` | - |
| `SeminarSeatsProofs!BooksAgree` | `[]BooksMatchStripe` | `WalletsAtOnce` |
| `SeatCapProofs!NeverOverbooked` | `[]SeatsWithinCap` | `ClaimsStand` |
| `ExpertSessionsProofs!TypeCorrect` | `[]TypeOK` | - |
| `ExpertSessionsProofs!CapturesAreBooked` | `CaptureIsOnBooks` | - |
| `ExpertSessionsProofs!SessionsLiveOnce` | `LivesOnce`: implements `SessionLife` | `OnePayment` |
| `SessionBooksProofs!BooksAgree` | `[]BooksMatchStripe` | `PaymentsClear` |
| `SessionBooksProofs!ChargesBuySessions` | `[]ChargeBuysSession` | `PaymentsHold` |
| `SessionBooksProofs!SessionsAreBacked` | `[]SessionIsBacked` | `PaymentsBack` |
| `WebhookDeliveryProofs!TypeCorrect`, `OwnerIsSingle`, `DeliveryIsIdempotent`, `NoRetrySwallowed` | `[]TypeOK`, `[]SingleOwner`, `[]AppliedAtMostOnce`, `[]RetryAloneNotSwallowed` | - |
| `AdminPaymentsProofs!TypeCorrect`, `PlaceGoesWithMoney`, `PaymentsAreBooked` | `[]TypeOK`, `[]SeatGoesWithMoney`, `[]PaidIsBooked` | - |
| `MailSweepsProofs!TypeCorrect`, `RemindersAreSingle`, `RemindersAreInTime`, `UnreadMailsAreRare`, `AbsentAreTold` | `[]TypeOK`, `[]RemindedOnce`, `[]RemindedInTime`, `MailsAreRare`, `[]ToldInTime` | - |
| `MeetingsProofs!TypeCorrect`, `NothingIsLost` | `[]TypeOK`, `[]NothingLost` | - |
| `MeetingsProofs!AbandonedIsEnded`, `NobodyIsCutOff` | `[]AbandonedEnds`, `NobodyCutOff` | no restart |

The theorems of `AdminPaymentsProofs` are about `AdminPayments!Spec`; the run
checks the same properties under `DeskSpec`, whose steps are steps of `Spec` or
leave its variables alone.

### Along which argument

*Types.* `TypeOK` is seldom inductive: a step that enrols `call[s].u` keeps the
type only if that is a student and not `NoOne`. Each `TInv` adds what a run knows
by the label it stands at: a student, an intent, a row that exists, a label to
return to. Lemmas state once what each kind of write keeps (`SetStatusOK`,
`LedgerChangeOK`, ...) and what each way of moving a run keeps (`GotoOK`,
`EndOfferOK`, ...); each handler then has one lemma about the documents and one
about the runs, with a step per action.

*A capture is booked.* Seminars: `BInv` adds that a run about to capture has a
charge row or its intent is no longer a hold, and a run about to delete a row
deletes one whose intent is no longer a hold. The row could be deleted by
another run between the write and the capture; it is not, because an intent
never becomes a hold again. Almost every step is `Calm`; the few
`CaptureAction`s are proved one by one. Sessions: the same (`Captures`), with
*frames* that say what one step may change (`SessionFrame`, `LedgerFrame`,
`StripeFrame`, `EventsFrame`, `CallFrame`, together `FrameStep`): a row goes
away only with its hold. The frames are proved once for every action and used
by everything that follows.

*The books of a seminar agree.* `Books` adds what is true of an intent and its
events (`IntentRule`), of its charge row (`BookRule`), and what the locals of a
run say of the intent it works on (`Knows`): a run that writes to a row saw the
money taken, given back or released, and none of these is undone. The one thing
seen that may change is a hold: a sweep finds it not captured, asks again and
writes it off. It may, because it looks at an intent an hour old that no run
works on, and a run that could capture it works on an intent that is not old.
`Frame` says once what a step may do to Stripe, to the rows and to the runs, and
`FrameKeeps` carries the rules over it; each action has one lemma about the money
and one about the runs. `WalletsAtOnce`: no wallet payment clears later than it
is made. With one that does, TLC shows the property violated, without any fault
of the wallet: the sweep asks Stripe three questions, one after the other, and a
payment that clears in between is written off. All 9 environments of the run in
which the property says anything meet the premise.

*A seminar is never overbooked.* `CapInv` says that a claim once granted stands.
Each student has one intent that is not old, so nobody else gives their seat
away: a run that holds a claim finds its student enrolled, or its hold released
and then never reaches the confirmation (`Doomed`); two claims of one student
share one cancelled intent. Seats are given back only by the holder or for an
intent that is `Gone`. A claim counts on a cap not above the document's
(`AtMost`), so a granted claim fits, and a confirmation adds nobody new. The
premise `ClaimsStand` names what breaks this in the code, each with a
counterexample TLC found: payments that fail while they are settled, students
who leave, go through a second checkout or submit an hour late while a run works
for them, invitations to a free seminar (which look at no cap), and a cap that
is lowered.

*A session lives once.* `JInv` adds who works on what. A request has its own
intent and session (`RequestRoot`, `RequestRun`); a row belongs to one session
and a session's row is the only one (`RowsOwned`, `OneRow`); who accepts is the
expert, alone with the request, or the student who pays, alone with the offer
(`ExpertHolds`, `ExpertAlone`, `StudentHolds`, `StudentAlone`). So a run that
puts a session back has not taken its money (`RestoredUnpaid`), a session becomes
active only by the run that activates it (`NewlyActive`), and what is paid stays
paid: each step is a step of `SessionLife` or a stutter (`LifeStep`), and a
restart, which ends all decisions at once, is its `Restart`. `OnePayment` says
that no approval is sent twice, and that where students pay offers no second
checkout or submission is made: with either, TLC shows `LivesOnce` violated.

*The books of the sessions agree.* `KInv` adds to `JInv` what becomes of an
intent and of its row. A charge that is written off has an intent that is dead
or refunded, or a hold that nobody is about to capture (`IntentRule`), and the
row of a session that is over stays over (`Shut`, `Done`); what is completed was
captured (`BookRule`); a parked decline and a late event still say the truth
(`ParkedRule`, `EventRule`). What a run will write it knows by its label: a run
before its capture is the only one that confirms (`Confirming`), one that comes
back from Stripe carries the answer (`Outcome`), one that handles an event knows
that the event was true (`Paying`), one that ends a session has shut it first
(`Ending`). `MoneyFrame` says, once per action, who may write what on a charge,
an intent and an event, and by which step a run gets to a label that writes;
each rule is then carried over by the frame, not by the actions. `PaymentsClear`
is `OnePayment` and two exclusions, each with a counterexample TLC found: wallet
payments that fail while they settle (the sweep reads *processing*, the payment
clears, and the sweep marks the cleared row failed), and declined cards together
with lost answers or restarts (the card is captured, the answer is lost, and the
late event of the earlier decline marks the row failed). 11 of the 12
environments of the run meet it, all but the one in which an approval is sent
twice.

*What the money of a session buys.* `LInv` adds to `KInv` that a charge on the
books whose money is with the platform is for an active session, the one its
intent names if it names one (`BuysRule`), and what each run that moves money or
ends a session knows of the other: whoever is about to take or book the money of
an intent in force does so for an active session (`Taking`); whoever ends a
session does so after a refund (`Refunding`), for an intent that is dead or a
session that was over before (`Releasing`), or for a request that no row and no
other run names yet (`Parking`). Four steps end an active session
(`EndsActive`); `StaysActive` shows that none of them finds one that money still
stands for, and the rest of the proof needs no more of the actions than the
frames say. It holds between any two steps, though the property only speaks of
states in which no run is under way. `PaymentsHold` is `PaymentsClear` without
declined cards on offers that students pay, and TLC shows why: the event of an
earlier decline is handled while the student's run captures, fails the charge and
ends the session, and the run then books the charge as completed. The same 11
environments of the run meet it.

*What a session is paid by.* `MInv` adds to `LInv` the other direction: a
session that takes place names, by its row or in the metadata, an intent whose
money is there or on its way (`BackRule`), and what the runs that could take it
away know: who gives money back does so for no session that takes place
(`ReturnRule`, `Returning`), who submits a request has its intent to itself
(`Sending`), who cancels a session with money on the books leaves it to its
student (`Yielding`), and who confirms a session has found a payment for it
(`Finding`). `PaymentsBack` is `PaymentsHold` and three
exclusions, each with a counterexample TLC found: an expert who accepts before
the request is complete, an intent submitted late that the settling sweep
refunds as a stray, and a request submitted again while the database fails. Of
the premises it inherits, second checkouts and second submissions also violate
it; for the others TLC found no violation in the small instances, and they are
there because the proof rests on `LInv`. The same 11 environments meet it; in 7
of them a price is paid and nothing restarts, which is what `SessionIsBacked`
speaks of.

*Webhooks.* `IInv`: owners hold their claim, two never hold the same, and what is
unclaimed has not been applied.

*Admins.* `PlaceInv`: rows belong to their link (`OwnRows`), a link is paid
before it is completed (`PaidFirst`), and whoever sees the last payment refunded
is on the way to the place (`PlaceFollows`). `BooksInv`: in a kind of like
payments, those due are at most as many as the records still open for them, by
counting.

*Mails.* A mark is claimed on the document at the moment of the mail, and claims
only grow for a given start; for unread mails, the state of a user at the time of
the claim still is what the sweep decided on, because the claim's filter
compares it. `Timely` is why no reminder is skipped: ticks begin at most
`Interval` apart, so the first one after a mark begins before the reminder is
stale; from then on the session is marked, or on the list of a tick, or a tick
that will put it there is at work (`MarksAreMet`), a mark means a mail sent or in
hand (`MarksAreMails`), and a tick takes two units at most, which end before the
session starts. `Attends` is why nobody who stays away is left untold: an unread
message is newer than the last mail and the last check, unless its mail is in
hand (`NoneForgotten`), and there is a room with a last message at least as new
(`OwedAreUnread`), so the next tick that finds the user long away asks
Rocket.Chat or starts a countdown; what it decides on is what it read, but for a
visit, which puts the mail off by itself (`AsRead`); and a countdown ends
(`CountdownsEnd`). `ToldInTime` allows two intervals over the idle time: one for
the tick that sees the message, one because a second message in the room hides
when the first arrived.

*Meetings.* `MInv`: a request that writes has read a document that was active,
links are kept (`LinksKept`), and one role change at a time writes on the list
it read (`RolesInTurn`). `RoomInv`: a tab counts no more people than there are
others in its room, and all of them unless the meeting is `blind` (`Counted`);
so, where it was told at all, the document says that the room is empty if
somebody is alone in it (`ToldAlone`), and that it is not if two are
(`ToldOthers`). Reports on the way say the same from the unit after the last
arrival on, which is why lost ones do no harm: the document keeps what the last
one saved. A meeting in which two are and one has told is `Settled`. A tab asks
for the end when the room is left empty, was just entered, or is blind
(`Vacant`), and a messenger or a look at silent tabs goes by the document; so no
request under way is about a settled meeting (`Asked`), and none becomes so,
because a meeting settles only as time passes, for which all requests must be
answered.

### Only model-checked

* Liveness and everything that speaks of `ENABLED`: `RunsEnd`, `OffersEnd`,
  `HoldsEnd`, `MoneySettles`, `SessionsDecided`, `EventuallyApplied`,
  `LinksSettle`.
* Sums over sets and sequences, which need induction over data:
  `RefundsMatchStripe`, `LiveNetIsDue`, `ChequesPay`.
* `OffersWithinCap`, `OffersInTurn` and `NobodyWaitsForFreeSeat`, which speak of
  the end of a loop over the rows of the waitlist, with handlers one after
  another or bounded by the rows there are.
* Not proved so far: `SeatIsBacked`, `ChargeBuysSeat` and `ChargedOnce` of the
  seats (they hold in the environments of their run and not in all, and each
  exclusion must become a premise first).

## 5. Not modelled

Listed in `PROJECT.json` with the reason. Closest to what is here: the older flow
in which a host approves a request that holds an authorization
(`approveSeminarSeatRequest`, `rejectSeminarSeatRequest`,
`sweepExpiredSeatRequests`); `joinGroupChat`, which takes any group and checks
neither capacity nor type and which no page calls; `leaveGroup` used on a
seminar, which gives back a seat without refund or offer; series; rescheduling,
calendar checks and partial refunds of 1:1 sessions; the fallback for links made
before checkouts were recorded; transcripts, ratings and the whiteboard of
meetings; mail preferences.

Left out of handlers that are modelled, because no property depends on it:

* `RequestSeat` does not give back the authorization a student brought along to
  a free or waitlisted seat (`releaseOwnHold`), nor `Request` that of a form
  that fails its first checks (`releaseOrphanBookingIntent`); `Orphan` and
  `Stray` release such holds later.
* One step where the code takes two: a failed approval of an offer and the
  unenrolment after it; the lookup of a payment and the question whether it was
  refunded when a student leaves; the activation mark and the candidates of the
  unread sweep; Stripe's refund and its row in `Payroll` (two in
  `AdminPayments`).
* Stripe never refuses what it could do when an acceptance is undone or a hold
  probed, a cancellation refunds in full, and a request whose session was
  created does not fail in the save of the user after it.
* `AcceptAsStudent` takes offers of the expert only; the code lets a student
  accept what they asked for themselves when it costs nothing.

## 6. Plan

1. `ChargedOnce` and `ChargeBuysSeat` of the seats, from `CapInv` and `Books`.
2. `SeriesClaims`: a claim over the dates of a series with roll-back.
