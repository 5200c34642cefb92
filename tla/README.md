# fair.yoga in TLA+

fair.yoga is a booking service for independent yoga teachers: a Next.js
application on one PostgreSQL database, with a handful of background jobs in the
same process. A teacher publishes classes; students book them, cancel, wait for
seats; when a class has taken place its tiered price is split among the students
who are charged, and a payment is created for each. This directory holds its
specification: TLA+ modules translated from the source, TLC runs that check them
on small instances, and proofs that TLAPS checks for instances of any size.

Paths below are relative to the repository root as it is mounted here, so the
application's code is under `src/src/` and its documents under `src/docs/`.

## Inventory

| component | state it keeps | operations | interacts with |
|---|---|---|---|
| Class lifecycle (`services/class-lifecycle.ts`, `class-transitions.ts`, `auto-cancel-decision.ts`, `api/classes`) | `Class.status`, `CalendarEntry.cancelledAt`, `autoCancelDecidedAt`, `settingsLocked`, capacity, start | create, publish, edit, start, complete, call off; the start, auto-cancel and completion sweeps | closes the queue, bills the bookings, notifies |
| Bookings and attendance (`api/registrations`, `services/capacity.ts`) | `Registration.status`, `lateCancelledAt`, `isWalkIn` | book (student, teacher, walk-in), cancel, mark attendance | locks settings, fires the spot-freed hook |
| Waitlist (`services/waitlist.ts`) | `WaitlistEntry.status` and `position`, `Class.spotBroadcastAt` | join, leave, claim, promote, broadcast, close, renumber | reads the class, seats students |
| Waitlist reconciliation (`services/waitlist-reconciliation.ts`) | streaks of classes it found unanswered | sweep open classes with a free seat and a queue | calls the same hook |
| Erasure (`services/gdpr.ts`) | `Student.deletedAt`, `Teacher.deletedAt` | erase a student, erase a teacher | cancels bookings, leaves queues, completes and calls off classes |
| Payments (`services/payments.ts`) | `Payment.status`, reminder and report stamps | mark paid, overdue, not charged, reopen, remind, report | created by completion, settled by attempts |
| Processor attempts and refunds (`services/processor-attempts.ts`, `processor-refunds.ts`, `refund-adoption.ts`, `api/webhooks`) | attempts, refund intents and their claims | start a checkout, sync with Mollie, refund, adopt a refund | Mollie's API and webhooks |
| Processor connection (`services/processor-connection.ts`, `processor-token.ts`, `payout-*.ts`) | tokens, pause and resume stamps | connect, refresh, pause, revoke | attempts and refunds need a live token |
| Generation (`services/entry-generation.ts`, `class-generator.ts`, `studio-class-generator.ts`) | the horizon generated so far | generate the weeks of every active rule | creates classes; competes for slots |
| Rules and templates (`services/rule-lifecycle.ts`, `*-template-lifecycle.ts`) | `ScheduleRule`, `ClassTemplate` | create, change, archive and restore a template | withdraws the classes generated from it |
| Invitations and links (`services/invitations.ts`, `roster-link.ts`) | `Invitation`, `TeacherStudent`, blocks | invite, accept, block, unlink | who may book |
| Delivery (`services/notifications.ts`, `email-fallback.ts`, `push-dispatch.ts`, reminders) | notifications, leases, send stamps | create, push, fall back to email, remind | every other part creates notifications |
| Offline outbox (`lib/attendance-outbox.ts`, `attendance-sync.ts`) | marks kept in the browser | queue, replay, settle | the attendance write |
| Jobs (`lib/scheduler.ts`) | one timer and one running flag per job | tick, skip while running, drain on shutdown | the sweeps |
| Locks (`lib/db-locks.ts`, `docs/lock-order.md`) | row locks of PostgreSQL | lock one class, several classes, a student, a template | every transaction |

What makes each hard, and what makes it correct:

* **Class, bookings, waitlist, reconciliation, erasure** share one class row.
  Their transactions take its lock first, so what interleaves is everything
  *outside* a transaction: a cancel decided before it is written, a hook that
  runs after the commit it belongs to, a decision on an unlocked read, a sweep's
  snapshot, an erasure that does not hold the lock at all. Correct means: seats
  are not oversold; a queue is first come, first served and only exists while
  the class is open; students are told the truth about free seats and a freed
  seat is not forgotten; what was booked keeps its terms; the bill is the
  bookings; a class called off or completed stays so; an erased student holds
  nothing; a booked class ends.
* **Attempts, refunds, webhooks** meet an outside service whose answers come
  late, twice or never, and two of whose callers may hold different answers to
  the same question. Correct means: a payment is settled once and a second
  payment is told as a duplicate; a refund is sent once, across a crash between
  the call and its record, and has a row; what the teacher chose for the
  refunded payment is applied; what Mollie holds is recorded in the end.
* **Payments owed** are changed by the teacher, by the student, by a sweep whose
  runs may overlap, and by a resume that writes what it read before. Correct
  means: a stamp is when the student was told; notices are apart; only who owes is
  chased; the period to pay is whole; what stays owed is spoken of again.
* **Rules, generation, slots** compete for a teacher's time, in transactions that
  read at READ COMMITTED and write later. Correct means: one entry per rule and
  week; an archived rule is inactive and gains nothing; an archive accounts for
  what it took away; the date an edit promises is the one that comes; the window
  is filled in the end.
* **Requests about a person and a teacher** lock classes, links, invitations and
  students, each in its own order. Correct means: no circle of waiting
  transactions; a refusal stands until the person's own act; a declined
  invitation's address stays refused; an archived link has nothing live; an
  erased account leaves nothing.
* **Delivery** is done by jobs that overlap across processes and by a provider
  whose answer may be lost. Correct means: nothing twice on a channel, nothing
  dropped in silence, nothing pushed that a tick found too old, nobody reminded of a
  booking made too late to be reminded of.
* **The offline outbox** has several tabs, one document, and storage that may
  refuse. Correct means: a mark that was settled does not come back, none is lost
  to another tab, what is confirmed was recorded, what waits is settled.

PROJECT.json lists every component with what is modelled of it and why the rest
is not, and every hazard with the line where it bites.

## Plan

1. **Class, bookings, waitlist**: done, with proofs, the refinement of
   `PromotionQueue` among them. Left of it: waitlist
   retention and class deletion, which no other part's state depends on.
2. **Payments**: done, with proofs. `ProcessorPayments` implements the abstract
   `MoneyLedger`, which is proved too.
3. **Rules and generation**: done, with proofs. The calendar's exclusion
   constraints are `RuleCalendar`'s, as the database enforces them.
4. **Lock order** and 5. **invitations and links**: done together, with proofs, in
   `RosterConsent` over `RowLocks`, as a circle of waiting is a property of the
   requests' statements.
6. **Delivery**: done, with proofs.
7. **Offline outbox**: done, the storage and the sending, with proofs.
8. **Pricing**: given up, see "Not modelled".

What would come next, in this order: the teacher's erasure and the currency and
template locks in `RosterConsent`; waitlist retention and class deletion.

## The modules

Every `MC` module adds a variable `setting` (`RosterConsent` a `scope`, `OutboxStore`
a set of `refusable` calls): a behaviour picks one at the start and stays in it, so
that one run checks several instances, each of them small in what it is not about.

*Class, bookings, waitlist*

| module | what it is |
|---|---|
| `ClassTerms` | statuses, their roles, the transition table, the instants around the start of a class |
| `ClassBooking` | the class, its bookings and its waitlist: state, one action per operation, properties |
| `PromotionQueue` | what a waitlist promises, without positions, statuses, hooks or clocks: who stands ahead of whom, and that the head gets the free seat |
| `ClassRefinesQueue` | the mapping under which `ClassBooking` implements `PromotionQueue` |
| `MCClassBooking` | the three settings TLC checks |
| `DocumentedClaims` | a statement of the repository that the code does not keep to |
| `ClassBooking_proofs` | types and locked terms, the queue, its numbering, the seats and the broadcasts, what a step may never do, the bill and erasure, and the refinement of `PromotionQueue`, proved |

*Payments*

| module | what it is |
|---|---|
| `MoneyLedger` | what several attempts on one payment promise: one settles, the others are duplicates, what went back stays back |
| `ProcessorPayments` | one payment, its attempts at Mollie, webhooks and syncs, refund intents, adoption |
| `MCProcessorPayments` | its settings, and the mapping under which it implements `MoneyLedger` |
| `ProcessorPayments_proofs` | the ledger, the refunds' accounts and what payment and attempts agree on, proved |
| `PaymentDunning` | the payments of one teacher, the doors that change them, the reminder job, pause and resume |
| `MCPaymentDunning` | its settings |
| `PaymentDunning_proofs` | its safety properties, proved |

*Schedule*

| module | what it is |
|---|---|
| `RuleCalendar` | weeks, days, slots and what may not overlap |
| `EntryGeneration` | schedule rules and what is generated from them: sweeps, requests, the transactions between |
| `MCEntryGeneration` | its settings |
| `EntryGeneration_proofs` | one entry per rule and week, archived rules at rest, what an archive takes and an edit promises, proved |

*Offline marks*

| module | what it is |
|---|---|
| `OutboxStore` | the stored document, each tab's copy, and storage that refuses |
| `AttendanceSync` | `OutboxStore` with the sender, the server, lost answers and late requests |
| `OutboxStore_proofs` | the marks kept and dropped, and what their replay tells the server and the page, for any number of tabs and any refusals, proved |
| `MCOutboxStore` | model values and bounds of the one |
| `MCAttendanceSync` | model values of the other |

*Roster*

| module | what it is |
|---|---|
| `RowLocks` | PostgreSQL's row locks: who holds, who waits, who waits for whom |
| `RosterConsent` | every request about one teacher and one person, statement by statement |
| `MCRosterConsent` | the six scopes TLC checks |
| `RosterRequest_proofs` | one request on its own: what its statements ask for, write and keep, and what therefore holds of it, proved |
| `RosterConsent_proofs` | what the requests do to each other: `Consistent`, `RefusalStands`, `TombstoneStays` and `OrderedLocks`, proved |

*Delivery*

| module | what it is |
|---|---|
| `NotificationRows` | the rows of one recipient, the clock, the account and its devices |
| `EmailFallback` | the mail sweep |
| `PushDispatch` | the push tick |
| `ClassReminders` | the reminder sweep, the bookings and the class it reads |
| `NotificationDelivery` | the three composed, and what is promised of them together |
| `MCNotificationDelivery` | its settings |
| `NotificationDelivery_proofs` | nothing twice, nothing dropped, nothing claimed once found too old, proved |

### How ClassBooking corresponds to the code

*State.* One class. `status`, `decided`, `settingsLocked`, `maxStudents` and
`spotBroadcastAt` are columns of `Class`; `calledOffBy` is
`CalendarEntry.cancelledAt`, together with who set it, which the notices tell.
`booking`, `lateCancelled` and `walkIn` are the `Registration` rows by student
("none" where there is no row), `entry` and `position` the `WaitlistEntry` rows,
`payments` the bookings with a `Payment`, `erased` the students with a
`deletedAt`. `told` is the set of waiting students whose last notice was
`spot_available` rather than `spot_taken`. `now` is the clock, as the last
instant that matters that has passed (`ClassTerms`). The instants are a quarter
of an hour or more apart.

*Transactions.* `lockClassRow` opens every transaction that decides something
about a class, so such a transaction is one action. `task` is what each request
in flight, and the reconciliation job, has still to do outside of one:

| task | between which lines |
|---|---|
| `cancel` | `DELETE` has read the booking and the clock and decided which cancel it is; `writeCancel` has not yet run |
| `hook` | the transaction that freed a seat has committed; `handleSpotFreed` has not yet read the class |
| `act` | `handleSpotFreed` has read the class, the clock and so chosen its branch; the branch has not yet the lock |
| `transition` | `transitionClass` has passed its checks; its compare-and-set has not yet run |
| `erase` | an erasure without the class's lock has the snapshot of its `UPDATE`; the row is not yet written |

`LoseTask` drops any of them: the process stops, or a lock times out and the
error is logged. The attendance write (`MarkAttendance`) takes no class lock in
the code either; it is a single `UPDATE`, hence one action. The sweeps
(`StartSweep`, `KeepClass`, `AutoCancelClass`, `CompleteSweep`) decide again
under the lock, from an instant taken before it, so they are one action too, with
that instant as a parameter where it can differ from `now`.

*What is wider than the code.* A decided cancel or transition may be written any
number of instants later, where the code's request lives for seconds. After
`EraseTeacher` the teacher's other requests are still allowed. The free-cancel
grace of a promoted student, a quarter of an hour, is left open until the last
quarter of an hour before the start. Who is on whose roster is left open: any
student may be booked by the teacher. Everything that holds with these holds
without.

*What is merged.* In `StartErasure` the read of `upcoming` and the snapshot of the
`UPDATE` that follows are one step; between them a class can only start, complete
or be called off, which makes the hook ask for nothing. `LeaveWaitlist` also
stands for `withdrawWaitingEntriesForTeacher` on one student's entry. `MoveStart`
checks the new start and writes it in one step, where the code checks against a
read taken before the lock; its comment describes the mixed start that two
simultaneous edits can leave (`class-lifecycle.ts:1551`), and that is not
modelled.

*Settings.* `MCClassBooking` checks it as a class from any start ("class"), as a
queue between two hours before the start and the doors ("line"), and as one
student with two requests ("ends").

*Left out.* Deleting a class, on its own or with its template; the edits that
`settingsLocked` does not freeze; rooms, prices, formats; roster links and
invitations; waitlist retention; the reconciliation's streak counters.

### How ProcessorPayments corresponds to the code

*State.* One `Payment` with the status and method the attempts and the teacher's
marks write (`payment`), its `ProcessorPayment` rows (`attempt`), the
`ProcessorRefund` rows (`refund`), the connection (`grant`), and, of Mollie, the
status of each payment, the refunds and the disputes. `due` are the webhooks
Mollie still owes an answer of 200 for, `job` what each request in flight has read
from Mollie and not yet written.

*Actions.* A call of Mollie is never inside a transaction, so each handler is cut
at its calls: `createAttempt`, the sync shared by webhook and return page
(`syncAttempt` reads from Mollie, then applies under the payment's lock, along the
decision table of `processor-attempts.ts`), a refund's intent, its call and the
storing of its answer, the reconciliation of a stale intent, and the adoption of a
refund a sync found. `Lose` ends a job at any point, after Mollie has done what it
was asked to included. A webhook that fails is owed again; a webhook may come any
number of times.

*Abstractions.* Amounts: an attempt is paid and refunded in full. Pending and
overdue are one status. `SlowCalls = FALSE` says that a call ends before
`ADOPT_AFTER_MS`, two minutes, which the client's timeout sees to. Mollie may
accept any of our own refunds, and refunds made in the dashboard do not exceed
what was paid.

*The ledger.* `MoneyLedger` gives each attempt a share: unpaid, the one that
settles, a duplicate, or returned. At most one settles; a share moves only
forward. `MCProcessorPayments` reads the share off the attempt's row.

### How PaymentDunning corresponds to the code

The payments are one teacher's. `status`, `claimed`, `reminderSent` are columns of
`Payment`, `paused` and `resumed` of `Teacher`; ages stand for times, counted in
clock steps up to `Horizon`, from where on they are not told apart. The job's run
is `FlipOverdue`, `ReadDue`, then one `RemindDue` per payment, each a statement or
a transaction of its own; runs may overlap and be cut off. The resume's read and
write of the payments are two steps. `markPaymentOverdue`, which nothing calls, is
split at its read (`checked`); `FullPeriodToPay` leaves its write out. `told`,
`asked` and `sent` are history: what the students were really sent and when they
could last not pay. A sweep and a resume end within a clock step.

### How EntryGeneration corresponds to the code

One teacher. `rule` is `ScheduleRule` with its template, of the class family or the
studio one, `entries` the `CalendarEntry` rows with what the class's bookings and
queue say about them, `lock` the `FOR UPDATE` on the template's row. A transaction
that reads and later writes is split at its reads, because every statement at READ
COMMITTED sees what has committed since the last: a sweep chooses (with the
predicate of its snapshot), claims the row and checks anew, reads the occupied
places, reads the weeks the rule holds, inserts and commits. An uncommitted create
already holds its slot, as the exclusion constraint makes others wait for it.
Archive is lock, withdrawal and delete. Pause, edit and un-archive are single
compare-and-sets and one action each. `now` is in units of a generation interval
and days; a neighbour running past midnight is left out of `PromiseKept`, as the
prediction's own comments leave it out.

*Left out.* The reasons a date was skipped, contention streaks, the template's
price, room and link, time zones; a class is moved only before it is first booked.

### How OutboxStore and AttendanceSync correspond to the code

The document in `localStorage` and each tab's copy of it. Every operation of
`attendance-outbox.ts` runs under the Web Lock and is one action; clearing an
account's marks is two (the record of it, and the removal). `refusable` says which
calls a device's storage may refuse: none; writes, smaller writes and the record
of a clear; these and reads; these and removals. `taps`, `over` and `lost` are
history. `AttendanceSync` adds the pass of `attendance-sync.ts`: the flush lock, the
marks read once and sent from the oldest (the pass is the set of those still to send),
one request after another, an answer that comes, fails or times out, and a request
the page gave up on that lands later (at most one per mark). `RecordedInOrder` is of
devices whose storage takes every write, as those of the run are: on others the order
is lost with the mark ("An older mark wins", below).

*Left out.* The expiry of confirmations and refusals, malformed documents.

### How RosterConsent corresponds to the code

One teacher, one person, up to two classes and two invitations. `RowLocks` is
PostgreSQL as the code uses it: a statement waits for the rows it locks, a
transaction keeps its locks until it ends, and an unlocked read sees what is
committed. Each request is the sequence of the statements its transaction sends,
and any two (in `Contending` any three) may be under way. Its last statement
commits with it, except where it ends in an unlocked check, whose commit is a step
of its own. Locking several classes is a read of the set, then their rows in the
order of their ids. An edit of an invitation takes the row, then the key of the
unique index on its address. A statement adds or removes entries of that index only
with a row of the table it holds, and an upsert that waited to insert a row and then
finds it there asks again, for the row's lock. (Both are what PostgreSQL does; an
earlier version of the model let a deletion that found its invitation gone free the
address all the same, which came to light as the address's part of `TypeOK` was to be
proved.)

*Left out.* Names, dispatch and caps of notices, seat counts (a full class is a
refusal that may come at any time), other students, a second profile under the
same address, contact archiving, the teacher's erasure, templates and the currency
switch. Two sessions meeting in an upsert are one that changes nothing. A walk-in
that creates the student is not distinguished.

*What the properties allow.* An acceptance or a walk-in that has looked for a block
for the last time may commit over a decline: the code says of its check that it
narrows the window (`invitations.ts:1412`, `walk-ins.ts:220`). Over an unlink, no.

### How the delivery modules correspond to the code

One student recipient. `NotificationRows` has the rows (plain, a freed spot, a
promotion, a reminder), the account's switches, devices, erasure and the clock.
`EmailFallback` is the mail sweep: list, claim by compare-and-set on the row's
stamp, send, and release after a failure; a stop between claim and send loses the
mail, which the code accepts (`email-fallback.ts:82`), and is in `fate` as "cut".
The provider drops a second mail with the same key and body, so a second mail needs
a changed content and a lost first answer (`doubted`). `PushDispatch` is the tick:
retire what is stale, take up a row, claim it, send to each device. The deadline is
looked at when a row is taken up (`TakeUp`); the claim is a statement of its own and
may wait (`ClaimPush`). So what is sent is not always younger than the limit: a row
close to it may be taken up until the tick's deadline, and a claim that waits while no
later tick runs is sent whenever it gets through. `PushedInTime` says what is kept all
the same: how old a row may be when it is taken up, and that nothing is claimed that
any tick under way has found too old, as that tick has retired it. `ClassReminders` is
the sweep that reads a booking with its student's channel, and stamps the booking and
writes its row in one transaction before any mail. The student may change the channel
meanwhile; `RemindedOnce` is of the channel that was read (`channel` of `reminded`).
`lib/scheduler.ts` guards a job against itself within a process, and the cron route
and other processes do not see that guard, so jobs overlap.

*Left out.* Teacher recipients, paging, the health alarm, retention, urgency,
a missing push configuration, the cap on devices, and a change of how long before the
class a student is reminded (`Moment` is fixed; switching reminders off is the channel
"off").

## The runs

| run | settings | checks | shows |
|---|---|---|---|
| `ClassSafety` | "class": 2 students, 1 request and the reconciliation in flight, 1 or 2 seats | `Consistent`, `SeatsWithinCapacity`, `BroadcastTellsTheTruth`, `BillMatchesBookings`, `ErasedHoldNoSeat`; `TermsKeptOnceBooked`, `OutcomesAreFinal` | every operation against every other |
| `ClassLiveness` | "line": 3 students, 1 seat, until the doors open; "ends": 1 student, 2 requests | `QueueNumbered`; `CancelIsFinal`, `ImplementsPromotionQueue`, `FreedSeatIsAnswered`, `TimedClassEnds` | the queue is the abstract one, a freed seat is answered, a booked class ends |
| `ProcessorSafety` | "paid": 2 attempts, a grant that may end; "dashboard": and a refund made there; "refund": 1 attempt, 2 refunds, a dispute (beside a refund under way, one job); "both": 2 attempts, 1 refund, one job; "regranted": a grant that ends and comes back at any point, beside 1 attempt and 2 refunds or 2 attempts and a dashboard refund, one job | `Consistent`, `RefundsAccounted`; `WaivedOncePerRefund`, `ImplementsLedger` | a payment is settled once, a refund sent once, and waives once |
| `WebhookRetries` | "retries": 1 attempt, 2 refunds, one job | `PaidIsRecorded`, `RefundIsRecorded` | every single try may fail, the retries record it |
| `SettleBlocked` | "retries": 2 attempts, a grant that may end | `PaidIsRecorded`, violated | finding 2 |
| `Dunning` | "payments": 2 payments, one run; "sweeps": 1 payment, 2 overlapping runs | `Consistent`; `SpacedOut`, `OnlyTheOwingChased`, `FullPeriodToPay`, `RemindedAgain` | who is told what, and when |
| `Generation` | "sweeps": a rule changed under 2 sweeps, a failure; "archives": archived while booked, queued for, moved; "spots": 2 rules and one-off classes, one past midnight; "window": one fair sweep | `Consistent`, `PromiseKept`; `AddedWhileRunning`, `ArchiveAccounted`, `TimedWindow` | what is generated, taken away and promised |
| `Outbox` | 2 tabs, 2 accounts, 3 marks (2 where reads or removals are refused) | `Consistent`; `KeptUntilWritten` | nothing comes back, nothing is lost |
| `Sync` | 2 tabs, 1 registration, 2 marks, late requests | `ReplayIsTrue`, `MarksSettle` | what the server and the page end up with |
| `Roster` | six scopes, two requests at once, in one of them three | `Consistent`, `OrderedLocks`; `RefusalStands`, `TombstoneStays` | consent, archive, erasure, no circle of waiting |
| `Delivery` | "mail": 2 sweeps, a row, 2 failures (one sweep after the second); "push": 2 ticks, 2 rows or 2 devices at a time; "remind": 2 reminder sweeps, a mail sweep, a rebooking, a channel that changes; "timely": one fair sweep | `ToldOnce`, `NothingDropped`; `PushedInTime`, `TimelyReached` | nothing twice, dropped, claimed once found too old, or forgotten |
| `ErasedAfterBilling` | 1 student, a start sweep that does not come round (`MissedStartSpec`) | `PaymentOnlyOnChargedBooking`, violated | finding 1 |

Several properties are conjunctions of named parts, which the modules define with
a comment each:

| property | parts |
|---|---|
| `Consistent` (`ClassBooking`) | `TypeOK`, `QueueOnlyWhileOpen`, `NobodyWaitsWithSeat`, `BookedTermsLocked` |
| `OutcomesAreFinal` | `CalledOffIsFinal`, `KeptIsNotAutoCancelled`, `BillIsFinal` |
| `Consistent` (`MCProcessorPayments`) | `TypeOK`, `OutcomeApplied` and `SettledMeansPaid` until the grant is revoked |
| `RefundsAccounted` | `NeverRefundedTwice`, `RefundHasRow` |
| `Consistent` (`PaymentDunning`) | `TypeOK`, `StampIsNotice` |
| `Consistent` (`EntryGeneration`) | `TypeOK`, `OnePerWeek`, `ArchivedIsInactive` |
| `ArchiveAccounted` | `WithdrawnIsGone`, `WaitersTold`, `ChargedStays` |
| `Consistent` (`OutboxStore`) | `TypeOK`, `NoComeback`, `NothingLost` |
| `ReplayIsTrue` | `RecordedInOrder`, `ConfirmedWasRecorded` |
| `Consistent` (`RosterConsent`) | `TypeOK`, `ArchivedHasNothingLive`, `ErasedLeavesNothing` |
| `ToldOnce` | `TypeOK`, `MailedOnce`, `PushedOnce`, `RemindedOnce`, `LateBookersNotReminded` |

*Deadlock.* `Roster` and `Dunning` check for it. The others say
`CHECK_DEADLOCK FALSE`: a class that has ended, a payment that is settled or marks
that are sent, with nothing left to do, is the end the system is built to reach, or
the bound on time or on calls has been reached.

*Why the bounds are enough.* Two students suffice for a seat and someone waiting
for it; the order of a queue needs a third. One request and the reconciliation make
two hooks at once, next to all the transactions, which need no worker; only two
decided cancels need two requests. Two attempts make a duplicate, two refunds a
double one, two jobs two answers of Mollie that differ in age. Two overlapping runs
of a job are every overlap there is between a read and a write of one row, as each
writes under a compare-and-set. Weeks of two days, two slots each, have an earlier
and a later day, a date before and after a rule's own, a slot past midnight; a
window of two weeks has a week that is full and one that is not. Two tabs are one
that writes and one that remembers; three marks are one stored, one held and one
that replaces. With two classes and one invitation every pair of row kinds is
locked in both orders if any two requests do so. Two rows are one claimed and one left,
two devices one sent to and one removed meanwhile; the claims and the sends are of one
row at a time, so a second device beside a second row adds nothing. `MinStudents` is 1, so
that the auto-cancel check decides both ways; its instant is `PastCheck`.

`PaymentDunning`: `OverdueAfter` 1, `RemindEvery` 2, `Cooldown` 0, `Horizon` 3, so an
age beyond every period exists. `EntryGeneration`: time up to 1 or 2 and 2 to 5
calls of the teacher, by setting (`InSetting`). `NotificationDelivery`: time up to 3,
every threshold and the push deadline 1, the class at 2, two mail failures (one in
"timely"), so that a failed send may be followed by a failed release.

*Fairness.*

* `ClassBooking`, `ReconcileFairness`: `lib/scheduler.ts` runs the job every minute, so
  its start is weakly fair; a tick may fail at any time (`LoseTask`) but not every
  time, hence strong fairness of its three steps. The hooks of requests have none:
  they may all be lost. In the setting "ends" also the clock, the two sweeps, and
  that what a worker began ends by success or by failure (`TaskEnds`), as lock and
  transaction timeouts bound every transaction.
* `ProcessorPayments`, `HookFairness`: a webhook that is not answered is tried again,
  and not every try fails; a job ends; an intent ages. Mollie itself stops after ten tries in 26 hours; that an
  outage is shorter is assumed. No fairness of anybody's own actions.
* `PaymentDunning`: the clock moves and each step of a run succeeds if tried again and
  again (strong); a run and a resume, once begun, end (weak).
* `EntryGeneration`, setting "window": the hourly sweep comes back and a transaction
  ends, by its time limit. Failures and the teacher's calls are finitely many.
* `AttendanceSync`: a pass starts again (its triggers and its back-off) and, of the
  requests for a mark sent again and again, one is answered.
* `NotificationDelivery`, setting "timely": the clock, and the mail sweep's next step.

## Findings

1. `ErasedAfterBilling` (`gdpr.ts:732`). A student's erasure locks the classes it has
   a waitlist entry in and no others. Its `UPDATE` of the upcoming bookings tests the
   class in its own snapshot; when a completion of a class that is still `open`
   commits meanwhile, the row is tested again but the class is not, and a booking
   that was billed becomes `cancelled`. A class is completed straight from `open` in
   the last quarter of an hour of its duration if the start sweep has not come round,
   and the run follows the classes of which that is so (`MissedStartSpec`: no step
   makes the class `in_progress`). Its trace: a student books; the erasure begins its
   `UPDATE` one step before that quarter of an hour; the completion, from `open`, bills
   the booking; the `UPDATE` is written. Under `Spec` there is a second way: once the
   class has started its teacher's own erasure completes it at once, and the student's
   `UPDATE` may have begun before the start. The mechanism, an
   `UPDATE` that follows a row it waited for but keeps its snapshot of the others, is
   the one the repository describes at `class-lifecycle.ts:574`.
   `payment-request-copy.ts:67` says "A cancelled registration is not charged and gets
   no payment request."
2. `SettleBlocked` (`payments.ts:356`). A payment settled through Mollie is marked
   unpaid by hand, which is allowed while the grant is revoked and leaves the
   attempt's `settledPayment` set. After a reconnect a second attempt is paid; the
   write of its `settledPayment` breaks the unique index, the transaction is rolled
   back on every retry, and the payment stays owed. The return page's log says "the
   webhook will settle it" (`processor-return/route.ts:57`).

## Divergences

Found while modelling, by reading or by a run that stated the documented claim. The
models follow the code, so the properties above are stated as the code keeps them
and no run of the project checks the claims below.

* **A late cancel by the teacher** (`api/registrations/[id]/route.ts:257`).
  `docs/data-model.md:822` says a teacher's write reaches `late_cancel` only as a
  return from `attended` or `no_show`. The code asks for `lateCancelledAt`, which a
  booking made anew after a late cancel still carries, so a `registered` booking
  becomes `late_cancel`.
* **A waive over cash** (`processor-attempts.ts:409`). The waive of a completed refund is a
  compare-and-set on `paid` alone; it does not ask whether the payment is paid by the
  attempt that was refunded. TLC's trace: a payment settled through Mollie is refunded
  with a waive, and Mollie has accepted the refund; the grant is revoked; the teacher
  marks the payment unpaid, which is allowed without a grant and keeps the attempt's
  `settledPayment`, and then paid in cash; after a reconnect the next sync learns that
  the refund went through, and the cash payment becomes `not_charged`, its method and
  `paidAt` cleared. `payments.ts:389` says of `not_charged` that "nothing arrived". The
  same follows with the grant in place where the bank takes the payment back while it is
  being refunded, and it is then paid in cash. Both happen in the run `ProcessorSafety`
  ("regranted" and "refund"). What the code does keep, in every setting, is
  `WaivedOncePerRefund`: the refund that takes the payment is one that was asked for with
  a waive, and takes it once.
* **A seat past the queue** (`api/registrations/route.ts:320`).
  `docs/product-concept.md:129` promises a freed seat to the first student waiting;
  between the cancel and its hook a direct booking takes it.
* **An ended refund adopted** (`processor-attempts.ts:671`). The answer to a refund's
  creation is lost, so its intent waits. A refund of the same amount made in Mollie's
  dashboard has failed. The next sync goes through Mollie's list and `adoptionFor`, which
  looks at the amount and not at the status, may hand the failed one to the intent: the
  intent ends with it, and the refund fair.yoga asked for is ignored when it arrives, with
  neither a row nor an intent. `unheldRefund` (`processor-refunds.ts:311`) guards against
  this on the teacher's next request, the sync does not. `docs/degradation-sites.md:929`
  says the sync "adopts the refund into the kept intent". The order of Mollie's list is
  left open in the model; in the setting "retries" with one attempt and both refunds TLC
  finds `RefundHasRow` violated. No setting of a run has a dashboard refund beside an
  intent's own.
* **An older mark wins** (`attendance-outbox.ts:404`). Two tabs' taps are both refused
  by storage; the older one is written on a retry and the newer is dropped from the
  other tab's memory, so that the older one is what the server gets last.
  `docs/technical-architecture.md:829`: "a new tap replaces that
  registration's pending entry". `NothingLost` is about storage that accepts.
* **A late request** (`attendance-sync.ts:191`). A request the page gave up on may be
  applied after the mark that replaced it, as the `PUT` carries neither time nor id.
  `docs/technical-architecture.md:831` says replays cannot overwrite later marks.
  `RecordedInOrder` excepts requests that were given up on.
* **Chased while paused** (`payment-reminders.ts:142`). The job lists the due payments
  of teachers who are not paused and does not look at the pause again;
  `payment-reminders.ts:78` says a paused teacher's students are not chased.
* **Dunned after paying** (`payout-resume.ts:366`). The resume stamps what it read
  without a condition on the status; a payment marked paid in between is told to
  pay. `payments.ts:466` calls that "the one failure this feature must never produce".
* **Overdue over paid** (`payments.ts:224`). `markPaymentOverdue` reads, then writes by
  id alone; its comment (`:209`) says "Only valid from 'pending' status." Nothing
  outside the tests calls it.
* **A second class in a week** (`entry-generation.ts:699`). A teacher moves an unbooked
  class into a week the sweep has just read as free: the lock it works under is the
  template's, which a move does not take. `docs/product-concept.md:125` says "at most
  one per week per template". `OnePerWeek` is about entries that were not moved.
* **A class moved under an archive** (`class-template-lifecycle.ts:936`). Between the
  pre-lock and the delete of an archive a class of today may be moved to a later day,
  booked, queued for and given up; the delete takes it, and who waited is not told. The
  comment names the move and draws its conclusion for the locks; that the wide read of
  the waiters (`:984`) misses that class too, TLC found. `WaitersTold` excepts it.
* **A block beside a link** (`link-consent.ts:99`). A booking's delete of the block sees
  committed rows only, then waits for a decline in progress; the decline commits its
  block, the booking its link. The comment at `link-consent.ts:96` gives the delete as
  what rules that pair out.
* **An erased address written back** (`api/students/route.ts:133`). After
  `inviteContact` has committed, the route stamps the address it told; if the
  person's erasure scrubs the row in between, the address is back.
  `docs/data-model.md:552` says it is scrubbed wherever it is held.
* **An archived link that owes** (`payments.ts:328`). A reopen for a student who has
  left the teacher finds no link and goes on without a lock. Before it commits the
  person books again, the class is completed and paid, and the teacher archives them:
  the payment is open beside the archived link. `docs/data-model.md:371`: "an archived
  link has nothing live"; the argument "Reopen against archive" of
  `docs/lock-order.md:1693` has both sides queue on the link's row. With `Unlink` added
  to the requests of `Archiving`, TLC finds `ArchivedHasNothingLive` violated with two
  at a time. No scope of the run has `Unlink` and `Reopen` together.
* **Two invitations, one teacher** (`gdpr.ts:816`). The erasure updates the person's
  invitations in no stated order, so with two of one teacher's it can wait in a circle
  with an edit. `docs/lock-order.md` orders tables, not rows of one table; PostgreSQL
  fails one of the two. `OrderedLocks` keeps to scopes with at most one invitation.

## What is proved

TLAPS proves, each for every value of the constants under the named assumptions of
the modules:

| theorem | property | module |
|---|---|---|
| `TypeCorrect` | `TypeOK` | `ClassBooking_proofs` |
| `TermsLocked` | `BookedTermsLocked` | `ClassBooking_proofs` |
| `NoQueueUnlessOpen`, `NoSeatAndQueue` | `QueueOnlyWhileOpen`, `NobodyWaitsWithSeat` | `ClassBooking_proofs` |
| `ClassAgrees` | `Consistent` | `ClassBooking_proofs` |
| `SeatsNotOversold` | `SeatsWithinCapacity` | `ClassBooking_proofs` |
| `ToldTheTruth` | `BroadcastTellsTheTruth` | `ClassBooking_proofs` |
| `QueueIsNumbered` | `QueueNumbered` | `ClassBooking_proofs` |
| `CancelsAreFinal`, `BookedTermsStay` | `CancelIsFinal`, `TermsKeptOnceBooked` | `ClassBooking_proofs` |
| `CalledOffStays`, `KeptOnce`, `BillStays`; `DecisionsStand` | the parts of `OutcomesAreFinal`; all of it | `ClassBooking_proofs` |
| `BillMatches` | `BillMatchesBookings` | `ClassBooking_proofs` |
| `ErasedAreOut` | `ErasedHoldNoSeat` | `ClassBooking_proofs` |
| `QueueImplemented` | `ImplementsPromotionQueue`, the refinement | `ClassBooking_proofs` |
| `LineIsOne` | `InLine` of `PromotionQueue`: its line is a strict total order | `ClassBooking_proofs` |
| `TypeCorrect` | `TypeOK` | `ProcessorPayments_proofs` |
| `RowsAlwaysAgree` | `Agreed`, the inductive invariant | `ProcessorPayments_proofs` |
| `LedgerImplemented` | `ImplementsLedger` | `ProcessorPayments_proofs` |
| `RefundsAreAccounted` | `RefundsAccounted` | `ProcessorPayments_proofs` |
| `PaymentConsistent`, `WaivesOnce` | `Consistent`, `WaivedOncePerRefund` | `ProcessorPayments_proofs` |
| `ConsistentInSettings` | `Consistent` and `RefundsAccounted` in the settings of `ProcessorSafety` | `ProcessorPayments_proofs` |
| `TypeInvariant`, `StampInvariant`; `StampsAgree` | the parts of `Consistent`; all of it | `PaymentDunning_proofs` |
| `OwingChased`, `NoticesSpacedOut`, `PeriodToPay` | `OnlyTheOwingChased`, `SpacedOut`, `FullPeriodToPay` | `PaymentDunning_proofs` |
| `TypeInvariant`, `OneEntryPerWeek`, `ArchivedRulesRest`; `RulesAgree` | the parts of `Consistent`; all of it | `EntryGeneration_proofs` |
| `OnlyRunningRulesGrow` | `AddedWhileRunning` | `EntryGeneration_proofs` |
| `ArchivesAccount` | `ArchiveAccounted` | `EntryGeneration_proofs` |
| `PromisesKept` | `PromiseKept` | `EntryGeneration_proofs` |
| `TypeInvariant`, `RowMailedOnce`, `RowPushedOnce`, `OneReminderEach`, `LateBookersSpared`; `NobodyToldTwice` | the parts of `ToldOnce`; all of it | `NotificationDelivery_proofs` |
| `NoneDropped` | `NothingDropped` | `NotificationDelivery_proofs` |
| `NothingStalePushed` | `PushedInTime` | `NotificationDelivery_proofs` |
| `TypeCorrect`, `OverStaysOver`, `MarksAreStored`; `StoreConsistent` | the parts of `Consistent`; all of it | `OutboxStore_proofs` |
| `HeldUntilWritten` | `KeptUntilWritten` | `OutboxStore_proofs` |
| `ConfirmedMarksWereRecorded`, `MarksAreRecordedInOrder`; `ReplaysAreTrue` | the parts of `ReplayIsTrue`; all of it | `OutboxStore_proofs` |
| `RequestsKeepTheirLocks` | `Inv` and `Tidy`, the inductive invariant | `RosterConsent_proofs` |
| `RosterTypeOK`, `RosterErasedLeavesNothing`, `RosterArchivedHasNothingLive` | the parts of `Consistent` | `RosterConsent_proofs` |
| `RosterConsistent` | `Consistent` | `RosterConsent_proofs` |
| `AnswersAreHeeded` | `Inv`, `Tidy` and `Consent`, the inductive invariant of the answers | `RosterConsent_proofs` |
| `RosterRefusalStands`, `RosterTombstoneStays` | `RefusalStands`, `TombstoneStays` | `RosterConsent_proofs` |
| `RequestsAskInOrder` | `Inv`, `Tidy` and `Orderliness`, the inductive invariant of the lock order | `RosterConsent_proofs` |
| `RosterOrderedLocks` | `OrderedLocks` | `RosterConsent_proofs` |

*Assumptions.* Those the modules state of their constants. `ClassBooking`: the
students are finitely many, the sweep is not a handler, capacities are positive (a
class that is full has somebody in it). `ProcessorPayments`: attempts, intents and
refunds are finitely many, and "none" is the name of none of them, nor of an outcome
or a method. `PaymentDunning`: the cooldown is at most the
reminder period, and the horizon lies beyond both periods, so that an age at the
bound is longer than any of them. `EntryGeneration` and `RuleCalendar`: weeks have
days and days have slots, sweeps are not requests, slots are within the week. The
delivery modules: bounds and thresholds are numbers, those of the push positive, a
reminder's moment lies before the class, bookings are numbered from 1. `OutboxStore`: a bound on the taps, every
registration's teacher is an account of the device, and "none" and "all" are the names
of nothing else (`AttendanceSync`: "none" is neither an answer nor a pass). No assumption says which storage calls fail: `Refusals` is any set of
sets of them. `RosterConsent`: the classes and the invitations are finite sets of numbers, a
scope's are among them, and "none" is the value of no column. The workers and how many
may be under way at once are arbitrary, and so are the requests a scope lets meet, but
for one theorem: `RosterArchivedHasNothingLive`, and with it `RosterConsistent`, is of
scopes in which not both a person leaves and a payment is reopened. Every scope of the
run is one; what happens otherwise is the divergence "An archived link that owes".

*The argument.* Each property is proved from an inductive invariant, and an
invariant may assume, of the state a step starts from, the ones proved before it.

For `ClassBooking`:

* `TermsInv` adds to `BookedTermsLocked` that nobody has booked a draft or waits for
  one (`UnbookedDraft`) and that a cancel under way is of a booking that exists
  (`CancelsABooking`). Without the second, the late write of a cancel could create a
  booking on terms nobody locked: its write does not look whether there is a row,
  and relies on the read before it and on rows not going away. Joining locks nothing,
  but needs a full class, and a full class has a booking (`FullIsBooked`).
* `QueueInv` joins `QueueOnlyWhileOpen` and `NobodyWaitsWithSeat`, which need each
  other: an attendance edit may return a late cancel to a seat without looking at the
  queue, and it is only because it must not do so while the class is open, and nobody
  waits once it is not, that this seats nobody who waits.
* `SeatsWithinCapacity` uses `TermsInv` twice: a draft that is published has no
  bookings to count, and a capacity that may still be edited has none either.
* `BroadcastInv` adds that nothing was announced of a draft, and that what was
  announced was announced on locked terms. It uses `QueueInv` where the broadcast
  looks neither at the class's status nor at `cancelledAt`, and `TermsInv` where it
  announces a seat of a capacity that could otherwise still be edited.
* `NumberedInv` adds that positions are distinct. A renumbering counts those up to
  one's own position, which is strictly monotone in distinct positions, hence an
  injection into `1..n`, hence onto it (`RenumberedNumbers`).
* `BillInv` adds that nothing is billed before the class completes. Two lemmas say
  what a step can do to one booking (`BookingMoves`) and to the class
  (`ClassMoves`); the action properties and the bill follow from them.
* `ErasureInv` says of an erased student, and of one whose erasure is under way, that
  they are out of the queue and hold no upcoming seat but the one the `UPDATE` under
  way has still to cancel. Promotion takes only from the queue, and every other way
  to a seat waits for the student's row.
* The refinement maps the positions to the order they make (`Ahead`). A departure writes
  every position anew and keeps the order of those who stay (`RenumberedOrder`,
  `QueueLeft`); who joins gets a position above all others, as the queue is numbered
  (`NumberedInv`). A promotion is of the head into a free seat, as the head `promoteNext`
  takes cannot hold a seat (`QueueInv`); a capacity changes only where nobody is booked
  or waits (`TermsInv`); and the late `UPDATE` of an erasure, which may take a seat, finds
  its student out of the queue already (`ErasureInv`). Every other step is a stutter (`Unseen`).
  `LineIsOne` is of the abstract queue alone: what its actions do to `ahead` keeps it a
  strict total order, so that "the head" is one student and nobody overtakes.

For `ProcessorPayments` four invariants, each assuming those before it:

* `Agreed`: what the rows say of Mollie is so, and what a job was answered either still
  is or was not final. With `Checkouts` (an attempt is stored by the one request that
  made it) it gives the refinement: a step of the program changes the share of the
  payment that one attempt holds, and none that the ledger would not.
* `Accounted`: the request that recorded an intent is alone with it until the intent is
  old (`OwnsIntent`); of an attempt at most one refund is under way or done
  (`OneUnderWay`); and a refund Mollie has of ours without a row has an intent that
  waits for it (`UnknownAwaited`). `RefundsAreAccounted` follows. Its two hypotheses are
  what the code relies on: no call to Mollie outlives `ADOPT_AFTER_MS` (`~SlowCalls`; the
  client's timeout is shorter), and a dashboard refund that failed stands alone
  (`DashboardEndedAlone`), without which the adoption of an ended refund (above) refutes
  it.
* `Applied`: an attempt that settles belongs to a payment paid through Mollie
  (`SettledPaid`), and a completed refund's outcome has been applied and one under way
  can still be (`OutcomesApply`, `OutcomesWait`). It holds until the grant is revoked
  (`Lapses`; finding 2 and the waive over cash are what happens afterwards) and as long
  as no bank takes back a payment that is being refunded while another attempt may
  settle; that and
  `DashboardEndedAlone` are `Undisturbed`. `ConsistentInSettings` shows that every setting
  of `ProcessorSafety` is `Undisturbed` by its own terms, for any number of attempts,
  refunds and jobs.

`WaivesOnce` needs none of these conditions, only `Agreed`: whatever becomes of the
grant, a sync or an answer completes a refund that is still live, and the completion is
the one place where `paid` becomes `not_charged`.

A sync's transaction folds over Mollie's list of refunds, in any order. That the fold
keeps an invariant is proved from the least step at which it would not (`UpTo`), which
needs no induction theorem with an operator for a parameter.

For `PaymentDunning`: `StampIsNotice` is inductive next to the types, as every step that
stamps tells. The period to pay needs `PauseHistory`: while payments are not paused,
the students could last not pay when they were resumed, which is the instant the
sweep's condition reads.

For `EntryGeneration` the properties are not inductive, because a sweep inserts what
it decided several steps earlier. `Control` says what a job between two of its reads
can rely on: which jobs have a rule at which step (`JobsOK`), that a transaction holds
its template's row (`LocksOK`), that a rule is created once and by one request
(`SlotsOK`), and that what a transaction saw of the rule under its lock still holds
(`RulesOK`). `FreeWeeks` says that the dates a generator means to fill are in weeks of
their own, and in none where an unmoved entry of the rule stands, since all who add
such entries hold the same row lock or create the rule. From
these `OnePerWeek` and `ArchivedIsInactive` follow step by step. That the calendar is
finite (`IsFiniteSet(entries)`) is what lets an archive count what it withdraws.
`ArchiveInv` adds that an archive about to delete holds every class it could delete that
was not moved there (`ReachHeld`): no generator of the rule gets in beside it, and every
door but the studio's waits for the rows it holds. `PromiseKept` needs no history: it
follows from the types by comparing the two ways of looking at a week, the first of the
promised weeks being found by well-foundedness.

For the delivery modules there are four invariants, one per job and one of types
(`Shape`). `MailInv`: a sweep holds a row from its claim to its release, at most one
holds it, whoever holds it has marked it, and only the holder mails; so a row mailed
twice was released after an answer that was lost. `PushInv`: what is not yet claimed
was sent to no device, at most one tick has claimed a row, and the devices it still
has to send to are those it has not sent to; what a tick under way found too old is
handled (`StaleHandled`), so that no claim that comes late gets it. `RemindInv`: the stamp, and the row
written with it, precede any mail of a reminder, and a booking's number rises with
each rebooking, so the reminder of an earlier booking is never counted for a later.

For `OutboxStore` every operation but a read, a reload and a clear of everything is
shown to be an `Edit`: a document made from what the tab showed, which the write then
takes whole, in part or not at all (`ApplyOutcome`). The invariant is about edits only,
and there are four parts of it:

* `Sited` and `KnownHeld`: a mark is in the slot of its own registration, and an
  override was made over the document the tab knows. These hold for every device.
* `OverDropped`, on a device whose storage can be read and removed: a tab that holds a
  mark that is over either holds it as storage once did, or has a clear to notice. Both
  make it drop the mark at its next read, before it shows or writes it. It is not
  inductive without `SoleHolder`: a mark that two tabs hold, and one of them settles,
  must be one that the other took over from storage.
* `ClearedHere`: between a clear and its record, which are two steps, the mark is in
  neither storage nor the tab that clears.
* `WholeInv`, where nothing is refused: no tab holds anything of its own.

`KeptUntilWritten` needs only the first: a mark a tab holds and storage does not
(`Waits`) survives a read (`WaitsSurvives`), and an edit stores it or leaves it waiting
(`EditWaits`).

For `AttendanceSync` the store takes its own steps, for which the invariant above is
inductive, and a pass is put beside it (`SyncInv`): what is on its way was tapped
(`AllTapped`), an answer "confirmed" is to a mark the server has recorded (`PassInv`),
and no slot, known document or overlay of any tab, stored or in memory, shows as
confirmed what was never recorded (`Told`). The last is what makes
`ConfirmedWasRecorded` hold on devices that refuse: a retry may write minutes later
what a tab held in memory, in pieces. `RecordedInOrder` needs `OrderInv`, for devices
whose storage takes every write: a stored mark is the newest of its registration
(`NewestStored`), and a pass holds no mark older than one of its registration that was
ever sent or that it has still to send (`NewestHeld`). A pass reads its marks once,
and what is tapped meanwhile is newer and is sent by a later pass, after the lock is
free.

For `RosterConsent` the proof is in two layers. `RosterRequest_proofs` looks at one
request, alone with any rows it might see: each statement of each of the twenty-one
requests puts only what its columns hold (`Fit`, `Shape`), and a request at its *n*-th
statement holds the locks that got it there and has drafted what it has written so far
(`Good`: typed, with locks that fit the rows, and with what passed each gate still so, as
the row of that gate is locked). `RosterConsent_proofs` puts them together:

* `Apart`: no two requests hold the same row in modes that conflict; `Exclusive`: no two
  have uncommitted writes of one key of the index or of one invitation. These make what a
  request knows of a row it locked a fact about the committed row, so that somebody
  else's commit cannot change it (`CommitKeeps`).
* `Moving` is what is known of the addresses while a request is between taking an
  invitation and taking the entry of the index. One invitation per address follows from
  it (`PassAddressed`), and does not from the index alone: an edit frees the old entry and
  takes the new in one statement of two waits.
* An erased person is left nothing because every request that gives them something
  holds their row until it commits (`LockLiveStudent`, or the key share of a
  promotion), and because the erasure looks at the queue once more when no join can be
  under way.
* An archived link has nothing live because whatever makes something live takes the
  link's lock afterwards, and clears the archive; a completion makes no payment that
  was not a seat before.

`Tidy` says what one request may leave behind in its own drafts, and is what `Good` needs
of the state when a request begins its next statement.

The two action properties need a third part, `Consent`, which relates the rows to the
person's last word:

* `Standing`: whoever left or declined is blocked for the teacher.
* `Heeds`, of every request under way: what it has drafted over a declined invitation
  keeps it but for the address it was told, unless it is a booking, a queue entry or an
  erasure (`Respects`); an acceptance or a walk-in that has looked for a block for the
  last time knows that the person has not left, as an unlinking past its delete holds the
  link that they hold too (`Looked`, `Leaving`); a teacher's add writes a link that is
  there and makes none (`Adding`).

What the person said and every row change in a commit only (`RowsTurn`, `LastSays`), so
that it is enough to say of each commit what it makes of an answer (`CommitSays`,
`CommitStanding`, `CommitRelinks`) and that the others still heed it (`CommitHeeds`).

That no requests wait in a circle needs `Orderliness`, of every request: a row it holds
was asked for by an earlier statement, or by the one under way if that asks for several
(`Retained`); the classes it holds are lower than those it waits for (`Ascending`); and
what it waits for is what its statement asks for, where an insert stands alone
(`Awaiting`). The tables of `RosterRequest_proofs` say which statement of which request
asks for a row of which table, and `Onward` reads off them what can still be asked for
after a row of a table. No one order of the tables is kept by every request: a promotion
takes the class before the person's row and a booking after it, an edit takes an entry of
the index after its invitation and a walk-in before it, an erasure comes back to the
person's row. So the proof removes one table after the other from a supposed circle:

* Nobody waits for a queue entry, whose class they both would have (`NoQueueWaits`), or
  for a block, which only the holder of the link lifts (`NoBlockWaits`); an erasure that
  comes back to the person's row finds no promotion on it (`NoErasureWaits`); an edit
  finds no second invitation to contend with (`NoEditWaits`).
* Whoever is waited for while it waits has, in a circle, no invitation and no entry of
  the index (`RingInvitations`), no payment, link or privacy row (`RingLinks`: two
  archives would both have the link), and no registration (`RingBookings`: two erasures
  would both have the person).
* The classes waited for would have no highest (`RingClasses`), and a promotion waits for
  the person's row only where an erasure waits for nothing any more (`AfterErasure`).
* What is left is the person's row, and who has it waits for something else (`NoRing`).

The circle may be of any number of requests: but for the classes, the proof follows three
of them at most.

*Only model-checked.* The liveness properties (`FreedSeatIsAnswered`, `TimedClassEnds`,
`PaidIsRecorded`, `RefundIsRecorded`, `RemindedAgain`, `TimedWindow`, `MarksSettle`,
`TimelyReached`): fairness and `ENABLED` are out of the prover's reach. Every invariant,
action property and refinement a passing run checks has its theorem. The two violated
claims are counterexamples.

## Not modelled

* **Waitlist retention**: one statement on rows nothing else reads any more.
* **Class and template deletion, studio classes' own fields, rooms**: no state of
  another part depends on them beyond what the modules have.
* **Processor connection and tokens**: OAuth and the refreshing of tokens; what the
  end of a grant does to attempts and refunds is in `ProcessorPayments`.
* **Pricing**: arithmetic on floating-point money with unit tests of its own. TLA+ has
  no floating point, and a version in exact fractions would not be this code.
* **Donations, announcements, operator signals**: they write no state the other parts
  read.
* **Authentication**: sessions, magic links and passkeys; the models start behind it.
* **The web interface, the seed, the embedded documents, migrations and deployment**:
  rendering, data and configuration. They are most of the repository's lines, which
  is why the definitions, though they cover the services that carry its logic, stand
  for a small share of all of them.
