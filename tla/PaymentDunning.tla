--------------------------- MODULE PaymentDunning ---------------------------
(***************************************************************************)
(* How an outstanding payment is chased: the sweep that turns it overdue    *)
(* and reminds (services/payment-reminders.ts), the teacher's and the       *)
(* student's doors on it (services/payments.ts), and the pause and resume   *)
(* of a teacher's payments (services/payout-pause.ts, payout-resume.ts).    *)
(*                                                                          *)
(* The payments are one teacher's, and no processor attempt settles them    *)
(* (ProcessorPayments has those).  Time is told by ages, counted in steps   *)
(* of the clock up to Horizon; a sweep or a request ends within a step.     *)
(* A transaction is one step, except the resume's, whose read and write of  *)
(* the payments are two statements.  Erased accounts are left out.          *)
(***************************************************************************)
EXTENDS Naturals

CONSTANTS
    Payments,     \* the payments of one teacher's classes
    Sweeps,       \* the runs of the payment-reminders job that may overlap
    OverdueAfter, \* OVERDUE_AFTER_DAYS, in steps of the clock
    RemindEvery,  \* REMIND_EVERY_DAYS
    Cooldown,     \* MANUAL_REMIND_COOLDOWN_MS
    Horizon,      \* bound: the greatest age told apart
    None

ASSUME PeriodAssumption ==
    /\ OverdueAfter \in Nat
    /\ RemindEvery \in Nat
    /\ Cooldown \in 0..RemindEvery
    /\ Horizon \in Nat
    /\ OverdueAfter < Horizon
    /\ RemindEvery < Horizon

ASSUME NoneAssumption == None \notin Nat

VARIABLES
    status,       \* Payment.status
    claimed,      \* Payment.studentReportedAt is set
    age,          \* since Payment.createdAt
    reminderSent, \* since Payment.reminderSentAt
    paused,       \* Teacher.paymentsPausedAt is set
    resumed,      \* since Teacher.paymentsResumedAt
    sweep,        \* how far each run is, and the payments it still has to remind
    resume,       \* the payments a resume has read and not yet written, if any
    checked,      \* the payments a markPaymentOverdue has read as pending
    told,         \* history: since a student last got a notice about the payment
    asked,        \* history: since the students could last not pay (paused)
    sent          \* history: the notices the last step sent

payVars == <<status, claimed, age>>
pauseVars == <<paused, resumed, asked>>
jobVars == <<sweep, resume, checked>>
vars == <<payVars, pauseVars, jobVars, reminderSent, told, sent>>

Ages == 0..Horizon
MaybeAge == Ages \cup {None}
Outstanding == {"pending", "overdue"}
Settled == {"paid", "not_charged"}
Notices == [payment : Payments, kind : {"sweep", "manual", "rejected", "resumed"}]

TypeOK ==
    /\ status \in [Payments -> Outstanding \cup Settled]
    /\ claimed \in [Payments -> BOOLEAN]
    /\ age \in [Payments -> Ages]
    /\ reminderSent \in [Payments -> MaybeAge]
    /\ paused \in BOOLEAN
    /\ resumed \in MaybeAge
    /\ sweep \in [Sweeps -> [at : {"idle", "flipped", "reminding"},
                             due : SUBSET Payments]]
    /\ resume \in (SUBSET Payments) \cup {None}
    /\ checked \in SUBSET Payments
    /\ told \in [Payments -> MaybeAge]
    /\ asked \in MaybeAge
    /\ sent \in SUBSET Notices

Init ==
    /\ status = [p \in Payments |-> "pending"]
    /\ claimed = [p \in Payments |-> FALSE]
    /\ age = [p \in Payments |-> 0]
    /\ reminderSent = [p \in Payments |-> None]
    /\ paused = FALSE
    /\ resumed = None
    /\ sweep = [s \in Sweeps |-> [at |-> "idle", due |-> {}]]
    /\ resume = None
    /\ checked = {}
    /\ told = [p \in Payments |-> None]
    /\ asked = None
    /\ sent = {}

\* An instant lies more than n steps back, or there was none.
OlderThan(instant, n) == instant \notin 0..n
\* Fault: an age beyond the ones told apart.
NextAgeUncapped(a) == IF a = None THEN a ELSE a + 1

NextAge(a) == IF a = None \/ a = Horizon THEN a ELSE a + 1

\* A notice of this kind goes out about each payment of P, stamped as one.
Notify(P, kind) ==
    /\ reminderSent' = [p \in Payments |-> IF p \in P THEN 0 ELSE reminderSent[p]]
    /\ told' = [p \in Payments |-> IF p \in P THEN 0 ELSE told[p]]
    /\ sent' = [payment : P, kind : {kind}]

NoNotice == sent' = {} /\ UNCHANGED <<reminderSent, told>>

---------------------------------------------------------------------------
(* The sweep (processPaymentReminders) *)

\* Fault: the teacher's last resume does not count.
FlipOverdueByAge(s) ==
    /\ sweep[s].at = "idle"
    /\ status' = [p \in Payments |->
                    IF status[p] = "pending" /\ age[p] > OverdueAfter /\ ~paused
                    THEN "overdue" ELSE status[p]]
    /\ sweep' = [sweep EXCEPT ![s].at = "flipped"]
    /\ NoNotice
    /\ UNCHANGED <<claimed, age, pauseVars, resume, checked>>

\* markOverduePayments: every pending payment that was payable long enough.
FlipOverdue(s) ==
    /\ sweep[s].at = "idle"
    /\ status' = [p \in Payments |->
                    IF /\ status[p] = "pending"
                       /\ age[p] > OverdueAfter
                       /\ ~paused
                       /\ OlderThan(resumed, OverdueAfter)
                    THEN "overdue" ELSE status[p]]
    /\ sweep' = [sweep EXCEPT ![s].at = "flipped"]
    /\ NoNotice
    /\ UNCHANGED <<claimed, age, pauseVars, resume, checked>>

\* Fault: a payment reminded once is not due again.
ReadDueOnce(s) ==
    /\ sweep[s].at = "flipped"
    /\ sweep' = [sweep EXCEPT
                   ![s].at = "reminding",
                   ![s].due = {p \in Payments :
                                 /\ status[p] = "overdue"
                                 /\ ~claimed[p]
                                 /\ reminderSent[p] = None
                                 /\ ~paused}]
    /\ NoNotice
    /\ UNCHANGED <<payVars, pauseVars, resume, checked>>

\* readDuePayments: none is due while the teacher has payments paused.
ReadDue(s) ==
    /\ sweep[s].at = "flipped"
    /\ sweep' = [sweep EXCEPT
                   ![s].at = "reminding",
                   ![s].due = {p \in Payments :
                                 /\ status[p] = "overdue"
                                 /\ ~claimed[p]
                                 /\ OlderThan(reminderSent[p], RemindEvery)
                                 /\ ~paused}]
    /\ NoNotice
    /\ UNCHANGED <<payVars, pauseVars, resume, checked>>

\* Faults: part of what was read is trusted when the stamp is written.
StillDueUnclaimed(p) == status[p] = "overdue" /\ ~claimed[p]
StillDueUnstamped(p) == OlderThan(reminderSent[p], RemindEvery)

\* One payment of the list: stamped and notified, unless it no longer is due.
StillDue(p) ==
    /\ status[p] = "overdue"
    /\ ~claimed[p]
    /\ OlderThan(reminderSent[p], RemindEvery)

RemindDue(s, p) ==
    /\ sweep[s].at = "reminding" /\ p \in sweep[s].due
    /\ sweep' = [sweep EXCEPT ![s].due = @ \ {p}]
    /\ IF StillDue(p) THEN Notify({p}, "sweep") ELSE NoNotice
    /\ UNCHANGED <<payVars, pauseVars, resume, checked>>

SweepEnds(s) ==
    /\ sweep[s].at = "reminding" /\ sweep[s].due = {}
    /\ sweep' = [sweep EXCEPT ![s].at = "idle"]
    /\ NoNotice
    /\ UNCHANGED <<payVars, pauseVars, resume, checked>>

\* A statement or a reminder's transaction fails, and the run with it.
SweepFails(s) ==
    /\ sweep[s].at # "idle"
    /\ sweep' = [sweep EXCEPT ![s] = [at |-> "idle", due |-> {}]]
    /\ NoNotice
    /\ UNCHANGED <<payVars, pauseVars, resume, checked>>

---------------------------------------------------------------------------
(* The teacher's doors on a payment *)

\* markPaymentPaid; the student's claim is kept.
MarkPaid(p) ==
    /\ status[p] \in Outstanding
    /\ status' = [status EXCEPT ![p] = "paid"]
    /\ NoNotice
    /\ UNCHANGED <<claimed, age, pauseVars, jobVars>>

\* markPaymentNotCharged; the claim is cleared.
MarkNotCharged(p) ==
    /\ status[p] \in Outstanding
    /\ status' = [status EXCEPT ![p] = "not_charged"]
    /\ claimed' = [claimed EXCEPT ![p] = FALSE]
    /\ NoNotice
    /\ UNCHANGED <<age, pauseVars, jobVars>>

\* reopenPayment; the claim and the reminder's stamp are kept.
Reopen(p) ==
    /\ status[p] \in Settled
    /\ status' = [status EXCEPT ![p] = "pending"]
    /\ NoNotice
    /\ UNCHANGED <<claimed, age, pauseVars, jobVars>>

\* Fault: a paused teacher is refused, but the stamp stays.
RemindByHandStamped(p) ==
    /\ status[p] \in Outstanding
    /\ OlderThan(reminderSent[p], Cooldown)
    /\ reminderSent' = [reminderSent EXCEPT ![p] = 0]
    /\ IF paused
       THEN sent' = {} /\ UNCHANGED told
       ELSE told' = [told EXCEPT ![p] = 0] /\ sent' = [payment : {p}, kind : {"manual"}]
    /\ UNCHANGED <<payVars, pauseVars, jobVars>>

\* sendPaymentReminder; a paused teacher is refused and the stamp rolled back.
RemindByHand(p) ==
    /\ status[p] \in Outstanding
    /\ OlderThan(reminderSent[p], Cooldown)
    /\ ~paused
    /\ Notify({p}, "manual")
    /\ UNCHANGED <<payVars, pauseVars, jobVars>>

\* rejectPaymentReport, "Not received": the claim goes and the student is told.
RejectReport(p) ==
    /\ status[p] \in Outstanding
    /\ claimed[p]
    /\ ~paused
    /\ claimed' = [claimed EXCEPT ![p] = FALSE]
    /\ Notify({p}, "rejected")
    /\ UNCHANGED <<status, age, pauseVars, jobVars>>

\* markPaymentOverdue, which nothing calls: the status it read, and the write
\* that does not look.
ReadPending(p) ==
    /\ status[p] = "pending"
    /\ checked' = checked \cup {p}
    /\ NoNotice
    /\ UNCHANGED <<payVars, pauseVars, sweep, resume>>

WriteOverdue(p) ==
    /\ p \in checked
    /\ checked' = checked \ {p}
    /\ status' = [status EXCEPT ![p] = "overdue"]
    /\ NoNotice
    /\ UNCHANGED <<claimed, age, pauseVars, sweep, resume>>

(* The student's doors *)

ReportSent(p) ==
    /\ status[p] \in Outstanding
    /\ ~claimed[p]
    /\ claimed' = [claimed EXCEPT ![p] = TRUE]
    /\ NoNotice
    /\ UNCHANGED <<status, age, pauseVars, jobVars>>

WithdrawReport(p) ==
    /\ status[p] \in Outstanding
    /\ claimed[p]
    /\ claimed' = [claimed EXCEPT ![p] = FALSE]
    /\ NoNotice
    /\ UNCHANGED <<status, age, pauseVars, jobVars>>

---------------------------------------------------------------------------
(* The pause and the resume of the teacher's payments *)

\* A resume that has begun holds the teacher's row.
Pause ==
    /\ ~paused
    /\ resume = None
    /\ paused' = TRUE
    /\ asked' = 0
    /\ NoNotice
    /\ UNCHANGED <<payVars, resumed, jobVars>>

\* The payments owed and unclaimed, read inside the resume's transaction.
ResumeReads ==
    /\ paused
    /\ resume = None
    /\ resume' = {p \in Payments : status[p] \in Outstanding /\ ~claimed[p]}
    /\ NoNotice
    /\ UNCHANGED <<payVars, pauseVars, sweep, checked>>

\* The stamps, by id, and the reminders; then all of it is committed.
ResumeCommits ==
    /\ resume # None
    /\ paused' = FALSE
    /\ resumed' = 0
    /\ asked' = 0
    /\ Notify(resume, "resumed")
    /\ resume' = None
    /\ UNCHANGED <<payVars, sweep, checked>>

ResumeFails ==
    /\ resume # None
    /\ resume' = None
    /\ NoNotice
    /\ UNCHANGED <<payVars, pauseVars, sweep, checked>>

\* The clock; a sweep or a resume in progress ends before it moves.
Tick ==
    /\ \A s \in Sweeps : sweep[s].at = "idle"
    /\ resume = None
    /\ age' = [p \in Payments |-> NextAge(age[p])]
    /\ reminderSent' = [p \in Payments |-> NextAge(reminderSent[p])]
    /\ told' = [p \in Payments |-> NextAge(told[p])]
    /\ resumed' = NextAge(resumed)
    /\ asked' = IF paused THEN 0 ELSE NextAge(asked)
    /\ sent' = {}
    /\ UNCHANGED <<status, claimed, paused, jobVars>>

Next ==
    \/ \E s \in Sweeps :
         \/ FlipOverdue(s)
         \/ ReadDue(s)
         \/ \E p \in Payments : RemindDue(s, p)
         \/ SweepEnds(s)
         \/ SweepFails(s)
    \/ \E p \in Payments :
         \/ MarkPaid(p) \/ MarkNotCharged(p) \/ Reopen(p)
         \/ RemindByHand(p) \/ RejectReport(p)
         \/ ReadPending(p) \/ WriteOverdue(p)
         \/ ReportSent(p) \/ WithdrawReport(p)
    \/ Pause \/ ResumeReads \/ ResumeCommits \/ ResumeFails
    \/ Tick

Spec == Init /\ [][Next]_vars

\* The clock runs, the job is run again and again, and a reminder it always
\* comes back to does not fail for ever; nor does the read that lists it.
RunFairness(s) ==
    /\ SF_vars(FlipOverdue(s))
    /\ SF_vars(ReadDue(s))
    /\ WF_vars(SweepEnds(s))
    /\ \A p \in Payments : SF_vars(RemindDue(s, p))

ClockFairness ==
    /\ SF_vars(Tick)
    /\ WF_vars(ResumeCommits \/ ResumeFails)

---------------------------------------------------------------------------
(* Properties *)

\* The stamp the sweep, the cooldown and the teacher's screen read is the time
\* the student was really told: none is stamped and not told, or told and not
\* stamped, whatever door or job sent the notice.
StampIsNotice == reminderSent = told

\* The stamps agree with what was sent.
Consistent == TypeOK /\ StampIsNotice

SentBy(kind, p) == [payment |-> p, kind |-> kind] \in sent'

\* Two notices of one payment are apart: the sweep's comes RemindEvery after
\* the last one of any kind, the teacher's after the cooldown, however runs,
\* doors and settlements interleave.
SpacedOut ==
    [][\A p \in Payments :
         /\ SentBy("sweep", p) => OlderThan(told[p], RemindEvery)
         /\ SentBy("manual", p) => OlderThan(told[p], Cooldown)]_vars

\* The sweep chases nobody who has paid, whom the teacher let off, or who says
\* it was sent: what it read of the payment may be stale when it writes.
OnlyTheOwingChased ==
    [][\A p \in Payments :
         SentBy("sweep", p) => status[p] = "overdue" /\ ~claimed[p]]_vars

\* The sweep turns a payment overdue only once its students could pay for the
\* whole period in one stretch: a pause starts it again when it ends.
FullPeriodToPay ==
    [][\A p \in Payments :
         (status[p] = "pending" /\ status'[p] = "overdue" /\ checked' = checked) =>
           /\ age[p] > OverdueAfter
           /\ ~paused
           /\ OlderThan(asked, OverdueAfter)]_vars

\* A payment that stays owed, with no claim and no pause, is spoken of again
\* and again: by the sweep, or by the teacher in its stead.
KeepsReminding ==
    \A p \in Payments :
        <>[](status[p] \in Outstanding /\ ~claimed[p] /\ ~paused)
            => []<>(told[p] = 0)

=============================================================================
