------------------------ MODULE PaymentDunning_proofs ------------------------
(***************************************************************************)
(* The safety properties of PaymentDunning for any payments, overlapping    *)
(* runs and periods.                                                        *)
(***************************************************************************)
EXTENDS PaymentDunning, TLAPS

USE DEF Ages, MaybeAge, Outstanding, Settled, Notices, payVars, pauseVars, jobVars, vars

---------------------------------------------------------------------------
(* Types *)

\* What Notify and NoNotice leave in the three variables they write.
LEMMA NotifyType ==
    ASSUME TypeOK, NEW P \in SUBSET Payments,
           NEW kind \in {"sweep", "manual", "rejected", "resumed"}, Notify(P, kind)
    PROVE  /\ reminderSent' \in [Payments -> MaybeAge]
           /\ told' \in [Payments -> MaybeAge]
           /\ sent' \in SUBSET Notices
  BY PeriodAssumption DEF TypeOK, Notify

LEMMA NoNoticeType ==
    ASSUME TypeOK, NoNotice
    PROVE  /\ reminderSent' \in [Payments -> MaybeAge]
           /\ told' \in [Payments -> MaybeAge]
           /\ sent' \in SUBSET Notices
  BY DEF TypeOK, NoNotice

\* Ages stay among those told apart.
LEMMA NextAgeType == ASSUME NEW a \in MaybeAge PROVE NextAge(a) \in MaybeAge
  BY PeriodAssumption DEF NextAge

LEMMA NextAgeAge == ASSUME NEW a \in Ages PROVE NextAge(a) \in Ages
  BY PeriodAssumption, NoneAssumption DEF NextAge

LEMMA TypeStep == TypeOK /\ [Next]_vars => TypeOK'
  <1> SUFFICES ASSUME TypeOK, [Next]_vars PROVE TypeOK'
    OBVIOUS
  <1> USE DEF TypeOK
  <1>1. ASSUME NEW s \in Sweeps, FlipOverdue(s) PROVE TypeOK'
    BY <1>1, NoNoticeType DEF FlipOverdue
  <1>2. ASSUME NEW s \in Sweeps, ReadDue(s) PROVE TypeOK'
    <2>1. NoNotice /\ sweep' \in [Sweeps -> [at : {"idle", "flipped", "reminding"},
                                              due : SUBSET Payments]]
      BY <1>2 DEF ReadDue
    <2> QED BY <1>2, <2>1, NoNoticeType DEF ReadDue
  <1>3. ASSUME NEW s \in Sweeps, NEW p \in Payments, RemindDue(s, p) PROVE TypeOK'
    <2>1. /\ reminderSent' \in [Payments -> MaybeAge]
          /\ told' \in [Payments -> MaybeAge]
          /\ sent' \in SUBSET Notices
      <3>1. CASE Notify({p}, "sweep")
        BY <3>1, NotifyType
      <3>2. CASE NoNotice
        BY <3>2, NoNoticeType
      <3> QED BY <1>3, <3>1, <3>2 DEF RemindDue
    <2> QED BY <1>3, <2>1 DEF RemindDue
  <1>4. ASSUME NEW s \in Sweeps, SweepEnds(s) PROVE TypeOK'
    BY <1>4, NoNoticeType DEF SweepEnds
  <1>5. ASSUME NEW s \in Sweeps, SweepFails(s) PROVE TypeOK'
    BY <1>5, NoNoticeType DEF SweepFails
  <1>6. ASSUME NEW p \in Payments,
               MarkPaid(p) \/ MarkNotCharged(p) \/ Reopen(p) PROVE TypeOK'
    BY <1>6, NoNoticeType DEF MarkPaid, MarkNotCharged, Reopen
  <1>7. ASSUME NEW p \in Payments, RemindByHand(p) PROVE TypeOK'
    <2>1. Notify({p}, "manual")
      BY <1>7 DEF RemindByHand
    <2> QED BY <1>7, <2>1, NotifyType DEF RemindByHand
  <1>8. ASSUME NEW p \in Payments, RejectReport(p) PROVE TypeOK'
    <2>1. Notify({p}, "rejected")
      BY <1>8 DEF RejectReport
    <2> QED BY <1>8, <2>1, NotifyType DEF RejectReport
  <1>9. ASSUME NEW p \in Payments, ReadPending(p) \/ WriteOverdue(p) PROVE TypeOK'
    BY <1>9, NoNoticeType DEF ReadPending, WriteOverdue
  <1>10. ASSUME NEW p \in Payments, ReportSent(p) \/ WithdrawReport(p) PROVE TypeOK'
    BY <1>10, NoNoticeType DEF ReportSent, WithdrawReport
  <1>11. CASE Pause
    BY <1>11, NoNoticeType, PeriodAssumption DEF Pause
  <1>12. CASE ResumeReads \/ ResumeFails
    <2>1. NoNotice /\ resume' \in (SUBSET Payments) \cup {None}
      BY <1>12 DEF ResumeReads, ResumeFails
    <2> QED BY <1>12, <2>1, NoNoticeType DEF ResumeReads, ResumeFails
  <1>13. CASE ResumeCommits
    <2>1. resume \in SUBSET Payments
      <3>1. resume \in (SUBSET Payments) \cup {None} /\ resume # None
        BY <1>13 DEF ResumeCommits
      <3> QED BY <3>1
    <2>2. Notify(resume, "resumed")
      BY <1>13 DEF ResumeCommits
    <2>3. /\ reminderSent' \in [Payments -> MaybeAge]
          /\ told' \in [Payments -> MaybeAge]
          /\ sent' \in SUBSET Notices
      BY <2>1, <2>2, NotifyType
    <2>4. 0 \in Ages
      BY PeriodAssumption
    <2> QED BY <1>13, <2>3, <2>4 DEF ResumeCommits
  <1>14. CASE Tick
    <2>1. age' \in [Payments -> Ages]
      BY <1>14, NextAgeAge DEF Tick
    <2>2. reminderSent' \in [Payments -> MaybeAge] /\ told' \in [Payments -> MaybeAge]
      BY <1>14, NextAgeType DEF Tick
    <2>3. resumed' \in MaybeAge /\ asked' \in MaybeAge
      BY <1>14, NextAgeType, PeriodAssumption DEF Tick
    <2> QED BY <1>14, <2>1, <2>2, <2>3 DEF Tick
  <1>15. CASE UNCHANGED vars
    BY <1>15
  <1> QED
    BY <1>1, <1>2, <1>3, <1>4, <1>5, <1>6, <1>7, <1>8, <1>9, <1>10, <1>11, <1>12,
       <1>13, <1>14, <1>15 DEF Next

\* Every field keeps its type (Payment, Teacher; the runs, the resume).
THEOREM TypeInvariant == Spec => []TypeOK
  <1>1. Init => TypeOK
    <2> SUFFICES ASSUME Init PROVE TypeOK
      OBVIOUS
    <2> USE DEF Init
    <2>1. 0 \in Ages
      BY PeriodAssumption
    <2>2. resume \in (SUBSET Payments) \cup {None} /\ checked \in SUBSET Payments
      OBVIOUS
    <2> QED BY <2>1, <2>2 DEF TypeOK
  <1> QED BY <1>1, TypeStep, PTL DEF Spec

---------------------------------------------------------------------------
(* Stamps and notices *)

\* A notice and its stamp are written together, by every action.
LEMMA StampStep == StampIsNotice /\ [Next]_vars => StampIsNotice'
  <1> SUFFICES ASSUME StampIsNotice, [Next]_vars PROVE StampIsNotice'
    OBVIOUS
  <1> USE DEF StampIsNotice
  <1>1. ASSUME NEW P, NEW kind, Notify(P, kind) PROVE StampIsNotice'
    BY <1>1 DEF Notify
  <1>2. CASE NoNotice
    BY <1>2 DEF NoNotice
  <1>3. CASE Tick
    BY <1>3 DEF Tick
  <1>4. CASE UNCHANGED vars
    BY <1>4
  <1>5. ASSUME NEW s \in Sweeps,
               FlipOverdue(s) \/ ReadDue(s) \/ SweepEnds(s) \/ SweepFails(s)
        PROVE  StampIsNotice'
    BY <1>2, <1>5 DEF FlipOverdue, ReadDue, SweepEnds, SweepFails
  <1>6. ASSUME NEW s \in Sweeps, NEW p \in Payments, RemindDue(s, p)
        PROVE  StampIsNotice'
    BY <1>1, <1>2, <1>6 DEF RemindDue
  <1>7. ASSUME NEW p \in Payments,
               \/ MarkPaid(p) \/ MarkNotCharged(p) \/ Reopen(p)
               \/ ReadPending(p) \/ WriteOverdue(p)
               \/ ReportSent(p) \/ WithdrawReport(p)
        PROVE  StampIsNotice'
    BY <1>2, <1>7 DEF MarkPaid, MarkNotCharged, Reopen, ReadPending, WriteOverdue,
                      ReportSent, WithdrawReport
  <1>8. ASSUME NEW p \in Payments, RemindByHand(p) \/ RejectReport(p)
        PROVE  StampIsNotice'
    BY <1>1, <1>8 DEF RemindByHand, RejectReport
  <1>9. CASE Pause \/ ResumeReads \/ ResumeFails
    BY <1>2, <1>9 DEF Pause, ResumeReads, ResumeFails
  <1>10. CASE ResumeCommits
    BY <1>1, <1>10 DEF ResumeCommits
  <1> QED BY <1>3, <1>4, <1>5, <1>6, <1>7, <1>8, <1>9, <1>10 DEF Next

\* reminderSentAt is when the student was last told, after any sequence of runs,
\* doors, pauses and failures.
THEOREM StampInvariant == Spec => []StampIsNotice
  <1>1. Init => StampIsNotice
    BY DEF Init, StampIsNotice
  <1> QED BY <1>1, StampStep, PTL DEF Spec

---------------------------------------------------------------------------
(* Who is chased, and when *)

\* The only steps that send a sweep's notice, or the teacher's.
LEMMA SenderOfNotice ==
    ASSUME TypeOK, Next, NEW p \in Payments
    PROVE  /\ SentBy("sweep", p) => StillDue(p)
           /\ SentBy("manual", p) => OlderThan(reminderSent[p], Cooldown)
  <1> USE DEF SentBy
  <1>1. CASE sent' = {}
    BY <1>1
  <1>2. ASSUME NEW q \in Payments, NEW kind, Notify({q}, kind)
        PROVE  \A k : SentBy(k, p) => p = q /\ k = kind
    BY <1>2 DEF Notify
  <1>3. ASSUME NEW s \in Sweeps, NEW q \in Payments, RemindDue(s, q)
        PROVE  /\ SentBy("sweep", p) => StillDue(p)
               /\ ~SentBy("manual", p)
    <2>1. CASE StillDue(q)
      <3>1. Notify({q}, "sweep")
        BY <1>3, <2>1 DEF RemindDue
      <3> QED BY <1>2, <2>1, <3>1
    <2>2. CASE ~StillDue(q)
      BY <1>3, <2>2 DEF RemindDue, NoNotice
    <2> QED BY <2>1, <2>2
  <1>4. ASSUME NEW q \in Payments, RemindByHand(q)
        PROVE  /\ ~SentBy("sweep", p)
               /\ SentBy("manual", p) => OlderThan(reminderSent[p], Cooldown)
    <2>1. Notify({q}, "manual") /\ OlderThan(reminderSent[q], Cooldown)
      BY <1>4 DEF RemindByHand
    <2> QED BY <1>2, <2>1
  <1>5. ASSUME NEW q \in Payments, RejectReport(q)
        PROVE  ~SentBy("sweep", p) /\ ~SentBy("manual", p)
    <2>1. Notify({q}, "rejected")
      BY <1>5 DEF RejectReport
    <2> QED BY <1>2, <2>1
  <1>6. CASE ResumeCommits
    BY <1>6 DEF ResumeCommits, Notify
  <1>7. ASSUME NEW s \in Sweeps,
               FlipOverdue(s) \/ ReadDue(s) \/ SweepEnds(s) \/ SweepFails(s)
        PROVE  sent' = {}
    BY <1>7 DEF FlipOverdue, ReadDue, SweepEnds, SweepFails, NoNotice
  <1>8. ASSUME NEW q \in Payments,
               \/ MarkPaid(q) \/ MarkNotCharged(q) \/ Reopen(q)
               \/ ReadPending(q) \/ WriteOverdue(q)
               \/ ReportSent(q) \/ WithdrawReport(q)
        PROVE  sent' = {}
    BY <1>8 DEF MarkPaid, MarkNotCharged, Reopen, ReadPending, WriteOverdue,
                ReportSent, WithdrawReport, NoNotice
  <1>9. ASSUME Pause \/ ResumeReads \/ ResumeFails \/ Tick
        PROVE  sent' = {}
    BY <1>9 DEF Pause, ResumeReads, ResumeFails, Tick, NoNotice
  <1> QED BY <1>1, <1>3, <1>4, <1>5, <1>6, <1>7, <1>8, <1>9 DEF Next

\* The sweep chases only what is overdue and unclaimed when it is chased.
THEOREM OwingChased == Spec => OnlyTheOwingChased
  <1>1. TypeOK /\ [Next]_vars =>
          [\A p \in Payments : SentBy("sweep", p) => status[p] = "overdue" /\ ~claimed[p]]_vars
    BY SenderOfNotice DEF StillDue
  <1> QED BY <1>1, TypeInvariant, PTL DEF Spec, OnlyTheOwingChased

\* A sweep's notice follows the last notice of any kind by more than RemindEvery,
\* a teacher's by more than the cooldown.
THEOREM NoticesSpacedOut == Spec => SpacedOut
  <1>1. TypeOK /\ StampIsNotice /\ [Next]_vars =>
          [\A p \in Payments :
             /\ SentBy("sweep", p) => OlderThan(told[p], RemindEvery)
             /\ SentBy("manual", p) => OlderThan(told[p], Cooldown)]_vars
    BY SenderOfNotice DEF StillDue, StampIsNotice
  <1> QED BY <1>1, TypeInvariant, StampInvariant, PTL DEF Spec, SpacedOut

---------------------------------------------------------------------------
(* The period to pay *)

\* The last moment the students could not pay is the last resume, or now.
PauseHistory == ~paused => asked = resumed

LEMMA PauseStep == PauseHistory /\ [Next]_vars => PauseHistory'
  <1> SUFFICES ASSUME PauseHistory, [Next]_vars PROVE PauseHistory'
    OBVIOUS
  <1> USE DEF PauseHistory
  <1>1. ASSUME NEW s \in Sweeps,
               \/ FlipOverdue(s) \/ ReadDue(s) \/ SweepEnds(s) \/ SweepFails(s)
               \/ \E p \in Payments : RemindDue(s, p)
        PROVE  PauseHistory'
    BY <1>1 DEF FlipOverdue, ReadDue, SweepEnds, SweepFails, RemindDue
  <1>2. ASSUME NEW p \in Payments,
               \/ MarkPaid(p) \/ MarkNotCharged(p) \/ Reopen(p)
               \/ RemindByHand(p) \/ RejectReport(p)
               \/ ReportSent(p) \/ WithdrawReport(p)
        PROVE  PauseHistory'
    BY <1>2 DEF MarkPaid, MarkNotCharged, Reopen, RemindByHand, RejectReport,
                ReportSent, WithdrawReport
  <1>3. ASSUME NEW p \in Payments, ReadPending(p) \/ WriteOverdue(p)
        PROVE  PauseHistory'
    BY <1>3 DEF ReadPending, WriteOverdue
  <1>4. CASE Pause \/ ResumeReads \/ ResumeCommits \/ ResumeFails
    BY <1>4 DEF Pause, ResumeReads, ResumeCommits, ResumeFails
  <1>5. CASE Tick
    BY <1>5 DEF Tick
  <1>6. CASE UNCHANGED vars
    BY <1>6
  <1> QED BY <1>1, <1>2, <1>3, <1>4, <1>5, <1>6 DEF Next

\* Of the steps that write no markPaymentOverdue, only the sweep's makes a
\* payment overdue.
LEMMA FlippedBySweep ==
    ASSUME TypeOK, PauseHistory, Next, NEW p \in Payments,
           status[p] = "pending", status'[p] = "overdue", checked' = checked
    PROVE  age[p] > OverdueAfter /\ ~paused /\ OlderThan(asked, OverdueAfter)
  <1> USE DEF TypeOK
  <1>1. ASSUME NEW s \in Sweeps, FlipOverdue(s)
        PROVE  age[p] > OverdueAfter /\ ~paused /\ OlderThan(asked, OverdueAfter)
    BY <1>1 DEF FlipOverdue, PauseHistory
  <1>2. ASSUME NEW s \in Sweeps,
               \/ ReadDue(s) \/ SweepEnds(s) \/ SweepFails(s)
               \/ \E q \in Payments : RemindDue(s, q)
        PROVE  status' = status
    BY <1>2 DEF ReadDue, SweepEnds, SweepFails, RemindDue
  <1>3. ASSUME NEW q \in Payments, MarkPaid(q) \/ MarkNotCharged(q) \/ Reopen(q)
        PROVE  status'[p] # "overdue"
    BY <1>3 DEF MarkPaid, MarkNotCharged, Reopen
  <1>4. ASSUME NEW q \in Payments,
               \/ RemindByHand(q) \/ RejectReport(q) \/ ReadPending(q)
               \/ ReportSent(q) \/ WithdrawReport(q)
        PROVE  status' = status
    BY <1>4 DEF RemindByHand, RejectReport, ReadPending, ReportSent, WithdrawReport
  <1>5. ASSUME NEW q \in Payments, WriteOverdue(q)
        PROVE  FALSE
    BY <1>5 DEF WriteOverdue
  <1>6. ASSUME Pause \/ ResumeReads \/ ResumeCommits \/ ResumeFails \/ Tick
        PROVE  status' = status
    BY <1>6 DEF Pause, ResumeReads, ResumeCommits, ResumeFails, Tick
  <1> QED BY <1>1, <1>2, <1>3, <1>4, <1>5, <1>6 DEF Next

\* The sweep turns a payment overdue only after the whole period in one
\* stretch in which its students could pay.
THEOREM PeriodToPay == Spec => FullPeriodToPay
  <1>1. Init => PauseHistory
    BY DEF Init, PauseHistory
  <1>2. TypeOK /\ PauseHistory /\ [Next]_vars =>
          [\A p \in Payments :
             (status[p] = "pending" /\ status'[p] = "overdue" /\ checked' = checked) =>
               /\ age[p] > OverdueAfter
               /\ ~paused
               /\ OlderThan(asked, OverdueAfter)]_vars
    BY FlippedBySweep
  <1> QED BY <1>1, <1>2, PauseStep, TypeInvariant, PTL DEF Spec, FullPeriodToPay

\* The stamps agree with what was sent, for any runs, doors, pauses and failures.
THEOREM StampsAgree == Spec => []Consistent
  <1> QED BY TypeInvariant, StampInvariant, PTL DEF Consistent
=============================================================================
