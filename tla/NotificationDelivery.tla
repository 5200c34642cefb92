-------------------------- MODULE NotificationDelivery --------------------------
(* The three jobs that carry one person's notifications: the fallback mails    *)
(* what is not read, the push tells the devices at once, and the class         *)
(* reminders write rows of their own and mail them themselves.  Each claims a  *)
(* row with a column of its own, and none reads another's.                     *)
EXTENDS EmailFallback, PushDispatch, ClassReminders

vars == <<rowVars, mailVars, pushVars, reminderVars>>

TypeOK == RowsOK /\ MailOK /\ PushOK /\ RemindersOK

Init == RowsInit /\ MailInit /\ PushInit /\ RemindersInit

RowStep ==
    \/ \E kind \in Kinds : Notify(kind)
    \/ \E n \in Notices : markAsRead(n)
    \/ Switch \/ ContentChanges \/ TimePasses

\* deleteStudentAccount takes the rows, the devices and the coming booking with it.
Erase ==
    /\ EraseRows
    /\ devices' = {}
    /\ booking' = [booking EXCEPT !.registered = FALSE]
    /\ UNCHANGED <<mailVars, pusher, pushes, reminder, class, reminded>>

MailStep == \E m \in Mailers : MailRun(m) \/ StopMailing(m)

Next ==
    \/ RowStep /\ UNCHANGED <<mailVars, pushVars, reminderVars>>
    \/ Erase
    \/ MailStep /\ UNCHANGED <<pushVars, reminderVars>>
    \/ PushStep /\ UNCHANGED <<mailVars, reminderVars>>
    \/ RemindersStep /\ UNCHANGED <<mailVars, pushVars>>

Spec == Init /\ [][Next]_vars

(***************************************************************************)
(* What is delivered.                                                      *)
(***************************************************************************)
\* Overlapping sweeps mail a row once.  A second mail that says something else
\* goes out only where the answer to the first was lost.
MailedOnce ==
    \A n \in Notices : Cardinality({mail \in mails : mail.notice = n}) > 1 => n \in doubted

\* A row marked as mailed was mailed, or not wanted, or is reported as stranded,
\* or was in the hands of a sweep that was stopped: none is dropped in silence.
NothingDropped ==
    \A n \in Stored :
        row[n].emailSent /\ row[n].kind # "reminder" =>
            \/ fate[n] # "none"
            \/ \E m \in Mailers : mailer[m].notice = n /\ mailer[m].step \in {"send", "release"}

\* Overlapping ticks and workers push a row to a device once.
PushedOnce == \A n \in Notices, d \in Devices : pushes[n][d] <= 1

\* No tick takes up a row that is older than the limit and the tick's own time allow,
\* and what a later tick found stale is claimed by none, however long the claim of an
\* earlier one has waited.  A row whose claim waits while no tick comes may be sent
\* later than that.
PushedInTime ==
    [][\A p \in Pushers, n \in Notices :
          /\ n \in pusher'[p].picked \ pusher[p].picked => now - row[n].made < Stale + ClaimDeadline
          /\ n \in pusher'[p].taken \ pusher[p].taken =>
                \A q \in Pushers : pusher[q].step # "idle" => ~StaleAt(n, pusher[q].at)]_vars

\* A booking is reminded of once on each channel the student had chosen when the
\* sweep that claimed it read the booking, and never on another, whichever jobs and
\* sweeps meet.
RemindedOnce ==
    \A b \in Bookings :
        LET mailed == reminded[b].mails
                      + Cardinality({mail \in mails : mail.notice \in reminded[b].rows})
        IN  /\ Cardinality(reminded[b].rows) <= (IF wantsInbox(reminded[b].channel) THEN 1 ELSE 0)
            /\ mailed <= (IF wantsEmail(reminded[b].channel) THEN 1 ELSE 0)

\* Who booked at or after the reminder's moment is not reminded, though an earlier
\* booking of theirs was read as due.
LateBookersNotReminded ==
    \A b \in Bookings :
        reminded[b].rows # {} \/ reminded[b].mails > 0 => reminded[b].bookedAt < Moment

\* Nobody is told of one thing twice, by whatever jobs overlap, or of a booking that
\* came too late to be told of.
ToldOnce == TypeOK /\ MailedOnce /\ PushedOnce /\ RemindedOnce /\ LateBookersNotReminded

\* What a person wants to hear of and does not read is mailed in the end, or the
\* operator is told or the process was stopped over it.
Settled(n) ==
    \/ row[n].at # "stored" \/ row[n].isRead \/ fate[n] # "none"
    \/ row[n].kind = "spot" /\ now >= ClassStart
ReachedInTheEnd ==
    \A n \in Notices : row[n].at = "stored" /\ row[n].kind # "reminder" ~> Settled(n)
================================================================================
