----------------------------- MODULE ClassReminders -----------------------------
(* processClassReminders for one student's booking of one class: each booking  *)
(* made before the reminder's moment is reminded of once, in the inbox, by     *)
(* mail, or both.  The teacher's own reminder is the same claim on the class's *)
(* stamp, and is left out.                                                     *)
EXTENDS NotificationRows

CONSTANTS Reminders,     \* overlapping sweeps
          Bookings,      \* 1..n: the bookings one row comes to stand for
          Moment         \* when the reminder is due

ASSUME BookingsAssumption == Bookings \subseteq Nat \ {0}
ASSUME MomentAssumption == Moment \in Nat /\ Moment < ClassStart

VARIABLES reminder,      \* what each sweep is doing
          class,         \* open, called off or started
          booking,       \* the registration's row
          reminded       \* each booking's time, and what went out about it

reminderVars == <<reminder, class, booking, reminded>>

NoReminder == [step |-> "idle", at |-> 0, channel |-> "inbox", about |-> 0]
Unreminded == [bookedAt |-> 0, channel |-> "inbox", mails |-> 0, rows |-> {}]

BookingOK ==
    /\ reminder \in [Reminders -> [step : {"idle", "regs", "claim", "mail"}, at : 0..MaxNow,
                                   channel : Channels, about : Bookings \cup {0}]]
    /\ class \in {"open", "called off", "started"}
    /\ booking \in [number : Bookings \cup {0}, registered : BOOLEAN, registeredAt : 0..MaxNow,
                    classReminderSentAt : BOOLEAN]
RemindersOK ==
    /\ BookingOK
    /\ reminded \in [Bookings -> [bookedAt : 0..MaxNow, channel : Channels, mails : 0..1,
                                 rows : SUBSET Notices]]

RemindersInit ==
    /\ reminder = [r \in Reminders |-> NoReminder]
    /\ class = "open"
    /\ booking = [number |-> 0, registered |-> FALSE, registeredAt |-> 0, classReminderSentAt |-> FALSE]
    /\ reminded = [b \in Bookings |-> Unreminded]

(***************************************************************************)
(* The booking and its class.                                              *)
(***************************************************************************)
\* activateRegistration: the reused row is a new booking.
Book ==
    /\ class = "open" /\ ~account.erased /\ now < ClassStart
    /\ ~booking.registered /\ booking.number + 1 \in Bookings
    /\ booking' = [number |-> booking.number + 1, registered |-> TRUE, registeredAt |-> now,
                   classReminderSentAt |-> FALSE]
    /\ reminded' = [reminded EXCEPT ![booking'.number].bookedAt = now]
    /\ UNCHANGED <<rowVars, reminder, class>>

CancelBooking ==
    /\ booking.registered /\ class = "open"
    /\ booking' = [booking EXCEPT !.registered = FALSE]
    /\ UNCHANGED <<rowVars, reminder, class, reminded>>

ClassEnds ==
    /\ class = "open"
    /\ class' \in {"called off"} \cup (IF now >= ClassStart THEN {"started"} ELSE {})
    /\ UNCHANGED <<rowVars, reminder, booking, reminded>>

(***************************************************************************)
(* The sweep.                                                              *)
(***************************************************************************)
\* readCandidatePage: the open classes, at the sweep's own instant.
ReadClasses(r) ==
    /\ reminder[r].step = "idle" /\ class = "open" /\ now < ClassStart
    /\ reminder' = [reminder EXCEPT ![r] = [NoReminder EXCEPT !.step = "regs", !.at = now]]
    /\ UNCHANGED <<rowVars, class, booking, reminded>>

\* The channel is read with the booking, and what goes out follows what was read.
dueMoment(at) == Moment <= at /\ at < ClassStart /\ booking.registeredAt < Moment
ReadRegistrations(r) ==
    /\ reminder[r].step = "regs"
    /\ reminder' = [reminder EXCEPT ![r] =
          IF /\ booking.registered /\ ~booking.classReminderSentAt /\ ~account.erased
             /\ account.channel # "off" /\ dueMoment(reminder[r].at)
          THEN [@ EXCEPT !.step = "claim", !.channel = account.channel] ELSE NoReminder]
    /\ UNCHANGED <<rowVars, class, booking, reminded>>

\* Fault: a booking made anew since the read is taken for the one read.
StillRemindableAnew == booking.registered /\ ~booking.classReminderSentAt /\ class = "open"
\* Fault: the stamp is not looked at again.
StillRemindableTwice == booking.registered /\ booking.registeredAt < Moment /\ class = "open"
\* The claim looks at the booking and the class again, not at the switches.
StillRemindable ==
    /\ booking.registered /\ ~booking.classReminderSentAt
    /\ booking.registeredAt < Moment /\ class = "open"

remember(r, rows) ==
    reminded' = [reminded EXCEPT ![booking.number].channel = reminder[r].channel,
                                 ![booking.number].rows = @ \cup rows]
ClaimReminder(r) ==
    /\ reminder[r].step = "claim"
    /\ IF StillRemindable
       THEN /\ booking' = [booking EXCEPT !.classReminderSentAt = TRUE]
            /\ reminder' = [reminder EXCEPT ![r] =
                  IF wantsEmail(@.channel) THEN [@ EXCEPT !.step = "mail", !.about = booking.number]
                  ELSE NoReminder]
            /\ IF wantsInbox(reminder[r].channel)
               THEN \E n \in Fresh : createNotification(n, "reminder") /\ remember(r, {n})
               ELSE UNCHANGED row /\ remember(r, {})
       ELSE /\ reminder' = [reminder EXCEPT ![r] = NoReminder]
            /\ UNCHANGED <<row, booking, reminded>>
    /\ UNCHANGED <<now, account, content, class>>

\* emailReminder: a failure is logged and not retried.
MailReminder(r) ==
    /\ reminder[r].step = "mail"
    /\ reminder' = [reminder EXCEPT ![r] = NoReminder]
    /\ \/ reminded' = [reminded EXCEPT ![reminder[r].about].mails = @ + 1]
       \/ UNCHANGED reminded
    /\ UNCHANGED <<rowVars, class, booking>>

StopReminding(r) ==
    /\ reminder[r].step # "idle"
    /\ reminder' = [reminder EXCEPT ![r] = NoReminder]
    /\ UNCHANGED <<rowVars, class, booking, reminded>>

RemindersStep ==
    \/ Book \/ CancelBooking \/ ClassEnds
    \/ \E r \in Reminders : \/ ReadClasses(r) \/ ReadRegistrations(r) \/ ClaimReminder(r)
                            \/ MailReminder(r) \/ StopReminding(r)
================================================================================
