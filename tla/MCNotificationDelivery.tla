------------------------- MODULE MCNotificationDelivery -------------------------
(* NotificationDelivery in the settings TLC checks it in:                      *)
(*   "mail"    two sweeps of the fallback over one row, with failures; after   *)
(*             the second failure one sweep goes on alone;                     *)
(*   "push"    two ticks over one row and two devices, or two rows and one;    *)
(*   "remind"  two sweeps of the reminders, one of the fallback, a booking     *)
(*             made anew;                                                      *)
(*   "timely"  one sweep of the fallback over two rows that comes back, for    *)
(*             what must happen in the end.                                    *)
EXTENDS NotificationDelivery, TLC

CONSTANTS Settings, FirstMailer, FirstDevice

VARIABLE setting

mcvars == <<vars, setting>>

NoMailers(M) == \A m \in M : mailer[m] = NoMailer
NoPushers == \A p \in Pushers : pusher[p] = NoPusher
Rows == {n \in Notices : row[n].at # "unwritten"}

\* What no job of a setting reads stays as it is in that setting.
InSetting ==
    /\ setting # "remind" => booking.number = 0 /\ class = "open" /\ account.channel = "inbox"
    /\ setting # "push" => NoPushers /\ account.push /\ devices \in {{}, Devices}
    /\ setting = "mail" =>
          /\ Cardinality(Rows) <= 1
          /\ mailFailures > 1 => NoMailers(Mailers \ {FirstMailer})
    /\ setting = "push" =>
          /\ NoMailers(Mailers) /\ account.mail /\ content = "before" /\ now <= Stale + ClaimDeadline
          /\ \A n \in Rows : row[n].kind = "plain" /\ ~row[n].isRead /\ row[n].made <= Stale
          /\ Cardinality(Rows) > 1 => devices \subseteq {FirstDevice} /\ account.push
    /\ setting = "remind" =>
          /\ NoMailers(Mailers \ {FirstMailer}) /\ mailFailures = 0
          /\ account.mail /\ content = "before" /\ now < MaxNow
          /\ \A n \in Rows : row[n].kind = "reminder"
    /\ setting = "timely" =>
          /\ NoMailers(Mailers \ {FirstMailer}) /\ content = "before" /\ ~account.erased
          /\ mailFailures <= 1
          /\ Cardinality(Rows) > 1 => account.mail
          /\ \A n \in Rows : row[n].made + Unread < MaxNow

MCInit == setting \in Settings /\ Init /\ InSetting
MCNext ==
    /\ Next /\ UNCHANGED setting /\ InSetting'
    /\ setting = "timely" => account'.mail = account.mail
    /\ setting = "push" => /\ account'.push = account.push \/ NoPushers
                           /\ devices' \subseteq devices \/ NoPushers
MCSpec == MCInit /\ [][MCNext]_mcvars

\* The clock goes on, and the scheduler starts the sweep again and again, which
\* takes its next step while the process runs.
MailerGoesOn ==
    setting = "timely" /\ MailRun(FirstMailer) /\ UNCHANGED <<pushVars, reminderVars, setting>>
ClockGoesOn ==
    setting = "timely" /\ TimePasses /\ UNCHANGED <<mailVars, pushVars, reminderVars, setting>>
FairMCSpec == MCSpec /\ WF_mcvars(ClockGoesOn) /\ WF_mcvars(MailerGoesOn)

\* ReachedInTheEnd, where the sweep comes back and failures are finitely many.
TimelyReached == setting = "timely" => ReachedInTheEnd
================================================================================
