----------------------------- MODULE EmailFallback -----------------------------
(* processEmailFallback: what nobody read goes out by mail.  Sweeps overlap,  *)
(* each notification is claimed before it is sent and given back when the    *)
(* send failed.                                                              *)
EXTENDS NotificationRows

CONSTANTS Mailers,        \* sweeps: the scheduler's and the cron route's
          Unread,         \* how long a row waits for its reader
          Urgent,         \* how long before the class it no longer waits
          MaxMailFailures,\* bound: how often a write or a send fails
          None

ASSUME MailAssumption == MaxMailFailures \in Nat /\ None \notin Notices

VARIABLES mailer,         \* what each sweep is doing
          mails,          \* what the provider accepted
          fate,           \* what became of each row's mail
          doubted,        \* the rows of which an accepted mail's answer was lost
          mailFailures

mailVars == <<mailer, mails, fate, doubted, mailFailures>>

NoMailer == [step |-> "idle", todo |-> {}, notice |-> None]
Fates == {"none", "mailed", "skipped", "stranded", "cut"}

MailOK ==
    /\ mailer \in [Mailers -> [step : {"idle", "next", "skip", "claim", "send", "release"},
                               todo : SUBSET Notices, notice : Notices \cup {None}]]
    /\ \A m \in Mailers : mailer[m].step \in {"skip", "claim", "send", "release"} =>
                             mailer[m].notice # None
    /\ mails \subseteq [notice : Notices, says : {"before", "after"}]
    /\ fate \in [Notices -> Fates] /\ doubted \subseteq Notices
    /\ mailFailures \in 0..MaxMailFailures

MailInit ==
    /\ mailer = [m \in Mailers |-> NoMailer]
    /\ mails = {}
    /\ fate = [n \in Notices |-> "none"] /\ doubted = {}
    /\ mailFailures = 0

\* Fault: only the class's start makes a row due.
isEmailEligibleByClass(r) ==
    r.kind # "plain" /\ ClassStart > now /\ ClassStart - now <= Urgent
\* A seat that can no longer be claimed is not mailed about; otherwise a row waits
\* until it is old enough, its class is near or it is of an immediate kind.
isEmailEligible(r) ==
    /\ r.kind = "spot" => now < ClassStart
    /\ \/ r.kind = "promoted"
       \/ now - r.made > Unread
       \/ r.kind # "plain" /\ ClassStart > now /\ ClassStart - now <= Urgent

getUnreadForEmailFallback ==
    {n \in Stored : ~row[n].isRead /\ ~row[n].emailSent /\ isEmailEligible(row[n])}

Fails == mailFailures < MaxMailFailures /\ mailFailures' = mailFailures + 1
Goes(m, step) == mailer' = [mailer EXCEPT ![m].step = step]
NextNotice(m) == mailer' = [mailer EXCEPT ![m].step = "next", ![m].notice = None]

StartMailing(m) ==
    /\ mailer[m].step = "idle"
    /\ mailer' = [mailer EXCEPT ![m] = [step |-> "next", todo |-> getUnreadForEmailFallback,
                                        notice |-> None]]
    /\ UNCHANGED <<rowVars, mails, fate, doubted, mailFailures>>

\* The recipient's address and switches are read before the claim.
LookUp(m) ==
    /\ mailer[m].step = "next"
    /\ \E n \in mailer[m].todo :
          mailer' = [mailer EXCEPT ![m] = [step |-> IF WantsMail(row[n].kind) THEN "claim" ELSE "skip",
                                           todo |-> @.todo \ {n}, notice |-> n]]
    /\ UNCHANGED <<rowVars, mails, fate, doubted, mailFailures>>

\* Fault: the mark is written whoever holds it.
ClaimableByAll(n) == n \in Stored
\* claimEmailFallback's condition: of two sweeps that read the row one sets the mark.
Claimable(n) == n \in Stored /\ ~row[n].emailSent
Mark(n, sent) == row' = [row EXCEPT ![n].emailSent = sent]

\* Nothing is sent, so the mark comes after the decision.
MarkSkipped(m) ==
    LET n == mailer[m].notice IN
    /\ mailer[m].step = "skip"
    /\ NextNotice(m)
    /\ \/ Claimable(n) /\ Mark(n, TRUE) /\ fate' = [fate EXCEPT ![n] = "skipped"]
          /\ UNCHANGED mailFailures
       \/ ~Claimable(n) /\ UNCHANGED <<row, fate, mailFailures>>
       \/ Fails /\ UNCHANGED <<row, fate>>
    /\ UNCHANGED <<now, account, content, mails, doubted>>

\* Only the sweep that set the mark sends; a write that fails sends nothing.
Claim(m) ==
    LET n == mailer[m].notice IN
    /\ mailer[m].step = "claim"
    /\ \/ Claimable(n) /\ Mark(n, TRUE) /\ Goes(m, "send") /\ UNCHANGED mailFailures
       \/ ~Claimable(n) /\ NextNotice(m) /\ UNCHANGED <<row, mailFailures>>
       \/ Fails /\ NextNotice(m) /\ UNCHANGED row
    /\ UNCHANGED <<now, account, content, mails, fate, doubted>>

\* The provider accepts the mail, and the sweep hears of it; or it accepts it and
\* the answer is lost; or nothing goes out.  A repeated mail that says the same has
\* the same key, and the provider keeps one of them.
Accepted(n) ==
    /\ mails' = mails \cup {[notice |-> n, says |-> content]}
    /\ fate' = [fate EXCEPT ![n] = "mailed"]
SendMail(m) ==
    LET n == mailer[m].notice IN
    /\ mailer[m].step = "send"
    /\ \/ Accepted(n) /\ NextNotice(m) /\ UNCHANGED <<doubted, mailFailures>>
       \/ Accepted(n) /\ doubted' = doubted \cup {n} /\ Fails /\ Goes(m, "release")
       \/ Fails /\ Goes(m, "release") /\ UNCHANGED <<mails, fate, doubted>>
    /\ UNCHANGED rowVars

\* Fault: a send that failed keeps its claim.
ReleaseForgotten(m) ==
    /\ mailer[m].step = "release"
    /\ NextNotice(m)
    /\ UNCHANGED <<rowVars, mails, fate, doubted, mailFailures>>
\* releaseOne: a claim that cannot be handed back is reported, and never retried.
Release(m) ==
    LET n == mailer[m].notice
        stranded == fate' = [fate EXCEPT ![n] = "stranded"]
    IN
    /\ mailer[m].step = "release"
    /\ NextNotice(m)
    /\ \/ n \in Stored /\ row[n].emailSent /\ Mark(n, FALSE) /\ UNCHANGED <<fate, mailFailures>>
       \/ ~(n \in Stored /\ row[n].emailSent) /\ stranded /\ UNCHANGED <<row, mailFailures>>
       \/ Fails /\ stranded /\ UNCHANGED row
    /\ UNCHANGED <<now, account, content, mails, doubted>>

EndMailing(m) ==
    /\ mailer[m].step = "next" /\ mailer[m].todo = {}
    /\ mailer' = [mailer EXCEPT ![m] = NoMailer]
    /\ UNCHANGED <<rowVars, mails, fate, doubted, mailFailures>>

\* The process stops; a claim it held is held for good.
StopMailing(m) ==
    /\ mailer[m].step # "idle" /\ Fails
    /\ fate' = IF mailer[m].step \in {"send", "release"} /\ fate[mailer[m].notice] = "none"
               THEN [fate EXCEPT ![mailer[m].notice] = "cut"] ELSE fate
    /\ mailer' = [mailer EXCEPT ![m] = NoMailer]
    /\ UNCHANGED <<rowVars, mails, doubted>>

MailRun(m) ==
    \/ StartMailing(m) \/ LookUp(m) \/ MarkSkipped(m) \/ Claim(m) \/ SendMail(m)
    \/ Release(m) \/ EndMailing(m)
================================================================================
