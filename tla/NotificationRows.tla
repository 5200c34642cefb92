--------------------------- MODULE NotificationRows ---------------------------
(* One person's notifications: the rows other parts of the program write,    *)
(* the inbox that reads them, and the account they belong to.                *)
EXTENDS Integers, FiniteSets

CONSTANTS MaxRows,       \* bound: how many rows are written
          ClassStart,    \* when the class they are about starts
          MaxNow         \* bound: the last instant

ASSUME RowsAssumption == MaxRows \in Nat /\ ClassStart \in Nat /\ MaxNow \in Nat

Notices == 1..MaxRows

VARIABLES now,
          row,        \* each row
          account,    \* the recipient's switches, channel and erasure
          content     \* what a mail written now would say

rowVars == <<now, row, account, content>>

\* "plain" is optional and about no class, "spot" and "promoted" are essential and
\* about the class, "reminder" is the class reminder's own row.
Kinds == {"plain", "spot", "promoted", "reminder"}
\* How class reminders reach the person, "off" where none shall.
Channels == {"off", "inbox", "email", "inbox_and_email"}
Blank == [at |-> "unwritten", kind |-> "plain", made |-> 0,
          isRead |-> FALSE, emailSent |-> FALSE, pushHandled |-> FALSE]

Stored == {n \in Notices : row[n].at = "stored"}

RowsOK ==
    /\ now \in 0..MaxNow
    /\ row \in [Notices -> [at : {"unwritten", "stored", "deleted"}, kind : Kinds,
                            made : 0..MaxNow, isRead : BOOLEAN, emailSent : BOOLEAN,
                            pushHandled : BOOLEAN]]
    /\ account \in [mail : BOOLEAN, push : BOOLEAN, channel : Channels, erased : BOOLEAN]
    /\ content \in {"before", "after"}

RowsInit ==
    /\ now = 0
    /\ row = [n \in Notices |-> Blank]
    /\ account \in [mail : BOOLEAN, push : BOOLEAN, channel : Channels, erased : {FALSE}]
    /\ content = "before"

(***************************************************************************)
(* Who is told, and by which channel.                                      *)
(***************************************************************************)
\* An essential type goes by mail whatever the recipient's switch says.
WantsMail(kind) == kind # "plain" \/ account.mail
\* One switch stands for the groups a recipient may have pushed.
WantsPush(kind) == account.push /\ ~account.erased
wantsInbox(channel) == channel # "email"
wantsEmail(channel) == channel # "inbox"

(***************************************************************************)
(* What happens to the rows.                                               *)
(***************************************************************************)
\* Fault: the reminder's row is left to the fallback like any other.
NewRowUnsent(kind) == [Blank EXCEPT !.at = "stored", !.kind = kind, !.made = now]
NewRow(kind) ==
    [Blank EXCEPT !.at = "stored", !.kind = kind, !.made = now, !.emailSent = (kind = "reminder")]
\* Rows are written one after the other.
Fresh == {n \in Notices : row[n].at = "unwritten" /\ \A m \in 1..(n - 1) : row[m].at # "unwritten"}
createNotification(n, kind) ==
    /\ n \in Fresh
    /\ row' = [row EXCEPT ![n] = NewRow(kind)]

\* Another part of the program tells this person something.
Notify(kind) ==
    /\ kind # "reminder" /\ ~account.erased
    /\ \E n \in Fresh : createNotification(n, kind)
    /\ UNCHANGED <<now, account, content>>

markAsRead(n) ==
    /\ n \in Stored
    /\ row' = [row EXCEPT ![n].isRead = TRUE]
    /\ UNCHANGED <<now, account, content>>

\* The person changes a switch, in the settings or by an unsubscribe link, or the
\* channel of the class reminders.
Switch ==
    /\ ~account.erased
    /\ \/ account' = [account EXCEPT !.mail = ~@]
       \/ account' = [account EXCEPT !.push = ~@]
       \/ \E channel \in Channels \ {account.channel} : account' = [account EXCEPT !.channel = channel]
    /\ UNCHANGED <<now, row, content>>

\* The teacher changes the video link or pauses payments: later mails say so.
ContentChanges ==
    /\ content = "before" /\ content' = "after"
    /\ UNCHANGED <<now, row, account>>

\* deleteStudentAccount deletes the rows with the account.
EraseRows ==
    /\ ~account.erased
    /\ account' = [account EXCEPT !.erased = TRUE]
    /\ row' = [n \in Notices |-> IF n \in Stored THEN [row[n] EXCEPT !.at = "deleted"] ELSE row[n]]
    /\ UNCHANGED <<now, content>>

TimePasses ==
    /\ now < MaxNow /\ now' = now + 1
    /\ UNCHANGED <<row, account, content>>
================================================================================
