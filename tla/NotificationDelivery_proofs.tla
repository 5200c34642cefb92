---------------------- MODULE NotificationDelivery_proofs ----------------------
(***************************************************************************)
(* What is delivered at most once, and that nothing is dropped in silence,  *)
(* for any rows, sweeps, ticks, devices, bookings and bounds.               *)
(***************************************************************************)
EXTENDS NotificationDelivery, FiniteSetTheorems, TLAPS

USE DEF rowVars, mailVars, pushVars, reminderVars, vars, Stored

Row == [at : {"unwritten", "stored", "deleted"}, kind : Kinds, made : 0..MaxNow,
        isRead : BOOLEAN, emailSent : BOOLEAN, pushHandled : BOOLEAN]

Mailer == [step : {"idle", "next", "skip", "claim", "send", "release"},
           todo : SUBSET Notices, notice : Notices \cup {None}]
Pusher == [step : {"idle", "retired", "claim", "picked", "resolve", "send"}, at : 0..MaxNow,
           todo : SUBSET Notices, picked : SUBSET Notices, taken : SUBSET Notices,
           left : SUBSET Devices]
Reminder == [step : {"idle", "regs", "claim", "mail"}, at : 0..MaxNow, channel : Channels,
             about : Bookings \cup {0}]
Reminded == [bookedAt : 0..MaxNow, channel : Channels, mails : Nat, rows : SUBSET Notices]
\* A sweep at work on a row has one.
Busy == \A k \in Mailers :
            mailer[k].step \in {"skip", "claim", "send", "release"} => mailer[k].notice # None

\* TypeOK but for the two counters, whose bounds are what is to be proved.
Shape ==
    /\ RowsOK /\ MailOK /\ PushersOK /\ BookingOK
    /\ pushes \in [Notices -> [Devices -> Nat]]
    /\ reminded \in [Bookings -> Reminded]

---------------------------------------------------------------------------
(* Types *)

\* An unwritten row is a row.
LEMMA BlankType == Blank \in Row
  BY RowsAssumption DEF Blank, Row, Kinds

\* So is one createNotification writes.
LEMMA NewRowType == ASSUME RowsOK, NEW kind \in Kinds PROVE NewRow(kind) \in Row
  BY RowsAssumption DEF RowsOK, NewRow, Blank, Row, Kinds

\* A step of the rows' own keeps their type.
LEMMA RowStepType == ASSUME Shape, RowStep PROVE RowsOK'
  <1> USE RowsAssumption DEF Shape, RowsOK
  <1>1. ASSUME NEW kind \in Kinds, Notify(kind) PROVE RowsOK'
    BY <1>1, NewRowType DEF Notify, createNotification, Fresh, Row
  <1>2. ASSUME NEW n \in Notices, markAsRead(n) PROVE RowsOK'
    BY <1>2 DEF markAsRead
  <1>3. CASE Switch
    BY <1>3 DEF Switch
  <1>4. CASE ContentChanges
    BY <1>4 DEF ContentChanges
  <1>5. CASE TimePasses
    <2>1. now' \in 0..MaxNow
      BY <1>5 DEF TimePasses
    <2> QED BY <1>5, <2>1 DEF TimePasses
  <1> QED BY <1>1, <1>2, <1>3, <1>4, <1>5 DEF RowStep

\* Erasing the account keeps every type.
LEMMA EraseType == ASSUME Shape, Erase PROVE Shape'
  <1> USE DEF Shape, RowsOK, MailOK, PushersOK, BookingOK
  <1>1. /\ account' \in [mail : BOOLEAN, push : BOOLEAN, channel : Channels, erased : BOOLEAN]
        /\ row' \in [Notices -> Row]
        /\ now' \in 0..MaxNow /\ content' \in {"before", "after"}
    <2>1. account' \in [mail : BOOLEAN, push : BOOLEAN, channel : Channels, erased : BOOLEAN]
      BY DEF Erase, EraseRows
    <2>2. ASSUME NEW r \in Row PROVE [r EXCEPT !.at = "deleted"] \in Row
      BY DEF Row
    <2>3. row' \in [Notices -> Row]
      BY <2>2 DEF Erase, EraseRows, Row
    <2> QED BY <2>1, <2>3 DEF Erase, EraseRows
  <1>2. RowsOK'
    BY <1>1 DEF Row
  <1>3. BookingOK'
    BY DEF Erase
  <1>4. MailOK' /\ PushersOK' /\ UNCHANGED <<pushes, reminded>>
    BY DEF Erase
  <1> QED BY <1>2, <1>3, <1>4

\* The failures stay within their bound.
LEMMA FailsType == ASSUME Shape, Fails PROVE mailFailures' \in 0..MaxMailFailures
  BY MailAssumption DEF Shape, MailOK, Fails

\* A step of a sweep keeps the types, and leaves the reminders and pushes alone.
\* What marking a row, and going on to the next, leave of their variables.
LEMMA MarkType ==
    ASSUME Shape, NEW n \in Notices, NEW sent \in BOOLEAN, Mark(n, sent)
    PROVE  row' \in [Notices -> Row]
  BY DEF Shape, RowsOK, Mark, Row

\* A sweep that goes on to the next row, or to another step with its row.
LEMMA GoesType ==
    ASSUME Shape, NEW m \in Mailers,
           \/ NextNotice(m)
           \/ mailer[m].notice # None /\ \E step \in {"send", "release"} : Goes(m, step)
    PROVE  mailer' \in [Mailers -> Mailer] /\ Busy'
  <1>1. mailer \in [Mailers -> Mailer] /\ Busy
    BY DEF Shape, MailOK, Mailer, Busy
  <1>2. ASSUME NEW x \in Mailer, NEW step \in {"next", "send", "release"},
               NEW n \in Notices \cup {None}
        PROVE  [x EXCEPT !.step = step, !.notice = n] \in Mailer /\ [x EXCEPT !.step = step] \in Mailer
    BY DEF Mailer
  <1>3. CASE NextNotice(m)
    <2>1. mailer' = [mailer EXCEPT ![m] = [mailer[m] EXCEPT !.step = "next", !.notice = None]]
      BY <1>1, <1>3 DEF NextNotice, Mailer
    <2>2. mailer' \in [Mailers -> Mailer]
      BY <1>1, <1>2, <2>1
    <2>3. mailer'[m].step = "next"
      BY <1>1, <2>1 DEF Mailer
    <2> QED BY <1>1, <2>1, <2>2, <2>3 DEF Busy
  <1>4. ASSUME NEW step \in {"send", "release"}, Goes(m, step), mailer[m].notice # None
        PROVE  mailer' \in [Mailers -> Mailer] /\ Busy'
    <2>1. mailer' = [mailer EXCEPT ![m] = [mailer[m] EXCEPT !.step = step]]
      BY <1>1, <1>4 DEF Goes, Mailer
    <2>2. mailer' \in [Mailers -> Mailer]
      BY <1>1, <1>2, <2>1
    <2>3. mailer'[m].notice # None
      BY <1>1, <1>4, <2>1 DEF Mailer
    <2> QED BY <1>1, <2>1, <2>2, <2>3 DEF Busy
  <1> QED BY <1>3, <1>4

\* A step of a sweep keeps the types.
LEMMA MailStepType == ASSUME Shape, MailStep PROVE RowsOK' /\ MailOK'
  <1> SUFFICES ASSUME NEW m \in Mailers, MailRun(m) \/ StopMailing(m) PROVE RowsOK' /\ MailOK'
    BY DEF MailStep
  <1> DEFINE n == mailer[m].notice
  <1>a. /\ row \in [Notices -> Row] /\ fate \in [Notices -> Fates]
        /\ mails \in SUBSET [notice : Notices, says : {"before", "after"}]
        /\ doubted \in SUBSET Notices /\ mailFailures \in 0..MaxMailFailures
        /\ content \in {"before", "after"} /\ None \notin Notices
    BY MailAssumption DEF Shape, RowsOK, MailOK, Row
  <1>b. mailer[m].step \in {"skip", "claim", "send", "release"} => n \in Notices
    BY DEF Shape, MailOK
  <1>c. ASSUME row' \in [Notices -> Row], UNCHANGED <<now, account, content>> PROVE RowsOK'
    BY <1>c DEF Shape, RowsOK, Row
  <1>1. CASE StartMailing(m)
    BY <1>1 DEF Shape, RowsOK, MailOK, StartMailing, getUnreadForEmailFallback
  <1>2. CASE LookUp(m)
    BY <1>2, <1>a DEF Shape, RowsOK, MailOK, LookUp
  <1>3. CASE MarkSkipped(m)
    <2>1. row' \in [Notices -> Row]
      BY <1>3, <1>a, <1>b, MarkType DEF MarkSkipped
    <2>2. fate' \in [Notices -> Fates]
      BY <1>3, <1>a DEF MarkSkipped, Fates
    <2>3. mailFailures' \in 0..MaxMailFailures
      BY <1>3, <1>a, FailsType DEF MarkSkipped
    <2> QED BY <1>3, <1>a, <1>c, <2>1, <2>2, <2>3, GoesType DEF MarkSkipped, MailOK, Mailer, Busy
  <1>4. CASE Claim(m)
    <2>1. row' \in [Notices -> Row]
      BY <1>4, <1>a, <1>b, MarkType DEF Claim
    <2>3. mailFailures' \in 0..MaxMailFailures
      BY <1>4, <1>a, FailsType DEF Claim
    <2>4. NextNotice(m) \/ (mailer[m].notice # None /\ Goes(m, "send"))
      <3>1. mailer[m].notice # None /\ (NextNotice(m) \/ Goes(m, "send"))
        BY <1>4, <1>a, <1>b DEF Claim
      <3> QED BY <3>1
    <2> QED BY <1>4, <1>a, <1>c, <2>1, <2>3, <2>4, GoesType DEF Claim, MailOK, Mailer, Busy
  <1>5. CASE SendMail(m)
    <2>1. NextNotice(m) \/ (mailer[m].notice # None /\ Goes(m, "release"))
      <3>1. mailer[m].notice # None /\ (NextNotice(m) \/ Goes(m, "release"))
        BY <1>5, <1>a, <1>b DEF SendMail
      <3> QED BY <3>1
    <2>2. mailFailures' \in 0..MaxMailFailures
      BY <1>5, <1>a, FailsType DEF SendMail
    <2>3. /\ mails' \in SUBSET [notice : Notices, says : {"before", "after"}]
          /\ fate' \in [Notices -> Fates] /\ doubted' \in SUBSET Notices
      BY <1>5, <1>a, <1>b DEF SendMail, Accepted, Fates
    <2>4. RowsOK'
      BY <1>5 DEF SendMail, Shape, RowsOK
    <2> QED BY <2>1, <2>2, <2>3, <2>4, GoesType DEF MailOK, Mailer, Busy
  <1>6. CASE Release(m)
    <2>1. row' \in [Notices -> Row]
      BY <1>6, <1>a, <1>b, MarkType DEF Release
    <2>2. fate' \in [Notices -> Fates]
      BY <1>6, <1>a DEF Release, Fates
    <2>3. mailFailures' \in 0..MaxMailFailures
      BY <1>6, <1>a, FailsType DEF Release
    <2> QED BY <1>6, <1>a, <1>c, <2>1, <2>2, <2>3, GoesType DEF Release, MailOK, Mailer, Busy
  <1>7. CASE EndMailing(m)
    BY <1>7 DEF Shape, RowsOK, MailOK, EndMailing, NoMailer
  <1>8. CASE StopMailing(m)
    <2>1. fate' \in [Notices -> Fates]
      BY <1>8, <1>a DEF StopMailing, Fates
    <2>2. mailFailures' \in 0..MaxMailFailures
      BY <1>8, FailsType DEF StopMailing
    <2> QED BY <1>8, <1>a, <2>1, <2>2 DEF Shape, RowsOK, MailOK, StopMailing, NoMailer
  <1> QED BY <1>1, <1>2, <1>3, <1>4, <1>5, <1>6, <1>7, <1>8 DEF MailRun

\* Rows that are handled stay rows.
LEMMA HandleType ==
    ASSUME Shape, NEW S \in SUBSET Notices, Handle(S) PROVE row' \in [Notices -> Row]
  <1>1. row \in [Notices -> Row]
    BY DEF Shape, RowsOK, Row
  <1>2. ASSUME NEW r \in Row PROVE [r EXCEPT !.pushHandled = TRUE] \in Row
    BY DEF Row
  <1> QED BY <1>1, <1>2 DEF Handle

\* A tick, a subscription or its end keeps the types of the push.
LEMMA PushStepType ==
    ASSUME Shape, PushStep
    PROVE  RowsOK' /\ PushersOK' /\ pushes' \in [Notices -> [Devices -> Nat]]
  <1>a. /\ row \in [Notices -> Row] /\ now \in 0..MaxNow
        /\ pusher \in [Pushers -> Pusher] /\ devices \in SUBSET Devices
        /\ pushes \in [Notices -> [Devices -> Nat]]
    BY DEF Shape, RowsOK, Row, PushersOK, Pusher
  <1>b. ASSUME row' \in [Notices -> Row], UNCHANGED <<now, account, content>> PROVE RowsOK'
    BY <1>b DEF Shape, RowsOK, Row
  <1>c. NoPusher \in Pusher
    BY RowsAssumption DEF NoPusher, Pusher
  <1> USE DEF Pusher
  <1>1. ASSUME NEW p \in Pushers, RetireStale(p) PROVE RowsOK' /\ PushersOK' /\ UNCHANGED pushes
    <2>1. row' \in [Notices -> Row]
      BY <1>1, HandleType DEF RetireStale, Unhandled
    <2> QED BY <1>1, <1>a, <1>b, <2>1 DEF RetireStale, PushersOK
  <1>d. ASSUME NEW p \in Pushers, NEW x \in Pusher, UNCHANGED devices,
               pusher' = [pusher EXCEPT ![p] = x]
        PROVE  PushersOK'
    BY <1>d, <1>a DEF PushersOK
  <1>e. ASSUME UNCHANGED rowVars PROVE RowsOK'
    BY <1>e DEF Shape, RowsOK
  <1>2. ASSUME NEW p \in Pushers, ReadCandidates(p) PROVE RowsOK' /\ PushersOK' /\ UNCHANGED pushes
    <2> DEFINE todo == {n \in Unhandled : ~StaleAt(n, pusher[p].at)}
    <2>1. todo \in SUBSET Notices
      BY DEF Unhandled
    <2> HIDE DEF todo
    <2>2. pusher' = [pusher EXCEPT ![p] = [pusher[p] EXCEPT !.step = "claim", !.todo = todo]]
      BY <1>2, <1>a DEF ReadCandidates, todo
    <2>3. [pusher[p] EXCEPT !.step = "claim", !.todo = todo] \in Pusher
      BY <1>a, <2>1
    <2> QED BY <1>2, <1>d, <1>e, <2>2, <2>3 DEF ReadCandidates
  <1>3. ASSUME NEW p \in Pushers, TakeUp(p) PROVE RowsOK' /\ PushersOK' /\ UNCHANGED pushes
    <2>1. PICK n \in pusher[p].todo :
            pusher' = [pusher EXCEPT ![p].step = "picked", ![p].picked = {n}, ![p].todo = @ \ {n}]
      BY <1>3 DEF TakeUp
    <2> DEFINE x == [pusher[p] EXCEPT !.step = "picked", !.picked = {n}, !.todo = @ \ {n}]
    <2>2. x \in Pusher
      BY <1>a
    <2>3. pusher' = [pusher EXCEPT ![p] = x]
      BY <1>a, <2>1
    <2> HIDE DEF x
    <2> QED BY <1>3, <1>d, <1>e, <2>2, <2>3 DEF TakeUp
  <1>8. ASSUME NEW p \in Pushers, ClaimPush(p) PROVE RowsOK' /\ PushersOK' /\ UNCHANGED pushes
    <2> DEFINE claimed == {n \in pusher[p].picked : ClaimablePush(n)}
               step == IF claimed = {} THEN "claim" ELSE "resolve"
               x == [pusher[p] EXCEPT !.step = step, !.picked = {}, !.taken = claimed]
    <2>1. claimed \in SUBSET Notices
      BY <1>a
    <2>2. row' \in [Notices -> Row]
      BY <1>8, <2>1, HandleType DEF ClaimPush
    <2>3. pusher' = [pusher EXCEPT ![p] = x]
      BY <1>8, <1>a DEF ClaimPush
    <2>4. step \in {"claim", "resolve"}
      OBVIOUS
    <2> HIDE DEF claimed, step
    <2>5. x \in Pusher
      BY <1>a, <2>1, <2>4
    <2> HIDE DEF x
    <2> QED BY <1>8, <1>b, <1>d, <2>2, <2>3, <2>5 DEF ClaimPush
  <1>4. ASSUME NEW p \in Pushers, Resolve(p) PROVE RowsOK' /\ PushersOK' /\ UNCHANGED pushes
    <2> DEFINE wanted == \A n \in pusher[p].taken : WantsPush(row[n].kind)
               to == IF wanted THEN devices ELSE {}
               x == [pusher[p] EXCEPT !.step = "send", !.left = to]
    <2>1. to \in SUBSET Devices
      BY <1>a
    <2> HIDE DEF to
    <2>2. x \in Pusher
      BY <1>a, <2>1
    <2>3. pusher' = [pusher EXCEPT ![p] = x]
      BY <1>4, <1>a DEF Resolve, to
    <2> HIDE DEF x
    <2> QED BY <1>4, <1>d, <1>e, <2>2, <2>3 DEF Resolve
  <1>5. ASSUME NEW p \in Pushers, SendPush(p)
        PROVE  RowsOK' /\ PushersOK' /\ pushes' \in [Notices -> [Devices -> Nat]]
    <2>1. RowsOK'
      BY <1>5 DEF SendPush, Shape, RowsOK
    <2>2. PICK d \in pusher[p].left, n \in pusher[p].taken :
            /\ pusher' = [pusher EXCEPT ![p].left = @ \ {d}]
            /\ \/ pushes' = [pushes EXCEPT ![n][d] = @ + 1] /\ UNCHANGED devices
               \/ devices' = devices \ {d} /\ UNCHANGED pushes
               \/ UNCHANGED <<devices, pushes>>
      BY <1>5 DEF SendPush
    <2>3. d \in Devices /\ n \in Notices
      BY <1>a
    <2>4. PushersOK'
      BY <1>a, <2>2, <2>3 DEF PushersOK
    <2>5. pushes' \in [Notices -> [Devices -> Nat]]
      <3>1. pushes[n] \in [Devices -> Nat] /\ pushes[n][d] \in Nat
        BY <1>a, <2>3
      <3>2. [pushes[n] EXCEPT ![d] = pushes[n][d] + 1] \in [Devices -> Nat]
        BY <2>3, <3>1
      <3>3. \/ pushes' = [pushes EXCEPT ![n] = [pushes[n] EXCEPT ![d] = pushes[n][d] + 1]]
            \/ UNCHANGED pushes
        BY <1>a, <2>2, <2>3
      <3> QED BY <1>a, <3>2, <3>3
    <2> QED BY <2>1, <2>4, <2>5
  <1>6. ASSUME NEW p \in Pushers, Sent(p) \/ EndTick(p) \/ StopPushing(p)
        PROVE  RowsOK' /\ PushersOK' /\ UNCHANGED pushes
    <2>1. [pusher[p] EXCEPT !.step = "claim", !.taken = {}] \in Pusher
      BY <1>a
    <2>2. \/ pusher' = [pusher EXCEPT ![p] = [pusher[p] EXCEPT !.step = "claim", !.taken = {}]]
          \/ pusher' = [pusher EXCEPT ![p] = NoPusher]
      BY <1>6, <1>a DEF Sent, EndTick, StopPushing
    <2> QED BY <1>6, <1>c, <1>d, <1>e, <2>1, <2>2 DEF Sent, EndTick, StopPushing
  <1>7. CASE Subscribe \/ Unsubscribe
    BY <1>7, <1>a DEF Subscribe, Unsubscribe, PushersOK, Shape, RowsOK
  <1> QED BY <1>a, <1>1, <1>2, <1>3, <1>8, <1>4, <1>5, <1>6, <1>7 DEF PushStep

\* A booking or a reminder sweep keeps the types of the rows and the reminders.
LEMMA RemindersStepType ==
    ASSUME Shape, RemindersStep
    PROVE  /\ RowsOK' /\ BookingOK'
           /\ reminded' \in [Bookings -> Reminded]
  <1>a. /\ row \in [Notices -> Row] /\ now \in 0..MaxNow
        /\ reminder \in [Reminders -> Reminder]
        /\ booking \in [number : Bookings \cup {0}, registered : BOOLEAN, registeredAt : 0..MaxNow,
                        classReminderSentAt : BOOLEAN]
        /\ reminded \in [Bookings -> Reminded]
        /\ class \in {"open", "called off", "started"}
    BY DEF Shape, RowsOK, Row, BookingOK, Reminder, Reminded
  <1>b. NoReminder \in Reminder /\ 0 \notin Bookings /\ account.channel \in Channels
    BY RowsAssumption, BookingsAssumption DEF NoReminder, Reminder, Channels, Shape, RowsOK
  <1> USE DEF Reminder
  <1>1. CASE Book
    <2>1. booking' \in [number : Bookings \cup {0}, registered : BOOLEAN, registeredAt : 0..MaxNow,
                        classReminderSentAt : BOOLEAN]
      BY <1>1, <1>a DEF Book
    <2>2. reminded' \in [Bookings -> Reminded]
      <3>1. ASSUME NEW x \in Reminded PROVE [x EXCEPT !.bookedAt = now] \in Reminded
        BY <1>a DEF Reminded
      <3> QED BY <1>1, <1>a, <3>1 DEF Book
    <2> QED BY <1>1, <1>a, <2>1, <2>2 DEF Book, BookingOK, Shape, RowsOK
  <1>2. CASE CancelBooking
    BY <1>2, <1>a DEF CancelBooking, BookingOK, Shape, RowsOK
  <1>3. CASE ClassEnds
    BY <1>3, <1>a DEF ClassEnds, BookingOK, Shape, RowsOK
  <1>4. ASSUME NEW r \in Reminders, ReadClasses(r) \/ ReadRegistrations(r) \/ StopReminding(r)
        PROVE  RowsOK' /\ BookingOK' /\ UNCHANGED reminded
    <2>1. /\ [reminder[r] EXCEPT !.step = "claim", !.channel = account.channel] \in Reminder
          /\ [NoReminder EXCEPT !.step = "regs", !.at = now] \in Reminder
      BY <1>a, <1>b
    <2>2. \/ reminder' = [reminder EXCEPT ![r] =
                 [reminder[r] EXCEPT !.step = "claim", !.channel = account.channel]]
          \/ reminder' = [reminder EXCEPT ![r] = [NoReminder EXCEPT !.step = "regs", !.at = now]]
          \/ reminder' = [reminder EXCEPT ![r] = NoReminder]
      BY <1>4, <1>a DEF ReadClasses, ReadRegistrations, StopReminding
    <2>3. reminder' \in [Reminders -> Reminder]
      BY <1>a, <1>b, <2>1, <2>2
    <2> QED BY <1>4, <1>a, <2>3 DEF ReadClasses, ReadRegistrations, StopReminding, BookingOK, Shape, RowsOK
  <1>5. ASSUME NEW r \in Reminders, ClaimReminder(r)
        PROVE  RowsOK' /\ BookingOK' /\ reminded' \in [Bookings -> Reminded]
    <2>1. row' \in [Notices -> Row]
      BY <1>5, <1>a, NewRowType DEF ClaimReminder, createNotification, Fresh, Kinds, Shape
    <2>2. booking' \in [number : Bookings \cup {0}, registered : BOOLEAN, registeredAt : 0..MaxNow,
                        classReminderSentAt : BOOLEAN]
      BY <1>5, <1>a DEF ClaimReminder
    <2>3. reminder' \in [Reminders -> Reminder]
      <3>1. [reminder[r] EXCEPT !.step = "mail", !.about = booking.number] \in Reminder
        BY <1>a
      <3>2. \/ reminder' = [reminder EXCEPT ![r] =
                              [reminder[r] EXCEPT !.step = "mail", !.about = booking.number]]
            \/ reminder' = [reminder EXCEPT ![r] = NoReminder]
        BY <1>5, <1>a DEF ClaimReminder
      <3> QED BY <1>a, <1>b, <3>1, <3>2
    <2>4. reminded' \in [Bookings -> Reminded]
      <3>1. ASSUME NEW x \in Reminded, NEW S \in SUBSET Notices
            PROVE  [x EXCEPT !.channel = reminder[r].channel, !.rows = @ \cup S] \in Reminded
        BY <1>a DEF Reminded
      <3>2. \/ UNCHANGED reminded
            \/ /\ booking.registered
               /\ \E S \in SUBSET Notices : remember(r, S)
        BY <1>5, <1>a DEF ClaimReminder, StillRemindable, Fresh
      <3>3. ASSUME NEW S \in SUBSET Notices, booking.number \in Bookings, remember(r, S)
            PROVE  reminded' \in [Bookings -> Reminded]
        <4> DEFINE x == [reminded[booking.number] EXCEPT !.channel = reminder[r].channel,
                                                         !.rows = @ \cup S]
        <4>1. x \in Reminded
          BY <1>a, <3>1, <3>3
        <4>2. reminded' = [reminded EXCEPT ![booking.number] = x]
          BY <1>a, <3>3 DEF remember
        <4> HIDE DEF x
        <4> QED BY <1>a, <4>1, <4>2
      <3>4. ASSUME NEW S \in SUBSET Notices, booking.number \notin Bookings, remember(r, S)
            PROVE  reminded' = reminded
        BY <1>a, <3>4 DEF remember
      <3> QED BY <1>a, <3>2, <3>3, <3>4
    <2>5. RowsOK'
      BY <1>5, <2>1 DEF ClaimReminder, Shape, RowsOK, Row
    <2>6. BookingOK'
      BY <1>5, <1>a, <2>2, <2>3 DEF ClaimReminder, BookingOK
    <2> QED BY <2>4, <2>5, <2>6
  <1>6. ASSUME NEW r \in Reminders, MailReminder(r)
        PROVE  RowsOK' /\ BookingOK' /\ reminded' \in [Bookings -> Reminded]
    <2>1. ASSUME NEW x \in Reminded PROVE [x EXCEPT !.mails = @ + 1] \in Reminded
      BY DEF Reminded
    <2>2. reminded' \in [Bookings -> Reminded]
      <3>1. \/ UNCHANGED reminded
            \/ reminded' = [reminded EXCEPT ![reminder[r].about] =
                               [reminded[reminder[r].about] EXCEPT !.mails = @ + 1]]
        BY <1>6, <1>a DEF MailReminder
      <3>2. reminder[r].about \in Bookings => reminded[reminder[r].about] \in Reminded
        BY <1>a
      <3>3. reminder[r].about \in Bookings =>
              [reminded[reminder[r].about] EXCEPT !.mails = @ + 1] \in Reminded
        BY <2>1, <3>2
      <3> QED BY <1>a, <3>1, <3>3
    <2> QED BY <1>6, <1>a, <1>b, <2>2 DEF MailReminder, BookingOK, Shape, RowsOK
  <1> QED BY <1>a, <1>1, <1>2, <1>3, <1>4, <1>5, <1>6 DEF RemindersStep

\* Every step keeps the types, counters aside.
LEMMA ShapeStep == Shape /\ [Next]_vars => Shape'
  <1> SUFFICES ASSUME Shape, [Next]_vars PROVE Shape'
    OBVIOUS
  <1>1. CASE RowStep /\ UNCHANGED <<mailVars, pushVars, reminderVars>>
    BY <1>1, RowStepType DEF Shape, MailOK, PushersOK, BookingOK
  <1>2. CASE Erase
    BY <1>2, EraseType
  <1>3. CASE MailStep /\ UNCHANGED <<pushVars, reminderVars>>
    BY <1>3, MailStepType DEF Shape, PushersOK, BookingOK
  <1>4. CASE PushStep /\ UNCHANGED <<mailVars, reminderVars>>
    BY <1>4, PushStepType DEF Shape, MailOK, BookingOK
  <1>5. CASE RemindersStep /\ UNCHANGED <<mailVars, pushVars>>
    BY <1>5, RemindersStepType DEF Shape, MailOK, PushersOK, Reminded
  <1>6. CASE UNCHANGED vars
    BY <1>6 DEF Shape, RowsOK, MailOK, PushersOK, BookingOK
  <1> QED BY <1>1, <1>2, <1>3, <1>4, <1>5, <1>6 DEF Next

\* Every variable keeps its type, the two counters being natural numbers.
THEOREM ShapeInvariant == Spec => []Shape
  <1>1. Init => Shape
    <2> SUFFICES ASSUME Init PROVE Shape
      OBVIOUS
    <2>1. RowsOK
      <3>1. account \in [mail : BOOLEAN, push : BOOLEAN, channel : Channels, erased : BOOLEAN]
        BY DEF Init, RowsInit
      <3>2. row \in [Notices -> Row]
        BY BlankType DEF Init, RowsInit
      <3> QED BY <3>1, <3>2, RowsAssumption DEF Init, RowsInit, RowsOK, Row
    <2>2. MailOK
      BY MailAssumption DEF Init, MailInit, MailOK, NoMailer, Fates
    <2>3. PushersOK /\ pushes \in [Notices -> [Devices -> Nat]]
      BY RowsAssumption DEF Init, PushInit, PushersOK, NoPusher
    <2>4. BookingOK /\ reminded \in [Bookings -> Reminded]
      BY RowsAssumption DEF Init, RemindersInit, BookingOK, NoReminder, Unreminded, Reminded, Channels
    <2> QED BY <2>1, <2>2, <2>3, <2>4 DEF Shape, Reminded
  <1> QED BY <1>1, ShapeStep, PTL DEF Spec

---------------------------------------------------------------------------
(* What a step may do to a row *)

\* The row is as it was, or is new, read or deleted.
Kept(n) ==
    \/ row'[n] = row[n]
    \/ row[n].at = "unwritten" /\ \E kind \in Kinds : row'[n] = NewRow(kind)
    \/ row[n].at = "stored" /\ row'[n] = [row[n] EXCEPT !.isRead = TRUE]
    \/ row[n].at = "stored" /\ row'[n] = [row[n] EXCEPT !.at = "deleted"]

\* The writers and readers of rows, the erasure and the reminders do only this.
LEMMA RowsKept ==
    ASSUME Shape, RowStep \/ Erase \/ RemindersStep, NEW n \in Notices PROVE Kept(n)
  <1>a. row \in [Notices -> Row]
    BY DEF Shape, RowsOK, Row
  <1>1. ASSUME NEW kind \in Kinds, NEW k \in Fresh, createNotification(k, kind) PROVE Kept(n)
    BY <1>1, <1>a DEF createNotification, Fresh, Kept
  <1>2. CASE RowStep
    <2>1. ASSUME NEW kind \in Kinds, Notify(kind) PROVE Kept(n)
      BY <2>1, <1>1 DEF Notify
    <2>2. ASSUME NEW k \in Notices, markAsRead(k) PROVE Kept(n)
      BY <2>2, <1>a DEF markAsRead, Kept, Row
    <2>3. CASE Switch \/ ContentChanges \/ TimePasses
      BY <2>3 DEF Switch, ContentChanges, TimePasses, Kept
    <2> QED BY <1>2, <2>1, <2>2, <2>3 DEF RowStep
  <1>3. CASE Erase
    BY <1>3, <1>a DEF Erase, EraseRows, Kept
  <1>4. CASE RemindersStep
    <2>1. ASSUME NEW r \in Reminders, ClaimReminder(r) PROVE Kept(n)
      <3>1. UNCHANGED row \/ \E k \in Fresh : createNotification(k, "reminder")
        BY <2>1 DEF ClaimReminder
      <3> QED BY <3>1, <1>1 DEF Kept, Kinds
    <2>2. CASE Book \/ CancelBooking \/ ClassEnds
      BY <2>2 DEF Book, CancelBooking, ClassEnds, Kept
    <2>3. ASSUME NEW r \in Reminders, \/ ReadClasses(r) \/ ReadRegistrations(r)
                                     \/ MailReminder(r) \/ StopReminding(r)
          PROVE  Kept(n)
      BY <2>3 DEF ReadClasses, ReadRegistrations, MailReminder, StopReminding, Kept
    <2> QED BY <1>4, <2>1, <2>2, <2>3 DEF RemindersStep
  <1> QED BY <1>2, <1>3, <1>4

\* A tick only sets the mark of its own on stored rows.
LEMMA PushedRows ==
    ASSUME Shape, PushStep, NEW n \in Notices
    PROVE  \/ row'[n] = row[n]
           \/ row[n].at = "stored" /\ row'[n] = [row[n] EXCEPT !.pushHandled = TRUE]
  <1>1. ASSUME NEW S \in SUBSET Stored, Handle(S)
        PROVE  \/ row'[n] = row[n]
               \/ row[n].at = "stored" /\ row'[n] = [row[n] EXCEPT !.pushHandled = TRUE]
    BY <1>1 DEF Handle
  <1>2. ASSUME NEW p \in Pushers, RetireStale(p) PROVE \E S \in SUBSET Stored : Handle(S)
    BY <1>2 DEF RetireStale, Unhandled
  <1>3. ASSUME NEW p \in Pushers, ClaimPush(p) PROVE \E S \in SUBSET Stored : Handle(S)
    BY <1>3 DEF ClaimPush, ClaimablePush, Unhandled
  <1>4. ASSUME NEW p \in Pushers, \/ ReadCandidates(p) \/ TakeUp(p) \/ Resolve(p) \/ SendPush(p)
                                 \/ Sent(p) \/ EndTick(p) \/ StopPushing(p)
        PROVE  UNCHANGED row
    BY <1>4 DEF ReadCandidates, TakeUp, Resolve, SendPush, Sent, EndTick, StopPushing
  <1>5. CASE Subscribe \/ Unsubscribe
    BY <1>5 DEF Subscribe, Unsubscribe
  <1> QED BY <1>1, <1>2, <1>3, <1>4, <1>5 DEF PushStep

\* A mail sweep only sets or takes back its own mark on stored rows.
LEMMA MailedRows ==
    ASSUME Shape, MailStep, NEW n \in Notices
    PROVE  \/ row'[n] = row[n]
           \/ row[n].at = "stored" /\ \E sent \in BOOLEAN : row'[n] = [row[n] EXCEPT !.emailSent = sent]
  <1>a. row \in [Notices -> Row]
    BY DEF Shape, RowsOK, Row
  <1>1. ASSUME NEW k \in Stored, NEW sent \in BOOLEAN, Mark(k, sent)
        PROVE  \/ row'[n] = row[n]
               \/ row[n].at = "stored" /\ row'[n] = [row[n] EXCEPT !.emailSent = sent]
    BY <1>1, <1>a DEF Mark, Row
  <1>2. ASSUME NEW m \in Mailers, MailRun(m) \/ StopMailing(m)
        PROVE  UNCHANGED row \/ \E k \in Stored, sent \in BOOLEAN : Mark(k, sent)
    <2>1. CASE MarkSkipped(m)
      BY <2>1 DEF MarkSkipped, Claimable
    <2>2. CASE Claim(m)
      BY <2>2 DEF Claim, Claimable
    <2>3. CASE Release(m)
      BY <2>3 DEF Release
    <2>4. CASE \/ StartMailing(m) \/ LookUp(m) \/ SendMail(m) \/ EndMailing(m) \/ StopMailing(m)
      BY <2>4 DEF StartMailing, LookUp, SendMail, EndMailing, StopMailing
    <2> QED BY <1>2, <2>1, <2>2, <2>3, <2>4 DEF MailRun
  <1> QED BY <1>1, <1>2 DEF MailStep

---------------------------------------------------------------------------
(* The mail fallback *)

Holds(m) == mailer[m].step \in {"send", "release"}

\* A row of another part's, as the fallback sees it, after a step of another part.
MailSame(n) ==
    \/ /\ row[n].at = "unwritten" /\ row'[n].at = "stored"
       /\ row'[n].emailSent = (row'[n].kind = "reminder")
    \/ /\ row'[n].emailSent = row[n].emailSent /\ row'[n].kind = row[n].kind
       /\ row'[n].at = row[n].at \/ row'[n].at = "deleted"

\* No other part touches the fallback's state or a written row's mark.
LEMMA OthersKeepMail ==
    ASSUME Shape,
           \/ RowStep /\ UNCHANGED <<mailVars, pushVars, reminderVars>>
           \/ Erase
           \/ PushStep /\ UNCHANGED <<mailVars, reminderVars>>
           \/ RemindersStep /\ UNCHANGED <<mailVars, pushVars>>
           \/ UNCHANGED vars
    PROVE  UNCHANGED mailVars /\ \A n \in Notices : MailSame(n)
  <1>1. UNCHANGED mailVars
    BY DEF Erase
  <1>2. ASSUME NEW n \in Notices PROVE MailSame(n)
    <2>a. row[n] \in Row
      BY DEF Shape, RowsOK, Row
    <2>1. \/ Kept(n)
          \/ row[n].at = "stored" /\ row'[n] = [row[n] EXCEPT !.pushHandled = TRUE]
      BY RowsKept, PushedRows DEF Kept
    <2> QED BY <2>a, <2>1 DEF Kept, MailSame, NewRow, Blank, Row
  <1> QED BY <1>1, <1>2

\* What the mark of a row says of its mails.
UnwrittenUnmarked ==
    \A n \in Notices : row[n].at = "unwritten" => ~row[n].emailSent /\ row[n].kind = "plain"
RemindersMarked == \A n \in Notices : row[n].kind = "reminder" => row[n].emailSent
MarkedFor(n) == row[n].emailSent /\ row[n].kind # "reminder" /\ row[n].at # "unwritten"
HoldersMarked == \A m \in Mailers : Holds(m) => MarkedFor(mailer[m].notice)
OneHolder ==
    \A m, k \in Mailers : m # k /\ Holds(m) /\ Holds(k) => mailer[m].notice # mailer[k].notice
HasHolder(n) == \E m \in Mailers : mailer[m].notice = n /\ Holds(m)
MarksExplained ==
    \A n \in Notices :
        row[n].emailSent /\ row[n].kind # "reminder" => fate[n] # "none" \/ HasHolder(n)
MailsKnown ==
    \A mail \in mails : row[mail.notice].kind # "reminder" /\ row[mail.notice].at # "unwritten"
MailedMarked ==
    \A mail \in mails : mail.notice \notin doubted =>
        row[mail.notice].emailSent /\ ~HasHolder(mail.notice)
OneMail ==
    \A mail, other \in mails :
        mail.notice = other.notice /\ mail.notice \notin doubted => mail = other
MailInv ==
    /\ UnwrittenUnmarked /\ RemindersMarked /\ HoldersMarked /\ OneHolder
    /\ MarksExplained /\ MailsKnown /\ MailedMarked /\ OneMail

\* No step breaks what the fallback keeps: one sweep holds a row, and mails only what
\* it holds.
LEMMA MailInvStep == Shape /\ Shape' /\ MailInv /\ [Next]_vars => MailInv'
  <1> SUFFICES ASSUME Shape, Shape', MailInv, [Next]_vars PROVE MailInv'
    OBVIOUS
  <1>a. /\ row \in [Notices -> Row] /\ row' \in [Notices -> Row]
        /\ mails \in SUBSET [notice : Notices, says : {"before", "after"}]
        /\ mailer \in [Mailers -> Mailer] /\ fate \in [Notices -> Fates]
    BY MailAssumption DEF Shape, RowsOK, MailOK, Row, Mailer
  <1>b. \A m \in Mailers : mailer[m].step \in {"skip", "claim", "send", "release"} =>
                            mailer[m].notice \in Notices
    BY <1>a DEF Shape, MailOK, Mailer
  <1>c. \A mail \in mails : mail.notice \in Notices
    BY <1>a
  <1>1. ASSUME UNCHANGED mailVars, \A n \in Notices : MailSame(n) PROVE MailInv'
    <2>1. \A n \in Notices : HasHolder(n)' = HasHolder(n)
      BY <1>1 DEF HasHolder, Holds
    <2>2. \A n \in Notices : MarkedFor(n) => MarkedFor(n)'
      BY <1>1 DEF MarkedFor, MailSame
    <2>3. UnwrittenUnmarked' /\ RemindersMarked'
      BY <1>1 DEF MailInv, UnwrittenUnmarked, RemindersMarked, MailSame
    <2>4. HoldersMarked' /\ OneHolder'
      BY <1>1, <1>b, <2>2 DEF MailInv, HoldersMarked, OneHolder, Holds
    <2>5. MarksExplained'
      BY <1>1, <2>1 DEF MailInv, MarksExplained, MailSame, UnwrittenUnmarked
    <2>6. MailsKnown' /\ MailedMarked'
      BY <1>1, <1>c, <2>1 DEF MailInv, MailsKnown, MailedMarked, MailSame
    <2>7. OneMail'
      BY <1>1 DEF MailInv, OneMail
    <2> QED BY <2>3, <2>4, <2>5, <2>6, <2>7 DEF MailInv
  \* A step that neither marks nor mails, and takes no hold.
  <1>2. ASSUME NEW m \in Mailers, UNCHANGED <<row, mails, doubted>>,
               \A k \in Mailers \ {m} : mailer'[k] = mailer[k],
               Holds(m)' => Holds(m) /\ mailer'[m].notice = mailer[m].notice,
               \A n \in Notices : \/ fate'[n] # "none"
                                  \/ fate'[n] = fate[n] /\ (HasHolder(n) => HasHolder(n)')
        PROVE  MailInv'
    <2>1. ASSUME NEW k \in Mailers, Holds(k)' PROVE Holds(k) /\ mailer'[k].notice = mailer[k].notice
      BY <1>2, <2>1 DEF Holds
    <2>2. \A n \in Notices : HasHolder(n)' => HasHolder(n)
      BY <2>1 DEF HasHolder
    <2>3. HoldersMarked' /\ OneHolder'
      BY <1>2, <2>1 DEF MailInv, HoldersMarked, OneHolder, MarkedFor
    <2>4. MarksExplained'
      BY <1>2 DEF MailInv, MarksExplained
    <2>5. MailedMarked'
      BY <1>2, <1>c, <2>2 DEF MailInv, MailedMarked
    <2> QED BY <1>2, <2>3, <2>4, <2>5
        DEF MailInv, UnwrittenUnmarked, RemindersMarked, MailsKnown, OneMail
  <1>3. ASSUME NEW m \in Mailers, StartMailing(m) \/ LookUp(m) \/ EndMailing(m) PROVE MailInv'
    <2>1. /\ ~Holds(m) /\ ~Holds(m)' /\ UNCHANGED <<row, mails, doubted, fate>>
          /\ \A k \in Mailers \ {m} : mailer'[k] = mailer[k]
      BY <1>3, <1>a DEF StartMailing, LookUp, EndMailing, Holds, NoMailer, Mailer
    <2>2. \A n \in Notices : HasHolder(n) => HasHolder(n)'
      BY <2>1 DEF HasHolder, Holds
    <2> QED BY <1>2, <2>1, <2>2
  <1>d. ASSUME NEW m \in Mailers, NextNotice(m)
        PROVE  ~Holds(m)' /\ \A k \in Mailers \ {m} : mailer'[k] = mailer[k]
    BY <1>d, <1>a DEF NextNotice, Holds, Mailer
  <1>e. ASSUME NEW m \in Mailers, NEW step \in {"send", "release"}, Goes(m, step)
        PROVE  /\ Holds(m)' /\ mailer'[m].notice = mailer[m].notice
               /\ \A k \in Mailers \ {m} : mailer'[k] = mailer[k]
    BY <1>e, <1>a DEF Goes, Holds, Mailer
  \* The mark of a row nobody holds and nobody was mailed about is set.
  <1>4. ASSUME NEW m \in Mailers, NEW n \in Notices, Claimable(n)
        PROVE  /\ ~HasHolder(n) /\ row[n].kind # "reminder" /\ row[n].at # "unwritten"
               /\ \A mail \in mails : mail.notice = n => n \in doubted
    BY <1>4, <1>c
       DEF Claimable, MailInv, HasHolder, HoldersMarked, MarkedFor, MailedMarked, RemindersMarked
  <1>5. ASSUME NEW m \in Mailers, MarkSkipped(m) PROVE MailInv'
    <2> DEFINE n == mailer[m].notice
    <2>1. /\ ~Holds(m) /\ ~Holds(m)' /\ n \in Notices
          /\ \A k \in Mailers \ {m} : mailer'[k] = mailer[k]
      BY <1>5, <1>b, <1>d DEF MarkSkipped, Holds
    <2>2. \A x \in Notices : HasHolder(x)' = HasHolder(x)
      BY <2>1 DEF HasHolder, Holds
    <2>3. CASE Claimable(n) /\ Mark(n, TRUE) /\ fate' = [fate EXCEPT ![n] = "skipped"]
      <3>1. /\ ~HasHolder(n) /\ row[n].kind # "reminder" /\ row[n].at # "unwritten"
            /\ \A mail \in mails : mail.notice = n => n \in doubted
        BY <1>4, <2>1, <2>3
      <3>2. /\ UNCHANGED <<mails, doubted>>
            /\ \A x \in Notices \ {n} : row'[x] = row[x] /\ fate'[x] = fate[x]
            /\ row'[n].emailSent /\ row'[n].kind = row[n].kind /\ row'[n].at = row[n].at
            /\ fate'[n] # "none"
        BY <1>5, <1>a, <2>1, <2>3 DEF MarkSkipped, Mark, Row
      <3> HIDE DEF n
      <3>3. UnwrittenUnmarked' /\ RemindersMarked' /\ MailsKnown' /\ OneMail'
        BY <1>c, <3>1, <3>2 DEF MailInv, UnwrittenUnmarked, RemindersMarked, MailsKnown, OneMail
      <3>4. HoldersMarked' /\ OneHolder'
        BY <1>b, <2>1, <3>1, <3>2
           DEF MailInv, HoldersMarked, OneHolder, MarkedFor, Holds, HasHolder
      <3>5. MarksExplained'
        BY <2>2, <3>2 DEF MailInv, MarksExplained
      <3>6. MailedMarked'
        BY <1>c, <2>2, <3>1, <3>2 DEF MailInv, MailedMarked
      <3> QED BY <3>3, <3>4, <3>5, <3>6 DEF MailInv
    <2>4. CASE UNCHANGED <<row, fate>>
      BY <1>2, <1>5, <2>1, <2>2, <2>4 DEF MarkSkipped
    <2> QED BY <1>5, <2>3, <2>4 DEF MarkSkipped
  <1>6. ASSUME NEW m \in Mailers, Claim(m) PROVE MailInv'
    <2>0. PICK n \in Notices : n = mailer[m].notice
      BY <1>6, <1>b DEF Claim
    <2>1. ~Holds(m) /\ UNCHANGED <<mails, fate, doubted>>
      BY <1>6 DEF Claim, Holds
    <2>2. CASE Claimable(n) /\ Mark(n, TRUE) /\ Goes(m, "send")
      <3>1. /\ ~HasHolder(n) /\ row[n].kind # "reminder" /\ row[n].at # "unwritten"
            /\ \A mail \in mails : mail.notice = n => n \in doubted
        BY <1>4, <2>2
      <3>2. /\ \A x \in Notices \ {n} : row'[x] = row[x]
            /\ row'[n].emailSent /\ row'[n].kind = row[n].kind /\ row'[n].at = row[n].at
        BY <1>a, <2>1, <2>2 DEF Mark, Row
      <3>3. /\ Holds(m)' /\ mailer'[m].notice = n
            /\ \A k \in Mailers \ {m} : mailer'[k] = mailer[k]
        BY <1>e, <2>0, <2>2
      <3>4. UnwrittenUnmarked' /\ RemindersMarked' /\ MailsKnown' /\ OneMail'
        BY <1>c, <2>1, <3>1, <3>2 DEF MailInv, UnwrittenUnmarked, RemindersMarked, MailsKnown, OneMail
      <3>5. \A x \in Notices \ {n} : HasHolder(x)' = HasHolder(x)
        BY <2>1, <3>3 DEF HasHolder, Holds
      <3>6. HoldersMarked'
        BY <1>b, <3>1, <3>2, <3>3 DEF MailInv, HoldersMarked, MarkedFor, Holds
      <3>7. OneHolder'
        BY <3>1, <3>3 DEF MailInv, OneHolder, HasHolder, Holds
      <3>8. MarksExplained'
        <4>1. HasHolder(n)'
          BY <3>3 DEF HasHolder
        <4> QED BY <2>1, <3>2, <3>5, <4>1 DEF MailInv, MarksExplained
      <3>9. MailedMarked'
        BY <1>c, <2>1, <3>1, <3>2, <3>5 DEF MailInv, MailedMarked
      <3> QED BY <3>4, <3>6, <3>7, <3>8, <3>9 DEF MailInv
    <2>3. CASE NextNotice(m) /\ UNCHANGED row
      <3>1. ~Holds(m)' /\ \A k \in Mailers \ {m} : mailer'[k] = mailer[k]
        BY <1>d, <2>3
      <3>2. \A x \in Notices : HasHolder(x)' = HasHolder(x)
        BY <2>1, <3>1 DEF HasHolder, Holds
      <3> QED BY <1>2, <2>1, <2>3, <3>1, <3>2
    <2> QED BY <1>6, <2>0, <2>2, <2>3 DEF Claim
  \* The holder of a row lets go of it, mailed or not.
  <1>f. ASSUME NEW m \in Mailers, Holds(m), NextNotice(m), NEW x \in Notices
        PROVE  /\ x # mailer[m].notice => HasHolder(x)' = HasHolder(x)
               /\ x = mailer[m].notice => ~HasHolder(x)'
    <2>1. ~Holds(m)' /\ \A k \in Mailers \ {m} : mailer'[k] = mailer[k]
      BY <1>d, <1>f
    <2>2. ASSUME x = mailer[m].notice, HasHolder(x)' PROVE FALSE
      <3>1. PICK k \in Mailers : mailer'[k].notice = x /\ Holds(k)'
        BY <2>2 DEF HasHolder
      <3>2. k # m /\ Holds(k) /\ mailer[k].notice = x
        BY <2>1, <3>1 DEF Holds
      <3> QED BY <1>f, <2>2, <3>2 DEF MailInv, OneHolder
    <2>3. x # mailer[m].notice => HasHolder(x)' = HasHolder(x)
      BY <2>1 DEF HasHolder, Holds
    <2> QED BY <2>2, <2>3
  <1>7. ASSUME NEW m \in Mailers, SendMail(m) PROVE MailInv'
    <2>0. PICK n \in Notices : n = mailer[m].notice
      BY <1>7, <1>b DEF SendMail
    <2>1. Holds(m) /\ HasHolder(n) /\ MarkedFor(n) /\ UNCHANGED row
      BY <1>7, <2>0 DEF SendMail, Holds, HasHolder, MailInv, HoldersMarked
    <2>a. ASSUME Accepted(n)
          PROVE  /\ \A mail \in mails' : mail \in mails \/ mail = [notice |-> n, says |-> content]
                 /\ fate'[n] # "none" /\ \A x \in Notices \ {n} : fate'[x] = fate[x]
      BY <1>a, <2>a DEF Accepted
    <2>b. \A mail \in mails : mail.notice = n => n \in doubted
      BY <2>1 DEF MailInv, MailedMarked
    <2>c. UnwrittenUnmarked' /\ RemindersMarked'
      BY <2>1 DEF MailInv, UnwrittenUnmarked, RemindersMarked
    <2>d. ASSUME Accepted(n) PROVE MailsKnown'
      BY <2>1, <2>a, <2>d DEF MailInv, MailsKnown, MarkedFor
    <2>2. CASE Accepted(n) /\ NextNotice(m) /\ UNCHANGED doubted
      <3>1. /\ ~HasHolder(n)' /\ \A x \in Notices \ {n} : HasHolder(x)' = HasHolder(x)
            /\ ~Holds(m)' /\ \A k \in Mailers \ {m} : mailer'[k] = mailer[k]
        BY <1>d, <1>f, <2>0, <2>1, <2>2
      <3>2. HoldersMarked' /\ OneHolder'
        BY <2>1, <3>1 DEF MailInv, HoldersMarked, OneHolder, MarkedFor, Holds
      <3>3. MarksExplained'
        BY <2>1, <2>2, <2>a, <3>1 DEF MailInv, MarksExplained
      <3>4. MailedMarked'
        BY <1>c, <2>1, <2>2, <2>a, <3>1 DEF MailInv, MailedMarked, MarkedFor
      <3>5. OneMail'
        BY <2>2, <2>a, <2>b DEF MailInv, OneMail
      <3> QED BY <2>2, <2>c, <2>d, <3>2, <3>3, <3>4, <3>5 DEF MailInv
    <2>3. CASE Accepted(n) /\ doubted' = doubted \cup {n} /\ Goes(m, "release")
      <3>1. /\ Holds(m)' /\ mailer'[m].notice = mailer[m].notice
            /\ \A k \in Mailers \ {m} : mailer'[k] = mailer[k]
        BY <1>e, <2>3
      <3>2. \A x \in Notices : HasHolder(x)' = HasHolder(x)
        BY <2>1, <3>1 DEF HasHolder, Holds
      <3>3. HoldersMarked' /\ OneHolder'
        BY <2>1, <3>1 DEF MailInv, HoldersMarked, OneHolder, MarkedFor, Holds
      <3>4. MarksExplained'
        BY <2>1, <2>3, <2>a, <3>2 DEF MailInv, MarksExplained
      <3>5. MailedMarked'
        BY <1>c, <2>1, <2>3, <2>a, <3>2 DEF MailInv, MailedMarked
      <3>6. OneMail'
        BY <2>3, <2>a DEF MailInv, OneMail
      <3> QED BY <2>3, <2>c, <2>d, <3>3, <3>4, <3>5, <3>6 DEF MailInv
    <2>4. CASE Goes(m, "release") /\ UNCHANGED <<mails, fate, doubted>>
      <3>1. /\ Holds(m)' /\ mailer'[m].notice = mailer[m].notice
            /\ \A k \in Mailers \ {m} : mailer'[k] = mailer[k]
        BY <1>e, <2>4
      <3>2. \A x \in Notices : HasHolder(x)' = HasHolder(x)
        BY <2>1, <3>1 DEF HasHolder, Holds
      <3> QED BY <1>2, <2>1, <2>4, <3>1, <3>2
    <2> QED BY <1>7, <2>0, <2>2, <2>3, <2>4 DEF SendMail
  <1>8. ASSUME NEW m \in Mailers, Release(m) PROVE MailInv'
    <2>0. PICK n \in Notices : n = mailer[m].notice
      BY <1>8, <1>b DEF Release
    <2>1. Holds(m) /\ HasHolder(n) /\ NextNotice(m) /\ UNCHANGED <<mails, doubted>>
      BY <1>8, <2>0 DEF Release, Holds, HasHolder
    <2>2. /\ ~HasHolder(n)' /\ \A x \in Notices \ {n} : HasHolder(x)' = HasHolder(x)
          /\ ~Holds(m)' /\ \A k \in Mailers \ {m} : mailer'[k] = mailer[k]
      BY <1>d, <1>f, <2>0, <2>1
    <2>3. CASE Mark(n, FALSE) /\ UNCHANGED fate
      <3>1. /\ \A x \in Notices \ {n} : row'[x] = row[x]
            /\ ~row'[n].emailSent /\ row'[n].kind = row[n].kind /\ row'[n].at = row[n].at
        BY <1>a, <2>3 DEF Mark, Row
      <3>2. MarkedFor(n) /\ \A mail \in mails : mail.notice = n => n \in doubted
        BY <2>0, <2>1 DEF MailInv, MailedMarked, HoldersMarked
      <3>3. UnwrittenUnmarked' /\ RemindersMarked'
        BY <3>1, <3>2 DEF MailInv, UnwrittenUnmarked, RemindersMarked, MarkedFor
      <3>4. MailsKnown' /\ OneMail'
        BY <1>c, <2>1, <3>1 DEF MailInv, MailsKnown, OneMail
      <3>5. HoldersMarked'
        <4>1. ASSUME NEW k \in Mailers, Holds(k)' PROVE MarkedFor(mailer[k].notice)'
          <5>1. k # m /\ Holds(k) /\ mailer'[k] = mailer[k]
            BY <2>2, <4>1 DEF Holds
          <5>2. mailer[k].notice \in Notices /\ mailer[k].notice # n
            BY <1>b, <2>0, <2>1, <5>1 DEF MailInv, OneHolder, Holds
          <5> QED BY <3>1, <5>1, <5>2 DEF MailInv, HoldersMarked, MarkedFor
        <4> QED BY <4>1 DEF HoldersMarked
      <3>6. OneHolder'
        BY <2>2 DEF MailInv, OneHolder, Holds
      <3>7. MarksExplained'
        BY <2>2, <2>3, <3>1 DEF MailInv, MarksExplained
      <3>8. MailedMarked'
        BY <1>c, <2>1, <2>2, <3>1, <3>2 DEF MailInv, MailedMarked
      <3> QED BY <3>3, <3>4, <3>5, <3>6, <3>7, <3>8 DEF MailInv
    <2>4. CASE UNCHANGED row /\ fate' = [fate EXCEPT ![n] = "stranded"]
      <3>1. fate'[n] # "none" /\ \A x \in Notices \ {n} : fate'[x] = fate[x]
        BY <1>a, <2>4
      <3> QED BY <1>2, <2>1, <2>2, <2>4, <3>1
    <2> QED BY <1>8, <2>0, <2>3, <2>4 DEF Release
  <1>9. ASSUME NEW m \in Mailers, StopMailing(m) PROVE MailInv'
    <2>1. /\ ~Holds(m)' /\ UNCHANGED <<row, mails, doubted>>
          /\ \A k \in Mailers \ {m} : mailer'[k] = mailer[k]
      BY <1>9, <1>a DEF StopMailing, Holds, NoMailer
    <2>2. ASSUME NEW x \in Notices
          PROVE  fate'[x] # "none" \/ (fate'[x] = fate[x] /\ (HasHolder(x) => HasHolder(x)'))
      <3>1. CASE x = mailer[m].notice /\ Holds(m)
        BY <1>9, <1>a, <3>1 DEF StopMailing, Holds
      <3>2. CASE ~(x = mailer[m].notice /\ Holds(m))
        <4>1. HasHolder(x) => HasHolder(x)'
          BY <2>1, <3>2 DEF HasHolder, Holds
        <4>2. fate'[x] # "none" \/ fate'[x] = fate[x]
          BY <1>9, <1>a, <3>2 DEF StopMailing
        <4> QED BY <4>1, <4>2
      <3> QED BY <3>1, <3>2
    <2> QED BY <1>2, <2>1, <2>2
  <1> QED BY <1>1, <1>3, <1>5, <1>6, <1>7, <1>8, <1>9, OthersKeepMail DEF Next, MailStep, MailRun

\* What the fallback keeps holds in every reachable state.
THEOREM MailInvariant == Spec => []MailInv
  <1>1. Init => MailInv
    BY DEF Init, RowsInit, MailInit, Blank, NoMailer, MailInv, UnwrittenUnmarked, RemindersMarked,
           HoldersMarked, OneHolder, MarksExplained, MailsKnown, MailedMarked, OneMail, Holds
  <1> QED BY <1>1, MailInvStep, ShapeInvariant, PTL DEF Spec

\* A row marked as mailed was mailed, or not wanted, or is reported as stranded, or
\* was in the hands of a sweep that was stopped.
THEOREM NoneDropped == Spec => []NothingDropped
  <1>1. MailInv => NothingDropped
    BY DEF MailInv, MarksExplained, HasHolder, Holds, NothingDropped
  <1> QED BY <1>1, MailInvariant, PTL

\* Overlapping sweeps mail a row once, unless the answer to its first mail was lost.
THEOREM RowMailedOnce == Spec => []MailedOnce
  <1>1. Shape /\ MailInv => MailedOnce
    <2> SUFFICES ASSUME Shape, MailInv, NEW n \in Notices, n \notin doubted
                 PROVE  ~(Cardinality({mail \in mails : mail.notice = n}) > 1)
      BY DEF MailedOnce
    <2> DEFINE M == {mail \in mails : mail.notice = n}
    <2>1. CASE M = {}
      BY <2>1, FS_EmptySet
    <2>2. CASE M # {}
      <3>1. PICK mail \in M : M = {mail}
        BY <2>2 DEF MailInv, OneMail
      <3>2. Cardinality({mail}) = 1
        BY FS_Singleton
      <3> HIDE DEF M
      <3>3. ~(Cardinality(M) > 1)
        BY <3>1, <3>2
      <3> QED BY <3>3 DEF M
    <2> QED BY <2>1, <2>2
  <1> QED BY <1>1, MailInvariant, ShapeInvariant, PTL

---------------------------------------------------------------------------
(* The push *)

\* A row as the push sees it after a step of another part.
PushSame(n) ==
    \/ /\ row[n].at = "unwritten" /\ row'[n].at # "unwritten"
       /\ row'[n].made = now /\ ~row'[n].pushHandled
    \/ /\ row'[n].pushHandled = row[n].pushHandled /\ row'[n].made = row[n].made
       /\ row'[n].at = "unwritten" <=> row[n].at = "unwritten"
       /\ row'[n].at = "stored" => row[n].at = "stored"

\* The other parts keep a tick's state, what was pushed and what is handled, and the
\* clock goes forward.
LEMMA OthersKeepPush ==
    ASSUME Shape,
           \/ RowStep /\ UNCHANGED <<mailVars, pushVars, reminderVars>>
           \/ Erase
           \/ MailStep /\ UNCHANGED <<pushVars, reminderVars>>
           \/ RemindersStep /\ UNCHANGED <<mailVars, pushVars>>
           \/ Subscribe \/ Unsubscribe
           \/ UNCHANGED vars
    PROVE  UNCHANGED <<pusher, pushes>> /\ now <= now' /\ \A n \in Notices : PushSame(n)
  <1>1. UNCHANGED <<pusher, pushes>>
    BY DEF Erase, Subscribe, Unsubscribe
  <1>2. ASSUME NEW n \in Notices PROVE PushSame(n)
    <2>a. row[n] \in Row
      BY DEF Shape, RowsOK, Row
    <2>1. \/ Kept(n)
          \/ row[n].at = "stored" /\ \E sent \in BOOLEAN : row'[n] = [row[n] EXCEPT !.emailSent = sent]
      BY RowsKept, MailedRows DEF Kept, Subscribe, Unsubscribe
    <2> QED BY <2>a, <2>1 DEF Kept, PushSame, NewRow, Blank, Row
  <1>3. now' = now \/ now' = now + 1
    <2>1. RowStep => now' = now \/ now' = now + 1
      BY DEF RowStep, Notify, markAsRead, Switch, ContentChanges, TimePasses
    <2>2. MailStep => UNCHANGED now
      BY DEF MailStep, MailRun, StartMailing, LookUp, MarkSkipped, Claim, SendMail, Release,
             EndMailing, StopMailing
    <2>3. RemindersStep => UNCHANGED now
      BY DEF RemindersStep, Book, CancelBooking, ClassEnds, ReadClasses, ReadRegistrations,
             ClaimReminder, MailReminder, StopReminding
    <2> QED BY <2>1, <2>2, <2>3 DEF Erase, EraseRows, Subscribe, Unsubscribe
  <1>4. now \in Nat
    BY RowsAssumption DEF Shape, RowsOK
  <1> QED BY <1>1, <1>2, <1>3, <1>4

\* What the push's mark and a tick's hands say of what was sent.
UnwrittenUnhandled == \A n \in Notices : row[n].at = "unwritten" => ~row[n].pushHandled
UnhandledUnsent ==
    \A n \in Notices : ~row[n].pushHandled =>
        /\ \A d \in Devices : pushes[n][d] = 0
        /\ \A p \in Pushers : n \notin pusher[p].taken
OneTaker == \A p, q \in Pushers : p # q => pusher[p].taken \cap pusher[q].taken = {}
LeftUnsent(p) ==
    /\ pusher[p].step \in {"idle", "retired", "claim", "picked"} => pusher[p].taken = {}
    /\ pusher[p].step = "resolve" => \A n \in pusher[p].taken, d \in Devices : pushes[n][d] = 0
    /\ pusher[p].step = "send" =>
          \A n \in pusher[p].taken, d \in pusher[p].left : pushes[n][d] = 0
TodoFresh(p) ==
    /\ pusher[p].step = "idle" => pusher[p].todo = {}
    /\ pusher[p].step # "picked" => pusher[p].picked = {}
    /\ \A n \in pusher[p].todo \cup pusher[p].picked :
          row[n].at # "unwritten" /\ ~StaleAt(n, pusher[p].at)
\* What a tick under way found stale is handled: nobody claims it any more.
StaleHandled(p) ==
    /\ pusher[p].at <= now
    /\ pusher[p].step # "idle" => \A n \in Stored : StaleAt(n, pusher[p].at) => row[n].pushHandled
PushInv ==
    /\ UnwrittenUnhandled /\ UnhandledUnsent /\ OneTaker /\ PushedOnce
    /\ \A p \in Pushers : LeftUnsent(p) /\ TodoFresh(p) /\ StaleHandled(p)

\* No step breaks what the push keeps: claims are exclusive and precede the sends.
LEMMA PushInvStep == Shape /\ Shape' /\ PushInv /\ [Next]_vars => PushInv'
  <1> SUFFICES ASSUME Shape, Shape', PushInv, [Next]_vars PROVE PushInv'
    OBVIOUS
  <1>a. /\ row \in [Notices -> Row] /\ pusher \in [Pushers -> Pusher]
        /\ pushes \in [Notices -> [Devices -> Nat]] /\ now \in Nat
    BY RowsAssumption DEF Shape, RowsOK, PushersOK, Row, Pusher
  <1>1. ASSUME UNCHANGED <<pusher, pushes>>, now \in Nat, now' \in Int, now <= now',
               \A n \in Notices : PushSame(n)
        PROVE  PushInv'
    <2>1. UnwrittenUnhandled' /\ UnhandledUnsent'
      BY <1>1 DEF PushInv, UnwrittenUnhandled, UnhandledUnsent, PushSame
    <2>2. OneTaker' /\ PushedOnce' /\ \A p \in Pushers : LeftUnsent(p)'
      BY <1>1 DEF PushInv, OneTaker, PushedOnce, LeftUnsent
    <2>3. ASSUME NEW p \in Pushers PROVE TodoFresh(p)'
      <3>1. \A n \in pusher[p].todo \cup pusher[p].picked : n \in Notices /\ PushSame(n)
        BY <1>1, <1>a DEF Pusher
      <3> QED BY <1>1, <3>1 DEF PushInv, TodoFresh, PushSame, StaleAt
    <2>4. ASSUME NEW p \in Pushers PROVE StaleHandled(p)'
      <3>1. pusher[p].at \in Nat /\ pusher[p].at <= now
        BY <1>a, RowsAssumption DEF Pusher, PushInv, StaleHandled
      <3>2. ASSUME NEW n \in Notices, row'[n].at = "stored", row'[n].made <= pusher[p].at - Stale,
                   pusher[p].step # "idle"
            PROVE  row'[n].pushHandled
        <4>1. CASE row[n].at = "unwritten" /\ row'[n].made = now
          BY <1>1, <3>1, <3>2, <4>1, StaleAssumption
        <4>2. CASE /\ row[n].at = "stored" /\ row'[n].made = row[n].made
                   /\ row'[n].pushHandled = row[n].pushHandled
          BY <3>2, <4>2 DEF PushInv, StaleHandled, StaleAt
        <4> QED BY <1>1, <3>2, <4>1, <4>2 DEF PushSame
      <3>3. now' >= pusher[p].at
        BY <1>1, <3>1
      <3> QED BY <1>1, <3>2, <3>3 DEF StaleHandled, StaleAt
    <2> QED BY <2>1, <2>2, <2>3, <2>4 DEF PushInv
  \* A tick's step that sends nothing and takes nothing.
  <1>2. ASSUME NEW p \in Pushers, UNCHANGED pushes,
               \A q \in Pushers \ {p} : pusher'[q] = pusher[q],
               pusher'[p].taken \subseteq pusher[p].taken,
               LeftUnsent(p)', TodoFresh(p)', StaleHandled(p)', UNCHANGED now,
               \A n \in Notices : /\ row'[n].at = row[n].at /\ row'[n].made = row[n].made
                                  /\ row[n].pushHandled => row'[n].pushHandled
                                  /\ row'[n].at = "unwritten" => row'[n].pushHandled = row[n].pushHandled
        PROVE  PushInv'
    <2>1. \A q \in Pushers : pusher'[q].taken \subseteq pusher[q].taken
      BY <1>2
    <2>2. UnwrittenUnhandled' /\ UnhandledUnsent'
      BY <1>2, <2>1 DEF PushInv, UnwrittenUnhandled, UnhandledUnsent
    <2>3. OneTaker' /\ PushedOnce'
      BY <1>2, <2>1 DEF PushInv, OneTaker, PushedOnce
    <2>4. ASSUME NEW q \in Pushers \ {p} PROVE LeftUnsent(q)' /\ TodoFresh(q)' /\ StaleHandled(q)'
      BY <1>2, <1>a DEF PushInv, LeftUnsent, TodoFresh, StaleHandled, StaleAt, Pusher
    <2> QED BY <1>2, <2>2, <2>3, <2>4 DEF PushInv
  <1>b. ASSUME NEW S \in SUBSET Stored, Handle(S), NEW n \in Notices
        PROVE  /\ row'[n].at = row[n].at /\ row'[n].made = row[n].made
               /\ row[n].pushHandled => row'[n].pushHandled
               /\ row'[n].at = "unwritten" => row'[n].pushHandled = row[n].pushHandled
               /\ n \in S => row'[n].pushHandled
               /\ n \notin S => row'[n] = row[n]
    BY <1>a, <1>b DEF Handle, Row
  \* The same, for a step that leaves the rows as they are: what was stale stays handled.
  <1>c. ASSUME NEW p \in Pushers, UNCHANGED <<row, pushes, now>>,
               \A q \in Pushers \ {p} : pusher'[q] = pusher[q],
               pusher'[p].taken \subseteq pusher[p].taken,
               \/ pusher'[p].at = pusher[p].at /\ pusher[p].step # "idle"
               \/ pusher'[p].at = 0 /\ pusher'[p].step = "idle",
               LeftUnsent(p)', TodoFresh(p)'
        PROVE  PushInv'
    <2>1. StaleHandled(p)'
      BY <1>c, <1>a DEF PushInv, StaleHandled, StaleAt
    <2> QED BY <1>2, <1>c, <2>1
  <1>3. ASSUME NEW p \in Pushers, RetireStale(p) PROVE PushInv'
    <2> DEFINE S == {n \in Unhandled : StaleAt(n, now)}
    <2>1. /\ pusher'[p].step = "retired" /\ pusher'[p].todo = {} /\ pusher'[p].taken = {}
          /\ pusher'[p].picked = {} /\ pusher'[p].at = now
          /\ pusher[p].taken = {} /\ UNCHANGED <<pushes, now>>
          /\ \A q \in Pushers \ {p} : pusher'[q] = pusher[q]
      BY <1>3, <1>a DEF RetireStale, PushInv, LeftUnsent, TodoFresh, Pusher
    <2>2. LeftUnsent(p)' /\ TodoFresh(p)'
      BY <2>1 DEF LeftUnsent, TodoFresh
    <2>3. S \in SUBSET Stored /\ Handle(S)
      BY <1>3 DEF RetireStale, Unhandled
    <2>4. \A n \in Notices : n \in Stored /\ StaleAt(n, now) => n \in S \/ row[n].pushHandled
      BY DEF Unhandled
    <2> HIDE DEF S
    <2>5. StaleHandled(p)'
      <3>1. \A n \in Notices : row'[n].at = "stored" /\ row'[n].made <= now - Stale => row'[n].pushHandled
        BY <1>b, <2>3, <2>4 DEF StaleAt
      <3> QED BY <1>a, <2>1, <3>1 DEF StaleHandled, StaleAt
    <2> QED BY <1>2, <1>b, <2>1, <2>2, <2>3, <2>5
  <1>4. ASSUME NEW p \in Pushers, ReadCandidates(p) PROVE PushInv'
    <2>1. /\ pusher[p].step # "idle" /\ pusher'[p].step = "claim" /\ pusher'[p].at = pusher[p].at
          /\ pusher'[p].todo = {n \in Unhandled : ~StaleAt(n, pusher[p].at)}
          /\ pusher'[p].picked = {}
          /\ pusher'[p].taken = {} /\ pusher[p].taken = {} /\ UNCHANGED <<row, pushes, now>>
          /\ \A q \in Pushers \ {p} : pusher'[q] = pusher[q]
      BY <1>4, <1>a DEF ReadCandidates, PushInv, LeftUnsent, TodoFresh, Pusher
    <2>2. LeftUnsent(p)' /\ TodoFresh(p)'
      BY <2>1 DEF LeftUnsent, TodoFresh, Unhandled, StaleAt
    <2> QED BY <1>c, <2>1, <2>2
  <1>9. ASSUME NEW p \in Pushers, TakeUp(p) PROVE PushInv'
    <2>0. PICK n \in pusher[p].todo :
             pusher' = [pusher EXCEPT ![p].step = "picked", ![p].picked = {n}, ![p].todo = @ \ {n}]
      BY <1>9 DEF TakeUp
    <2>1. /\ pusher[p].step = "claim" /\ pusher[p].taken = {} /\ UNCHANGED <<row, pushes, now>>
          /\ pusher'[p].step = "picked" /\ pusher'[p].taken = {} /\ pusher'[p].at = pusher[p].at
          /\ pusher'[p].picked = {n} /\ pusher'[p].todo = pusher[p].todo \ {n}
          /\ \A q \in Pushers \ {p} : pusher'[q] = pusher[q]
      BY <1>9, <1>a, <2>0 DEF TakeUp, PushInv, LeftUnsent, Pusher
    <2>2. LeftUnsent(p)' /\ TodoFresh(p)'
      BY <2>0, <2>1 DEF PushInv, LeftUnsent, TodoFresh, StaleAt
    <2> QED BY <1>c, <2>1, <2>2
  <1>5. ASSUME NEW p \in Pushers, ClaimPush(p) PROVE PushInv'
    <2> DEFINE S == {n \in pusher[p].picked : ClaimablePush(n)}
    <2>1. /\ pusher[p].step = "picked" /\ pusher[p].taken = {} /\ UNCHANGED <<pushes, now>>
          /\ \A q \in Pushers \ {p} : pusher'[q] = pusher[q]
          /\ pusher'[p].todo = pusher[p].todo /\ pusher'[p].at = pusher[p].at
          /\ pusher'[p].picked = {} /\ pusher'[p].taken = S
          /\ pusher'[p].step = IF S = {} THEN "claim" ELSE "resolve"
      BY <1>5, <1>a DEF ClaimPush, PushInv, LeftUnsent, Pusher
    <2>2. /\ S \in SUBSET Stored /\ Handle(S)
          /\ \A n \in S : ~row[n].pushHandled
      BY <1>5 DEF ClaimPush, ClaimablePush, Unhandled
    <2> HIDE DEF S
    <2>3. \A x \in Notices :
             /\ row'[x].at = row[x].at /\ row'[x].made = row[x].made
             /\ row[x].pushHandled => row'[x].pushHandled
             /\ row'[x].at = "unwritten" => row'[x].pushHandled = row[x].pushHandled
             /\ x \in S => row'[x].pushHandled
             /\ x \notin S => row'[x] = row[x]
      BY <1>b, <2>2
    <2>4. UnwrittenUnhandled' /\ PushedOnce'
      BY <2>1, <2>3 DEF PushInv, UnwrittenUnhandled, PushedOnce
    <2>5. UnhandledUnsent'
      BY <2>1, <2>3 DEF PushInv, UnhandledUnsent
    <2>6. OneTaker'
      BY <2>1, <2>2 DEF PushInv, UnhandledUnsent, OneTaker
    <2>7. LeftUnsent(p)'
      BY <2>1, <2>2 DEF PushInv, UnhandledUnsent, LeftUnsent
    <2>8. ASSUME NEW q \in Pushers PROVE TodoFresh(q)' /\ StaleHandled(q)'
      <3>1. /\ pusher'[q].todo = pusher[q].todo /\ pusher'[q].at = pusher[q].at
            /\ pusher'[q].picked \subseteq pusher[q].picked
            /\ pusher'[q].step = "idle" <=> pusher[q].step = "idle"
            /\ pusher'[q].step # "picked" => pusher'[q].picked = {}
        BY <2>1 DEF PushInv, TodoFresh
      <3>2. pusher[q].todo \cup pusher[q].picked \subseteq Notices
        BY <1>a DEF Pusher
      <3>3. TodoFresh(q)'
        BY <2>3, <3>1, <3>2 DEF PushInv, TodoFresh, StaleAt
      <3>4. StaleHandled(q)'
        BY <2>1, <2>3, <3>1 DEF PushInv, StaleHandled, StaleAt
      <3> QED BY <3>3, <3>4
    <2>9. ASSUME NEW q \in Pushers \ {p} PROVE LeftUnsent(q)'
      BY <2>1 DEF PushInv, LeftUnsent
    <2> QED BY <2>4, <2>5, <2>6, <2>7, <2>8, <2>9 DEF PushInv
  <1>6. ASSUME NEW p \in Pushers, Resolve(p) PROVE PushInv'
    <2>1. /\ pusher[p].step = "resolve" /\ pusher'[p].step = "send"
          /\ pusher'[p].taken = pusher[p].taken /\ pusher'[p].todo = pusher[p].todo
          /\ pusher'[p].picked = pusher[p].picked
          /\ pusher'[p].at = pusher[p].at /\ UNCHANGED <<row, pushes, now>>
          /\ \A q \in Pushers \ {p} : pusher'[q] = pusher[q]
          /\ pusher'[p].left \subseteq Devices
      <3> DEFINE to == IF \A n \in pusher[p].taken : WantsPush(row[n].kind) THEN devices ELSE {}
      <3>1. pusher' = [pusher EXCEPT ![p].step = "send", ![p].left = to]
        BY <1>6 DEF Resolve
      <3>2. to \subseteq Devices
        BY DEF Shape, PushersOK
      <3> HIDE DEF to
      <3> QED BY <1>6, <1>a, <3>1, <3>2 DEF Resolve, Pusher
    <2>2. LeftUnsent(p)' /\ TodoFresh(p)'
      BY <2>1 DEF PushInv, LeftUnsent, TodoFresh, StaleAt
    <2> QED BY <1>c, <2>1, <2>2
  <1>7. ASSUME NEW p \in Pushers, SendPush(p) PROVE PushInv'
    <2>0. PICK d \in pusher[p].left, n \in pusher[p].taken :
             /\ pusher' = [pusher EXCEPT ![p].left = @ \ {d}]
             /\ \/ pushes' = [pushes EXCEPT ![n][d] = @ + 1]
                \/ UNCHANGED pushes
      BY <1>7 DEF SendPush
    <2>1. /\ pusher[p].step = "send" /\ pusher'[p].step = "send" /\ UNCHANGED <<row, now>>
          /\ pusher'[p].picked = pusher[p].picked
          /\ pusher'[p].taken = pusher[p].taken /\ pusher'[p].todo = pusher[p].todo
          /\ pusher'[p].at = pusher[p].at /\ pusher'[p].left = pusher[p].left \ {d}
          /\ \A q \in Pushers \ {p} : pusher'[q] = pusher[q]
          /\ n \in Notices /\ d \in Devices
      BY <1>7, <1>a, <2>0 DEF SendPush, Pusher
    <2>2. TodoFresh(p)'
      BY <2>1 DEF PushInv, TodoFresh, StaleAt
    <2>3. CASE UNCHANGED pushes
      <3>1. LeftUnsent(p)'
        BY <2>1, <2>3 DEF PushInv, LeftUnsent
      <3> QED BY <1>c, <2>1, <2>2, <2>3, <3>1
    <2>4. CASE pushes' = [pushes EXCEPT ![n][d] = @ + 1]
      <3>1. pushes[n][d] = 0 /\ row[n].pushHandled
        BY <2>0, <2>1 DEF PushInv, LeftUnsent, UnhandledUnsent
      <3>2. \A x \in Notices, e \in Devices :
               pushes'[x][e] = IF x = n /\ e = d THEN 1 ELSE pushes[x][e]
        BY <1>a, <2>1, <2>4, <3>1
      <3>3. UnwrittenUnhandled' /\ UnhandledUnsent'
        <4>1. \A q \in Pushers : pusher'[q].taken = pusher[q].taken
          BY <2>1
        <4> QED BY <2>1, <3>1, <3>2, <4>1 DEF PushInv, UnwrittenUnhandled, UnhandledUnsent
      <3>4. OneTaker'
        BY <2>1 DEF PushInv, OneTaker
      <3>5. PushedOnce'
        BY <3>2 DEF PushInv, PushedOnce
      <3>6. LeftUnsent(p)'
        BY <1>a, <2>1, <3>2 DEF PushInv, LeftUnsent, Pusher
      <3>7. ASSUME NEW q \in Pushers \ {p} PROVE LeftUnsent(q)' /\ TodoFresh(q)'
        <4>1. n \notin pusher[q].taken /\ pusher'[q] = pusher[q]
          BY <2>0, <2>1 DEF PushInv, OneTaker
        <4>2. pusher[q].taken \subseteq Notices /\ pusher[q].left \subseteq Devices
          BY <1>a DEF Pusher
        <4>3. \A x \in pusher[q].taken, e \in Devices : pushes'[x][e] = pushes[x][e]
          BY <3>2, <4>1, <4>2
        <4>4. LeftUnsent(q)'
          BY <4>1, <4>2, <4>3 DEF PushInv, LeftUnsent
        <4>5. TodoFresh(q)'
          BY <2>1, <4>1 DEF PushInv, TodoFresh, StaleAt
        <4> QED BY <4>4, <4>5
      <3>8. ASSUME NEW q \in Pushers PROVE StaleHandled(q)'
        BY <2>1 DEF PushInv, StaleHandled, StaleAt
      <3> QED BY <2>2, <3>3, <3>4, <3>5, <3>6, <3>7, <3>8 DEF PushInv
    <2> QED BY <2>0, <2>3, <2>4
  <1>8. ASSUME NEW p \in Pushers, Sent(p) \/ EndTick(p) \/ StopPushing(p) PROVE PushInv'
    <2>1. /\ pusher'[p].step \in {"idle", "claim"} /\ pusher'[p].taken = {}
          /\ pusher'[p].step = "idle" => pusher'[p].todo = {}
          /\ pusher'[p].todo # {} => pusher'[p].todo = pusher[p].todo /\ pusher'[p].at = pusher[p].at
          /\ pusher'[p].picked = {} /\ UNCHANGED <<row, pushes, now>>
          /\ \/ pusher'[p].at = pusher[p].at /\ pusher[p].step # "idle"
             \/ pusher'[p].at = 0 /\ pusher'[p].step = "idle"
          /\ \A q \in Pushers \ {p} : pusher'[q] = pusher[q]
      BY <1>8, <1>a DEF Sent, EndTick, StopPushing, NoPusher, PushInv, TodoFresh, Pusher
    <2>2. LeftUnsent(p)' /\ TodoFresh(p)'
      BY <2>1 DEF PushInv, LeftUnsent, TodoFresh, StaleAt
    <2> QED BY <1>c, <2>1, <2>2
  <1>d. now' \in Int
    BY DEF Shape, RowsOK
  <1> QED BY <1>1, <1>a, <1>d, <1>3, <1>4, <1>9, <1>5, <1>6, <1>7, <1>8, OthersKeepPush DEF Next, PushStep

\* What the push keeps holds in every reachable state.
THEOREM PushInvariant == Spec => []PushInv
  <1>1. Init => PushInv
    BY DEF Init, RowsInit, PushInit, Blank, NoPusher, PushInv, UnwrittenUnhandled, UnhandledUnsent,
           OneTaker, PushedOnce, LeftUnsent, TodoFresh, StaleHandled
  <1> QED BY <1>1, PushInvStep, ShapeInvariant, PTL DEF Spec

\* Overlapping ticks push a row to a device once.
THEOREM RowPushedOnce == Spec => []PushedOnce
  <1> QED BY PushInvariant, PTL DEF PushInv

\* A tick takes up no row older than the limit and its own time allow, and claims none
\* that a tick under way has found stale, however long the claim waited.
THEOREM NothingStalePushed == Spec => PushedInTime
  <1> DEFINE InTime == \A p \in Pushers, n \in Notices :
                /\ n \in pusher'[p].picked \ pusher[p].picked => now - row[n].made < Stale + ClaimDeadline
                /\ n \in pusher'[p].taken \ pusher[p].taken =>
                      \A q \in Pushers : pusher[q].step # "idle" => ~StaleAt(n, pusher[q].at)
  <1>1. Shape /\ PushInv /\ [Next]_vars => [InTime]_vars
    <2> SUFFICES ASSUME Shape, PushInv, Next, NEW p \in Pushers, NEW n \in Notices
                 PROVE  /\ n \in pusher'[p].picked \ pusher[p].picked =>
                              now - row[n].made < Stale + ClaimDeadline
                        /\ n \in pusher'[p].taken \ pusher[p].taken =>
                              \A q \in Pushers : pusher[q].step # "idle" => ~StaleAt(n, pusher[q].at)
      OBVIOUS
    <2>a. pusher \in [Pushers -> Pusher] /\ row \in [Notices -> Row] /\ now \in 0..MaxNow
      BY DEF Shape, RowsOK, PushersOK, Row, Pusher
    <2>1. CASE UNCHANGED pusher
      BY <2>1
    <2>2. ASSUME NEW q \in Pushers, \/ RetireStale(q) \/ ReadCandidates(q) \/ Resolve(q)
                                   \/ SendPush(q) \/ Sent(q) \/ EndTick(q) \/ StopPushing(q)
          PROVE  pusher'[p].picked \subseteq pusher[p].picked /\ pusher'[p].taken \subseteq pusher[p].taken
      <3>1. CASE RetireStale(q) \/ ReadCandidates(q) \/ Resolve(q)
        BY <3>1, <2>a DEF RetireStale, ReadCandidates, Resolve, Pusher
      <3>2. CASE Sent(q) \/ EndTick(q) \/ StopPushing(q)
        BY <3>2, <2>a DEF Sent, EndTick, StopPushing, NoPusher, Pusher
      <3>3. CASE SendPush(q)
        BY <3>3, <2>a DEF SendPush, Pusher
      <3> QED BY <2>2, <3>1, <3>2, <3>3
    <2>3. ASSUME NEW q \in Pushers, TakeUp(q), n \in pusher'[p].picked \ pusher[p].picked
          PROVE  now - row[n].made < Stale + ClaimDeadline
      <3>1. n \in pusher[p].todo /\ ~DeadlinePassed(p)
        BY <2>3, <2>a DEF TakeUp, Pusher
      <3>2. now < pusher[p].at + ClaimDeadline /\ ~(row[n].made <= pusher[p].at - Stale)
        BY <3>1, <2>a, RowsAssumption, StaleAssumption
           DEF DeadlinePassed, PushInv, TodoFresh, StaleAt, Pusher
      <3> QED BY <3>2, <2>a, StaleAssumption, RowsAssumption DEF Pusher, Row
    <2>4. ASSUME NEW q \in Pushers, TakeUp(q) PROVE pusher'[p].taken = pusher[p].taken
      BY <2>4, <2>a DEF TakeUp, Pusher
    <2>5. ASSUME NEW q \in Pushers, ClaimPush(q) PROVE pusher'[p].picked \subseteq pusher[p].picked
      BY <2>5, <2>a DEF ClaimPush, Pusher
    <2>6. ASSUME NEW q \in Pushers, ClaimPush(q), n \in pusher'[p].taken \ pusher[p].taken,
                 NEW k \in Pushers, pusher[k].step # "idle"
          PROVE  ~StaleAt(n, pusher[k].at)
      <3>1. n \in Stored /\ ~row[n].pushHandled
        BY <2>6, <2>a DEF ClaimPush, ClaimablePush, Unhandled, Pusher
      <3> QED BY <2>6, <3>1 DEF PushInv, StaleHandled
    <2>7. UNCHANGED pusher \/ PushStep
      BY OthersKeepPush DEF Next
    <2>8. CASE PushStep
      <3>1. UNCHANGED pusher
            \/ \E q \in Pushers : \/ RetireStale(q) \/ ReadCandidates(q) \/ TakeUp(q) \/ ClaimPush(q)
                                  \/ Resolve(q) \/ SendPush(q) \/ Sent(q) \/ EndTick(q) \/ StopPushing(q)
        BY <2>8 DEF PushStep, Subscribe, Unsubscribe
      <3> QED BY <3>1, <2>1, <2>2, <2>3, <2>4, <2>5, <2>6
    <2> QED BY <2>1, <2>7, <2>8
  <1> QED BY <1>1, PushInvariant, ShapeInvariant, PTL DEF Spec, PushedInTime

---------------------------------------------------------------------------
(* The class reminders *)

\* The reminder's own rows stay what they are.
LEMMA RemindersKept ==
    ASSUME Shape, UnwrittenUnmarked, [Next]_vars, NEW n \in Notices, row[n].kind = "reminder"
    PROVE  row'[n].kind = "reminder"
  <1>1. row[n] \in Row /\ row[n].at # "unwritten"
    BY DEF Shape, RowsOK, Row, UnwrittenUnmarked
  <1>2. \/ Kept(n)
        \/ row[n].at = "stored" /\ row'[n] = [row[n] EXCEPT !.pushHandled = TRUE]
        \/ row[n].at = "stored" /\ \E sent \in BOOLEAN : row'[n] = [row[n] EXCEPT !.emailSent = sent]
    BY RowsKept, PushedRows, MailedRows DEF Next, Kept
  <1> QED BY <1>1, <1>2 DEF Kept, Row

\* A booking that is still to be reminded of, and what was said or is about to be.
ToRemind(b) ==
    b > booking.number \/ (b = booking.number /\ ~booking.classReminderSentAt)
Mailing(r, b) == reminder[r].step = "mail" /\ reminder[r].about = b
InMail(b) == \E r \in Reminders : Mailing(r, b)
Told(b) == reminded[b].rows # {} \/ reminded[b].mails > 0 \/ InMail(b)

AtMostOnce(b) ==
    /\ ToRemind(b) => ~Told(b)
    /\ Told(b) => reminded[b].bookedAt < Moment
    /\ InMail(b) => reminded[b].mails = 0
    /\ reminded[b].mails <= 1
    /\ \A r, q \in Reminders : Mailing(r, b) /\ Mailing(q, b) => r = q
    /\ \A n, k \in reminded[b].rows : n = k
    /\ \A n \in reminded[b].rows : row[n].kind = "reminder"
    /\ reminded[b].rows # {} => wantsInbox(reminded[b].channel)
    /\ reminded[b].mails > 0 \/ InMail(b) => wantsEmail(reminded[b].channel)
BookingKnown ==
    /\ booking.registered => booking.number \in Bookings
    /\ booking.number \in Bookings => reminded[booking.number].bookedAt = booking.registeredAt
RemindInv ==
    /\ BookingKnown
    /\ \A b \in Bookings : AtMostOnce(b)
    /\ \A r \in Reminders : reminder[r].step = "mail" => reminder[r].about \in Bookings

\* No step breaks it: the claim's stamp is set with the row and before the mail.
LEMMA RemindInvStep == Shape /\ Shape' /\ MailInv /\ RemindInv /\ [Next]_vars => RemindInv'
  <1> SUFFICES ASSUME Shape, Shape', MailInv, RemindInv, [Next]_vars PROVE RemindInv'
    OBVIOUS
  <1>a. /\ row \in [Notices -> Row] /\ reminder \in [Reminders -> Reminder]
        /\ booking \in [number : Bookings \cup {0}, registered : BOOLEAN, registeredAt : 0..MaxNow,
                        classReminderSentAt : BOOLEAN]
        /\ reminded \in [Bookings -> Reminded] /\ reminded' \in [Bookings -> Reminded]
        /\ now \in 0..MaxNow
    BY DEF Shape, RowsOK, BookingOK, Row, Reminder
  <1>b. \A n \in Notices : row[n].kind = "reminder" => row'[n].kind = "reminder"
    BY RemindersKept DEF MailInv
  \* A step that tells nobody.
  <1>1. ASSUME UNCHANGED reminded,
               /\ booking'.number = booking.number
               /\ booking'.classReminderSentAt = booking.classReminderSentAt
               /\ booking'.registeredAt = booking.registeredAt
               /\ booking'.registered => booking.registered,
               \A r \in Reminders : reminder'[r].step = "mail" =>
                   reminder[r].step = "mail" /\ reminder'[r].about = reminder[r].about
        PROVE  RemindInv'
    <2>1. BookingKnown'
      BY <1>1 DEF RemindInv, BookingKnown
    <2>2. ASSUME NEW b \in Bookings PROVE AtMostOnce(b)'
      <3>1. \A r \in Reminders : Mailing(r, b)' => Mailing(r, b)
        BY <1>1 DEF Mailing
      <3>2. InMail(b)' => InMail(b)
        BY <3>1 DEF InMail
      <3>3. AtMostOnce(b)
        BY DEF RemindInv
      <3>4. \A n \in reminded[b].rows : n \in Notices
        BY <1>a DEF Reminded
      <3> QED BY <1>1, <1>b, <3>1, <3>2, <3>3, <3>4 DEF AtMostOnce, ToRemind, Told
    <2> QED BY <1>1, <2>1, <2>2 DEF RemindInv
  <1>2. CASE UNCHANGED reminderVars \/ Erase
    <2>1. UNCHANGED <<reminder, reminded>>
      BY <1>2 DEF Erase
    <2>2. /\ booking'.number = booking.number
          /\ booking'.classReminderSentAt = booking.classReminderSentAt
          /\ booking'.registeredAt = booking.registeredAt
          /\ booking'.registered => booking.registered
      BY <1>2, <1>a DEF Erase
    <2> QED BY <1>1, <2>1, <2>2
  <1>3. CASE CancelBooking \/ ClassEnds
    <2>1. /\ UNCHANGED <<reminder, reminded>>
          /\ booking'.number = booking.number
          /\ booking'.classReminderSentAt = booking.classReminderSentAt
          /\ booking'.registeredAt = booking.registeredAt
          /\ booking'.registered => booking.registered
      BY <1>3, <1>a DEF CancelBooking, ClassEnds
    <2> QED BY <1>1, <2>1
  <1>4. ASSUME NEW r \in Reminders, ReadClasses(r) \/ ReadRegistrations(r) \/ StopReminding(r)
        PROVE  RemindInv'
    <2>1. /\ \A q \in Reminders \ {r} : reminder'[q] = reminder[q]
          /\ reminder'[r].step # "mail" /\ UNCHANGED <<booking, reminded>>
      <3>1. CASE ReadClasses(r)
        BY <1>a, <3>1 DEF ReadClasses, NoReminder, Reminder
      <3>2. CASE ReadRegistrations(r)
        <4>1. /\ UNCHANGED <<booking, reminded>>
              /\ \/ reminder' = [reminder EXCEPT ![r] =
                                   [reminder[r] EXCEPT !.step = "claim", !.channel = account.channel]]
                 \/ reminder' = [reminder EXCEPT ![r] = NoReminder]
          BY <1>a, <3>2 DEF ReadRegistrations
        <4>2. [reminder[r] EXCEPT !.step = "claim", !.channel = account.channel].step = "claim"
          BY <1>a DEF Reminder
        <4>3. NoReminder.step = "idle"
          BY DEF NoReminder
        <4> QED BY <1>a, <4>1, <4>2, <4>3
      <3>3. CASE StopReminding(r)
        BY <1>a, <3>3 DEF StopReminding, NoReminder, Reminder
      <3> QED BY <1>4, <3>1, <3>2, <3>3
    <2> QED BY <1>1, <2>1
  <1>5. CASE Book
    <2>0. booking.number \in Nat /\ Bookings \subseteq Nat
      <3>1. Bookings \subseteq Nat
        BY BookingsAssumption
      <3>2. booking.number \in Bookings \cup {0}
        BY <1>a
      <3>3. \A b : b \in Bookings \cup {0} => b \in Nat
        BY <3>1
      <3> QED BY <3>1, <3>2, <3>3
    <2>1. /\ UNCHANGED reminder /\ booking'.number = booking.number + 1
          /\ ~booking'.classReminderSentAt /\ booking'.registeredAt = now
          /\ booking'.number \in Bookings
      BY <1>5, <2>0 DEF Book
    <2>2. /\ reminded'[booking'.number].bookedAt = now
          /\ \A b \in Bookings : /\ b # booking'.number => reminded'[b] = reminded[b]
                                 /\ reminded'[b].rows = reminded[b].rows
                                 /\ reminded'[b].mails = reminded[b].mails
                                 /\ reminded'[b].channel = reminded[b].channel
      BY <1>5, <1>a, <2>1 DEF Book, Reminded
    <2>3. BookingKnown'
      BY <2>1, <2>2 DEF BookingKnown
    <2>4. ASSUME NEW b \in Bookings PROVE AtMostOnce(b)'
      <3>1. InMail(b)' = InMail(b) /\ \A r \in Reminders : Mailing(r, b)' = Mailing(r, b)
        BY <2>1 DEF InMail, Mailing
      <3>2. AtMostOnce(b) /\ Told(b)' = Told(b)
        BY <2>2, <3>1 DEF RemindInv, Told
      <3>3. ToRemind(b)' => ToRemind(b)
        BY <2>0, <2>1 DEF ToRemind
      <3>4. b = booking'.number => ToRemind(b)
        BY <2>0, <2>1 DEF ToRemind
      <3>5. \A n \in reminded[b].rows : n \in Notices
        BY <1>a DEF Reminded
      <3> QED BY <1>b, <2>2, <3>1, <3>2, <3>3, <3>4, <3>5 DEF AtMostOnce
    <2> QED BY <2>1, <2>3, <2>4 DEF RemindInv
  <1>6. ASSUME NEW r \in Reminders, ClaimReminder(r) PROVE RemindInv'
    <2>1. /\ reminder[r].step = "claim"
          /\ \A q \in Reminders \ {r} : reminder'[q] = reminder[q]
      BY <1>6, <1>a DEF ClaimReminder
    <2>2. CASE ~StillRemindable
      BY <1>1, <1>6, <1>a, <2>1, <2>2 DEF ClaimReminder, NoReminder
    <2>3. CASE StillRemindable
      <3>0. PICK c \in Bookings : c = booking.number
        BY <2>3 DEF StillRemindable, RemindInv, BookingKnown
      <3>1. /\ ~booking.classReminderSentAt /\ reminded[c].bookedAt < Moment
        BY <2>3, <3>0 DEF StillRemindable, RemindInv, BookingKnown
      <3>2. /\ booking'.number = c /\ booking'.registeredAt = booking.registeredAt
            /\ booking'.classReminderSentAt /\ booking'.registered
        BY <1>6, <1>a, <2>3, <3>0 DEF ClaimReminder, StillRemindable
      <3>3. AtMostOnce(c) /\ ~Told(c)
        BY <3>0, <3>1 DEF RemindInv, AtMostOnce, ToRemind
      <3> DEFINE channel == reminder[r].channel
      <3>a. ASSUME NEW n \in Fresh, createNotification(n, "reminder")
            PROVE  n \in Notices /\ row'[n].kind = "reminder"
        BY <1>a, <3>a DEF createNotification, Fresh, NewRow, Blank
      <3>b. \E S \in SUBSET Notices :
               /\ S # {} => wantsInbox(channel)
               /\ \A n, k \in S : n = k
               /\ \A n \in S : row'[n].kind = "reminder"
               /\ remember(r, S)
        <4>1. CASE wantsInbox(channel)
          <5>1. PICK n \in Fresh : createNotification(n, "reminder") /\ remember(r, {n})
            BY <1>6, <2>3, <4>1 DEF ClaimReminder
          <5>2. {n} \in SUBSET Notices
            BY <3>a, <5>1
          <5> WITNESS {n} \in SUBSET Notices
          <5> QED BY <3>a, <4>1, <5>1
        <4>2. CASE ~wantsInbox(channel)
          BY <1>6, <2>3, <4>2 DEF ClaimReminder
        <4> QED BY <4>1, <4>2
      <3>4. PICK S \in SUBSET Notices :
               /\ S # {} => wantsInbox(channel)
               /\ \A n, k \in S : n = k
               /\ \A n \in S : row'[n].kind = "reminder"
               /\ remember(r, S)
        BY <3>b
      <3>c. reminder' = [reminder EXCEPT ![r] =
               IF wantsEmail(channel) THEN [@ EXCEPT !.step = "mail", !.about = c] ELSE NoReminder]
        BY <1>6, <1>a, <2>3, <3>0 DEF ClaimReminder
      <3>5. reminder'[r].step = "mail" => wantsEmail(channel) /\ reminder'[r].about = c
        <4>1. CASE wantsEmail(channel)
          BY <1>a, <3>c, <4>1 DEF Reminder
        <4>2. CASE ~wantsEmail(channel)
          BY <1>a, <3>c, <4>2 DEF NoReminder
        <4> QED BY <4>1, <4>2
      <3>6. /\ \A b \in Bookings : /\ b # c => reminded'[b] = reminded[b]
                                   /\ reminded'[b].bookedAt = reminded[b].bookedAt
                                   /\ reminded'[b].mails = reminded[b].mails
            /\ reminded'[c].rows = reminded[c].rows \cup S /\ reminded'[c].channel = channel
        BY <1>a, <3>0, <3>4 DEF remember, Reminded
      <3>7. /\ \A n, k \in reminded'[c].rows : n = k
            /\ \A n \in reminded'[c].rows : row'[n].kind = "reminder"
            /\ reminded'[c].rows # {} => wantsInbox(reminded'[c].channel)
        BY <3>3, <3>4, <3>6 DEF Told
      <3> HIDE DEF channel
      <3>8. BookingKnown'
        BY <3>0, <3>1, <3>2, <3>6 DEF RemindInv, BookingKnown
      <3>9. AtMostOnce(c)'
        <4>1. \A q \in Reminders : Mailing(q, c)' => q = r
          BY <2>1, <3>3 DEF Told, InMail, Mailing
        <4>2. InMail(c)' => wantsEmail(reminded'[c].channel)
          BY <3>5, <3>6, <4>1 DEF InMail, Mailing
        <4>3. ~ToRemind(c)'
          BY <3>0, <3>2, BookingsAssumption DEF ToRemind
        <4>4. reminded'[c].mails = 0 /\ reminded'[c].bookedAt < Moment
          BY <1>a, <3>1, <3>3, <3>6 DEF Told, Reminded
        <4> QED BY <1>b, <3>7, <4>1, <4>2, <4>3, <4>4 DEF AtMostOnce
      <3>10. ASSUME NEW b \in Bookings, b # c PROVE AtMostOnce(b)'
        <4>1. \A q \in Reminders : Mailing(q, b)' = Mailing(q, b)
          BY <2>1, <3>5, <3>10 DEF Mailing
        <4>2. InMail(b)' = InMail(b)
          BY <4>1 DEF InMail
        <4>3. AtMostOnce(b) /\ reminded'[b] = reminded[b] /\ (ToRemind(b)' => ToRemind(b))
          BY <3>0, <3>2, <3>6, <3>10 DEF RemindInv, ToRemind
        <4>4. \A n \in reminded[b].rows : n \in Notices
          BY <1>a DEF Reminded
        <4> QED BY <1>b, <4>1, <4>2, <4>3, <4>4 DEF AtMostOnce, Told
      <3>11. \A q \in Reminders : reminder'[q].step = "mail" => reminder'[q].about \in Bookings
        BY <2>1, <3>1, <3>5 DEF RemindInv
      <3> QED BY <3>8, <3>9, <3>10, <3>11 DEF RemindInv
    <2> QED BY <2>2, <2>3
  <1>7. ASSUME NEW r \in Reminders, MailReminder(r) PROVE RemindInv'
    <2>0. PICK c \in Bookings : c = reminder[r].about
      BY <1>7 DEF MailReminder, RemindInv
    <2>1. /\ Mailing(r, c) /\ InMail(c) /\ UNCHANGED booking
          /\ reminder'[r].step # "mail" /\ \A q \in Reminders \ {r} : reminder'[q] = reminder[q]
      BY <1>7, <1>a, <2>0 DEF MailReminder, NoReminder, Mailing, InMail, Reminder
    <2>2. CASE UNCHANGED reminded
      BY <1>1, <2>1, <2>2
    <2>3. CASE reminded' = [reminded EXCEPT ![c].mails = @ + 1]
      <3>1. /\ \A b \in Bookings : /\ b # c => reminded'[b] = reminded[b]
                                   /\ reminded'[b].bookedAt = reminded[b].bookedAt
                                   /\ reminded'[b].rows = reminded[b].rows
                                   /\ reminded'[b].channel = reminded[b].channel
            /\ reminded[c].mails = 0 /\ reminded'[c].mails = 1
        BY <1>a, <2>1, <2>3 DEF RemindInv, AtMostOnce, Reminded
      <3>2. BookingKnown'
        BY <2>1, <3>1 DEF RemindInv, BookingKnown
      <3>3. ASSUME NEW b \in Bookings PROVE AtMostOnce(b)'
        <4>1. \A q \in Reminders : Mailing(q, b)' => Mailing(q, b) /\ b # c
          BY <2>1 DEF Mailing, RemindInv, AtMostOnce
        <4>2. InMail(b)' => InMail(b) /\ b # c
          BY <4>1 DEF InMail
        <4>3. AtMostOnce(b) /\ (Told(b)' => Told(b)) /\ ToRemind(b)' = ToRemind(b)
          BY <2>1, <3>1, <4>2 DEF RemindInv, Told, ToRemind
        <4>4. \A n \in reminded[b].rows : n \in Notices
          BY <1>a DEF Reminded
        <4>5. CASE b = c
          BY <1>b, <2>1, <3>1, <4>1, <4>2, <4>3, <4>4, <4>5 DEF AtMostOnce
        <4>6. CASE b # c
          BY <1>b, <3>1, <4>1, <4>2, <4>3, <4>4, <4>6 DEF AtMostOnce
        <4> QED BY <4>5, <4>6
      <3>4. \A q \in Reminders : reminder'[q].step = "mail" => reminder'[q].about \in Bookings
        BY <2>1 DEF RemindInv
      <3> QED BY <3>2, <3>3, <3>4 DEF RemindInv
    <2> QED BY <1>7, <2>0, <2>2, <2>3 DEF MailReminder
  <1> QED BY <1>2, <1>3, <1>4, <1>5, <1>6, <1>7 DEF Next, RemindersStep

\* It holds in every reachable state.
THEOREM RemindInvariant == Spec => []RemindInv
  <1>1. Init => RemindInv
    <2> SUFFICES ASSUME Init PROVE RemindInv
      OBVIOUS
    <2>1. \A r \in Reminders : reminder[r].step = "idle"
      BY DEF Init, RemindersInit, NoReminder
    <2>2. \A b \in Bookings : reminded[b].mails = 0 /\ reminded[b].rows = {} /\ ~InMail(b)
      BY <2>1 DEF Init, RemindersInit, Unreminded, InMail, Mailing
    <2>3. \A b \in Bookings : AtMostOnce(b)
      BY <2>1, <2>2 DEF AtMostOnce, Told, Mailing
    <2>4. BookingKnown
      BY BookingsAssumption DEF Init, RemindersInit, BookingKnown
    <2> QED BY <2>1, <2>3, <2>4 DEF RemindInv
  <1> QED BY <1>1, RemindInvStep, ShapeInvariant, MailInvariant, PTL DEF Spec

\* Who booked at or after the reminder's moment is not reminded.
THEOREM LateBookersSpared == Spec => []LateBookersNotReminded
  <1>1. RemindInv => LateBookersNotReminded
    BY DEF RemindInv, AtMostOnce, Told, LateBookersNotReminded
  <1> QED BY <1>1, RemindInvariant, PTL

\* A booking is reminded of once on each channel its student had chosen when the
\* claiming sweep read it: the reminder jobs do not mail it twice, and the fallback never mails the reminder's row.
THEOREM OneReminderEach == Spec => []RemindedOnce
  <1>1. Shape /\ MailInv /\ RemindInv => RemindedOnce
    <2> SUFFICES ASSUME Shape, MailInv, RemindInv, NEW b \in Bookings
                 PROVE  LET mailed == reminded[b].mails
                              + Cardinality({mail \in mails : mail.notice \in reminded[b].rows})
                        IN  /\ Cardinality(reminded[b].rows) <= (IF wantsInbox(reminded[b].channel) THEN 1 ELSE 0)
                            /\ mailed <= (IF wantsEmail(reminded[b].channel) THEN 1 ELSE 0)
      BY DEF RemindedOnce
    <2>a. AtMostOnce(b) /\ reminded[b].mails \in Nat
      BY DEF RemindInv, Shape, Reminded
    <2>1. {mail \in mails : mail.notice \in reminded[b].rows} = {}
      BY <2>a DEF AtMostOnce, MailInv, MailsKnown
    <2>2. Cardinality({mail \in mails : mail.notice \in reminded[b].rows}) = 0
      BY <2>1, FS_EmptySet
    <2>3. reminded[b].mails <= (IF wantsEmail(reminded[b].channel) THEN 1 ELSE 0)
      BY <2>a DEF AtMostOnce
    <2>4. Cardinality(reminded[b].rows) <= (IF wantsInbox(reminded[b].channel) THEN 1 ELSE 0)
      <3>1. CASE reminded[b].rows = {}
        BY <3>1, FS_EmptySet
      <3>2. CASE reminded[b].rows # {}
        <4>1. PICK n : reminded[b].rows = {n}
          BY <2>a, <3>2 DEF AtMostOnce
        <4>2. Cardinality({n}) = 1
          BY FS_Singleton
        <4> QED BY <2>a, <3>2, <4>1, <4>2 DEF AtMostOnce
      <3> QED BY <3>1, <3>2
    <2> QED BY <2>a, <2>2, <2>3, <2>4
  <1> QED BY <1>1, ShapeInvariant, MailInvariant, RemindInvariant, PTL

\* Every variable keeps its type, the two counters with their bounds.
THEOREM TypeInvariant == Spec => []TypeOK
  <1>1. Shape /\ PushedOnce /\ RemindInv => TypeOK
    <2> SUFFICES ASSUME Shape, PushedOnce, RemindInv PROVE TypeOK
      OBVIOUS
    <2>1. PushOK
      <3>1. \A n \in Notices, d \in Devices : pushes[n][d] \in 0..1
        BY DEF Shape, PushedOnce
      <3> QED BY <3>1 DEF Shape, PushOK
    <2>2. RemindersOK
      <3>1. \A b \in Bookings : reminded[b] \in [bookedAt : 0..MaxNow, channel : Channels,
                                              mails : 0..1, rows : SUBSET Notices]
        BY DEF Shape, Reminded, RemindInv, AtMostOnce
      <3> QED BY <3>1 DEF Shape, RemindersOK
    <2> QED BY <2>1, <2>2 DEF TypeOK, Shape
  <1> QED BY <1>1, ShapeInvariant, RowPushedOnce, RemindInvariant, PTL

\* Nobody is told of one thing twice, whatever jobs overlap, fail and stop.
THEOREM NobodyToldTwice == Spec => []ToldOnce
  <1> QED BY TypeInvariant, RowMailedOnce, RowPushedOnce, OneReminderEach, LateBookersSpared, PTL
          DEF ToldOnce
================================================================================
