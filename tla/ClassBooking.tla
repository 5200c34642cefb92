----------------------------- MODULE ClassBooking -----------------------------
(***************************************************************************)
(* One class, its bookings and its waitlist: the transactions that write   *)
(* them and the work those transactions leave to be done after they commit.*)
(*                                                                         *)
(* A transaction that opens with lockClassRow is one action: every writer  *)
(* of the class takes that row lock first, so two of them cannot           *)
(* interleave.  What does interleave is everything a handler does outside  *)
(* such a transaction.  It is the state of a worker between two of its     *)
(* steps: a cancel decided and not yet written, a spot-freed hook that is  *)
(* owed or has read the class and not yet acted, a status change that      *)
(* passed its unlocked checks, an erasure whose UPDATE has its snapshot    *)
(* and not yet its row.  A worker may lose its task at any point: the      *)
(* process stops, or a lock times out and the error is logged.             *)
(*                                                                         *)
(* Roster links, invitations, prices and the wording of notifications are  *)
(* left out.  Of the notifications only the pair spot_available and        *)
(* spot_taken is kept, as the set of waiting students whose last word was  *)
(* that a seat is free.                                                    *)
(***************************************************************************)
EXTENDS ClassTerms, FiniteSets

CONSTANTS
  Students,       \* the students who may book the class
  Handlers,       \* requests in flight at the same time
  Sweep,          \* the waitlist-reconciliation job
  SeatLimits,     \* the capacities a teacher may set
  MinStudents,    \* fewer charged bookings than this auto-cancel the class
  CancelCheckAt,  \* the instant of the class's auto-cancel check
  Tiered          \* TRUE for tiered pricing, FALSE for a donation class

ASSUME StudentsAssumption == IsFiniteSet(Students)
ASSUME SweepAssumption == Sweep \notin Handlers
ASSUME SeatsAssumption == SeatLimits \subseteq Nat \ {0}
ASSUME MinAssumption == MinStudents \in Nat \ {0}
ASSUME CheckAssumption == CancelCheckAt \in {PastCheck, ClaimWindow}
ASSUME ModeAssumption == Tiered \in BOOLEAN

VARIABLES
  now,              \* the last instant around the start that has passed
  status,           \* Class.status
  calledOffBy,      \* who set CalendarEntry.cancelledAt, as the notices tell it
  decided,          \* Class.autoCancelDecidedAt is set
  settingsLocked,   \* Class.settingsLocked
  maxStudents,      \* Class.maxStudents
  spotBroadcastAt,  \* Class.spotBroadcastAt: an instant, or Never
  booking,          \* Registration.status of each student
  lateCancelled,    \* the bookings whose lateCancelledAt is set
  walkIn,           \* the bookings whose isWalkIn is set
  entry,            \* WaitlistEntry.status of each student
  position,         \* WaitlistEntry.position of the waiting entries, else 0
  told,             \* the waiting students last told that a seat is free
  payments,         \* the bookings that have a Payment
  erased,           \* the students whose account is erased
  task              \* what each worker has still to do

class    == <<status, calledOffBy, decided, settingsLocked, maxStudents>>
bookings == <<booking, lateCancelled, walkIn>>
queue    == <<entry, position, told, spotBroadcastAt>>
vars     == <<now, class, bookings, queue, payments, erased, task>>

Never     == -1
cancelled == calledOffBy # "nobody"
Workers   == Handlers \cup {Sweep}

Idle  == [step |-> "idle"]
Tasks == {Idle}
  \cup [step : {"cancel"}, student : Students, to : {"cancelled", "late_cancel"}]
  \cup [step : {"hook"}]
  \cup [step : {"act"}, at : Phases]
  \cup [step : {"transition"}, to : {"open", "in_progress"}]
  \cup [step : {"erase"}, student : Students, booked : BOOLEAN, at : Phases]

TypeOK ==
  /\ now \in Phases
  /\ status \in ClassStatuses
  /\ calledOffBy \in {"nobody", "teacher", "check"}
  /\ decided \in BOOLEAN
  /\ settingsLocked \in BOOLEAN
  /\ maxStudents \in SeatLimits
  /\ spotBroadcastAt \in Phases \cup {Never}
  /\ booking \in [Students -> BookingStatuses]
  /\ lateCancelled \subseteq Students
  /\ walkIn \subseteq Students
  /\ entry \in [Students -> EntryStatuses]
  /\ position \in [Students -> Nat]
  /\ told \subseteq Students
  /\ payments \subseteq Students
  /\ erased \subseteq Students
  /\ task \in [Workers -> Tasks]

\* A class is created as a draft at any time, or open, ahead of its start, by the
\* generator, which decides there and then on one already past its check.
Init ==
  /\ calledOffBy = "nobody"
  /\ \/ status = "draft" /\ now \in Phases /\ decided = FALSE
     \/ /\ status = "open"
        /\ now \in BeforeDeadline .. DoorsOpen
        /\ decided = (now >= CancelCheckAt)
  /\ settingsLocked = FALSE
  /\ maxStudents \in SeatLimits
  /\ spotBroadcastAt = Never
  /\ booking = [s \in Students |-> "none"]
  /\ lateCancelled = {}
  /\ walkIn = {}
  /\ entry = [s \in Students |-> "none"]
  /\ position = [s \in Students |-> 0]
  /\ told = {}
  /\ payments = {}
  /\ erased = {}
  /\ task = [w \in Workers |-> Idle]

-------------------------------------------------------------------------------
(* What a transaction that holds the class lock reads.                     *)

Active  == {s \in Students : booking[s] \in ActiveStatuses}
Charged == {s \in Students : booking[s] \in ChargedStatuses}
Waiting == {s \in Students : entry[s] = "waiting"}

IsFullOffByOne == Cardinality(Active) > maxStudents

IsFull == Cardinality(Active) >= maxStudents

BroadcastStillStands == spotBroadcastAt >= ClaimWindow

LiveStudentUnlocked(s) == s \notin erased

\* lockLiveStudent: the row lock waits for an erasure to end, and then fails.
LiveStudent(s) ==
  /\ s \notin erased
  /\ \A w \in Workers : task[w].step = "erase" => task[w].student # s

(* The parts of a transaction that several of them share.                  *)

RenumberedNot(W) == [s \in Students |-> IF s \in W THEN position[s] ELSE 0]

\* reorderWaitingEntries: the rows W that still wait are numbered from 1.  An
\* entry that stops waiting keeps a position nothing reads: 0 here.
Renumbered(W) ==
  [s \in Students |->
    IF s \in W THEN Cardinality({t \in W : position[t] <= position[s]}) ELSE 0]

LeaveQueue(newEntry) ==
  /\ entry' = newEntry
  /\ position' = Renumbered({s \in Waiting : newEntry[s] = "waiting"})

CloseQueueForgotten(to) == to \in EntryStatuses /\ UNCHANGED queue

\* A class that starts or is called off closes its queue in one write.
CloseQueue(to) ==
  /\ entry' = [s \in Students |-> IF s \in Waiting THEN to ELSE entry[s]]
  /\ position' = [s \in Students |-> 0]
  /\ told' = {}
  /\ UNCHANGED spotBroadcastAt

\* The fill that takes the last seat ends the broadcast, and everyone else
\* waiting is told so; any other fill leaves the announcement standing.
ActivateRegistration(s, isWalkIn) ==
  /\ booking' = [booking EXCEPT ![s] = "registered"]
  /\ walkIn' = IF isWalkIn THEN walkIn \cup {s} ELSE walkIn \ {s}
  /\ IF Cardinality(Active \cup {s}) >= maxStudents
     THEN /\ spotBroadcastAt' = Never
          /\ told' = IF spotBroadcastAt # Never THEN {} ELSE told \ {s}
     ELSE /\ told' = told \ {s}
          /\ UNCHANGED spotBroadcastAt
  /\ UNCHANGED lateCancelled

LockSettingsForgotten == UNCHANGED settingsLocked

\* The first booking locks the economics and the schedule.
LockSettings == settingsLocked' = TRUE

Finish(w) == task' = [task EXCEPT ![w] = Idle]

-------------------------------------------------------------------------------
(* Booking and the queue.                                                  *)

\* POST /api/registrations.  A teacher books a student of theirs, or a
\* walk-in, and from the last quarter of an hour on past the capacity.
Book(s, by) ==
  LET isWalkIn == by = "teacher" /\ now >= DoorsOpen IN
  /\ LiveStudent(s)
  /\ ~cancelled
  /\ IF by = "teacher" THEN status \in {"open", "in_progress"}
                       ELSE status = "open" /\ now < Started
  /\ s \notin Active
  /\ IsFull => isWalkIn
  /\ ActivateRegistration(s, isWalkIn)
  /\ IF entry[s] \in ClaimableStatuses
     THEN LeaveQueue([entry EXCEPT ![s] = "claimed"])
     ELSE UNCHANGED <<entry, position>>
  /\ LockSettings
  /\ UNCHANGED <<now, status, calledOffBy, decided, maxStudents, payments, erased,
                 task>>

JoinWaitlist(s) ==
  /\ LiveStudent(s)
  /\ ~cancelled
  /\ status = "open"
  /\ WaitlistWindow(now) # "frozen"
  /\ IsFull
  /\ s \notin Active
  /\ s \notin Waiting
  /\ entry' = [entry EXCEPT ![s] = "waiting"]
  /\ \E last \in {position[t] : t \in Waiting} \cup {0} :
       /\ \A t \in Waiting : position[t] <= last
       /\ position' = [position EXCEPT ![s] = last + 1]
  /\ UNCHANGED <<now, class, bookings, told, spotBroadcastAt, payments, erased,
                 task>>

LeaveWaitlist(s) ==
  /\ s \in Waiting
  /\ LeaveQueue([entry EXCEPT ![s] = "removed"])
  /\ told' = told \ {s}
  /\ UNCHANGED <<now, class, bookings, spotBroadcastAt, payments, erased, task>>

ClaimSpot(s) ==
  /\ ~cancelled
  /\ s \notin Active
  /\ status = "open"
  /\ WaitlistWindow(now) = "first_come_first_claimed"
  /\ ~IsFull
  /\ s \in Waiting
  /\ ActivateRegistration(s, FALSE)
  /\ LeaveQueue([entry EXCEPT ![s] = "claimed"])
  /\ UNCHANGED <<now, class, payments, erased, task>>

\* PUT /api/registrations/[id]: one scoped UPDATE, without the class lock.
MarkAttendance(s, to) ==
  /\ now >= DoorsOpen
  /\ ~cancelled
  /\ booking[s] \notin {"none", "cancelled", to}
  /\ booking[s] = "late_cancel" => status # "open"
  /\ to = "late_cancel" => s \in lateCancelled
  /\ booking' = [booking EXCEPT ![s] = to]
  /\ UNCHANGED <<now, class, lateCancelled, walkIn, queue, payments, erased, task>>

-------------------------------------------------------------------------------
(* DELETE /api/registrations/[id] and the hook that follows it.            *)

\* What an unlocked read of the booking and the clock decides.  A student
\* promoted off the waitlist has a quarter of an hour to cancel for free;
\* whether it has run out is left open until the doors do.
CancelKinds(s, by) ==
  IF by = "teacher" \/ now = BeforeDeadline THEN {"cancelled"}
  ELSE IF entry[s] = "promoted" /\ s \notin lateCancelled /\ now < DoorsOpen
  THEN {"cancelled", "late_cancel"}
  ELSE {"late_cancel"}

DecideCancel(w, s, by) ==
  /\ task[w] = Idle
  /\ ~cancelled
  /\ booking[s] \notin {"none", "cancelled", "late_cancel"}
  /\ status # "completed"
  /\ \E kind \in CancelKinds(s, by) :
       task' = [task EXCEPT ![w] =
                  [step |-> "cancel", student |-> s, to |-> kind]]
  /\ UNCHANGED <<now, class, bookings, queue, payments, erased>>

CancelWrite(w) ==
  LET s == task[w].student  kind == task[w].to IN
  /\ booking' = [booking EXCEPT ![s] = kind]
  /\ lateCancelled' = IF kind = "late_cancel"
                      THEN lateCancelled \cup {s} ELSE lateCancelled
  /\ task' = [task EXCEPT ![w] = [step |-> "hook"]]
  /\ UNCHANGED walkIn

CancelMissesAfterCompletion(s) == booking[s] \in {"cancelled", "late_cancel"}

CancelMissesUnscoped(s) == status = "completed"

\* The cancel is refused once the class has completed, and matches no row once
\* another cancel has written it.
CancelMisses(s) ==
  status = "completed" \/ booking[s] \in {"cancelled", "late_cancel"}

\* writeCancel, under the class lock; a missed write owes no hook.
WriteCancel(w) ==
  /\ task[w].step = "cancel"
  /\ IF CancelMisses(task[w].student)
     THEN Finish(w) /\ UNCHANGED bookings
     ELSE CancelWrite(w)
  /\ UNCHANGED <<now, class, queue, payments, erased>>

\* handleSpotFreed reads the class and the window without the lock, and the
\* branch it then takes is decided by this instant.
ReadFreedSpot(w) ==
  /\ task[w].step = "hook"
  /\ IF status # "open" \/ cancelled \/ WaitlistWindow(now) = "frozen"
     THEN Finish(w)
     ELSE task' = [task EXCEPT ![w] = [step |-> "act", at |-> now]]
  /\ UNCHANGED <<now, class, bookings, queue, payments, erased>>

\* Fault: the order of the read is turned round.
LastIn(W) == {s \in W : \A t \in W : position[t] <= position[s]}
FirstIn(W) == {s \in W : \A t \in W : position[s] <= position[t]}

\* promoteNext: the first waiting student without a seat gets one.
PromoteNext(w) ==
  LET stale == Waiting \cap Active
      heads == FirstIn(Waiting \ stale)
      dropped == {s \in stale :
                 \A t \in Waiting \ stale : position[s] < position[t]}
      Left(promoted) == [s \in Students |->
                 IF s \in promoted THEN "promoted"
                 ELSE IF s \in dropped THEN "removed" ELSE entry[s]]
  IN
  /\ task[w].step = "act"
  /\ WaitlistWindow(task[w].at) = "auto_promote"
  /\ Finish(w)
  /\ IF cancelled \/ status # "open" \/ IsFull
     THEN UNCHANGED <<bookings, queue>>
     ELSE IF heads = {}
     THEN /\ LeaveQueue(Left({}))
          /\ told' = told \ dropped
          /\ UNCHANGED <<bookings, spotBroadcastAt>>
     ELSE \E s \in heads :
          /\ ActivateRegistration(s, FALSE)
          /\ LeaveQueue(Left({s}))
  /\ UNCHANGED <<now, class, payments, erased>>

BroadcastSpotUncounted(w) ==
  /\ task[w].step = "act"
  /\ WaitlistWindow(task[w].at) = "first_come_first_claimed"
  /\ Finish(w)
  /\ told' = Waiting
  /\ spotBroadcastAt' = IF Waiting = {} THEN spotBroadcastAt ELSE task[w].at
  /\ UNCHANGED <<now, class, bookings, entry, position, payments, erased>>

\* The last hour's branch: under the lock, but the only thing it looks at
\* again is whether a seat is free and a broadcast stands.
BroadcastSpot(w) ==
  /\ task[w].step = "act"
  /\ WaitlistWindow(task[w].at) = "first_come_first_claimed"
  /\ Finish(w)
  /\ IF IsFull \/ BroadcastStillStands \/ Waiting = {}
     THEN UNCHANGED <<told, spotBroadcastAt>>
     ELSE /\ told' = Waiting
          /\ spotBroadcastAt' = task[w].at
  /\ UNCHANGED <<now, class, bookings, entry, position, payments, erased>>

ReconcilePromotionsOnly ==
  /\ task[Sweep] = Idle
  /\ Waiting # {}
  /\ status = "open" /\ ~cancelled
  /\ WaitlistWindow(now) = "auto_promote"
  /\ ~IsFull
  /\ task' = [task EXCEPT ![Sweep] = [step |-> "hook"]]
  /\ UNCHANGED <<now, class, bookings, queue, payments, erased>>

\* reconcileWaitlists: asks the hook again about an open class with a free
\* seat and a queue, unless a broadcast already stands for the seat.
Reconcile ==
  /\ task[Sweep] = Idle
  /\ Waiting # {}
  /\ status = "open"
  /\ ~cancelled
  /\ WaitlistWindow(now) # "frozen"
  /\ ~IsFull
  /\ ~(WaitlistWindow(now) = "first_come_first_claimed" /\ BroadcastStillStands)
  /\ task' = [task EXCEPT ![Sweep] = [step |-> "hook"]]
  /\ UNCHANGED <<now, class, bookings, queue, payments, erased>>

\* A crash, a lock timeout or any error: what was not committed is gone.
LoseTask(w) ==
  /\ task[w] # Idle
  /\ Finish(w)
  /\ UNCHANGED <<now, class, bookings, queue, payments, erased>>

-------------------------------------------------------------------------------
(* The life of the class.                                                  *)

\* transitionClass checks the clock on an unlocked read ...
DecideTransition(w, to) ==
  /\ task[w] = Idle
  /\ to \in ValidTransitions(status)
  /\ to = "open" => now < Started
  /\ to = "in_progress" => now >= DoorsOpen /\ ~cancelled
  /\ task' = [task EXCEPT ![w] = [step |-> "transition", to |-> to]]
  /\ UNCHANGED <<now, class, bookings, queue, payments, erased>>

MovesIfCalledOff(to) == to \in ValidTransitions(status)

\* The compare-and-set of the write that makes the move.
Moves(to) == to \in ValidTransitions(status) /\ ~cancelled

\* ... and only that write decides.
WriteTransition(w) ==
  LET to == task[w].to IN
  /\ task[w].step = "transition"
  /\ Finish(w)
  /\ IF Moves(to)
     THEN /\ status' = to
          /\ IF to = "open"
             THEN /\ decided' = (decided \/ now >= CancelCheckAt)
                  /\ UNCHANGED queue
             ELSE /\ CloseQueue("expired")
                  /\ UNCHANGED decided
     ELSE UNCHANGED <<status, decided, queue>>
  /\ UNCHANGED <<now, calledOffBy, settingsLocked, maxStudents, bookings, payments,
                 erased>>

\* autoTransitionToInProgress
StartSweep ==
  /\ status = "open"
  /\ ~cancelled
  /\ now >= Started
  /\ status' = "in_progress"
  /\ CloseQueue("expired")
  /\ UNCHANGED <<now, calledOffBy, decided, settingsLocked, maxStudents, bookings,
                 payments, erased, task>>

CancelCheckDueAgain(at) ==
  status = "open" /\ ~cancelled /\ CancelCheckAt <= at /\ at < Started

\* autoCancelClasses, at an instant the sweep took before it had the lock.
CancelCheckDue(at) ==
  /\ status = "open"
  /\ ~cancelled
  /\ ~decided
  /\ CancelCheckAt <= at
  /\ at < Started

KeepClass(at) ==
  /\ CancelCheckDue(at)
  /\ Cardinality(Charged) >= MinStudents
  /\ decided' = TRUE
  /\ UNCHANGED <<now, status, calledOffBy, settingsLocked, maxStudents, bookings,
                 queue, payments, erased, task>>

AutoCancelClass(at) ==
  /\ CancelCheckDue(at)
  /\ Cardinality(Charged) < MinStudents
  /\ calledOffBy' = "check"
  /\ decided' = TRUE
  /\ CloseQueue("removed")
  /\ UNCHANGED <<now, status, settingsLocked, maxStudents, bookings, payments,
                 erased, task>>

CallOffByStatus(cancellable) ==
  /\ status \in cancellable
  /\ status' = "cancelled"
  /\ CloseQueue("removed")
  /\ UNCHANGED <<now, calledOffBy, decided, settingsLocked, maxStudents, bookings,
                 payments, erased, task>>

CallOff(cancellable) ==
  /\ status \in cancellable
  /\ ~cancelled
  /\ calledOffBy' = "teacher"
  /\ CloseQueue("removed")
  /\ UNCHANGED <<now, status, decided, settingsLocked, maxStudents, bookings,
                 payments, erased, task>>

\* POST /api/classes/[id]/cancel
CancelClass == CallOff({"draft", "open"})

\* completeClass: the bookings that stand are billed, once and for all.  An
\* open class starts on its way, which closes its queue.
CompleteClass(opensAt) ==
  /\ status \in {"open", "in_progress"}
  /\ ~cancelled
  /\ now >= opensAt
  /\ IF status = "open" THEN CloseQueue("expired") ELSE UNCHANGED queue
  /\ status' = "completed"
  /\ payments' = IF Tiered THEN payments \cup Charged ELSE payments
  /\ UNCHANGED <<now, calledOffBy, decided, settingsLocked, maxStudents, bookings,
                 erased, task>>

TeacherComplete == CompleteClass(FinishOpens)

CompleteSweepNever == status = "in_progress" /\ CompleteClass(AutoFinish + 1)

\* autoCompleteClasses
CompleteSweep == status = "in_progress" /\ CompleteClass(AutoFinish)

\* deleteTeacherAccount: a class that runs is completed whatever the clock says,
\* and what is then not completed is called off.
EraseTeacher ==
  \/ status = "in_progress" /\ CompleteClass(BeforeDeadline)
  \/ CallOff({"draft", "open", "in_progress"})

EditableWhenLocked == status # "completed" /\ ~cancelled

\* updateClass on the fields the first booking locks: the schedule, which
\* redecides the auto-cancel check, and the economics.
Editable ==
  /\ status # "completed"
  /\ ~cancelled
  /\ ~settingsLocked

MoveStart(to) ==
  /\ Editable
  /\ to # now
  /\ to < Started
  /\ now' = to
  /\ decided' = IF status = "open" THEN to >= CancelCheckAt ELSE decided
  /\ UNCHANGED <<status, calledOffBy, settingsLocked, maxStudents, bookings, queue,
                 payments, erased, task>>

EditSeats(seats) ==
  /\ Editable
  /\ MinStudents <= seats
  /\ maxStudents' = seats
  /\ UNCHANGED <<now, status, calledOffBy, decided, settingsLocked, bookings, queue,
                 payments, erased, task>>

-------------------------------------------------------------------------------
(* deleteStudentAccount holds the student's row lock to its end, and the   *)
(* locks of the classes the student has a waitlist entry in.               *)

Upcoming(s) ==
  booking[s] = "registered" /\ status \in {"draft", "open"} /\ ~cancelled

\* With an entry in this class the whole erasure runs under the class lock.
EraseQueued(w, s) ==
  /\ task[w] = Idle
  /\ LiveStudent(s)
  /\ entry[s] # "none"
  /\ erased' = erased \cup {s}
  /\ IF Upcoming(s)
     THEN /\ booking' = [booking EXCEPT ![s] = "cancelled"]
          /\ task' = [task EXCEPT ![w] = [step |-> "hook"]]
     ELSE UNCHANGED <<booking, task>>
  /\ LeaveQueue([entry EXCEPT ![s] = "none"])
  /\ told' = told \ {s}
  /\ UNCHANGED <<now, class, lateCancelled, walkIn, spotBroadcastAt, payments>>

\* Without one it does not.  The read that later decides on the hook and the
\* snapshot in which the UPDATE that cancels the upcoming bookings picks its rows
\* and tests their classes are one step: a class that starts or is called off in
\* between is only asked about for nothing.
StartErasure(w, s) ==
  /\ task[w] = Idle
  /\ LiveStudent(s)
  /\ entry[s] = "none"
  /\ task' = [task EXCEPT ![w] =
                [step |-> "erase", student |-> s, booked |-> Upcoming(s), at |-> now]]
  /\ UNCHANGED <<now, class, bookings, queue, payments, erased>>

\* Once it has the row, only the row's own status is tested again.
WriteErasure(w) ==
  LET s == task[w].student IN
  /\ task[w].step = "erase"
  /\ erased' = erased \cup {s}
  /\ IF task[w].booked /\ booking[s] = "registered"
     THEN booking' = [booking EXCEPT ![s] = "cancelled"]
     ELSE UNCHANGED booking
  /\ task' = [task EXCEPT ![w] = IF task[w].booked THEN [step |-> "hook"] ELSE Idle]
  /\ UNCHANGED <<now, class, lateCancelled, walkIn, queue, payments>>

-------------------------------------------------------------------------------

\* The instants are a quarter of an hour or more apart and a transaction lasts
\* seconds, so a hook or an erasure that is under way sees at most one pass.
Tick ==
  /\ now < AutoFinish
  /\ \A w \in Workers : task[w].step \in {"act", "erase"} => task[w].at = now
  /\ now' = now + 1
  /\ UNCHANGED <<class, bookings, queue, payments, erased, task>>

StudentStep(s) ==
  \/ \E by \in {"self", "teacher"} : Book(s, by)
  \/ JoinWaitlist(s)
  \/ LeaveWaitlist(s)
  \/ ClaimSpot(s)
  \/ \E to \in {"attended", "no_show", "late_cancel"} : MarkAttendance(s, to)

RequestStep(w) ==
  \/ \E s \in Students, by \in {"self", "teacher"} : DecideCancel(w, s, by)
  \/ WriteCancel(w)
  \/ \E to \in {"open", "in_progress"} : DecideTransition(w, to)
  \/ WriteTransition(w)
  \/ \E s \in Students : EraseQueued(w, s) \/ StartErasure(w, s)
  \/ WriteErasure(w)

HookStep(w) ==
  \/ ReadFreedSpot(w)
  \/ PromoteNext(w)
  \/ BroadcastSpot(w)

ClassStep ==
  \/ StartSweep
  \/ \E at \in {now - 1, now} : KeepClass(at) \/ AutoCancelClass(at)
  \/ CancelClass
  \/ TeacherComplete
  \/ CompleteSweep
  \/ EraseTeacher
  \/ \E to \in Phases : MoveStart(to)
  \/ \E seats \in SeatLimits : EditSeats(seats)

Next ==
  \/ \E s \in Students : StudentStep(s)
  \/ \E w \in Handlers : RequestStep(w)
  \/ \E w \in Workers : HookStep(w) \/ LoseTask(w)
  \/ Reconcile
  \/ ClassStep
  \/ Tick

Spec == Init /\ [][Next]_vars

-------------------------------------------------------------------------------
(* What must hold of every state.                                          *)

\* While the class is open no more students hold a seat than it has, walk-ins
\* apart: a teacher may book those past the capacity.  Every fill counts the
\* seats under the class lock, and the capacity is fixed by the first booking.
SeatsWithinCapacity ==
  status = "open" => Cardinality(Active \ walkIn) <= maxStudents

\* Nobody waits for a class that is not open or was called off: the last
\* hour's broadcast looks at neither, and counts on there being no one to tell.
QueueOnlyWhileOpen == Waiting # {} => status = "open" /\ ~cancelled

\* Nobody waits for a class they hold a seat in, so the stale heads that
\* promoteNext drops do not occur.
NobodyWaitsWithSeat == Waiting \cap Active = {}

\* The waiting entries are numbered 1 to n, whoever left and in which order.
QueueNumbered ==
  {position[s] : s \in Waiting} = 1 .. Cardinality(Waiting)

\* While the class is open, a broadcast stands exactly when a seat it announced
\* is still free, and the students waiting have been told what is true: all of
\* them of the free seat while it stands, none of them once it does not.
BroadcastTellsTheTruth ==
  status = "open" /\ ~cancelled =>
    IF spotBroadcastAt = Never THEN told = {} ELSE ~IsFull /\ told = Waiting

\* Whoever has booked the class did so on terms no longer open to edits.
BookedTermsLocked ==
  (\E s \in Students : booking[s] # "none" \/ entry[s] # "none") => settingsLocked

\* The class, its bookings and its queue agree with each other, though hooks,
\* attendance edits and erasures write one of them on what they read of another.
Consistent == TypeOK /\ QueueOnlyWhileOpen /\ NobodyWaitsWithSeat /\ BookedTermsLocked

\* A completed tiered class has billed exactly the bookings that are charged:
\* no cancel, attendance edit or late booking came between the two.  An erased
\* student's booking is excepted (see PaymentOnlyOnChargedBooking).
BillMatchesBookings ==
  status = "completed" /\ Tiered => payments \ erased = Charged \ erased

\* An erased account keeps no place in the queue and no seat in a class that is
\* still to come, whatever a hook promoted meanwhile.
ErasedHoldNoSeat ==
  \A s \in erased :
    /\ entry[s] = "none"
    /\ status = "open" /\ ~cancelled => booking[s] # "registered"

(* What a step may never do.                                               *)

\* A cancel is final until the student books again: two cancels of one booking
\* racing each other never turn a free one into a charged one, or back.
CancelIsFinal ==
  [][\A s \in Students :
       /\ booking[s] = "cancelled" => booking'[s] \in {"cancelled", "registered"}
       /\ booking[s] = "late_cancel" => booking'[s] # "cancelled"]_vars

\* Once someone has booked, the capacity and the start they booked stay.
TermsKeptOnceBooked ==
  [][(\E s \in Students : booking[s] # "none")
       => maxStudents' = maxStudents /\ now' >= now]_vars

\* A class called off stays off: its status does not move, nobody is seated or billed
\* any more.
CalledOffIsFinal ==
  [][cancelled =>
       /\ cancelled'
       /\ status' = status
       /\ Active' \subseteq Active
       /\ payments' = payments]_vars

\* A class the check has once decided to keep is not auto-cancelled afterwards,
\* however many students cancel; only its teacher calls it off.
KeptIsNotAutoCancelled ==
  [][decided /\ calledOffBy' # calledOffBy => calledOffBy' = "teacher"]_vars

\* A completed class stays as it was billed.
BillIsFinal ==
  [][status = "completed" =>
       /\ status' = "completed"
       /\ payments' = payments
       /\ Charged \ erased' \subseteq Charged']_vars

\* What was decided about a class stays, whatever was begun before: called off, kept
\* by the check, or completed and billed.
OutcomesAreFinal == CalledOffIsFinal /\ KeptIsNotAutoCancelled /\ BillIsFinal

(* What must come about.                                                   *)

\* The sweeps run every minute.  A tick of theirs may fail, but not for ever.
ReconcileFairness ==
  /\ WF_vars(Reconcile)
  /\ SF_vars(ReadFreedSpot(Sweep))
  /\ SF_vars(PromoteNext(Sweep))
  /\ SF_vars(BroadcastSpot(Sweep))

\* Time passes, and what is under way ends, be it by failing.
TaskEnds(w) == PromoteNext(w) \/ BroadcastSpot(w) \/ WriteErasure(w) \/ LoseTask(w)

\* A free seat somebody waits for and has not been told of, before the start.
UnansweredSeat ==
  /\ status = "open"
  /\ ~cancelled
  /\ ~IsFull
  /\ Waiting # {}
  /\ told # Waiting
  /\ WaitlistWindow(now) # "frozen"

\* Whatever hooks were lost, reconciliation sees to it that a free seat is not
\* left while students wait for it: it is filled or offered.  Time need not
\* pass, so it is not the start of the class that ends the wait.
FreedSeatIsAnswered == []<>~UnansweredSeat

\* A class with a booking cannot be moved any more, so once published it ends:
\* it is called off or completed.
BookedClassEnds ==
  status = "open" /\ settingsLocked ~> cancelled \/ status = "completed"
===============================================================================
