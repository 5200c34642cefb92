------------------------- MODULE ClassBooking_proofs -------------------------
(***************************************************************************)
(* Proofs about ClassBooking for any number of students and of requests in *)
(* flight: its types and its booked terms, the queue and the seats, what a *)
(* step may never do to a booking, to the class and to its bill, what an   *)
(* erased student may never keep, and that the class implements the queue. *)
(***************************************************************************)
EXTENDS ClassRefinesQueue, FiniteSetTheorems, TLAPS

USE DEF BeforeDeadline, PastDeadline, PastCheck, ClaimWindow, DoorsOpen, Started,
        FinishOpens, AutoFinish

-------------------------------------------------------------------------------
(* Type correctness.                                                       *)

\* What a task holds, by its step.
LEMMA TaskFields ==
  ASSUME NEW t \in Tasks
  PROVE  /\ t.step = "cancel" => /\ t.student \in Students
                                 /\ t.to \in {"cancelled", "late_cancel"}
         /\ t.step = "act" => t.at \in Phases
         /\ t.step = "transition" => t.to \in {"open", "in_progress"}
         /\ t.step = "erase" => t.student \in Students /\ t.booked \in BOOLEAN
  BY DEF Tasks, Idle

\* The tasks that an action may set.
LEMMA TaskForms ==
  ASSUME NEW s \in Students
  PROVE  /\ Idle \in Tasks
         /\ [step |-> "hook"] \in Tasks
         /\ \A kind \in {"cancelled", "late_cancel"} :
              [step |-> "cancel", student |-> s, to |-> kind] \in Tasks
         /\ \A at \in Phases : [step |-> "act", at |-> at] \in Tasks
         /\ \A to \in {"open", "in_progress"} :
              [step |-> "transition", to |-> to] \in Tasks
         /\ \A b \in BOOLEAN, at \in Phases :
              [step |-> "erase", student |-> s, booked |-> b, at |-> at] \in Tasks
  BY DEF Tasks, Idle

LEMMA TypeInit == Init => TypeOK
  <1> SUFFICES ASSUME Init PROVE TypeOK
    OBVIOUS
  <1>1. Idle \in Tasks
    BY DEF Tasks
  <1>2. decided \in BOOLEAN
    <2>1. CASE decided = FALSE
      BY <2>1
    <2>2. CASE decided = (now >= CancelCheckAt)
      BY <2>2
    <2> QED BY <2>1, <2>2 DEF Init
  <1>3. now \in Phases /\ status \in ClassStatuses
    BY DEF Init, Phases, ClassStatuses
  <1>4. settingsLocked \in BOOLEAN
    BY DEF Init
  <1>5. maxStudents \in SeatLimits /\ spotBroadcastAt \in Phases \cup {Never}
    BY DEF Init
  <1>6. booking \in [Students -> BookingStatuses]
    BY DEF Init, BookingStatuses
  <1>7. position \in [Students -> Nat]
    BY DEF Init
  <1>8. task \in [Workers -> Tasks]
    BY <1>1 DEF Init
  <1>9. entry \in [Students -> EntryStatuses]
    BY DEF Init, EntryStatuses
  <1> QED BY <1>2, <1>3, <1>4, <1>5, <1>6, <1>7, <1>8, <1>9 DEF Init, TypeOK

\* Counting students always gives a number.
LEMMA CountsAreNumbers ==
  ASSUME NEW S \in SUBSET Students
  PROVE  IsFiniteSet(S) /\ Cardinality(S) \in Nat
  BY StudentsAssumption, FS_Subset, FS_CardinalityType

LEMMA RenumberedType ==
  ASSUME NEW W \in SUBSET Students
  PROVE  Renumbered(W) \in [Students -> Nat]
  <1>1. ASSUME NEW s \in Students
        PROVE  Cardinality({t \in W : position[t] <= position[s]}) \in Nat
    BY CountsAreNumbers
  <1> QED BY <1>1 DEF Renumbered

LEMMA LeaveQueueType ==
  ASSUME NEW newEntry \in [Students -> EntryStatuses], LeaveQueue(newEntry)
  PROVE  entry' \in [Students -> EntryStatuses] /\ position' \in [Students -> Nat]
  BY RenumberedType DEF LeaveQueue, Waiting

LEMMA CloseQueueType ==
  ASSUME TypeOK, NEW to \in EntryStatuses, CloseQueue(to)
  PROVE  /\ entry' \in [Students -> EntryStatuses]
         /\ position' \in [Students -> Nat]
         /\ told' \subseteq Students
         /\ spotBroadcastAt' \in Phases \cup {Never}
  BY DEF TypeOK, CloseQueue

LEMMA ActivateType ==
  ASSUME TypeOK, NEW s \in Students, NEW isWalkIn \in BOOLEAN,
         ActivateRegistration(s, isWalkIn)
  PROVE  /\ booking' \in [Students -> BookingStatuses]
         /\ lateCancelled' \subseteq Students
         /\ walkIn' \subseteq Students
         /\ told' \subseteq Students
         /\ spotBroadcastAt' \in Phases \cup {Never}
  BY DEF TypeOK, ActivateRegistration, BookingStatuses

LEMMA TypeStep == TypeOK /\ [Next]_vars => TypeOK'
  <1> SUFFICES ASSUME TypeOK, [Next]_vars PROVE TypeOK'
    OBVIOUS
  <1> USE DEF class, bookings, queue
  <1>1. ASSUME NEW s \in Students, StudentStep(s)
        PROVE  TypeOK'
    <2>1. ASSUME NEW by \in {"self", "teacher"}, Book(s, by)
          PROVE  TypeOK'
      <3> DEFINE isWalkIn == by = "teacher" /\ now >= DoorsOpen
      <3>1. isWalkIn \in BOOLEAN /\ ActivateRegistration(s, isWalkIn)
        BY <2>1 DEF Book
      <3>2. entry' \in [Students -> EntryStatuses] /\ position' \in [Students -> Nat]
        <4>1. CASE entry[s] \in ClaimableStatuses
          <5>1. [entry EXCEPT ![s] = "claimed"] \in [Students -> EntryStatuses]
            BY DEF TypeOK, EntryStatuses
          <5> QED BY <2>1, <4>1, <5>1, LeaveQueueType DEF Book
        <4>2. CASE entry[s] \notin ClaimableStatuses
          BY <2>1, <4>2 DEF Book, TypeOK
        <4> QED BY <4>1, <4>2
      <3> QED BY <2>1, <3>1, <3>2, ActivateType DEF Book, LockSettings, TypeOK
    <2>2. ASSUME JoinWaitlist(s)
          PROVE  TypeOK'
      <3>1. entry' \in [Students -> EntryStatuses]
        BY <2>2 DEF JoinWaitlist, TypeOK, EntryStatuses
      <3>2. position' \in [Students -> Nat]
        BY <2>2 DEF JoinWaitlist, TypeOK, Waiting
      <3> QED BY <2>2, <3>1, <3>2 DEF JoinWaitlist, TypeOK
    <2>3. ASSUME LeaveWaitlist(s)
          PROVE  TypeOK'
      <3>1. [entry EXCEPT ![s] = "removed"] \in [Students -> EntryStatuses]
        BY DEF TypeOK, EntryStatuses
      <3> QED BY <2>3, <3>1, LeaveQueueType DEF LeaveWaitlist, TypeOK
    <2>4. ASSUME ClaimSpot(s)
          PROVE  TypeOK'
      <3>1. [entry EXCEPT ![s] = "claimed"] \in [Students -> EntryStatuses]
        BY DEF TypeOK, EntryStatuses
      <3> QED BY <2>4, <3>1, LeaveQueueType, ActivateType DEF ClaimSpot, TypeOK
    <2>5. ASSUME NEW to \in {"attended", "no_show", "late_cancel"}, MarkAttendance(s, to)
          PROVE  TypeOK'
      BY <2>5 DEF MarkAttendance, TypeOK, BookingStatuses
    <2> QED BY <1>1, <2>1, <2>2, <2>3, <2>4, <2>5 DEF StudentStep
  <1>2. ASSUME NEW w \in Handlers, RequestStep(w)
        PROVE  TypeOK'
    <2> w \in Workers
      BY DEF Workers
    <2>1. ASSUME NEW s \in Students, NEW by \in {"self", "teacher"}, DecideCancel(w, s, by)
          PROVE  TypeOK'
      <3>1. CancelKinds(s, by) \subseteq {"cancelled", "late_cancel"}
        BY DEF CancelKinds
      <3>2. task' \in [Workers -> Tasks]
        BY <2>1, <3>1, TaskForms DEF DecideCancel, TypeOK
      <3> QED BY <2>1, <3>2 DEF DecideCancel, TypeOK
    <2>2. ASSUME WriteCancel(w)
          PROVE  TypeOK'
      <3>1. task[w] \in Tasks
        BY DEF TypeOK
      <3>2. task[w].student \in Students /\ task[w].to \in {"cancelled", "late_cancel"}
        BY <2>2, <3>1, TaskFields DEF WriteCancel
      <3>3. task' \in [Workers -> Tasks]
        BY <2>2, <3>2, TaskForms DEF WriteCancel, CancelWrite, Finish, TypeOK
      <3>4. /\ booking' \in [Students -> BookingStatuses]
            /\ lateCancelled' \subseteq Students
            /\ walkIn' \subseteq Students
        BY <2>2, <3>2 DEF WriteCancel, CancelWrite, TypeOK, BookingStatuses
      <3> QED BY <2>2, <3>3, <3>4 DEF WriteCancel, TypeOK
    <2>3. ASSUME NEW to \in {"open", "in_progress"}, DecideTransition(w, to)
          PROVE  TypeOK'
      <3>1. [step |-> "transition", to |-> to] \in Tasks
        BY DEF Tasks
      <3> QED BY <2>3, <3>1 DEF DecideTransition, TypeOK
    <2>4. ASSUME WriteTransition(w)
          PROVE  TypeOK'
      <3>1. task[w] \in Tasks /\ Idle \in Tasks
        BY DEF TypeOK, Tasks
      <3>2. task[w].to \in {"open", "in_progress"}
        BY <2>4, <3>1, TaskFields DEF WriteTransition
      <3>3. task' \in [Workers -> Tasks]
        BY <2>4, <3>1 DEF WriteTransition, Finish, TypeOK
      <3>4. decided' \in BOOLEAN
        BY <2>4 DEF WriteTransition, TypeOK
      <3>5. status' \in ClassStatuses
        BY <2>4, <3>2 DEF WriteTransition, TypeOK, ClassStatuses
      <3>6. /\ entry' \in [Students -> EntryStatuses]
            /\ position' \in [Students -> Nat]
            /\ told' \subseteq Students
            /\ spotBroadcastAt' \in Phases \cup {Never}
        <4>1. "expired" \in EntryStatuses
          BY DEF EntryStatuses
        <4>2. CASE CloseQueue("expired")
          BY <4>1, <4>2, CloseQueueType
        <4>3. CASE UNCHANGED queue
          BY <4>3 DEF TypeOK
        <4> QED BY <2>4, <4>2, <4>3 DEF WriteTransition
      <3> QED BY <2>4, <3>3, <3>4, <3>5, <3>6 DEF WriteTransition, TypeOK
    <2>5. ASSUME NEW s \in Students, EraseQueued(w, s)
          PROVE  TypeOK'
      <3>1. [entry EXCEPT ![s] = "none"] \in [Students -> EntryStatuses]
        BY DEF TypeOK, EntryStatuses
      <3>2. task' \in [Workers -> Tasks]
        BY <2>5, TaskForms DEF EraseQueued, TypeOK
      <3>3. booking' \in [Students -> BookingStatuses]
        BY <2>5 DEF EraseQueued, TypeOK, BookingStatuses
      <3> QED BY <2>5, <3>1, <3>2, <3>3, LeaveQueueType DEF EraseQueued, TypeOK
    <2>6. ASSUME NEW s \in Students, StartErasure(w, s)
          PROVE  TypeOK'
      <3>1. Upcoming(s) \in BOOLEAN
        BY DEF Upcoming
      <3>2. task' \in [Workers -> Tasks]
        BY <2>6, <3>1, TaskForms DEF StartErasure, TypeOK
      <3> QED BY <2>6, <3>2 DEF StartErasure, TypeOK
    <2>7. ASSUME WriteErasure(w)
          PROVE  TypeOK'
      <3>1. task[w] \in Tasks
        BY DEF TypeOK
      <3>2. task[w].student \in Students
        BY <2>7, <3>1, TaskFields DEF WriteErasure
      <3>3. task' \in [Workers -> Tasks]
        BY <2>7, <3>2, TaskForms DEF WriteErasure, TypeOK
      <3>4. booking' \in [Students -> BookingStatuses]
        BY <2>7 DEF WriteErasure, TypeOK, BookingStatuses
      <3> QED BY <2>7, <3>2, <3>3, <3>4 DEF WriteErasure, TypeOK
    <2> QED BY <1>2, <2>1, <2>2, <2>3, <2>4, <2>5, <2>6, <2>7 DEF RequestStep
  <1>3. ASSUME NEW w \in Workers, HookStep(w) \/ LoseTask(w)
        PROVE  TypeOK'
    <2>1. Idle \in Tasks /\ [step |-> "hook"] \in Tasks
      BY DEF Tasks
    <2>2. ASSUME ReadFreedSpot(w)
          PROVE  TypeOK'
      <3>1. [step |-> "act", at |-> now] \in Tasks
        BY DEF Tasks, TypeOK
      <3> QED BY <2>1, <2>2, <3>1 DEF ReadFreedSpot, Finish, TypeOK
    <2>3. ASSUME PromoteNext(w)
          PROVE  TypeOK'
      <3>1. task' \in [Workers -> Tasks]
        BY <2>1, <2>3 DEF PromoteNext, Finish, TypeOK
      <3> DEFINE stale == Waiting \cap Active
                 dropped == {s \in stale :
                     \A t \in Waiting \ stale : position[s] < position[t]}
                 Left(promoted) == [s \in Students |->
                     IF s \in promoted THEN "promoted"
                     ELSE IF s \in dropped THEN "removed" ELSE entry[s]]
      <3>2. \/ UNCHANGED <<bookings, queue>>
            \/ LeaveQueue(Left({})) /\ told' = told \ dropped
                 /\ UNCHANGED <<bookings, spotBroadcastAt>>
            \/ \E s \in Students : ActivateRegistration(s, FALSE) /\ LeaveQueue(Left({s}))
        BY <2>3 DEF PromoteNext, FirstIn, Waiting
      <3>3. /\ booking' \in [Students -> BookingStatuses]
            /\ lateCancelled' \subseteq Students
            /\ walkIn' \subseteq Students
            /\ told' \subseteq Students
            /\ spotBroadcastAt' \in Phases \cup {Never}
            /\ entry' \in [Students -> EntryStatuses]
            /\ position' \in [Students -> Nat]
        <4>1. CASE UNCHANGED <<bookings, queue>>
          BY <4>1 DEF TypeOK
        <4>2. CASE LeaveQueue(Left({})) /\ told' = told \ dropped
                     /\ UNCHANGED <<bookings, spotBroadcastAt>>
          <5>1. Left({}) \in [Students -> EntryStatuses]
            BY DEF TypeOK, EntryStatuses
          <5> HIDE DEF Left, dropped
          <5> QED BY <4>2, <5>1, LeaveQueueType DEF TypeOK
        <4>3. ASSUME NEW s \in Students, ActivateRegistration(s, FALSE), LeaveQueue(Left({s}))
              PROVE  /\ booking' \in [Students -> BookingStatuses]
                     /\ lateCancelled' \subseteq Students
                     /\ walkIn' \subseteq Students
                     /\ told' \subseteq Students
                     /\ spotBroadcastAt' \in Phases \cup {Never}
                     /\ entry' \in [Students -> EntryStatuses]
                     /\ position' \in [Students -> Nat]
          <5>1. Left({s}) \in [Students -> EntryStatuses]
            BY DEF TypeOK, EntryStatuses
          <5> HIDE DEF Left, dropped
          <5> QED BY <4>3, <5>1, LeaveQueueType, ActivateType
        <4> QED BY <3>2, <4>1, <4>2, <4>3
      <3> QED BY <2>3, <3>1, <3>3 DEF PromoteNext, TypeOK
    <2>4. ASSUME BroadcastSpot(w)
          PROVE  TypeOK'
      <3>1. task[w] \in Tasks
        BY DEF TypeOK
      <3>2. task[w].at \in Phases
        BY <2>4, <3>1, TaskFields DEF BroadcastSpot
      <3>3. told' \subseteq Students /\ spotBroadcastAt' \in Phases \cup {Never}
        BY <2>4, <3>2 DEF BroadcastSpot, Waiting, TypeOK
      <3> QED BY <2>1, <2>4, <3>3 DEF BroadcastSpot, Finish, TypeOK
    <2>5. ASSUME LoseTask(w)
          PROVE  TypeOK'
      BY <2>1, <2>5 DEF LoseTask, Finish, TypeOK
    <2> QED BY <1>3, <2>2, <2>3, <2>4, <2>5 DEF HookStep
  <1>4. ASSUME Reconcile
        PROVE  TypeOK'
    BY <1>4 DEF Reconcile, Tasks, TypeOK
  <1>5. ASSUME ClassStep
        PROVE  TypeOK'
    <2>1. "expired" \in EntryStatuses /\ "removed" \in EntryStatuses
      BY DEF EntryStatuses
    <2>2. ASSUME StartSweep
          PROVE  TypeOK'
      BY <2>1, <2>2, CloseQueueType DEF StartSweep, TypeOK, ClassStatuses
    <2>3. ASSUME NEW at, KeepClass(at)
          PROVE  TypeOK'
      BY <2>3 DEF KeepClass, TypeOK
    <2>4. ASSUME NEW at, AutoCancelClass(at)
          PROVE  TypeOK'
      BY <2>1, <2>4, CloseQueueType DEF AutoCancelClass, TypeOK
    <2>5. ASSUME NEW cancellable, CallOff(cancellable)
          PROVE  TypeOK'
      BY <2>1, <2>5, CloseQueueType DEF CallOff, TypeOK
    <2>6. ASSUME NEW opensAt, CompleteClass(opensAt)
          PROVE  TypeOK'
      <3>1. /\ entry' \in [Students -> EntryStatuses]
            /\ position' \in [Students -> Nat]
            /\ told' \subseteq Students
            /\ spotBroadcastAt' \in Phases \cup {Never}
        <4>1. CASE CloseQueue("expired")
          BY <2>1, <4>1, CloseQueueType
        <4>2. CASE UNCHANGED queue
          BY <4>2 DEF TypeOK
        <4> QED BY <2>6, <4>1, <4>2 DEF CompleteClass
      <3>2. payments' \subseteq Students
        BY <2>6 DEF CompleteClass, Charged, TypeOK
      <3> QED BY <2>6, <3>1, <3>2 DEF CompleteClass, TypeOK, ClassStatuses
    <2>7. ASSUME NEW to \in Phases, MoveStart(to)
          PROVE  TypeOK'
      <3>1. decided' \in BOOLEAN
        <4>1. CASE status = "open"
          BY <2>7, <4>1 DEF MoveStart
        <4>2. CASE status # "open"
          BY <2>7, <4>2 DEF MoveStart, TypeOK
        <4> QED BY <4>1, <4>2
      <3> QED BY <2>7, <3>1 DEF MoveStart, TypeOK
    <2>8. ASSUME NEW seats \in SeatLimits, EditSeats(seats)
          PROVE  TypeOK'
      BY <2>8 DEF EditSeats, TypeOK
    <2> QED BY <1>5, <2>2, <2>3, <2>4, <2>5, <2>6, <2>7, <2>8
            DEF ClassStep, CancelClass, TeacherComplete, CompleteSweep, EraseTeacher
  <1>6. ASSUME Tick
        PROVE  TypeOK'
    BY <1>6 DEF Tick, TypeOK, Phases
  <1>7. ASSUME UNCHANGED vars
        PROVE  TypeOK'
    BY <1>7 DEF vars, TypeOK
  <1> QED BY <1>1, <1>2, <1>3, <1>4, <1>5, <1>6, <1>7 DEF Next

\* Every variable keeps the type it is declared with.
THEOREM TypeCorrect == Spec => []TypeOK
  BY TypeInit, TypeStep, PTL DEF Spec

-------------------------------------------------------------------------------
(* Booked terms: the first of the safety invariants, one layer upon the    *)
(* other, each of which assumes those before it of the state a step starts *)
(* from.                                                                   *)

USE DEF class, bookings, queue

\* Nobody has booked a draft, or waits for one.
UnbookedDraft ==
  status = "draft" => \A s \in Students : booking[s] = "none" /\ entry[s] = "none"

\* A cancel that is under way cancels a booking that exists.
CancelsABooking ==
  \A w \in Workers :
    task[w].step = "cancel" => booking[task[w].student] # "none"

TermsInv == UnbookedDraft /\ CancelsABooking /\ BookedTermsLocked

\* A class that is full has somebody in it.
LEMMA FullIsBooked ==
  ASSUME TypeOK, IsFull
  PROVE  \E s \in Students : booking[s] # "none"
  <1>1. maxStudents \in Nat \ {0}
    BY SeatsAssumption DEF TypeOK
  <1>2. Active # {}
    BY <1>1, FS_EmptySet DEF IsFull
  <1> QED BY <1>2 DEF Active, ActiveStatuses

LEMMA TermsStep == TypeOK /\ TermsInv /\ [Next]_vars => TermsInv'
  <1> SUFFICES ASSUME TypeOK, TermsInv, [Next]_vars PROVE TermsInv'
    OBVIOUS
  <1> USE DEF TermsInv
  <1>1. ASSUME NEW s \in Students, StudentStep(s)
        PROVE  TermsInv'
    <2>1. ASSUME NEW by \in {"self", "teacher"}, Book(s, by)
          PROVE  TermsInv'
      BY <2>1 DEF Book, LockSettings, ActivateRegistration, TypeOK, UnbookedDraft,
                  CancelsABooking, BookedTermsLocked
    <2>2. ASSUME JoinWaitlist(s)
          PROVE  TermsInv'
      BY <2>2, FullIsBooked DEF JoinWaitlist, TypeOK, UnbookedDraft, CancelsABooking,
                                BookedTermsLocked
    <2>3. ASSUME LeaveWaitlist(s)
          PROVE  TermsInv'
      BY <2>3 DEF LeaveWaitlist, LeaveQueue, Waiting, TypeOK, UnbookedDraft,
                  CancelsABooking, BookedTermsLocked
    <2>4. ASSUME ClaimSpot(s)
          PROVE  TermsInv'
      BY <2>4 DEF ClaimSpot, ActivateRegistration, LeaveQueue, Waiting, TypeOK,
                  UnbookedDraft, CancelsABooking, BookedTermsLocked
    <2>5. ASSUME NEW to \in {"attended", "no_show", "late_cancel"}, MarkAttendance(s, to)
          PROVE  TermsInv'
      BY <2>5 DEF MarkAttendance, TypeOK, UnbookedDraft, CancelsABooking,
                  BookedTermsLocked
    <2> QED BY <1>1, <2>1, <2>2, <2>3, <2>4, <2>5 DEF StudentStep
  <1>2. ASSUME NEW w \in Handlers, RequestStep(w)
        PROVE  TermsInv'
    <2> w \in Workers
      BY DEF Workers
    <2>1. ASSUME NEW s \in Students, NEW by \in {"self", "teacher"}, DecideCancel(w, s, by)
          PROVE  TermsInv'
      BY <2>1 DEF DecideCancel, TypeOK, UnbookedDraft, CancelsABooking, BookedTermsLocked
    <2>2. ASSUME WriteCancel(w)
          PROVE  TermsInv'
      <3>1. task[w].student \in Students
        BY <2>2, TaskFields DEF WriteCancel, TypeOK
      <3>2. booking[task[w].student] # "none"
        BY <2>2 DEF WriteCancel, CancelsABooking
      <3>3. /\ \A s \in Students : booking'[s] = "none" <=> booking[s] = "none"
            /\ UNCHANGED <<entry, status, settingsLocked>>
        BY <2>2, <3>1, <3>2, TaskFields DEF WriteCancel, CancelWrite, TypeOK
      <3>4. \A v \in Workers : task'[v].step = "cancel" => task'[v] = task[v]
        BY <2>2 DEF WriteCancel, CancelWrite, Finish, Idle, TypeOK
      <3>5. CancelsABooking'
        BY <3>3, <3>4, TaskFields DEF CancelsABooking, TypeOK
      <3> QED BY <3>3, <3>5 DEF UnbookedDraft, BookedTermsLocked
    <2>3. ASSUME NEW to \in {"open", "in_progress"}, DecideTransition(w, to)
          PROVE  TermsInv'
      BY <2>3 DEF DecideTransition, TypeOK, UnbookedDraft, CancelsABooking,
                  BookedTermsLocked
    <2>4. ASSUME WriteTransition(w)
          PROVE  TermsInv'
      <3>1. task' = [task EXCEPT ![w] = Idle] /\ UNCHANGED <<booking, settingsLocked>>
        BY <2>4 DEF WriteTransition, Finish
      <3>2. CancelsABooking'
        BY <3>1 DEF CancelsABooking, TypeOK, Idle
      <3>3. \A s \in Students : entry'[s] = "none" <=> entry[s] = "none"
        BY <2>4 DEF WriteTransition, CloseQueue, Waiting, TypeOK
      <3>4. status' = "draft" => status = "draft"
        BY <2>4, TaskFields DEF WriteTransition, TypeOK
      <3> QED BY <3>1, <3>2, <3>3, <3>4 DEF UnbookedDraft, BookedTermsLocked
    <2>5. ASSUME NEW s \in Students, EraseQueued(w, s)
          PROVE  TermsInv'
      <3>1. /\ \A t \in Students : booking'[t] = "none" <=> booking[t] = "none"
            /\ \A t \in Students : entry[t] = "none" => entry'[t] = "none"
            /\ UNCHANGED <<status, settingsLocked>>
        BY <2>5 DEF EraseQueued, LeaveQueue, Upcoming, TypeOK
      <3>2. \A v \in Workers : task'[v].step = "cancel" => task'[v] = task[v]
        BY <2>5 DEF EraseQueued, TypeOK
      <3>3. CancelsABooking'
        BY <3>1, <3>2, TaskFields DEF CancelsABooking, TypeOK
      <3> QED BY <3>1, <3>3 DEF UnbookedDraft, BookedTermsLocked
    <2>6. ASSUME NEW s \in Students, StartErasure(w, s)
          PROVE  TermsInv'
      BY <2>6 DEF StartErasure, TypeOK, UnbookedDraft, CancelsABooking, BookedTermsLocked
    <2>7. ASSUME WriteErasure(w)
          PROVE  TermsInv'
      BY <2>7, TaskFields DEF WriteErasure, Idle, TypeOK, UnbookedDraft, CancelsABooking,
                              BookedTermsLocked
    <2> QED BY <1>2, <2>1, <2>2, <2>3, <2>4, <2>5, <2>6, <2>7 DEF RequestStep
  <1>3. ASSUME NEW w \in Workers, HookStep(w) \/ LoseTask(w)
        PROVE  TermsInv'
    <2>1. ASSUME ReadFreedSpot(w)
          PROVE  TermsInv'
      BY <2>1 DEF ReadFreedSpot, Finish, Idle, TypeOK, UnbookedDraft, CancelsABooking,
                  BookedTermsLocked
    <2>2. ASSUME PromoteNext(w)
          PROVE  TermsInv'
      <3>1. CASE cancelled \/ status # "open" \/ IsFull
        BY <2>2, <3>1 DEF PromoteNext, Finish, Idle, TypeOK, UnbookedDraft,
                          CancelsABooking, BookedTermsLocked
      <3>2. CASE ~(cancelled \/ status # "open" \/ IsFull)
        <4>1. /\ status = "open"
              /\ \A s \in Students : booking[s] # "none" => booking'[s] # "none"
              /\ \A s \in Students : booking'[s] # "none" => booking[s] # "none" \/ s \in Waiting
              /\ \A s \in Students : entry'[s] # "none" => entry[s] # "none"
              /\ UNCHANGED <<status, settingsLocked>>
          BY <2>2, <3>2 DEF PromoteNext, FirstIn, ActivateRegistration, LeaveQueue, Waiting, TypeOK
        <4>2. \A v \in Workers : task'[v].step = "cancel" => task'[v] = task[v]
          BY <2>2 DEF PromoteNext, Finish, Idle, TypeOK
        <4>3. CancelsABooking'
          BY <4>1, <4>2, TaskFields DEF CancelsABooking, TypeOK
        <4> QED BY <4>1, <4>3 DEF UnbookedDraft, BookedTermsLocked, Waiting
      <3> QED BY <3>1, <3>2
    <2>3. ASSUME BroadcastSpot(w)
          PROVE  TermsInv'
      BY <2>3 DEF BroadcastSpot, Finish, Idle, TypeOK, UnbookedDraft, CancelsABooking,
                  BookedTermsLocked
    <2>4. ASSUME LoseTask(w)
          PROVE  TermsInv'
      BY <2>4 DEF LoseTask, Finish, Idle, TypeOK, UnbookedDraft, CancelsABooking,
                  BookedTermsLocked
    <2> QED BY <1>3, <2>1, <2>2, <2>3, <2>4 DEF HookStep
  <1>4. ASSUME Reconcile
        PROVE  TermsInv'
    BY <1>4 DEF Reconcile, TypeOK, UnbookedDraft, CancelsABooking, BookedTermsLocked
  <1>5. ASSUME ClassStep
        PROVE  TermsInv'
    <2>1. UNCHANGED <<booking, settingsLocked, task>>
      BY <1>5 DEF ClassStep, StartSweep, KeepClass, AutoCancelClass, CancelClass, CallOff,
                  TeacherComplete, CompleteSweep, EraseTeacher, CompleteClass, MoveStart,
                  EditSeats
    <2>2. \A s \in Students : entry'[s] = "none" <=> entry[s] = "none"
      BY <1>5 DEF ClassStep, StartSweep, KeepClass, AutoCancelClass, CancelClass, CallOff,
                  TeacherComplete, CompleteSweep, EraseTeacher, CompleteClass, MoveStart,
                  EditSeats, CloseQueue, Waiting, TypeOK
    <2>3. status' = "draft" => status = "draft"
      BY <1>5 DEF ClassStep, StartSweep, KeepClass, AutoCancelClass, CancelClass, CallOff,
                  TeacherComplete, CompleteSweep, EraseTeacher, CompleteClass, MoveStart,
                  EditSeats
    <2> QED BY <2>1, <2>2, <2>3 DEF UnbookedDraft, CancelsABooking, BookedTermsLocked
  <1>6. ASSUME Tick
        PROVE  TermsInv'
    BY <1>6 DEF Tick, UnbookedDraft, CancelsABooking, BookedTermsLocked
  <1>7. ASSUME UNCHANGED vars
        PROVE  TermsInv'
    BY <1>7 DEF vars, UnbookedDraft, CancelsABooking, BookedTermsLocked
  <1> QED BY <1>1, <1>2, <1>3, <1>4, <1>5, <1>6, <1>7 DEF Next

LEMMA TermsInvariant == Spec => []TermsInv
  <1>1. Init => TermsInv
    BY DEF Init, TermsInv, UnbookedDraft, CancelsABooking, BookedTermsLocked, Idle
  <1> QED BY <1>1, TermsStep, TypeCorrect, PTL DEF Spec

\* Whoever has booked the class, or waits for it, did so on locked terms.
THEOREM TermsLocked == Spec => []BookedTermsLocked
  BY TermsInvariant, PTL DEF TermsInv

HIDE DEF BeforeDeadline, PastDeadline, PastCheck, ClaimWindow, DoorsOpen, Started,
         FinishOpens, AutoFinish

-------------------------------------------------------------------------------
(* Who waits.                                                              *)

QueueInv == QueueOnlyWhileOpen /\ NobodyWaitsWithSeat

\* A step that adds nobody to the queue and seats nobody who stays in it.
LEMMA QueueShrinks ==
  ASSUME QueueInv, UNCHANGED <<status, calledOffBy>>,
         \A s \in Students : entry'[s] = "waiting" =>
           /\ entry[s] = "waiting"
           /\ booking'[s] \in ActiveStatuses => booking[s] \in ActiveStatuses
  PROVE  QueueInv'
  BY DEF QueueInv, QueueOnlyWhileOpen, NobodyWaitsWithSeat, cancelled, Waiting, Active

LEMMA QueueUntouched ==
  ASSUME QueueInv, UNCHANGED <<status, calledOffBy, booking, entry>>
  PROVE  QueueInv'
  BY QueueShrinks

\* A step that leaves nobody waiting.
LEMMA QueueClosed ==
  ASSUME \A s \in Students : entry'[s] # "waiting"
  PROVE  QueueInv'
  BY DEF Waiting, QueueInv, QueueOnlyWhileOpen, NobodyWaitsWithSeat

LEMMA ClosedQueue ==
  ASSUME TypeOK, NEW to \in {"expired", "removed"}, CloseQueue(to)
  PROVE  \A s \in Students : entry'[s] # "waiting"
  BY DEF CloseQueue, Waiting, TypeOK

LEMMA QueueStep == TypeOK /\ QueueInv /\ [Next]_vars => QueueInv'
  <1> SUFFICES ASSUME TypeOK, QueueInv, [Next]_vars PROVE QueueInv'
    OBVIOUS
  <1>1. ASSUME NEW s \in Students, StudentStep(s)
        PROVE  QueueInv'
    <2>1. ASSUME NEW by \in {"self", "teacher"}, Book(s, by)
          PROVE  QueueInv'
      <3>1. /\ booking' = [booking EXCEPT ![s] = "registered"]
            /\ entry' = entry \/ entry' = [entry EXCEPT ![s] = "claimed"]
            /\ entry' = entry => entry[s] \notin ClaimableStatuses
            /\ UNCHANGED <<status, calledOffBy>>
        BY <2>1 DEF Book, ActivateRegistration, LeaveQueue, TypeOK, ClaimableStatuses
      <3> QED BY <3>1, QueueShrinks DEF ClaimableStatuses, TypeOK
    <2>2. ASSUME JoinWaitlist(s)
          PROVE  QueueInv'
      <3>1. Active' = Active
        BY <2>2 DEF JoinWaitlist, Active
      <3>2. Waiting' = Waiting \cup {s}
        BY <2>2 DEF JoinWaitlist, Waiting, TypeOK
      <3> QED BY <2>2, <3>1, <3>2 DEF JoinWaitlist, QueueInv, QueueOnlyWhileOpen,
                                NobodyWaitsWithSeat, cancelled
    <2>3. ASSUME LeaveWaitlist(s)
          PROVE  QueueInv'
      BY <2>3, QueueShrinks DEF LeaveWaitlist, LeaveQueue, TypeOK
    <2>4. ASSUME ClaimSpot(s)
          PROVE  QueueInv'
      BY <2>4, QueueShrinks DEF ClaimSpot, ActivateRegistration, LeaveQueue, TypeOK
    <2>5. ASSUME NEW to \in {"attended", "no_show", "late_cancel"}, MarkAttendance(s, to)
          PROVE  QueueInv'
      <3>1. CASE booking[s] = "late_cancel"
        <4>1. \A t \in Students : entry'[t] # "waiting"
          BY <2>5, <3>1 DEF MarkAttendance, QueueInv, QueueOnlyWhileOpen, Waiting
        <4> QED BY <4>1, QueueClosed
      <3>2. CASE booking[s] # "late_cancel"
        BY <2>5, <3>2, QueueShrinks DEF MarkAttendance, ActiveStatuses, BookingStatuses,
                                        TypeOK
      <3> QED BY <3>1, <3>2
    <2> QED BY <1>1, <2>1, <2>2, <2>3, <2>4, <2>5 DEF StudentStep
  <1>2. ASSUME NEW w \in Handlers, RequestStep(w)
        PROVE  QueueInv'
    <2> w \in Workers
      BY DEF Workers
    <2>1. ASSUME NEW s \in Students, NEW by \in {"self", "teacher"}, DecideCancel(w, s, by)
          PROVE  QueueInv'
      BY <2>1, QueueUntouched DEF DecideCancel
    <2>2. ASSUME WriteCancel(w)
          PROVE  QueueInv'
      <3>1. \A s \in Students :
              booking'[s] \in ActiveStatuses => booking[s] \in ActiveStatuses
        BY <2>2, TaskFields DEF WriteCancel, CancelWrite, ActiveStatuses, TypeOK
      <3> QED BY <2>2, <3>1, QueueShrinks DEF WriteCancel
    <2>3. ASSUME NEW to \in {"open", "in_progress"}, DecideTransition(w, to)
          PROVE  QueueInv'
      BY <2>3, QueueUntouched DEF DecideTransition
    <2>4. ASSUME WriteTransition(w)
          PROVE  QueueInv'
      <3>1. CASE CloseQueue("expired")
        BY <3>1, ClosedQueue, QueueClosed
      <3>2. CASE UNCHANGED <<queue, status>>
        BY <2>4, <3>2, QueueUntouched DEF WriteTransition
      <3>3. CASE status # "open" /\ UNCHANGED queue
        <4>1. \A s \in Students : entry'[s] # "waiting"
          BY <3>3 DEF QueueInv, QueueOnlyWhileOpen, Waiting
        <4> QED BY <4>1, QueueClosed
      <3> QED BY <2>4, <3>1, <3>2, <3>3 DEF WriteTransition, Moves, ValidTransitions, TypeOK,
                                            ClassStatuses
    <2>5. ASSUME NEW s \in Students, EraseQueued(w, s)
          PROVE  QueueInv'
      BY <2>5, QueueShrinks DEF EraseQueued, LeaveQueue, ActiveStatuses, TypeOK
    <2>6. ASSUME NEW s \in Students, StartErasure(w, s)
          PROVE  QueueInv'
      BY <2>6, QueueUntouched DEF StartErasure
    <2>7. ASSUME WriteErasure(w)
          PROVE  QueueInv'
      <3>1. \A s \in Students :
              booking'[s] \in ActiveStatuses => booking[s] \in ActiveStatuses
        BY <2>7 DEF WriteErasure, ActiveStatuses, TypeOK
      <3> QED BY <2>7, <3>1, QueueShrinks DEF WriteErasure
    <2> QED BY <1>2, <2>1, <2>2, <2>3, <2>4, <2>5, <2>6, <2>7 DEF RequestStep
  <1>3. ASSUME NEW w \in Workers, HookStep(w) \/ LoseTask(w)
        PROVE  QueueInv'
    <2>1. ASSUME ReadFreedSpot(w)
          PROVE  QueueInv'
      BY <2>1, QueueUntouched DEF ReadFreedSpot
    <2>2. ASSUME PromoteNext(w)
          PROVE  QueueInv'
      <3>1. CASE UNCHANGED <<bookings, queue>>
        BY <2>2, <3>1, QueueUntouched DEF PromoteNext
      <3>2. CASE ~UNCHANGED <<bookings, queue>>
        <4>1. \A s \in Students : entry'[s] = "waiting" => entry[s] = "waiting"
          BY <2>2, <3>2 DEF PromoteNext, LeaveQueue
        <4>2. \/ booking' = booking
              \/ \E s \in Students :
                   booking' = [booking EXCEPT ![s] = "registered"] /\ entry'[s] = "promoted"
          BY <2>2, <3>2 DEF PromoteNext, FirstIn, LeaveQueue, ActivateRegistration, Waiting
        <4> QED BY <2>2, <4>1, <4>2, QueueShrinks DEF PromoteNext, TypeOK
      <3> QED BY <3>1, <3>2
    <2>3. ASSUME BroadcastSpot(w)
          PROVE  QueueInv'
      BY <2>3, QueueUntouched DEF BroadcastSpot
    <2>4. ASSUME LoseTask(w)
          PROVE  QueueInv'
      BY <2>4, QueueUntouched DEF LoseTask
    <2> QED BY <1>3, <2>1, <2>2, <2>3, <2>4 DEF HookStep
  <1>4. ASSUME Reconcile
        PROVE  QueueInv'
    BY <1>4, QueueUntouched DEF Reconcile
  <1>5. ASSUME ClassStep
        PROVE  QueueInv'
    <2>1. ASSUME StartSweep
          PROVE  QueueInv'
      BY <2>1, ClosedQueue, QueueClosed DEF StartSweep
    <2>2. ASSUME NEW at, KeepClass(at)
          PROVE  QueueInv'
      BY <2>2, QueueUntouched DEF KeepClass
    <2>3. ASSUME NEW at, AutoCancelClass(at)
          PROVE  QueueInv'
      BY <2>3, ClosedQueue, QueueClosed DEF AutoCancelClass
    <2>4. ASSUME NEW cancellable, CallOff(cancellable)
          PROVE  QueueInv'
      BY <2>4, ClosedQueue, QueueClosed DEF CallOff
    <2>5. ASSUME NEW opensAt, CompleteClass(opensAt)
          PROVE  QueueInv'
      <3>1. CASE status = "open"
        BY <2>5, <3>1, ClosedQueue, QueueClosed DEF CompleteClass
      <3>2. CASE status # "open"
        <4>1. \A s \in Students : entry'[s] # "waiting"
          BY <2>5, <3>2 DEF CompleteClass, QueueInv, QueueOnlyWhileOpen, Waiting
        <4> QED BY <4>1, QueueClosed
      <3> QED BY <3>1, <3>2
    <2>6. ASSUME NEW to \in Phases, MoveStart(to)
          PROVE  QueueInv'
      BY <2>6, QueueUntouched DEF MoveStart
    <2>7. ASSUME NEW seats \in SeatLimits, EditSeats(seats)
          PROVE  QueueInv'
      BY <2>7, QueueUntouched DEF EditSeats
    <2> QED BY <1>5, <2>1, <2>2, <2>3, <2>4, <2>5, <2>6, <2>7
            DEF ClassStep, CancelClass, TeacherComplete, CompleteSweep, EraseTeacher
  <1>6. ASSUME Tick
        PROVE  QueueInv'
    BY <1>6, QueueUntouched DEF Tick
  <1>7. ASSUME UNCHANGED vars
        PROVE  QueueInv'
    BY <1>7, QueueUntouched DEF vars
  <1> QED BY <1>1, <1>2, <1>3, <1>4, <1>5, <1>6, <1>7 DEF Next

LEMMA QueueInvariant == Spec => []QueueInv
  <1>1. Init => QueueInv
    BY DEF Init, QueueInv, QueueOnlyWhileOpen, NobodyWaitsWithSeat, Waiting
  <1> QED BY <1>1, QueueStep, TypeCorrect, PTL DEF Spec

\* Nobody waits for a class that is not open or was called off.
THEOREM NoQueueUnlessOpen == Spec => []QueueOnlyWhileOpen
  BY QueueInvariant, PTL DEF QueueInv

\* Nobody waits for a class they hold a seat in.
THEOREM NoSeatAndQueue == Spec => []NobodyWaitsWithSeat
  BY QueueInvariant, PTL DEF QueueInv

-------------------------------------------------------------------------------
(* How many hold a seat.                                                   *)

\* Fewer students, no more seats.
LEMMA FewerStudents ==
  ASSUME NEW S \in SUBSET Students, NEW T \in SUBSET S
  PROVE  Cardinality(T) <= Cardinality(S)
  BY CountsAreNumbers, FS_Subset

\* A student seated while the class is not full leaves it within its capacity.
LEMMA OneMoreSeat ==
  ASSUME TypeOK, ~IsFull, NEW s \in Students
  PROVE  Cardinality(Active \cup {s}) <= maxStudents
  <1>1. Active \in SUBSET Students /\ maxStudents \in Nat
    BY SeatsAssumption DEF Active, TypeOK
  <1>2. IsFiniteSet(Active) /\ Cardinality(Active) \in Nat
    BY <1>1, CountsAreNumbers
  <1>3. Cardinality(Active) < maxStudents
    BY <1>1, <1>2 DEF IsFull
  <1>4. Cardinality(Active \cup {s}) <= Cardinality(Active) + 1
    <2>1. CASE s \in Active
      <3>1. Cardinality(Active \cup {s}) = Cardinality(Active)
        BY <1>2, <2>1, FS_AddElement
      <3> QED BY <1>2, <3>1
    <2>2. CASE s \notin Active
      <3>1. Cardinality(Active \cup {s}) = Cardinality(Active) + 1
        BY <1>2, <2>2, FS_AddElement
      <3> QED BY <1>2, <3>1
    <2> QED BY <2>1, <2>2
  <1>5. Cardinality(Active \cup {s}) \in Nat
    BY <1>1, CountsAreNumbers
  <1> QED BY <1>1, <1>2, <1>3, <1>4, <1>5

\* A step that opens nothing, keeps the capacity and seats only walk-ins.
LEMMA SeatsKept ==
  ASSUME TypeOK, SeatsWithinCapacity, status' = "open" => status = "open",
         maxStudents' = maxStudents,
         \A s \in Students : booking'[s] \in ActiveStatuses /\ s \notin walkIn' =>
           booking[s] \in ActiveStatuses /\ s \notin walkIn
  PROVE  SeatsWithinCapacity'
  <1>1. (Active \ walkIn)' \subseteq Active \ walkIn
    BY DEF Active
  <1>2. Active \ walkIn \in SUBSET Students /\ (Active \ walkIn)' \in SUBSET Students
    BY DEF Active
  <1>3. Cardinality((Active \ walkIn)') <= Cardinality(Active \ walkIn)
    BY <1>1, <1>2, FewerStudents
  <1>4. Cardinality((Active \ walkIn)') \in Nat /\ Cardinality(Active \ walkIn) \in Nat
    BY <1>2, CountsAreNumbers
  <1>5. maxStudents \in Nat
    BY SeatsAssumption DEF TypeOK
  <1> QED BY <1>3, <1>4, <1>5 DEF SeatsWithinCapacity

\* A step that seats one student while there is room.
LEMMA SeatsFilled ==
  ASSUME TypeOK, ~IsFull, NEW s \in Students, ActivateRegistration(s, FALSE),
         maxStudents' = maxStudents
  PROVE  SeatsWithinCapacity'
  <1>1. (Active \ walkIn)' \subseteq Active \cup {s}
    BY DEF ActivateRegistration, Active, TypeOK
  <1>2. Active \cup {s} \in SUBSET Students /\ (Active \ walkIn)' \in SUBSET Students
    BY DEF Active
  <1>3. Cardinality((Active \ walkIn)') <= Cardinality(Active \cup {s})
    BY <1>1, <1>2, FewerStudents
  <1>4. /\ Cardinality((Active \ walkIn)') \in Nat
        /\ Cardinality(Active \cup {s}) \in Nat
    BY <1>2, CountsAreNumbers
  <1>5. maxStudents \in Nat
    BY SeatsAssumption DEF TypeOK
  <1> QED BY <1>3, <1>4, <1>5, OneMoreSeat DEF SeatsWithinCapacity

\* A step after which nobody has booked.
LEMMA NobodySeated ==
  ASSUME TypeOK', \A s \in Students : booking'[s] = "none"
  PROVE  SeatsWithinCapacity'
  <1>1. (Active \ walkIn)' = {}
    BY DEF Active, ActiveStatuses
  <1>2. maxStudents' \in Nat
    BY SeatsAssumption DEF TypeOK
  <1> QED BY <1>1, <1>2, FS_EmptySet DEF SeatsWithinCapacity

LEMMA SeatsStep ==
  TypeOK /\ TypeOK' /\ TermsInv /\ SeatsWithinCapacity /\ [Next]_vars => SeatsWithinCapacity'
  <1> SUFFICES ASSUME TypeOK, TypeOK', TermsInv, SeatsWithinCapacity, [Next]_vars
               PROVE  SeatsWithinCapacity'
    OBVIOUS
  <1>1. ASSUME NEW s \in Students, StudentStep(s)
        PROVE  SeatsWithinCapacity'
    <2>1. ASSUME NEW by \in {"self", "teacher"}, Book(s, by)
          PROVE  SeatsWithinCapacity'
      <3>1. CASE by = "teacher" /\ now >= DoorsOpen
        BY <2>1, <3>1, SeatsKept DEF Book, ActivateRegistration, TypeOK
      <3>2. CASE ~(by = "teacher" /\ now >= DoorsOpen)
        <4>1. ActivateRegistration(s, FALSE) /\ ~IsFull /\ maxStudents' = maxStudents
          BY <2>1, <3>2 DEF Book
        <4> QED BY <4>1, SeatsFilled
      <3> QED BY <3>1, <3>2
    <2>2. ASSUME JoinWaitlist(s)
          PROVE  SeatsWithinCapacity'
      BY <2>2, SeatsKept DEF JoinWaitlist
    <2>3. ASSUME LeaveWaitlist(s)
          PROVE  SeatsWithinCapacity'
      BY <2>3, SeatsKept DEF LeaveWaitlist
    <2>4. ASSUME ClaimSpot(s)
          PROVE  SeatsWithinCapacity'
      BY <2>4, SeatsFilled DEF ClaimSpot
    <2>5. ASSUME NEW to \in {"attended", "no_show", "late_cancel"}, MarkAttendance(s, to)
          PROVE  SeatsWithinCapacity'
      <3>1. CASE status = "open"
        BY <2>5, <3>1, SeatsKept DEF MarkAttendance, ActiveStatuses, BookingStatuses, TypeOK
      <3>2. CASE status # "open"
        BY <2>5, <3>2 DEF MarkAttendance, SeatsWithinCapacity
      <3> QED BY <3>1, <3>2
    <2> QED BY <1>1, <2>1, <2>2, <2>3, <2>4, <2>5 DEF StudentStep
  <1>2. ASSUME NEW w \in Handlers, RequestStep(w)
        PROVE  SeatsWithinCapacity'
    <2> w \in Workers
      BY DEF Workers
    <2>1. ASSUME NEW s \in Students, NEW by \in {"self", "teacher"}, DecideCancel(w, s, by)
          PROVE  SeatsWithinCapacity'
      BY <2>1, SeatsKept DEF DecideCancel
    <2>2. ASSUME WriteCancel(w)
          PROVE  SeatsWithinCapacity'
      <3>1. \A s \in Students :
              booking'[s] \in ActiveStatuses => booking[s] \in ActiveStatuses
        BY <2>2, TaskFields DEF WriteCancel, CancelWrite, ActiveStatuses, TypeOK
      <3> QED BY <2>2, <3>1, SeatsKept DEF WriteCancel, CancelWrite
    <2>3. ASSUME NEW to \in {"open", "in_progress"}, DecideTransition(w, to)
          PROVE  SeatsWithinCapacity'
      BY <2>3, SeatsKept DEF DecideTransition
    <2>4. ASSUME WriteTransition(w)
          PROVE  SeatsWithinCapacity'
      <3>1. CASE status = "draft"
        <4>1. \A s \in Students : booking'[s] = "none"
          BY <2>4, <3>1 DEF WriteTransition, TermsInv, UnbookedDraft
        <4> QED BY <4>1, NobodySeated
      <3>2. CASE status # "draft"
        <4>1. status' = "open" => status = "open"
          BY <2>4, <3>2, TaskFields DEF WriteTransition, Moves, ValidTransitions, TypeOK,
                                        ClassStatuses
        <4> QED BY <2>4, <4>1, SeatsKept DEF WriteTransition
      <3> QED BY <3>1, <3>2
    <2>5. ASSUME NEW s \in Students, EraseQueued(w, s)
          PROVE  SeatsWithinCapacity'
      BY <2>5, SeatsKept DEF EraseQueued, ActiveStatuses, TypeOK
    <2>6. ASSUME NEW s \in Students, StartErasure(w, s)
          PROVE  SeatsWithinCapacity'
      BY <2>6, SeatsKept DEF StartErasure
    <2>7. ASSUME WriteErasure(w)
          PROVE  SeatsWithinCapacity'
      <3>1. \A s \in Students :
              booking'[s] \in ActiveStatuses => booking[s] \in ActiveStatuses
        BY <2>7 DEF WriteErasure, ActiveStatuses, TypeOK
      <3> QED BY <2>7, <3>1, SeatsKept DEF WriteErasure
    <2> QED BY <1>2, <2>1, <2>2, <2>3, <2>4, <2>5, <2>6, <2>7 DEF RequestStep
  <1>3. ASSUME NEW w \in Workers, HookStep(w) \/ LoseTask(w)
        PROVE  SeatsWithinCapacity'
    <2>1. ASSUME ReadFreedSpot(w)
          PROVE  SeatsWithinCapacity'
      BY <2>1, SeatsKept DEF ReadFreedSpot
    <2>2. ASSUME PromoteNext(w)
          PROVE  SeatsWithinCapacity'
      <3>1. CASE UNCHANGED bookings
        BY <2>2, <3>1, SeatsKept DEF PromoteNext
      <3>2. CASE ~UNCHANGED bookings
        <4>1. ~IsFull /\ \E s \in Students : ActivateRegistration(s, FALSE)
          BY <2>2, <3>2 DEF PromoteNext, FirstIn, Waiting
        <4> QED BY <2>2, <4>1, SeatsFilled DEF PromoteNext
      <3> QED BY <3>1, <3>2
    <2>3. ASSUME BroadcastSpot(w)
          PROVE  SeatsWithinCapacity'
      BY <2>3, SeatsKept DEF BroadcastSpot
    <2>4. ASSUME LoseTask(w)
          PROVE  SeatsWithinCapacity'
      BY <2>4, SeatsKept DEF LoseTask
    <2> QED BY <1>3, <2>1, <2>2, <2>3, <2>4 DEF HookStep
  <1>4. ASSUME Reconcile
        PROVE  SeatsWithinCapacity'
    BY <1>4, SeatsKept DEF Reconcile
  <1>5. ASSUME ClassStep
        PROVE  SeatsWithinCapacity'
    <2>1. ASSUME NEW seats \in SeatLimits, EditSeats(seats)
          PROVE  SeatsWithinCapacity'
      <3>1. \A s \in Students : booking'[s] = "none"
        BY <2>1 DEF EditSeats, Editable, TermsInv, BookedTermsLocked
      <3> QED BY <3>1, NobodySeated
    <2>2. CASE UNCHANGED <<bookings, maxStudents>> /\ (status' = "open" => status = "open")
      BY <2>2, SeatsKept
    <2> QED BY <1>5, <2>1, <2>2
            DEF ClassStep, StartSweep, KeepClass, AutoCancelClass, CancelClass, CallOff,
                TeacherComplete, CompleteSweep, EraseTeacher, CompleteClass, MoveStart
  <1>6. ASSUME Tick
        PROVE  SeatsWithinCapacity'
    BY <1>6, SeatsKept DEF Tick
  <1>7. ASSUME UNCHANGED vars
        PROVE  SeatsWithinCapacity'
    BY <1>7, SeatsKept DEF vars
  <1> QED BY <1>1, <1>2, <1>3, <1>4, <1>5, <1>6, <1>7 DEF Next

\* An open class seats no more than its capacity, walk-ins apart.
THEOREM SeatsNotOversold == Spec => []SeatsWithinCapacity
  <1>1. Init => SeatsWithinCapacity
    <2> SUFFICES ASSUME Init PROVE SeatsWithinCapacity
      OBVIOUS
    <2>1. Active \ walkIn = {}
      BY DEF Init, Active, ActiveStatuses
    <2>2. maxStudents \in Nat
      BY SeatsAssumption DEF Init
    <2> QED BY <2>1, <2>2, FS_EmptySet DEF SeatsWithinCapacity
  <1> QED BY <1>1, SeatsStep, TypeCorrect, TermsInvariant, PTL DEF Spec

-------------------------------------------------------------------------------
(* What the students waiting were told.                                    *)

\* Nothing was announced of a draft, and what was announced was announced on
\* locked terms: the capacity it counted on cannot be edited any more.
QuietDraft     == status = "draft" => spotBroadcastAt = Never /\ told = {}
BroadcastLocks == spotBroadcastAt # Never => settingsLocked

BroadcastInv == BroadcastTellsTheTruth /\ QuietDraft /\ BroadcastLocks

\* A student who takes a seat leaves the queue; the last seat ends a broadcast.
LEMMA SeatTaken ==
  ASSUME TypeOK, BroadcastInv, NEW s \in Students, NEW isWalkIn \in BOOLEAN,
         ActivateRegistration(s, isWalkIn),
         \A t \in Students : entry'[t] = "waiting" <=> entry[t] = "waiting" /\ t # s,
         UNCHANGED <<status, calledOffBy, maxStudents>>,
         status # "draft", settingsLocked => settingsLocked'
  PROVE  BroadcastInv'
  <1>1. Active' = Active \cup {s}
    BY DEF Active, ActivateRegistration, ActiveStatuses, TypeOK
  <1>2. Waiting' = Waiting \ {s}
    BY DEF Waiting
  <1>3. Cardinality(Active \cup {s}) \in Nat /\ maxStudents \in Nat
    BY CountsAreNumbers, SeatsAssumption DEF Active, TypeOK
  <1>4. BroadcastTellsTheTruth'
    <2>1. CASE Cardinality(Active \cup {s}) >= maxStudents
      BY <2>1 DEF BroadcastInv, BroadcastTellsTheTruth, ActivateRegistration, cancelled
    <2>2. CASE ~(Cardinality(Active \cup {s}) >= maxStudents)
      <3>1. ~IsFull'
        BY <1>1, <2>2 DEF IsFull
      <3>2. spotBroadcastAt' = spotBroadcastAt /\ told' = told \ {s}
        BY <2>2 DEF ActivateRegistration
      <3> QED BY <1>2, <3>1, <3>2 DEF BroadcastInv, BroadcastTellsTheTruth, cancelled
    <2> QED BY <2>1, <2>2
  <1>5. spotBroadcastAt' = Never \/ spotBroadcastAt' = spotBroadcastAt
    BY DEF ActivateRegistration
  <1> QED BY <1>4, <1>5 DEF BroadcastInv, QuietDraft, BroadcastLocks

\* Those who leave the queue, or a seat, leave what the others were told true.
LEMMA SeatsGivenUp ==
  ASSUME TypeOK, BroadcastInv, NEW D \in SUBSET Students,
         \A t \in Students : entry'[t] = "waiting" <=> entry[t] = "waiting" /\ t \notin D,
         told' = told \ D,
         status = "open" => Active' \subseteq Active,
         UNCHANGED <<status, calledOffBy, maxStudents, settingsLocked, spotBroadcastAt>>
  PROVE  BroadcastInv'
  <1>1. Waiting' = Waiting \ D
    BY DEF Waiting
  <1>2. status = "open" /\ ~IsFull => ~IsFull'
    <2> SUFFICES ASSUME status = "open", ~IsFull PROVE ~IsFull'
      OBVIOUS
    <2>1. Active \in SUBSET Students /\ Active' \in SUBSET Active
      BY DEF Active
    <2>2. Cardinality(Active') <= Cardinality(Active)
      BY <2>1, FewerStudents
    <2>3. Cardinality(Active) \in Nat /\ Cardinality(Active') \in Nat /\ maxStudents \in Nat
      BY <2>1, CountsAreNumbers, SeatsAssumption DEF TypeOK
    <2> QED BY <2>2, <2>3 DEF IsFull
  <1> QED BY <1>1, <1>2 DEF BroadcastInv, BroadcastTellsTheTruth, QuietDraft,
                            BroadcastLocks, cancelled

LEMMA SeatsFreed ==
  ASSUME TypeOK, BroadcastInv, status = "open" => Active' \subseteq Active,
         \A t \in Students : entry'[t] = "waiting" <=> entry[t] = "waiting",
         UNCHANGED <<status, calledOffBy, maxStudents, settingsLocked, told,
                     spotBroadcastAt>>
  PROVE  BroadcastInv'
  <1> DEFINE D == {}
  <1>1. D \in SUBSET Students /\ told' = told \ D
    OBVIOUS
  <1>2. \A t \in Students : entry'[t] = "waiting" <=> entry[t] = "waiting" /\ t \notin D
    OBVIOUS
  <1> HIDE DEF D
  <1> QED BY <1>1, <1>2, SeatsGivenUp

LEMMA BroadcastUntouched ==
  ASSUME TypeOK, BroadcastInv,
         UNCHANGED <<status, calledOffBy, maxStudents, settingsLocked, booking, queue>>
  PROVE  BroadcastInv'
  BY DEF BroadcastInv, BroadcastTellsTheTruth, QuietDraft, BroadcastLocks, IsFull, Active,
         Waiting, cancelled

\* A step that starts the class or calls it off says nothing to anyone any more.
LEMMA BroadcastOver ==
  ASSUME TypeOK, BroadcastInv, CloseQueue("expired") \/ CloseQueue("removed"),
         UNCHANGED settingsLocked, status' # "open" \/ cancelled',
         status' = "draft" => status = "draft"
  PROVE  BroadcastInv'
  BY DEF BroadcastInv, BroadcastTellsTheTruth, QuietDraft, BroadcastLocks, CloseQueue

LEMMA BroadcastStep ==
  TypeOK /\ TermsInv /\ QueueInv /\ BroadcastInv /\ [Next]_vars => BroadcastInv'
  <1> SUFFICES ASSUME TypeOK, TermsInv, QueueInv, BroadcastInv, [Next]_vars
               PROVE  BroadcastInv'
    OBVIOUS
  <1>1. ASSUME NEW s \in Students, StudentStep(s)
        PROVE  BroadcastInv'
    <2>1. ASSUME NEW by \in {"self", "teacher"}, Book(s, by)
          PROVE  BroadcastInv'
      <3>1. /\ status # "draft"
            /\ settingsLocked'
            /\ UNCHANGED <<status, calledOffBy, maxStudents>>
            /\ \E isWalkIn \in BOOLEAN : ActivateRegistration(s, isWalkIn)
        BY <2>1 DEF Book, LockSettings
      <3>2. \A t \in Students : entry'[t] = "waiting" <=> entry[t] = "waiting" /\ t # s
        BY <2>1 DEF Book, LeaveQueue, ClaimableStatuses, TypeOK
      <3> QED BY <3>1, <3>2, SeatTaken
    <2>2. ASSUME JoinWaitlist(s)
          PROVE  BroadcastInv'
      <3>1. Active' = Active
        BY <2>2 DEF JoinWaitlist, Active
      <3> QED BY <2>2, <3>1 DEF JoinWaitlist, BroadcastInv, BroadcastTellsTheTruth,
                                QuietDraft, BroadcastLocks, IsFull, cancelled
    <2>3. ASSUME LeaveWaitlist(s)
          PROVE  BroadcastInv'
      <3>1. \A t \in Students :
              entry'[t] = "waiting" <=> entry[t] = "waiting" /\ t \notin {s}
        BY <2>3 DEF LeaveWaitlist, LeaveQueue, TypeOK
      <3>2. Active' \subseteq Active
        BY <2>3 DEF LeaveWaitlist, Active
      <3> QED BY <2>3, <3>1, <3>2, SeatsGivenUp DEF LeaveWaitlist
    <2>4. ASSUME ClaimSpot(s)
          PROVE  BroadcastInv'
      <3>1. \A t \in Students : entry'[t] = "waiting" <=> entry[t] = "waiting" /\ t # s
        BY <2>4 DEF ClaimSpot, LeaveQueue, TypeOK
      <3> QED BY <2>4, <3>1, SeatTaken DEF ClaimSpot
    <2>5. ASSUME NEW to \in {"attended", "no_show", "late_cancel"}, MarkAttendance(s, to)
          PROVE  BroadcastInv'
      <3>1. status = "open" => Active' \subseteq Active
        BY <2>5 DEF MarkAttendance, Active, ActiveStatuses, BookingStatuses, TypeOK
      <3> QED BY <2>5, <3>1, SeatsFreed DEF MarkAttendance
    <2> QED BY <1>1, <2>1, <2>2, <2>3, <2>4, <2>5 DEF StudentStep
  <1>2. ASSUME NEW w \in Handlers, RequestStep(w)
        PROVE  BroadcastInv'
    <2> w \in Workers
      BY DEF Workers
    <2>1. ASSUME NEW s \in Students, NEW by \in {"self", "teacher"}, DecideCancel(w, s, by)
          PROVE  BroadcastInv'
      BY <2>1, BroadcastUntouched DEF DecideCancel
    <2>2. ASSUME WriteCancel(w)
          PROVE  BroadcastInv'
      <3>1. Active' \subseteq Active
        BY <2>2, TaskFields DEF WriteCancel, CancelWrite, Active, ActiveStatuses, TypeOK
      <3> QED BY <2>2, <3>1, SeatsFreed DEF WriteCancel
    <2>3. ASSUME NEW to \in {"open", "in_progress"}, DecideTransition(w, to)
          PROVE  BroadcastInv'
      BY <2>3, BroadcastUntouched DEF DecideTransition
    <2>4. ASSUME WriteTransition(w)
          PROVE  BroadcastInv'
      <3>1. CASE ~Moves(task[w].to)
        BY <2>4, <3>1, BroadcastUntouched DEF WriteTransition
      <3>2. CASE Moves(task[w].to) /\ task[w].to = "open"
        BY <2>4, <3>2 DEF WriteTransition, Moves, ValidTransitions, ClassStatuses, TypeOK,
                          BroadcastInv, BroadcastTellsTheTruth, QuietDraft, BroadcastLocks
      <3>3. CASE Moves(task[w].to) /\ task[w].to = "in_progress"
        BY <2>4, <3>3, BroadcastOver DEF WriteTransition
      <3> QED BY <2>4, <3>1, <3>2, <3>3, TaskFields DEF WriteTransition, TypeOK
    <2>5. ASSUME NEW s \in Students, EraseQueued(w, s)
          PROVE  BroadcastInv'
      <3>1. \A t \in Students :
              entry'[t] = "waiting" <=> entry[t] = "waiting" /\ t \notin {s}
        BY <2>5 DEF EraseQueued, LeaveQueue, TypeOK
      <3>2. Active' \subseteq Active
        BY <2>5 DEF EraseQueued, Active, ActiveStatuses, TypeOK
      <3> QED BY <2>5, <3>1, <3>2, SeatsGivenUp DEF EraseQueued
    <2>6. ASSUME NEW s \in Students, StartErasure(w, s)
          PROVE  BroadcastInv'
      BY <2>6, BroadcastUntouched DEF StartErasure
    <2>7. ASSUME WriteErasure(w)
          PROVE  BroadcastInv'
      <3>1. Active' \subseteq Active
        BY <2>7 DEF WriteErasure, Active, ActiveStatuses, TypeOK
      <3> QED BY <2>7, <3>1, SeatsFreed DEF WriteErasure
    <2> QED BY <1>2, <2>1, <2>2, <2>3, <2>4, <2>5, <2>6, <2>7 DEF RequestStep
  <1>3. ASSUME NEW w \in Workers, HookStep(w) \/ LoseTask(w)
        PROVE  BroadcastInv'
    <2>1. ASSUME ReadFreedSpot(w)
          PROVE  BroadcastInv'
      BY <2>1, BroadcastUntouched DEF ReadFreedSpot
    <2>2. ASSUME PromoteNext(w)
          PROVE  BroadcastInv'
      <3>1. CASE cancelled \/ status # "open" \/ IsFull
        BY <2>2, <3>1, BroadcastUntouched DEF PromoteNext
      <3>2. CASE ~(cancelled \/ status # "open" \/ IsFull)
        <4>1. Waiting \cap Active = {}
          BY DEF QueueInv, NobodyWaitsWithSeat
        <4>2. CASE UNCHANGED bookings
          <5>1. /\ \A t \in Students : entry'[t] = entry[t]
                /\ UNCHANGED <<told, spotBroadcastAt>>
            BY <2>2, <3>2, <4>1, <4>2 DEF PromoteNext, FirstIn, LeaveQueue, ActivateRegistration,
                                          Waiting, Active, ActiveStatuses, TypeOK
          <5>2. Active' \subseteq Active
            BY <4>2 DEF Active
          <5> QED BY <2>2, <5>1, <5>2, SeatsFreed DEF PromoteNext
        <4>3. CASE ~UNCHANGED bookings
          <5>1. PICK s \in Waiting :
                  /\ ActivateRegistration(s, FALSE)
                  /\ \A t \in Students : entry'[t] = IF t = s THEN "promoted" ELSE entry[t]
            BY <2>2, <3>2, <4>1, <4>3 DEF PromoteNext, FirstIn, LeaveQueue
          <5>2. s \in Students
            BY DEF Waiting
          <5> QED BY <2>2, <3>2, <5>1, <5>2, SeatTaken DEF PromoteNext
        <4> QED BY <4>2, <4>3
      <3> QED BY <3>1, <3>2
    <2>3. ASSUME BroadcastSpot(w)
          PROVE  BroadcastInv'
      <3>1. CASE UNCHANGED <<told, spotBroadcastAt>>
        BY <2>3, <3>1, BroadcastUntouched DEF BroadcastSpot
      <3>2. CASE ~UNCHANGED <<told, spotBroadcastAt>>
        <4>1. /\ ~IsFull /\ Waiting # {}
              /\ told' = Waiting
              /\ spotBroadcastAt' \in Phases
          BY <2>3, <3>2, TaskFields DEF BroadcastSpot, TypeOK
        <4>2. status = "open" /\ settingsLocked
          BY <4>1 DEF QueueInv, QueueOnlyWhileOpen, TermsInv, BookedTermsLocked, Waiting
        <4>3. Waiting' = Waiting /\ ~IsFull'
          BY <2>3, <4>1 DEF BroadcastSpot, Waiting, IsFull, Active
        <4>4. spotBroadcastAt' # Never
          BY <4>1 DEF Phases, Never, BeforeDeadline, AutoFinish
        <4> QED BY <2>3, <4>1, <4>2, <4>3, <4>4
                DEF BroadcastSpot, BroadcastInv, BroadcastTellsTheTruth, QuietDraft,
                    BroadcastLocks
      <3> QED BY <3>1, <3>2
    <2>4. ASSUME LoseTask(w)
          PROVE  BroadcastInv'
      BY <2>4, BroadcastUntouched DEF LoseTask
    <2> QED BY <1>3, <2>1, <2>2, <2>3, <2>4 DEF HookStep
  <1>4. ASSUME Reconcile
        PROVE  BroadcastInv'
    BY <1>4, BroadcastUntouched DEF Reconcile
  <1>5. ASSUME ClassStep
        PROVE  BroadcastInv'
    <2>1. ASSUME StartSweep
          PROVE  BroadcastInv'
      BY <2>1, BroadcastOver DEF StartSweep
    <2>2. ASSUME NEW at, KeepClass(at)
          PROVE  BroadcastInv'
      BY <2>2, BroadcastUntouched DEF KeepClass
    <2>3. ASSUME NEW at, AutoCancelClass(at)
          PROVE  BroadcastInv'
      BY <2>3, BroadcastOver DEF AutoCancelClass, cancelled
    <2>4. ASSUME NEW cancellable, CallOff(cancellable)
          PROVE  BroadcastInv'
      BY <2>4, BroadcastOver DEF CallOff, cancelled
    <2>5. ASSUME NEW opensAt, CompleteClass(opensAt)
          PROVE  BroadcastInv'
      <3>1. CASE status = "open"
        BY <2>5, <3>1, BroadcastOver DEF CompleteClass
      <3>2. CASE status # "open"
        BY <2>5, <3>2 DEF CompleteClass, BroadcastInv, BroadcastTellsTheTruth, QuietDraft,
                          BroadcastLocks
      <3> QED BY <3>1, <3>2
    <2>6. ASSUME NEW to \in Phases, MoveStart(to)
          PROVE  BroadcastInv'
      BY <2>6, BroadcastUntouched DEF MoveStart
    <2>7. ASSUME NEW seats \in SeatLimits, EditSeats(seats)
          PROVE  BroadcastInv'
      BY <2>7 DEF EditSeats, Editable, BroadcastInv, BroadcastTellsTheTruth, QuietDraft,
                  BroadcastLocks, cancelled
    <2> QED BY <1>5, <2>1, <2>2, <2>3, <2>4, <2>5, <2>6, <2>7
            DEF ClassStep, CancelClass, TeacherComplete, CompleteSweep, EraseTeacher
  <1>6. ASSUME Tick
        PROVE  BroadcastInv'
    BY <1>6, BroadcastUntouched DEF Tick
  <1>7. ASSUME UNCHANGED vars
        PROVE  BroadcastInv'
    BY <1>7, BroadcastUntouched DEF vars
  <1> QED BY <1>1, <1>2, <1>3, <1>4, <1>5, <1>6, <1>7 DEF Next

\* While the class is open, those who wait were last told the truth: all of them
\* of a free seat while a broadcast stands for it, none of them otherwise.
THEOREM ToldTheTruth == Spec => []BroadcastTellsTheTruth
  <1>1. Init => BroadcastInv
    BY DEF Init, BroadcastInv, BroadcastTellsTheTruth, QuietDraft, BroadcastLocks
  <1>2. Spec => []BroadcastInv
    BY <1>1, BroadcastStep, TypeCorrect, TermsInvariant, QueueInvariant, PTL DEF Spec
  <1> QED BY <1>2, PTL DEF BroadcastInv

-------------------------------------------------------------------------------
(* The numbering of the queue.                                             *)

\* No two of those who wait have one position: renumbering would give them one
\* number, and leave a gap.
DistinctPositions == \A s, t \in Waiting : position[s] = position[t] => s = t

NumberedInv == DistinctPositions /\ QueueNumbered

\* Renumbering students with distinct positions gives them the numbers 1 to n, one
\* each: counting those up to one's own position is strictly monotone in it, so it
\* is an injection into a set of the same size, and therefore onto it.
LEMMA RenumberedNumbers ==
  ASSUME TypeOK, NEW W \in SUBSET Students,
         \A s, t \in W : position[s] = position[t] => s = t
  PROVE  /\ \A s, t \in W : Renumbered(W)[s] = Renumbered(W)[t] => s = t
         /\ {Renumbered(W)[s] : s \in W} = 1 .. Cardinality(W)
  <1> DEFINE UpTo(s) == {t \in W : position[t] <= position[s]}
             n == Cardinality(W)
             f == [s \in W |-> Cardinality(UpTo(s))]
  <1>1. n \in Nat /\ \A s \in W : position[s] \in Nat
    BY CountsAreNumbers DEF TypeOK
  <1>2. \A s \in W : Renumbered(W)[s] = f[s]
    BY DEF Renumbered
  <1>3. ASSUME NEW s \in W
        PROVE  f[s] \in 1 .. n
    <2>1. UpTo(s) \in SUBSET Students /\ UpTo(s) \in SUBSET W /\ s \in UpTo(s)
      BY <1>1
    <2>2. Cardinality(UpTo(s)) \in Nat /\ IsFiniteSet(UpTo(s))
      BY <2>1, CountsAreNumbers
    <2>3. Cardinality(UpTo(s)) <= n
      BY <2>1, FewerStudents
    <2>4. Cardinality(UpTo(s)) # 0
      BY <2>1, <2>2, FS_EmptySet
    <2> QED BY <1>1, <2>2, <2>3, <2>4
  <1>4. ASSUME NEW s \in W, NEW t \in W, position[s] < position[t]
        PROVE  f[s] < f[t]
    <2>1. /\ UpTo(t) \in SUBSET Students
          /\ UpTo(s) \in SUBSET UpTo(t)
          /\ t \in UpTo(t) /\ t \notin UpTo(s)
      BY <1>1, <1>4
    <2>2. IsFiniteSet(UpTo(t))
      BY <2>1, CountsAreNumbers
    <2>3. /\ Cardinality(UpTo(s)) <= Cardinality(UpTo(t))
          /\ Cardinality(UpTo(s)) # Cardinality(UpTo(t))
      BY <2>1, <2>2, FS_Subset
    <2>4. f[s] \in Nat /\ f[t] \in Nat
      BY <1>1, <1>3
    <2> QED BY <2>3, <2>4
  <1>5. \A s, t \in W : f[s] = f[t] => s = t
    <2> SUFFICES ASSUME NEW s \in W, NEW t \in W, s # t PROVE f[s] # f[t]
      OBVIOUS
    <2>1. position[s] < position[t] \/ position[t] < position[s]
      BY <1>1
    <2>2. f[s] < f[t] \/ f[t] < f[s]
      BY <2>1, <1>4
    <2>3. f[s] \in Nat /\ f[t] \in Nat
      BY <1>1, <1>3
    <2> QED BY <2>2, <2>3
  <1>6. \A k \in 1 .. n : \E s \in W : f[s] = k
    <2>1. f \in Injection(W, 1 .. n)
      BY <1>3, <1>5 DEF Injection, IsInjective
    <2>2. IsFiniteSet(1 .. n) /\ Cardinality(1 .. n) = n
      BY <1>1, FS_Interval
    <2>3. f \in Surjection(W, 1 .. n)
      BY <2>1, <2>2, FS_Injection
    <2> QED BY <2>3 DEF Surjection
  <1> HIDE DEF f
  <1>7. \A s, t \in W : Renumbered(W)[s] = Renumbered(W)[t] => s = t
    BY <1>2, <1>5
  <1>8. {Renumbered(W)[s] : s \in W} = 1 .. n
    BY <1>2, <1>3, <1>6
  <1> QED BY <1>7, <1>8

\* Whoever leaves the queue, the rest is renumbered.
LEMMA LeaveQueueNumbers ==
  ASSUME TypeOK, NumberedInv, NEW newEntry, LeaveQueue(newEntry),
         \A s \in Students : newEntry[s] = "waiting" => entry[s] = "waiting"
  PROVE  NumberedInv'
  <1> DEFINE W == {s \in Waiting : newEntry[s] = "waiting"}
  <1>1. W \in SUBSET Students /\ W \in SUBSET Waiting
    BY DEF Waiting
  <1>2. Waiting' = W /\ position' = Renumbered(W)
    BY DEF LeaveQueue, Waiting
  <1>3. \A s, t \in W : position[s] = position[t] => s = t
    BY <1>1 DEF NumberedInv, DistinctPositions
  <1> HIDE DEF W
  <1>4. /\ \A s, t \in W : Renumbered(W)[s] = Renumbered(W)[t] => s = t
        /\ {Renumbered(W)[s] : s \in W} = 1 .. Cardinality(W)
    BY <1>1, <1>3, RenumberedNumbers
  <1> QED BY <1>2, <1>4 DEF NumberedInv, DistinctPositions, QueueNumbered

LEMMA NumbersUntouched ==
  ASSUME NumberedInv, UNCHANGED <<entry, position>>
  PROVE  NumberedInv'
  BY DEF NumberedInv, DistinctPositions, QueueNumbered, Waiting

\* With nobody waiting there is nothing to number.
LEMMA NobodyNumbered ==
  ASSUME \A s \in Students : entry'[s] # "waiting"
  PROVE  NumberedInv'
  <1>1. Waiting' = {}
    BY DEF Waiting
  <1>2. 1 .. 0 = {}
    OBVIOUS
  <1> QED BY <1>1, <1>2, FS_EmptySet DEF NumberedInv, DistinctPositions, QueueNumbered

LEMMA NumberedStep == TypeOK /\ NumberedInv /\ [Next]_vars => NumberedInv'
  <1> SUFFICES ASSUME TypeOK, NumberedInv, [Next]_vars PROVE NumberedInv'
    OBVIOUS
  <1>1. ASSUME NEW s \in Students, StudentStep(s)
        PROVE  NumberedInv'
    <2>1. ASSUME NEW by \in {"self", "teacher"}, Book(s, by)
          PROVE  NumberedInv'
      <3>1. CASE LeaveQueue([entry EXCEPT ![s] = "claimed"])
        BY <3>1, LeaveQueueNumbers DEF TypeOK
      <3>2. CASE UNCHANGED <<entry, position>>
        BY <3>2, NumbersUntouched
      <3> QED BY <2>1, <3>1, <3>2 DEF Book
    <2>2. ASSUME JoinWaitlist(s)
          PROVE  NumberedInv'
      <3> DEFINE n == Cardinality(Waiting)
      <3>1. Waiting \in SUBSET Students /\ Waiting' = Waiting \cup {s} /\ s \notin Waiting
        BY <2>2 DEF JoinWaitlist, Waiting, TypeOK
      <3>2. n \in Nat /\ IsFiniteSet(Waiting)
        BY <3>1, CountsAreNumbers
      <3>3. Cardinality(Waiting \cup {s}) = n + 1
        BY <3>1, <3>2, FS_AddElement
      <3>4. \A k \in 1 .. n : \E t \in Waiting : position[t] = k
        BY DEF NumberedInv, QueueNumbered
      <3>5. \A t \in Waiting : position[t] \in 1 .. n
        BY DEF NumberedInv, QueueNumbered
      <3>6. PICK last \in {position[t] : t \in Waiting} \cup {0} :
              /\ \A t \in Waiting : position[t] <= last
              /\ position' = [position EXCEPT ![s] = last + 1]
        BY <2>2 DEF JoinWaitlist
      <3>7. last = n
        <4>1. last \in 0 .. n
          BY <3>2, <3>5, <3>6
        <4>2. CASE n = 0
          BY <4>1, <4>2
        <4>3. CASE n # 0
          <5>1. n \in 1 .. n
            BY <3>2, <4>3
          <5>2. PICK t \in Waiting : position[t] = n
            BY <3>4, <5>1
          <5> QED BY <3>2, <3>6, <4>1, <5>2
        <4> QED BY <4>2, <4>3
      <3>8. position'[s] = n + 1 /\ \A t \in Waiting : position'[t] = position[t]
        BY <3>1, <3>6, <3>7 DEF TypeOK
      <3>9. DistinctPositions'
        <4>1. \A t \in Waiting : position'[t] # n + 1
          BY <3>2, <3>5, <3>8
        <4> QED BY <3>1, <3>8, <4>1 DEF NumberedInv, DistinctPositions
      <3>10. QueueNumbered'
        <4> HIDE DEF n
        <4>1. \A t \in Waiting \cup {s} : position'[t] \in 1 .. (n + 1)
          BY <3>2, <3>5, <3>8
        <4>2. \A k \in 1 .. (n + 1) : \E t \in Waiting \cup {s} : position'[t] = k
          <5> SUFFICES ASSUME NEW k \in 1 .. (n + 1)
                       PROVE  \E t \in Waiting \cup {s} : position'[t] = k
            OBVIOUS
          <5>1. k \in 1 .. n \/ k = n + 1
            BY <3>2
          <5>2. CASE k \in 1 .. n
            BY <3>4, <3>8, <5>2
          <5>3. CASE k = n + 1
            BY <3>8, <5>3
          <5> QED BY <5>1, <5>2, <5>3
        <4>3. {position'[t] : t \in Waiting \cup {s}} = 1 .. (n + 1)
          BY <4>1, <4>2
        <4> QED BY <3>1, <3>3, <4>3 DEF QueueNumbered
      <3> QED BY <3>9, <3>10 DEF NumberedInv
    <2>3. ASSUME LeaveWaitlist(s)
          PROVE  NumberedInv'
      BY <2>3, LeaveQueueNumbers DEF LeaveWaitlist, TypeOK
    <2>4. ASSUME ClaimSpot(s)
          PROVE  NumberedInv'
      BY <2>4, LeaveQueueNumbers DEF ClaimSpot, TypeOK
    <2>5. ASSUME NEW to \in {"attended", "no_show", "late_cancel"}, MarkAttendance(s, to)
          PROVE  NumberedInv'
      BY <2>5, NumbersUntouched DEF MarkAttendance
    <2> QED BY <1>1, <2>1, <2>2, <2>3, <2>4, <2>5 DEF StudentStep
  <1>2. ASSUME NEW w \in Handlers, RequestStep(w)
        PROVE  NumberedInv'
    <2>1. ASSUME WriteTransition(w)
          PROVE  NumberedInv'
      <3>1. CASE CloseQueue("expired")
        BY <3>1, ClosedQueue, NobodyNumbered
      <3>2. CASE UNCHANGED queue
        BY <3>2, NumbersUntouched
      <3> QED BY <2>1, <3>1, <3>2 DEF WriteTransition
    <2>2. ASSUME NEW s \in Students, EraseQueued(w, s)
          PROVE  NumberedInv'
      BY <2>2, LeaveQueueNumbers DEF EraseQueued, TypeOK
    <2>3. CASE UNCHANGED queue
      BY <2>3, NumbersUntouched
    <2> QED BY <1>2, <2>1, <2>2, <2>3 DEF RequestStep, DecideCancel, WriteCancel,
              DecideTransition, StartErasure, WriteErasure
  <1>3. ASSUME NEW w \in Workers, HookStep(w) \/ LoseTask(w)
        PROVE  NumberedInv'
    <2>1. ASSUME PromoteNext(w)
          PROVE  NumberedInv'
      <3>1. CASE UNCHANGED queue
        BY <3>1, NumbersUntouched
      <3>2. CASE ~UNCHANGED queue
        <4> DEFINE stale == Waiting \cap Active
                   dropped == {s \in stale :
                     \A t \in Waiting \ stale : position[s] < position[t]}
                   Left(promoted) == [s \in Students |->
                     IF s \in promoted THEN "promoted"
                     ELSE IF s \in dropped THEN "removed" ELSE entry[s]]
        <4>1. LeaveQueue(Left({})) \/ \E s \in Waiting : LeaveQueue(Left({s}))
          BY <2>1, <3>2, Zenon DEF PromoteNext, FirstIn
        <4>2. ASSUME NEW promoted, LeaveQueue(Left(promoted))
              PROVE  NumberedInv'
          <5>1. \A s \in Students :
                  Left(promoted)[s] = "waiting" => entry[s] = "waiting"
            OBVIOUS
          <5> HIDE DEF Left
          <5> QED BY <4>2, <5>1, LeaveQueueNumbers
        <4> HIDE DEF Left
        <4> QED BY <4>1, <4>2
      <3> QED BY <3>1, <3>2
    <2>2. CASE UNCHANGED <<entry, position>>
      BY <2>2, NumbersUntouched
    <2> QED BY <1>3, <2>1, <2>2 DEF HookStep, ReadFreedSpot, BroadcastSpot, LoseTask
  <1>4. ASSUME ClassStep
        PROVE  NumberedInv'
    <2>1. ASSUME NEW to \in {"expired", "removed"}, CloseQueue(to)
          PROVE  NumberedInv'
      BY <2>1, ClosedQueue, NobodyNumbered
    <2>2. CASE UNCHANGED queue
      BY <2>2, NumbersUntouched
    <2> QED BY <1>4, <2>1, <2>2
            DEF ClassStep, StartSweep, KeepClass, AutoCancelClass, CancelClass, CallOff,
                TeacherComplete, CompleteSweep, EraseTeacher, CompleteClass, MoveStart,
                EditSeats
  <1>5. ASSUME Reconcile \/ Tick \/ UNCHANGED vars
        PROVE  NumberedInv'
    BY <1>5, NumbersUntouched DEF Reconcile, Tick, vars
  <1> QED BY <1>1, <1>2, <1>3, <1>4, <1>5 DEF Next

LEMMA NumbersHold == Spec => []NumberedInv
  <1>1. Init => NumberedInv
    <2> SUFFICES ASSUME Init PROVE NumberedInv
      OBVIOUS
    <2>1. Waiting = {}
      BY DEF Init, Waiting
    <2>2. 1 .. 0 = {}
      OBVIOUS
    <2> QED BY <2>1, <2>2, FS_EmptySet DEF NumberedInv, DistinctPositions, QueueNumbered
  <1> QED BY <1>1, NumberedStep, TypeCorrect, PTL DEF Spec

\* The waiting entries are numbered 1 to n, whoever left and in which order.
THEOREM QueueIsNumbered == Spec => []QueueNumbered
  <1> QED BY NumbersHold, PTL DEF NumberedInv

\* The class, its bookings and its queue agree with each other.
THEOREM ClassAgrees == Spec => []Consistent
  <1> QED BY TypeCorrect, NoQueueUnlessOpen, NoSeatAndQueue, TermsLocked, PTL DEF Consistent

-------------------------------------------------------------------------------
(* Every step, as seen by one booking and by the class.                    *)

\* A booking is seated, marked, cancelled, or cancelled with its student's account.
BookingMove(s) ==
  \/ booking'[s] = booking[s]
  \/ booking'[s] = "registered" /\ ~cancelled /\ status \in {"open", "in_progress"}
  \/ /\ booking'[s] \in {"attended", "no_show", "late_cancel"}
     /\ booking[s] \notin {"none", "cancelled"}
     /\ ~cancelled
     /\ booking[s] = "late_cancel" => status # "open"
  \/ /\ booking'[s] \in {"cancelled", "late_cancel"}
     /\ booking[s] \notin {"cancelled", "late_cancel"}
     /\ status # "completed"
  \/ booking'[s] = "cancelled" /\ booking[s] = "registered" /\ s \in erased'

\* The class moves on, is called off or edited, each under its own condition, and
\* its payments are made by the step that completes it.
ClassMove ==
  /\ calledOffBy' # calledOffBy =>
       ~cancelled /\ (calledOffBy' = "teacher" \/ (calledOffBy' = "check" /\ ~decided))
  /\ status' # status => ~cancelled /\ status # "completed"
  /\ maxStudents' # maxStudents \/ now' < now => ~settingsLocked
  /\ erased \subseteq erased'
  /\ IF status' = "completed" /\ status # "completed"
     THEN /\ UNCHANGED <<bookings, erased>>
          /\ payments' = IF Tiered THEN payments \cup Charged ELSE payments
     ELSE UNCHANGED payments

LEMMA BookingMoves == TypeOK /\ [Next]_vars => \A t \in Students : BookingMove(t)
  <1> SUFFICES ASSUME TypeOK, [Next]_vars PROVE \A t \in Students : BookingMove(t)
    OBVIOUS
  <1> DEFINE Goal == \A t \in Students : BookingMove(t)
  <1>0. UNCHANGED booking => Goal
    BY DEF BookingMove
  <1>1. ASSUME NEW s \in Students, StudentStep(s)
        PROVE  Goal
    <2>1. ASSUME NEW by \in {"self", "teacher"}, Book(s, by)
          PROVE  Goal
      BY <2>1 DEF Book, ActivateRegistration, BookingMove, TypeOK
    <2>2. ASSUME ClaimSpot(s)
          PROVE  Goal
      BY <2>2 DEF ClaimSpot, ActivateRegistration, BookingMove, TypeOK
    <2>3. ASSUME NEW to \in {"attended", "no_show", "late_cancel"}, MarkAttendance(s, to)
          PROVE  Goal
      BY <2>3 DEF MarkAttendance, BookingMove, TypeOK
    <2>4. ASSUME JoinWaitlist(s) \/ LeaveWaitlist(s)
          PROVE  Goal
      BY <2>4, <1>0 DEF JoinWaitlist, LeaveWaitlist
    <2> QED BY <1>1, <2>1, <2>2, <2>3, <2>4 DEF StudentStep
  <1>2. ASSUME NEW w \in Handlers, RequestStep(w)
        PROVE  Goal
    <2> w \in Workers
      BY DEF Workers
    <2>1. ASSUME WriteCancel(w)
          PROVE  Goal
      BY <2>1, TaskFields DEF WriteCancel, CancelMisses, CancelWrite, BookingMove, TypeOK
    <2>2. ASSUME NEW s \in Students, EraseQueued(w, s)
          PROVE  Goal
      BY <2>2 DEF EraseQueued, Upcoming, BookingMove, TypeOK
    <2>3. ASSUME WriteErasure(w)
          PROVE  Goal
      BY <2>3, TaskFields DEF WriteErasure, BookingMove, TypeOK
    <2>4. CASE UNCHANGED booking
      BY <2>4, <1>0
    <2> QED BY <1>2, <2>1, <2>2, <2>3, <2>4
            DEF RequestStep, DecideCancel, DecideTransition, WriteTransition, StartErasure
  <1>3. ASSUME NEW w \in Workers, HookStep(w) \/ LoseTask(w)
        PROVE  Goal
    <2>1. ASSUME PromoteNext(w)
          PROVE  Goal
      BY <2>1 DEF PromoteNext, ActivateRegistration, BookingMove, TypeOK
    <2>2. CASE UNCHANGED booking
      BY <2>2, <1>0
    <2> QED BY <1>3, <2>1, <2>2 DEF HookStep, ReadFreedSpot, BroadcastSpot, LoseTask
  <1>4. ASSUME Reconcile \/ ClassStep \/ Tick \/ UNCHANGED vars
        PROVE  Goal
    <2>1. UNCHANGED booking
      BY <1>4 DEF Reconcile, Tick, vars, ClassStep, StartSweep, KeepClass,
                  AutoCancelClass, CancelClass, CallOff, TeacherComplete, CompleteSweep,
                  EraseTeacher, CompleteClass, MoveStart, EditSeats
    <2> QED BY <2>1, <1>0
  <1> QED BY <1>1, <1>2, <1>3, <1>4 DEF Next

LEMMA ClassMoves == TypeOK /\ [Next]_vars => ClassMove
  <1> SUFFICES ASSUME TypeOK, [Next]_vars PROVE ClassMove
    OBVIOUS
  <1>n. now \in Int
    BY DEF TypeOK, Phases, BeforeDeadline, AutoFinish
  <1>0. /\ UNCHANGED <<now, status, calledOffBy, maxStudents, payments>>
        /\ erased \subseteq erased'
        => ClassMove
    BY <1>n DEF ClassMove
  <1>1. ASSUME NEW s \in Students, StudentStep(s)
        PROVE  ClassMove
    BY <1>0, <1>1 DEF StudentStep, Book, JoinWaitlist, LeaveWaitlist, ClaimSpot,
                      MarkAttendance, ClassMove
  <1>2. ASSUME NEW w \in Handlers, RequestStep(w)
        PROVE  ClassMove
    <2>1. ASSUME WriteTransition(w)
          PROVE  ClassMove
      <3> w \in Workers
        BY DEF Workers
      <3>1. task[w].to # "completed"
        BY <2>1, TaskFields DEF WriteTransition, TypeOK
      <3> QED BY <1>n, <1>0, <2>1, <3>1
              DEF WriteTransition, Moves, ValidTransitions, ClassMove
    <2>2. CASE UNCHANGED <<now, status, calledOffBy, maxStudents, payments>> /\ erased \subseteq erased'
      BY <2>2, <1>0
    <2> QED BY <1>2, <2>1, <2>2 DEF RequestStep, DecideCancel, WriteCancel, CancelWrite,
              DecideTransition, EraseQueued, StartErasure, WriteErasure
  <1>3. ASSUME NEW w \in Workers, HookStep(w) \/ LoseTask(w)
        PROVE  ClassMove
    BY <1>0, <1>3 DEF HookStep, ReadFreedSpot, PromoteNext, BroadcastSpot, LoseTask
  <1>4. ASSUME ClassStep
        PROVE  ClassMove
    <2>1. ASSUME NEW opensAt, CompleteClass(opensAt)
          PROVE  ClassMove
      BY <1>n, <2>1 DEF CompleteClass, ClassMove
    <2>2. ASSUME NEW cancellable, CallOff(cancellable)
          PROVE  ClassMove
      BY <1>n, <2>2 DEF CallOff, ClassMove
    <2>3. ASSUME StartSweep
          PROVE  ClassMove
      BY <1>n, <2>3 DEF StartSweep, ClassMove
    <2>4. ASSUME NEW at, KeepClass(at) \/ AutoCancelClass(at)
          PROVE  ClassMove
      BY <1>n, <2>4 DEF KeepClass, AutoCancelClass, CancelCheckDue, ClassMove
    <2>5. ASSUME NEW to \in Phases, MoveStart(to)
          PROVE  ClassMove
      BY <1>n, <2>5 DEF MoveStart, Editable, ClassMove
    <2>6. ASSUME NEW seats \in SeatLimits, EditSeats(seats)
          PROVE  ClassMove
      BY <1>n, <2>6 DEF EditSeats, Editable, ClassMove
    <2> QED BY <1>4, <2>1, <2>2, <2>3, <2>4, <2>5, <2>6
            DEF ClassStep, CancelClass, TeacherComplete, CompleteSweep, EraseTeacher
  <1>5. ASSUME Reconcile \/ Tick \/ UNCHANGED vars
        PROVE  ClassMove
    BY <1>n, <1>0, <1>5 DEF Reconcile, Tick, vars, ClassMove
  <1> QED BY <1>1, <1>2, <1>3, <1>4, <1>5 DEF Next

-------------------------------------------------------------------------------
(* What a step may never do.                                               *)

\* Two cancels of one booking that race each other never turn a free cancel into
\* a charged one, or back.
THEOREM CancelsAreFinal == Spec => CancelIsFinal
  <1>1. TypeOK /\ [Next]_vars =>
          [\A s \in Students :
             /\ booking[s] = "cancelled" => booking'[s] \in {"cancelled", "registered"}
             /\ booking[s] = "late_cancel" => booking'[s] # "cancelled"]_vars
    BY BookingMoves DEF BookingMove
  <1> QED BY <1>1, TypeCorrect, PTL DEF Spec, CancelIsFinal

\* The capacity and the start somebody booked on stay.
THEOREM BookedTermsStay == Spec => TermsKeptOnceBooked
  <1>1. TypeOK /\ BookedTermsLocked /\ [Next]_vars =>
          [(\E s \in Students : booking[s] # "none")
             => maxStudents' = maxStudents /\ now' >= now]_vars
    <2> SUFFICES ASSUME TypeOK, BookedTermsLocked, [Next]_vars,
                        \E s \in Students : booking[s] # "none", ~UNCHANGED vars
                 PROVE  maxStudents' = maxStudents /\ now' >= now
      OBVIOUS
    <2>1. ClassMove /\ settingsLocked
      BY ClassMoves DEF BookedTermsLocked
    <2>2. maxStudents' = maxStudents /\ ~(now' < now)
      BY <2>1 DEF ClassMove
    <2>3. now \in Int
      BY DEF TypeOK, Phases, BeforeDeadline, AutoFinish
    <2>4. now' \in Int
      BY TypeStep DEF TypeOK, Phases, BeforeDeadline, AutoFinish
    <2> QED BY <2>2, <2>3, <2>4
  <1> QED BY <1>1, TypeCorrect, TermsLocked, PTL DEF Spec, TermsKeptOnceBooked

\* A class called off stays as it was called off.
THEOREM CalledOffStays == Spec => CalledOffIsFinal
  <1>1. TypeOK /\ [Next]_vars =>
          [cancelled =>
             /\ cancelled'
             /\ status' = status
             /\ Active' \subseteq Active
             /\ payments' = payments]_vars
    <2> SUFFICES ASSUME TypeOK, [Next]_vars, cancelled
                 PROVE  cancelled' /\ status' = status /\ Active' \subseteq Active
                        /\ payments' = payments
      OBVIOUS
    <2>1. calledOffBy' = calledOffBy /\ status' = status /\ payments' = payments
      BY ClassMoves DEF ClassMove
    <2>2. Active' \subseteq Active
      BY BookingMoves DEF BookingMove, Active, ActiveStatuses
    <2> QED BY <2>1, <2>2 DEF cancelled
  <1> QED BY <1>1, TypeCorrect, PTL DEF Spec, CalledOffIsFinal

\* The check decides once: a class it kept is called off by its teacher only.
THEOREM KeptOnce == Spec => KeptIsNotAutoCancelled
  <1>1. TypeOK /\ [Next]_vars =>
          [decided /\ calledOffBy' # calledOffBy => calledOffBy' = "teacher"]_vars
    BY ClassMoves DEF ClassMove
  <1> QED BY <1>1, TypeCorrect, PTL DEF Spec, KeptIsNotAutoCancelled

-------------------------------------------------------------------------------
(* The bill.                                                               *)

\* A completed class stays completed, and of the bookings that were charged none
\* but an erased student's ceases to be.
BillStands ==
  /\ status' = "completed"
  /\ payments' = payments
  /\ erased \subseteq erased'
  /\ \A s \in Students \ erased' :
       booking'[s] \in ChargedStatuses <=> booking[s] \in ChargedStatuses

LEMMA BillStaysPut == TypeOK /\ [Next]_vars /\ status = "completed" => BillStands
  <1> SUFFICES ASSUME TypeOK, [Next]_vars, status = "completed" PROVE BillStands
    OBVIOUS
  <1>1. status' = "completed" /\ payments' = payments /\ erased \subseteq erased'
    BY ClassMoves DEF ClassMove
  <1>2. \A s \in Students \ erased' :
          booking'[s] \in ChargedStatuses <=> booking[s] \in ChargedStatuses
    BY BookingMoves DEF BookingMove, ChargedStatuses, ActiveStatuses, BookingStatuses,
                        TypeOK
  <1> QED BY <1>1, <1>2 DEF BillStands

\* A completed class stays as it was billed.
THEOREM BillStays == Spec => BillIsFinal
  <1>1. TypeOK /\ [Next]_vars =>
          [status = "completed" =>
             /\ status' = "completed"
             /\ payments' = payments
             /\ Charged \ erased' \subseteq Charged']_vars
    BY BillStaysPut DEF BillStands, Charged
  <1> QED BY <1>1, TypeCorrect, PTL DEF Spec, BillIsFinal

\* No booking is billed before the class completes.
Unbilled == status # "completed" => payments = {}

BillInv == Unbilled /\ BillMatchesBookings

LEMMA BillStep == TypeOK /\ BillInv /\ [Next]_vars => BillInv'
  <1> SUFFICES ASSUME TypeOK, BillInv, [Next]_vars PROVE BillInv'
    OBVIOUS
  <1>1. CASE status = "completed"
    <2>1. BillStands
      BY <1>1, BillStaysPut
    <2>2. Tiered => payments \ erased = Charged \ erased
      BY <1>1 DEF BillInv, BillMatchesBookings
    <2>3. Tiered => (payments \ erased)' = (Charged \ erased)'
      BY <2>1, <2>2 DEF BillStands, Charged, TypeOK
    <2> QED BY <2>1, <2>3 DEF BillStands, BillInv, Unbilled, BillMatchesBookings
  <1>2. CASE status # "completed" /\ status' = "completed"
    <2>1. /\ Tiered => payments' = Charged
          /\ Charged' = Charged
      BY <1>2, ClassMoves DEF ClassMove, BillInv, Unbilled, Charged
    <2> QED BY <1>2, <2>1 DEF BillInv, Unbilled, BillMatchesBookings
  <1>3. CASE status # "completed" /\ status' # "completed"
    BY <1>3, ClassMoves DEF ClassMove, BillInv, Unbilled, BillMatchesBookings
  <1> QED BY <1>1, <1>2, <1>3

\* A completed tiered class has billed exactly the bookings that are charged.
THEOREM BillMatches == Spec => []BillMatchesBookings
  <1>1. Init => BillInv
    BY DEF Init, BillInv, Unbilled, BillMatchesBookings
  <1>2. Spec => []BillInv
    BY <1>1, BillStep, TypeCorrect, PTL DEF Spec
  <1> QED BY <1>2, PTL DEF BillInv

-------------------------------------------------------------------------------
(* Erased students.                                                        *)

\* An erased student is out of the queue and of every upcoming seat, and so is one
\* whose erasure is under way, but for the booking its UPDATE has still to cancel.
ErasedOut == \A s \in erased : entry[s] = "none" /\ ~Upcoming(s)

ErasingOut ==
  \A w \in Workers : task[w].step = "erase" =>
    /\ entry[task[w].student] = "none"
    /\ ~task[w].booked => ~Upcoming(task[w].student)

ErasureInv == ErasedOut /\ ErasingOut

\* A step that leaves the erasures as they are, and gives nothing to a student
\* whose account is erased or is being erased.
LEMMA ErasuresKept ==
  ASSUME TypeOK, ErasureInv, UNCHANGED erased,
         \A w \in Workers : task'[w].step = "erase" => task'[w] = task[w],
         \A s \in Students : ~LiveStudent(s) /\ entry[s] = "none" =>
           entry'[s] = "none" /\ (Upcoming(s)' => Upcoming(s))
  PROVE  ErasureInv'
  <1>1. ErasedOut'
    BY DEF ErasureInv, ErasedOut, LiveStudent, TypeOK
  <1>2. ASSUME NEW w \in Workers, task'[w].step = "erase"
        PROVE  (/\ entry[task[w].student] = "none"
                /\ ~task[w].booked => ~Upcoming(task[w].student))'
    <2>1. task[w] \in Tasks /\ task'[w] = task[w] /\ task[w].step = "erase"
      BY <1>2 DEF TypeOK
    <2>2. task[w].student \in Students
      BY <2>1, TaskFields
    <2>3. ~LiveStudent(task[w].student)
      BY <2>1 DEF LiveStudent
    <2>4. entry[task[w].student] = "none" /\ (~task[w].booked => ~Upcoming(task[w].student))
      BY <2>1 DEF ErasureInv, ErasingOut
    <2> QED BY <2>1, <2>2, <2>3, <2>4 DEF Upcoming
  <1> QED BY <1>1, <1>2 DEF ErasureInv, ErasingOut

LEMMA ErasureStep == TypeOK /\ ErasureInv /\ [Next]_vars => ErasureInv'
  <1> SUFFICES ASSUME TypeOK, ErasureInv, [Next]_vars PROVE ErasureInv'
    OBVIOUS
  <1>1. ASSUME NEW s \in Students, StudentStep(s)
        PROVE  ErasureInv'
    <2>1. ASSUME NEW by \in {"self", "teacher"}, Book(s, by)
          PROVE  ErasureInv'
      <3>1. LiveStudent(s) /\ UNCHANGED <<status, calledOffBy, task, erased>>
        BY <2>1 DEF Book
      <3>2. \A t \in Students : t # s => booking'[t] = booking[t] /\ entry'[t] = entry[t]
        BY <2>1 DEF Book, ActivateRegistration, LeaveQueue, TypeOK
      <3> QED BY <3>1, <3>2, ErasuresKept DEF Upcoming, cancelled
    <2>2. ASSUME JoinWaitlist(s)
          PROVE  ErasureInv'
      BY <2>2, ErasuresKept DEF JoinWaitlist, Upcoming, cancelled, TypeOK
    <2>3. ASSUME LeaveWaitlist(s)
          PROVE  ErasureInv'
      BY <2>3, ErasuresKept DEF LeaveWaitlist, LeaveQueue, Waiting, Upcoming, cancelled,
                                TypeOK
    <2>4. ASSUME ClaimSpot(s)
          PROVE  ErasureInv'
      <3>1. entry[s] = "waiting" /\ UNCHANGED <<status, calledOffBy, task, erased>>
        BY <2>4 DEF ClaimSpot, Waiting
      <3>2. \A t \in Students : t # s => booking'[t] = booking[t] /\ entry'[t] = entry[t]
        BY <2>4 DEF ClaimSpot, ActivateRegistration, LeaveQueue, TypeOK
      <3> QED BY <3>1, <3>2, ErasuresKept DEF Upcoming, cancelled
    <2>5. ASSUME NEW to \in {"attended", "no_show", "late_cancel"}, MarkAttendance(s, to)
          PROVE  ErasureInv'
      BY <2>5, ErasuresKept DEF MarkAttendance, Upcoming, cancelled, TypeOK
    <2> QED BY <1>1, <2>1, <2>2, <2>3, <2>4, <2>5 DEF StudentStep
  <1>2. ASSUME NEW w \in Handlers, RequestStep(w)
        PROVE  ErasureInv'
    <2> w \in Workers
      BY DEF Workers
    <2>1. ASSUME NEW s \in Students, NEW by \in {"self", "teacher"}, DecideCancel(w, s, by)
          PROVE  ErasureInv'
      BY <2>1, ErasuresKept DEF DecideCancel, Upcoming, cancelled, TypeOK
    <2>2. ASSUME WriteCancel(w)
          PROVE  ErasureInv'
      <3>1. \A t \in Students : booking'[t] = "registered" => booking[t] = "registered"
        BY <2>2, TaskFields DEF WriteCancel, CancelWrite, TypeOK
      <3>2. \A v \in Workers : task'[v].step = "erase" => task'[v] = task[v]
        BY <2>2 DEF WriteCancel, CancelWrite, Finish, Idle, TypeOK
      <3> QED BY <2>2, <3>1, <3>2, ErasuresKept DEF WriteCancel, Upcoming, cancelled
    <2>3. ASSUME NEW to \in {"open", "in_progress"}, DecideTransition(w, to)
          PROVE  ErasureInv'
      BY <2>3, ErasuresKept DEF DecideTransition, Upcoming, cancelled, TypeOK
    <2>4. ASSUME WriteTransition(w)
          PROVE  ErasureInv'
      <3>1. \A t \in Students : entry[t] = "none" => entry'[t] = "none"
        BY <2>4 DEF WriteTransition, CloseQueue, Waiting
      <3>2. status' \in {"draft", "open"} => status \in {"draft", "open"}
        BY <2>4, TaskFields DEF WriteTransition, Moves, ValidTransitions, ClassStatuses,
                                TypeOK
      <3>3. \A v \in Workers : task'[v].step = "erase" => task'[v] = task[v]
        BY <2>4 DEF WriteTransition, Finish, Idle, TypeOK
      <3> QED BY <2>4, <3>1, <3>2, <3>3, ErasuresKept
              DEF WriteTransition, Upcoming, cancelled
    <2>5. ASSUME NEW s \in Students, EraseQueued(w, s)
          PROVE  ErasureInv'
      <3>1. entry'[s] = "none" /\ ~Upcoming(s)'
        BY <2>5 DEF EraseQueued, LeaveQueue, Upcoming, cancelled, TypeOK
      <3>2. \A t \in Students : t # s => booking'[t] = booking[t] /\ entry'[t] = entry[t]
        BY <2>5 DEF EraseQueued, LeaveQueue, TypeOK
      <3>3. UNCHANGED <<status, calledOffBy>> /\ erased' = erased \cup {s}
        BY <2>5 DEF EraseQueued
      <3>4. \A v \in Workers : task'[v].step = "erase" => task'[v] = task[v]
        BY <2>5 DEF EraseQueued, TypeOK
      <3>5. ErasedOut'
        BY <3>1, <3>2, <3>3 DEF ErasureInv, ErasedOut, Upcoming, cancelled, TypeOK
      <3>6. ErasingOut'
        BY <3>1, <3>2, <3>3, <3>4, TaskFields DEF ErasureInv, ErasingOut, Upcoming,
                                                  cancelled, TypeOK
      <3> QED BY <3>5, <3>6 DEF ErasureInv
    <2>6. ASSUME NEW s \in Students, StartErasure(w, s)
          PROVE  ErasureInv'
      BY <2>6 DEF StartErasure, ErasureInv, ErasedOut, ErasingOut, Upcoming, cancelled,
                  TypeOK
    <2>7. ASSUME WriteErasure(w)
          PROVE  ErasureInv'
      <3> DEFINE s == task[w].student
      <3>1. s \in Students /\ entry[s] = "none" /\ (~task[w].booked => ~Upcoming(s))
        BY <2>7, TaskFields DEF WriteErasure, ErasureInv, ErasingOut, TypeOK
      <3>2. \A t \in Students : booking'[t] = "registered" => booking[t] = "registered"
        BY <2>7, <3>1 DEF WriteErasure, TypeOK
      <3>3. booking'[s] = "registered" => ~task[w].booked
        BY <2>7, <3>1 DEF WriteErasure, TypeOK
      <3>4. UNCHANGED <<status, calledOffBy, entry>> /\ erased' = erased \cup {s}
        BY <2>7 DEF WriteErasure
      <3>5. \A v \in Workers : task'[v].step = "erase" => task'[v] = task[v]
        BY <2>7 DEF WriteErasure, Idle, TypeOK
      <3> HIDE DEF s
      <3>6. ErasedOut'
        BY <3>1, <3>2, <3>3, <3>4 DEF ErasureInv, ErasedOut, Upcoming, cancelled, TypeOK
      <3>7. ErasingOut'
        BY <3>2, <3>4, <3>5, TaskFields DEF ErasureInv, ErasingOut, Upcoming, cancelled,
                                            TypeOK
      <3> QED BY <3>6, <3>7 DEF ErasureInv
    <2> QED BY <1>2, <2>1, <2>2, <2>3, <2>4, <2>5, <2>6, <2>7 DEF RequestStep
  <1>3. ASSUME NEW w \in Workers, HookStep(w) \/ LoseTask(w)
        PROVE  ErasureInv'
    <2>1. \A v \in Workers : task'[v].step = "erase" => task'[v] = task[v]
      <3>1. \/ task' = [task EXCEPT ![w] = Idle]
            \/ task' = [task EXCEPT ![w] = [step |-> "act", at |-> now]]
        BY <1>3 DEF HookStep, ReadFreedSpot, PromoteNext, BroadcastSpot, LoseTask, Finish
      <3> QED BY <3>1 DEF Idle, TypeOK
    <2>2. ASSUME PromoteNext(w)
          PROVE  ErasureInv'
      <3>1. \A t \in Students : entry[t] = "none" =>
              entry'[t] = "none" /\ booking'[t] = booking[t]
        BY <2>2 DEF PromoteNext, FirstIn, ActivateRegistration, LeaveQueue, Waiting, TypeOK
      <3> QED BY <2>1, <2>2, <3>1, ErasuresKept DEF PromoteNext, Upcoming, cancelled
    <2>3. CASE UNCHANGED <<status, calledOffBy, booking, entry, erased>>
      BY <2>1, <2>3, ErasuresKept DEF Upcoming, cancelled
    <2> QED BY <1>3, <2>2, <2>3 DEF HookStep, ReadFreedSpot, BroadcastSpot, LoseTask
  <1>4. ASSUME Reconcile
        PROVE  ErasureInv'
    BY <1>4, ErasuresKept DEF Reconcile, Upcoming, cancelled, TypeOK
  <1>5. ASSUME ClassStep
        PROVE  ErasureInv'
    <2>1. UNCHANGED <<booking, erased, task>>
      BY <1>5 DEF ClassStep, StartSweep, KeepClass, AutoCancelClass, CancelClass, CallOff,
                  TeacherComplete, CompleteSweep, EraseTeacher, CompleteClass, MoveStart,
                  EditSeats
    <2>2. \A t \in Students : entry[t] = "none" => entry'[t] = "none"
      BY <1>5 DEF ClassStep, StartSweep, KeepClass, AutoCancelClass, CancelClass, CallOff,
                  TeacherComplete, CompleteSweep, EraseTeacher, CompleteClass, MoveStart,
                  EditSeats, CloseQueue, Waiting
    <2>3. /\ status' \in {"draft", "open"} => status \in {"draft", "open"}
          /\ ~cancelled' => ~cancelled
      BY <1>5 DEF ClassStep, StartSweep, KeepClass, AutoCancelClass, CancelClass, CallOff,
                  TeacherComplete, CompleteSweep, EraseTeacher, CompleteClass, MoveStart,
                  EditSeats, CancelCheckDue, Editable, cancelled
    <2> QED BY <2>1, <2>2, <2>3, ErasuresKept DEF Upcoming
  <1>6. ASSUME Tick \/ UNCHANGED vars
        PROVE  ErasureInv'
    BY <1>6, ErasuresKept DEF Tick, vars, Upcoming, cancelled
  <1> QED BY <1>1, <1>2, <1>3, <1>4, <1>5, <1>6 DEF Next

LEMMA ErasuresHold == Spec => []ErasureInv
  <1>1. Init => ErasureInv
    BY DEF Init, ErasureInv, ErasedOut, ErasingOut, Idle
  <1> QED BY <1>1, ErasureStep, TypeCorrect, PTL DEF Spec

\* An erased account keeps no place in the queue and no seat still to come.
THEOREM ErasedAreOut == Spec => []ErasedHoldNoSeat
  <1>1. ErasureInv => ErasedHoldNoSeat
    BY DEF ErasureInv, ErasedOut, ErasedHoldNoSeat, Upcoming
  <1> QED BY <1>1, ErasuresHold, PTL

\* What was decided about a class stays.
THEOREM DecisionsStand == Spec => OutcomesAreFinal
  <1> QED BY CalledOffStays, KeptOnce, BillStays DEF OutcomesAreFinal

-------------------------------------------------------------------------------
(* ClassBooking implements PromotionQueue.                                 *)

\* The line that the abstract specification tells of is one: first come, first
\* in it, with nobody between two others or beside one.
THEOREM LineIsOne == Abstract!Spec => []Abstract!InLine
  <1>1. Abstract!Init => Abstract!InLine
    BY DEF Abstract!Init, Abstract!InLine
  <1>2. Abstract!InLine /\ [Abstract!Next]_Abstract!vars => Abstract!InLine'
    <2> SUFFICES ASSUME Abstract!InLine, [Abstract!Next]_Abstract!vars
                 PROVE  Abstract!InLine'
      OBVIOUS
    <2>1. CASE UNCHANGED <<Waiting, Ahead>>
      BY <2>1 DEF Abstract!InLine
    <2>2. CASE Waiting' = {} /\ Ahead' = {}
      BY <2>2 DEF Abstract!InLine
    <2>3. ASSUME NEW s \in Students, Abstract!LeaveLine(s)
          PROVE  Abstract!InLine'
      BY <2>3 DEF Abstract!LeaveLine, Abstract!InLine
    <2>4. ASSUME NEW s \in Students, Abstract!Join(s)
          PROVE  Abstract!InLine'
      BY <2>4 DEF Abstract!Join, Abstract!InLine
    <2> QED BY <2>1, <2>2, <2>3, <2>4
            DEF Abstract!Next, Abstract!vars, Abstract!Promote, Abstract!TakeSeat,
                Abstract!GiveUpSeat, Abstract!Leave, Abstract!Erase, Abstract!Close,
                Abstract!ChangeSeats
  <1> QED BY <1>1, <1>2, PTL DEF Abstract!Spec

\* Renumbering keeps the order.
LEMMA RenumberedOrder ==
  ASSUME TypeOK, NEW W \in SUBSET Students, NEW s \in W, NEW t \in W
  PROVE  Renumbered(W)[s] < Renumbered(W)[t] <=> position[s] < position[t]
  <1> DEFINE UpTo(u) == {v \in W : position[v] <= position[u]}
  <1>1. \A u \in W : position[u] \in Nat
    BY DEF TypeOK
  <1>2. \A u \in W : UpTo(u) \in SUBSET Students /\ Renumbered(W)[u] = Cardinality(UpTo(u))
    BY DEF Renumbered
  <1>3. \A u \in W : IsFiniteSet(UpTo(u)) /\ Cardinality(UpTo(u)) \in Nat
    BY <1>2, CountsAreNumbers
  <1>4. CASE position[s] < position[t]
    <2>1. UpTo(s) \in SUBSET UpTo(t) /\ t \in UpTo(t) /\ t \notin UpTo(s)
      BY <1>1, <1>4
    <2>2. /\ Cardinality(UpTo(s)) <= Cardinality(UpTo(t))
          /\ Cardinality(UpTo(s)) # Cardinality(UpTo(t))
      BY <1>3, <2>1, FS_Subset
    <2>3. Cardinality(UpTo(s)) < Cardinality(UpTo(t))
      BY <1>3, <2>2
    <2> HIDE DEF UpTo
    <2> QED BY <1>2, <1>4, <2>3
  <1>5. CASE position[t] <= position[s]
    <2>1. UpTo(t) \in SUBSET UpTo(s)
      BY <1>1, <1>5
    <2>2. Cardinality(UpTo(t)) <= Cardinality(UpTo(s))
      BY <1>3, <2>1, FS_Subset
    <2>3. /\ Cardinality(UpTo(s)) \in Nat /\ Cardinality(UpTo(t)) \in Nat
          /\ position[s] \in Nat /\ position[t] \in Nat
          /\ Renumbered(W)[s] = Cardinality(UpTo(s))
          /\ Renumbered(W)[t] = Cardinality(UpTo(t))
      BY <1>1, <1>2, <1>3
    <2> HIDE DEF UpTo
    <2> QED BY <1>5, <2>2, <2>3
  <1> QED BY <1>1, <1>4, <1>5

\* A student who leaves the queue leaves the line, and the others stay in order.
LEMMA QueueLeft ==
  ASSUME TypeOK, NEW s \in Students, NEW newEntry, LeaveQueue(newEntry),
         newEntry \in [Students -> EntryStatuses],
         \A t \in Students : newEntry[t] = "waiting" <=> entry[t] = "waiting" /\ t # s
  PROVE  Abstract!LeaveLine(s)
  <1> DEFINE W == Waiting \ {s}
  <1>1. W \in SUBSET Students /\ W = {t \in Waiting : newEntry[t] = "waiting"}
    BY DEF Waiting
  <1>2. Waiting' = W /\ position' = Renumbered(W)
    BY <1>1 DEF LeaveQueue, Waiting
  <1>3. \A t, u \in W : position'[t] < position'[u] <=> position[t] < position[u]
    BY <1>1, <1>2, RenumberedOrder
  <1>4. Ahead' = {p \in W \X W : position'[p[1]] < position'[p[2]]}
    BY <1>2 DEF Ahead
  <1>5. Ahead' = {p \in Ahead : s \notin {p[1], p[2]}}
    BY <1>3, <1>4 DEF Ahead
  <1> QED BY <1>2, <1>5 DEF Abstract!LeaveLine

\* A student who is not in the line leaves it as it is.
LEMMA LineUntouched ==
  ASSUME NEW s \in Students, s \notin Waiting, UNCHANGED <<entry, position>>
  PROVE  Abstract!LeaveLine(s)
  BY DEF Abstract!LeaveLine, Waiting, Ahead

\* What the abstract specification does not see.
LEMMA Unseen ==
  ASSUME UNCHANGED <<entry, position, booking, maxStudents>>
  PROVE  UNCHANGED Abstract!vars
  BY DEF Abstract!vars, Waiting, Ahead, Active, Promoted

\* A queue that is closed is an empty line.
LEMMA LineClosed ==
  ASSUME TypeOK, NEW to \in {"expired", "removed"}, CloseQueue(to),
         UNCHANGED <<booking, maxStudents>>
  PROVE  Abstract!Close
  <1>1. Waiting' = {}
    BY ClosedQueue DEF Waiting
  <1>2. UNCHANGED <<Active, Promoted>>
    BY DEF CloseQueue, Active, Promoted, Waiting, TypeOK
  <1> QED BY <1>1, <1>2 DEF Abstract!Close, Ahead

\* The class is full exactly when no seat is free.
LEMMA FullMeansNoSeat == TypeOK => (IsFull <=> ~Abstract!SeatFree)
  <1> SUFFICES ASSUME TypeOK PROVE IsFull <=> ~Abstract!SeatFree
    OBVIOUS
  <1>1. Active \in SUBSET Students
    BY DEF Active
  <1>2. Cardinality(Active) \in Nat /\ maxStudents \in Nat
    BY <1>1, CountsAreNumbers, SeatsAssumption DEF TypeOK
  <1>3. Abstract!Cardinality(Active) = Cardinality(Active)
    BY DEF Abstract!Cardinality, Cardinality
  <1> QED BY <1>2, <1>3 DEF IsFull, Abstract!SeatFree

\* What each step of the class does to the line and the seats.
LEMMA StudentSteps ==
  ASSUME TypeOK, QueueInv, NumberedInv, NEW s \in Students, StudentStep(s)
  PROVE  Abstract!Next \/ UNCHANGED Abstract!vars
  <1>1. ASSUME NEW by \in {"self", "teacher"}, Book(s, by)
        PROVE  Abstract!TakeSeat(s)
    <2>1. s \notin Active /\ Active' = Active \cup {s}
      BY <1>1 DEF Book, ActivateRegistration, Active, ActiveStatuses, TypeOK
    <2>2. Abstract!LeaveLine(s) /\ UNCHANGED Promoted
      <3>1. CASE entry[s] \in ClaimableStatuses
        <4> DEFINE new == [entry EXCEPT ![s] = "claimed"]
        <4>1. LeaveQueue(new)
          BY <1>1, <3>1 DEF Book
        <4>2. new \in [Students -> EntryStatuses]
          BY DEF TypeOK, EntryStatuses
        <4>3. \A t \in Students : new[t] = "waiting" <=> entry[t] = "waiting" /\ t # s
          BY DEF TypeOK
        <4>4. UNCHANGED Promoted
          BY <4>1, <3>1 DEF LeaveQueue, Promoted, ClaimableStatuses, TypeOK
        <4> HIDE DEF new
        <4> QED BY <4>1, <4>2, <4>3, <4>4, QueueLeft
      <3>2. CASE entry[s] \notin ClaimableStatuses
        <4>1. s \notin Waiting /\ UNCHANGED <<entry, position>>
          BY <1>1, <3>2 DEF Book, ClaimableStatuses, Waiting
        <4> QED BY <4>1, LineUntouched DEF Promoted
      <3> QED BY <3>1, <3>2
    <2>3. UNCHANGED maxStudents
      BY <1>1 DEF Book
    <2> QED BY <2>1, <2>2, <2>3 DEF Abstract!TakeSeat
  <1>2. ASSUME JoinWaitlist(s)
        PROVE  Abstract!Join(s)
    <2>1. ~Abstract!SeatFree /\ s \notin Active /\ s \notin Waiting
      BY <1>2, FullMeansNoSeat DEF JoinWaitlist
    <2>2. Waiting' = Waiting \cup {s} /\ UNCHANGED <<Active, maxStudents>>
      BY <1>2 DEF JoinWaitlist, Waiting, Active, TypeOK
    <2>3. Promoted' = Promoted \ {s}
      BY <1>2 DEF JoinWaitlist, Promoted, TypeOK
    <2>4. PICK last \in {position[t] : t \in Waiting} \cup {0} :
            /\ \A t \in Waiting : position[t] <= last
            /\ position' = [position EXCEPT ![s] = last + 1]
      BY <1>2 DEF JoinWaitlist
    <2>5. /\ last \in Nat
          /\ \A t \in Waiting : t \in Students /\ position[t] \in Nat
      BY DEF TypeOK, Waiting
    <2>6. /\ position'[s] = last + 1
          /\ \A t \in Waiting : position'[t] = position[t] /\ position[t] <= last
      BY <2>1, <2>4, <2>5 DEF TypeOK
    <2>7. /\ \A t \in Waiting : position'[t] < position'[s] /\ ~(position'[s] < position'[t])
          /\ ~(position'[s] < position'[s])
      BY <2>5, <2>6
    <2>8. Ahead' = Ahead \cup (Waiting \X {s})
      <3>1. Ahead' = {p \in (Waiting \cup {s}) \X (Waiting \cup {s}) :
                        position'[p[1]] < position'[p[2]]}
        BY <2>2 DEF Ahead
      <3> QED BY <3>1, <2>1, <2>6, <2>7 DEF Ahead
    <2> QED BY <2>1, <2>2, <2>3, <2>8 DEF Abstract!Join
  <1>3. ASSUME LeaveWaitlist(s)
        PROVE  Abstract!Leave(s)
    <2> DEFINE new == [entry EXCEPT ![s] = "removed"]
    <2>1. s \in Waiting /\ LeaveQueue(new) /\ UNCHANGED <<booking, maxStudents>>
      BY <1>3 DEF LeaveWaitlist
    <2>2. new \in [Students -> EntryStatuses]
      BY DEF TypeOK, EntryStatuses
    <2>3. \A t \in Students : new[t] = "waiting" <=> entry[t] = "waiting" /\ t # s
      BY DEF TypeOK
    <2>4. UNCHANGED <<Active, Promoted>>
      BY <2>1 DEF Active, Promoted, LeaveQueue, Waiting, TypeOK
    <2> HIDE DEF new
    <2>5. Abstract!LeaveLine(s)
      BY <2>1, <2>2, <2>3, QueueLeft
    <2> QED BY <2>1, <2>4, <2>5 DEF Abstract!Leave
  <1>4. ASSUME ClaimSpot(s)
        PROVE  Abstract!TakeSeat(s)
    <2> DEFINE new == [entry EXCEPT ![s] = "claimed"]
    <2>1. s \in Waiting /\ s \notin Active /\ LeaveQueue(new) /\ UNCHANGED maxStudents
      BY <1>4 DEF ClaimSpot
    <2>2. new \in [Students -> EntryStatuses]
      BY DEF TypeOK, EntryStatuses
    <2>3. \A t \in Students : new[t] = "waiting" <=> entry[t] = "waiting" /\ t # s
      BY DEF TypeOK
    <2>4. Active' = Active \cup {s}
      BY <1>4 DEF ClaimSpot, ActivateRegistration, Active, ActiveStatuses, TypeOK
    <2>5. UNCHANGED Promoted
      BY <2>1 DEF Promoted, LeaveQueue, Waiting, TypeOK
    <2> HIDE DEF new
    <2>6. Abstract!LeaveLine(s)
      BY <2>1, <2>2, <2>3, QueueLeft
    <2> QED BY <2>1, <2>4, <2>5, <2>6 DEF Abstract!TakeSeat
  <1>5. ASSUME NEW to \in {"attended", "no_show", "late_cancel"}, MarkAttendance(s, to)
        PROVE  Abstract!TakeSeat(s) \/ Abstract!GiveUpSeat(s) \/ UNCHANGED Abstract!vars
    <2>1. UNCHANGED <<entry, position, maxStudents>> /\ booking' = [booking EXCEPT ![s] = to]
      BY <1>5 DEF MarkAttendance
    <2>2. UNCHANGED <<Waiting, Ahead, Promoted, maxStudents>>
      BY <2>1 DEF Waiting, Ahead, Promoted
    <2>3. CASE s \notin Active /\ to \in ActiveStatuses
      <3>1. booking[s] = "late_cancel"
        BY <1>5, <2>3 DEF MarkAttendance, Active, ActiveStatuses, BookingStatuses, TypeOK
      <3>2. s \notin Waiting
        BY <1>5, <3>1 DEF MarkAttendance, QueueInv, QueueOnlyWhileOpen
      <3>3. Active' = Active \cup {s}
        BY <2>1, <2>3 DEF Active, TypeOK
      <3>4. Abstract!LeaveLine(s)
        BY <2>1, <3>2, LineUntouched
      <3> QED BY <2>2, <2>3, <3>3, <3>4 DEF Abstract!TakeSeat
    <2>4. CASE s \in Active /\ to \notin ActiveStatuses
      <3>1. Active' = Active \ {s}
        BY <2>1, <2>4 DEF Active, TypeOK
      <3> QED BY <2>2, <2>4, <3>1 DEF Abstract!GiveUpSeat
    <2>5. CASE s \in Active <=> to \in ActiveStatuses
      <3>1. Active' = Active
        BY <2>1, <2>5 DEF Active, TypeOK
      <3> QED BY <2>2, <3>1 DEF Abstract!vars
    <2> QED BY <2>3, <2>4, <2>5
  <1> QED BY <1>1, <1>2, <1>3, <1>4, <1>5 DEF StudentStep, Abstract!Next

LEMMA RequestSteps ==
  ASSUME TypeOK, ErasureInv, NEW w \in Handlers, RequestStep(w)
  PROVE  Abstract!Next \/ UNCHANGED Abstract!vars
  <1>1. w \in Workers /\ task[w] \in Tasks
    BY DEF Workers, TypeOK
  <1>2. CASE UNCHANGED <<entry, position, booking, maxStudents>>
    BY <1>2, Unseen
  <1>3. ASSUME WriteCancel(w)
        PROVE  Abstract!Next \/ UNCHANGED Abstract!vars
    <2> DEFINE s == task[w].student
    <2>1. CASE CancelMisses(s)
      BY <1>3, <2>1, Unseen DEF WriteCancel
    <2>2. CASE ~CancelMisses(s)
      <3>1. s \in Students /\ task[w].to \notin ActiveStatuses
        BY <1>1, <1>3, TaskFields DEF WriteCancel, ActiveStatuses
      <3>2. /\ UNCHANGED <<entry, position, maxStudents>>
            /\ booking' = [booking EXCEPT ![s] = task[w].to]
        BY <1>3, <2>2 DEF WriteCancel, CancelWrite
      <3> HIDE DEF s
      <3>3. Active' = Active \ {s}
        BY <3>1, <3>2 DEF Active, TypeOK
      <3>4. UNCHANGED <<Waiting, Ahead, Promoted, maxStudents>>
        BY <3>2 DEF Waiting, Ahead, Promoted
      <3>5. Abstract!GiveUpSeat(s) \/ UNCHANGED Abstract!vars
        BY <3>3, <3>4 DEF Abstract!GiveUpSeat, Abstract!vars
      <3> QED BY <3>1, <3>5 DEF Abstract!Next
    <2> QED BY <2>1, <2>2
  <1>4. ASSUME WriteTransition(w)
        PROVE  Abstract!Next \/ UNCHANGED Abstract!vars
    <2>1. UNCHANGED <<booking, maxStudents>>
      BY <1>4 DEF WriteTransition
    <2>2. CASE CloseQueue("expired")
      BY <2>1, <2>2, LineClosed DEF Abstract!Next
    <2>3. CASE UNCHANGED queue
      BY <2>1, <2>3, Unseen
    <2> QED BY <1>4, <2>2, <2>3 DEF WriteTransition
  <1>5. ASSUME NEW s \in Students, EraseQueued(w, s)
        PROVE  Abstract!Erase(s)
    <2> DEFINE new == [entry EXCEPT ![s] = "none"]
    <2>1. LeaveQueue(new) /\ UNCHANGED maxStudents
      BY <1>5 DEF EraseQueued
    <2>2. new \in [Students -> EntryStatuses]
      BY DEF TypeOK, EntryStatuses
    <2>3. \A t \in Students : new[t] = "waiting" <=> entry[t] = "waiting" /\ t # s
      BY DEF TypeOK
    <2>4. Active' \in {Active, Active \ {s}}
      BY <1>5 DEF EraseQueued, Active, ActiveStatuses, TypeOK
    <2>5. Promoted' = Promoted \ {s}
      BY <2>1 DEF Promoted, LeaveQueue, TypeOK
    <2> HIDE DEF new
    <2>6. Abstract!LeaveLine(s)
      BY <2>1, <2>2, <2>3, QueueLeft
    <2> QED BY <2>1, <2>4, <2>5, <2>6 DEF Abstract!Erase
  <1>6. ASSUME WriteErasure(w)
        PROVE  Abstract!Next
    <2> DEFINE s == task[w].student
    <2>1. s \in Students /\ entry[s] = "none"
      BY <1>1, <1>6, TaskFields DEF WriteErasure, ErasureInv, ErasingOut
    <2>2. UNCHANGED <<entry, position, maxStudents>>
      BY <1>6 DEF WriteErasure
    <2>3. booking' = booking \/ booking' = [booking EXCEPT ![s] = "cancelled"]
      BY <1>6 DEF WriteErasure
    <2> HIDE DEF s
    <2>4. Active' \in {Active, Active \ {s}}
      BY <2>1, <2>3 DEF Active, ActiveStatuses, TypeOK
    <2>5. Promoted' = Promoted \ {s}
      BY <2>1, <2>2 DEF Promoted
    <2>6. Abstract!LeaveLine(s)
      <3>1. s \notin Waiting
        BY <2>1 DEF Waiting
      <3> QED BY <2>1, <2>2, <3>1, LineUntouched
    <2>7. Abstract!Erase(s)
      BY <2>2, <2>4, <2>5, <2>6 DEF Abstract!Erase
    <2> QED BY <2>1, <2>7 DEF Abstract!Next
  <1> QED BY <1>2, <1>3, <1>4, <1>5, <1>6 DEF RequestStep, DecideCancel,
            DecideTransition, StartErasure, Abstract!Next

\* The hook's promotion is out of the head of the line: whoever waits without a
\* seat, and that is whoever waits, stands behind the student it picks.
LEMMA HookSteps ==
  ASSUME TypeOK, QueueInv, NumberedInv, NEW w \in Workers, HookStep(w) \/ LoseTask(w)
  PROVE  Abstract!Next \/ UNCHANGED Abstract!vars
  <1>1. CASE UNCHANGED <<entry, position, booking, maxStudents>>
    BY <1>1, Unseen
  <1>2. ASSUME PromoteNext(w), ~UNCHANGED <<bookings, queue>>
        PROVE  Abstract!Next \/ UNCHANGED Abstract!vars
    <2> DEFINE stale == Waiting \cap Active
               dropped == {s \in stale :
                 \A t \in Waiting \ stale : position[s] < position[t]}
               Left(promoted) == [s \in Students |->
                 IF s \in promoted THEN "promoted"
                 ELSE IF s \in dropped THEN "removed" ELSE entry[s]]
    <2>1. stale = {} /\ dropped = {} /\ Waiting \ stale = Waiting
      BY DEF QueueInv, NobodyWaitsWithSeat
    <2>2. /\ ~IsFull /\ UNCHANGED maxStudents
          /\ \/ /\ FirstIn(Waiting \ stale) = {}
                /\ UNCHANGED bookings
                /\ LeaveQueue(Left({}))
             \/ \E s \in FirstIn(Waiting \ stale) :
                  ActivateRegistration(s, FALSE) /\ LeaveQueue(Left({s}))
      BY <1>2, Zenon DEF PromoteNext
    <2>3. \A promoted : Left(promoted)
            = [s \in Students |-> IF s \in promoted THEN "promoted" ELSE entry[s]]
      BY <2>1
    <2> HIDE DEF stale, dropped, Left
    <2>4. CASE UNCHANGED bookings /\ LeaveQueue(Left({})) /\ FirstIn(Waiting) = {}
      <3>1. Left({}) = entry
        BY <2>3 DEF TypeOK
      <3>2. Waiting' = Waiting /\ position' = Renumbered(Waiting) /\ entry' = entry
        BY <2>4, <3>1 DEF LeaveQueue, Waiting
      <3>3. Waiting \in SUBSET Students
        BY DEF Waiting
      <3>4. \A s, t \in Waiting : position'[s] < position'[t] <=> position[s] < position[t]
        BY <3>2, <3>3, RenumberedOrder
      <3>5. Ahead' = Ahead
        BY <3>2, <3>4 DEF Ahead
      <3> QED BY <2>2, <2>4, <3>2, <3>5 DEF Abstract!vars, Active, Promoted
    <2>5. ASSUME NEW s \in FirstIn(Waiting), ActivateRegistration(s, FALSE),
                 LeaveQueue(Left({s}))
          PROVE  Abstract!Promote(s) /\ s \in Students
      <3>1. s \in Waiting /\ s \in Students /\ \A t \in Waiting : position[s] <= position[t]
        BY DEF FirstIn, Waiting
      <3>2. \A t \in Waiting : <<t, s>> \notin Ahead
        BY <3>1 DEF Ahead, Waiting, TypeOK
      <3>3. Left({s}) = [entry EXCEPT ![s] = "promoted"]
        BY <2>3, <3>1 DEF TypeOK
      <3>4. /\ Left({s}) \in [Students -> EntryStatuses]
            /\ \A t \in Students : Left({s})[t] = "waiting" <=> entry[t] = "waiting" /\ t # s
        BY <3>1, <3>3 DEF TypeOK, EntryStatuses
      <3>5. Abstract!LeaveLine(s)
        BY <2>5, <3>1, <3>4, QueueLeft
      <3>6. Active' = Active \cup {s}
        BY <2>5, <3>1 DEF ActivateRegistration, Active, ActiveStatuses, TypeOK
      <3>7. Promoted' = Promoted \cup {s}
        BY <2>5, <3>1, <3>3 DEF LeaveQueue, Promoted, TypeOK
      <3> QED BY <2>2, <3>1, <3>2, <3>5, <3>6, <3>7, FullMeansNoSeat DEF Abstract!Promote
    <2> QED BY <2>1, <2>2, <2>4, <2>5 DEF Abstract!Next
  <1>3. UNCHANGED maxStudents
    BY DEF HookStep, ReadFreedSpot, PromoteNext, BroadcastSpot, LoseTask
  <1>4. UNCHANGED <<entry, position, booking>> \/ PromoteNext(w)
    BY DEF HookStep, ReadFreedSpot, BroadcastSpot, LoseTask
  <1> QED BY <1>1, <1>2, <1>3, <1>4

LEMMA ClassSteps ==
  ASSUME TypeOK, BookedTermsLocked, ClassStep
  PROVE  Abstract!Next \/ UNCHANGED Abstract!vars
  <1>1. ASSUME NEW to \in {"expired", "removed"}, CloseQueue(to),
               UNCHANGED <<booking, maxStudents>>
        PROVE  Abstract!Next
    BY <1>1, LineClosed DEF Abstract!Next
  <1>2. CASE UNCHANGED <<entry, position, booking, maxStudents>>
    BY <1>2, Unseen
  <1>3. ASSUME NEW seatLimit \in SeatLimits, EditSeats(seatLimit)
        PROVE  Abstract!ChangeSeats
    <2>1. \A s \in Students : booking[s] = "none" /\ entry[s] = "none"
      BY <1>3 DEF EditSeats, Editable, BookedTermsLocked
    <2>2. Active = {} /\ Waiting = {}
      BY <2>1 DEF Active, Waiting, ActiveStatuses
    <2>3. UNCHANGED <<Waiting, Ahead, Active, Promoted>> /\ maxStudents' \in Nat
      BY <1>3, SeatsAssumption DEF EditSeats, Waiting, Ahead, Active, Promoted
    <2> QED BY <2>2, <2>3 DEF Abstract!ChangeSeats
  <1> QED BY <1>1, <1>2, <1>3
          DEF ClassStep, StartSweep, KeepClass, AutoCancelClass, CancelClass, CallOff,
              TeacherComplete, CompleteSweep, EraseTeacher, CompleteClass, MoveStart,
              Abstract!Next

\* Whatever joins, leaves, books, is promoted, erased or cancelled, and in whichever
\* order, the positions stored behave as one first-come line, and the hook's
\* promotions come from its head.
THEOREM QueueImplemented == Spec => ImplementsPromotionQueue
  <1>1. Init => Abstract!Init
    BY SeatsAssumption DEF Init, Abstract!Init, Waiting, Ahead, Active, Promoted,
                           ActiveStatuses
  <1>2. TypeOK /\ QueueInv /\ NumberedInv /\ BookedTermsLocked /\ ErasureInv /\ [Next]_vars
          => [Abstract!Next]_Abstract!vars
    <2> SUFFICES ASSUME TypeOK, QueueInv, NumberedInv, BookedTermsLocked, ErasureInv,
                        [Next]_vars
                 PROVE  Abstract!Next \/ UNCHANGED Abstract!vars
      OBVIOUS
    <2>1. CASE Reconcile \/ Tick \/ UNCHANGED vars
      BY <2>1, Unseen DEF Reconcile, Tick, vars
    <2> QED BY <2>1, StudentSteps, RequestSteps, HookSteps, ClassSteps DEF Next
  <1>3. Spec => []ErasureInv
    BY ErasuresHold
  <1> QED BY <1>1, <1>2, <1>3, TypeCorrect, QueueInvariant, NumbersHold, TermsLocked, PTL
          DEF Spec, ImplementsPromotionQueue, Abstract!Spec
===============================================================================
