----------------------------- MODULE MCClassBooking -----------------------------
(***************************************************************************)
(* ClassBooking in the settings TLC checks it in.  A behaviour is about    *)
(* one of them and stays in it:                                            *)
(*                                                                         *)
(*   "class"  a class from any start, two students, a request at a time    *)
(*   "line"   a published class of one seat, from two hours before its     *)
(*            start until the doors open: three students, a request at a   *)
(*            time, everything but edits, erasures and calling it off      *)
(*   "ends"   one student, two requests at a time                          *)
(***************************************************************************)
EXTENDS ClassRefinesQueue, TLC

CONSTANT Settings

VARIABLE setting

mcVars == <<vars, setting>>

Symmetry == Permutations(Students) \cup Permutations(Handlers)

\* The students of whom anything is written or under way.
Involved ==
  {s \in Students : booking[s] # "none" \/ entry[s] # "none" \/ s \in erased}
    \cup {task[w].student : w \in {h \in Workers : task[h].step = "erase"}}

\* The same n of a set's members every time.
Some(n, S) == CHOOSE T \in SUBSET S : Cardinality(T) = n

Within(students, requests) ==
  /\ Involved \subseteq Some(students, Students)
  /\ {h \in Handlers : task[h] # Idle} \subseteq Some(requests, Handlers)

QueueNext ==
  \/ \E s \in Students : StudentStep(s)
  \/ \E w \in Handlers, s \in Students, by \in {"self", "teacher"} :
       DecideCancel(w, s, by)
  \/ \E w \in Handlers : WriteCancel(w)
  \/ \E w \in Workers : HookStep(w) \/ LoseTask(w)
  \/ Reconcile
  \/ Tick

MCInit ==
  /\ setting \in Settings
  /\ Init
  /\ setting = "line" => status = "open" /\ now = PastCheck
  /\ setting # "class" => maxStudents = 1

MCNext ==
  /\ UNCHANGED setting
  /\ CASE setting = "class" -> Next /\ Within(2, 1)'
       [] setting = "line"  -> QueueNext /\ Within(3, 1)' /\ now' < DoorsOpen
       [] setting = "ends"  -> Next /\ Within(1, 2)' /\ maxStudents' = 1

MCSpec == MCInit /\ [][MCNext]_mcVars

FairMCSpec ==
  /\ MCSpec
  /\ ReconcileFairness
  /\ WF_vars(setting = "ends" /\ StartSweep)
  /\ WF_vars(setting = "ends" /\ CompleteSweep)
  /\ WF_vars(setting = "ends" /\ Tick)
  /\ \A w \in Workers : WF_vars(setting = "ends" /\ TaskEnds(w))

\* In the setting where time is sure to pass, a published and booked class ends.
TimedClassEnds == setting = "ends" => BookedClassEnds
===============================================================================
