--------------------------- MODULE EntryGeneration ---------------------------
(* One teacher's schedule rules and the calendar entries made from them: the *)
(* hourly generators (entry-generation.ts, class-generator.ts,               *)
(* studio-class-generator.ts), the verbs that archive, pause, resume, edit   *)
(* and create a rule (rule-lifecycle.ts and the two template lifecycles),    *)
(* and the entries' own doors as far as they move, free or fill a date.      *)
(*                                                                           *)
(* A transaction that reads and later writes is split at its reads: the      *)
(* database runs at READ COMMITTED, so every statement sees what the others  *)
(* committed before it.  lock[r] is the row lock on the rule's template.     *)
EXTENDS RuleCalendar

CONSTANTS Rules, Sweepers, Requests, None,
          Regular,        \* the rules of the class family; the others are studio
          Slots,          \* the weekly slots a rule may be given
          Spots,          \* the places a one-off class may be created at
          ProbeLead,      \* CLASS_GENERATION_INTERVAL_MS
          MaxNow, MaxCalls, MaxFailures    \* bounds on time, teacher calls, failures

VARIABLES rule,           \* ScheduleRule: slot, active, archived, withdrawn (the count)
          entries,        \* CalendarEntry with its Class or StudioClass
          lock,           \* who holds the template row FOR UPDATE
          job,            \* what each sweep and each request is in the middle of
          now, calls, failures,
          doors,          \* which calls are made at all; never changes
          gone,           \* history: entries the archive in force removed, per rule
          untold          \* history: a waiter lost a class that had not been moved to an
                          \* archive unnoticed

vars == <<rule, entries, lock, job, now, calls, failures, doors, gone, untold>>

ASSUME RulesAssumption ==
    /\ Regular \subseteq Rules /\ None \notin Rules \cup Sweepers \cup Requests \cup Slots
    /\ Sweepers \cap Requests = {}
    /\ Slots \subseteq [day : 0..(DaysPerWeek - 1), time : 0..(SlotsPerDay - 1), len : Nat \ {0}]
    /\ Spots \subseteq [date : Dates, time : 0..(SlotsPerDay - 1), len : Nat \ {0}]
    /\ ProbeLead \in Nat /\ MaxNow \in Nat /\ MaxCalls \in Nat /\ MaxFailures \in Nat

Workers == Sweepers \cup Requests
Doors == {"create", "resume", "pause", "edit", "archive", "unarchive", "oneoff", "cancel",
          "restore", "move", "book", "queue", "unbook"}
Entries == [rule : Rules \cup {None}, date : Dates, time : 0..(SlotsPerDay - 1), len : Nat \ {0},
            live : BOOLEAN, seat : {"never", "charged", "freed"}, waiting : BOOLEAN,
            moved : BOOLEAN]      \* moved is a history variable
RuleRows == [slot : Slots \cup {None}, active : BOOLEAN, archived : BOOLEAN,
             withdrawn : Nat \cup {None}]
Jobs == [kind : {"none", "sweep", "resume", "create", "archive"},
         step : {"idle", "choosing", "claiming", "occupants", "weeks", "insert",
                 "locking", "withdrawing", "deleting"},
         rule : Rules \cup {None}, from : Nat, todo : SUBSET Rules,
         slot : Slots \cup {None}, free : SUBSET Dates, held : SUBSET Entries]
Idle == [kind |-> "none", step |-> "idle", rule |-> None, from |-> 0, todo |-> {},
         slot |-> None, free |-> {}, held |-> {}]

\* A sweep is done with its candidate and goes on with the rules it has left.
Finished(j) ==
    IF j.kind = "sweep"
    THEN [Idle EXCEPT !.kind = "sweep", !.step = "choosing", !.from = j.from,
                      !.todo = j.todo \ {j.rule}]
    ELSE Idle

eligible(r) == rule[r].active /\ ~rule[r].archived
OwnEntries(r) == {e \in entries : e.rule = r}
Live == {e \in entries : e.live}
\* A free date for a live entry at place p: nothing live meets its span.
SpotFree(p, E) == \A e \in E : e.live => ~SpansMeet(e, p)
\* No two unarchived rules of a teacher meet in the week, the one an
\* uncommitted create is inserting included.
slotFree(r, s) ==
    /\ \A q \in Rules \ {r} : rule[q].slot # None /\ ~rule[q].archived => ~SlotsMeet(rule[q].slot, s)
    /\ \A w \in Workers : job[w].kind = "create" /\ job[w].rule # r => ~SlotsMeet(job[w].slot, s)
\* A class row some archive holds locked takes no booking, cancel or move.
Unlocked(e) == \A w \in Workers : e \notin job[w].held

\* Fault: the start's instant is written where the date belongs.
NewEntryAtInstant(r, s, d) ==
    [rule |-> r, date |-> classStartInstant(d, s.time) + LastDate, time |-> s.time, len |-> s.len,
     live |-> TRUE, seat |-> "never", waiting |-> FALSE, moved |-> FALSE]
NewEntry(r, s, d) == [rule |-> r, date |-> d, time |-> s.time, len |-> s.len, live |-> TRUE,
                      seat |-> "never", waiting |-> FALSE, moved |-> FALSE]

TypeOK ==
    /\ rule \in [Rules -> RuleRows]
    /\ entries \subseteq Entries
    /\ lock \in [Rules -> Workers \cup {None}]
    /\ job \in [Workers -> Jobs]
    /\ now \in 0..MaxNow /\ calls \in 0..MaxCalls /\ failures \in 0..MaxFailures
    /\ gone \in [Rules -> Nat] /\ untold \in BOOLEAN /\ doors \subseteq Doors

Init ==
    /\ rule \in [Rules -> [slot : Slots \cup {None}, active : BOOLEAN, archived : {FALSE},
                           withdrawn : {None}]]
    /\ \A r \in Rules : rule[r].slot = None => ~rule[r].active
    /\ \A r, q \in Rules : r # q /\ rule[r].slot # None /\ rule[q].slot # None
                              => ~SlotsMeet(rule[r].slot, rule[q].slot)
    /\ entries = {} /\ now = 0 /\ calls = 0 /\ failures = 0 /\ doors \in SUBSET Doors
    /\ lock = [r \in Rules |-> None] /\ job = [w \in Workers |-> Idle]
    /\ gone = [r \in Rules |-> 0] /\ untold = FALSE

\* A call of the teacher's or a student's; their number is bounded.
Calls(door) == door \in doors /\ calls < MaxCalls /\ calls' = calls + 1

(***************************************************************************)
(* Generation, shared by the sweep, resume and create.                     *)
(***************************************************************************)
\* On this date neither the rule nor, at this time of day, anybody else's live
\* entry stands.
Unheld(r, slot, d) ==
    \A e \in entries : e.date = d => e.rule # r /\ (e.live => ~spansOverlap(e, slot))

ReadOccupants(w) ==
    LET j == job[w] IN
    /\ j.step = "occupants"
    /\ job' = [job EXCEPT ![w].step = "weeks",
                          ![w].free = {d \in Window(j.slot, j.from) : Unheld(j.rule, j.slot, d)}]
    /\ UNCHANGED <<rule, entries, lock, now, calls, failures, gone, untold>>

\* Fault: a cancelled entry does not hold its week.
HeldByLiveOnly(r) == {mondayOf(e.date) : e \in OwnEntries(r) \cap Live}
\* Every entry of the rule holds its week, a cancelled one too.
HeldWeeks(r) == {mondayOf(e.date) : e \in OwnEntries(r)}
\* The hourly fill declines a class whose check has passed; a teacher's call
\* and the studio family, which has no check, do not.
Declined(kind, r, slot, d, at) ==
    kind = "sweep" /\ r \in Regular /\ isPastCancelCheck(slot, d, at)

ReadWeeks(w) ==
    LET j == job[w] IN
    /\ j.step = "weeks"
    /\ job' = [job EXCEPT ![w].step = "insert",
                          ![w].free = {d \in @ : /\ mondayOf(d) \notin HeldWeeks(j.rule)
                                                 /\ ~Declined(j.kind, j.rule, j.slot, d, now)}]
    /\ UNCHANGED <<rule, entries, lock, now, calls, failures, gone, untold>>

\* INSERT ... ON CONFLICT DO NOTHING: a date whose rule key or span is taken by
\* now is left out and the others land.
Lands(r, slot, d) ==
    (\A e \in OwnEntries(r) : e.date # d) /\ SpotFree(PlaceOf(slot, d), entries)
\* Fault: no ON CONFLICT, one date in the way fails the whole insert.
InsertedAllOrNothing(j) ==
    {NewEntry(j.rule, j.slot, d) : d \in IF \A d \in j.free : Lands(j.rule, j.slot, d) THEN j.free ELSE {}}
Inserted(j) == {NewEntry(j.rule, j.slot, d) : d \in {d \in j.free : Lands(j.rule, j.slot, d)}}

InsertAndCommit(w) ==
    LET j == job[w] IN
    /\ j.step = "insert"
    /\ entries' = entries \cup Inserted(j)
    /\ lock' = IF j.kind = "create" THEN lock ELSE [lock EXCEPT ![j.rule] = None]
    /\ rule' = CASE j.kind = "resume" -> [rule EXCEPT ![j.rule].active = TRUE]
                 [] j.kind = "create" -> [rule EXCEPT ![j.rule].slot = j.slot, ![j.rule].active = TRUE]
                 [] OTHER -> rule
    /\ job' = [job EXCEPT ![w] = Finished(j)]
    /\ UNCHANGED <<now, calls, failures, gone, untold>>

(***************************************************************************)
(* The hourly sweep.  Two instances of the app, or a slow run and the next *)
(* one, may both be at it.                                                 *)
(***************************************************************************)
SweepStarts(w) ==
    /\ job[w] = Idle
    /\ \E r \in Rules : eligible(r)
    /\ job' = [job EXCEPT ![w] = [Idle EXCEPT !.kind = "sweep", !.step = "choosing", !.from = now,
                                              !.todo = {r \in Rules : eligible(r)}]]
    /\ UNCHANGED <<rule, entries, lock, now, calls, failures, gone, untold>>

\* The candidate's own transaction begins: the locking SELECT starts, and its
\* join on the rule is evaluated now, before any wait for the row.
SweepSelects(w, r) ==
    /\ job[w].step = "choosing" /\ r \in job[w].todo
    /\ job' = [job EXCEPT ![w] = IF eligible(r)
                                 THEN [job[w] EXCEPT !.step = "claiming", !.rule = r]
                                 ELSE [job[w] EXCEPT !.todo = job[w].todo \ {r}]]
    /\ UNCHANGED <<rule, entries, lock, now, calls, failures, gone, untold>>

\* Fault: the locking statement's own match is trusted.
ClaimableWithoutReread(r) == TRUE
Claimable(r) == eligible(r)

\* The row is ours; a fresh read decides, and gives the slot to generate by.
SweepClaims(w) ==
    LET r == job[w].rule IN
    /\ job[w].step = "claiming" /\ lock[r] = None
    /\ IF Claimable(r)
       THEN /\ lock' = [lock EXCEPT ![r] = w]
            /\ job' = [job EXCEPT ![w].step = "occupants", ![w].slot = rule[r].slot]
       ELSE /\ job' = [job EXCEPT ![w].step = "choosing", ![w].rule = None, ![w].todo = @ \ {r}]
            /\ UNCHANGED lock
    /\ UNCHANGED <<rule, entries, now, calls, failures, gone, untold>>

\* 55P03: somebody holds the row for the whole lock timeout.
SweepSkips(w) ==
    LET r == job[w].rule IN
    /\ job[w].step = "claiming" /\ lock[r] # None
    /\ job' = [job EXCEPT ![w].step = "choosing", ![w].rule = None, ![w].todo = @ \ {r}]
    /\ UNCHANGED <<rule, entries, lock, now, calls, failures, gone, untold>>

SweepEnds(w) ==
    /\ job[w].step = "choosing" /\ job[w].todo = {}
    /\ job' = [job EXCEPT ![w] = Idle]
    /\ UNCHANGED <<rule, entries, lock, now, calls, failures, gone, untold>>

(***************************************************************************)
(* The teacher's verbs on a rule.                                          *)
(***************************************************************************)
\* The first read, outside the transaction, answers "unchanged" or "archived"
\* on its own; only the request that passes it is modelled further.
ResumeReads(w, r) ==
    /\ Calls("resume") /\ job[w] = Idle /\ rule[r].slot # None
    /\ ~rule[r].active /\ ~rule[r].archived
    /\ job' = [job EXCEPT ![w] = [Idle EXCEPT !.kind = "resume", !.step = "locking", !.rule = r]]
    /\ UNCHANGED <<rule, entries, lock, now, failures, gone, untold>>

\* Fault: the swap trusts the first read about the archive.
ResumeSwapsArchived(r) == ~rule[r].active
ResumeSwaps(r) == ~rule[r].archived /\ ~rule[r].active

\* The compare-and-swap under the row lock, then the claim, whose predicate
\* the swap has just made true, and generation in the same transaction.
ResumeLocks(w) ==
    LET r == job[w].rule IN
    /\ job[w].kind = "resume" /\ job[w].step = "locking" /\ lock[r] = None
    /\ IF ResumeSwaps(r)
       THEN /\ lock' = [lock EXCEPT ![r] = w]
            /\ job' = [job EXCEPT ![w].step = "occupants", ![w].slot = rule[r].slot, ![w].from = now]
       ELSE job' = [job EXCEPT ![w] = Idle] /\ UNCHANGED lock
    /\ UNCHANGED <<rule, entries, now, calls, failures, gone, untold>>

Pause(r) ==
    /\ Calls("pause") /\ lock[r] = None
    /\ rule[r].active /\ ~rule[r].archived
    /\ rule' = [rule EXCEPT ![r].active = FALSE]
    /\ UNCHANGED <<entries, lock, job, now, failures, gone, untold>>

\* An archived rule may be edited too; an unarchived one must fit the week.
UpdateRule(r, s) ==
    /\ Calls("edit") /\ lock[r] = None
    /\ rule[r].slot \notin {None, s}
    /\ rule[r].archived \/ slotFree(r, s)
    /\ rule' = [rule EXCEPT ![r].slot = s]
    /\ UNCHANGED <<entries, lock, job, now, failures, gone, untold>>

\* The rule is not visible to anybody before the window it generates commits.
CreateStarts(w, r, s) ==
    /\ Calls("create") /\ job[w] = Idle /\ rule[r].slot = None /\ slotFree(r, s)
    /\ \A v \in Workers : job[v].rule # r
    /\ job' = [job EXCEPT ![w] = [Idle EXCEPT !.kind = "create", !.step = "occupants", !.rule = r,
                                              !.slot = s, !.from = now]]
    /\ UNCHANGED <<rule, entries, lock, now, failures, gone, untold>>

ArchiveReads(w, r) ==
    /\ Calls("archive") /\ job[w] = Idle /\ rule[r].slot # None /\ ~rule[r].archived
    /\ job' = [job EXCEPT ![w] = [Idle EXCEPT !.kind = "archive", !.step = "locking", !.rule = r]]
    /\ UNCHANGED <<rule, entries, lock, now, failures, gone, untold>>

\* Fault: the swap is unconditional.
ArchiveSwapsAgain(r) == TRUE
ArchiveSwaps(r) == ~rule[r].archived

\* `from` is the instant the transaction takes its "today" from.
ArchiveLocks(w) ==
    LET r == job[w].rule IN
    /\ job[w].kind = "archive" /\ job[w].step = "locking" /\ lock[r] = None
    /\ IF ArchiveSwaps(r)
       THEN /\ lock' = [lock EXCEPT ![r] = w]
            /\ job' = [job EXCEPT ![w].from = now,
                                  ![w].step = IF r \in Regular THEN "withdrawing" ELSE "deleting"]
       ELSE job' = [job EXCEPT ![w] = Idle] /\ UNCHANGED lock
    /\ UNCHANGED <<rule, entries, now, calls, failures, gone, untold>>

Scheduled(r, today) == {e \in OwnEntries(r) : e.live /\ e.date > today}

\* Fault: only the classes the delete would take now are locked and read.
ArchivePreLocksDeletable(w) ==
    LET j == job[w] IN
    /\ j.step = "withdrawing"
    /\ job' = [job EXCEPT ![w].step = "deleting",
                          ![w].held = {e \in Scheduled(j.rule, DateOf(j.from)) : e.seat # "charged"}]
    /\ UNCHANGED <<rule, entries, lock, now, calls, failures, gone, untold>>
\* The class family locks every scheduled future class of the rule, and reads
\* who waits on one.
ArchivePreLocks(w) ==
    LET j == job[w] IN
    /\ j.step = "withdrawing"
    /\ job' = [job EXCEPT ![w].step = "deleting", ![w].held = Scheduled(j.rule, DateOf(j.from))]
    /\ UNCHANGED <<rule, entries, lock, now, calls, failures, gone, untold>>

\* Fault: everything the hook locked goes.
WithdrawnAsLocked(w) == job[w].held
\* The delete's own predicate, evaluated as it runs: a charged class is spared.
Withdrawn(w) == {e \in Scheduled(job[w].rule, DateOf(job[w].from)) : e.seat # "charged"}
\* The waiters told are those read on a locked class that did not survive.
Told(w) == job[w].held \cap Withdrawn(w)

ArchiveDeletes(w) ==
    LET r == job[w].rule IN
    /\ job[w].step = "deleting"
    /\ entries' = entries \ Withdrawn(w)
    /\ untold' = (untold \/ \E e \in Withdrawn(w) \ Told(w) : e.waiting /\ ~e.moved)
    /\ rule' = [rule EXCEPT ![r].archived = TRUE, ![r].active = FALSE,
                            ![r].withdrawn = Cardinality(Withdrawn(w))]
    /\ gone' = [gone EXCEPT ![r] = @ + Cardinality(Withdrawn(w))]
    /\ lock' = [lock EXCEPT ![r] = None] /\ job' = [job EXCEPT ![w] = Idle]
    /\ UNCHANGED <<now, calls, failures>>

Unarchive(r) ==
    /\ Calls("unarchive") /\ lock[r] = None /\ rule[r].archived /\ slotFree(r, rule[r].slot)
    /\ rule' = [rule EXCEPT ![r].archived = FALSE, ![r].active = FALSE, ![r].withdrawn = None]
    /\ gone' = [gone EXCEPT ![r] = 0]
    /\ UNCHANGED <<entries, lock, job, now, failures, untold>>

\* A timeout, a failed statement or the process's end: the transaction rolls
\* back.  A sweep goes on with the rules it has left.
RollBack(w) ==
    /\ job[w] # Idle /\ failures < MaxFailures
    /\ failures' = failures + 1
    /\ lock' = [r \in Rules |-> IF lock[r] = w THEN None ELSE lock[r]]
    /\ job' = [job EXCEPT ![w] = Finished(job[w])]
    /\ UNCHANGED <<rule, entries, now, calls, gone, untold>>

(***************************************************************************)
(* Doors on the entries.                                                   *)
(***************************************************************************)
Replace(e, f) == entries' = (entries \ {e}) \cup {f}

CreateOneOff(p) ==
    /\ Calls("oneoff") /\ SpotFree(p, entries)
    /\ entries' = entries \cup {NewEntry(None, p, p.date)}
    /\ UNCHANGED <<rule, lock, job, now, failures, gone, untold>>

CancelEntry(e) ==
    /\ Calls("cancel") /\ e.live /\ Unlocked(e)
    /\ Replace(e, [e EXCEPT !.live = FALSE, !.waiting = FALSE])
    /\ UNCHANGED <<rule, lock, job, now, failures, gone, untold>>

\* Only a studio class's cancellation can be taken back.
RestoreEntry(e) ==
    /\ Calls("restore") /\ ~e.live /\ e.rule \notin Regular \cup {None} /\ SpotFree(e, entries)
    /\ Replace(e, [e EXCEPT !.live = TRUE])
    /\ UNCHANGED <<rule, lock, job, now, failures, gone, untold>>

\* A class moves until it is first booked, to a date its rule has no entry on.
MoveEntry(e, d) ==
    /\ Calls("move") /\ e.live /\ e.rule \in Regular /\ e.seat = "never" /\ Unlocked(e)
    /\ d # e.date
    /\ \A f \in OwnEntries(e.rule) : f.date # d
    /\ SpotFree([e EXCEPT !.date = d], entries \ {e})
    /\ Replace(e, [e EXCEPT !.date = d, !.moved = TRUE])
    /\ UNCHANGED <<rule, lock, job, now, failures, gone, untold>>

\* Bookings take the class row's lock.  A queue forms on a booked class, and
\* the seat may be given up while somebody still waits.
BookSeat(e) ==
    /\ Calls("book") /\ e.live /\ e.rule \in Regular /\ e.seat # "charged" /\ Unlocked(e)
    /\ Replace(e, [e EXCEPT !.seat = "charged"])
    /\ UNCHANGED <<rule, lock, job, now, failures, gone, untold>>
JoinQueue(e) ==
    /\ Calls("queue") /\ e.live /\ e.seat = "charged" /\ ~e.waiting /\ Unlocked(e)
    /\ Replace(e, [e EXCEPT !.waiting = TRUE])
    /\ UNCHANGED <<rule, lock, job, now, failures, gone, untold>>
FreeSeat(e) ==
    /\ Calls("unbook") /\ e.live /\ e.seat = "charged" /\ Unlocked(e)
    /\ Replace(e, [e EXCEPT !.seat = "freed"])
    /\ UNCHANGED <<rule, lock, job, now, failures, gone, untold>>

Tick ==
    /\ now < MaxNow /\ now' = now + 1
    /\ UNCHANGED <<rule, entries, lock, job, calls, failures, gone, untold>>

Generates(w) == ReadOccupants(w) \/ ReadWeeks(w) \/ InsertAndCommit(w)
Sweeps(w) ==
    \/ SweepStarts(w) \/ SweepClaims(w) \/ SweepSkips(w) \/ SweepEnds(w)
    \/ \E r \in Rules : SweepSelects(w, r)
Answers(w) == ResumeLocks(w) \/ ArchiveLocks(w) \/ ArchivePreLocks(w) \/ ArchiveDeletes(w)

Next ==
    /\ UNCHANGED doors
    /\ \/ \E w \in Workers : Generates(w) \/ RollBack(w)
       \/ \E w \in Sweepers : Sweeps(w)
       \/ \E w \in Requests : \/ Answers(w)
                              \/ \E r \in Rules : \/ ResumeReads(w, r) \/ ArchiveReads(w, r)
                                                  \/ \E s \in Slots : CreateStarts(w, r, s)
       \/ \E r \in Rules : Pause(r) \/ Unarchive(r) \/ \E s \in Slots : UpdateRule(r, s)
       \/ \E p \in Spots : CreateOneOff(p)
       \/ \E e \in entries : \/ CancelEntry(e) \/ RestoreEntry(e) \/ BookSeat(e) \/ JoinQueue(e)
                             \/ FreeSeat(e) \/ \E d \in Dates : MoveEntry(e, d)
       \/ Tick

Spec == Init /\ [][Next]_vars

(***************************************************************************)
(* What an edit tells the teacher, and what a sweep would do.              *)
(***************************************************************************)
\* Fault: only an entry that starts at the same time holds a candidate.
PredictedByStart(r, at) ==
    LET s == rule[r].slot IN
    {d \in probeHorizon(s, at) :
        /\ \A e \in Live : e.date = d => e.time # s.time
        /\ ~Declined("sweep", r, s, d, at)
        /\ mondayOf(d) \notin HeldWeeks(r)}
\* probeFirstEffectiveWeek: the candidates its first free week is taken from.
Predicted(r, at) ==
    LET s == rule[r].slot IN
    {d \in probeHorizon(s, at) :
        /\ \A e \in Live : e.date = d => ~spansOverlap(e, s)
        /\ ~Declined("sweep", r, s, d, at)
        /\ mondayOf(d) \notin HeldWeeks(r)}
\* The dates a sweep of the rule, run whole at that instant, would fill.
Fillable(r, at) ==
    LET s == rule[r].slot IN
    {d \in Window(s, at) : /\ Unheld(r, s, d) /\ mondayOf(d) \notin HeldWeeks(r)
                           /\ ~Declined("sweep", r, s, d, at) /\ Lands(r, s, d)}

(***************************************************************************)
(* Properties                                                              *)
(***************************************************************************)
\* The entries the generator made of one rule, wherever the teacher has not
\* moved them, stand in different weeks: across two sweeps, a resume, a change
\* of day, a cancelled entry and an archive that was taken back.
OnePerWeek ==
    \A e, f \in entries :
        /\ e.rule = f.rule /\ e.rule # None /\ ~e.moved /\ ~f.moved
        /\ mondayOf(e.date) = mondayOf(f.date)
        => e = f

\* An archived rule is never active, whichever of a resume and an archive that
\* both read it beforehand commits last.
ArchivedIsInactive == \A r \in Rules : rule[r].archived => ~rule[r].active

\* A rule and its entries agree, whichever sweeps and requests met over them: one
\* entry in a week, and none to come of a rule that was archived and is active.
Consistent == TypeOK /\ OnePerWeek /\ ArchivedIsInactive

\* The count an archived rule keeps is of what its archive took away, two
\* archives at once included.
WithdrawnIsGone == \A r \in Rules : rule[r].archived => rule[r].withdrawn = gone[r]

\* Nobody waits on a class an archive takes away without being told.  The class the
\* teacher moves under the archive from today to a later day is excepted, as
\* CLASS_FAMILY's pre-lock excepts it.
WaitersTold == ~untold

\* The rule's entries of a step's end that the step laid on a date of their own.
Laid(r) == {e \in entries' : e.rule = r /\ ~e.moved /\ \A f \in OwnEntries(r) : f.date # e.date}

\* A rule gains entries only while it runs: a sweep that chose the rule before
\* it was paused or archived adds none afterwards.
AddedWhileRunning ==
    [][\A r \in Rules : Laid(r) # {} => rule'[r].active /\ ~rule'[r].archived]_vars

\* A class somebody owes for stays on its date, whatever becomes of its rule.
ChargedStays ==
    \A e \in entries : e.seat = "charged" =>
        \E f \in entries' : f.rule = e.rule /\ f.date = e.date

\* An archive accounts for what it takes away: the count it keeps, whoever waited,
\* and nothing that somebody owes for.
ArchiveAccounted == [][WithdrawnIsGone' /\ WaitersTold' /\ ChargedStays]_vars

\* The week an edit names is one the next sweep delivers, as far as its window
\* reaches and no neighbour running past midnight takes the place, and no
\* sweep fills an earlier one.
PromiseKept ==
    \A r \in Rules :
        LET at == now + ProbeLead
            s == rule[r].slot
            first == CHOOSE d \in Predicted(r, at) : \A c \in Predicted(r, at) : d <= c
        IN eligible(r) =>
             /\ /\ Predicted(r, at) # {} /\ first \in Window(s, at)
                /\ \A e \in Live : SpansMeet(e, PlaceOf(s, first)) => e.date = first
                => first \in Fillable(r, at)
             /\ \A d \in Fillable(r, at) : Predicted(r, at) # {} /\ first <= d

\* Once the teacher leaves the schedule alone, every date a sweep can fill in a
\* running rule's window is filled.
WindowFilled == <>[](\A r \in Rules : eligible(r) => Fillable(r, now) = {})
=============================================================================
