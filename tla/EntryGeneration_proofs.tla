----------------------- MODULE EntryGeneration_proofs -----------------------
(***************************************************************************)
(* The safety properties of EntryGeneration for any rules, any number of    *)
(* sweeps and requests, any window and any calendar.                        *)
(***************************************************************************)
EXTENDS EntryGeneration, FiniteSetTheorems, WellFoundedInduction, TLAPS

USE DEF vars, Workers

---------------------------------------------------------------------------
(* The calendar *)

\* Two candidates of one window never share a week.
LEMMA WindowWeeks ==
    ASSUME NEW slot, NEW from,
           NEW c \in Window(slot, from), NEW d \in Window(slot, from), mondayOf(c) = mondayOf(d)
    PROVE  c = d
  <1>1. /\ c \in Nat /\ d \in Nat
        /\ c % DaysPerWeek = slot.day /\ d % DaysPerWeek = slot.day
    BY CalendarAssumption DEF Window, FirstOf, Ahead, getNextOccurrences, Dates
  <1>2. c \div DaysPerWeek = d \div DaysPerWeek
    BY DEF mondayOf
  <1>3. DaysPerWeek \in Nat \ {0}
    BY CalendarAssumption
  <1> HIDE DEF Window
  <1> QED BY <1>1, <1>2, <1>3, SMT

LEMMA WindowDates == ASSUME NEW slot, NEW from PROVE Window(slot, from) \subseteq Dates
  BY DEF Window, FirstOf, Ahead, getNextOccurrences

---------------------------------------------------------------------------
(* The invariant *)

Gen(w) == job[w].step \in {"occupants", "weeks", "insert"}
Writes(w) == job[w].step \in {"withdrawing", "deleting"}

\* Who is in the middle of what.  A transaction that has claimed a rule holds
\* its row; the one that creates a rule is alone in knowing it.
JobsOK ==
    \A w \in Workers :
        /\ Gen(w) => /\ job[w].kind \in {"sweep", "resume", "create"}
                     /\ job[w].rule \in Rules /\ job[w].slot \in Slots
        /\ Writes(w) => job[w].kind = "archive" /\ job[w].rule \in Rules
        /\ job[w].step \in {"claiming", "choosing"} => job[w].kind = "sweep"
        /\ job[w].step \in {"claiming", "locking"} => job[w].rule \in Rules
        /\ job[w].kind = "create" => Gen(w)

LocksOK ==
    \A w \in Workers :
        Writes(w) \/ (Gen(w) /\ job[w].kind # "create") => lock[job[w].rule] = w

SlotsOK ==
    /\ \A r \in Rules : rule[r].slot = None => ~rule[r].active /\ ~rule[r].archived
    /\ \A w \in Workers :
          IF job[w].kind = "create"
          THEN /\ rule[job[w].rule].slot = None
               /\ \A v \in Workers \ {w} : job[v].rule # job[w].rule
          ELSE job[w].rule \in Rules => rule[job[w].rule].slot # None

\* What a transaction saw of the rule under its lock still holds.
RulesOK ==
    \A w \in Workers : Gen(w) =>
        /\ job[w].kind = "sweep" => eligible(job[w].rule)
        /\ job[w].kind = "resume" => ~rule[job[w].rule].archived

Control == JobsOK /\ LocksOK /\ SlotsOK /\ RulesOK

\* The dates a generator means to fill are in weeks of their own, and, once it
\* has read the rule's weeks, in none where an unmoved entry of it stands.
FreeWeeks ==
    \A w \in Workers :
        /\ job[w].step \in {"weeks", "insert"} =>
              \A c, d \in job[w].free : mondayOf(c) = mondayOf(d) => c = d
        /\ job[w].step = "insert" =>
              \A d \in job[w].free, e \in entries :
                 e.rule = job[w].rule /\ ~e.moved => mondayOf(e.date) # mondayOf(d)

---------------------------------------------------------------------------
(* Types *)

LEMMA IdleType == Idle \in Jobs
  BY DEF Idle, Jobs

LEMMA FinishedType == ASSUME NEW j \in Jobs PROVE Finished(j) \in Jobs
  BY DEF Finished, Idle, Jobs

LEMMA NewEntryType ==
    ASSUME NEW r \in Rules \cup {None}, NEW d \in Dates, NEW s,
           s.time \in 0..(SlotsPerDay - 1), s.len \in Nat \ {0}
    PROVE  NewEntry(r, s, d) \in Entries
  BY DEF NewEntry, Entries

\* What a generator inserts: unmoved entries of its rule, on dates it found
\* free and on none the rule already has.
LEMMA InsertedType ==
    ASSUME TypeOK, JobsOK, NEW w \in Workers, Gen(w)
    PROVE  /\ Inserted(job[w]) \subseteq Entries
           /\ \A e \in Inserted(job[w]) : /\ e.rule = job[w].rule /\ ~e.moved
                                          /\ e.date \in job[w].free
                                          /\ \A f \in OwnEntries(job[w].rule) : f.date # e.date
           /\ \A e, f \in Inserted(job[w]) : e.date = f.date => e = f
           /\ IsFiniteSet(Inserted(job[w]))
  <1>1. job[w].rule \in Rules /\ job[w].slot \in Slots /\ job[w].free \subseteq Dates
    BY DEF JobsOK, TypeOK, Jobs
  <1>2. job[w].slot.time \in 0..(SlotsPerDay - 1) /\ job[w].slot.len \in Nat \ {0}
    BY <1>1, RulesAssumption
  <1>3. ASSUME NEW e \in Inserted(job[w])
        PROVE  \E d \in job[w].free : /\ e = NewEntry(job[w].rule, job[w].slot, d)
                                      /\ Lands(job[w].rule, job[w].slot, d)
    BY <1>3 DEF Inserted
  <1>4. /\ Inserted(job[w]) \subseteq Entries
        /\ \A e \in Inserted(job[w]) : /\ e.rule = job[w].rule /\ ~e.moved
                                       /\ e.date \in job[w].free
                                       /\ \A f \in OwnEntries(job[w].rule) : f.date # e.date
    BY <1>1, <1>2, <1>3, NewEntryType DEF NewEntry, Lands
  <1>5. \A e, f \in Inserted(job[w]) : e.date = f.date => e = f
    <2> SUFFICES ASSUME NEW e \in Inserted(job[w]), NEW f \in Inserted(job[w]), e.date = f.date
                 PROVE  e = f
      OBVIOUS
    <2>1. PICK c : e = NewEntry(job[w].rule, job[w].slot, c)
      BY <1>3
    <2>2. PICK d : f = NewEntry(job[w].rule, job[w].slot, d)
      BY <1>3
    <2>3. e.date = c /\ f.date = d
      BY <2>1, <2>2 DEF NewEntry
    <2> QED BY <2>1, <2>2, <2>3
  <1>6. IsFiniteSet(Inserted(job[w]))
    <2> DEFINE date == [e \in Inserted(job[w]) |-> e.date]
    <2>1. IsFiniteSet(Dates)
      BY CalendarAssumption, FS_Interval DEF Dates
    <2>2. date \in Injection(Inserted(job[w]), Dates)
      BY <1>1, <1>4, <1>5 DEF Injection, IsInjective
    <2> QED BY <2>1, <2>2, FS_Injection
  <1> QED BY <1>4, <1>5, <1>6

\* Replacing an entry by another keeps the calendar finite and well-typed.
LEMMA ReplaceType ==
    ASSUME TypeOK, IsFiniteSet(entries), NEW e \in entries, NEW f \in Entries, Replace(e, f)
    PROVE  entries' \subseteq Entries /\ IsFiniteSet(entries')
  <1>1. IsFiniteSet(entries \ {e})
    BY FS_Subset
  <1>2. entries' = (entries \ {e}) \cup {f}
    BY DEF Replace
  <1> QED BY <1>1, <1>2, FS_AddElement DEF TypeOK

LEMMA TypeStep ==
    ASSUME TypeOK, JobsOK, IsFiniteSet(entries), [Next]_vars
    PROVE  TypeOK' /\ IsFiniteSet(entries')
  <1>doors. doors' \subseteq Doors
    BY DEF Next, TypeOK
  <1> USE IdleType, <1>doors DEF TypeOK
  <1>now. now \in Nat /\ MaxCalls \in Nat /\ MaxNow \in Nat
    BY RulesAssumption
  <1>1. ASSUME NEW w \in Workers, ReadOccupants(w)
        PROVE  TypeOK' /\ IsFiniteSet(entries')
    BY <1>1, WindowDates DEF ReadOccupants, Jobs
  <1>2. ASSUME NEW w \in Workers, ReadWeeks(w)
        PROVE  TypeOK' /\ IsFiniteSet(entries')
    BY <1>2 DEF ReadWeeks, Jobs
  <1>3. ASSUME NEW w \in Workers, InsertAndCommit(w)
        PROVE  TypeOK' /\ IsFiniteSet(entries')
    <2>1. Gen(w)
      BY <1>3 DEF InsertAndCommit, Gen
    <2>2. IsFiniteSet(entries') /\ entries' \subseteq Entries
      BY <1>3, <2>1, InsertedType, FS_Union DEF InsertAndCommit
    <2>3. job' \in [Workers -> Jobs]
      BY <1>3, FinishedType DEF InsertAndCommit
    <2>4. job[w].slot \in Slots /\ job[w].rule \in Rules
      BY <2>1 DEF JobsOK
    <2>5. rule' \in [Rules -> RuleRows]
      BY <1>3, <2>4 DEF InsertAndCommit, RuleRows
    <2> QED BY <1>3, <2>2, <2>3, <2>5 DEF InsertAndCommit
  <1>4. ASSUME NEW w \in Workers, SweepStarts(w)
        PROVE  TypeOK' /\ IsFiniteSet(entries')
    <2>1. [Idle EXCEPT !.kind = "sweep", !.step = "choosing", !.from = now,
                       !.todo = {r \in Rules : eligible(r)}] \in Jobs
      BY <1>now DEF Jobs, Idle
    <2> QED BY <1>4, <2>1 DEF SweepStarts
  <1>5. ASSUME NEW w \in Workers, SweepClaims(w)
        PROVE  TypeOK' /\ IsFiniteSet(entries')
    <2>1. job' \in [Workers -> Jobs]
      BY <1>5 DEF SweepClaims, Jobs, RuleRows, eligible, Claimable
    <2>2. lock' \in [Rules -> Workers \cup {None}]
      BY <1>5 DEF SweepClaims, Jobs
    <2> QED BY <1>5, <2>1, <2>2 DEF SweepClaims
  <1>6. ASSUME NEW w \in Workers, SweepSkips(w)
        PROVE  TypeOK' /\ IsFiniteSet(entries')
    <2>1. job' \in [Workers -> Jobs]
      <3>1. [job[w] EXCEPT !.step = "choosing", !.rule = None, !.todo = @ \ {job[w].rule}] \in Jobs
        BY DEF Jobs
      <3> QED BY <1>6, <3>1 DEF SweepSkips
    <2>2. lock' \in [Rules -> Workers \cup {None}]
      BY <1>6 DEF SweepSkips, Jobs
    <2> QED BY <1>6, <2>1, <2>2 DEF SweepSkips
  <1>7. ASSUME NEW w \in Workers, SweepEnds(w)
        PROVE  TypeOK' /\ IsFiniteSet(entries')
    BY <1>7, RulesAssumption DEF SweepEnds, Jobs, Idle, RuleRows
  <1>8. ASSUME NEW w \in Workers, NEW r \in Rules, SweepSelects(w, r)
        PROVE  TypeOK' /\ IsFiniteSet(entries')
    <2>1. [job[w] EXCEPT !.step = "claiming", !.rule = r] \in Jobs
      BY DEF Jobs
    <2>2. [job[w] EXCEPT !.todo = job[w].todo \ {r}] \in Jobs
      BY DEF Jobs
    <2>3. CASE eligible(r)
      BY <1>8, <2>1, <2>3 DEF SweepSelects
    <2>4. CASE ~eligible(r)
      <3>1. job' = [job EXCEPT ![w] = [job[w] EXCEPT !.todo = job[w].todo \ {r}]]
        BY <1>8, <2>4 DEF SweepSelects
      <3> QED BY <1>8, <2>2, <3>1 DEF SweepSelects
    <2> QED BY <2>3, <2>4
  <1>9. ASSUME NEW w \in Workers, RollBack(w)
        PROVE  TypeOK' /\ IsFiniteSet(entries')
    <2>2. job' \in [Workers -> Jobs]
      BY <1>9, FinishedType DEF RollBack
    <2>3. lock' \in [Rules -> Workers \cup {None}] /\ failures' \in 0..MaxFailures
      BY <1>9, RulesAssumption DEF RollBack
    <2> QED BY <1>9, <2>2, <2>3 DEF RollBack
  <1>10. ASSUME NEW w \in Workers, NEW r \in Rules, ResumeReads(w, r)
        PROVE  TypeOK' /\ IsFiniteSet(entries')
    <2>1. [Idle EXCEPT !.kind = "resume", !.step = "locking", !.rule = r] \in Jobs
      BY DEF Jobs, Idle
    <2> QED BY <1>10, <2>1, RulesAssumption DEF ResumeReads, Calls
  <1>11. ASSUME NEW w \in Workers, NEW r \in Rules, ArchiveReads(w, r)
        PROVE  TypeOK' /\ IsFiniteSet(entries')
    <2>1. [Idle EXCEPT !.kind = "archive", !.step = "locking", !.rule = r] \in Jobs
      BY DEF Jobs, Idle
    <2> QED BY <1>11, <2>1, RulesAssumption DEF ArchiveReads, Calls
  <1>12. ASSUME NEW w \in Workers, NEW r \in Rules, NEW s \in Slots, CreateStarts(w, r, s)
        PROVE  TypeOK' /\ IsFiniteSet(entries')
    <2>1. [Idle EXCEPT !.kind = "create", !.step = "occupants", !.rule = r,
                       !.slot = s, !.from = now] \in Jobs
      BY <1>now DEF Jobs, Idle
    <2> QED BY <1>12, <2>1, RulesAssumption DEF CreateStarts, Calls
  <1>13. ASSUME NEW w \in Workers, ResumeLocks(w)
        PROVE  TypeOK' /\ IsFiniteSet(entries')
    <2>1. lock' \in [Rules -> Workers \cup {None}]
      BY <1>13 DEF ResumeLocks
    <2>2. job' \in [Workers -> Jobs]
      <3>1. rule[job[w].rule].slot \in Slots \cup {None} /\ now \in Nat
        BY <1>13, <1>now DEF ResumeLocks, JobsOK, RuleRows
      <3> QED BY <1>13, <3>1 DEF ResumeLocks, Jobs
    <2> QED BY <1>13, <2>1, <2>2 DEF ResumeLocks
  <1>14. ASSUME NEW w \in Workers, ArchiveLocks(w)
        PROVE  TypeOK' /\ IsFiniteSet(entries')
    BY <1>14, RulesAssumption DEF ArchiveLocks, Jobs, Idle, RuleRows
  <1>15. ASSUME NEW w \in Workers, ArchivePreLocks(w)
        PROVE  TypeOK' /\ IsFiniteSet(entries')
    BY <1>15 DEF ArchivePreLocks, Scheduled, OwnEntries, Jobs
  <1>16. ASSUME NEW w \in Workers, ArchiveDeletes(w)
        PROVE  TypeOK' /\ IsFiniteSet(entries')
    <2>1. Withdrawn(w) \subseteq entries
      BY DEF Withdrawn, Scheduled, OwnEntries
    <2>2. IsFiniteSet(Withdrawn(w)) /\ IsFiniteSet(entries \ Withdrawn(w))
      BY <2>1, FS_Subset
    <2>3. Cardinality(Withdrawn(w)) \in Nat
      BY <2>2, FS_CardinalityType
    <2>4. rule' \in [Rules -> RuleRows]
      BY <1>16, <2>3 DEF ArchiveDeletes, RuleRows
    <2>5. gone' \in [Rules -> Nat]
      <3>1. job[w].rule \in Rules
        BY <1>16 DEF ArchiveDeletes, JobsOK, Writes
      <3>2. gone[job[w].rule] + Cardinality(Withdrawn(w)) \in Nat
        BY <2>3, <3>1
      <3> QED BY <1>16, <3>2 DEF ArchiveDeletes
    <2>6. job' \in [Workers -> Jobs] /\ lock' \in [Rules -> Workers \cup {None}]
      BY <1>16 DEF ArchiveDeletes
    <2>7. untold' \in BOOLEAN
      BY <1>16 DEF ArchiveDeletes
    <2> QED BY <1>16, <2>2, <2>4, <2>5, <2>6, <2>7 DEF ArchiveDeletes
  <1>17. ASSUME NEW r \in Rules, Pause(r)
        PROVE  TypeOK' /\ IsFiniteSet(entries')
    <2>1. [rule[r] EXCEPT !.active = FALSE] \in RuleRows
      BY DEF RuleRows
    <2> QED BY <1>17, <2>1, <1>now DEF Pause, Calls
  <1>18. ASSUME NEW r \in Rules, Unarchive(r)
        PROVE  TypeOK' /\ IsFiniteSet(entries')
    <2>1. [rule[r] EXCEPT !.archived = FALSE, !.active = FALSE, !.withdrawn = None] \in RuleRows
      BY DEF RuleRows
    <2>2. rule' \in [Rules -> RuleRows]
      BY <1>18, <2>1 DEF Unarchive
    <2> QED BY <1>18, <2>2, <1>now DEF Unarchive, Calls
  <1>19. ASSUME NEW r \in Rules, NEW s \in Slots, UpdateRule(r, s)
        PROVE  TypeOK' /\ IsFiniteSet(entries')
    BY <1>19, RulesAssumption DEF UpdateRule, Calls, RuleRows
  <1>20. ASSUME NEW p \in Spots, CreateOneOff(p)
        PROVE  TypeOK' /\ IsFiniteSet(entries')
    <2>1. NewEntry(None, p, p.date) \in Entries
      BY RulesAssumption, NewEntryType
    <2> QED BY <1>20, <2>1, RulesAssumption, FS_AddElement DEF CreateOneOff, Calls
  <1>21. ASSUME NEW e \in entries, CancelEntry(e)
        PROVE  TypeOK' /\ IsFiniteSet(entries')
    <2>1. [e EXCEPT !.live = FALSE, !.waiting = FALSE] \in Entries
      BY DEF Entries
    <2> QED BY <1>21, <2>1, RulesAssumption, ReplaceType DEF CancelEntry, Calls
  <1>22. ASSUME NEW e \in entries, RestoreEntry(e)
        PROVE  TypeOK' /\ IsFiniteSet(entries')
    <2>1. [e EXCEPT !.live = TRUE] \in Entries
      BY DEF Entries
    <2> QED BY <1>22, <2>1, RulesAssumption, ReplaceType DEF RestoreEntry, Calls
  <1>23. ASSUME NEW e \in entries, BookSeat(e)
        PROVE  TypeOK' /\ IsFiniteSet(entries')
    <2>1. [e EXCEPT !.seat = "charged"] \in Entries
      BY DEF Entries
    <2> QED BY <1>23, <2>1, RulesAssumption, ReplaceType DEF BookSeat, Calls
  <1>24. ASSUME NEW e \in entries, JoinQueue(e)
        PROVE  TypeOK' /\ IsFiniteSet(entries')
    <2>1. [e EXCEPT !.waiting = TRUE] \in Entries
      BY DEF Entries
    <2> QED BY <1>24, <2>1, RulesAssumption, ReplaceType DEF JoinQueue, Calls
  <1>25. ASSUME NEW e \in entries, FreeSeat(e)
        PROVE  TypeOK' /\ IsFiniteSet(entries')
    <2>1. [e EXCEPT !.seat = "freed"] \in Entries
      BY DEF Entries
    <2> QED BY <1>25, <2>1, RulesAssumption, ReplaceType DEF FreeSeat, Calls
  <1>26. ASSUME NEW e \in entries, NEW d \in Dates, MoveEntry(e, d)
        PROVE  TypeOK' /\ IsFiniteSet(entries')
    <2>1. [e EXCEPT !.date = d, !.moved = TRUE] \in Entries
      BY DEF Entries
    <2> QED BY <1>26, <2>1, RulesAssumption, ReplaceType DEF MoveEntry, Calls
  <1>27. ASSUME Tick
        PROVE  TypeOK' /\ IsFiniteSet(entries')
    BY <1>27, RulesAssumption DEF Tick
  <1>28. ASSUME UNCHANGED vars
        PROVE  TypeOK' /\ IsFiniteSet(entries')
    BY <1>28
    <1> QED BY <1>1, <1>2, <1>3, <1>4, <1>5, <1>6, <1>7, <1>8, <1>9, <1>10, <1>11, <1>12, <1>13,
         <1>14, <1>15, <1>16, <1>17, <1>18, <1>19, <1>20, <1>21, <1>22, <1>23, <1>24, <1>25, <1>26,
         <1>27, <1>28 DEF Next, Generates, Sweeps, Answers

---------------------------------------------------------------------------
(* Who holds which rule *)

\* A finished candidate leaves the worker with no rule in hand.
LEMMA FinishedIdle ==
    ASSUME NEW j \in Jobs
    PROVE  LET f == Finished(j) IN
           /\ f.rule = None /\ f.step \in {"idle", "choosing"} /\ f.kind \in {"none", "sweep"}
           /\ f.step = "choosing" => f.kind = "sweep"
  BY DEF Finished, Idle

LEMMA ControlStep ==
    ASSUME TypeOK, Control, [Next]_vars
    PROVE  Control'
  <1> USE RulesAssumption DEF TypeOK, Control, JobsOK, LocksOK, SlotsOK, RulesOK, Gen, Writes, eligible
  <1>same. ASSUME UNCHANGED <<rule, lock, job>> PROVE Control'
    BY <1>same
  <1>1. ASSUME NEW w \in Workers, ReadOccupants(w)
        PROVE  Control'
    BY <1>1 DEF ReadOccupants
  <1>2. ASSUME NEW w \in Workers, ReadWeeks(w)
        PROVE  Control'
    BY <1>2 DEF ReadWeeks
  <1>3. ASSUME NEW w \in Workers, InsertAndCommit(w)
        PROVE  Control'
    <2>0. job'[w].rule = None /\ job'[w].step \in {"idle", "choosing"} /\ job'[w].kind \in {"none", "sweep"}
          /\ (job'[w].step = "choosing" => job'[w].kind = "sweep")
          /\ \A v \in Workers \ {w} : job'[v] = job[v]
      BY <1>3, FinishedIdle DEF InsertAndCommit
    <2>1. JobsOK'
      BY <1>3, <2>0 DEF InsertAndCommit, Jobs, RuleRows
    <2>2. LocksOK'
      <3>0. /\ job'[w].step \in {"idle", "choosing"}
            /\ \A v \in Workers \ {w} : job'[v] = job[v]
        BY <1>3, <2>0 DEF InsertAndCommit, Idle
      <3> SUFFICES ASSUME NEW v \in Workers \ {w},
                          Writes(v) \/ (Gen(v) /\ job[v].kind # "create")
                   PROVE  lock'[job[v].rule] = v
        BY <3>0
      <3>1. job[v].rule \in Rules /\ lock[job[v].rule] = v
        OBVIOUS
      <3>2. CASE lock' = [lock EXCEPT ![job[w].rule] = None]
        <4>1. job[v].rule # job[w].rule \/ job[w].kind = "create"
          BY <1>3, <3>1 DEF InsertAndCommit
        <4> QED BY <1>3, <3>1, <3>2, <4>1 DEF InsertAndCommit
      <3> QED BY <1>3, <3>1, <3>2 DEF InsertAndCommit
    <2>3. SlotsOK'
      <3>1. \A v \in Workers : job[v].kind = "create" => job[v].rule \in Rules
        OBVIOUS
      <3>2. job[w].rule \in Rules /\ job[w].slot \in Slots
        BY <1>3 DEF InsertAndCommit
      <3>3. CASE job[w].kind = "create"
        <4>1. /\ \A r \in Rules \ {job[w].rule} : rule'[r] = rule[r]
              /\ rule'[job[w].rule].slot = job[w].slot /\ ~rule'[job[w].rule].archived
          BY <1>3, <3>2, <3>3 DEF InsertAndCommit, RuleRows
        <4>2. \A v \in Workers \ {w} : job[v].rule # job[w].rule
          BY <3>3
        <4> QED BY <2>0, <3>1, <3>2, <4>1, <4>2
      <3>4. CASE job[w].kind # "create"
        <4>1. /\ \A r \in Rules \ {job[w].rule} : rule'[r] = rule[r]
              /\ rule'[job[w].rule].slot = rule[job[w].rule].slot
              /\ rule[job[w].rule].slot # None
          BY <1>3, <3>2, <3>4 DEF InsertAndCommit, RuleRows
        <4> QED BY <2>0, <3>1, <3>2, <4>1
      <3> QED BY <3>3, <3>4
    <2>4. RulesOK'
      BY <1>3, <2>0 DEF InsertAndCommit, Jobs, RuleRows
    <2> QED BY <2>1, <2>2, <2>3, <2>4
  <1>4. ASSUME NEW w \in Workers, SweepStarts(w)
        PROVE  Control'
    <2>1. JobsOK'
      BY <1>4 DEF SweepStarts, Idle
    <2>2. LocksOK'
      BY <1>4 DEF SweepStarts, Idle
    <2>3. SlotsOK'
      BY <1>4 DEF SweepStarts, Idle
    <2>4. RulesOK'
      BY <1>4 DEF SweepStarts, Idle
    <2> QED BY <2>1, <2>2, <2>3, <2>4
  <1>5. ASSUME NEW w \in Workers, SweepClaims(w)
        PROVE  Control'
    <2>a. job[w].rule \in Rules /\ job[w].kind = "sweep" /\ lock[job[w].rule] = None
      BY <1>5 DEF SweepClaims
    <2>c. rule[job[w].rule].slot /= None
      BY <2>a
    <2>b. UNCHANGED rule /\ \A v \in Workers \ {w} : job'[v] = job[v]
      BY <1>5 DEF SweepClaims
    <2>1. CASE Claimable(job[w].rule)
      <3>1. /\ lock' = [lock EXCEPT ![job[w].rule] = w]
            /\ job'[w].step = "occupants" /\ job'[w].slot = rule[job[w].rule].slot
            /\ job'[w].rule = job[w].rule /\ job'[w].kind = job[w].kind
        BY <1>5, <2>1 DEF SweepClaims, Jobs
      <3>1a. \A v \in Workers : job'[v].kind = job[v].kind /\ job'[v].rule = job[v].rule
        BY <2>b, <3>1
      <3>2. JobsOK'
        BY <2>a, <2>b, <2>c, <2>1, <3>1 DEF Claimable, Jobs, RuleRows
      <3>3. LocksOK'
        BY <2>a, <2>b, <2>c, <2>1, <3>1 DEF Claimable, Jobs, RuleRows
      <3>4. SlotsOK'
        BY <2>b, <3>1a
      <3>5. RulesOK'
        BY <2>a, <2>b, <2>c, <2>1, <3>1 DEF Claimable, Jobs, RuleRows
      <3> QED BY <3>2, <3>3, <3>4, <3>5
    <2>2. CASE ~Claimable(job[w].rule)
      <3>1. /\ lock' = lock /\ job'[w].rule = None
            /\ job'[w].step = "choosing" /\ job'[w].kind = "sweep"
        BY <1>5, <2>2 DEF SweepClaims, Idle, Jobs
      <3> QED BY <2>a, <2>b, <3>1
    <2> QED BY <2>1, <2>2
  <1>6. ASSUME NEW w \in Workers, SweepSkips(w)
        PROVE  Control'
    <2>1. JobsOK'
      BY <1>6 DEF SweepSkips, Idle
    <2>2. LocksOK'
      BY <1>6 DEF SweepSkips, Idle
    <2>3. SlotsOK'
      BY <1>6 DEF SweepSkips, Idle
    <2>4. RulesOK'
      BY <1>6 DEF SweepSkips, Idle
    <2> QED BY <2>1, <2>2, <2>3, <2>4
  <1>7. ASSUME NEW w \in Workers, SweepEnds(w)
        PROVE  Control'
    <2>1. JobsOK'
      BY <1>7 DEF SweepEnds, Idle
    <2>2. LocksOK'
      BY <1>7 DEF SweepEnds, Idle
    <2>3. SlotsOK'
      BY <1>7 DEF SweepEnds, Idle
    <2>4. RulesOK'
      BY <1>7 DEF SweepEnds, Idle
    <2> QED BY <2>1, <2>2, <2>3, <2>4
  <1>8. ASSUME NEW w \in Workers, NEW r \in Rules, SweepSelects(w, r)
        PROVE  Control'
    <2>1. JobsOK'
      BY <1>8 DEF SweepSelects, Idle
    <2>2. LocksOK'
      BY <1>8 DEF SweepSelects, Idle
    <2>3. SlotsOK'
      BY <1>8 DEF SweepSelects, Idle
    <2>4. RulesOK'
      BY <1>8 DEF SweepSelects, Idle
    <2> QED BY <2>1, <2>2, <2>3, <2>4
  <1>9. ASSUME NEW w \in Workers, RollBack(w)
        PROVE  Control'
    <2>0. job'[w].rule = None /\ job'[w].step \in {"idle", "choosing"} /\ job'[w].kind \in {"none", "sweep"}
          /\ (job'[w].step = "choosing" => job'[w].kind = "sweep")
          /\ \A v \in Workers \ {w} : job'[v] = job[v]
      BY <1>9, FinishedIdle DEF RollBack
    <2>1. JobsOK'
      BY <1>9, <2>0 DEF RollBack, RuleRows
    <2>2. LocksOK'
      BY <1>9, <2>0 DEF RollBack, RuleRows
    <2>3. SlotsOK'
      BY <1>9, <2>0 DEF RollBack, RuleRows
    <2>4. RulesOK'
      BY <1>9, <2>0 DEF RollBack, RuleRows
    <2> QED BY <2>1, <2>2, <2>3, <2>4
  <1>10. ASSUME NEW w \in Workers, NEW r \in Rules, ResumeReads(w, r)
        PROVE  Control'
    <2>1. JobsOK'
      BY <1>10 DEF ResumeReads, Calls, Idle
    <2>2. LocksOK'
      BY <1>10 DEF ResumeReads, Calls, Idle
    <2>3. SlotsOK'
      BY <1>10 DEF ResumeReads, Calls, Idle
    <2>4. RulesOK'
      BY <1>10 DEF ResumeReads, Calls, Idle
    <2> QED BY <2>1, <2>2, <2>3, <2>4
  <1>11. ASSUME NEW w \in Workers, NEW r \in Rules, ArchiveReads(w, r)
        PROVE  Control'
    <2>1. JobsOK'
      BY <1>11 DEF ArchiveReads, Calls, Idle
    <2>2. LocksOK'
      BY <1>11 DEF ArchiveReads, Calls, Idle
    <2>3. SlotsOK'
      BY <1>11 DEF ArchiveReads, Calls, Idle
    <2>4. RulesOK'
      BY <1>11 DEF ArchiveReads, Calls, Idle
    <2> QED BY <2>1, <2>2, <2>3, <2>4
  <1>12. ASSUME NEW w \in Workers, NEW r \in Rules, NEW s \in Slots, CreateStarts(w, r, s)
        PROVE  Control'
    <2>1. JobsOK'
      BY <1>12 DEF CreateStarts, Calls, Idle
    <2>2. LocksOK'
      BY <1>12 DEF CreateStarts, Calls, Idle
    <2>3. SlotsOK'
      BY <1>12 DEF CreateStarts, Calls, Idle
    <2>4. RulesOK'
      BY <1>12 DEF CreateStarts, Calls, Idle
    <2> QED BY <2>1, <2>2, <2>3, <2>4
  <1>13. ASSUME NEW w \in Workers, ResumeLocks(w)
        PROVE  Control'
    <2>a. job[w].rule \in Rules /\ job[w].kind = "resume" /\ lock[job[w].rule] = None
      BY <1>13 DEF ResumeLocks
    <2>c. rule[job[w].rule].slot /= None
      BY <2>a
    <2>b. UNCHANGED rule /\ \A v \in Workers \ {w} : job'[v] = job[v]
      BY <1>13 DEF ResumeLocks
    <2>1. CASE ResumeSwaps(job[w].rule)
      <3>1. /\ lock' = [lock EXCEPT ![job[w].rule] = w]
            /\ job'[w].step = "occupants" /\ job'[w].slot = rule[job[w].rule].slot
            /\ job'[w].rule = job[w].rule /\ job'[w].kind = job[w].kind
        BY <1>13, <2>1 DEF ResumeLocks, Jobs
      <3>1a. \A v \in Workers : job'[v].kind = job[v].kind /\ job'[v].rule = job[v].rule
        BY <2>b, <3>1
      <3>2. JobsOK'
        BY <2>a, <2>b, <2>c, <2>1, <3>1 DEF ResumeSwaps, Jobs, RuleRows
      <3>3. LocksOK'
        BY <2>a, <2>b, <2>c, <2>1, <3>1 DEF ResumeSwaps, Jobs, RuleRows
      <3>4. SlotsOK'
        BY <2>b, <3>1a
      <3>5. RulesOK'
        BY <2>a, <2>b, <2>c, <2>1, <3>1 DEF ResumeSwaps, Jobs, RuleRows
      <3> QED BY <3>2, <3>3, <3>4, <3>5
    <2>2. CASE ~ResumeSwaps(job[w].rule)
      <3>1. /\ lock' = lock /\ job'[w].rule = None
            /\ job'[w].step = "idle" /\ job'[w].kind = "none"
        BY <1>13, <2>2 DEF ResumeLocks, Idle, Jobs
      <3> QED BY <2>a, <2>b, <3>1
    <2> QED BY <2>1, <2>2
  <1>14. ASSUME NEW w \in Workers, ArchiveLocks(w)
        PROVE  Control'
    <2>a. job[w].rule \in Rules /\ job[w].kind = "archive" /\ lock[job[w].rule] = None
      BY <1>14 DEF ArchiveLocks
    <2>c. rule[job[w].rule].slot /= None
      BY <2>a
    <2>b. UNCHANGED rule /\ \A v \in Workers \ {w} : job'[v] = job[v]
      BY <1>14 DEF ArchiveLocks
    <2>1. CASE ArchiveSwaps(job[w].rule)
      <3>1. /\ lock' = [lock EXCEPT ![job[w].rule] = w]
            /\ job'[w].step \in {"withdrawing", "deleting"}
            /\ job'[w].rule = job[w].rule /\ job'[w].kind = job[w].kind
        BY <1>14, <2>1 DEF ArchiveLocks, Jobs
      <3>1a. \A v \in Workers : job'[v].kind = job[v].kind /\ job'[v].rule = job[v].rule
        BY <2>b, <3>1
      <3>2. JobsOK'
        BY <2>a, <2>b, <2>c, <2>1, <3>1 DEF ArchiveSwaps, Jobs, RuleRows
      <3>3. LocksOK'
        BY <2>a, <2>b, <2>c, <2>1, <3>1 DEF ArchiveSwaps, Jobs, RuleRows
      <3>4. SlotsOK'
        BY <2>b, <3>1a
      <3>5. RulesOK'
        BY <2>a, <2>b, <2>c, <2>1, <3>1 DEF ArchiveSwaps, Jobs, RuleRows
      <3> QED BY <3>2, <3>3, <3>4, <3>5
    <2>2. CASE ~ArchiveSwaps(job[w].rule)
      <3>1. /\ lock' = lock /\ job'[w].rule = None
            /\ job'[w].step = "idle" /\ job'[w].kind = "none"
        BY <1>14, <2>2 DEF ArchiveLocks, Idle, Jobs
      <3> QED BY <2>a, <2>b, <3>1
    <2> QED BY <2>1, <2>2
  <1>15. ASSUME NEW w \in Workers, ArchivePreLocks(w)
        PROVE  Control'
    <2>1. JobsOK'
      BY <1>15 DEF ArchivePreLocks, Idle, RuleRows
    <2>2. LocksOK'
      BY <1>15 DEF ArchivePreLocks, Idle, RuleRows
    <2>3. SlotsOK'
      BY <1>15 DEF ArchivePreLocks, Idle, RuleRows
    <2>4. RulesOK'
      BY <1>15 DEF ArchivePreLocks, Idle, RuleRows
    <2> QED BY <2>1, <2>2, <2>3, <2>4
  <1>16. ASSUME NEW w \in Workers, ArchiveDeletes(w)
        PROVE  Control'
    <2>1. JobsOK'
      BY <1>16 DEF ArchiveDeletes, Idle, RuleRows
    <2>2. LocksOK'
      <3>0. /\ job'[w].step \in {"idle", "choosing"}
            /\ \A v \in Workers \ {w} : job'[v] = job[v]
        BY <1>16 DEF ArchiveDeletes, Idle
      <3> SUFFICES ASSUME NEW v \in Workers \ {w},
                          Writes(v) \/ (Gen(v) /\ job[v].kind # "create")
                   PROVE  lock'[job[v].rule] = v
        BY <3>0
      <3>1. job[v].rule \in Rules /\ lock[job[v].rule] = v
        OBVIOUS
      <3>2. CASE lock' = [lock EXCEPT ![job[w].rule] = None]
        <4>1. job[v].rule # job[w].rule \/ job[w].kind = "create"
          BY <1>16, <3>1 DEF ArchiveDeletes
        <4> QED BY <1>16, <3>1, <3>2, <4>1 DEF ArchiveDeletes
      <3> QED BY <1>16, <3>1, <3>2 DEF ArchiveDeletes
    <2>3. SlotsOK'
      <3>1. job[w].kind = "archive" /\ job[w].rule \in Rules /\ rule[job[w].rule].slot # None
        BY <1>16 DEF ArchiveDeletes
      <3>2. /\ \A r \in Rules : rule'[r].slot = rule[r].slot
            /\ \A r \in Rules \ {job[w].rule} : rule'[r] = rule[r]
        BY <1>16 DEF ArchiveDeletes, RuleRows
      <3>3. job'[w].rule = None /\ job'[w].kind = "none" /\ \A v \in Workers \ {w} : job'[v] = job[v]
        BY <1>16 DEF ArchiveDeletes, Idle
      <3>4. \A v \in Workers : job[v].kind = "create" => job[v].rule \in Rules
        OBVIOUS
      <3> QED BY <3>1, <3>2, <3>3, <3>4
    <2>4. RulesOK'
      BY <1>16 DEF ArchiveDeletes, Idle, RuleRows
    <2> QED BY <2>1, <2>2, <2>3, <2>4
  <1>17. ASSUME NEW r \in Rules, Pause(r)
        PROVE  Control'
    <2>1. JobsOK'
      BY <1>17 DEF Pause, Calls, RuleRows
    <2>2. LocksOK'
      BY <1>17 DEF Pause, Calls, RuleRows
    <2>3. SlotsOK'
      BY <1>17 DEF Pause, Calls, RuleRows
    <2>4. RulesOK'
      BY <1>17 DEF Pause, Calls, RuleRows
    <2> QED BY <2>1, <2>2, <2>3, <2>4
  <1>18. ASSUME NEW r \in Rules, Unarchive(r)
        PROVE  Control'
    <2>1. JobsOK'
      BY <1>18 DEF Unarchive, Calls, RuleRows
    <2>2. LocksOK'
      BY <1>18 DEF Unarchive, Calls, RuleRows
    <2>3. SlotsOK'
      BY <1>18 DEF Unarchive, Calls, RuleRows
    <2>4. RulesOK'
      BY <1>18 DEF Unarchive, Calls, RuleRows
    <2> QED BY <2>1, <2>2, <2>3, <2>4
  <1>19. ASSUME NEW r \in Rules, NEW s \in Slots, UpdateRule(r, s)
        PROVE  Control'
    <2>1. JobsOK'
      BY <1>19 DEF UpdateRule, Calls, RuleRows
    <2>2. LocksOK'
      BY <1>19 DEF UpdateRule, Calls, RuleRows
    <2>3. SlotsOK'
      BY <1>19 DEF UpdateRule, Calls, RuleRows
    <2>4. RulesOK'
      BY <1>19 DEF UpdateRule, Calls, RuleRows
    <2> QED BY <2>1, <2>2, <2>3, <2>4
  <1>20. ASSUME NEW p \in Spots, CreateOneOff(p)
        PROVE  Control'
    BY <1>20, <1>same DEF CreateOneOff
  <1>21. ASSUME NEW e \in entries, CancelEntry(e)
        PROVE  Control'
    BY <1>21, <1>same DEF CancelEntry
  <1>22. ASSUME NEW e \in entries, RestoreEntry(e)
        PROVE  Control'
    BY <1>22, <1>same DEF RestoreEntry
  <1>23. ASSUME NEW e \in entries, BookSeat(e)
        PROVE  Control'
    BY <1>23, <1>same DEF BookSeat
  <1>24. ASSUME NEW e \in entries, JoinQueue(e)
        PROVE  Control'
    BY <1>24, <1>same DEF JoinQueue
  <1>25. ASSUME NEW e \in entries, FreeSeat(e)
        PROVE  Control'
    BY <1>25, <1>same DEF FreeSeat
  <1>26. ASSUME NEW e \in entries, NEW d \in Dates, MoveEntry(e, d)
        PROVE  Control'
    BY <1>26, <1>same DEF MoveEntry
  <1>27. ASSUME Tick
        PROVE  Control'
    BY <1>27, <1>same DEF Tick
  <1>28. ASSUME UNCHANGED vars
        PROVE  Control'
    BY <1>28, <1>same
    <1> QED BY <1>1, <1>2, <1>3, <1>4, <1>5, <1>6, <1>7, <1>8, <1>9, <1>10, <1>11, <1>12, <1>13,
         <1>14, <1>15, <1>16, <1>17, <1>18, <1>19, <1>20, <1>21, <1>22, <1>23, <1>24, <1>25, <1>26,
         <1>27, <1>28 DEF Next, Generates, Sweeps, Answers

---------------------------------------------------------------------------
(* One entry a week *)

\* The entries the generator left where they stand.
Unmoved == {e \in entries : e.rule # None /\ ~e.moved}

\* A step that lays no entry anew and brings no generator nearer its insert
\* leaves the free weeks free.
LEMMA QuietFree ==
    ASSUME JobsOK, RulesAssumption, FreeWeeks,
           \A f \in Unmoved' : \E e \in Unmoved : e.rule = f.rule /\ e.date = f.date,
           \A v \in Workers : job'[v].step \in {"weeks", "insert"} => job'[v] = job[v]
    PROVE  FreeWeeks'
  <1> SUFFICES ASSUME NEW w \in Workers, job[w].step \in {"weeks", "insert"}, job'[w] = job[w]
               PROVE  /\ \A c, d \in job[w].free : mondayOf(c) = mondayOf(d) => c = d
                      /\ job[w].step = "insert" =>
                            \A d \in job[w].free, e \in entries' :
                               e.rule = job[w].rule /\ ~e.moved => mondayOf(e.date) # mondayOf(d)
    BY DEF FreeWeeks
  <1>1. job[w].rule # None
    BY DEF JobsOK, Gen
  <1> QED BY <1>1 DEF FreeWeeks, Unmoved

LEMMA SameEntries ==
    ASSUME entries' = entries, OnePerWeek PROVE OnePerWeek' /\ Unmoved' = Unmoved
  BY DEF OnePerWeek, Unmoved

\* Replacing an entry by one of the same rule and date, or by a moved one.
LEMMA ReplaceWeeks ==
    ASSUME TypeOK, Control, FreeWeeks, OnePerWeek, NEW e \in entries, NEW f, Replace(e, f), UNCHANGED job,
           f.rule = e.rule, f.moved \/ (~f.moved /\ ~e.moved /\ f.date = e.date)
    PROVE  FreeWeeks' /\ OnePerWeek'
  <1>1. \A g \in Unmoved' : \E h \in Unmoved : h.rule = g.rule /\ h.date = g.date
    BY DEF Unmoved, Replace
  <1>2. FreeWeeks'
    BY <1>1, RulesAssumption, QuietFree DEF Control
  <1>3. OnePerWeek'
    BY DEF OnePerWeek, Replace
  <1> QED BY <1>2, <1>3

LEMMA WeekStep ==
    ASSUME TypeOK, Control, FreeWeeks, OnePerWeek, [Next]_vars
    PROVE  FreeWeeks' /\ OnePerWeek'
  <1> USE RulesAssumption DEF Control
  <1>quiet. ASSUME entries' = entries,
                   \A v \in Workers : job'[v].step \in {"weeks", "insert"} => job'[v] = job[v]
            PROVE  FreeWeeks' /\ OnePerWeek'
    <2>1. \A f \in Unmoved' : \E e \in Unmoved : e.rule = f.rule /\ e.date = f.date
      BY <1>quiet, SameEntries
    <2> QED BY <1>quiet, <2>1, QuietFree, SameEntries
  <1>1. ASSUME NEW w \in Workers, ReadOccupants(w)
        PROVE  FreeWeeks' /\ OnePerWeek'
    <2>1. entries' = entries /\ \A v \in Workers \ {w} : job'[v] = job[v]
      BY <1>1 DEF ReadOccupants, TypeOK
    <2>2. job'[w].step = "weeks" /\ job'[w].free \subseteq Window(job[w].slot, job[w].from)
      BY <1>1 DEF ReadOccupants, TypeOK, Jobs
    <2>3. \A c, d \in job'[w].free : mondayOf(c) = mondayOf(d) => c = d
      BY <2>2, WindowWeeks
    <2> QED BY <2>1, <2>2, <2>3, SameEntries DEF FreeWeeks
  <1>2. ASSUME NEW w \in Workers, ReadWeeks(w)
        PROVE  FreeWeeks' /\ OnePerWeek'
    <2>1. entries' = entries /\ \A v \in Workers \ {w} : job'[v] = job[v]
      BY <1>2 DEF ReadWeeks, TypeOK
    <2>2. /\ job[w].step = "weeks" /\ job'[w].step = "insert" /\ job'[w].rule = job[w].rule
          /\ job'[w].free \subseteq job[w].free
          /\ \A d \in job'[w].free : mondayOf(d) \notin HeldWeeks(job[w].rule)
      BY <1>2 DEF ReadWeeks, TypeOK, Jobs
    <2>3. \A e \in entries : e.rule = job[w].rule => mondayOf(e.date) \in HeldWeeks(job[w].rule)
      BY DEF HeldWeeks, OwnEntries
    <2> QED BY <2>1, <2>2, <2>3, SameEntries DEF FreeWeeks
  <1>3. ASSUME NEW w \in Workers, InsertAndCommit(w)
        PROVE  FreeWeeks' /\ OnePerWeek'
    <2>1. job[w].step = "insert" /\ Gen(w) /\ job[w].rule \in Rules
      BY <1>3 DEF InsertAndCommit, Gen, JobsOK
    <2>2. \A e \in Inserted(job[w]) : e.rule = job[w].rule /\ ~e.moved /\ e.date \in job[w].free
      BY <2>1, InsertedType
    <2>3. \A e, f \in Inserted(job[w]) : e.date = f.date => e = f
      BY <2>1, InsertedType
    <2>4. entries' = entries \cup Inserted(job[w])
      BY <1>3 DEF InsertAndCommit
    <2>5. OnePerWeek'
      <3>1. \A e \in entries, f \in Inserted(job[w]) :
               e.rule = f.rule /\ ~e.moved => mondayOf(e.date) # mondayOf(f.date)
        BY <2>1, <2>2 DEF FreeWeeks
      <3>2. \A e, f \in Inserted(job[w]) : mondayOf(e.date) = mondayOf(f.date) => e = f
        BY <2>1, <2>2, <2>3 DEF FreeWeeks
      <3> QED BY <2>2, <2>4, <3>1, <3>2 DEF OnePerWeek
    <2>6. FreeWeeks'
      <3>1. job'[w].step \in {"idle", "choosing"} /\ \A v \in Workers \ {w} : job'[v] = job[v]
        BY <1>3, FinishedIdle DEF InsertAndCommit, TypeOK
      <3>2. ASSUME NEW v \in Workers \ {w}, job[v].step = "insert" PROVE job[v].rule # job[w].rule
        BY <2>1, <3>2 DEF Gen, JobsOK, LocksOK, SlotsOK
      <3> QED BY <2>2, <2>4, <3>1, <3>2 DEF FreeWeeks
    <2> QED BY <2>5, <2>6
  <1>4. ASSUME NEW w \in Workers, SweepStarts(w)
        PROVE  FreeWeeks' /\ OnePerWeek'
    BY <1>4, <1>quiet DEF SweepStarts, TypeOK, Jobs, Idle
  <1>5. ASSUME NEW w \in Workers, SweepClaims(w)
        PROVE  FreeWeeks' /\ OnePerWeek'
    BY <1>5, <1>quiet DEF SweepClaims, TypeOK, Jobs, Idle
  <1>6. ASSUME NEW w \in Workers, SweepSkips(w)
        PROVE  FreeWeeks' /\ OnePerWeek'
    BY <1>6, <1>quiet DEF SweepSkips, TypeOK, Jobs, Idle
  <1>7. ASSUME NEW w \in Workers, SweepEnds(w)
        PROVE  FreeWeeks' /\ OnePerWeek'
    BY <1>7, <1>quiet DEF SweepEnds, TypeOK, Jobs, Idle
  <1>8. ASSUME NEW w \in Workers, NEW r \in Rules, SweepSelects(w, r)
        PROVE  FreeWeeks' /\ OnePerWeek'
    BY <1>8, <1>quiet DEF SweepSelects, TypeOK, Jobs
  <1>9. ASSUME NEW w \in Workers, RollBack(w)
        PROVE  FreeWeeks' /\ OnePerWeek'
    BY <1>9, <1>quiet, FinishedIdle DEF RollBack, TypeOK
  <1>10. ASSUME NEW w \in Workers, NEW r \in Rules, ResumeReads(w, r)
        PROVE  FreeWeeks' /\ OnePerWeek'
    BY <1>10, <1>quiet DEF ResumeReads, TypeOK, Jobs, Idle
  <1>11. ASSUME NEW w \in Workers, NEW r \in Rules, ArchiveReads(w, r)
        PROVE  FreeWeeks' /\ OnePerWeek'
    BY <1>11, <1>quiet DEF ArchiveReads, TypeOK, Jobs, Idle
  <1>12. ASSUME NEW w \in Workers, NEW r \in Rules, NEW s \in Slots, CreateStarts(w, r, s)
        PROVE  FreeWeeks' /\ OnePerWeek'
    BY <1>12, <1>quiet DEF CreateStarts, TypeOK, Jobs, Idle
  <1>13. ASSUME NEW w \in Workers, ResumeLocks(w)
        PROVE  FreeWeeks' /\ OnePerWeek'
    BY <1>13, <1>quiet DEF ResumeLocks, TypeOK, Jobs, Idle
  <1>14. ASSUME NEW w \in Workers, ArchiveLocks(w)
        PROVE  FreeWeeks' /\ OnePerWeek'
    BY <1>14, <1>quiet DEF ArchiveLocks, TypeOK, Jobs, Idle
  <1>15. ASSUME NEW w \in Workers, ArchivePreLocks(w)
        PROVE  FreeWeeks' /\ OnePerWeek'
    BY <1>15, <1>quiet DEF ArchivePreLocks, TypeOK, Jobs, Idle
  <1>16. ASSUME NEW w \in Workers, ArchiveDeletes(w)
        PROVE  FreeWeeks' /\ OnePerWeek'
    <2>1. entries' \subseteq entries
      BY <1>16 DEF ArchiveDeletes
    <2>2. \A v \in Workers : job'[v].step \in {"weeks", "insert"} => job'[v] = job[v]
      BY <1>16 DEF ArchiveDeletes, TypeOK, Idle
    <2>3. \A f \in Unmoved' : \E e \in Unmoved : e.rule = f.rule /\ e.date = f.date
      BY <2>1 DEF Unmoved
    <2> QED BY <2>1, <2>2, <2>3, QuietFree DEF OnePerWeek
  <1>17. ASSUME NEW r \in Rules, Pause(r)
        PROVE  FreeWeeks' /\ OnePerWeek'
    BY <1>17, <1>quiet DEF Pause
  <1>18. ASSUME NEW r \in Rules, Unarchive(r)
        PROVE  FreeWeeks' /\ OnePerWeek'
    BY <1>18, <1>quiet DEF Unarchive
  <1>19. ASSUME NEW r \in Rules, NEW s \in Slots, UpdateRule(r, s)
        PROVE  FreeWeeks' /\ OnePerWeek'
    BY <1>19, <1>quiet DEF UpdateRule
  <1>20. ASSUME NEW p \in Spots, CreateOneOff(p)
        PROVE  FreeWeeks' /\ OnePerWeek'
    <2>1. entries' = entries \cup {NewEntry(None, p, p.date)} /\ job' = job
      BY <1>20 DEF CreateOneOff
    <2>2. NewEntry(None, p, p.date).rule = None
      BY DEF NewEntry
    <2>3. Unmoved' = Unmoved
      BY <2>1, <2>2 DEF Unmoved
    <2>4. OnePerWeek'
      BY <2>1, <2>2 DEF OnePerWeek
    <2> QED BY <2>1, <2>3, <2>4, QuietFree
  <1>21. ASSUME NEW e \in entries, CancelEntry(e)
        PROVE  FreeWeeks' /\ OnePerWeek'
    <2> DEFINE f == [e EXCEPT !.live = FALSE, !.waiting = FALSE]
    <2>1. f.rule = e.rule /\ (f.moved \/ (~f.moved /\ ~e.moved /\ f.date = e.date))
      BY DEF TypeOK, Entries
    <2>2. Replace(e, f) /\ UNCHANGED job
      BY <1>21 DEF CancelEntry
    <2> HIDE DEF f
    <2> QED BY <2>1, <2>2, ReplaceWeeks
  <1>22. ASSUME NEW e \in entries, RestoreEntry(e)
        PROVE  FreeWeeks' /\ OnePerWeek'
    <2> DEFINE f == [e EXCEPT !.live = TRUE]
    <2>1. f.rule = e.rule /\ (f.moved \/ (~f.moved /\ ~e.moved /\ f.date = e.date))
      BY DEF TypeOK, Entries
    <2>2. Replace(e, f) /\ UNCHANGED job
      BY <1>22 DEF RestoreEntry
    <2> HIDE DEF f
    <2> QED BY <2>1, <2>2, ReplaceWeeks
  <1>23. ASSUME NEW e \in entries, BookSeat(e)
        PROVE  FreeWeeks' /\ OnePerWeek'
    <2> DEFINE f == [e EXCEPT !.seat = "charged"]
    <2>1. f.rule = e.rule /\ (f.moved \/ (~f.moved /\ ~e.moved /\ f.date = e.date))
      BY DEF TypeOK, Entries
    <2>2. Replace(e, f) /\ UNCHANGED job
      BY <1>23 DEF BookSeat
    <2> HIDE DEF f
    <2> QED BY <2>1, <2>2, ReplaceWeeks
  <1>24. ASSUME NEW e \in entries, JoinQueue(e)
        PROVE  FreeWeeks' /\ OnePerWeek'
    <2> DEFINE f == [e EXCEPT !.waiting = TRUE]
    <2>1. f.rule = e.rule /\ (f.moved \/ (~f.moved /\ ~e.moved /\ f.date = e.date))
      BY DEF TypeOK, Entries
    <2>2. Replace(e, f) /\ UNCHANGED job
      BY <1>24 DEF JoinQueue
    <2> HIDE DEF f
    <2> QED BY <2>1, <2>2, ReplaceWeeks
  <1>25. ASSUME NEW e \in entries, FreeSeat(e)
        PROVE  FreeWeeks' /\ OnePerWeek'
    <2> DEFINE f == [e EXCEPT !.seat = "freed"]
    <2>1. f.rule = e.rule /\ (f.moved \/ (~f.moved /\ ~e.moved /\ f.date = e.date))
      BY DEF TypeOK, Entries
    <2>2. Replace(e, f) /\ UNCHANGED job
      BY <1>25 DEF FreeSeat
    <2> HIDE DEF f
    <2> QED BY <2>1, <2>2, ReplaceWeeks
  <1>26. ASSUME NEW e \in entries, NEW d \in Dates, MoveEntry(e, d)
        PROVE  FreeWeeks' /\ OnePerWeek'
    <2> DEFINE f == [e EXCEPT !.date = d, !.moved = TRUE]
    <2>1. f.rule = e.rule /\ (f.moved \/ (~f.moved /\ ~e.moved /\ f.date = e.date))
      BY DEF TypeOK, Entries
    <2>2. Replace(e, f) /\ UNCHANGED job
      BY <1>26 DEF MoveEntry
    <2> HIDE DEF f
    <2> QED BY <2>1, <2>2, ReplaceWeeks
  <1>27. ASSUME Tick
        PROVE  FreeWeeks' /\ OnePerWeek'
    BY <1>27, <1>quiet DEF Tick
  <1>28. ASSUME UNCHANGED vars
        PROVE  FreeWeeks' /\ OnePerWeek'
    BY <1>28, <1>quiet
    <1> QED BY <1>1, <1>2, <1>3, <1>4, <1>5, <1>6, <1>7, <1>8, <1>9, <1>10, <1>11, <1>12, <1>13,
         <1>14, <1>15, <1>16, <1>17, <1>18, <1>19, <1>20, <1>21, <1>22, <1>23, <1>24, <1>25, <1>26,
         <1>27, <1>28 DEF Next, Generates, Sweeps, Answers

---------------------------------------------------------------------------
(* Archived rules and rules that gain entries *)

LEMMA InactiveStep ==
    ASSUME TypeOK, Control, ArchivedIsInactive, [Next]_vars
    PROVE  ArchivedIsInactive'
  <1> USE RulesAssumption DEF TypeOK, Control, ArchivedIsInactive, RuleRows
  <1>same. ASSUME UNCHANGED rule PROVE ArchivedIsInactive'
    BY <1>same
  <1>1. ASSUME NEW w \in Workers, InsertAndCommit(w)
        PROVE  ArchivedIsInactive'
    <2>1. job[w].rule \in Rules /\ Gen(w)
      BY <1>1 DEF InsertAndCommit, Gen, JobsOK
    <2>2. job[w].kind \in {"resume", "create"} => ~rule[job[w].rule].archived
      BY <2>1 DEF RulesOK, SlotsOK
    <2> QED BY <1>1, <2>1, <2>2 DEF InsertAndCommit
  <1>2. ASSUME NEW w \in Workers, ArchiveDeletes(w)
        PROVE  ArchivedIsInactive'
    BY <1>2 DEF ArchiveDeletes
  <1>3. ASSUME NEW r \in Rules, Pause(r)
        PROVE  ArchivedIsInactive'
    BY <1>3 DEF Pause
  <1>4. ASSUME NEW r \in Rules, Unarchive(r)
        PROVE  ArchivedIsInactive'
    BY <1>4 DEF Unarchive
  <1>5. ASSUME NEW r \in Rules, NEW s \in Slots, UpdateRule(r, s)
        PROVE  ArchivedIsInactive'
    BY <1>5 DEF UpdateRule
  <1>6. \/ \E w \in Workers : InsertAndCommit(w) \/ ArchiveDeletes(w)
        \/ \E r \in Rules : Pause(r) \/ Unarchive(r) \/ \E s \in Slots : UpdateRule(r, s)
        \/ UNCHANGED rule
    BY DEF Next, Generates, Sweeps, Answers, ReadOccupants, ReadWeeks, RollBack, SweepStarts,
           SweepSelects, SweepClaims, SweepSkips, SweepEnds, ResumeReads, ResumeLocks, CreateStarts,
           ArchiveReads, ArchiveLocks, ArchivePreLocks, CreateOneOff, CancelEntry, RestoreEntry,
           MoveEntry, BookSeat, JoinQueue, FreeSeat, Tick
  <1> QED BY <1>same, <1>1, <1>2, <1>3, <1>4, <1>5, <1>6

\* Only a generator's insert lays entries of a rule.
LEMMA LaidByInsert ==
    ASSUME TypeOK, Control, [Next]_vars, NEW r \in Rules, NEW l \in Laid(r)
    PROVE  \E w \in Workers : InsertAndCommit(w)
  <1> USE RulesAssumption
  <1>1. l \in entries' /\ l.rule = r /\ ~l.moved /\ \A f \in entries : f.rule = r => f.date # l.date
    BY DEF Laid, OwnEntries
  <1>2. l \notin entries
    BY <1>1
  <1>3. ASSUME NEW e \in entries, NEW g, Replace(e, g), g.rule = e.rule, g.moved \/ g.date = e.date
        PROVE  FALSE
    BY <1>1, <1>2, <1>3 DEF Replace
  <1>4. ASSUME NEW e \in entries, CancelEntry(e) PROVE FALSE
    <2> DEFINE g == [e EXCEPT !.live = FALSE, !.waiting = FALSE]
    <2>1. g.rule = e.rule /\ (g.moved \/ g.date = e.date)
      BY DEF TypeOK, Entries
    <2>2. Replace(e, g)
      BY <1>4 DEF CancelEntry
    <2> HIDE DEF g
    <2> QED BY <1>3, <2>1, <2>2
  <1>5. ASSUME NEW e \in entries, RestoreEntry(e) PROVE FALSE
    <2> DEFINE g == [e EXCEPT !.live = TRUE]
    <2>1. g.rule = e.rule /\ (g.moved \/ g.date = e.date)
      BY DEF TypeOK, Entries
    <2>2. Replace(e, g)
      BY <1>5 DEF RestoreEntry
    <2> HIDE DEF g
    <2> QED BY <1>3, <2>1, <2>2
  <1>6. ASSUME NEW e \in entries, BookSeat(e) PROVE FALSE
    <2> DEFINE g == [e EXCEPT !.seat = "charged"]
    <2>1. g.rule = e.rule /\ (g.moved \/ g.date = e.date)
      BY DEF TypeOK, Entries
    <2>2. Replace(e, g)
      BY <1>6 DEF BookSeat
    <2> HIDE DEF g
    <2> QED BY <1>3, <2>1, <2>2
  <1>7. ASSUME NEW e \in entries, JoinQueue(e) PROVE FALSE
    <2> DEFINE g == [e EXCEPT !.waiting = TRUE]
    <2>1. g.rule = e.rule /\ (g.moved \/ g.date = e.date)
      BY DEF TypeOK, Entries
    <2>2. Replace(e, g)
      BY <1>7 DEF JoinQueue
    <2> HIDE DEF g
    <2> QED BY <1>3, <2>1, <2>2
  <1>8. ASSUME NEW e \in entries, FreeSeat(e) PROVE FALSE
    <2> DEFINE g == [e EXCEPT !.seat = "freed"]
    <2>1. g.rule = e.rule /\ (g.moved \/ g.date = e.date)
      BY DEF TypeOK, Entries
    <2>2. Replace(e, g)
      BY <1>8 DEF FreeSeat
    <2> HIDE DEF g
    <2> QED BY <1>3, <2>1, <2>2
  <1>9. ASSUME NEW e \in entries, NEW d \in Dates, MoveEntry(e, d) PROVE FALSE
    <2> DEFINE g == [e EXCEPT !.date = d, !.moved = TRUE]
    <2>1. g.rule = e.rule /\ (g.moved \/ g.date = e.date)
      BY DEF TypeOK, Entries
    <2>2. Replace(e, g)
      BY <1>9 DEF MoveEntry
    <2> HIDE DEF g
    <2> QED BY <1>3, <2>1, <2>2
  <1>10. ASSUME NEW p \in Spots, CreateOneOff(p) PROVE FALSE
    BY <1>1, <1>2, <1>10 DEF CreateOneOff, NewEntry
  <1>11. ASSUME NEW w \in Workers, ArchiveDeletes(w) PROVE FALSE
    BY <1>1, <1>2, <1>11 DEF ArchiveDeletes
  <1>12. \/ \E w \in Workers : InsertAndCommit(w) \/ ArchiveDeletes(w)
         \/ \E p \in Spots : CreateOneOff(p)
         \/ \E e \in entries : \/ CancelEntry(e) \/ RestoreEntry(e) \/ BookSeat(e) \/ JoinQueue(e)
                               \/ FreeSeat(e) \/ \E d \in Dates : MoveEntry(e, d)
         \/ UNCHANGED entries
    BY DEF Next, Generates, Sweeps, Answers, ReadOccupants, ReadWeeks, RollBack, SweepStarts,
           SweepSelects, SweepClaims, SweepSkips, SweepEnds, ResumeReads, ResumeLocks, CreateStarts,
           ArchiveReads, ArchiveLocks, ArchivePreLocks, Pause, Unarchive, UpdateRule, Tick
  <1> QED BY <1>1, <1>2, <1>4, <1>5, <1>6, <1>7, <1>8, <1>9, <1>10, <1>11, <1>12

LEMMA LaidStep ==
    ASSUME TypeOK, Control, [Next]_vars, NEW r \in Rules, Laid(r) # {}
    PROVE  rule'[r].active /\ ~rule'[r].archived
  <1>1. PICK l \in Laid(r) : TRUE
    OBVIOUS
  <1>2. PICK w \in Workers : InsertAndCommit(w)
    BY <1>1, LaidByInsert
  <1>3. Gen(w) /\ job[w].rule \in Rules /\ job[w].kind \in {"sweep", "resume", "create"}
    BY <1>2 DEF InsertAndCommit, Gen, Control, JobsOK
  <1>4. job[w].rule = r
    BY <1>1, <1>2, <1>3, InsertedType DEF InsertAndCommit, Control, Laid, OwnEntries
  <1>5. ~rule[r].archived /\ (job[w].kind = "sweep" => rule[r].active)
    BY <1>3, <1>4, RulesAssumption DEF Control, RulesOK, SlotsOK, eligible
  <1> QED BY <1>2, <1>3, <1>4, <1>5 DEF InsertAndCommit, TypeOK, RuleRows

---------------------------------------------------------------------------
(* What an archive accounts for *)

\* The count of an archive in force; without one nothing is counted.
CountsKept ==
    \A r \in Rules : IF rule[r].archived THEN rule[r].withdrawn = gone[r] ELSE gone[r] = 0

\* A rule's classes are booked and queued for, a studio's are not.
FamilyKept == \A e \in entries : e.seat # "never" \/ e.waiting => e.rule \in Regular

\* An archive that is about to delete is of a rule that is not archived, and holds every
\* class it could delete, but for one that was moved there.
ReachHeld ==
    \A w \in Workers :
        /\ Writes(w) => ~rule[job[w].rule].archived
        /\ job[w].step = "withdrawing" => job[w].rule \in Regular
        /\ job[w].step = "deleting" /\ job[w].rule \in Regular =>
              \A e \in Scheduled(job[w].rule, DateOf(job[w].from)) : e \in job[w].held \/ e.moved

ArchiveInv == CountsKept /\ FamilyKept /\ ReachHeld /\ WaitersTold

\* Who changes the entries, and who changes the rules.
LEMMA EntriesMove ==
    ASSUME [Next]_vars
    PROVE  \/ \E w \in Workers : InsertAndCommit(w) \/ ArchiveDeletes(w)
           \/ \E p \in Spots : CreateOneOff(p)
           \/ \E e \in entries : \/ CancelEntry(e) \/ RestoreEntry(e) \/ BookSeat(e) \/ JoinQueue(e)
                                 \/ FreeSeat(e) \/ \E d \in Dates : MoveEntry(e, d)
           \/ UNCHANGED <<entries, untold>>
  BY DEF Next, Generates, Sweeps, Answers, ReadOccupants, ReadWeeks, RollBack, SweepStarts,
         SweepSelects, SweepClaims, SweepSkips, SweepEnds, ResumeReads, ResumeLocks, CreateStarts,
         ArchiveReads, ArchiveLocks, ArchivePreLocks, Pause, Unarchive, UpdateRule, Tick, vars

LEMMA RulesMove ==
    ASSUME [Next]_vars
    PROVE  \/ \E w \in Workers : InsertAndCommit(w) \/ ArchiveDeletes(w)
           \/ \E r \in Rules : Pause(r) \/ Unarchive(r) \/ \E s \in Slots : UpdateRule(r, s)
           \/ UNCHANGED <<rule, gone>>
  BY DEF Next, Generates, Sweeps, Answers, ReadOccupants, ReadWeeks, RollBack, SweepStarts,
         SweepSelects, SweepClaims, SweepSkips, SweepEnds, ResumeReads, ResumeLocks, CreateStarts,
         ArchiveReads, ArchiveLocks, ArchivePreLocks, CreateOneOff, CancelEntry, RestoreEntry,
         MoveEntry, BookSeat, JoinQueue, FreeSeat, Tick, vars

\* Every door on an entry puts one in its place that is of the same rule; a later archive
\* could delete it only if it could have deleted the other.
Successor(e, f) ==
    /\ f.rule = e.rule
    /\ f.seat # "never" \/ f.waiting => f.rule \in Regular
    /\ f.moved \/ (~e.moved /\ f.date = e.date)
    /\ e.seat = "charged" => f.date = e.date
    /\ f.live => e.live \/ e.rule \notin Regular
    /\ f.live /\ e.rule \in Regular => Unlocked(e)

LEMMA DoorsReplace ==
    ASSUME TypeOK, NEW e \in entries,
           \/ CancelEntry(e) \/ RestoreEntry(e) \/ BookSeat(e) \/ JoinQueue(e)
           \/ FreeSeat(e) \/ \E d \in Dates : MoveEntry(e, d),
           FamilyKept
    PROVE  /\ \E f : Successor(e, f) /\ Replace(e, f)
           /\ UNCHANGED <<rule, lock, job, gone, untold>>
  <1> USE RulesAssumption DEF TypeOK, Entries
  <1>0. e.seat # "never" \/ e.waiting => e.rule \in Regular
    BY DEF FamilyKept
  <1>1. CASE CancelEntry(e)
    <2>1. Replace(e, [e EXCEPT !.live = FALSE, !.waiting = FALSE])
      BY <1>1 DEF CancelEntry
    <2>2. Successor(e, [e EXCEPT !.live = FALSE, !.waiting = FALSE])
      BY <1>0 DEF Successor
    <2> QED BY <1>1, <2>1, <2>2 DEF CancelEntry
  <1>2. CASE RestoreEntry(e)
    <2>1. Replace(e, [e EXCEPT !.live = TRUE])
      BY <1>2 DEF RestoreEntry
    <2>2. Successor(e, [e EXCEPT !.live = TRUE])
      BY <1>0, <1>2 DEF Successor, RestoreEntry
    <2> QED BY <1>2, <2>1, <2>2 DEF RestoreEntry
  <1>3. CASE BookSeat(e)
    <2>1. Replace(e, [e EXCEPT !.seat = "charged"])
      BY <1>3 DEF BookSeat
    <2>2. Successor(e, [e EXCEPT !.seat = "charged"])
      BY <1>0, <1>3 DEF Successor, BookSeat
    <2> QED BY <1>3, <2>1, <2>2 DEF BookSeat
  <1>4. CASE JoinQueue(e)
    <2>1. Replace(e, [e EXCEPT !.waiting = TRUE])
      BY <1>4 DEF JoinQueue
    <2>2. Successor(e, [e EXCEPT !.waiting = TRUE])
      BY <1>0, <1>4 DEF Successor, JoinQueue
    <2> QED BY <1>4, <2>1, <2>2 DEF JoinQueue
  <1>5. CASE FreeSeat(e)
    <2>1. Replace(e, [e EXCEPT !.seat = "freed"])
      BY <1>5 DEF FreeSeat
    <2>2. Successor(e, [e EXCEPT !.seat = "freed"])
      BY <1>0, <1>5 DEF Successor, FreeSeat
    <2> QED BY <1>5, <2>1, <2>2 DEF FreeSeat
  <1>6. ASSUME NEW d \in Dates, MoveEntry(e, d)
        PROVE  \E f : Successor(e, f) /\ Replace(e, f)
    <2>1. Replace(e, [e EXCEPT !.date = d, !.moved = TRUE])
      BY <1>6 DEF MoveEntry
    <2>2. Successor(e, [e EXCEPT !.date = d, !.moved = TRUE])
      BY <1>0, <1>6 DEF Successor, MoveEntry
    <2> QED BY <2>1, <2>2
  <1>7. UNCHANGED <<rule, lock, job, gone, untold>>
    BY DEF CancelEntry, RestoreEntry, BookSeat, JoinQueue, FreeSeat, MoveEntry
  <1> QED BY <1>1, <1>2, <1>3, <1>4, <1>5, <1>6, <1>7

\* A worker comes to write by locking, or by pre-locking, in a step of its own.
LEMMA WritersMove ==
    ASSUME TypeOK, [Next]_vars, NEW w \in Workers, job'[w].step \in {"withdrawing", "deleting"}
    PROVE  job'[w] = job[w] \/ (UNCHANGED <<entries, rule>> /\ (ArchiveLocks(w) \/ ArchivePreLocks(w)))
  <1> USE RulesAssumption DEF TypeOK
  <1>1. ASSUME NEW v \in Workers, v # w,
               \/ Generates(v) \/ RollBack(v) \/ Sweeps(v) \/ Answers(v)
               \/ \E r \in Rules : \/ ResumeReads(v, r) \/ ArchiveReads(v, r)
                                   \/ \E s \in Slots : CreateStarts(v, r, s)
        PROVE  job'[w] = job[w]
    BY <1>1 DEF Generates, ReadOccupants, ReadWeeks, InsertAndCommit, RollBack, Sweeps, SweepStarts, SweepSelects,
                SweepClaims, SweepSkips, SweepEnds, Answers, ResumeReads, ResumeLocks, CreateStarts, ArchiveReads,
                ArchiveLocks, ArchivePreLocks, ArchiveDeletes
  <1>2. ASSUME Generates(w) \/ Sweeps(w) PROVE FALSE
    <2>1. ~ReadOccupants(w) /\ ~ReadWeeks(w)
      BY DEF ReadOccupants, ReadWeeks, Jobs
    <2>2. ~InsertAndCommit(w)
      BY FinishedIdle DEF InsertAndCommit
    <2>3. SweepStarts(w) => job'[w].step = "choosing"
      <3>1. [Idle EXCEPT !.kind = "sweep", !.step = "choosing", !.from = now,
                         !.todo = {r \in Rules : eligible(r)}].step = "choosing"
        BY DEF Idle
      <3> QED BY <3>1 DEF SweepStarts
    <2>4. SweepEnds(w) => job'[w].step = "idle"
      BY DEF SweepEnds, Idle
    <2>5. SweepClaims(w) => job'[w].step \in {"occupants", "choosing"}
      BY DEF SweepClaims, Jobs
    <2>6. SweepSkips(w) => job'[w].step = "choosing"
      BY DEF SweepSkips, Jobs
    <2>7. ASSUME NEW r \in Rules, SweepSelects(w, r) PROVE job'[w].step \in {"claiming", "choosing"}
      BY <2>7 DEF SweepSelects, Jobs
    <2> QED BY <1>2, <2>1, <2>2, <2>3, <2>4, <2>5, <2>6, <2>7 DEF Generates, Sweeps
  <1>3. ASSUME RollBack(w) PROVE FALSE
    BY <1>3, FinishedIdle DEF RollBack
  <1>4. ASSUME NEW r \in Rules,
               ResumeReads(w, r) \/ ArchiveReads(w, r) \/ \E s \in Slots : CreateStarts(w, r, s)
        PROVE  FALSE
    <2>1. ResumeReads(w, r) => job'[w].step = "locking"
      <3>1. [Idle EXCEPT !.kind = "resume", !.step = "locking", !.rule = r].step = "locking"
        BY DEF Idle
      <3> QED BY <3>1 DEF ResumeReads
    <2>3. ArchiveReads(w, r) => job'[w].step = "locking"
      <3>1. [Idle EXCEPT !.kind = "archive", !.step = "locking", !.rule = r].step = "locking"
        BY DEF Idle
      <3> QED BY <3>1 DEF ArchiveReads
    <2>2. ASSUME NEW s \in Slots, CreateStarts(w, r, s) PROVE FALSE
      BY <2>2 DEF CreateStarts, Idle
    <2> QED BY <1>4, <2>1, <2>2, <2>3
  <1>5. ASSUME ResumeLocks(w) \/ ArchiveDeletes(w) PROVE FALSE
    BY <1>5 DEF ResumeLocks, ArchiveDeletes, Idle, Jobs
  <1>6. ASSUME ArchiveLocks(w) \/ ArchivePreLocks(w) PROVE UNCHANGED <<entries, rule>>
    BY <1>6 DEF ArchiveLocks, ArchivePreLocks
  <1>7. \/ \E v \in Workers : Generates(v) \/ RollBack(v) \/ Sweeps(v) \/ Answers(v)
        \/ \E v \in Workers, r \in Rules : \/ ResumeReads(v, r) \/ ArchiveReads(v, r)
                                           \/ \E s \in Slots : CreateStarts(v, r, s)
        \/ UNCHANGED job
    BY DEF Next, Workers, Pause, Unarchive, UpdateRule, CreateOneOff, CancelEntry, RestoreEntry, MoveEntry, BookSeat,
           JoinQueue, FreeSeat, Tick, vars
  <1> QED BY <1>1, <1>2, <1>3, <1>4, <1>5, <1>6, <1>7 DEF Answers

LEMMA CountsStep ==
    ASSUME TypeOK, IsFiniteSet(entries), Control, ArchiveInv, [Next]_vars
    PROVE  CountsKept'
  <1> USE RulesAssumption DEF TypeOK, CountsKept, RuleRows, ArchiveInv
  <1>1. ASSUME NEW w \in Workers, InsertAndCommit(w) PROVE CountsKept'
    <2>1. job[w].rule \in Rules
      BY <1>1 DEF InsertAndCommit, Gen, Control, JobsOK
    <2>2. gone' = gone /\ \A r \in Rules : /\ rule'[r].archived = rule[r].archived
                                           /\ rule'[r].withdrawn = rule[r].withdrawn
      BY <1>1, <2>1 DEF InsertAndCommit
    <2> QED BY <2>2
  <1>2. ASSUME NEW w \in Workers, ArchiveDeletes(w) PROVE CountsKept'
    <2>1. job[w].rule \in Rules /\ ~rule[job[w].rule].archived
      BY <1>2 DEF ArchiveDeletes, Writes, Control, JobsOK, ReachHeld
    <2>2. Cardinality(Withdrawn(w)) \in Nat
      <3>1. Withdrawn(w) \subseteq entries
        BY DEF Withdrawn, Scheduled, OwnEntries
      <3> QED BY <3>1, FS_Subset, FS_CardinalityType
    <2> DEFINE n == Cardinality(Withdrawn(w))
    <2>3. /\ rule' = [rule EXCEPT ![job[w].rule].archived = TRUE, ![job[w].rule].active = FALSE,
                                  ![job[w].rule].withdrawn = n]
          /\ gone' = [gone EXCEPT ![job[w].rule] = @ + n]
      BY <1>2 DEF ArchiveDeletes
    <2> HIDE DEF n
    <2>4. n \in Nat /\ gone[job[w].rule] = 0
      BY <2>1, <2>2 DEF n
    <2> QED BY <2>1, <2>3, <2>4
  <1>3. ASSUME NEW r \in Rules, Pause(r) \/ Unarchive(r) \/ \E s \in Slots : UpdateRule(r, s) PROVE CountsKept'
    BY <1>3 DEF Pause, Unarchive, UpdateRule
  <1> QED BY <1>1, <1>2, <1>3, RulesMove

\* The entries a generator of another rule lays are not an archive's to delete.
LEMMA InsertedElsewhere ==
    ASSUME TypeOK, Control, NEW v \in Workers, InsertAndCommit(v), NEW w \in Workers, Writes(w)
    PROVE  \A e \in Inserted(job[v]) : e.rule # job[w].rule
  <1>1. Gen(v) /\ job[v].rule \in Rules /\ job[w].rule \in Rules /\ v # w
    BY DEF InsertAndCommit, Gen, Writes, Control, JobsOK
  <1>2. job[v].rule # job[w].rule
    BY <1>1 DEF Control, JobsOK, LocksOK, SlotsOK, Writes, Gen
  <1> QED BY <1>1, <1>2, InsertedType DEF InsertAndCommit, Control

LEMMA ReachStep ==
    ASSUME TypeOK, Control, ArchiveInv, [Next]_vars
    PROVE  ReachHeld'
  <1> USE RulesAssumption
  <1> SUFFICES ASSUME NEW w \in Workers, job'[w].step \in {"withdrawing", "deleting"}
               PROVE  /\ ~rule'[job'[w].rule].archived
                      /\ job'[w].step = "withdrawing" => job'[w].rule \in Regular
                      /\ job'[w].step = "deleting" /\ job'[w].rule \in Regular =>
                           \A e \in entries' :
                             e.rule = job'[w].rule /\ e.live /\ e.date > DateOf(job'[w].from)
                             => e \in job'[w].held \/ e.moved
    BY DEF ReachHeld, Writes, Scheduled, OwnEntries, DateOf
  <1>0. (UNCHANGED <<entries, rule>> /\ ArchivePreLocks(w)) \/ (UNCHANGED <<entries, rule>> /\ ArchiveLocks(w))
        \/ job'[w] = job[w]
    BY WritersMove
  <1>1. CASE UNCHANGED <<entries, rule>> /\ ArchivePreLocks(w)
    <2>1. /\ Writes(w) /\ job[w].step = "withdrawing"
          /\ job'[w] = [job[w] EXCEPT !.step = "deleting", !.held = Scheduled(job[w].rule, DateOf(job[w].from))]
      BY <1>1 DEF ArchivePreLocks, TypeOK, Writes
    <2>2. job'[w].rule = job[w].rule /\ job'[w].from = job[w].from /\ job'[w].step = "deleting"
          /\ job'[w].held = Scheduled(job[w].rule, DateOf(job[w].from))
      BY <2>1 DEF TypeOK, Jobs
    <2>3. ~rule[job[w].rule].archived
      BY <2>1 DEF ArchiveInv, ReachHeld
    <2> QED BY <1>1, <2>2, <2>3 DEF Scheduled, OwnEntries
  <1>2. CASE UNCHANGED <<entries, rule>> /\ ArchiveLocks(w)
    <2>1. /\ job[w].rule \in Rules /\ ArchiveSwaps(job[w].rule)
          /\ job'[w].rule = job[w].rule
          /\ job'[w].step = IF job[w].rule \in Regular THEN "withdrawing" ELSE "deleting"
      BY <1>2 DEF ArchiveLocks, TypeOK, Jobs, Idle, Control, JobsOK
    <2> QED BY <1>2, <2>1 DEF ArchiveSwaps
  <1>3. CASE job'[w] = job[w]
    <2>1. /\ Writes(w) /\ job[w].rule \in Rules /\ lock[job[w].rule] = w /\ ~rule[job[w].rule].archived
          /\ job[w].step = "withdrawing" => job[w].rule \in Regular
      BY <1>3 DEF Writes, Control, JobsOK, LocksOK, ArchiveInv, ReachHeld
    <2>2. ~rule'[job[w].rule].archived
      <3>1. ASSUME NEW v \in Workers, InsertAndCommit(v) PROVE ~rule'[job[w].rule].archived
        <4>1. job[v].rule \in Rules
          BY <3>1 DEF InsertAndCommit, Gen, Control, JobsOK
        <4> QED BY <2>1, <3>1, <4>1 DEF InsertAndCommit, TypeOK, RuleRows
      <3>2. ASSUME NEW v \in Workers, ArchiveDeletes(v) PROVE ~rule'[job[w].rule].archived
        <4>1. v # w
          BY <1>3, <2>1, <3>2 DEF ArchiveDeletes, TypeOK, Idle, Writes
        <4>2. job[v].rule # job[w].rule
          BY <2>1, <3>2, <4>1 DEF ArchiveDeletes, Writes, Control, LocksOK
        <4> QED BY <2>1, <3>2, <4>2 DEF ArchiveDeletes, TypeOK
      <3>3. ASSUME NEW r \in Rules, Pause(r) \/ Unarchive(r) \/ \E s \in Slots : UpdateRule(r, s)
            PROVE  ~rule'[job[w].rule].archived
        BY <2>1, <3>3 DEF Pause, Unarchive, UpdateRule, TypeOK, RuleRows
      <3> QED BY <2>1, <3>1, <3>2, <3>3, RulesMove
    <2> DEFINE Mine(e) == e.rule = job[w].rule /\ e.live /\ e.date > DateOf(job[w].from)
    <2>3. ASSUME job[w].step = "deleting", job[w].rule \in Regular, NEW e \in entries', Mine(e)
          PROVE  e \in job[w].held \/ e.moved
      <3>0. \A g \in entries : Mine(g) => g \in job[w].held \/ g.moved
        BY <2>3 DEF ArchiveInv, ReachHeld, Scheduled, OwnEntries
      <3>1. ASSUME NEW v \in Workers, InsertAndCommit(v) PROVE e \in entries
        BY <2>1, <2>3, <3>1, InsertedElsewhere DEF InsertAndCommit
      <3>2. ASSUME NEW v \in Workers, ArchiveDeletes(v) PROVE e \in entries
        BY <3>2 DEF ArchiveDeletes
      <3>3. ASSUME NEW p \in Spots, CreateOneOff(p) PROVE e \in entries
        BY <2>1, <2>3, <3>3 DEF CreateOneOff, NewEntry
      <3>4. ASSUME NEW g \in entries,
                   \/ CancelEntry(g) \/ RestoreEntry(g) \/ BookSeat(g) \/ JoinQueue(g)
                   \/ FreeSeat(g) \/ \E d \in Dates : MoveEntry(g, d)
            PROVE  e \in job[w].held \/ e.moved
        <4>1. PICK f : Successor(g, f) /\ Replace(g, f)
          BY <3>4, DoorsReplace DEF ArchiveInv
        <4>2. CASE e \in entries
          BY <2>3, <3>0, <4>2
        <4>3. CASE e = f /\ ~e.moved
          <5>1. Mine(g) /\ g \notin job[w].held
            BY <2>3, <4>1, <4>3 DEF Successor, Unlocked
          <5>2. ~g.moved
            BY <4>1, <4>3 DEF Successor
          <5> QED BY <3>0, <5>1, <5>2
        <4> QED BY <4>1, <4>2, <4>3 DEF Replace
      <3> HIDE DEF Mine
      <3> QED BY <2>3, <3>0, <3>1, <3>2, <3>3, <3>4, EntriesMove
    <2> QED BY <1>3, <2>1, <2>2, <2>3
  <1> QED BY <1>0, <1>1, <1>2, <1>3

LEMMA AccountsStep ==
    ASSUME TypeOK, Control, ArchiveInv, [Next]_vars
    PROVE  FamilyKept' /\ WaitersTold' /\ ChargedStays
  <1> USE RulesAssumption
  <1>1. ASSUME NEW w \in Workers, InsertAndCommit(w) PROVE FamilyKept' /\ WaitersTold' /\ ChargedStays
    <2>1. entries' = entries \cup Inserted(job[w]) /\ untold' = untold
      BY <1>1 DEF InsertAndCommit
    <2>2. \A e \in Inserted(job[w]) : e.seat = "never" /\ ~e.waiting
      BY DEF Inserted, NewEntry
    <2> QED BY <2>1, <2>2 DEF ArchiveInv, FamilyKept, WaitersTold, ChargedStays
  <1>2. ASSUME NEW w \in Workers, ArchiveDeletes(w) PROVE FamilyKept' /\ WaitersTold' /\ ChargedStays
    <2>1. /\ entries' = entries \ Withdrawn(w) /\ \A e \in Withdrawn(w) : e.seat # "charged"
          /\ Withdrawn(w) = {e \in Scheduled(job[w].rule, DateOf(job[w].from)) : e.seat # "charged"}
          /\ untold' = (untold \/ \E e \in Withdrawn(w) \ Told(w) : e.waiting /\ ~e.moved)
          /\ job[w].step = "deleting"
      BY <1>2 DEF ArchiveDeletes, Withdrawn
    <2>2. ASSUME NEW e \in Withdrawn(w), e \notin Told(w), e.waiting, ~e.moved PROVE FALSE
      <3>1. e \in entries /\ e.rule = job[w].rule /\ e \notin job[w].held
        BY <2>1, <2>2 DEF Told, Scheduled, OwnEntries
      <3>2. job[w].rule \in Regular
        BY <2>2, <3>1 DEF ArchiveInv, FamilyKept
      <3> QED BY <2>1, <2>2, <3>1, <3>2 DEF ArchiveInv, ReachHeld
    <2> QED BY <2>1, <2>2 DEF ArchiveInv, FamilyKept, WaitersTold, ChargedStays
  <1>3. ASSUME NEW p \in Spots, CreateOneOff(p) PROVE FamilyKept' /\ WaitersTold' /\ ChargedStays
    <2>1. entries' = entries \cup {NewEntry(None, p, p.date)} /\ untold' = untold
      BY <1>3 DEF CreateOneOff
    <2>2. NewEntry(None, p, p.date).seat = "never" /\ ~NewEntry(None, p, p.date).waiting
      BY DEF NewEntry
    <2> QED BY <2>1, <2>2 DEF ArchiveInv, FamilyKept, WaitersTold, ChargedStays
  <1>4. ASSUME NEW e \in entries,
               \/ CancelEntry(e) \/ RestoreEntry(e) \/ BookSeat(e) \/ JoinQueue(e)
               \/ FreeSeat(e) \/ \E d \in Dates : MoveEntry(e, d)
        PROVE  FamilyKept' /\ WaitersTold' /\ ChargedStays
    <2>1. PICK f : Successor(e, f) /\ Replace(e, f)
      BY <1>4, DoorsReplace DEF ArchiveInv
    <2>2. untold' = untold
      BY <1>4, DoorsReplace DEF ArchiveInv
    <2> QED BY <2>1, <2>2 DEF Successor, Replace, ArchiveInv, FamilyKept, WaitersTold, ChargedStays
  <1>5. ASSUME UNCHANGED <<entries, untold>> PROVE FamilyKept' /\ WaitersTold' /\ ChargedStays
    BY <1>5 DEF ArchiveInv, FamilyKept, WaitersTold, ChargedStays
  <1> QED BY <1>1, <1>2, <1>3, <1>4, <1>5, EntriesMove

---------------------------------------------------------------------------
(* What an edit promises *)

\* A set of dates has a first one.
LEMMA FirstDate ==
    ASSUME NEW T \in SUBSET Nat, T # {}
    PROVE  \E d \in T : \A c \in T : d <= c
  <1> DEFINE R == OpToRel(<, Nat)
  <1>1. IsWellFoundedOn(R, Nat)
    BY NatLessThanWellFounded
  <1>2. \E d \in T : \A c \in T : ~ (<<c, d>> \in R)
    <2> HIDE DEF R
    <2> QED BY <1>1, WFMin, Zenon
  <1>3. \E d \in T : \A c \in T : ~ (c < d)
    BY <1>2 DEF OpToRel
  <1> QED BY <1>3

\* The prediction looks at least as far ahead as a run of the generator does.
LEMMA HorizonReaches ==
    ASSUME NEW slot, NEW at \in Nat PROVE Window(slot, at) \subseteq probeHorizon(slot, at)
  <1>1. DEFAULT_WEEKS \in Nat \ {0} /\ DaysPerWeek \in Nat \ {0} /\ SlotsPerDay \in Nat \ {0}
    BY CalendarAssumption
  <1>2. (DEFAULT_WEEKS + 1) * DaysPerWeek <= (DEFAULT_WEEKS * 2) * DaysPerWeek
    <2>1. DEFAULT_WEEKS + 1 <= DEFAULT_WEEKS * 2
      BY <1>1
    <2> DEFINE x == DEFAULT_WEEKS + 1
               y == DEFAULT_WEEKS * 2
    <2>2. x \in Nat /\ y \in Nat /\ x <= y
      BY <1>1, <2>1
    <2> HIDE DEF x, y
    <2>3. x * DaysPerWeek <= y * DaysPerWeek
      BY <1>1, <2>2
    <2> QED BY <2>3 DEF x, y
  <1>3. DateOf(at) \in Nat
    BY <1>1 DEF DateOf
  <1> DEFINE near == (DEFAULT_WEEKS + 1) * DaysPerWeek
             far == (DEFAULT_WEEKS * 2) * DaysPerWeek
  <1>4. near \in Nat /\ far \in Nat /\ near <= far
    BY <1>1, <1>2
  <1> HIDE DEF near, far
  <1>5. DateOf(at)..(DateOf(at) + near - 1) \subseteq DateOf(at)..(DateOf(at) + far - 1)
    BY <1>3, <1>4
  <1> QED BY <1>5 DEF Window, FirstOf, Ahead, getNextOccurrences, probeHorizon, near, far

LEMMA PromiseHolds ==
    ASSUME TypeOK, Control
    PROVE  PromiseKept
  <1> SUFFICES ASSUME NEW r \in Rules, eligible(r)
               PROVE LET at == now + ProbeLead
                         s == rule[r].slot
                         first == CHOOSE d \in Predicted(r, at) : \A c \in Predicted(r, at) : d <= c
                     IN  /\ /\ Predicted(r, at) # {} /\ first \in Window(s, at)
                            /\ \A e \in Live : SpansMeet(e, PlaceOf(s, first)) => e.date = first
                            => first \in Fillable(r, at)
                         /\ \A d \in Fillable(r, at) : Predicted(r, at) # {} /\ first <= d
    BY DEF PromiseKept
  <1> DEFINE at == now + ProbeLead
             s == rule[r].slot
             P == Predicted(r, at)
             first == CHOOSE d \in P : \A c \in P : d <= c
  <1>1. at \in Nat /\ s \in Slots
    BY RulesAssumption DEF TypeOK, RuleRows, Control, SlotsOK, eligible
  <1>2. s.time \in Nat /\ s.len \in Nat
    BY <1>1, RulesAssumption, CalendarAssumption
  <1>3. P \in SUBSET Nat
    BY CalendarAssumption DEF Predicted, probeHorizon, Ahead, getNextOccurrences, Dates
  <1>4. P # {} => first \in P /\ \A c \in P : first <= c
    <2> SUFFICES ASSUME P # {} PROVE \E d \in P : \A c \in P : d <= c
      OBVIOUS
    <2> HIDE DEF P
    <2> QED BY <1>3, FirstDate
  <1>5. Fillable(r, at) \subseteq P
    <2>1. Window(s, at) \subseteq probeHorizon(s, at)
      BY <1>1, HorizonReaches
    <2> QED BY <2>1 DEF Fillable, Predicted, Unheld, Live
  <1>6. ASSUME NEW d \in P, d \in Window(s, at),
               \A e \in Live : SpansMeet(e, PlaceOf(s, d)) => e.date = d
        PROVE  d \in Fillable(r, at)
    <2>1. /\ \A e \in Live : e.date = d => ~spansOverlap(e, s)
          /\ ~Declined("sweep", r, s, d, at) /\ mondayOf(d) \notin HeldWeeks(r)
      BY DEF Predicted
    <2>2. \A e \in OwnEntries(r) : e.date # d
      BY <2>1 DEF HeldWeeks
    <2>3. Unheld(r, s, d)
      BY <2>1, <2>2 DEF Unheld, OwnEntries, Live
    <2>4. SpotFree(PlaceOf(s, d), entries)
      <3> SUFFICES ASSUME NEW e \in entries, e.live, SpansMeet(e, PlaceOf(s, d)) PROVE FALSE
        BY DEF SpotFree
      <3>1. e.date = d /\ e \in Live
        BY <1>6 DEF Live
      <3>2. e.time \in Nat /\ e.len \in Nat /\ d \in Nat
        BY <1>3, <3>1, CalendarAssumption DEF TypeOK, Entries, Dates
      <3>3. /\ d * SlotsPerDay + e.time < d * SlotsPerDay + s.time + s.len
            /\ d * SlotsPerDay + s.time < d * SlotsPerDay + e.time + e.len
        BY <3>1 DEF SpansMeet, PlaceOf, classStartInstant
      <3> DEFINE m == d * SlotsPerDay
      <3>4. m \in Nat
        BY <3>2, CalendarAssumption
      <3> HIDE DEF m
      <3>5. e.time < s.time + s.len /\ s.time < e.time + e.len
        <4>1. m + e.time < m + s.time + s.len /\ m + s.time < m + e.time + e.len
          BY <3>3 DEF m
        <4> HIDE DEF s
        <4> QED BY <1>2, <3>2, <3>4, <4>1
      <3> QED BY <2>1, <3>1, <3>5 DEF spansOverlap
    <2> QED BY <1>6, <2>1, <2>2, <2>3, <2>4 DEF Fillable, Lands
  <1> HIDE DEF P
  <1>7. /\ P # {} /\ first \in Window(s, at) /\ (\A e \in Live : SpansMeet(e, PlaceOf(s, first)) => e.date = first)
           => first \in Fillable(r, at)
        /\ \A d \in Fillable(r, at) : P # {} /\ first <= d
    <2>1. ASSUME P # {}, first \in Window(s, at),
                 \A e \in Live : SpansMeet(e, PlaceOf(s, first)) => e.date = first
          PROVE  first \in Fillable(r, at)
      BY <1>4, <1>6, <2>1
    <2> QED BY <1>4, <1>5, <2>1
  <1> QED BY <1>7 DEF P

---------------------------------------------------------------------------
(* The theorems *)

IInv == TypeOK /\ IsFiniteSet(entries) /\ Control /\ FreeWeeks /\ OnePerWeek /\ ArchivedIsInactive
        /\ ArchiveInv

LEMMA InitIInv == Init => IInv
  <1> SUFFICES ASSUME Init PROVE IInv
    OBVIOUS
  <1> USE RulesAssumption DEF Init
  <1>1. TypeOK
    <2>1. rule \in [Rules -> RuleRows]
      BY DEF RuleRows
    <2>2. job \in [Workers -> Jobs] /\ lock \in [Rules -> Workers \cup {None}]
      BY IdleType
    <2>3. gone \in [Rules -> Nat]
      OBVIOUS
    <2>4. entries \subseteq Entries /\ untold \in BOOLEAN
      OBVIOUS
    <2>5. now \in 0..MaxNow /\ calls \in 0..MaxCalls /\ failures \in 0..MaxFailures
      OBVIOUS
    <2> QED BY <2>1, <2>2, <2>3, <2>4, <2>5 DEF TypeOK
  <1>2. IsFiniteSet(entries)
    BY FS_EmptySet
  <1>3. Control
    BY DEF Control, JobsOK, LocksOK, SlotsOK, RulesOK, Gen, Writes, Idle
  <1>4. FreeWeeks /\ OnePerWeek
    BY DEF FreeWeeks, OnePerWeek, Idle
  <1>5. ArchivedIsInactive
    BY DEF ArchivedIsInactive
  <1>6. ArchiveInv
    BY DEF ArchiveInv, CountsKept, FamilyKept, ReachHeld, WaitersTold, Writes, Idle
  <1> QED BY <1>1, <1>2, <1>3, <1>4, <1>5, <1>6 DEF IInv

LEMMA IInvStep == IInv /\ [Next]_vars => IInv'
  <1> SUFFICES ASSUME IInv, [Next]_vars PROVE IInv'
    OBVIOUS
  <1>1. TypeOK' /\ IsFiniteSet(entries') /\ Control'
    BY TypeStep, ControlStep DEF IInv, Control
  <1>2. FreeWeeks' /\ OnePerWeek' /\ ArchivedIsInactive'
    BY WeekStep, InactiveStep DEF IInv
  <1>3. ArchiveInv'
    BY CountsStep, ReachStep, AccountsStep DEF IInv, ArchiveInv
  <1> QED BY <1>1, <1>2, <1>3 DEF IInv

LEMMA AlwaysIInv == Spec => []IInv
  <1> QED BY InitIInv, IInvStep, PTL DEF Spec

\* Every state of the generators is well typed: rows, jobs and locks are what
\* the code's types say, and the calendar stays finite.
THEOREM TypeInvariant == Spec => []TypeOK
  <1>1. IInv => TypeOK
    BY DEF IInv
  <1> QED BY <1>1, AlwaysIInv, PTL

\* For any number of sweeps, teacher requests and rules, and any window, the
\* entries a rule's generators made stand in different weeks unless the
\* teacher moved them: between a generator's reading of the weeks and its
\* insert, the row lock lets no other generator of the rule in.
THEOREM OneEntryPerWeek == Spec => []OnePerWeek
  <1>1. IInv => OnePerWeek
    BY DEF IInv
  <1> QED BY <1>1, AlwaysIInv, PTL

\* No interleaving of resumes, archives and edits leaves an archived rule
\* active.
THEOREM ArchivedRulesRest == Spec => []ArchivedIsInactive
  <1>1. IInv => ArchivedIsInactive
    BY DEF IInv
  <1> QED BY <1>1, AlwaysIInv, PTL

\* A generator that chose a rule before it was paused or archived adds no entry
\* to it afterwards.
THEOREM OnlyRunningRulesGrow == Spec => AddedWhileRunning
  <1>1. IInv /\ [Next]_vars =>
          [\A r \in Rules : Laid(r) # {} => rule'[r].active /\ ~rule'[r].archived]_vars
    BY LaidStep DEF IInv
  <1> QED BY <1>1, AlwaysIInv, PTL DEF Spec, AddedWhileRunning

\* Whatever sweeps, requests, bookings and moves meet an archive, it counts what it takes
\* away, whoever waited on a class that was not moved under it was told, and a class
\* somebody owes for stays on its date.
THEOREM ArchivesAccount == Spec => ArchiveAccounted
  <1>1. IInv /\ [Next]_vars => [WithdrawnIsGone' /\ WaitersTold' /\ ChargedStays]_vars
    <2> SUFFICES ASSUME IInv, [Next]_vars PROVE WithdrawnIsGone' /\ WaitersTold' /\ ChargedStays
      OBVIOUS
    <2>1. CountsKept' /\ WaitersTold' /\ ChargedStays
      BY CountsStep, AccountsStep DEF IInv
    <2> QED BY <2>1 DEF CountsKept, WithdrawnIsGone
  <1> QED BY <1>1, AlwaysIInv, PTL DEF Spec, ArchiveAccounted

\* Whatever the rules, the entries and the window: the week an edit promises is one the
\* next sweep fills, if it reaches so far and no neighbour lies across midnight, and none
\* before it is filled.
THEOREM PromisesKept == Spec => []PromiseKept
  <1>1. IInv => PromiseKept
    BY PromiseHolds DEF IInv
  <1> QED BY <1>1, AlwaysIInv, PTL

\* A rule and its entries agree, whichever sweeps and requests meet over them.
THEOREM RulesAgree == Spec => []Consistent
  <1> QED BY TypeInvariant, OneEntryPerWeek, ArchivedRulesRest, PTL DEF Consistent
=============================================================================
