------------------------------ MODULE RowLocks ------------------------------
(***************************************************************************)
(* What the code relies on PostgreSQL for, at READ COMMITTED: transactions *)
(* of several statements over rows with a committed value, row locks in    *)
(* four modes, and an insert that waits for whoever has an uncommitted     *)
(* write of the same key.  A module that EXTENDS this one says what each   *)
(* statement of each transaction is; this one says when a statement waits, *)
(* what it sees, and what a commit and a rollback leave.                   *)
(*                                                                         *)
(* A row is a pair of its table and a key; None is the value of a row that *)
(* does not exist.  Rows of the table "key" are entries of a unique index  *)
(* over another table, rows of the table "ghost" the model's own memory:   *)
(* both are written with the transaction and nobody locks them.            *)
(***************************************************************************)
EXTENDS Naturals, FiniteSets, Sequences

CONSTANTS
  Worker,      \* the server's concurrent requests and jobs
  None         \* a row that does not exist, a worker that does nothing

VARIABLES
  row,         \* the committed value of every row
  job          \* what each worker runs, and its open transaction

pgVars == <<row, job>>
-----------------------------------------------------------------------------
(* Lock modes.  Two of them conflict exactly when they add up to five.     *)
KeyShare == 1
Share == 2
NoKeyUpdate == 3
Update == 4
Insert == 5       \* asked for by an insert, held as Update

Conflict(a, b) == a + b >= 5

Nothing == [r \in {} |-> None]

(* The values of over, and of under where it says nothing.                 *)
Overlay(over, under) ==
  [r \in DOMAIN over \cup DOMAIN under |-> IF r \in DOMAIN over THEN over[r] ELSE under[r]]

Existing(v, rows) == {r \in rows : v[r] # None}

(* A statement: the rows it locks and in which mode, whether it takes them *)
(* in ascending order of their key, what it writes, what the caller keeps  *)
(* of its result, whether the caller gives up on that result, and whether  *)
(* it is the last of its transaction.                                      *)
Reads == [takes |-> Nothing, inOrder |-> FALSE, puts |-> Nothing,
          notes |-> Nothing, stop |-> FALSE, ends |-> FALSE]

Locks(rows, mode) == [Reads EXCEPT !.takes = [r \in rows |-> mode]]
\* Fault: the rows are locked in whatever order the plan meets them.
LocksUnordered(rows) == Locks(rows, Update)

LocksInOrder(rows) == [Locks(rows, Update) EXCEPT !.inOrder = TRUE]
Writes(values) == [Locks(DOMAIN values, NoKeyUpdate) EXCEPT !.puts = values]
Deletes(rows) == [Locks(rows, Update) EXCEPT !.puts = [r \in rows |-> None]]
Inserts(values) == [Locks(DOMAIN values, Insert) EXCEPT !.puts = values]

Keeping(notes, st) == [st EXCEPT !.notes = notes]
StopIf(cond, st) == [st EXCEPT !.stop = cond]
Ends(st) == [st EXCEPT !.ends = TRUE]
Also(values, st) == [st EXCEPT !.puts = Overlay(values, @)]

-----------------------------------------------------------------------------
AtRest == [op |-> None, pc |-> 1, wants |-> Nothing, inOrder |-> FALSE,
           locks |-> {}, wrote |-> Nothing, seen |-> Nothing]

Busy(w) == job[w].op # None
Waiting(w) == DOMAIN job[w].wants # {}

(* What a statement of w sees: the committed rows under its own writes.    *)
View(w) == Overlay(job[w].wrote, row)

(* Whether x stands in the way of w's lock on r: an insert waits for an    *)
(* uncommitted write of the same key, every other statement for a lock.    *)
StandsInTheWay(x, r, mode) ==
  IF mode = Insert
  THEN r \in DOMAIN job[x].wrote
  ELSE \E m \in KeyShare .. Update : <<r, m>> \in job[x].locks /\ Conflict(m, mode)

Free(w, r, mode) == \A x \in Worker \ {w} : ~StandsInTheWay(x, r, mode)

(* The rows a statement locks: those that exist, and every key it inserts. *)
Wanted(w, st) ==
  [r \in {q \in DOMAIN st.takes : st.takes[q] = Insert} \cup
            Existing(View(w), DOMAIN st.takes) |-> st.takes[r]]

(* The row of a waiting statement that is locked next.                     *)
Turn(w) ==
  LET left == DOMAIN job[w].wants
  IN  {r \in left : job[w].inOrder => \A q \in left : r[2] <= q[2]}

(* The lock w ends up with on a row it waited for: none if the row is gone *)
(* or no longer matches, and none if the key it inserts is taken.          *)
Taken(w, st, r, mode) ==
  IF r \notin DOMAIN st.takes THEN {}
  ELSE IF mode = Insert
  THEN IF View(w)[r] = None THEN {<<r, Update>>} ELSE {}
  ELSE IF View(w)[r] # None THEN {<<r, mode>>} ELSE {}

(* What the statement writes: the rows it names that w has locked, the     *)
(* entries of a unique index of the rows it writes, the ghosts, and a row  *)
(* it creates under an id nobody else can know yet.                        *)
Written(w, locks, st) ==
  LET mine(r) == \E m \in NoKeyUpdate .. Update : <<r, m>> \in locks
  IN  [r \in {q \in DOMAIN st.puts :
             \/ q[1] = "ghost"
             \/ q[1] = "key" /\ \E p \in DOMAIN st.takes : mine(p)
             \/ q[1] # "key" /\ q \notin DOMAIN st.takes /\ View(w)[q] = None
             \/ mine(q)} |-> st.puts[r]]

(* The statement st of w is done and locks is all w holds now.  A caller   *)
(* that gives up rolls its transaction back and is finished; the last      *)
(* statement of a transaction commits it, and last ends the request.       *)
Completes(w, st, locks, last) ==
  LET wrote == Overlay(Written(w, locks, st), job[w].wrote)
      seen == Overlay(st.notes, job[w].seen)
      next == [job[w] EXCEPT !.pc = @ + 1, !.wants = Nothing, !.seen = seen]
  IN  /\ row' = IF st.ends /\ ~st.stop THEN Overlay(wrote, row) ELSE row
      /\ job' = [job EXCEPT ![w] =
           IF st.stop \/ last THEN AtRest
           ELSE IF st.ends THEN [next EXCEPT !.locks = {}, !.wrote = Nothing]
           ELSE [next EXCEPT !.locks = locks, !.wrote = wrote]]

(* w sends its next statement.  It is done at once if it locks nothing, or *)
(* a single row nobody is in the way of; otherwise w queues for its rows.  *)
Issue(w, st, last) ==
  LET wanted == Wanted(w, st)
      rows == DOMAIN wanted
  IN  /\ Busy(w) /\ ~Waiting(w)
      /\ IF Cardinality(rows) <= 1 /\ \A r \in rows : Free(w, r, wanted[r])
         THEN Completes(w, st, job[w].locks \cup
                UNION {Taken(w, st, r, wanted[r]) : r \in rows}, last)
         ELSE /\ job' = [job EXCEPT ![w].wants = wanted, ![w].inOrder = st.inOrder]
              /\ UNCHANGED row

(* A row w waits for is free and its turn has come.  An upsert that waited *)
(* to insert the row and finds it there now asks for its lock.             *)
Grant(w, r, st, last) ==
  /\ r \in Turn(w)
  /\ Free(w, r, job[w].wants[r])
  /\ LET locks == job[w].locks \cup Taken(w, st, r, job[w].wants[r])
         left == [q \in DOMAIN job[w].wants \ {r} |-> job[w].wants[q]]
     IN  IF r \in DOMAIN st.takes /\ st.takes[r] # job[w].wants[r]
         THEN /\ job' = [job EXCEPT ![w].wants[r] = st.takes[r]]
              /\ UNCHANGED row
         ELSE IF DOMAIN left = {}
         THEN Completes(w, st, locks, last)
         ELSE /\ job' = [job EXCEPT ![w].wants = left, ![w].locks = locks]
              /\ UNCHANGED row

(* The request dies: a lock or transaction timeout, a deadlock's victim, a *)
(* process that stops.  Its open transaction is rolled back.               *)
Fails(w) == /\ Busy(w)
            /\ job' = [job EXCEPT ![w] = AtRest]
            /\ UNCHANGED row
-----------------------------------------------------------------------------
(* The workers w waits for: those in the way of a row it may ask for next. *)
WaitsFor(w) ==
  {x \in Worker \ {w} : \E r \in Turn(w) : StandsInTheWay(x, r, job[w].wants[r])}

(***************************************************************************)
(* No set of transactions ever waits in a circle.  PostgreSQL breaks such  *)
(* a circle by failing one of them with 40P01, which reaches its caller as *)
(* an error; nothing but the order in which the code takes its rows keeps  *)
(* it from forming (docs/lock-order.md).                                   *)
(***************************************************************************)
NoDeadlock ==
  \A ring \in (SUBSET Worker) \ {{}} : \E w \in ring : WaitsFor(w) \cap ring = {}
=============================================================================
