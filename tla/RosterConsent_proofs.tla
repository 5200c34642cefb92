------------------------- MODULE RosterConsent_proofs -------------------------
(***************************************************************************)
(* What no interleaving of the requests of RosterConsent can do to the     *)
(* person's rows: an erased person keeps nothing, an archived link has     *)
(* nothing live, an address belongs to one invitation, a refusal stands    *)
(* and its tombstone stays, and no requests wait for one another in a      *)
(* circle.                                                                 *)
(***************************************************************************)
EXTENDS RosterRequest_proofs

USE DEF KeyShare, Share, NoKeyUpdate, Update, Insert
-------------------------------------------------------------------------------
(* A lock a request gets conflicts with nobody's: the statement waited for *)
(* them, or it makes the row, and whoever holds a row that is not there    *)
(* has written it.                                                         *)
LEMMA ApartKept ==
  ASSUME NEW w \in Worker, NEW x \in Worker, x # w, Doing(job[w], row), Locking(job[x], row),
         Apart(job[w], job[x]), NEW k,
         \A r, m : Holds(k, r, m) => Holds(job[w], r, m) \/ Gained(job[w], row, r, m),
         Clear(w, Sends(job[w], row), k.locks)
  PROVE  Apart(k, job[x])
<1> DEFINE j == job[w]
           y == job[x]
           st == Sends(j, row)
           v == Sees(j, row)
<1> SUFFICES ASSUME NEW r, NEW m, NEW n, Holds(k, r, m), Holds(y, r, n), Personal(r),
                    ~Holds(j, r, m)
             PROVE  ~Conflict(m, n)
  BY DEF Apart
<1>1. Gained(j, row, r, m) OBVIOUS
<1>2. LockFits(y, row, r, n) BY DEF Locking
<1>3. r \in DOMAIN st.takes /\ Free(w, r, st.takes[r]) BY DEF Clear, Holds
<1>4. st.takes[r] \in KeyShare .. Insert /\ (st.takes[r] = Insert => r # Student)
  BY <1>3, DoingFits DEF FitSt, Fit, Asks
<1>5. ~StandsInTheWay(x, r, st.takes[r]) BY <1>3 DEF Free
<1>6. CASE st.takes[r] # Insert
  <2>1. m = st.takes[r] BY <1>1, <1>6 DEF Gained
  <2>2. ~Conflict(n, m) BY <1>2, <1>5, <1>6, <2>1 DEF StandsInTheWay, LockFits, Holds
  <2> QED BY <1>2, <1>4, <2>1, <2>2 DEF Conflict, LockFits
<1>7. CASE st.takes[r] = Insert
  <2>1. v[r] = None /\ m = Update BY <1>1, <1>7 DEF Gained
  <2>2. r \notin Drafts(y) BY <1>5, <1>7 DEF StandsInTheWay, Drafts
  <2>3. row[r] # None /\ r \in Rows BY <1>2, <2>2 DEF LockFits
  <2>4. r \in Drafts(j)
    <3>1. r \in DOMAIN row BY <2>3 DEF Doing, Sound, RowsTyped
    <3>2. r \in DOMAIN row /\ r \notin Drafts(j) => v[r] = row[r]
      BY DEF Sees, Drafts, Overlay
    <3> QED BY <2>1, <2>3, <3>1, <3>2
  <2>5. Owns(j, r) BY <2>4 DEF Doing, Good, Locking
  <2>6. PICK p \in NoKeyUpdate .. Update : Holds(j, r, p) BY <2>5 DEF Owns, Holds
  <2>7. ~Conflict(p, n) BY <2>6 DEF Apart
  <2>8. n = KeyShare BY <1>2, <2>6, <2>7 DEF Conflict, LockFits
  <2>9. r = Student BY <1>2, <2>8 DEF LockFits
  <2> QED BY <1>4, <1>7, <2>9
<1> QED BY <1>6, <1>7

(* What a request has written of the person's rows nobody else holds but   *)
(* to reference the person.                                                *)
LEMMA ApartDrafts ==
  ASSUME NEW n, NEW x, NEW rw, NEW rx, Apart(n, x), Locking(n, rx), Locking(x, rw),
         NEW r \in Drafts(n), Personal(r)
  PROVE  /\ ~Owns(x, r)
         /\ \A m : Holds(x, r, m) => m = KeyShare /\ r = Student
<1>1. PICK p \in NoKeyUpdate .. Update : Holds(n, r, p) BY DEF Locking, Owns, Holds
<1>2. ASSUME NEW m, Holds(x, r, m) PROVE m = KeyShare /\ r = Student
  <2>1. LockFits(x, rw, r, m) BY <1>2 DEF Locking
  <2>2. ~Conflict(p, m) BY <1>1, <1>2 DEF Apart
  <2> QED BY <2>1, <2>2, <1>1 DEF LockFits, Conflict
<1> QED BY <1>2 DEF Owns, Holds

-------------------------------------------------------------------------------
(* What the commit of a request changes.                                   *)
Committing(n, rw) ==
  /\ Good(n, rw) /\ Sound(rw) /\ scope \in Scopes
  /\ n.op.does # "Invite" => n.pc = Lengths[n.op.does] + 1

LEMMA CommitPast ==
  ASSUME NEW n, NEW rw, Committing(n, rw)
  PROVE  /\ n.op.does \in DOMAIN StudentGate => Past(n, StudentGate)
         /\ n.op.does \in DOMAIN CourseGate => Past(n, CourseGate)
         /\ n.op.does \in DOMAIN LinkGate => Past(n, LinkGate)
         /\ n.op.does = "Promote" => n.pc = 8
         /\ n.op.does = "Complete" => n.pc = 5
         /\ n.op.does = "Reopen" => n.pc = 6
         /\ n.op.does = "Archive" => n.pc = 6
         /\ n.op.does = "Erase" => n.pc = 13
<1>1. n.op.does # "Invite" => n.pc = Lengths[n.op.does] + 1 BY DEF Committing
<1> QED BY <1>1 DEF Past, StudentGate, CourseGate, LinkGate, Lengths

LEMMA CommitRows ==
  ASSUME NEW n, NEW rw, Committing(n, rw)
  PROVE  /\ RowsTyped(Sees(n, rw)) /\ DOMAIN rw = Rows
         /\ \A r \in Rows : r \notin Drafts(n) => Sees(n, rw)[r] = rw[r]
         /\ \A r \in Drafts(n) : Allowed(n.op, r, Sees(n, rw)[r])
<1>1. Good(n, rw) /\ RowsTyped(rw) BY DEF Committing, Sound
<1>2. DOMAIN rw = Rows BY <1>1 DEF RowsTyped
<1>3. \A r : r \in DOMAIN rw /\ r \notin Drafts(n) => Sees(n, rw)[r] = rw[r] BY SeesRow
<1>4. \A r : r \in Drafts(n) => Sees(n, rw)[r] = n.wrote[r] BY SeesDraft
<1> QED BY <1>1, <1>2, <1>3, <1>4, SeesTyped DEF Good, Drafting

(* The student only goes, a class only completes, a payment never goes.    *)
LEMMA CommitTurns ==
  ASSUME NEW n, NEW rw, Committing(n, rw)
  PROVE  LET v == Sees(n, rw)
         IN  /\ Student \in Drafts(n) => v[Student] = "erased" /\ n.op.does = "Erase"
             /\ rw[Student] = "erased" => v[Student] = "erased"
             /\ \A c \in Class : Course(c) \in Drafts(n) => v[Course(c)] = "completed"
             /\ \A c \in Class : rw[Owed(c)] # None => v[Owed(c)] # None
<1> DEFINE v == Sees(n, rw)
<1>1. /\ DOMAIN rw = Rows /\ \A r \in Rows : r \notin Drafts(n) => v[r] = rw[r]
      /\ \A r \in Drafts(n) : Allowed(n.op, r, v[r])
  BY CommitRows
<1> HIDE DEF v
<1>2. Student \in Drafts(n) => v[Student] = "erased" /\ n.op.does = "Erase" BY <1>1 DEF Allowed
<1>3. rw[Student] = "erased" => v[Student] = "erased" BY <1>1, <1>2, RowsAre
<1>4. \A c \in Class : Course(c) \in Drafts(n) => v[Course(c)] = "completed"
  BY <1>1, RowTags DEF Allowed
<1>5. ASSUME NEW c \in Class, rw[Owed(c)] # None PROVE v[Owed(c)] # None
  <2>1. CASE Owed(c) \notin Drafts(n) BY <2>1, <1>1, <1>5, RowsAre
  <2>2. CASE Owed(c) \in Drafts(n)
    <3>1. v[Owed(c)] \in Words BY <2>2, <1>1, RowTags DEF Allowed, Words
    <3> QED BY <3>1, NoneIs
  <2> QED BY <2>1, <2>2
<1> QED BY <1>2, <1>3, <1>4, <1>5 DEF v

(* A registration is charged by a request that has the link, or is priced  *)
(* by the completion of its class.                                         *)
LEMMA CommitCharges ==
  ASSUME NEW n, NEW rw, Committing(n, rw), NEW c \in Class,
         Booking(c) \in Drafts(n), Sees(n, rw)[Booking(c)] = "charged"
  PROVE  \/ Link \in Drafts(n) /\ n.op.does \in DOMAIN StudentGate
         \/ Link \in Drafts(n) /\ n.op.does = "Promote" /\ rw[Queued(c)] = "waiting"
              /\ Holds(n, Course(c), Update)
         \/ n.op.does = "Complete" /\ Course(c) \in Drafts(n) /\ rw[Booking(c)] = "charged"
<1> DEFINE v == Sees(n, rw)
<1>1. Allowed(n.op, Booking(c), v[Booking(c)]) BY CommitRows
<1>2. /\ n.op.does \in {"Book", "RosterAdd", "WalkIn", "Promote", "Complete"}
      /\ n.op.class = c
  BY <1>1, RowTags DEF Allowed
<1>3. Good(n, rw) BY DEF Committing
<1>4. CASE n.op.does = "Complete"
  <2>1. n.pc = 5 BY <1>4, CommitPast
  <2> QED BY <2>1, <1>2, <1>3, <1>4 DEF Good, Completing
<1>5. CASE n.op.does = "Promote"
  <2>1. n.pc = 8 BY <1>5, CommitPast
  <2>2. Past(n, LinkGate) /\ Past(n, CourseGate)
    BY <1>5, CommitPast DEF LinkGate, CourseGate
  <2> QED BY <2>1, <2>2, <1>2, <1>3, <1>5 DEF Good, Gated, Promoting
<1>6. CASE n.op.does \in {"Book", "RosterAdd", "WalkIn"}
  <2>1. Past(n, LinkGate) /\ n.op.does \in DOMAIN StudentGate
    BY <1>6, CommitPast DEF LinkGate, StudentGate
  <2> QED BY <2>1, <1>3 DEF Good, Gated
<1> QED BY <1>2, <1>4, <1>5, <1>6

LEMMA CommitOwes ==
  ASSUME NEW n, NEW rw, Committing(n, rw), NEW c \in Class,
         Owed(c) \in Drafts(n)
  PROVE  /\ \/ rw[Owed(c)] # None
            \/ n.op.does = "Complete" /\ Live(rw, c)
         /\ Sees(n, rw)[Owed(c)] = "open" =>
              \/ n.op.does = "Complete" /\ Live(rw, c)
              \/ n.op.does = "Reopen" /\ n.pc = 6 /\ c = n.op.class
<1> DEFINE v == Sees(n, rw)
<1>1. Allowed(n.op, Owed(c), v[Owed(c)]) BY CommitRows
<1>2. Good(n, rw) /\ Personal(Owed(c)) BY RowTags DEF Committing, Personal
<1>3. PICK m \in NoKeyUpdate .. Update : Holds(n, Owed(c), m)
  BY <1>2 DEF Good, Locking, Owns, Holds
<1>4. LockFits(n, rw, Owed(c), m) BY <1>2, <1>3 DEF Good, Locking
<1>5. rw[Owed(c)] # None \/ n.op.does = "Complete"
  BY <1>4, RowTags DEF LockFits, Creates
<1>6. n.op.does = "Complete" => Live(rw, c)
  <2> SUFFICES ASSUME n.op.does = "Complete" PROVE Live(rw, c) OBVIOUS
  <2>1. c = n.op.class BY <1>1, RowTags DEF Allowed
  <2>2. n.pc = 5 /\ Past(n, CourseGate) BY CommitPast DEF CourseGate
  <2> QED BY <2>1, <2>2, <1>2 DEF Good, Completing, Gated, Live
<1>7. v[Owed(c)] = "open" => n.op.does = "Complete" \/ (n.op.does = "Reopen" /\ c = n.op.class)
  BY <1>1, RowTags DEF Allowed
<1> QED BY <1>5, <1>6, <1>7, CommitPast

LEMMA CommitLinks ==
  ASSUME NEW n, NEW rw, Committing(n, rw), Link \in Drafts(n)
  PROVE  LET v == Sees(n, rw)
         IN  \/ v[Link] = None /\ n.op.does \in {"Unlink", "Erase"}
             \/ /\ v[Link] # None
                /\ \/ n.op.does \in DOMAIN StudentGate \ {"Unlink"} /\ ~v[Link].filed
                   \/ n.op.does = "Promote" /\ ~v[Link].filed
                   \/ n.op.does \in {"Reopen", "Unarchive"} /\ rw[Link] # None /\ ~v[Link].filed
                   \/ n.op.does = "Archive" /\ rw[Link] # None
<1> DEFINE v == Sees(n, rw)
<1>1. Allowed(n.op, Link, v[Link]) BY CommitRows
<1>2. Good(n, rw) /\ Personal(Link) BY RowTags DEF Committing, Personal
<1>3. PICK m \in NoKeyUpdate .. Update : Holds(n, Link, m)
  BY <1>2 DEF Good, Locking, Owns, Holds
<1>4. LockFits(n, rw, Link, m) BY <1>2, <1>3 DEF Good, Locking
<1>5. rw[Link] # None \/ n.op.does \notin {"Reopen", "Archive", "Unarchive"}
  BY <1>4 DEF LockFits, Creates
<1> HIDE DEF v
<1>7. CASE v[Link] = None
  <2>1. n.op.does \in {"Unlink", "Erase"} BY <1>1, <1>7, NoneIs DEF Allowed
  <2> QED BY <2>1, <1>7 DEF v
<1>8. CASE v[Link] # None
  <2>1. /\ v[Link].filed <=> n.op.does = "Archive"
        /\ n.op.does \in {"Accept", "Book", "RosterAdd", "WalkIn", "Join", "Promote",
                          "Reopen", "Unarchive", "Archive"}
    BY <1>1, <1>8 DEF Allowed
  <2> QED BY <2>1, <1>5, <1>8 DEF StudentGate, v
<1> QED BY <1>7, <1>8

-------------------------------------------------------------------------------
(* A commit leaves the rows sound.                                         *)

(* A class that is not billed yet and the person is not in stays so unless *)
(* the commit makes or takes back the link.                                *)
LEMMA CommitLives ==
  ASSUME NEW n, NEW rw, Committing(n, rw), NEW c \in Class, ~Live(rw, c), Live(Sees(n, rw), c)
  PROVE  /\ Link \in Drafts(n)
         /\ \/ n.op.does \in DOMAIN StudentGate
            \/ /\ n.op.does = "Promote" /\ rw[Queued(c)] = "waiting"
               /\ Holds(n, Course(c), Update)
<1> DEFINE v == Sees(n, rw)
<1>1. v[Booking(c)] = "charged" /\ v[Course(c)] = "open" BY DEF Live
<1>2. Course(c) \notin Drafts(n)
  <2>1. \A d \in Class : Course(d) \in Drafts(n) => v[Course(d)] = "completed" BY CommitTurns
  <2> QED BY <2>1, <1>1
<1>3. /\ Course(c) \in Rows /\ Booking(c) \in Rows
      /\ \A r \in Rows : r \notin Drafts(n) => v[r] = rw[r]
  BY CommitRows, RowsAre
<1>4. rw[Booking(c)] # "charged" BY <1>1, <1>2, <1>3 DEF Live
<1>5. Booking(c) \in Drafts(n) BY <1>1, <1>3, <1>4
<1> QED BY <1>1, <1>2, <1>4, <1>5, CommitCharges

LEMMA CommitLinkful ==
  ASSUME NEW n, NEW rw, Committing(n, rw)
  PROVE  Linkful(Sees(n, rw))
<1> DEFINE v == Sees(n, rw)
<1> SUFFICES ASSUME "Unlink" \notin scope.does, NEW c \in Class,
                    v[Owed(c)] # None \/ v[Booking(c)] = "charged",
                    v[Link] = None
             PROVE  v[Student] = "erased"
  BY DEF Linkful
<1>1. Good(n, rw) /\ n.op.does # "Unlink" BY DEF Committing, Good, Typed
<1>2. \A r \in Rows : r \notin Drafts(n) => v[r] = rw[r] BY CommitRows
<1>3. Linkful(rw) BY DEF Committing, Sound
<1>4. rw[Student] = "erased" => v[Student] = "erased" BY CommitTurns
<1>5. CASE Link \in Drafts(n)
  <2>1. n.op.does = "Erase" BY <1>1, <1>5, CommitLinks
  <2>2. Student \in Drafts(n)
    <3>1. n.pc = 13 BY <2>1, CommitPast
    <3> QED BY <3>1, <2>1, <1>1 DEF Good, Erasing
  <2> QED BY <2>2, CommitTurns
<1>6. CASE Link \notin Drafts(n)
  <2>1. rw[Link] = None BY <1>2, <1>6, RowsAre
  <2>2. rw[Owed(c)] # None \/ rw[Booking(c)] = "charged"
    <3>1. CASE v[Owed(c)] # None
      <4>1. CASE Owed(c) \in Drafts(n) BY <4>1, CommitOwes DEF Live
      <4>2. CASE Owed(c) \notin Drafts(n) BY <4>2, <3>1, <1>2, RowsAre
      <4> QED BY <4>1, <4>2
    <3>2. CASE v[Booking(c)] = "charged"
      <4>1. CASE Booking(c) \in Drafts(n) BY <4>1, <3>2, <1>6, CommitCharges
      <4>2. CASE Booking(c) \notin Drafts(n) BY <4>2, <3>2, <1>2, RowsAre
      <4> QED BY <4>1, <4>2
    <3> QED BY <3>1, <3>2
  <2> QED BY <2>1, <2>2, <1>3, <1>4 DEF Linkful
<1> QED BY <1>5, <1>6

LEMMA CommitErased ==
  ASSUME NEW n, NEW rw, Committing(n, rw)
  PROVE  Erased(Sees(n, rw))
<1> DEFINE v == Sees(n, rw)
<1> SUFFICES ASSUME v[Student] = "erased"
             PROVE  /\ v[Link] = None /\ v[Privacy] = None
                    /\ \A c \in Class : v[Queued(c)] = None /\ ~Live(v, c)
  BY DEF Erased
<1>1. Good(n, rw) /\ Erased(rw) BY DEF Committing, Sound
<1>2. CASE n.op.does = "Erase"
  <2>1. n.pc = 13 BY <1>2, CommitPast
  <2>2. Erasing(n, rw) BY <1>1 DEF Good
  <2> QED BY <2>1, <2>2, <1>2 DEF Erasing
<1>3. CASE n.op.does # "Erase"
  <2>1. /\ \A r \in Rows : r \notin Drafts(n) => v[r] = rw[r]
        /\ \A r \in Drafts(n) : Allowed(n.op, r, v[r])
    BY CommitRows
  <2>2. Student \notin Drafts(n) BY <1>3, CommitTurns
  <2>3. rw[Student] = "erased" BY <2>1, <2>2, RowsAre
  <2>4. n.op.does \notin DOMAIN StudentGate
    BY <2>3, <1>1, CommitPast DEF Good, Gated
  <2>5. /\ rw[Link] = None /\ rw[Privacy] = None
        /\ \A c \in Class : rw[Queued(c)] = None /\ ~Live(rw, c)
    BY <1>1, <2>3 DEF Erased
  <2>6. n.op.does # "Promote"
    <3> SUFFICES ASSUME n.op.does = "Promote" PROVE FALSE OBVIOUS
    <3>1. n.pc = 8 BY CommitPast
    <3>2. rw[Queued(n.op.class)] = "waiting" BY <3>1, <1>1 DEF Good, Promoting
    <3>3. n.op.class \in Class BY <1>1 DEF Good, Typed, OpTyped
    <3> QED BY <3>2, <3>3, <2>5, NoneIs DEF Words
  <2>7. v[Link] = None
    <3>1. Link \notin Drafts(n) BY <2>4, <2>5, <2>6, <1>3, CommitLinks DEF StudentGate
    <3> QED BY <3>1, <2>1, <2>5, RowsAre
  <2> HIDE DEF v
  <2>8. v[Privacy] = None
    <3>1. Privacy \in Drafts(n) => n.op.does \in {"SetPrivacy", "Unlink", "Erase"}
      BY <2>1 DEF Allowed
    <3>2. Privacy \notin Drafts(n) BY <3>1, <2>4, <1>3 DEF StudentGate
    <3> QED BY <3>2, <2>1, <2>5, RowsAre
  <2>9. ASSUME NEW c \in Class PROVE v[Queued(c)] = None
    <3>1. Queued(c) \in Drafts(n) => n.op.does \in {"Erase", "Join", "Unlink", "Book", "Promote"}
      BY <2>1, RowTags DEF Allowed
    <3>2. Queued(c) \notin Drafts(n) BY <3>1, <2>4, <2>6, <1>3 DEF StudentGate
    <3> QED BY <3>2, <2>1, <2>5, RowsAre
  <2>10. ASSUME NEW c \in Class PROVE ~Live(v, c)
    BY <2>4, <2>5, <2>6, CommitLives DEF v
  <2> QED BY <2>7, <2>8, <2>9, <2>10 DEF v
<1> QED BY <1>2, <1>3

LEMMA CommitArchived ==
  ASSUME NEW n, NEW rw, Committing(n, rw), Separate
  PROVE  Archived(Sees(n, rw))
<1> DEFINE v == Sees(n, rw)
<1> SUFFICES ASSUME IsFiled(v), NEW c \in Class
             PROVE  v[Owed(c)] # "open" /\ ~Live(v, c)
  BY DEF Archived
<1>1. /\ Good(n, rw) /\ Erased(rw) /\ Archived(rw) /\ n.op.does \in scope.does
  BY DEF Committing, Sound, Good, Typed
<1>2. \A r \in Rows : r \notin Drafts(n) => v[r] = rw[r] BY CommitRows
<1>3. v[Link] # None /\ v[Link].filed BY DEF IsFiled
<1>4. CASE Link \in Drafts(n)
  <2>1. n.op.does = "Archive" BY <1>3, <1>4, CommitLinks
  <2>2. n.pc = 6 BY <2>1, CommitPast
  <2>3. v[Owed(c)] # "open" /\ ~Live(rw, c)
    BY <2>1, <2>2, <1>1 DEF Good, Archiving
  <2>4. ~Live(v, c) BY <2>1, <2>3, CommitLives DEF StudentGate
  <2> QED BY <2>3, <2>4
<1>5. CASE Link \notin Drafts(n)
  <2>1. v[Link] = rw[Link] BY <1>2, <1>5, RowsAre
  <2>2. IsFiled(rw) BY <1>3, <2>1 DEF IsFiled
  <2>3. rw[Owed(c)] # "open" /\ ~Live(rw, c) BY <1>1, <2>2 DEF Archived
  <2>4. ~Live(v, c) BY <1>5, <2>3, CommitLives
  <2>5. v[Owed(c)] # "open"
    <3> SUFFICES ASSUME v[Owed(c)] = "open" PROVE FALSE OBVIOUS
    <3>1. Owed(c) \in Drafts(n) BY <1>2, <2>3, RowsAre
    <3>2. n.op.does = "Reopen" /\ n.pc = 6 BY <3>1, <2>3, CommitOwes
    <3>3. "Unlink" \notin scope.does BY <3>2, <1>1 DEF Separate
    <3>4. rw[Student] # "erased" BY <1>1, <1>3, <2>1 DEF Erased
    <3>5. /\ (HasLink(n, rw) /\ (rw[Link].filed = n.seen.filed)) \/ rw[Student] = "erased"
          /\ n.seen.filed => Link \in Drafts(n)
      BY <3>2, <3>3, <1>1 DEF Good, Reopening
    <3> QED BY <3>4, <3>5, <1>3, <1>5, <2>1
  <2> QED BY <2>4, <2>5
<1> QED BY <1>4, <1>5

LEMMA CommitSound ==
  ASSUME NEW n, NEW rw, Committing(n, rw)
  PROVE  Sound(Sees(n, rw))
  BY CommitRows, CommitLinkful, CommitErased, CommitArchived DEF Sound

-------------------------------------------------------------------------------
(* What holds of a request holds after the commit of another.              *)
Meets(n, x, rw) == Committing(n, rw) /\ Good(x, rw) /\ Apart(n, x)

LEMMA MeetsRows ==
  ASSUME NEW n, NEW x, NEW rw, Meets(n, x, rw)
  PROVE  LET v == Sees(n, rw)
         IN  /\ \A r, m : Holds(x, r, m) /\ Personal(r) /\ r # Student =>
                  r \notin Drafts(n) /\ v[r] = rw[r]
             /\ \A m : Holds(x, Student, m) /\ m # KeyShare =>
                  Student \notin Drafts(n) /\ v[Student] = rw[Student]
             /\ \A r \in Rows : r \notin Drafts(x) => Sees(x, rw)[r] = rw[r] /\ Sees(x, v)[r] = v[r]
             /\ \A r \in Drafts(x) : Sees(x, rw)[r] = Sees(x, v)[r]
<1> DEFINE v == Sees(n, rw)
<1>1. Locking(n, rw) /\ Locking(x, rw) BY DEF Meets, Committing, Good
<1>2. DOMAIN rw = Rows /\ RowsTyped(v) /\ (\A r \in Rows : r \notin Drafts(n) => v[r] = rw[r])
  BY CommitRows DEF Meets
<1>3. ASSUME NEW r, NEW m, Holds(x, r, m), Personal(r), r # Student \/ m # KeyShare
      PROVE  r \notin Drafts(n) /\ v[r] = rw[r]
  <2>1. LockFits(x, rw, r, m) BY <1>1, <1>3 DEF Locking
  <2>2. r \notin Drafts(n) BY <1>1, <1>3, ApartDrafts DEF Meets
  <2> QED BY <2>1, <2>2, <1>2 DEF LockFits
<1>4. Personal(Student) BY RowTags DEF Personal
<1>5. DOMAIN v = Rows BY <1>2 DEF RowsTyped
<1>6. \A r \in Rows : r \notin Drafts(x) => Sees(x, rw)[r] = rw[r] /\ Sees(x, v)[r] = v[r]
  BY <1>2, <1>5 DEF Sees, Drafts, Overlay
<1>7. \A r \in Drafts(x) : Sees(x, rw)[r] = Sees(x, v)[r] BY DEF Sees, Drafts, Overlay
<1> HIDE DEF v
<1> QED BY <1>3, <1>4, <1>6, <1>7 DEF v

LEMMA MeetsLocking ==
  ASSUME NEW n, NEW x, NEW rw, Meets(n, x, rw)
  PROVE  Locking(x, Sees(n, rw)) /\ Gated(x, Sees(n, rw))
<1> DEFINE v == Sees(n, rw)
<1>1. Good(x, rw) /\ Committing(n, rw) BY DEF Meets
<1>2. /\ \A r, m : Holds(x, r, m) /\ Personal(r) /\ r # Student => v[r] = rw[r]
      /\ \A m : Holds(x, Student, m) /\ m # KeyShare => v[Student] = rw[Student]
  BY MeetsRows
<1>3. v[Student] # None
  <2>1. v[Student] \in Words BY <1>1, CommitRows DEF RowsTyped, Words
  <2> QED BY <2>1, NoneIs
<1>4. ASSUME NEW r, NEW m, Holds(x, r, m), Personal(r) PROVE LockFits(x, v, r, m)
  <2>1. LockFits(x, rw, r, m) BY <1>1, <1>4 DEF Good, Locking
  <2> QED BY <2>1, <1>2, <1>3, <1>4 DEF LockFits
<1>5. Locking(x, v) BY <1>1, <1>4 DEF Good, Locking
<1>6. Past(x, StudentGate) => Holds(x, Student, Share) /\ v[Student] = "live"
  BY <1>1, <1>2 DEF Good, Gated
<1>7. Past(x, CourseGate) => Holds(x, Course(x.op.class), Update) /\ v[Course(x.op.class)] = "open"
  <2>1. Personal(Course(x.op.class)) /\ Course(x.op.class) # Student
    BY RowTags DEF Personal
  <2> QED BY <2>1, <1>1, <1>2 DEF Good, Gated
<1> HIDE DEF v
<1> QED BY <1>1, <1>5, <1>6, <1>7 DEF Good, Gated, v

LEMMA MeetsClass ==
  ASSUME NEW n, NEW x, NEW rw, Meets(n, x, rw)
  PROVE  Promoting(x, Sees(n, rw)) /\ Completing(x, Sees(n, rw))
<1> DEFINE v == Sees(n, rw)
<1>1. Good(x, rw) /\ Good(n, rw) BY DEF Meets, Committing
<1>2. \A r, m : Holds(x, r, m) /\ Personal(r) /\ r # Student => v[r] = rw[r]
  BY MeetsRows
<1>3. ASSUME x.op.does = "Promote", x.pc > 2 PROVE v[Queued(x.op.class)] = "waiting"
  <2> DEFINE c == x.op.class
  <2>1. rw[Queued(c)] = "waiting" /\ c \in Class
    BY <1>1, <1>3 DEF Good, Promoting, Typed, OpTyped
  <2>2. Past(x, CourseGate) BY <1>1, <1>3 DEF Past, CourseGate, Good, Typed
  <2>3. Holds(x, Course(c), Update) BY <2>2, <1>1 DEF Good, Gated
  <2>4. Queued(c) \notin Drafts(n)
    <3> SUFFICES ASSUME Queued(c) \in Drafts(n) PROVE FALSE OBVIOUS
    <3>1. Holds(n, Course(c), Update) BY <1>1, RowTags DEF Good, Drafting
    <3>2. Personal(Course(c)) BY RowTags DEF Personal
    <3> QED BY <3>1, <3>2, <2>3 DEF Meets, Apart, Conflict
  <2> QED BY <2>1, <2>4, RowsAre, CommitRows DEF Meets
<1>4. Promoting(x, v) BY <1>1, <1>3 DEF Good, Promoting
<1>5. ASSUME NEW c, Owns(x, Booking(c)) PROVE v[Booking(c)] = rw[Booking(c)]
  <2>1. PICK m \in NoKeyUpdate .. Update : Holds(x, Booking(c), m) BY <1>5 DEF Owns, Holds
  <2>2. Personal(Booking(c)) /\ Booking(c) # Student BY RowTags DEF Personal
  <2> QED BY <2>1, <2>2, <1>2
<1>6. \A c : Booking(c) \in Drafts(x) => Owns(x, Booking(c))
  BY <1>1, RowTags DEF Good, Locking, Personal
<1> HIDE DEF v
<1>7. Completing(x, v) BY <1>1, <1>5, <1>6 DEF Good, Completing
<1> QED BY <1>4, <1>7 DEF v

LEMMA MeetsReopening ==
  ASSUME NEW n, NEW x, NEW rw, Meets(n, x, rw)
  PROVE  /\ Reopening(x, Sees(n, rw))
         /\ HasLink(x, rw) =>
              /\ HasLink(x, Sees(n, rw)) /\ Sees(n, rw)[Link] = rw[Link]
              /\ Link \notin Drafts(n)
<1> DEFINE v == Sees(n, rw)
<1>1. Good(x, rw) /\ Committing(n, rw) BY DEF Meets
<1>2. \A r, m : Holds(x, r, m) /\ Personal(r) /\ r # Student => r \notin Drafts(n) /\ v[r] = rw[r]
  BY MeetsRows
<1>3. Personal(Link) /\ Link # Student BY RowTags DEF Personal
<1>4. HasLink(x, rw) => HasLink(x, v) /\ v[Link] = rw[Link] /\ Link \notin Drafts(n)
  BY <1>2, <1>3 DEF HasLink
<1>5. x.op.does = "Reopen" => x.op.class \in Class BY <1>1 DEF Good, Typed, OpTyped
<1>6. /\ rw[Student] = "erased" => v[Student] = "erased"
      /\ \A c \in Class : rw[Owed(c)] # None => v[Owed(c)] # None
  BY <1>1, CommitTurns
<1>7. Reopening(x, rw) BY <1>1 DEF Good
<1> HIDE DEF v
<1>8. Reopening(x, v) BY <1>4, <1>5, <1>6, <1>7 DEF Reopening
<1> QED BY <1>4, <1>8 DEF v

LEMMA MeetsArchiving ==
  ASSUME NEW n, NEW x, NEW rw, Meets(n, x, rw)
  PROVE  Archiving(x, Sees(n, rw))
<1> DEFINE v == Sees(n, rw)
<1>1. Good(x, rw) /\ Committing(n, rw) /\ Good(n, rw) /\ Erased(rw)
  BY DEF Meets, Committing, Sound
<1> SUFFICES ASSUME x.op.does = "Archive" PROVE Archiving(x, v)
  BY DEF Archiving
<1>2. Archiving(x, rw) BY <1>1 DEF Good
<1>3. x.pc > 1 => HasLink(x, v) /\ v[Link] = rw[Link] /\ Link \notin Drafts(n) /\ HasLink(x, rw)
  BY <1>2, MeetsReopening DEF Archiving
<1>4. x.pc \in Nat BY <1>1 DEF Good, Typed
<1>5. ASSUME Separate, NEW c \in Class, x.pc > 2 PROVE ~Live(v, c)
  BY <1>2, <1>3, <1>4, <1>5, <1>1, CommitLives DEF Archiving
<1>6. ASSUME Separate, NEW c \in Class, x.pc > 2, Sees(x, v)[Owed(c)] = "open"
      PROVE  Sees(x, rw)[Owed(c)] = "open"
  <2>1. /\ \A r \in Rows : r \notin Drafts(x) => Sees(x, rw)[r] = rw[r] /\ Sees(x, v)[r] = v[r]
        /\ \A r \in Drafts(x) : Sees(x, rw)[r] = Sees(x, v)[r]
    BY MeetsRows
  <2>2. CASE Owed(c) \in Drafts(x) BY <2>1, <2>2, <1>6
  <2>3. CASE Owed(c) \notin Drafts(x)
    <3>1. v[Owed(c)] = "open" /\ Sees(x, rw)[Owed(c)] = rw[Owed(c)]
      BY <2>1, <2>3, <1>6, RowsAre
    <3>2. ASSUME Owed(c) \in Drafts(n) PROVE FALSE
      <4>1. ~Live(rw, c) BY <1>2, <1>6 DEF Archiving
      <4>2. n.op.does = "Reopen" /\ n.pc = 6 BY <3>1, <3>2, <4>1, <1>1, CommitOwes
      <4>3. "Unlink" \notin scope.does BY <4>2, <1>1, <1>6 DEF Separate, Good, Typed
      <4>4. HasLink(n, rw) \/ rw[Student] = "erased"
        BY <4>2, <4>3, <1>1 DEF Good, Reopening
      <4>5. HasLink(x, rw) BY <1>3, <1>4, <1>6
      <4>6. rw[Student] # "erased" BY <4>5, <1>1 DEF Erased, HasLink
      <4>7. Holds(n, Link, Update) /\ Holds(x, Link, Update) BY <4>4, <4>5, <4>6 DEF HasLink
      <4>8. Personal(Link) BY RowTags DEF Personal
      <4> QED BY <4>7, <4>8 DEF Meets, Apart, Conflict
    <3> QED BY <3>1, <3>2, <1>1, RowsAre, CommitRows
  <2> QED BY <2>2, <2>3
<1> HIDE DEF v
<1>7. ASSUME Separate, NEW c \in Class
      PROVE  /\ x.pc > 2 => ~Live(v, c)
             /\ x.pc = 4 /\ Sees(x, v)[Owed(c)] = "open" =>
                  /\ Owed(c) \in x.seen.billed
                  /\ DOMAIN x.wants # {} => Owed(c) \in DOMAIN x.wants \/ Owns(x, Owed(c))
             /\ x.pc > 4 => Sees(x, v)[Owed(c)] # "open"
  <2>1. x.pc = 4 \/ x.pc > 4 => x.pc > 2 BY <1>4
  <2> QED BY <2>1, <1>2, <1>5, <1>6, <1>7 DEF Archiving
<1>8. x.pc > 1 => HasLink(x, v) /\ v[Link].filed = FALSE BY <1>2, <1>3 DEF Archiving
<1> QED BY <1>7, <1>8 DEF Archiving

LEMMA MeetsErasing ==
  ASSUME NEW n, NEW x, NEW rw, Meets(n, x, rw)
  PROVE  Erasing(x, Sees(n, rw))
<1> DEFINE v == Sees(n, rw)
           a == Sees(x, rw)
           b == Sees(x, v)
<1>1. /\ Good(x, rw) /\ Committing(n, rw) /\ Good(n, rw) /\ DOMAIN rw = Rows
      /\ RowsTyped(rw)
  BY CommitRows DEF Meets, Committing, Sound
<1> SUFFICES ASSUME x.op.does = "Erase" PROVE Erasing(x, v)
  BY DEF Erasing
<1>2. Erasing(x, rw) BY <1>1 DEF Good
<1>3. x.pc \in Nat BY <1>1 DEF Good, Typed
<1>4. /\ \A r \in Rows : r \notin Drafts(n) => v[r] = rw[r]
      /\ \A r \in Drafts(n) : Allowed(n.op, r, v[r])
  BY <1>1, CommitRows
<1>5. /\ \A r \in Rows : r \notin Drafts(x) => a[r] = rw[r] /\ b[r] = v[r]
      /\ \A r \in Drafts(x) : a[r] = b[r]
  BY MeetsRows
<1>6. ASSUME x.pc > 1 PROVE n.op.does \notin DOMAIN StudentGate /\ n.op.does # "Erase"
  <2>1. Holds(x, Student, NoKeyUpdate) BY <1>2, <1>6 DEF Erasing
  <2>2. Personal(Student) BY RowTags DEF Personal
  <2>3. ~Holds(n, Student, Share) /\ ~Holds(n, Student, NoKeyUpdate)
    BY <2>1, <2>2 DEF Meets, Apart, Conflict
  <2>4. n.op.does \notin DOMAIN StudentGate
    BY <2>3, <1>1, CommitPast DEF Good, Gated
  <2>5. n.op.does # "Erase"
    <3>1. n.op.does = "Erase" => n.pc = 13 BY <1>1, CommitPast
    <3> QED BY <3>1, <2>3, <1>1 DEF Good, Erasing
  <2> QED BY <2>4, <2>5
(* The erasure has the class of a queue the person is promoted from.       *)
<1>7. ASSUME x.pc > 3, NEW c \in Class, rw[Queued(c)] = "waiting"
      PROVE  ~Holds(n, Course(c), Update)
  <2>1. Holds(x, Course(c), Update)
    <3>1. CASE Queued(c) \in Drafts(x) BY <3>1, <1>1, RowTags DEF Good, Drafting
    <3>2. CASE Queued(c) \notin Drafts(x)
      <4>1. a[Queued(c)] = "waiting" BY <3>2, <1>5, <1>7, RowsAre
      <4>2. a[Queued(c)] # None BY <4>1, NoneIs DEF Words
      <4>3. c \in x.seen.queues BY <4>2, <1>2, <1>3, <1>7 DEF Erasing
      <4> QED BY <4>3, <1>1, <1>7 DEF Good, Sorting, SortedAt
    <3> QED BY <3>1, <3>2
  <2>2. Personal(Course(c)) BY RowTags DEF Personal
  <2> QED BY <2>1, <2>2 DEF Meets, Apart, Conflict
<1>8. ASSUME x.pc > 3, n.op.does = "Promote" PROVE FALSE
  <2>1. n.pc = 8 /\ Past(n, CourseGate) BY <1>1, <1>8, CommitPast DEF CourseGate
  <2>2. rw[Queued(n.op.class)] = "waiting" /\ Holds(n, Course(n.op.class), Update)
    BY <2>1, <1>1, <1>8 DEF Good, Promoting, Gated
  <2>3. n.op.class \in Class BY <1>1, <1>8 DEF Good, Typed, OpTyped
  <2> QED BY <2>2, <2>3, <1>7, <1>8
<1>9. x.pc > 3 => x.pc > 1 BY <1>3
<1>10. ASSUME NEW c \in Class, x.pc > 3, Live(b, c) PROVE Live(a, c)
  <2>1. ASSUME Live(v, c) PROVE Live(rw, c)
    BY <2>1, <1>1, <1>6, <1>8, <1>9, <1>10, CommitLives
  <2>2. Course(c) \notin Drafts(x)
    <3>1. \A r \in Drafts(x) : Allowed(x.op, r, x.wrote[r]) BY <1>1 DEF Good, Drafting
    <3> QED BY <3>1, RowTags DEF Allowed
  <2>3. b[Course(c)] = v[Course(c)] /\ a[Course(c)] = rw[Course(c)]
    BY <2>2, <1>5, RowsAre
  <2>4. v[Course(c)] = "open" BY <2>3, <1>10 DEF Live
  <2>5. Course(c) \notin Drafts(n)
    <3>1. \A d \in Class : Course(d) \in Drafts(n) => v[Course(d)] = "completed"
      BY <1>1, CommitTurns
    <3> QED BY <3>1, <2>4
  <2>6. rw[Course(c)] = "open" BY <2>4, <2>5, <1>4, RowsAre
  <2>7. CASE Booking(c) \in Drafts(x) BY <2>7, <2>3, <2>6, <1>5, <1>10 DEF Live
  <2>8. CASE Booking(c) \notin Drafts(x)
    <3>1. b[Booking(c)] = v[Booking(c)] /\ a[Booking(c)] = rw[Booking(c)]
      BY <2>8, <1>5, RowsAre
    <3>2. Live(v, c) BY <3>1, <2>4, <1>10 DEF Live
    <3> QED BY <3>1, <3>2, <2>1, <2>3, <2>6 DEF Live
  <2> QED BY <2>7, <2>8
<1>11. ASSUME NEW c \in Class, x.pc > 2, b[Queued(c)] # None PROVE a[Queued(c)] # None
  <2>1. x.pc > 1 BY <1>3, <1>11
  <2>2. CASE Queued(c) \in Drafts(x) BY <2>2, <1>5, <1>11
  <2>3. CASE Queued(c) \notin Drafts(x)
    <3>1. v[Queued(c)] # None /\ a[Queued(c)] = rw[Queued(c)] BY <2>3, <1>5, <1>11, RowsAre
    <3>2. CASE Queued(c) \notin Drafts(n) BY <3>1, <3>2, <1>4, RowsAre
    <3>3. CASE Queued(c) \in Drafts(n)
      <4>1. Allowed(n.op, Queued(c), v[Queued(c)]) BY <3>3, <1>4
      <4>2. n.op.does = "Promote" /\ c = n.op.class
        BY <4>1, <2>1, <1>6, RowTags DEF Allowed, StudentGate
      <4>3. n.pc = 8 BY <4>2, <1>1, CommitPast
      <4>4. rw[Queued(c)] = "waiting" BY <4>2, <4>3, <1>1 DEF Good, Promoting
      <4> QED BY <4>4, <3>1, NoneIs DEF Words
    <3> QED BY <3>2, <3>3
  <2> QED BY <2>2, <2>3
<1>12. ASSUME x.pc > 5, a[Privacy] = None PROVE b[Privacy] = None
  <2>1. x.pc > 1 BY <1>3, <1>12
  <2>2. Privacy \notin Drafts(n)
    <3>1. Privacy \in Drafts(n) => n.op.does \in {"SetPrivacy", "Unlink", "Erase"}
      BY <1>4 DEF Allowed
    <3> QED BY <3>1, <2>1, <1>6 DEF StudentGate
  <2> QED BY <2>2, <1>4, <1>5, <1>12, RowsAre
<1>13. ASSUME x.pc > 6, a[Link] = None PROVE b[Link] = None
  <2>1. x.pc > 1 /\ x.pc > 3 BY <1>3, <1>13
  <2>2. CASE Link \in Drafts(x) BY <2>2, <1>5, <1>13
  <2>3. CASE Link \notin Drafts(x)
    <3>1. rw[Link] = None /\ b[Link] = v[Link] BY <2>3, <1>5, <1>13, RowsAre
    <3>2. Link \in Drafts(n) => v[Link] = None
      BY <3>1, <2>1, <1>1, <1>6, <1>8, CommitLinks
    <3> QED BY <3>1, <3>2, <1>4, RowsAre
  <2> QED BY <2>2, <2>3
<1> HIDE DEF a, b, v
<1>14. ASSUME NEW c \in Class
       PROVE  /\ x.pc > 2 /\ b[Queued(c)] # None => c \in x.seen.queues
              /\ x.pc = 4 /\ DOMAIN x.wants # {} /\ Live(b, c) =>
                   Booking(c) \in DOMAIN x.wants \/ Owns(x, Booking(c))
              /\ x.pc > 4 => ~Live(b, c)
              /\ x.pc > 11 => b[Queued(c)] = None
  <2>1. (x.pc = 4 => x.pc > 3) /\ (x.pc > 4 => x.pc > 3) /\ (x.pc > 11 => x.pc > 2) BY <1>3
  <2> QED BY <2>1, <1>2, <1>10, <1>11 DEF Erasing, a
<1>15. /\ x.pc > 1 => Holds(x, Student, NoKeyUpdate)
       /\ x.pc > 5 => b[Privacy] = None
       /\ x.pc > 6 => b[Link] = None
       /\ x.pc > 10 => Student \in Drafts(x)
  BY <1>2, <1>12, <1>13 DEF Erasing, a
<1> QED BY <1>14, <1>15 DEF Erasing, b

LEMMA CommitKeeps ==
  ASSUME NEW n, NEW x, NEW rw, Meets(n, x, rw)
  PROVE  Good(x, Sees(n, rw))
<1>1. Good(x, rw) BY DEF Meets
<1> QED BY <1>1, MeetsLocking, MeetsClass, MeetsReopening, MeetsArchiving, MeetsErasing DEF Good

-------------------------------------------------------------------------------
(* Every request is idle or in the middle of its statements.               *)
Calm(j, rw) == /\ j.op = None => Idle(j)
               /\ j.op # None => Good(j, rw) /\ j.pc <= Lengths[j.op.does]

Inv ==
  /\ scope \in Scopes /\ Sound(row)
  /\ DOMAIN job = Worker /\ \A w \in Worker : Calm(job[w], row)
  /\ \A w, x \in Worker : w # x => Apart(job[w], job[x])

LEMMA ScopeStays ==
  ASSUME UNCHANGED scope, NEW j, NEW rw
  PROVE  /\ Good(j, rw) => Good(j, rw)'
         /\ Sound(rw) => Sound(rw)'
<1>1. Sound(rw) => Sound(rw)'
  BY DEF Sound, RowsTyped, Linkful, Erased, Archived, Separate
<1>2. Typed(j) => Typed(j)' BY DEF Typed
<1>3. Reopening(j, rw) => Reopening(j, rw)' BY DEF Reopening
<1>4. Archiving(j, rw) => Archiving(j, rw)' BY DEF Archiving, Separate
<1> QED BY <1>1, <1>2, <1>3, <1>4 DEF Good

LEMMA InvNext ==
  ASSUME UNCHANGED scope, scope \in Scopes, Sound(row'), DOMAIN job' = Worker,
         \A w \in Worker : Calm(job'[w], row'),
         \A w, x \in Worker : w # x => Apart(job'[w], job'[x])
  PROVE  Inv'
  BY ScopeStays DEF Inv, Calm

LEMMA CalmLocks ==
  ASSUME NEW j, NEW rw, Calm(j, rw)
  PROVE  Locking(j, rw)
<1>1. Idle(j) => Locking(j, rw) BY DEF Idle, Locking, Holds, Drafts, Nothing
<1>2. Good(j, rw) => Locking(j, rw) BY DEF Good
<1> QED BY <1>1, <1>2 DEF Calm

LEMMA ApartBack ==
  ASSUME NEW a, NEW b, NEW rw, NEW rx, Locking(a, rw), Locking(b, rx), Apart(a, b)
  PROVE  Apart(b, a)
<1> SUFFICES ASSUME NEW r, NEW m, NEW n, Holds(b, r, m), Holds(a, r, n), Personal(r)
             PROVE  ~Conflict(m, n)
  BY DEF Apart
<1>1. ~Conflict(n, m) BY DEF Apart
<1>2. n \in KeyShare .. Update /\ m \in KeyShare .. Update BY DEF Locking, LockFits
<1> QED BY <1>1, <1>2 DEF Conflict

(* A step in which w's job becomes jb and the committed rows rw keeps the  *)
(* invariant if it suits everybody else.                                   *)
LEMMA Settled ==
  ASSUME Inv, UNCHANGED scope, NEW w \in Worker, NEW jb, NEW rw, Settles(w, rw, jb),
         Sound(rw), Calm(jb, rw),
         \A x \in Worker : x # w => Calm(job[x], rw) /\ Apart(jb, job[x])
  PROVE  Inv'
<1>1. /\ row' = rw /\ DOMAIN job' = Worker /\ job'[w] = jb
      /\ \A x \in Worker : x # w => job'[x] = job[x]
  BY DEF Settles, Inv
<1>2. \A x \in Worker : Calm(job'[x], row') BY <1>1
<1>3. ASSUME NEW x \in Worker, NEW y \in Worker, x # y PROVE Apart(job'[x], job'[y])
  <2>1. CASE x = w BY <2>1, <1>1, <1>3
  <2>2. CASE y = w
    <3>1. x # w /\ Apart(jb, job[x]) /\ Calm(job[x], rw) BY <2>2, <1>3
    <3>2. Locking(jb, rw) /\ Locking(job[x], rw) BY <3>1, CalmLocks
    <3>3. Apart(job[x], jb) BY <3>1, <3>2, ApartBack
    <3> QED BY <3>1, <3>3, <2>2, <1>1
  <2>3. CASE x # w /\ y # w BY <2>3, <1>1, <1>3 DEF Inv
  <2> QED BY <2>1, <2>2, <2>3
<1>4. scope \in Scopes /\ Sound(row') BY <1>1 DEF Inv
<1> QED BY <1>1, <1>2, <1>3, <1>4, InvNext

LEMMA BusyDoes ==
  ASSUME Inv, NEW w \in Worker, Busy(w)
  PROVE  /\ Doing(job[w], row)
         /\ \A x \in Worker : x # w =>
              /\ Calm(job[x], row) /\ Locking(job[x], row) /\ Apart(job[w], job[x])
<1>1. Good(job[w], row) /\ job[w].pc <= Lengths[job[w].op.does] BY DEF Inv, Calm, Busy
<1>2. Doing(job[w], row) BY <1>1 DEF Doing, Inv
<1> QED BY <1>2, CalmLocks DEF Inv

LEMMA AtRestKeeps ==
  ASSUME Inv, UNCHANGED scope, NEW w \in Worker, Settles(w, row, AtRest)
  PROVE  Inv'
<1>1. Calm(AtRest, row) BY DEF Calm, Idle, AtRest, JobFields
<1>2. \A x : Apart(AtRest, x) BY DEF Apart, Holds, AtRest
<1>3. Sound(row) /\ \A x \in Worker : Calm(job[x], row) BY DEF Inv
<1> QED BY <1>1, <1>2, <1>3, Settled

LEMMA BeginKeeps ==
  ASSUME Inv, UNCHANGED scope, NEW w \in Worker, Begin(w)
  PROVE  Inv'
<1> DEFINE j == job[w]
<1>1. PICK o \in Requests : job' = [job EXCEPT ![w].op = o, ![w].seen = Unread]
  BY DEF Begin
<1>2. Settles(w, row, Begun(j, o)) BY <1>1 DEF Settles, Begin, Begun
<1>3. Idle(j) BY DEF Inv, Calm, Begin, Busy
<1>4. /\ Good(Begun(j, o), row) /\ Bare(Begun(j, o)) /\ Begun(j, o).op = o
      /\ Begun(j, o).pc <= Lengths[o.does]
  BY <1>3, BeginGood DEF Inv
<1>5. Idle(Begun(j, o)) BY <1>3 DEF Idle, Begun, JobFields
<1>6. Calm(Begun(j, o), row) BY <1>4, <1>5 DEF Calm
<1>7. \A x : Apart(Begun(j, o), x) BY <1>4 DEF Apart, Holds, Bare
<1>8. Sound(row) /\ \A x \in Worker : Calm(job[x], row) BY DEF Inv
<1> QED BY <1>2, <1>6, <1>7, <1>8, Settled

LEMMA QueueKeeps ==
  ASSUME Inv, UNCHANGED scope, NEW w \in Worker, Busy(w), NEW k, Settles(w, row, k),
         Queues(job[w], row, k), Clear(w, Sends(job[w], row), k.locks)
  PROVE  Inv'
<1>1. Doing(job[w], row) BY BusyDoes
<1>2. Good(k, row) BY <1>1, QueueGood
<1>3. k.op = job[w].op /\ k.pc = job[w].pc BY DEF Queues
<1>4. Calm(k, row) BY <1>1, <1>2, <1>3 DEF Calm, Doing, Busy
<1>5. \A r, m : Holds(k, r, m) => Holds(job[w], r, m) \/ Gained(job[w], row, r, m)
  BY <1>1, QueueHolds
<1>6. ASSUME NEW x \in Worker, x # w PROVE Apart(k, job[x])
  BY <1>1, <1>5, <1>6, BusyDoes, ApartKept
<1>7. Sound(row) /\ \A x \in Worker : Calm(job[x], row) BY DEF Inv
<1> QED BY <1>4, <1>6, <1>7, Settled

LEMMA DoneApart ==
  ASSUME Inv, NEW w \in Worker, Busy(w), ~Sends(job[w], row).stop,
         Clear(w, Sends(job[w], row), Done(job[w], row).locks)
  PROVE  LET n == Done(job[w], row)
         IN  /\ Good(n, row) /\ n.op = job[w].op /\ n.pc = job[w].pc + 1 /\ DOMAIN n.wants = {}
             /\ \A x \in Worker : x # w => Apart(n, job[x])
<1> DEFINE n == Done(job[w], row)
<1>1. Doing(job[w], row) BY BusyDoes
<1>2. Good(n, row) BY <1>1, DoneGood
<1>3. n.op = job[w].op /\ n.pc = job[w].pc + 1 /\ DOMAIN n.wants = {} BY <1>1, DoneFields
<1>4. \A r, m : Holds(n, r, m) => Holds(job[w], r, m) \/ Gained(job[w], row, r, m)
  BY <1>1, DoneGains
<1> HIDE DEF n
<1>5. ASSUME NEW x \in Worker, x # w PROVE Apart(n, job[x])
  BY <1>1, <1>4, <1>5, BusyDoes, ApartKept DEF n
<1> QED BY <1>2, <1>3, <1>5 DEF n

LEMMA CommitCalm ==
  ASSUME Inv, NEW w \in Worker, NEW n, Committing(n, row),
         \A x \in Worker : x # w => Apart(n, job[x])
  PROVE  /\ Sound(Overlay(n.wrote, row))
         /\ \A x \in Worker : x # w => Calm(job[x], Overlay(n.wrote, row))
<1>1. Overlay(n.wrote, row) = Sees(n, row) BY DEF Sees
<1>2. Sound(Sees(n, row)) BY CommitSound
<1>3. ASSUME NEW x \in Worker, x # w PROVE Calm(job[x], Sees(n, row))
  <2>1. Calm(job[x], row) BY DEF Inv
  <2>2. ASSUME Good(job[x], row) PROVE Good(job[x], Sees(n, row))
    <3>1. Meets(n, job[x], row) BY <2>2, <1>3 DEF Meets
    <3> QED BY <3>1, CommitKeeps
  <2> QED BY <2>1, <2>2 DEF Calm
<1> QED BY <1>1, <1>2, <1>3

LEMMA StepsKeeps ==
  ASSUME Inv, UNCHANGED scope, NEW w \in Worker, Busy(w), Steps(w)
  PROVE  Inv'
<1> DEFINE j == job[w]
           st == Sends(job[w], row)
           n == Done(job[w], row)
<1>1. CASE Settles(w, row, AtRest) BY <1>1, AtRestKeeps
<1>2. CASE \E k : Settles(w, row, k) /\ Queues(j, row, k) /\ Clear(w, st, k.locks)
  BY <1>2, QueueKeeps
<1>3. ASSUME ~st.stop, Clear(w, st, n.locks),
             \/ Settles(w, row, n) /\ j.pc # Lengths[j.op.does]
             \/ Settles(w, Overlay(n.wrote, row), AtRest) /\ j.pc = Lengths[j.op.does]
             \/ Settles(w, Overlay(n.wrote, row), Rests(n)) /\ Does(j.op, j.pc, "Invite", 4)
      PROVE  Inv'
  <2>1. /\ Good(n, row) /\ n.op = j.op /\ n.pc = j.pc + 1 /\ DOMAIN n.wants = {}
        /\ \A x \in Worker : x # w => Apart(n, job[x])
    BY <1>3, DoneApart
  <2>2. j.op # None /\ Doing(j, row) BY BusyDoes DEF Busy
  <2>3. j.pc \in 1 .. Lengths[j.op.does] /\ Lengths[j.op.does] \in Nat
    <3>1. FitSt(j, row) BY <2>2, DoingFits
    <3>2. j.op.does \in DOMAIN Lengths BY <2>2 DEF Doing, Good, Typed, OpTyped
    <3>3. Lengths[j.op.does] \in Nat BY <3>2 DEF Lengths
    <3> QED BY <3>1, <3>3 DEF FitSt
  <2>4. Sound(row) /\ scope \in Scopes /\ \A x \in Worker : Calm(job[x], row) BY DEF Inv
  <2> HIDE DEF n, j, st
  <2>5. CASE Settles(w, row, n) /\ j.pc # Lengths[j.op.does]
    <3>1. n.pc <= Lengths[n.op.does] BY <2>1, <2>3, <2>5
    <3>2. Calm(n, row) BY <3>1, <2>1, <2>2 DEF Calm
    <3> QED BY <3>2, <2>1, <2>4, <2>5, Settled
  <2>6. CASE Settles(w, Overlay(n.wrote, row), AtRest) /\ j.pc = Lengths[j.op.does]
    <3>1. Committing(n, row) BY <2>1, <2>4, <2>6 DEF Committing
    <3>2. /\ Sound(Overlay(n.wrote, row))
          /\ \A x \in Worker : x # w => Calm(job[x], Overlay(n.wrote, row))
      BY <3>1, <2>1, CommitCalm
    <3>3. Calm(AtRest, Overlay(n.wrote, row)) BY DEF Calm, Idle, AtRest, JobFields
    <3>4. \A x : Apart(AtRest, x) BY DEF Apart, Holds, AtRest
    <3> QED BY <3>2, <3>3, <3>4, <2>6, Settled
  <2>7. CASE Settles(w, Overlay(n.wrote, row), Rests(n)) /\ Does(j.op, j.pc, "Invite", 4)
    <3>1. n.op.does = "Invite" /\ n.pc = 5 BY <2>1, <2>7 DEF Does
    <3>2. Committing(n, row) BY <3>1, <2>1, <2>4 DEF Committing
    <3>3. /\ Sound(Overlay(n.wrote, row))
          /\ \A x \in Worker : x # w => Calm(job[x], Overlay(n.wrote, row))
      BY <3>2, <2>1, CommitCalm
    <3>4. /\ Good(Rests(n), Overlay(n.wrote, row)) /\ Bare(Rests(n))
          /\ Rests(n).op = n.op /\ Rests(n).pc = 5
      BY <3>1, <2>1, RestsGood
    <3>5. Rests(n).pc <= Lengths[Rests(n).op.does] BY <3>1, <3>4 DEF Lengths
    <3>6. Calm(Rests(n), Overlay(n.wrote, row)) BY <3>4, <3>5, <2>1, <2>2 DEF Calm
    <3>7. \A x : Apart(Rests(n), x) BY <3>4 DEF Apart, Holds, Bare
    <3> QED BY <3>3, <3>6, <3>7, <2>7, Settled
  <2> QED BY <1>3, <2>5, <2>6, <2>7
<1> QED BY <1>1, <1>2, <1>3 DEF Steps

LEMMA SomeoneBusy ==
  ASSUME Inv, NEW w \in Worker, Send(w) \/ Proceed(w)
  PROVE  Busy(w)
<1>1. Send(w) => Busy(w) BY DEF Send
<1>2. ASSUME Proceed(w), ~Busy(w) PROVE FALSE
  <2>1. Idle(job[w]) BY <1>2 DEF Inv, Calm, Busy
  <2>2. Turn(w) = {} BY <2>1 DEF Idle, Turn, Nothing
  <2> QED BY <2>2, <1>2 DEF Proceed
<1> QED BY <1>1, <1>2

LEMMA InvInit == InitRoster => Inv
<1> SUFFICES ASSUME InitRoster PROVE Inv OBVIOUS
<1>1. DOMAIN row = Rows /\ scope \in Scopes /\ job = [w \in Worker |-> AtRest]
  BY DEF InitRoster
<1>2. /\ row[Student] = "live" /\ row[Said] = "nothing" /\ row[Linked] = 0
      /\ row[Privacy] = None /\ row[Block] = None /\ row[Link] = None
  BY RowsAre, RowTags, Zenon DEF InitRoster
<1>3. \A c \in Class : /\ row[Course(c)] = "open" /\ row[Queued(c)] = None
                       /\ row[Booking(c)] = None /\ row[Owed(c)] = None
  BY RowsAre, RowTags, Zenon DEF InitRoster
<1>4. /\ \A i \in Invitation : row[Invited(i)] = None
      /\ \A e \in Addresses : row[Key(e)] = None
  BY RowsAre, RowTags, Zenon DEF InitRoster
<1>5. RowsTyped(row) BY <1>1, <1>2, <1>3, <1>4 DEF RowsTyped, Answers
<1>6. Linkful(row) /\ Erased(row) /\ Archived(row)
  BY <1>2, <1>3, NoneIs DEF Linkful, Erased, Archived, IsFiled, Live, Words
<1>7. Calm(AtRest, row) /\ Apart(AtRest, AtRest)
  BY DEF Calm, Idle, AtRest, JobFields, Apart, Holds
<1> QED BY <1>1, <1>5, <1>6, <1>7 DEF Inv, Sound

LEMMA InvStep == Inv /\ [Next]_vars => Inv'
<1> SUFFICES ASSUME Inv, [Next]_vars PROVE Inv' OBVIOUS
<1>1. CASE UNCHANGED vars
  <2>1. UNCHANGED scope /\ row' = row /\ job' = job BY <1>1 DEF vars, pgVars
  <2> QED BY <2>1, InvNext DEF Inv
<1>2. ASSUME Next PROVE Inv'
  <2>1. PICK w \in Worker : Begin(w) \/ Send(w) \/ Proceed(w) \/ Fails(w) BY <1>2 DEF Next
  <2>2. UNCHANGED scope BY <1>2 DEF Next
  <2>3. CASE Begin(w) BY <2>2, <2>3, BeginKeeps
  <2>4. CASE Fails(w)
    <3>1. Settles(w, row, AtRest) BY <2>4 DEF Fails, Settles
    <3> QED BY <3>1, <2>2, AtRestKeeps
  <2>5. CASE Send(w) \/ Proceed(w)
    <3>1. Busy(w) BY <2>5, SomeoneBusy
    <3>2. Doing(job[w], row) BY <3>1, BusyDoes
    <3>3. /\ DOMAIN job[w] = JobFields /\ job[w].pc \in 1 .. Lengths[job[w].op.does]
          /\ Fits(job[w].op, Sees(job[w], row), job[w].seen)
      BY <3>2, DoingFits DEF FitSt, Doing, Good, Typed
    <3>4. Steps(w) BY <3>3, <2>5, SendSteps, ProceedSteps
    <3> QED BY <3>1, <3>4, <2>2, StepsKeeps
  <2> QED BY <2>1, <2>3, <2>4, <2>5
<1> QED BY <1>1, <1>2

-------------------------------------------------------------------------------
(* The addresses of the teacher's invitations, but for the one an erased   *)
(* person's invitations share.                                             *)
Reals == {Address, Other}
Has(v, i, e) == At(v, i).email = e
Keyed(v, e) ==
  /\ \A i, k \in Invitation : Has(v, i, e) /\ Has(v, k, e) => i = k
  /\ (v[Key(e)] = "taken") <=> (\E i \in Invitation : Has(v, i, e))
Addressed(v) == \A e \in Reals : Keyed(v, e)

(* The statement with which a request first touches the index, and the     *)
(* invitations: an edit writes its invitation one statement earlier.       *)
KeyAt == [Invite |-> 4, Edit |-> 3, Remove |-> 2, WalkIn |-> 9, Erase |-> 8]
Midway(j) == j.op.does = "Edit" /\ j.pc = 3
Unmoved(j) ==
  j.op.does \in DOMAIN KeyAt /\ j.pc <= KeyAt[j.op.does] =>
    /\ \A e : Key(e) \notin Drafts(j) /\ \A m : ~Holds(j, Key(e), m)
    /\ j.op.does = "Edit" /\ j.pc <= 2 => \A i \in Invitation : Invited(i) \notin Drafts(j)

Correcting(j, rw) ==
  Midway(j) =>
    LET r == Invited(j.op.inv)
    IN  /\ rw[r] # None /\ rw[r].email = j.seen.held
        /\ r \in Drafts(j) /\ j.wrote[r] # None /\ j.wrote[r].email = j.op.to
        /\ \A i \in Invitation : Invited(i) \in Drafts(j) => i = j.op.inv

(* What a request sees under an address it has not touched is what is      *)
(* committed, and one it has touched has its invitation and its entry.     *)
Placed(j, rw, e) ==
  IF Key(e) \in Drafts(j) THEN Keyed(Sees(j, rw), e)
  ELSE \A i \in Invitation : Has(Sees(j, rw), i, e) <=> Has(rw, i, e)
Placing(j, rw) == Midway(j) \/ \A e \in Reals : Placed(j, rw, e)

(* Why nobody else has written them.                                       *)
Backing(j, rw) ==
  /\ \A e \in Reals : Key(e) \in Drafts(j) =>
       \/ j.wrote[Key(e)] = "taken" /\ rw[Key(e)] # "taken"
       \/ \E i \in Invitation : Owns(j, Invited(i)) /\ rw[Invited(i)] # None /\ Has(rw, i, e)
  /\ \A i \in Invitation : Invited(i) \in Drafts(j) =>
       IF rw[Invited(i)] # None THEN Owns(j, Invited(i)) ELSE Key(Address) \in Drafts(j)
  /\ \A i \in Invitation : \A m : Holds(j, Invited(i), m) =>
       m \in Share .. Update /\ (rw[Invited(i)] # None \/ Invited(i) \in Drafts(j))

Moving(j, rw) == Unmoved(j) /\ Correcting(j, rw) /\ Placing(j, rw) /\ Backing(j, rw)

Exclusive(a, b) ==
  /\ \A e \in Reals : ~(Key(e) \in Drafts(a) /\ Key(e) \in Drafts(b))
  /\ \A i \in Invitation : ~(Invited(i) \in Drafts(a) /\ Invited(i) \in Drafts(b))
  /\ \A i \in Invitation : \A m, k :
       Holds(a, Invited(i), m) /\ Holds(b, Invited(i), k) => m + k < 5

LEMMA ExclusiveBack ==
  ASSUME NEW a, NEW b, NEW rw, NEW rx, Exclusive(a, b), Backing(a, rw), Backing(b, rx)
  PROVE  Exclusive(b, a)
<1>1. ASSUME NEW i \in Invitation, NEW m, NEW k, Holds(b, Invited(i), m), Holds(a, Invited(i), k)
      PROVE  m + k < 5
  <2>1. k + m < 5 BY <1>1 DEF Exclusive
  <2>2. m \in Share .. Update /\ k \in Share .. Update BY <1>1 DEF Backing
  <2> QED BY <2>1, <2>2
<1> QED BY <1>1 DEF Exclusive

(* Two requests do not both own an invitation.                             *)
LEMMA OneOwner ==
  ASSUME NEW a, NEW b, Exclusive(a, b), NEW i \in Invitation, Owns(a, Invited(i)),
         NEW m \in Share .. Update, Holds(b, Invited(i), m)
  PROVE  FALSE
<1>1. PICK k \in NoKeyUpdate .. Update : Holds(a, Invited(i), k) BY DEF Owns, Holds
<1>2. k + m < 5 BY <1>1 DEF Exclusive
<1> QED BY <1>1, <1>2

-------------------------------------------------------------------------------
(* The commit of n leaves the addresses in order, and what x knows of them.*)
Passes(n, rw) == Committing(n, rw) /\ Moving(n, rw) /\ Addressed(rw)

LEMMA PassesRows ==
  ASSUME NEW n, NEW rw, Passes(n, rw)
  PROVE  LET v == Sees(n, rw)
         IN  /\ ~Midway(n) /\ \A e \in Reals : Placed(n, rw, e)
             /\ \A e : Key(e) \notin Drafts(n) => v[Key(e)] = rw[Key(e)]
             /\ \A i \in Invitation : Invited(i) \notin Drafts(n) =>
                  v[Invited(i)] = rw[Invited(i)] /\ At(v, i) = At(rw, i)
<1> DEFINE v == Sees(n, rw)
<1>1. ~Midway(n) BY DEF Midway, Passes, Committing, Lengths
<1>2. \A r \in Rows : r \notin Drafts(n) => v[r] = rw[r] BY CommitRows DEF Passes
<1>3. \A e : Key(e) \in Rows BY RowsAre
<1>4. \A i \in Invitation : Invited(i) \in Rows BY RowsAre
<1> QED BY <1>1, <1>2, <1>3, <1>4 DEF Passes, Moving, Placing, At

LEMMA PassAddressed ==
  ASSUME NEW n, NEW rw, Passes(n, rw)
  PROVE  Addressed(Sees(n, rw))
<1> DEFINE v == Sees(n, rw)
<1>1. ASSUME NEW e \in Reals PROVE Keyed(v, e)
  <2>1. Placed(n, rw, e) /\ (Key(e) \notin Drafts(n) => v[Key(e)] = rw[Key(e)]) BY PassesRows
  <2>2. Keyed(rw, e) BY DEF Passes, Addressed
  <2>3. CASE Key(e) \in Drafts(n) BY <2>1, <2>3 DEF Placed
  <2>4. CASE Key(e) \notin Drafts(n)
    <3>1. \A i \in Invitation : Has(v, i, e) <=> Has(rw, i, e) BY <2>1, <2>4 DEF Placed
    <3>2. v[Key(e)] = rw[Key(e)] BY <2>1, <2>4
    <3> HIDE DEF v
    <3> QED BY <2>2, <3>1, <3>2 DEF Keyed
  <2> QED BY <2>3, <2>4
<1> QED BY <1>1 DEF Addressed

LEMMA PassBacking ==
  ASSUME NEW n, NEW x, NEW rw, Passes(n, rw), Backing(x, rw), Exclusive(n, x)
  PROVE  /\ Backing(x, Sees(n, rw))
         /\ \A i \in Invitation : Owns(x, Invited(i)) /\ rw[Invited(i)] # None
              => Invited(i) \notin Drafts(n)
<1> DEFINE v == Sees(n, rw)
<1>1. /\ \A e : Key(e) \notin Drafts(n) => v[Key(e)] = rw[Key(e)]
      /\ \A i \in Invitation : Invited(i) \notin Drafts(n) =>
           v[Invited(i)] = rw[Invited(i)] /\ At(v, i) = At(rw, i)
  BY PassesRows
<1>2. Backing(n, rw) BY DEF Passes, Moving
<1>3. ASSUME NEW i \in Invitation, NEW m, Holds(x, Invited(i), m), rw[Invited(i)] # None
      PROVE  Invited(i) \notin Drafts(n)
  <2>1. m \in Share .. Update BY <1>3 DEF Backing
  <2>2. Invited(i) \in Drafts(n) => Owns(n, Invited(i)) BY <1>2, <1>3 DEF Backing
  <2> QED BY <2>1, <2>2, <1>3, OneOwner
<1>4. ASSUME NEW i \in Invitation, Owns(x, Invited(i)), rw[Invited(i)] # None
      PROVE  Invited(i) \notin Drafts(n)
  BY <1>3, <1>4 DEF Owns, Holds
<1> HIDE DEF v
<1>5. ASSUME NEW e \in Reals, Key(e) \in Drafts(x)
      PROVE  \/ x.wrote[Key(e)] = "taken" /\ v[Key(e)] # "taken"
             \/ \E i \in Invitation : Owns(x, Invited(i)) /\ v[Invited(i)] # None /\ Has(v, i, e)
  <2>1. v[Key(e)] = rw[Key(e)] BY <1>1, <1>5 DEF Exclusive
  <2>2. CASE x.wrote[Key(e)] = "taken" /\ rw[Key(e)] # "taken" BY <2>1, <2>2
  <2>3. ASSUME NEW i \in Invitation, Owns(x, Invited(i)), rw[Invited(i)] # None, Has(rw, i, e)
        PROVE  Owns(x, Invited(i)) /\ v[Invited(i)] # None /\ Has(v, i, e)
    BY <2>3, <1>1, <1>4 DEF Has
  <2> QED BY <1>5, <2>2, <2>3 DEF Backing
<1>6. ASSUME NEW i \in Invitation, Invited(i) \in Drafts(x)
      PROVE  IF v[Invited(i)] # None THEN Owns(x, Invited(i)) ELSE Key(Address) \in Drafts(x)
  <2>1. v[Invited(i)] = rw[Invited(i)] BY <1>1, <1>6 DEF Exclusive
  <2> QED BY <2>1, <1>6 DEF Backing
<1>7. ASSUME NEW i \in Invitation, NEW m, Holds(x, Invited(i), m)
      PROVE  m \in Share .. Update /\ (v[Invited(i)] # None \/ Invited(i) \in Drafts(x))
  <2>1. m \in Share .. Update /\ (rw[Invited(i)] # None \/ Invited(i) \in Drafts(x))
    BY <1>7 DEF Backing
  <2> QED BY <2>1, <1>1, <1>3, <1>7
<1> QED BY <1>4, <1>5, <1>6, <1>7 DEF Backing, v

LEMMA PassMoving ==
  ASSUME NEW n, NEW x, NEW rw, Passes(n, rw), Moving(x, rw), Exclusive(n, x), Typed(x)
  PROVE  Moving(x, Sees(n, rw))
<1> DEFINE v == Sees(n, rw)
           a == Sees(x, rw)
           b == Sees(x, v)
<1>1. /\ \A e : Key(e) \notin Drafts(n) => v[Key(e)] = rw[Key(e)]
      /\ \A i \in Invitation : Invited(i) \notin Drafts(n) =>
           v[Invited(i)] = rw[Invited(i)] /\ At(v, i) = At(rw, i)
      /\ \A e \in Reals : Placed(n, rw, e)
  BY PassesRows
<1>2. Backing(x, v) BY PassBacking DEF Moving
<1>3. DOMAIN rw = Rows /\ DOMAIN v = Rows BY CommitRows DEF Passes, RowsTyped
<1>4. \A r \in Rows : /\ r \in Drafts(x) => a[r] = b[r]
                      /\ r \notin Drafts(x) => a[r] = rw[r] /\ b[r] = v[r]
  BY <1>3 DEF Sees, Drafts, Overlay
<1> HIDE DEF v, a, b
<1>5. Correcting(x, v)
  <2> SUFFICES ASSUME Midway(x) PROVE v[Invited(x.op.inv)] = rw[Invited(x.op.inv)]
    BY DEF Moving, Correcting
  <2>1. x.op.inv \in Invitation BY DEF Midway, Typed, OpTyped
  <2>2. Invited(x.op.inv) \in Drafts(x) BY DEF Moving, Correcting
  <2> QED BY <2>1, <2>2, <1>1 DEF Exclusive
<1>6. ASSUME NEW e \in Reals, Placed(x, rw, e) PROVE Placed(x, v, e)
  <2>1. ASSUME NEW i \in Invitation, Invited(i) \notin Drafts(x)
        PROVE  /\ Has(b, i, e) <=> Has(v, i, e)
               /\ Has(a, i, e) <=> Has(rw, i, e)
    <3>1. a[Invited(i)] = rw[Invited(i)] /\ b[Invited(i)] = v[Invited(i)] BY <2>1, <1>4, RowsAre
    <3> QED BY <3>1 DEF Has, At
  <2>2. ASSUME NEW i \in Invitation, Invited(i) \in Drafts(x)
        PROVE  (Has(b, i, e) <=> Has(a, i, e)) /\ (Has(v, i, e) <=> Has(rw, i, e))
    <3>1. a[Invited(i)] = b[Invited(i)] /\ v[Invited(i)] = rw[Invited(i)]
      BY <2>2, <1>1, <1>4, RowsAre DEF Exclusive
    <3> QED BY <3>1 DEF Has, At
  <2>3. CASE Key(e) \in Drafts(x)
    <3>1. Key(e) \notin Drafts(n) BY <2>3 DEF Exclusive
    <3>2. \A i \in Invitation : Has(v, i, e) <=> Has(rw, i, e) BY <1>1, <3>1 DEF Placed, v
    <3>3. \A i \in Invitation : Has(b, i, e) <=> Has(a, i, e) BY <2>1, <2>2, <3>2
    <3>4. a[Key(e)] = b[Key(e)] BY <2>3, <1>4, RowsAre
    <3>5. Keyed(a, e) BY <1>6, <2>3 DEF Placed, a
    <3>6. Keyed(b, e) BY <3>3, <3>4, <3>5 DEF Keyed
    <3> QED BY <2>3, <3>6 DEF Placed, b
  <2>4. CASE Key(e) \notin Drafts(x)
    <3>1. \A i \in Invitation : Has(a, i, e) <=> Has(rw, i, e) BY <1>6, <2>4 DEF Placed, a
    <3>2. \A i \in Invitation : Has(b, i, e) <=> Has(v, i, e) BY <2>1, <2>2, <3>1
    <3> QED BY <2>4, <3>2 DEF Placed, b
  <2> QED BY <2>3, <2>4
<1>7. Placing(x, v) BY <1>6 DEF Moving, Placing
<1> QED BY <1>2, <1>5, <1>7 DEF Moving, v

-------------------------------------------------------------------------------
(* What a statement writes of the index and the invitations.               *)
Writing(n, v, st, r) ==
  /\ r \in DOMAIN st.puts
  /\ \/ r[1] = "ghost"
     \/ r[1] = "key" /\ \E p \in DOMAIN st.takes : Owns(n, p)
     \/ r[1] # "key" /\ r \notin DOMAIN st.takes /\ v[r] = None
     \/ Owns(n, r)

LEMMA DoneWrites ==
  ASSUME NEW j, NEW rw, Doing(j, rw)
  PROVE  LET n == Done(j, rw)
             v == Sees(j, rw)
             st == Sends(j, rw)
         IN  /\ \A r : Writing(n, v, st, r) => r \in Drafts(n) /\ n.wrote[r] = st.puts[r]
             /\ \A r : ~Writing(n, v, st, r) =>
                  /\ r \in Drafts(n) <=> r \in Drafts(j)
                  /\ r \in Drafts(j) => n.wrote[r] = j.wrote[r]
             /\ \A r \in Rows : /\ Writing(n, v, st, r) => Sees(n, rw)[r] = st.puts[r]
                                /\ ~Writing(n, v, st, r) => Sees(n, rw)[r] = v[r]
<1> DEFINE n == Done(j, rw)
           v == Sees(j, rw)
           st == Sends(j, rw)
           u == Sees(n, rw)
           w == WrittenBy(v, n.locks, st)
<1>1. DOMAIN j = JobFields BY DEF Doing, Good, Typed
<1>2. n.wrote = Overlay(w, j.wrote) BY <1>1, DoneIs
<1>3. /\ \A r : r \in DOMAIN w <=> Writing(n, v, st, r)
      /\ \A r \in DOMAIN w : w[r] = st.puts[r]
  BY DEF WrittenBy, Owns, Writing
<1>4. DOMAIN rw = Rows BY DEF Doing, Sound, RowsTyped
<1>5. /\ \A r : r \in Drafts(j) => v[r] = j.wrote[r]
      /\ \A r : r \in DOMAIN rw /\ r \notin Drafts(j) => v[r] = rw[r]
  BY SeesDraft, SeesRow
<1>6. /\ \A r : r \in Drafts(n) => u[r] = n.wrote[r]
      /\ \A r : r \in DOMAIN rw /\ r \notin Drafts(n) => u[r] = rw[r]
  BY SeesDraft, SeesRow
<1> HIDE DEF w, n, st, v, u
<1>7. /\ \A r : Writing(n, v, st, r) => r \in Drafts(n) /\ n.wrote[r] = st.puts[r]
      /\ \A r : ~Writing(n, v, st, r) => /\ r \in Drafts(n) <=> r \in Drafts(j)
                                         /\ r \in Drafts(j) => n.wrote[r] = j.wrote[r]
  BY <1>2, <1>3 DEF Overlay, Drafts
<1>8. \A r \in Rows : /\ Writing(n, v, st, r) => u[r] = st.puts[r]
                      /\ ~Writing(n, v, st, r) => u[r] = v[r]
  BY <1>4, <1>5, <1>6, <1>7
<1> QED BY <1>7, <1>8 DEF n, v, st, u

(* A lock on an invitation is on one that is there.                        *)
LEMMA GainBacks ==
  ASSUME NEW j, NEW rw, Doing(j, rw), NEW i \in Invitation, NEW m, Gained(j, rw, Invited(i), m)
  PROVE  m \in Share .. Update /\ (rw[Invited(i)] # None \/ Invited(i) \in Drafts(j))
<1> DEFINE st == Sends(j, rw)
           r == Invited(i)
<1>1. r \in Rows /\ r[1] = "invitation" /\ r # Student BY RowsAre, RowTags
<1>2. r \in DOMAIN st.takes BY DEF Gained
<1>3. st.takes[r] \in Share .. Update
  BY <1>1, <1>2, DoingFits DEF FitSt, Fit, Asks
<1>4. m = st.takes[r] /\ Sees(j, rw)[r] # None BY <1>3 DEF Gained
<1>5. r \in DOMAIN rw BY <1>1 DEF Doing, Sound, RowsTyped
<1>6. \A q : q \in DOMAIN rw /\ q \notin Drafts(j) => Sees(j, rw)[q] = rw[q] BY SeesRow
<1> QED BY <1>3, <1>4, <1>5, <1>6

(* What the statement must show of the rows it writes.                     *)
KeyBacked(n, rw, e) ==
  \/ n.wrote[Key(e)] = "taken" /\ rw[Key(e)] # "taken"
  \/ \E i \in Invitation : Owns(n, Invited(i)) /\ rw[Invited(i)] # None /\ Has(rw, i, e)
Backs(n, rw, v, st) ==
  /\ \A e \in Reals : Writing(n, v, st, Key(e)) => KeyBacked(n, rw, e)
  /\ \A i \in Invitation : Writing(n, v, st, Invited(i)) =>
       IF rw[Invited(i)] # None THEN Owns(n, Invited(i)) ELSE Key(Address) \in Drafts(n)

LEMMA DoneBacking ==
  ASSUME NEW j, NEW rw, Doing(j, rw), Backing(j, rw),
         Backs(Done(j, rw), rw, Sees(j, rw), Sends(j, rw))
  PROVE  Backing(Done(j, rw), rw)
<1> DEFINE n == Done(j, rw)
           v == Sees(j, rw)
           st == Sends(j, rw)
<1>1. /\ \A r : Writing(n, v, st, r) => r \in Drafts(n) /\ n.wrote[r] = st.puts[r]
      /\ \A r : ~Writing(n, v, st, r) =>
           /\ r \in Drafts(n) <=> r \in Drafts(j)
           /\ r \in Drafts(j) => n.wrote[r] = j.wrote[r]
  BY DoneWrites
<1>2. \A r : Owns(j, r) => Owns(n, r) BY DoneHolds
<1>3. \A r, m : Holds(n, r, m) => Holds(j, r, m) \/ Gained(j, rw, r, m) BY DoneGains
<1>4. \A r : r \in Drafts(j) => r \in Drafts(n) BY DoneDrafts
<1>5. \A i \in Invitation : \A m : Gained(j, rw, Invited(i), m) =>
        m \in Share .. Update /\ (rw[Invited(i)] # None \/ Invited(i) \in Drafts(j))
  BY GainBacks
<1> HIDE DEF n, v, st
<1>6. ASSUME NEW e \in Reals, Key(e) \in Drafts(n) PROVE KeyBacked(n, rw, e)
  <2>1. CASE Writing(n, v, st, Key(e)) BY <2>1 DEF Backs, n, v, st
  <2>2. CASE ~Writing(n, v, st, Key(e))
    BY <2>2, <1>1, <1>2, <1>6 DEF Backing, KeyBacked
  <2> QED BY <2>1, <2>2
<1>7. ASSUME NEW i \in Invitation, Invited(i) \in Drafts(n)
      PROVE  IF rw[Invited(i)] # None THEN Owns(n, Invited(i)) ELSE Key(Address) \in Drafts(n)
  <2>1. CASE Writing(n, v, st, Invited(i)) BY <2>1 DEF Backs, n, v, st
  <2>2. CASE ~Writing(n, v, st, Invited(i))
    BY <2>2, <1>1, <1>2, <1>4, <1>7 DEF Backing
  <2> QED BY <2>1, <2>2
<1>8. ASSUME NEW i \in Invitation, NEW m, Holds(n, Invited(i), m)
      PROVE  m \in Share .. Update /\ (rw[Invited(i)] # None \/ Invited(i) \in Drafts(n))
  BY <1>3, <1>4, <1>5, <1>8 DEF Backing
<1> QED BY <1>6, <1>7, <1>8 DEF Backing, KeyBacked, n

(* Before its first write of the index a request has no entry of it.       *)
LEMMA KeyTakes ==
  ASSUME NEW j, NEW rw, Doing(j, rw), NEW e, Key(e) \in DOMAIN Sends(j, rw).takes
  PROVE  Readdresses(j.op, j.pc) /\ Sends(j, rw).takes[Key(e)] = Insert
<1>1. Sends(j, rw).takes[Key(e)] = Insert BY RowTags, DoingFits DEF FitSt, Shape
<1>2. Only(j.op, j.pc, j.seen, Key(e)) BY <1>1, DoingFits DEF FitSt, Shape
<1>3. Key(e)[1] = "key" BY RowTags
<1> QED BY <1>1, <1>2, <1>3, RowTags DEF Only, Readdresses, Does

(* The statements of an edit.                                              *)
LEMMA EditLooks ==
  ASSUME NEW j, NEW rw, Does(j.op, j.pc, "Edit", 1)
  PROVE  LET inv == At(Sees(j, rw), j.op.inv)
         IN  Sends(j, rw) = Keeping([email |-> inv.email], StopIf(inv.status # "pending", Reads))
<1> DEFINE v == Sees(j, rw)
           inv == At(v, j.op.inv)
<1>1. Statements(j.op, v, j.seen) = Edit(v, j.seen, j.op.inv, j.op.to) BY Zenon DEF Statements, Does
<1>2. Sends(j, rw) = Edit(v, j.seen, j.op.inv, j.op.to)[1] BY <1>1 DEF Sends, Does
<1>3. Edit(v, j.seen, j.op.inv, j.op.to)[1] =
        Keeping([email |-> inv.email], StopIf(inv.status # "pending", Reads))
  BY DEF Edit
<1> QED BY <1>2, <1>3

LEMMA EditWrites ==
  ASSUME NEW j, NEW rw, Does(j.op, j.pc, "Edit", 2)
  PROVE  LET v == Sees(j, rw)
             inv == At(v, j.op.inv)
         IN  Sends(j, rw) = Keeping([held |-> inv.email],
               StopIf(inv.status # "pending", Writes(Edited(v, j.seen, j.op))))
<1> DEFINE v == Sees(j, rw)
           inv == At(v, j.op.inv)
<1>1. Statements(j.op, v, j.seen) = Edit(v, j.seen, j.op.inv, j.op.to) BY Zenon DEF Statements, Does
<1>2. Sends(j, rw) = Edit(v, j.seen, j.op.inv, j.op.to)[2] BY <1>1 DEF Sends, Does
<1>3. Edit(v, j.seen, j.op.inv, j.op.to)[2] = Keeping([held |-> inv.email],
        StopIf(inv.status # "pending", Writes(Edited(v, j.seen, j.op))))
  BY DEF Edit, Edited
<1> QED BY <1>2, <1>3

LEMMA EditMoves ==
  ASSUME NEW j, NEW rw, Does(j.op, j.pc, "Edit", 3)
  PROVE  LET v == Sees(j, rw)
             ks == Moved(j.seen, j.op)
         IN  Sends(j, rw) = Ends(StopIf(Existing(v, ks) # {},
               Also(FreedFor(j.seen, j.op), Inserts(TakenBy(ks)))))
<1> DEFINE v == Sees(j, rw)
           ks == Moved(j.seen, j.op)
<1>1. Statements(j.op, v, j.seen) = Edit(v, j.seen, j.op.inv, j.op.to) BY Zenon DEF Statements, Does
<1>2. Sends(j, rw) = Edit(v, j.seen, j.op.inv, j.op.to)[3] BY <1>1 DEF Sends, Does
<1>3. Edit(v, j.seen, j.op.inv, j.op.to)[3] = Ends(StopIf(Existing(v, ks) # {},
        Also(FreedFor(j.seen, j.op), Inserts(TakenBy(ks)))))
  BY DEF Edit, Moved, TakenBy, FreedFor
<1> QED BY <1>2, <1>3

LEMMA DoneUnmoved ==
  ASSUME NEW j, NEW rw, Doing(j, rw), Unmoved(j)
  PROVE  Unmoved(Done(j, rw))
<1> DEFINE n == Done(j, rw)
           v == Sees(j, rw)
           st == Sends(j, rw)
<1>1. n.op = j.op /\ n.pc = j.pc + 1 /\ j.pc \in 1 .. Lengths[j.op.does]
  BY DoneFields, DoingFits DEF FitSt
<1>2. /\ \A r : Writing(n, v, st, r) => r \in Drafts(n) /\ n.wrote[r] = st.puts[r]
      /\ \A r : ~Writing(n, v, st, r) =>
           /\ r \in Drafts(n) <=> r \in Drafts(j)
           /\ r \in Drafts(j) => n.wrote[r] = j.wrote[r]
  BY DoneWrites
<1>3. \A r, m : Holds(n, r, m) => Holds(j, r, m) \/ Gained(j, rw, r, m) BY DoneGains
<1> HIDE DEF n
<1> SUFFICES ASSUME j.op.does \in DOMAIN KeyAt, n.pc <= KeyAt[j.op.does]
             PROVE  /\ \A e : Key(e) \notin Drafts(n) /\ \A m : ~Holds(n, Key(e), m)
                    /\ j.op.does = "Edit" /\ n.pc <= 2 =>
                         \A i \in Invitation : Invited(i) \notin Drafts(n)
  BY <1>1 DEF Unmoved, n
<1>4. j.pc < KeyAt[j.op.does] BY <1>1 DEF KeyAt
<1>5. /\ \A e : Key(e) \notin Drafts(j) /\ \A m : ~Holds(j, Key(e), m)
      /\ j.op.does = "Edit" /\ j.pc <= 2 => \A i \in Invitation : Invited(i) \notin Drafts(j)
  BY <1>1, <1>4 DEF Unmoved, KeyAt
<1>6. Readdresses(j.op, j.pc) => Does(j.op, j.pc, "Edit", 2)
  BY <1>1, <1>4 DEF Readdresses, KeyAt, Does
<1>7. CASE ~Readdresses(j.op, j.pc)
  <2>1. ASSUME NEW e PROVE Key(e) \notin DOMAIN st.puts /\ Key(e) \notin DOMAIN st.takes
    BY <1>7, KeyTakes, RowTags, DoingFits DEF FitSt, Fit, Puts, MayPut
  <2>2. \A e : \A m : ~Gained(j, rw, Key(e), m) BY <2>1 DEF Gained
  <2>3. j.op.does = "Edit" /\ n.pc <= 2 => DOMAIN st.puts = {}
    <3> SUFFICES ASSUME j.op.does = "Edit", n.pc <= 2 PROVE DOMAIN st.puts = {} OBVIOUS
    <3>1. j.pc = 1 BY <1>1
    <3> DEFINE x == At(v, j.op.inv).status # "pending"
               y == [email |-> At(v, j.op.inv).email]
    <3>2. st = Keeping(y, StopIf(x, Reads)) BY <3>1, EditLooks DEF Does
    <3> HIDE DEF x, y
    <3> QED BY <3>2 DEF Keeping, StopIf, Reads, Nothing
  <2> QED BY <2>1, <2>2, <2>3, <1>1, <1>2, <1>3, <1>5 DEF Writing
<1>8. CASE Does(j.op, j.pc, "Edit", 2)
  <2> DEFINE x == At(v, j.op.inv).status # "pending"
             y == [held |-> At(v, j.op.inv).email]
             z == Edited(v, j.seen, j.op)
  <2>1. st = Keeping(y, StopIf(x, Writes(z))) BY <1>8, EditWrites
  <2>2. DOMAIN z \subseteq {Invited(j.op.inv)} BY DEF Edited, Existing
  <2> HIDE DEF x, y, z
  <2>3. DOMAIN st.puts = DOMAIN z /\ DOMAIN st.takes = DOMAIN z
    BY <2>1 DEF Keeping, StopIf, Writes, Locks, Reads
  <2>4. ASSUME NEW e PROVE Key(e) \notin DOMAIN st.puts /\ Key(e) \notin DOMAIN st.takes
    BY <2>2, <2>3, RowTags
  <2>5. \A e : \A m : ~Gained(j, rw, Key(e), m) BY <2>4 DEF Gained
  <2>6. n.pc = 3 BY <1>1, <1>8 DEF Does
  <2> QED BY <2>4, <2>5, <2>6, <1>1, <1>2, <1>3, <1>5 DEF Writing
<1> QED BY <1>6, <1>7, <1>8

-------------------------------------------------------------------------------
(* What a statement leaves of the addresses, by what it does to them.      *)
LEMMA KeyIs ==
  /\ \A a, b \in Addresses : Key(a) = Key(b) => a = b
  /\ \A i, k : Invited(i) = Invited(k) => i = k
  /\ \A e, i : Key(e) # Invited(i)
  /\ Reals \subseteq Addresses /\ None \notin Reals /\ Scrubbed \notin Reals
  BY KeysDiffer, RowTags, NoneIs DEF Addresses, Reals

LEMMA Committed ==
  ASSUME NEW j, NEW rw, Doing(j, rw)
  PROVE  \A r \in Rows : r \notin Drafts(j) => Sees(j, rw)[r] = rw[r]
<1>1. \A r : r \in DOMAIN rw /\ r \notin Drafts(j) => Sees(j, rw)[r] = rw[r] BY SeesRow
<1>2. DOMAIN rw = Rows BY DEF Doing, Sound, RowsTyped
<1> QED BY <1>1, <1>2

(* An entry is made by the insert that waits for it.                       *)
Enters(st) == \A e : Key(e) \in DOMAIN st.puts /\ st.puts[Key(e)] = "taken"
                       => Key(e) \in DOMAIN st.takes
Relays(j, rw) ==
  LET n == Done(j, rw)
  IN  /\ Correcting(n, rw) /\ Placing(n, rw)
      /\ Backs(n, rw, Sees(j, rw), Sends(j, rw)) /\ Enters(Sends(j, rw))

(* No address moves.                                                       *)
Plain(v, st) ==
  /\ \A e : Key(e) \notin DOMAIN st.puts
  /\ \A i \in Invitation : LET r == Invited(i)
       IN  r \in DOMAIN st.puts =>
             /\ r \in DOMAIN st.takes /\ v[r] # None
             /\ st.puts[r] # None /\ st.puts[r].email = v[r].email

LEMMA PlainRelays ==
  ASSUME NEW j, NEW rw, Doing(j, rw), Moving(j, rw), ~Midway(j), ~Does(j.op, j.pc, "Edit", 2),
         Plain(Sees(j, rw), Sends(j, rw))
  PROVE  Relays(j, rw)
<1> DEFINE n == Done(j, rw)
           v == Sees(j, rw)
           st == Sends(j, rw)
           u == Sees(n, rw)
<1>1. /\ \A r : ~Writing(n, v, st, r) => (r \in Drafts(n) <=> r \in Drafts(j))
      /\ \A r \in Rows : /\ Writing(n, v, st, r) => u[r] = st.puts[r]
                         /\ ~Writing(n, v, st, r) => u[r] = v[r]
  BY DoneWrites
<1>2. n.op = j.op /\ n.pc = j.pc + 1 /\ j.pc \in 1 .. Lengths[j.op.does]
  BY DoneFields, DoingFits DEF FitSt
<1>3. \A r \in Rows : r \notin Drafts(j) => v[r] = rw[r] BY Committed
<1>4. \A r : r \in Drafts(j) => r \in Drafts(n) BY DoneDrafts
<1>5. Plain(v, st) OBVIOUS
<1>6. Backing(j, rw) /\ \A e \in Reals : Placed(j, rw, e) BY DEF Moving, Placing
<1> HIDE DEF n, v, st, u
<1>7. ~Midway(n) BY <1>2 DEF Midway, Does
<1>8. \A e : ~Writing(n, v, st, Key(e)) BY <1>5 DEF Plain, Writing
<1>9. \A i \in Invitation : \A e : Has(u, i, e) <=> Has(v, i, e)
  BY <1>1, <1>5, RowsAre DEF Has, At, Plain, Writing
<1>10. ASSUME NEW e \in Reals PROVE Placed(n, rw, e)
  <2>1. Placed(j, rw, e) BY <1>6
  <2>2. u[Key(e)] = v[Key(e)] BY <1>1, <1>8, RowsAre
  <2>3. Key(e) \in Drafts(n) <=> Key(e) \in Drafts(j) BY <1>1, <1>8
  <2>4. CASE Key(e) \in Drafts(j)
    <3>1. Keyed(v, e) BY <2>1, <2>4 DEF Placed, v
    <3>2. Keyed(u, e) BY <3>1, <2>2, <1>9 DEF Keyed
    <3> QED BY <3>2, <2>3, <2>4 DEF Placed, u
  <2>5. CASE Key(e) \notin Drafts(j)
    <3>1. \A i \in Invitation : Has(v, i, e) <=> Has(rw, i, e) BY <2>1, <2>5 DEF Placed, v
    <3> QED BY <3>1, <2>3, <2>5, <1>9 DEF Placed, u
  <2> QED BY <2>4, <2>5
<1>11. ASSUME NEW i \in Invitation, Writing(n, v, st, Invited(i))
       PROVE  IF rw[Invited(i)] # None THEN Owns(n, Invited(i)) ELSE Key(Address) \in Drafts(n)
  <2>1. Invited(i) \in DOMAIN st.takes /\ v[Invited(i)] # None BY <1>5, <1>11 DEF Plain, Writing
  <2>2. Owns(n, Invited(i)) BY <2>1, <1>11, RowTags DEF Writing
  <2>3. rw[Invited(i)] = None => Invited(i) \in Drafts(j) BY <2>1, <1>3, RowsAre
  <2>4. rw[Invited(i)] = None => Key(Address) \in Drafts(j) BY <2>3, <1>6 DEF Backing
  <2> QED BY <2>2, <2>4, <1>4
<1>12. Backs(n, rw, v, st) BY <1>8, <1>11 DEF Backs
<1>13. Enters(st) BY <1>5 DEF Plain, Enters
<1> QED BY <1>7, <1>10, <1>12, <1>13 DEF Relays, Correcting, Placing, n, v, st

(* A new invitation to the person's address.                               *)
Creation(v, st, m) ==
  /\ v[Invited(m)] = None /\ v[Key(Address)] = None
  /\ DOMAIN st.takes = {Key(Address)} /\ st.takes[Key(Address)] = Insert
  /\ DOMAIN st.puts = {Key(Address), Invited(m)}
  /\ st.puts[Key(Address)] = "taken"
  /\ st.puts[Invited(m)] # None /\ st.puts[Invited(m)].email = Address

LEMMA CreationRelays ==
  ASSUME NEW j, NEW rw, Doing(j, rw), Moving(j, rw), Addressed(rw), j.op.does # "Edit",
         Key(Address) \notin Drafts(j), Only(j.op, j.pc, j.seen, Key(Address)),
         NEW m \in Invitation, Creation(Sees(j, rw), Sends(j, rw), m)
  PROVE  Relays(j, rw)
<1> DEFINE n == Done(j, rw)
           v == Sees(j, rw)
           st == Sends(j, rw)
           u == Sees(n, rw)
<1>1. /\ \A r : Writing(n, v, st, r) => r \in Drafts(n) /\ n.wrote[r] = st.puts[r]
      /\ \A r : ~Writing(n, v, st, r) => (r \in Drafts(n) <=> r \in Drafts(j))
      /\ \A r \in Rows : /\ Writing(n, v, st, r) => u[r] = st.puts[r]
                         /\ ~Writing(n, v, st, r) => u[r] = v[r]
  BY DoneWrites
<1>2. n.op = j.op BY DoneFields
<1>3. \A r \in Rows : r \notin Drafts(j) => v[r] = rw[r] BY Committed
<1>4. \A r : Owns(j, r) => Owns(n, r) BY DoneHolds
<1>5. Creation(v, st, m) OBVIOUS
<1>6. Backing(j, rw) /\ \A e \in Reals : Placed(j, rw, e)
  BY DEF Moving, Placing, Midway
<1>7. Holds(n, Key(Address), Update)
  <2>1. Gained(j, rw, Key(Address), Update) BY DEF Gained, Creation
  <2> QED BY <2>1, OnlyHeld
<1> HIDE DEF n, v, st, u
<1>8. ~Midway(n) BY <1>2 DEF Midway
<1>9. /\ Writing(n, v, st, Key(Address)) /\ Writing(n, v, st, Invited(m))
      /\ \A r : Writing(n, v, st, r) => r \in {Key(Address), Invited(m)}
  <2>1. Owns(n, Key(Address)) BY <1>7 DEF Holds, Owns
  <2>2. Invited(m) \notin DOMAIN st.takes BY <1>5, KeyIs DEF Creation
  <2> QED BY <2>1, <2>2, <1>5, RowTags DEF Writing, Creation
<1>10. rw[Key(Address)] = None BY <1>3, <1>5, RowsAre DEF Creation
<1>11. \A i \in Invitation : ~Has(v, i, Address)
  <2>1. Keyed(rw, Address) BY DEF Addressed, Reals
  <2>2. \A i \in Invitation : ~Has(rw, i, Address)
    BY <2>1, <1>10, NoneIs DEF Keyed, Words
  <2>3. Placed(j, rw, Address) BY <1>6 DEF Reals
  <2> QED BY <2>2, <2>3 DEF Placed, v
<1>12. u[Key(Address)] = "taken" BY <1>1, <1>5, <1>9, RowsAre DEF Creation
<1>13. \A i \in Invitation : i # m => (\A e : Has(u, i, e) <=> Has(v, i, e))
  BY <1>1, <1>9, KeyIs, RowsAre DEF Has, At
<1>14. Has(u, m, Address) /\ \A e : Has(u, m, e) => e = Address
  BY <1>1, <1>5, <1>9, RowsAre DEF Has, At, Creation
<1>15. \A e \in Reals : ~Has(v, m, e) BY <1>5, KeyIs DEF Has, At, Creation, NoInvitation
<1>16. Keyed(u, Address) BY <1>11, <1>12, <1>13, <1>14 DEF Keyed
<1>17. ASSUME NEW e \in Reals PROVE Placed(n, rw, e)
  <2>1. CASE e = Address BY <2>1, <1>1, <1>9, <1>16 DEF Placed, u
  <2>2. CASE e # Address
    <3>1. \A i \in Invitation : Has(u, i, e) <=> Has(v, i, e) BY <2>2, <1>13, <1>14, <1>15
    <3>2. Key(e) # Key(Address) BY <2>2, KeyIs DEF Addresses
    <3>3. ~Writing(n, v, st, Key(e)) BY <3>2, <1>9, KeyIs
    <3>4. Placed(j, rw, e) BY <1>6
    <3>5. u[Key(e)] = v[Key(e)] /\ (Key(e) \in Drafts(n) <=> Key(e) \in Drafts(j))
      BY <3>3, <1>1, RowsAre
    <3>6. CASE Key(e) \in Drafts(j)
      <4>1. Keyed(v, e) BY <3>4, <3>6 DEF Placed, v
      <4>2. Keyed(u, e) BY <4>1, <3>1, <3>5 DEF Keyed
      <4> QED BY <4>2, <3>5, <3>6 DEF Placed, u
    <3>7. CASE Key(e) \notin Drafts(j)
      <4>1. \A i \in Invitation : Has(v, i, e) <=> Has(rw, i, e) BY <3>4, <3>7 DEF Placed, v
      <4> QED BY <4>1, <3>1, <3>5, <3>7 DEF Placed, u
    <3> QED BY <3>6, <3>7
  <2> QED BY <2>1, <2>2
<1>18. ASSUME NEW e \in Reals, Writing(n, v, st, Key(e)) PROVE KeyBacked(n, rw, e)
  <2>1. Key(e) = Key(Address) BY <1>9, <1>18, KeyIs
  <2>2. n.wrote[Key(e)] = "taken" BY <2>1, <1>1, <1>5, <1>9 DEF Creation
  <2>3. rw[Key(e)] # "taken" BY <2>1, <1>10, NoneIs DEF Words
  <2> QED BY <2>2, <2>3 DEF KeyBacked
<1>19. ASSUME NEW i \in Invitation, Writing(n, v, st, Invited(i))
       PROVE  IF rw[Invited(i)] # None THEN Owns(n, Invited(i)) ELSE Key(Address) \in Drafts(n)
  <2>1. i = m BY <1>9, <1>19, KeyIs
  <2>2. ASSUME rw[Invited(i)] # None PROVE Owns(n, Invited(i))
    <3>1. Invited(i) \in Drafts(j) BY <2>1, <2>2, <1>3, <1>5, RowsAre DEF Creation
    <3> QED BY <3>1, <2>2, <1>4, <1>6 DEF Backing
  <2> QED BY <2>2, <1>1, <1>9
<1>20. Backs(n, rw, v, st) BY <1>18, <1>19 DEF Backs
<1>21. Enters(st) BY <1>5, KeyIs DEF Creation, Enters
<1> QED BY <1>8, <1>17, <1>20, <1>21 DEF Relays, Correcting, Placing, n, v, st

(* An invitation goes, or its address is scrubbed.                         *)
Removal(v, st, i) ==
  LET e == At(v, i).email
  IN  /\ v[Invited(i)] # None /\ e \in Addresses
      /\ DOMAIN st.takes = {Invited(i)}
      /\ DOMAIN st.puts = {Key(e), Invited(i)} /\ st.puts[Key(e)] = None
      /\ st.puts[Invited(i)] # None => st.puts[Invited(i)].email = Scrubbed

LEMMA RemovalRelays ==
  ASSUME NEW j, NEW rw, Doing(j, rw), Moving(j, rw), Addressed(rw), j.op.does # "Edit",
         \A e : Key(e) \notin Drafts(j) /\ \A m : ~Holds(j, Key(e), m),
         NEW i \in Invitation, Removal(Sees(j, rw), Sends(j, rw), i)
  PROVE  Relays(j, rw)
<1> DEFINE n == Done(j, rw)
           v == Sees(j, rw)
           st == Sends(j, rw)
           u == Sees(n, rw)
           e == At(v, i).email
<1>1. /\ \A r : Writing(n, v, st, r) => r \in Drafts(n) /\ n.wrote[r] = st.puts[r]
      /\ \A r : ~Writing(n, v, st, r) => (r \in Drafts(n) <=> r \in Drafts(j))
      /\ \A r \in Rows : /\ Writing(n, v, st, r) => u[r] = st.puts[r]
                         /\ ~Writing(n, v, st, r) => u[r] = v[r]
  BY DoneWrites
<1>2. n.op = j.op BY DoneFields
<1>3. \A r \in Rows : r \notin Drafts(j) => v[r] = rw[r] BY Committed
<1>4. \A r, m : Holds(n, r, m) => Holds(j, r, m) \/ Gained(j, rw, r, m) BY DoneGains
<1>5. Removal(v, st, i) OBVIOUS
<1>6. Backing(j, rw) /\ \A a \in Reals : Placed(j, rw, a)
  BY DEF Moving, Placing, Midway
<1>7. \A a : Key(a) \notin DOMAIN st.takes BY <1>5, KeyIs DEF Removal
<1>8. \A a : ~Owns(n, Key(a))
  <2>1. \A a, m : ~Gained(j, rw, Key(a), m) BY <1>7 DEF Gained
  <2> QED BY <2>1, <1>4 DEF Owns, Holds
<1>a. \A a \in Reals : \A k \in Invitation : Has(v, k, a) <=> Has(rw, k, a)
  BY <1>6 DEF Placed
<1> HIDE DEF n, v, st, u
<1>9. ~Midway(n) BY <1>2 DEF Midway
<1>10. /\ Writing(n, v, st, Invited(i)) <=> Owns(n, Invited(i))
       /\ Writing(n, v, st, Key(e)) <=> Owns(n, Invited(i))
       /\ \A r : Writing(n, v, st, r) => r \in {Key(e), Invited(i)}
  BY <1>5, <1>8, RowTags DEF Writing, Removal
<1>11. \A k \in Invitation : k # i => (\A a : Has(u, k, a) <=> Has(v, k, a))
  BY <1>1, <1>10, KeyIs, RowsAre DEF Has, At
<1>12. \A a \in Reals : a # e =>
         /\ ~Writing(n, v, st, Key(a))
         /\ \A k \in Invitation : Has(u, k, a) <=> Has(v, k, a)
  <2> SUFFICES ASSUME NEW a \in Reals, a # e
               PROVE  /\ ~Writing(n, v, st, Key(a))
                      /\ \A k \in Invitation : Has(u, k, a) <=> Has(v, k, a)
    OBVIOUS
  <2>1. ~Writing(n, v, st, Key(a))
    BY <1>5, <1>10, KeyIs DEF Removal
  <2>2. ~Has(v, i, a) BY DEF Has
  <2>3. ~Has(u, i, a)
    <3>1. CASE Writing(n, v, st, Invited(i))
      <4>1. u[Invited(i)] = st.puts[Invited(i)] BY <3>1, <1>1, RowsAre
      <4> QED BY <4>1, <1>5, KeyIs DEF Has, At, NoInvitation, Removal
    <3>2. CASE ~Writing(n, v, st, Invited(i))
      <4>1. u[Invited(i)] = v[Invited(i)] BY <3>2, <1>1, RowsAre
      <4> QED BY <4>1, <2>2 DEF Has, At
    <3> QED BY <3>1, <3>2
  <2> QED BY <2>1, <2>2, <2>3, <1>11
<1>13. ASSUME NEW a \in Reals PROVE Placed(n, rw, a)
  <2>1. CASE a # e
    <3>1. Key(a) \notin Drafts(n) BY <2>1, <1>1, <1>12
    <3> QED BY <3>1, <2>1, <1>12, <1>a DEF Placed, u
  <2>2. CASE a = e /\ ~Owns(n, Invited(i))
    <3>1. Key(a) \notin Drafts(n) BY <2>2, <1>1, <1>10
    <3>2. u[Invited(i)] = v[Invited(i)] BY <2>2, <1>1, <1>10, RowsAre
    <3>3. \A k \in Invitation : Has(u, k, a) <=> Has(v, k, a) BY <3>2, <1>11 DEF Has, At
    <3> QED BY <3>1, <3>3, <1>a DEF Placed, u
  <2>3. CASE a = e /\ Owns(n, Invited(i))
    <3>1. Key(a) \in Drafts(n) BY <2>3, <1>1, <1>10
    <3>2. u[Key(a)] = None /\ u[Invited(i)] = st.puts[Invited(i)]
      BY <2>3, <1>1, <1>5, <1>10, RowsAre DEF Removal
    <3>3. ~Has(u, i, a) BY <3>2, <1>5, KeyIs DEF Has, At, NoInvitation, Removal
    <3>4. Keyed(rw, a) BY DEF Addressed
    <3>5. Has(v, i, a) BY <2>3 DEF Has
    <3>6. \A k \in Invitation : Has(v, k, a) => k = i BY <3>4, <3>5, <1>a DEF Keyed
    <3>7. \A k \in Invitation : ~Has(u, k, a) BY <3>3, <3>6, <1>11
    <3>8. Keyed(u, a) BY <3>2, <3>7, NoneIs DEF Keyed, Words
    <3> QED BY <3>1, <3>8 DEF Placed, u
  <2> QED BY <2>1, <2>2, <2>3
<1>14. ASSUME NEW a \in Reals, Writing(n, v, st, Key(a)) PROVE KeyBacked(n, rw, a)
  <2>1. a = e BY <1>12, <1>14
  <2>2. Owns(n, Invited(i)) BY <2>1, <1>10, <1>14
  <2>3. Has(rw, i, a) BY <2>1, <1>a DEF Has
  <2>4. rw[Invited(i)] # None BY <2>3, KeyIs DEF Has, At, NoInvitation
  <2> QED BY <2>2, <2>3, <2>4 DEF KeyBacked
<1>15. ASSUME NEW k \in Invitation, Writing(n, v, st, Invited(k))
       PROVE  IF rw[Invited(k)] # None THEN Owns(n, Invited(k)) ELSE Key(Address) \in Drafts(n)
  <2>1. k = i BY <1>10, <1>15, KeyIs
  <2>2. Owns(n, Invited(k)) BY <2>1, <1>10, <1>15
  <2>3. rw[Invited(k)] # None
    <3>1. ASSUME rw[Invited(k)] = None PROVE FALSE
      <4>1. Invited(k) \in Drafts(j) BY <3>1, <2>1, <1>3, <1>5, RowsAre DEF Removal
      <4> QED BY <4>1, <3>1, <1>6 DEF Backing
    <3> QED BY <3>1
  <2> QED BY <2>2, <2>3
<1>16. Backs(n, rw, v, st) BY <1>14, <1>15 DEF Backs
<1>17. Enters(st) BY <1>5, KeyIs, NoneIs DEF Removal, Enters, Words
<1> QED BY <1>9, <1>13, <1>16, <1>17 DEF Relays, Correcting, Placing, n, v, st

-------------------------------------------------------------------------------
LEMMA EditWritesRelays ==
  ASSUME NEW j, NEW rw, Doing(j, rw), Moving(j, rw), Does(j.op, j.pc, "Edit", 2),
         ~Sends(j, rw).stop
  PROVE  Relays(j, rw)
<1> DEFINE n == Done(j, rw)
           v == Sees(j, rw)
           st == Sends(j, rw)
           i == j.op.inv
           r == Invited(i)
           inv == At(v, i)
           lost == inv.status # "pending"
           held == [held |-> inv.email]
           new == Edited(v, j.seen, j.op)
<1>1. /\ \A q : Writing(n, v, st, q) => q \in Drafts(n) /\ n.wrote[q] = st.puts[q]
      /\ \A q : ~Writing(n, v, st, q) => (q \in Drafts(n) <=> q \in Drafts(j))
  BY DoneWrites
<1>2. n.op = j.op /\ n.pc = 3 BY DoneFields DEF Does
<1>3. \A q \in Rows : q \notin Drafts(j) => v[q] = rw[q] BY Committed
<1>4. i \in Invitation /\ r \in Rows /\ r[1] = "invitation"
  BY RowsAre, RowTags DEF Does, Doing, Good, Typed, OpTyped
<1>5. st = Keeping(held, StopIf(lost, Writes(new))) BY EditWrites
<1>6. n.seen.held = IF "held" \in DOMAIN st.notes THEN st.notes.held ELSE j.seen.held
  BY DoneSeen
<1>7. Only(j.op, j.pc, j.seen, r) BY DEF Only, Does
<1>8. (/\ r \in DOMAIN st.takes /\ st.takes[r] \in {NoKeyUpdate, Update} /\ v[r] # None)
      => Owns(n, r)
  BY <1>7, OnlyOwned
<1>9. \A k \in Invitation : Invited(k) \notin Drafts(j) BY DEF Moving, Unmoved, KeyAt, Does
<1>10. RowsTyped(v) /\ Puts(j.op, j.pc, v, st) BY DoingFits DEF FitSt, Fit
<1>11. ~st.stop OBVIOUS
<1>12. j.op.does = "Edit" BY DEF Does
<1>13. ~lost => v[r] # None /\ inv = v[r] BY NoneIs DEF At, NoInvitation, Words
<1>14. /\ DOMAIN new = Existing(v, {r})
       /\ \A q \in DOMAIN new : new[q].email = j.op.to
  <2>1. DOMAIN new = Existing(v, {r}) BY DEF Edited
  <2>2. ASSUME NEW q \in DOMAIN new PROVE new[q].email = j.op.to
    <3>1. q = r /\ v[r] # None /\ v[r] \in InvitationRow
      BY <2>1, <2>2, <1>4, <1>10 DEF Existing, RowsTyped
    <3>2. new[q] = [inv EXCEPT !.email = j.op.to, !.delivered = @ /\ j.op.to = j.seen.email]
      BY <2>2 DEF Edited
    <3>3. inv = v[r] BY <3>1 DEF At
    <3> HIDE DEF inv, new, r, v
    <3> QED BY <3>1, <3>2, <3>3 DEF InvitationRow
  <2> QED BY <2>1, <2>2
<1> HIDE DEF n, v, st, lost, held, new
<1>15. /\ ~lost /\ st.notes = held /\ st.puts = new
       /\ st.takes = [q \in DOMAIN new |-> NoKeyUpdate]
  BY <1>5, <1>11 DEF Keeping, StopIf, Writes, Locks, Reads
<1>16. v[r] # None /\ inv = v[r] /\ v[r] = rw[r] BY <1>3, <1>4, <1>9, <1>13, <1>15
<1>17. DOMAIN new = {r} BY <1>14, <1>16 DEF Existing
<1>18. Owns(n, r) BY <1>8, <1>15, <1>16, <1>17
<1>19. Writing(n, v, st, r) /\ \A q : Writing(n, v, st, q) => q = r
  BY <1>15, <1>17, <1>18 DEF Writing
<1>20. r \in Drafts(n) /\ n.wrote[r] # None /\ n.wrote[r].email = j.op.to
  <2>1. r \in Drafts(n) /\ n.wrote[r] = new[r] BY <1>1, <1>15, <1>19
  <2>2. new[r] \in InvitationRow
    BY <1>4, <1>10, <1>12, <1>15, <1>17 DEF Puts, MayPut, Allowed
  <2> QED BY <2>1, <2>2, <1>14, <1>17, NoneIs
<1>21. \A k \in Invitation : Invited(k) \in Drafts(n) => k = i BY <1>1, <1>9, <1>19, KeyIs
<1>22. n.seen.held = rw[r].email BY <1>6, <1>15, <1>16 DEF held
<1>23. Correcting(n, rw) BY <1>2, <1>16, <1>20, <1>21, <1>22 DEF Correcting
<1>24. Placing(n, rw) BY <1>2, <1>12 DEF Placing, Midway
<1>25. Backs(n, rw, v, st)
  <2>1. \A e : ~Writing(n, v, st, Key(e)) BY <1>19, KeyIs
  <2>2. ASSUME NEW k \in Invitation, Writing(n, v, st, Invited(k))
        PROVE  rw[Invited(k)] # None /\ Owns(n, Invited(k))
    <3>1. Invited(k) = r BY <2>2, <1>19
    <3> QED BY <3>1, <1>16, <1>18
  <2> QED BY <2>1, <2>2 DEF Backs
<1>26. Enters(st) BY <1>15, <1>17, KeyIs DEF Enters
<1> QED BY <1>23, <1>24, <1>25, <1>26 DEF Relays, n, v, st

LEMMA EditMovesRelays ==
  ASSUME NEW j, NEW rw, Doing(j, rw), Moving(j, rw), Addressed(rw), Midway(j), ~Sends(j, rw).stop
  PROVE  Relays(j, rw)
<1> DEFINE n == Done(j, rw)
           v == Sees(j, rw)
           st == Sends(j, rw)
           u == Sees(n, rw)
           i == j.op.inv
           r == Invited(i)
           to == j.op.to
           held == j.seen.held
           ks == Moved(j.seen, j.op)
           freed == FreedFor(j.seen, j.op)
           full == Existing(v, ks) # {}
<1>1. /\ \A q : Writing(n, v, st, q) => q \in Drafts(n) /\ n.wrote[q] = st.puts[q]
      /\ \A q : ~Writing(n, v, st, q) => (q \in Drafts(n) <=> q \in Drafts(j))
      /\ \A q \in Rows : /\ Writing(n, v, st, q) => u[q] = st.puts[q]
                         /\ ~Writing(n, v, st, q) => u[q] = v[q]
  BY DoneWrites
<1>2. n.op = j.op /\ n.pc = 4 BY DoneFields DEF Midway
<1>3. \A q \in Rows : q \notin Drafts(j) => v[q] = rw[q] BY Committed
<1>4. i \in Invitation /\ r \in Rows /\ r[1] = "invitation" /\ to \in Reals
  BY RowsAre, RowTags DEF Midway, Doing, Good, Typed, OpTyped, Reals
<1>5. st = Ends(StopIf(full, Also(freed, Inserts(TakenBy(ks))))) BY EditMoves DEF Midway, Does
<1>6. \A q : \A m : Only(j.op, j.pc, j.seen, q) /\ Gained(j, rw, q, m) => Holds(n, q, m)
  BY OnlyHeld
<1>7. /\ rw[r] # None /\ rw[r].email = held
      /\ r \in Drafts(j) /\ j.wrote[r] # None /\ j.wrote[r].email = to
      /\ \A k \in Invitation : Invited(k) \in Drafts(j) => k = i
  BY DEF Moving, Correcting
<1>8. \A e : Key(e) \notin Drafts(j) BY DEF Moving, Unmoved, KeyAt, Midway
<1>9. \A q : Owns(j, q) => Owns(n, q) BY DoneHolds
<1>10. Owns(n, r) BY <1>4, <1>7, <1>9 DEF Moving, Backing
<1>11. held \in Addresses
  <2>1. rw[r] \in InvitationRow BY <1>4, <1>7 DEF Doing, Sound, RowsTyped
  <2> QED BY <2>1, <1>7 DEF InvitationRow, Addresses
<1>12. v[r] = j.wrote[r]
  <2>1. \A q : q \in Drafts(j) => Sees(j, rw)[q] = j.wrote[q] BY SeesDraft
  <2> QED BY <2>1, <1>7
<1>13. Only(j.op, j.pc, j.seen, Key(to)) BY DEF Only, Does, Midway
<1>14. ks = {k \in {Key(to)} : held # to} BY DEF Moved
<1>15. freed = [k \in {Key(held) : m \in ks} |-> None] BY DEF FreedFor
<1>16. ~st.stop OBVIOUS
<1>17. \A q : q \in DOMAIN st.takes /\ st.takes[q] = Insert /\ v[q] = None
          => Gained(j, rw, q, Update)
  BY DEF Gained
<1>18. \A a \in Reals : Keyed(rw, a) BY DEF Addressed
<1> HIDE DEF n, v, st, u, i, to, held, ks, freed, full
<1>19. /\ ~full /\ st.takes = [k \in ks |-> Insert]
       /\ st.puts = Overlay(freed, [k \in ks |-> "taken"])
  BY <1>5, <1>16 DEF Ends, StopIf, Also, Inserts, Locks, Reads, TakenBy
<1>20. ~Midway(n) BY <1>2 DEF Midway
<1>21. \A k \in Invitation : ~Writing(n, v, st, Invited(k))
  BY <1>14, <1>15, <1>19, KeyIs DEF Writing, Overlay
<1>22. \A a \in Reals : \A k \in Invitation :
          /\ Has(u, k, a) <=> Has(v, k, a)
          /\ k # i => (Has(v, k, a) <=> Has(rw, k, a))
  <2> SUFFICES ASSUME NEW a \in Reals, NEW k \in Invitation
               PROVE  /\ Has(u, k, a) <=> Has(v, k, a)
                      /\ k # i => (Has(v, k, a) <=> Has(rw, k, a))
    OBVIOUS
  <2>1. u[Invited(k)] = v[Invited(k)] BY <1>1, <1>21, RowsAre
  <2>2. k # i => v[Invited(k)] = rw[Invited(k)] BY <1>3, <1>7, RowsAre
  <2> QED BY <2>1, <2>2 DEF Has, At
<1>23. \A a : (Has(v, i, a) <=> a = to) /\ (Has(rw, i, a) <=> a = held)
  BY <1>7, <1>12 DEF Has, At
<1>24. CASE held = to
  <2>1. ks = {} BY <1>14, <1>24
  <2>2. DOMAIN st.puts = {} BY <2>1, <1>15, <1>19 DEF Overlay
  <2>3. \A q : ~Writing(n, v, st, q) BY <2>2 DEF Writing
  <2>4. \A a \in Reals : Key(a) \notin Drafts(n) BY <2>3, <1>1, <1>8
  <2>5. \A a \in Reals : \A k \in Invitation : Has(u, k, a) <=> Has(rw, k, a)
    BY <1>22, <1>23, <1>24
  <2>6. \A a \in Reals : Placed(n, rw, a) BY <2>4, <2>5 DEF Placed, u
  <2>7. Backs(n, rw, v, st) BY <2>3 DEF Backs
  <2>8. Enters(st) BY <2>2 DEF Enters
  <2> QED BY <2>6, <2>7, <2>8, <1>20 DEF Relays, Correcting, Placing, n, v, st
<1>25. CASE held # to
  <2>1. ks = {Key(to)} BY <1>14, <1>25
  <2>2. freed = [k \in {Key(held)} |-> None] BY <2>1, <1>15
  <2>3. Key(held) # Key(to) BY <1>4, <1>11, <1>25, KeyIs
  <2>4. /\ DOMAIN st.takes = {Key(to)} /\ st.takes[Key(to)] = Insert
        /\ DOMAIN st.puts = {Key(held), Key(to)}
        /\ st.puts[Key(held)] = None /\ st.puts[Key(to)] = "taken"
    BY <1>19, <2>1, <2>2, <2>3 DEF Overlay
  <2>5. v[Key(to)] = None /\ rw[Key(to)] = None
    BY <2>1, <1>3, <1>8, <1>19, RowsAre DEF full, Existing
  <2>6. Owns(n, Key(to))
    <3>1. Holds(n, Key(to), Update) BY <2>4, <2>5, <1>6, <1>13, <1>17
    <3> QED BY <3>1 DEF Holds, Owns
  <2>7. /\ Writing(n, v, st, Key(to)) /\ Writing(n, v, st, Key(held))
        /\ \A q : Writing(n, v, st, q) => q \in {Key(to), Key(held)}
    BY <2>4, <2>6, RowTags DEF Writing
  <2>8. \A k \in Invitation : ~Has(rw, k, to)
    BY <2>5, <1>4, <1>18, NoneIs DEF Keyed, Words
  <2>9. u[Key(to)] = "taken" /\ u[Key(held)] = None BY <2>4, <2>7, <1>1, RowsAre
  <2>10. \A k \in Invitation : Has(u, k, to) <=> k = i
    BY <2>8, <1>4, <1>22, <1>23
  <2>11. Keyed(u, to) BY <2>9, <2>10, <1>4 DEF Keyed
  <2>12. held \in Reals => \A k \in Invitation : ~Has(u, k, held)
    <3> SUFFICES ASSUME held \in Reals, NEW k \in Invitation, Has(u, k, held) PROVE FALSE
      OBVIOUS
    <3>1. Has(v, k, held) BY <1>22
    <3>2. k # i BY <3>1, <1>23, <1>25
    <3>3. Has(rw, k, held) /\ Has(rw, i, held) BY <3>1, <3>2, <1>22, <1>23
    <3> QED BY <3>2, <3>3, <1>4, <1>18 DEF Keyed
  <2>13. held \in Reals => Keyed(u, held) BY <2>9, <2>12, NoneIs DEF Keyed, Words
  <2>14. ASSUME NEW a \in Reals PROVE Placed(n, rw, a)
    <3>1. CASE a = to \/ a = held
      <4>1. Key(a) \in Drafts(n) BY <3>1, <2>7, <1>1
      <4>2. Keyed(u, a) BY <3>1, <2>11, <2>13, <2>14
      <4> QED BY <4>1, <4>2 DEF Placed, u
    <3>2. CASE a # to /\ a # held
      <4>1. Key(a) # Key(to) /\ Key(a) # Key(held) BY <3>2, <1>4, <1>11, KeyIs
      <4>2. Key(a) \notin Drafts(n) BY <4>1, <2>7, <1>1, <1>8
      <4>3. \A k \in Invitation : Has(u, k, a) <=> Has(rw, k, a) BY <3>2, <1>22, <1>23
      <4> QED BY <4>2, <4>3 DEF Placed, u
    <3> QED BY <3>1, <3>2
  <2>15. ASSUME NEW a \in Reals, Writing(n, v, st, Key(a)) PROVE KeyBacked(n, rw, a)
    <3>1. CASE Key(a) = Key(to)
      <4>1. n.wrote[Key(a)] = "taken" /\ rw[Key(a)] # "taken"
        BY <3>1, <2>4, <2>5, <2>7, <1>1, NoneIs DEF Words
      <4> QED BY <4>1 DEF KeyBacked
    <3>2. CASE Key(a) = Key(held)
      <4>1. a = held BY <3>2, <1>11, KeyIs
      <4> QED BY <4>1, <1>4, <1>7, <1>10, <1>23 DEF KeyBacked
    <3> QED BY <3>1, <3>2, <2>7, <2>15
  <2>16. Backs(n, rw, v, st) BY <2>15, <1>21 DEF Backs
  <2>17. Enters(st) BY <2>4, NoneIs DEF Enters, Words
  <2> QED BY <2>14, <2>16, <2>17, <1>20 DEF Relays, Correcting, Placing, n, v, st
<1> QED BY <1>24, <1>25

-------------------------------------------------------------------------------
LEMMA OtherRelays ==
  ASSUME NEW j, NEW rw, Doing(j, rw), Moving(j, rw), ~Readdresses(j.op, j.pc)
  PROVE  Relays(j, rw)
<1> DEFINE v == Sees(j, rw)
           st == Sends(j, rw)
<1>1. Puts(j.op, j.pc, v, st) BY DoingFits DEF FitSt, Fit
<1>2. Plain(v, st) BY <1>1, RowTags DEF Plain, Puts, MayPut, Lockable
<1>3. ~Midway(j) /\ ~Does(j.op, j.pc, "Edit", 2) BY DEF Midway, Does, Readdresses
<1> QED BY <1>2, <1>3, PlainRelays

(* The lowest of the ids nobody uses.                                      *)
LEMMA LowestFree ==
  ASSUME NEW free \in SUBSET Invitation, free # {}
  PROVE  \E m \in free : {Invited(i) : i \in {j \in free : \A k \in free : j <= k}} = {Invited(m)}
<1>1. free \in SUBSET Nat BY RosterAssumption
<1>2. PICK m \in free : \A k \in free : m <= k BY <1>1, Least
<1>3. {j \in free : \A k \in free : j <= k} = {m}
  <2>1. ASSUME NEW j \in free, \A k \in free : j <= k PROVE j = m
    <3>1. j <= m /\ m <= j /\ j \in Nat /\ m \in Nat BY <1>1, <1>2, <2>1
    <3> QED BY <3>1
  <2> QED BY <1>2, <2>1
<1> QED BY <1>3

LEMMA InsertsOne ==
  ASSUME NEW v, NEW free \in SUBSET Invitation, free # {}, \A i \in free : v[Invited(i)] = None,
         v[Key(Address)] = None, NEW fresh \in InvitationRow, fresh.email = Address,
         NEW st, st.takes = InsertInvitation(free, fresh).takes,
         st.puts = InsertInvitation(free, fresh).puts
  PROVE  \E m \in Invitation : Creation(v, st, m)
<1>1. PICK m \in free :
        {Invited(i) : i \in {j \in free : \A k \in free : j <= k}} = {Invited(m)}
  BY LowestFree
<1> DEFINE new == [r \in {Invited(m)} |-> fresh]
<1>2. /\ st.takes = [k \in {Key(Address)} |-> Insert]
      /\ st.puts = Overlay(new, [k \in {Key(Address)} |-> "taken"])
  BY <1>1 DEF InsertInvitation, Also, Inserts, Locks, Reads
<1>3. /\ DOMAIN st.puts = {Key(Address), Invited(m)}
      /\ st.puts[Key(Address)] = "taken" /\ st.puts[Invited(m)] = fresh
  BY <1>2, KeyIs DEF Overlay
<1>4. m \in Invitation OBVIOUS
<1>5. fresh # None BY NoneIs
<1> QED BY <1>2, <1>3, <1>4, <1>5 DEF Creation

LEMMA FreshIs ==
  ASSUME NEW delivered \in BOOLEAN
  PROVE  FreshInvitation(delivered) \in InvitationRow /\ FreshInvitation(delivered).email = Address
  BY DEF FreshInvitation, InvitationRow

LEMMA InviteRelays ==
  ASSUME NEW j, NEW rw, Doing(j, rw), Moving(j, rw), Addressed(rw), Does(j.op, j.pc, "Invite", 4),
         ~Sends(j, rw).stop
  PROVE  Relays(j, rw)
<1> DEFINE v == Sees(j, rw)
           st == Sends(j, rw)
           seen == j.seen
<1>1. Statements(j.op, v, seen) = Invite(v, seen) BY InviteIs DEF Does
<1>2. st = Invite(v, seen)[4] BY <1>1 DEF Sends, Does
<1>3. RowsTyped(v) BY DoingFits DEF FitSt
<1>4. ~st.stop OBVIOUS
<1>5. j.op.does # "Edit" /\ ~Midway(j) /\ ~Does(j.op, j.pc, "Edit", 2) BY DEF Does, Midway
<1>6. Key(Address) \notin Drafts(j) BY DEF Moving, Unmoved, KeyAt, Does
<1>7. seen.id \in Invitation \cup {None} /\ scope \in Scopes BY DEF Doing, Good, Typed, SeenTyped
<1>8. CASE Mine(seen) # {}
  <2> DEFINE none == AcceptedOf(v, seen) = {}
             new == Repended(v, seen)
  <2>1. st = Ends(StopIf(none, Writes(new))) BY <1>2, <1>8, InviteAdds
  <2>2. DOMAIN new = AcceptedOf(v, seen) BY DEF Repended
  <2>3. ASSUME NEW r \in AcceptedOf(v, seen)
        PROVE  /\ r[1] # "key" /\ v[r] # None
               /\ new[r] # None /\ new[r].email = v[r].email
    <3>1. PICK i \in Invitation : r = Invited(i) /\ v[r] # None
      BY <1>7, <2>3 DEF AcceptedOf, Existing, Mine
    <3>2. v[r] \in InvitationRow BY <3>1, <1>3 DEF RowsTyped
    <3>3. Delivers(seen) \in BOOLEAN BY DEF Delivers
    <3>4. new[r] = [v[r] EXCEPT !.status = "pending", !.delivered = Delivers(seen)]
      BY DEF Repended
    <3> HIDE DEF new, v
    <3>5. new[r] \in InvitationRow /\ new[r].email = v[r].email
      BY <3>2, <3>3, <3>4 DEF InvitationRow
    <3> QED BY <3>1, <3>5, NoneIs, RowTags
  <2> HIDE DEF none, new, st, v
  <2>4. st.puts = new /\ st.takes = [r \in DOMAIN new |-> NoKeyUpdate]
    BY <2>1 DEF Ends, StopIf, Writes, Locks, Reads
  <2>5. Plain(v, st) BY <2>2, <2>3, <2>4, RowTags DEF Plain
  <2> QED BY <2>5, <1>5, PlainRelays DEF v, st
<1>9. CASE Mine(seen) = {}
  <2> DEFINE fresh == FreshInvitation(Delivers(seen))
             new == InsertInvitation(FreeIds(v), fresh)
             full == NoRoom(v)
             note == [id |-> Lowest(FreeIds(v))]
  <2>1. st = Ends(Keeping(note, StopIf(full, new)))
    BY <1>2, <1>9, InviteAdds DEF NewInvitation
  <2>2. fresh \in InvitationRow /\ fresh.email = Address BY FreshIs DEF Delivers
  <2>3. FreeIds(v) \in SUBSET Invitation /\ \A i \in FreeIds(v) : v[Invited(i)] = None
    BY <1>7, FreeIdsExist DEF FreeIds
  <2>4. IsStatement(new)
    BY DEF IsStatement, InsertInvitation, Also, Inserts, Locks, Reads
  <2> HIDE DEF new, full, note, st, fresh
  <2>5. st.takes = new.takes /\ st.puts = new.puts /\ ~full
    BY <2>1, <2>4, <1>4 DEF Ends, Keeping, StopIf, IsStatement
  <2>6. FreeIds(v) # {} /\ v[Key(Address)] = None BY <2>5 DEF full, NoRoom
  <2>7. PICK m \in Invitation : Creation(v, st, m)
    BY <2>2, <2>3, <2>5, <2>6, InsertsOne DEF new
  <2>8. seen.id = None BY <1>9 DEF Mine
  <2>9. Only(j.op, j.pc, j.seen, Key(Address)) BY <2>8 DEF Only, Does
  <2> QED BY <2>7, <2>9, <1>5, <1>6, CreationRelays DEF st
<1> QED BY <1>8, <1>9

LEMMA WalkInRelays ==
  ASSUME NEW j, NEW rw, Doing(j, rw), Moving(j, rw), Addressed(rw), Does(j.op, j.pc, "WalkIn", 9),
         ~Sends(j, rw).stop
  PROVE  Relays(j, rw)
<1> DEFINE v == Sees(j, rw)
           st == Sends(j, rw)
           held == HolderOf(v, Address)
<1>1. Statements(j.op, v, j.seen) = WalkIn(v, j.op.class) BY WalkInIs DEF Does
<1>2. st = WalkInEntry(v) BY <1>1, WalkInEnds DEF Sends, Does
<1>3. RowsTyped(v) BY DoingFits DEF FitSt
<1>4. ~st.stop OBVIOUS
<1>5. j.op.does # "Edit" /\ ~Midway(j) /\ ~Does(j.op, j.pc, "Edit", 2) BY DEF Does, Midway
<1>6. Key(Address) \notin Drafts(j) BY DEF Moving, Unmoved, KeyAt, Does
<1>7. scope \in Scopes BY DEF Doing
<1>8. CASE held # {}
  <2>1. st.puts = Nothing BY <1>2, <1>8 DEF WalkInEntry, Locks, Reads
  <2>2. Plain(v, st) BY <2>1 DEF Plain, Nothing
  <2> QED BY <2>2, <1>5, PlainRelays
<1>9. CASE held = {}
  <2> DEFINE fresh == FreshInvitation(TRUE)
             new == InsertInvitation(FreeIds(v), fresh)
             full == FreeIds(v) = {}
  <2>1. st = StopIf(full, new) BY <1>2, <1>9 DEF WalkInEntry
  <2>2. fresh \in InvitationRow /\ fresh.email = Address BY FreshIs
  <2>3. FreeIds(v) \in SUBSET Invitation /\ \A i \in FreeIds(v) : v[Invited(i)] = None
    BY <1>7, FreeIdsExist DEF FreeIds
  <2>4. IsStatement(new)
    BY DEF IsStatement, InsertInvitation, Also, Inserts, Locks, Reads
  <2>5. v[Key(Address)] = None
    <3>1. \A i \in Invitation : ~Has(v, i, Address) BY <1>9 DEF HolderOf, Has
    <3>2. Placed(j, rw, Address) BY <1>5 DEF Moving, Placing, Reals
    <3>3. \A i \in Invitation : ~Has(rw, i, Address) BY <3>1, <3>2, <1>6 DEF Placed
    <3>4. Keyed(rw, Address) BY DEF Addressed, Reals
    <3>5. rw[Key(Address)] # "taken" BY <3>3, <3>4 DEF Keyed
    <3>6. v[Key(Address)] = rw[Key(Address)] BY <1>6, Committed, RowsAre
    <3> QED BY <3>5, <3>6, <1>3 DEF RowsTyped, Addresses
  <2> HIDE DEF new, full, st, fresh
  <2>6. st.takes = new.takes /\ st.puts = new.puts /\ ~full
    BY <2>1, <2>4, <1>4 DEF StopIf, IsStatement
  <2>7. PICK m \in Invitation : Creation(v, st, m)
    BY <2>2, <2>3, <2>5, <2>6, InsertsOne DEF new, full
  <2>8. Only(j.op, j.pc, j.seen, Key(Address)) BY DEF Only, Does
  <2> QED BY <2>7, <2>8, <1>5, <1>6, CreationRelays DEF st
<1> QED BY <1>8, <1>9

LEMMA RemoveRelays ==
  ASSUME NEW j, NEW rw, Doing(j, rw), Moving(j, rw), Addressed(rw), Does(j.op, j.pc, "Remove", 2),
         ~Sends(j, rw).stop
  PROVE  Relays(j, rw)
<1> DEFINE v == Sees(j, rw)
           st == Sends(j, rw)
           i == j.op.inv
           inv == At(v, i)
           freed == [k \in {Key(inv.email)} |-> None]
           kept == inv.status \notin {"pending", "accepted"}
<1>1. st = Ends(Also(freed, StopIf(kept, Deletes({Invited(i)}))))
  <2>1. Statements(j.op, v, j.seen) = Remove(v, i) BY Zenon DEF Statements, Does
  <2>2. st = Remove(v, i)[2] BY <2>1 DEF Sends, Does
  <2>3. Remove(v, i)[2] = Ends(Also(freed, StopIf(kept, Deletes({Invited(i)})))) BY DEF Remove
  <2> QED BY <2>2, <2>3
<1>2. RowsTyped(v) BY DoingFits DEF FitSt
<1>3. ~st.stop OBVIOUS
<1>4. j.op.does # "Edit" BY DEF Does
<1>5. \A e : Key(e) \notin Drafts(j) /\ \A m : ~Holds(j, Key(e), m)
  BY DEF Moving, Unmoved, KeyAt, Does
<1>6. i \in Invitation BY DEF Does, Doing, Good, Typed, OpTyped
<1>7. ~kept => v[Invited(i)] # None /\ inv.email \in Addresses
  <2> SUFFICES ASSUME ~kept PROVE v[Invited(i)] # None /\ inv.email \in Addresses OBVIOUS
  <2>1. v[Invited(i)] # None BY NoneIs DEF At, NoInvitation, Words
  <2>2. v[Invited(i)] \in InvitationRow BY <2>1, <1>2, <1>6 DEF RowsTyped
  <2> QED BY <2>1, <2>2 DEF At, InvitationRow, Addresses
<1> HIDE DEF v, st, freed, kept
<1>8. /\ ~kept /\ st.takes = [r \in {Invited(i)} |-> Update]
      /\ st.puts = Overlay(freed, [r \in {Invited(i)} |-> None])
  BY <1>1, <1>3 DEF Ends, Also, StopIf, Deletes, Locks, Reads
<1>9. /\ DOMAIN st.puts = {Key(inv.email), Invited(i)}
      /\ st.puts[Key(inv.email)] = None /\ st.puts[Invited(i)] = None
  BY <1>8, KeyIs DEF Overlay, freed
<1>10. Removal(v, st, i) BY <1>7, <1>8, <1>9 DEF Removal
<1> QED BY <1>4, <1>5, <1>6, <1>10, RemovalRelays DEF v, st

LEMMA EraseRelays ==
  ASSUME NEW j, NEW rw, Doing(j, rw), Moving(j, rw), Addressed(rw), Does(j.op, j.pc, "Erase", 8)
  PROVE  Relays(j, rw)
<1> DEFINE v == Sees(j, rw)
           st == Sends(j, rw)
           here == HolderOf(v, Address)
<1>1. Statements(j.op, v, j.seen) = Erase(v, j.seen) BY EraseIs DEF Does
<1>2. st = Also(FreedIn(v), Writes(ScrubbedIn(v))) BY <1>1, EraseEnds DEF Sends, Does
<1>3. RowsTyped(v) BY DoingFits DEF FitSt
<1>4. j.op.does # "Edit" /\ ~Midway(j) /\ ~Does(j.op, j.pc, "Edit", 2) BY DEF Does, Midway
<1>5. \A e : Key(e) \notin Drafts(j) /\ \A m : ~Holds(j, Key(e), m)
  BY DEF Moving, Unmoved, KeyAt, Does
<1>6. \A i, k \in here : i = k
  <2>1. Placed(j, rw, Address) BY <1>4 DEF Moving, Placing, Reals
  <2>2. Keyed(rw, Address) BY DEF Addressed, Reals
  <2>3. \A i \in Invitation : Has(v, i, Address) <=> Has(rw, i, Address)
    BY <2>1, <1>5 DEF Placed
  <2>4. \A i \in here : i \in Invitation /\ Has(v, i, Address) BY DEF HolderOf, Has
  <2> QED BY <2>2, <2>3, <2>4 DEF Keyed
<1>7. /\ st.takes = [r \in DOMAIN ScrubbedIn(v) |-> NoKeyUpdate]
      /\ st.puts = Overlay(FreedIn(v), ScrubbedIn(v))
  BY <1>2 DEF Also, Writes, Locks, Reads
<1>8. CASE here = {}
  <2>1. DOMAIN FreedIn(v) = {} /\ DOMAIN ScrubbedIn(v) = {} BY <1>8 DEF FreedIn, ScrubbedIn
  <2>2. DOMAIN st.puts = {} BY <2>1, <1>7 DEF Overlay
  <2>3. Plain(v, st) BY <2>2 DEF Plain
  <2> QED BY <2>3, <1>4, PlainRelays
<1>9. ASSUME NEW i \in here PROVE Relays(j, rw)
  <2>1. here = {i} BY <1>6, <1>9
  <2>2. i \in Invitation /\ At(v, i).email = Address BY <1>9 DEF HolderOf
  <2>3. v[Invited(i)] # None
    BY <2>2, KeyIs DEF At, NoInvitation, Reals
  <2>4. v[Invited(i)] \in InvitationRow /\ At(v, i) = v[Invited(i)]
    BY <2>2, <2>3, <1>3 DEF RowsTyped, At
  <2>5. DOMAIN FreedIn(v) = {Key(Address)} /\ FreedIn(v)[Key(Address)] = None
    BY <2>1, <2>2 DEF FreedIn
  <2>6. DOMAIN ScrubbedIn(v) = {Invited(i)} /\ ScrubbedIn(v)[Invited(i)] = Scrub(At(v, i))
    BY <2>1, RowTags DEF ScrubbedIn
  <2>7. Scrub(At(v, i)).email = Scrubbed BY <2>4 DEF Scrub, InvitationRow
  <2> HIDE DEF v, st, here
  <2>8. /\ DOMAIN st.takes = {Invited(i)} /\ DOMAIN st.puts = {Key(Address), Invited(i)}
        /\ st.puts[Key(Address)] = None /\ st.puts[Invited(i)].email = Scrubbed
    BY <2>5, <2>6, <2>7, <1>7, KeyIs DEF Overlay
  <2>9. Removal(v, st, i) BY <2>2, <2>3, <2>8 DEF Removal, Addresses
  <2> QED BY <2>2, <2>9, <1>4, <1>5, RemovalRelays DEF v, st
<1> QED BY <1>8, <1>9

LEMMA DoneMoving ==
  ASSUME NEW j, NEW rw, Doing(j, rw), Moving(j, rw), Addressed(rw), ~Sends(j, rw).stop
  PROVE  Moving(Done(j, rw), rw) /\ Enters(Sends(j, rw))
<1>1. Relays(j, rw)
  <2>1. CASE ~Readdresses(j.op, j.pc) BY <2>1, OtherRelays
  <2>2. CASE Does(j.op, j.pc, "Invite", 4) BY <2>2, InviteRelays
  <2>3. CASE Does(j.op, j.pc, "Edit", 2) BY <2>3, EditWritesRelays
  <2>4. CASE Midway(j) BY <2>4, EditMovesRelays
  <2>5. CASE Does(j.op, j.pc, "Remove", 2) BY <2>5, RemoveRelays
  <2>6. CASE Does(j.op, j.pc, "WalkIn", 9) BY <2>6, WalkInRelays
  <2>7. CASE Does(j.op, j.pc, "Erase", 8) BY <2>7, EraseRelays
  <2> QED BY <2>1, <2>2, <2>3, <2>4, <2>5, <2>6, <2>7 DEF Readdresses, Does, Midway
<1>2. Unmoved(Done(j, rw)) BY DoneUnmoved DEF Moving
<1>3. Backing(Done(j, rw), rw) BY <1>1, DoneBacking DEF Relays, Moving
<1> QED BY <1>1, <1>2, <1>3 DEF Relays, Moving

-------------------------------------------------------------------------------
(* A request that queues, and one that has locked and written nothing.     *)
LEMMA QueueMoving ==
  ASSUME NEW j, NEW rw, Doing(j, rw), Moving(j, rw), NEW k, Queues(j, rw, k)
  PROVE  Moving(k, rw)
<1>1. /\ k.op = j.op /\ k.pc = j.pc /\ k.seen = j.seen /\ k.wrote = j.wrote
      /\ Drafts(k) = Drafts(j) /\ Sees(k, rw) = Sees(j, rw)
  BY DEF Queues, Drafts, Sees
<1>2. /\ \A r, m : Holds(j, r, m) => Holds(k, r, m)
      /\ \A r, m : Holds(k, r, m) =>
           \/ Holds(j, r, m)
           \/ Gained(j, rw, r, m) /\ Sends(j, rw).takes[r] # Insert
  BY QueueHolds
<1>3. \A r : Owns(j, r) => Owns(k, r) BY <1>2 DEF Owns, Holds
<1>4. \A e, m : Holds(k, Key(e), m) => Holds(j, Key(e), m) BY <1>2, KeyTakes DEF Gained
<1>5. Unmoved(k) BY <1>1, <1>4 DEF Moving, Unmoved
<1>6. Correcting(k, rw) BY <1>1 DEF Moving, Correcting, Midway
<1>7. Placing(k, rw) BY <1>1 DEF Moving, Placing, Placed, Midway
<1>8. ASSUME NEW i \in Invitation, NEW m, Holds(k, Invited(i), m)
      PROVE  m \in Share .. Update /\ (rw[Invited(i)] # None \/ Invited(i) \in Drafts(j))
  BY <1>2, <1>8, GainBacks DEF Moving, Backing
<1>9. Backing(k, rw) BY <1>1, <1>3, <1>8 DEF Moving, Backing
<1> QED BY <1>5, <1>6, <1>7, <1>9 DEF Moving

LEMMA BareMoving ==
  ASSUME NEW k, NEW rw, k.locks = {}, k.wrote = Nothing, k.pc # 3, DOMAIN rw = Rows
  PROVE  Moving(k, rw) /\ \A x : Exclusive(k, x)
<1>1. Drafts(k) = {} /\ (\A r, m : ~Holds(k, r, m)) /\ ~Midway(k)
  BY DEF Drafts, Holds, Nothing, Midway
<1>2. \A r \in Rows : Sees(k, rw)[r] = rw[r] BY <1>1 DEF Sees, Overlay, Drafts
<1>3. \A i \in Invitation : \A e : Has(Sees(k, rw), i, e) <=> Has(rw, i, e)
  BY <1>2, RowsAre DEF Has, At
<1>4. Unmoved(k) /\ Correcting(k, rw) /\ Backing(k, rw)
  BY <1>1 DEF Unmoved, Correcting, Backing
<1>5. Placing(k, rw) BY <1>1, <1>3 DEF Placing, Placed
<1> QED BY <1>1, <1>4, <1>5 DEF Moving, Exclusive

-------------------------------------------------------------------------------
(* No two requests write the same address or the same invitation.          *)
OnInvitations(a, b) ==
  \A i \in Invitation : \A m, k : Holds(a, Invited(i), m) /\ Holds(b, Invited(i), k) => m + k < 5

LEMMA ExclusiveLocks ==
  ASSUME NEW w \in Worker, NEW x \in Worker, x # w, Doing(job[w], row), Backing(job[x], row),
         Exclusive(job[w], job[x]), NEW k,
         \A r, m : Holds(k, r, m) => Holds(job[w], r, m) \/ Gained(job[w], row, r, m),
         Clear(w, Sends(job[w], row), k.locks)
  PROVE  OnInvitations(k, job[x])
<1> DEFINE j == job[w]
           y == job[x]
           st == Sends(j, row)
<1> SUFFICES ASSUME NEW i \in Invitation, NEW m, NEW n, Holds(k, Invited(i), m),
                    Holds(y, Invited(i), n)
             PROVE  m + n < 5
  BY DEF OnInvitations
<1>1. CASE Holds(j, Invited(i), m) BY <1>1 DEF Exclusive
<1>2. CASE ~Holds(j, Invited(i), m)
  <2> DEFINE r == Invited(i)
  <2>1. Gained(j, row, r, m) BY <1>2
  <2>2. r \in DOMAIN st.takes /\ Free(w, r, st.takes[r]) BY <1>2 DEF Clear, Holds
  <2>3. r \in Rows /\ r[1] = "invitation" /\ r # Student BY RowsAre, RowTags
  <2>4. st.takes[r] \in Share .. Update BY <2>2, <2>3, DoingFits DEF FitSt, Fit, Asks
  <2>5. m = st.takes[r] BY <2>1, <2>4 DEF Gained
  <2>6. ~StandsInTheWay(x, r, m) BY <2>2, <2>5 DEF Free
  <2>7. n \in Share .. Update BY DEF Backing
  <2>8. ~Conflict(n, m) BY <2>4, <2>5, <2>6, <2>7 DEF StandsInTheWay, Holds
  <2> QED BY <2>4, <2>5, <2>7, <2>8 DEF Conflict
<1> QED BY <1>1, <1>2

LEMMA QueueExclusive ==
  ASSUME NEW w \in Worker, NEW x \in Worker, x # w, Doing(job[w], row), Backing(job[x], row),
         Exclusive(job[w], job[x]), NEW k, Queues(job[w], row, k),
         Clear(w, Sends(job[w], row), k.locks)
  PROVE  Exclusive(k, job[x])
<1>1. \A r, m : Holds(k, r, m) => Holds(job[w], r, m) \/ Gained(job[w], row, r, m)
  BY QueueHolds
<1>2. OnInvitations(k, job[x]) BY <1>1, ExclusiveLocks
<1>3. Drafts(k) = Drafts(job[w]) BY DEF Queues, Drafts
<1> QED BY <1>2, <1>3 DEF Exclusive, OnInvitations

(* An entry a request adds to the index nobody else is adding.             *)
LEMMA EntersAlone ==
  ASSUME NEW w \in Worker, NEW x \in Worker, x # w, Doing(job[w], row), Unmoved(job[w]),
         Enters(Sends(job[w], row)), Clear(w, Sends(job[w], row), Done(job[w], row).locks),
         NEW e, Key(e) \notin Drafts(job[w]), Key(e) \in Drafts(Done(job[w], row)),
         Done(job[w], row).wrote[Key(e)] = "taken", row[Key(e)] = None
  PROVE  Key(e) \notin Drafts(job[x])
<1> DEFINE j == job[w]
           n == Done(j, row)
           st == Sends(j, row)
           v == Sees(j, row)
           r == Key(e)
<1>1. r \in DOMAIN st.puts /\ st.puts[r] = "taken"
  <2>1. \A q : q \in Drafts(n) => \/ q \in DOMAIN st.puts /\ n.wrote[q] = st.puts[q]
                                  \/ q \in Drafts(j)
    BY DoneDrafts
  <2> QED BY <2>1
<1>2. r \in DOMAIN st.takes BY <1>1 DEF Enters
<1>3. Readdresses(j.op, j.pc) /\ st.takes[r] = Insert BY <1>2, KeyTakes
<1>4. Only(j.op, j.pc, j.seen, r) BY <1>2, <1>3, DoingFits DEF FitSt, Shape
<1>5. v[r] = None
  <2>1. r \in Rows BY RowsAre
  <2> QED BY <2>1, Committed
<1>6. Gained(j, row, r, Update) BY <1>2, <1>3, <1>5 DEF Gained
<1>7. Holds(n, r, Update) BY <1>4, <1>6, OnlyHeld
<1>8. ~Holds(j, r, Update) BY <1>3 DEF Unmoved, Readdresses, KeyAt
<1>9. Free(w, r, Insert) BY <1>3, <1>7, <1>8 DEF Clear, Holds
<1>10. ~StandsInTheWay(x, r, Insert) BY <1>9 DEF Free
<1> QED BY <1>10 DEF StandsInTheWay, Drafts

LEMMA DoneExclusive ==
  ASSUME NEW w \in Worker, NEW x \in Worker, x # w, Doing(job[w], row), Unmoved(job[w]),
         Backing(job[x], row), Exclusive(job[w], job[x]), Addressed(row),
         Backing(Done(job[w], row), row),
         Enters(Sends(job[w], row)), Clear(w, Sends(job[w], row), Done(job[w], row).locks)
  PROVE  Exclusive(Done(job[w], row), job[x])
<1> DEFINE j == job[w]
           y == job[x]
           n == Done(j, row)
<1>1. OnInvitations(n, y)
  <2>1. \A r, m : Holds(n, r, m) => Holds(j, r, m) \/ Gained(j, row, r, m) BY DoneGains
  <2> QED BY <2>1, ExclusiveLocks
<1>2. \A i \in Invitation : ~(Owns(n, Invited(i)) /\ Owns(y, Invited(i)))
  <2> SUFFICES ASSUME NEW i \in Invitation, Owns(n, Invited(i)), Owns(y, Invited(i)) PROVE FALSE
    OBVIOUS
  <2>1. PICK p \in NoKeyUpdate .. Update : Holds(n, Invited(i), p) BY DEF Owns, Holds
  <2>2. PICK q \in NoKeyUpdate .. Update : Holds(y, Invited(i), q) BY DEF Owns, Holds
  <2>3. p + q < 5 BY <1>1, <2>1, <2>2 DEF OnInvitations
  <2> QED BY <2>3
<1>3. RowsTyped(row) BY DEF Doing, Sound
<1>4. ASSUME NEW e, Key(e) \notin Drafts(j), Key(e) \in Drafts(n), n.wrote[Key(e)] = "taken",
             row[Key(e)] = None
      PROVE  Key(e) \notin Drafts(y)
  BY <1>4, EntersAlone
<1> HIDE DEF n
<1>5. ASSUME NEW e \in Reals, Key(e) \in Drafts(n), Key(e) \in Drafts(y) PROVE FALSE
  <2>1. Key(e) \notin Drafts(j) BY <1>5 DEF Exclusive
  <2>2. Keyed(row, e) BY DEF Addressed
  <2>3. row[Key(e)] # "taken" => row[Key(e)] = None BY <1>3, KeyIs DEF RowsTyped
  <2>4. \/ n.wrote[Key(e)] = "taken" /\ row[Key(e)] # "taken"
        \/ \E i \in Invitation : Owns(n, Invited(i)) /\ Has(row, i, e)
    BY <1>5 DEF Backing, n
  <2>5. \/ row[Key(e)] # "taken"
        \/ \E i \in Invitation : Owns(y, Invited(i)) /\ Has(row, i, e)
    BY <1>5 DEF Backing
  <2>6. CASE row[Key(e)] # "taken"
    <3>1. \A i \in Invitation : ~Has(row, i, e) BY <2>2, <2>6 DEF Keyed
    <3> QED BY <3>1, <2>1, <2>3, <2>4, <2>6, <1>4, <1>5
  <2>7. CASE row[Key(e)] = "taken"
    <3>1. PICK i \in Invitation : Owns(n, Invited(i)) /\ Has(row, i, e) BY <2>4, <2>7
    <3>2. PICK k \in Invitation : Owns(y, Invited(k)) /\ Has(row, k, e) BY <2>5, <2>7
    <3>3. i = k BY <2>2, <3>1, <3>2 DEF Keyed
    <3> QED BY <3>1, <3>2, <3>3, <1>2
  <2> QED BY <2>6, <2>7
<1>6. ASSUME NEW i \in Invitation, Invited(i) \in Drafts(n), Invited(i) \in Drafts(y) PROVE FALSE
  <2>1. IF row[Invited(i)] # None THEN Owns(n, Invited(i)) ELSE Key(Address) \in Drafts(n)
    BY <1>6 DEF Backing, n
  <2>2. IF row[Invited(i)] # None THEN Owns(y, Invited(i)) ELSE Key(Address) \in Drafts(y)
    BY <1>6 DEF Backing
  <2> QED BY <2>1, <2>2, <1>2, <1>5 DEF Reals
<1> QED BY <1>1, <1>5, <1>6 DEF Exclusive, OnInvitations, n

-------------------------------------------------------------------------------
(* The addresses are in order, and every request knows what it may of them. *)
Tidy ==
  /\ Addressed(row) /\ \A w \in Worker : Moving(job[w], row)
  /\ \A w, x \in Worker : w # x => Exclusive(job[w], job[x])

LEMMA TidySettled ==
  ASSUME Inv, Tidy, NEW w \in Worker, NEW jb, NEW rw, Settles(w, rw, jb),
         Addressed(rw), Moving(jb, rw),
         \A x \in Worker : x # w => Moving(job[x], rw) /\ Exclusive(jb, job[x])
  PROVE  Tidy'
<1>1. /\ row' = rw /\ job'[w] = jb
      /\ \A x \in Worker : x # w => job'[x] = job[x]
  BY DEF Settles, Inv
<1>2. \A x \in Worker : Moving(job'[x], row') BY <1>1
<1>3. ASSUME NEW x \in Worker, NEW y \in Worker, x # y PROVE Exclusive(job'[x], job'[y])
  <2>1. CASE x = w BY <2>1, <1>1, <1>3
  <2>2. CASE y = w
    <3>1. x # w /\ Exclusive(jb, job[x]) /\ Moving(job[x], rw) BY <2>2, <1>3
    <3>2. Backing(jb, rw) /\ Backing(job[x], rw) BY <3>1 DEF Moving
    <3>3. Exclusive(job[x], jb) BY <3>1, <3>2, ExclusiveBack
    <3> QED BY <3>1, <3>3, <2>2, <1>1
  <2>3. CASE x # w /\ y # w BY <2>3, <1>1, <1>3 DEF Tidy
  <2> QED BY <2>1, <2>2, <2>3
<1>4. Addressed(row') BY <1>1
<1> QED BY <1>2, <1>3, <1>4 DEF Tidy

LEMMA BareTidy ==
  ASSUME Inv, Tidy, NEW w \in Worker, NEW jb, Settles(w, row, jb),
         jb.locks = {}, jb.wrote = Nothing, jb.pc # 3
  PROVE  Tidy'
<1>1. DOMAIN row = Rows BY DEF Inv, Sound, RowsTyped
<1>2. Moving(jb, row) /\ \A x : Exclusive(jb, x) BY <1>1, BareMoving
<1>3. Addressed(row) /\ \A x \in Worker : Moving(job[x], row) BY DEF Tidy
<1> QED BY <1>2, <1>3, TidySettled

LEMMA QueueTidy ==
  ASSUME Inv, Tidy, NEW w \in Worker, Busy(w), NEW k, Settles(w, row, k),
         Queues(job[w], row, k), Clear(w, Sends(job[w], row), k.locks)
  PROVE  Tidy'
<1>1. Doing(job[w], row) BY BusyDoes
<1>2. Addressed(row) /\ \A x \in Worker : Moving(job[x], row) BY DEF Tidy
<1>3. Moving(k, row) BY <1>1, <1>2, QueueMoving
<1>4. ASSUME NEW x \in Worker, x # w PROVE Exclusive(k, job[x])
  <2>1. Backing(job[x], row) /\ Exclusive(job[w], job[x]) BY <1>2, <1>4 DEF Tidy, Moving
  <2> QED BY <2>1, <1>1, <1>4, QueueExclusive
<1> QED BY <1>2, <1>3, <1>4, TidySettled

LEMMA DoneTidy ==
  ASSUME Inv, Tidy, NEW w \in Worker, Busy(w), ~Sends(job[w], row).stop,
         Clear(w, Sends(job[w], row), Done(job[w], row).locks)
  PROVE  /\ Moving(Done(job[w], row), row)
         /\ \A x \in Worker : x # w => Exclusive(Done(job[w], row), job[x])
<1>1. Doing(job[w], row) BY BusyDoes
<1>2. Addressed(row) /\ \A x \in Worker : Moving(job[x], row) BY DEF Tidy
<1>3. Moving(Done(job[w], row), row) /\ Enters(Sends(job[w], row)) BY <1>1, <1>2, DoneMoving
<1>4. ASSUME NEW x \in Worker, x # w PROVE Exclusive(Done(job[w], row), job[x])
  <2>1. /\ Backing(job[x], row) /\ Exclusive(job[w], job[x])
        /\ Unmoved(job[w]) /\ Backing(Done(job[w], row), row)
    BY <1>2, <1>3, <1>4 DEF Tidy, Moving
  <2> QED BY <2>1, <1>1, <1>2, <1>3, <1>4, DoneExclusive
<1> QED BY <1>3, <1>4

(* What the others know after a commit.                                    *)
LEMMA CommitTidy ==
  ASSUME Inv, Tidy, NEW w \in Worker, NEW n, Committing(n, row), Moving(n, row),
         \A x \in Worker : x # w => Exclusive(n, job[x])
  PROVE  /\ Addressed(Overlay(n.wrote, row)) /\ DOMAIN Overlay(n.wrote, row) = Rows
         /\ \A x \in Worker : x # w => Moving(job[x], Overlay(n.wrote, row))
<1>1. Overlay(n.wrote, row) = Sees(n, row) BY DEF Sees
<1>2. Passes(n, row) BY DEF Passes, Tidy
<1>3. Addressed(Sees(n, row)) BY <1>2, PassAddressed
<1>4. DOMAIN Sees(n, row) = Rows BY CommitRows DEF RowsTyped
<1>5. ASSUME NEW x \in Worker, x # w PROVE Moving(job[x], Sees(n, row))
  <2>1. Calm(job[x], row) /\ Moving(job[x], row) BY DEF Inv, Tidy
  <2>2. CASE job[x].op = None
    <3>1. job[x].locks = {} /\ job[x].wrote = Nothing /\ job[x].pc # 3
      BY <2>1, <2>2 DEF Calm, Idle
    <3> QED BY <3>1, <1>4, BareMoving
  <2>3. CASE job[x].op # None
    <3>1. Typed(job[x]) BY <2>1, <2>3 DEF Calm, Good
    <3> QED BY <3>1, <2>1, <1>2, <1>5, PassMoving
  <2> QED BY <2>2, <2>3
<1> QED BY <1>1, <1>3, <1>4, <1>5

LEMMA StepsTidy ==
  ASSUME Inv, Tidy, NEW w \in Worker, Busy(w), Steps(w)
  PROVE  Tidy'
<1> DEFINE j == job[w]
           st == Sends(job[w], row)
           n == Done(job[w], row)
<1>1. CASE Settles(w, row, AtRest)
  <2>1. AtRest.locks = {} /\ AtRest.wrote = Nothing /\ AtRest.pc # 3 BY DEF AtRest
  <2> QED BY <2>1, <1>1, BareTidy
<1>2. CASE \E k : Settles(w, row, k) /\ Queues(j, row, k) /\ Clear(w, st, k.locks)
  BY <1>2, QueueTidy
<1>3. ASSUME ~st.stop, Clear(w, st, n.locks),
             \/ Settles(w, row, n) /\ j.pc # Lengths[j.op.does]
             \/ Settles(w, Overlay(n.wrote, row), AtRest) /\ j.pc = Lengths[j.op.does]
             \/ Settles(w, Overlay(n.wrote, row), Rests(n)) /\ Does(j.op, j.pc, "Invite", 4)
      PROVE  Tidy'
  <2>1. Moving(n, row) /\ \A x \in Worker : x # w => Exclusive(n, job[x]) BY <1>3, DoneTidy
  <2>2. Good(n, row) /\ n.op = j.op /\ n.pc = j.pc + 1 BY <1>3, DoneApart
  <2>3. Sound(row) /\ scope \in Scopes BY DEF Inv
  <2>4. Addressed(row) /\ \A x \in Worker : Moving(job[x], row) BY DEF Tidy
  <2> HIDE DEF n, j, st
  <2>5. CASE Settles(w, row, n) BY <2>1, <2>4, <2>5, TidySettled
  <2>6. CASE Settles(w, Overlay(n.wrote, row), AtRest) /\ j.pc = Lengths[j.op.does]
    <3>1. Committing(n, row) BY <2>2, <2>3, <2>6 DEF Committing
    <3>2. /\ Addressed(Overlay(n.wrote, row)) /\ DOMAIN Overlay(n.wrote, row) = Rows
          /\ \A x \in Worker : x # w => Moving(job[x], Overlay(n.wrote, row))
      BY <3>1, <2>1, CommitTidy
    <3>3. AtRest.locks = {} /\ AtRest.wrote = Nothing /\ AtRest.pc # 3 BY DEF AtRest
    <3>4. Moving(AtRest, Overlay(n.wrote, row)) /\ \A x : Exclusive(AtRest, x)
      BY <3>2, <3>3, BareMoving
    <3> QED BY <3>2, <3>4, <2>6, TidySettled
  <2>7. CASE Settles(w, Overlay(n.wrote, row), Rests(n)) /\ Does(j.op, j.pc, "Invite", 4)
    <3>1. n.op.does = "Invite" /\ n.pc = 5 BY <2>2, <2>7 DEF Does
    <3>2. Committing(n, row) BY <3>1, <2>2, <2>3 DEF Committing
    <3>3. /\ Addressed(Overlay(n.wrote, row)) /\ DOMAIN Overlay(n.wrote, row) = Rows
          /\ \A x \in Worker : x # w => Moving(job[x], Overlay(n.wrote, row))
      BY <3>2, <2>1, CommitTidy
    <3>4. DOMAIN n = JobFields BY <2>2 DEF Good, Typed
    <3>5. Rests(n).locks = {} /\ Rests(n).wrote = Nothing /\ Rests(n).pc # 3
      BY <3>1, <3>4 DEF Rests, JobFields
    <3>6. Moving(Rests(n), Overlay(n.wrote, row)) /\ \A x : Exclusive(Rests(n), x)
      BY <3>3, <3>5, BareMoving
    <3> QED BY <3>3, <3>6, <2>7, TidySettled
  <2> QED BY <1>3, <2>5, <2>6, <2>7
<1> QED BY <1>1, <1>2, <1>3 DEF Steps

LEMMA TidyInit == InitRoster => Tidy
<1> SUFFICES ASSUME InitRoster PROVE Tidy OBVIOUS
<1>1. DOMAIN row = Rows /\ job = [w \in Worker |-> AtRest] BY DEF InitRoster
<1>2. /\ \A i \in Invitation : row[Invited(i)] = None
      /\ \A e \in Addresses : row[Key(e)] = None
  BY RowsAre, RowTags, Zenon DEF InitRoster
<1>3. AtRest.locks = {} /\ AtRest.wrote = Nothing /\ AtRest.pc # 3 BY DEF AtRest
<1>4. Moving(AtRest, row) /\ \A x : Exclusive(AtRest, x) BY <1>1, <1>3, BareMoving
<1>5. ASSUME NEW e \in Reals PROVE Keyed(row, e)
  <2>1. \A i \in Invitation : ~Has(row, i, e) BY <1>2, KeyIs DEF Has, At, NoInvitation
  <2>2. row[Key(e)] # "taken" BY <1>2, KeyIs, NoneIs DEF Words
  <2> QED BY <2>1, <2>2 DEF Keyed
<1> QED BY <1>1, <1>4, <1>5 DEF Tidy, Addressed

LEMMA TidyStep == Inv /\ Tidy /\ [Next]_vars => Tidy'
<1> SUFFICES ASSUME Inv, Tidy, [Next]_vars PROVE Tidy' OBVIOUS
<1>1. CASE UNCHANGED vars
  <2>1. row' = row /\ job' = job BY <1>1 DEF vars, pgVars
  <2> QED BY <2>1 DEF Tidy
<1>2. ASSUME Next PROVE Tidy'
  <2>1. PICK w \in Worker : Begin(w) \/ Send(w) \/ Proceed(w) \/ Fails(w) BY <1>2 DEF Next
  <2>2. CASE Begin(w)
    <3>1. PICK o \in Requests : job' = [job EXCEPT ![w].op = o, ![w].seen = Unread]
      BY <2>2 DEF Begin
    <3> DEFINE k == Begun(job[w], o)
    <3>2. Settles(w, row, k) BY <2>2, <3>1 DEF Settles, Begin, Begun
    <3>3. Idle(job[w]) BY <2>2 DEF Inv, Calm, Begin, Busy
    <3>4. k.locks = {} /\ k.wrote = Nothing /\ k.pc # 3 BY <3>3 DEF Idle, JobFields, Begun
    <3> HIDE DEF k
    <3> QED BY <3>2, <3>4, BareTidy
  <2>3. CASE Fails(w)
    <3>1. Settles(w, row, AtRest) BY <2>3 DEF Fails, Settles
    <3>2. AtRest.locks = {} /\ AtRest.wrote = Nothing /\ AtRest.pc # 3 BY DEF AtRest
    <3> QED BY <3>1, <3>2, BareTidy
  <2>4. CASE Send(w) \/ Proceed(w)
    <3>1. Busy(w) BY <2>4, SomeoneBusy
    <3>2. Doing(job[w], row) BY <3>1, BusyDoes
    <3>3. /\ DOMAIN job[w] = JobFields /\ job[w].pc \in 1 .. Lengths[job[w].op.does]
          /\ Fits(job[w].op, Sees(job[w], row), job[w].seen)
      BY <3>2, DoingFits DEF FitSt, Doing, Good, Typed
    <3>4. Steps(w) BY <3>3, <2>4, SendSteps, ProceedSteps
    <3> QED BY <3>1, <3>4, StepsTidy
  <2> QED BY <2>1, <2>2, <2>3, <2>4
<1> QED BY <1>1, <1>2

-------------------------------------------------------------------------------
LEMMA InvTypes == Inv /\ Tidy => TypeOK
<1> SUFFICES ASSUME Inv, Tidy PROVE TypeOK OBVIOUS
<1>1. RowsTyped(row) BY DEF Inv, Sound
<1>2. \A e \in Reals : Keyed(row, e) BY DEF Tidy, Addressed
<1>3. ASSUME NEW i \in Invitation, NEW j \in Invitation, At(row, i).email = At(row, j).email, i # j
      PROVE  At(row, i).email \in {None, Scrubbed}
  <2>1. At(row, i).email \in Addresses \cup {None}
    BY <1>1 DEF At, RowsTyped, NoInvitation, InvitationRow, Addresses
  <2>2. At(row, i).email \notin Reals BY <1>2, <1>3 DEF Keyed, Has
  <2> QED BY <2>1, <2>2 DEF Reals, Addresses
<1>4. \A e \in {Address, Other} : (row[Key(e)] = "taken") <=> (HolderOf(row, e) # {})
  <2> SUFFICES ASSUME NEW e \in {Address, Other}
               PROVE  (row[Key(e)] = "taken") <=> (HolderOf(row, e) # {})
    OBVIOUS
  <2>1. Keyed(row, e) BY <1>2 DEF Reals
  <2> QED BY <2>1 DEF Keyed, Has, HolderOf
<1>5. ASSUME NEW w \in Worker, Busy(w) PROVE job[w].pc \in 1 .. Len(Program(w))
  <2>1. FitSt(job[w], row) BY <1>5, BusyDoes, DoingFits
  <2>2. Len(Program(w)) = Lengths[job[w].op.does] BY <2>1, StatementIs DEF FitSt, Fits
  <2> QED BY <2>1, <2>2 DEF FitSt
<1> QED BY <1>1, <1>3, <1>4, <1>5 DEF TypeOK, RowsTyped, Answers

(***************************************************************************)
(* The inductive invariant of the requests: every request that is under    *)
(* way is where its statements and its locks say, no two of them hold the  *)
(* same row of the person's in modes that conflict, no two of them write   *)
(* the same address, and the committed rows are in order.                  *)
(***************************************************************************)
THEOREM RequestsKeepTheirLocks == Spec => [](Inv /\ Tidy)
<1>1. InitRoster => Inv /\ Tidy BY InvInit, TidyInit
<1>2. Inv /\ Tidy /\ [Next]_vars => (Inv /\ Tidy)' BY InvStep, TidyStep
<1> QED BY <1>1, <1>2, PTL DEF Spec

(***************************************************************************)
(* Whichever requests meet, one invitation of the teacher has an address,  *)
(* the unique index says so (the rows hold what their columns can hold,    *)
(* and no request runs past its last statement): an edit, a removal, an    *)
(* invite, a walk-in and an erasure free an address and take it in         *)
(* statements that wait for each other (invitations.ts, gdpr.ts:816).      *)
(***************************************************************************)
THEOREM RosterTypeOK == Spec => []TypeOK
<1>1. Inv /\ Tidy => TypeOK BY InvTypes
<1> QED BY <1>1, RequestsKeepTheirLocks, PTL

(***************************************************************************)
(* Once the person is erased nothing that names them is left or comes back *)
(* from a request that had already begun, whatever their number: each of   *)
(* them locks the student's row first and looks whether it is live, or     *)
(* locks the class and finds the entry gone (gdpr.ts:538).                 *)
(***************************************************************************)
THEOREM RosterErasedLeavesNothing == Spec => []ErasedLeavesNothing
<1>1. Inv => ErasedLeavesNothing
  BY DEF Inv, Sound, Erased, ErasedLeavesNothing, Live
<1> QED BY <1>1, RequestsKeepTheirLocks, PTL

(***************************************************************************)
(* An archived link has nothing live, as long as no scope has both a       *)
(* person leave and a payment reopened (payments.ts:328, data-             *)
(* model.md:371): the archive locks the link before it counts, and who     *)
(* charges or reopens locks the link and takes it back first.              *)
(***************************************************************************)
THEOREM RosterArchivedHasNothingLive ==
  ASSUME \A s \in Scopes : ~({"Unlink", "Reopen"} \subseteq s.does)
  PROVE  Spec => []ArchivedHasNothingLive
<1>1. Inv => ArchivedHasNothingLive
  <2> SUFFICES ASSUME Inv PROVE ArchivedHasNothingLive OBVIOUS
  <2>1. Separate BY DEF Inv, Separate
  <2> QED BY <2>1 DEF Inv, Sound, Archived, ArchivedHasNothingLive, Live
<1> QED BY <1>1, RequestsKeepTheirLocks, PTL

(***************************************************************************)
(* The roster, the bookings and the account agree, whichever requests of a *)
(* scope meet, on any number of server workers, classes and invitations.   *)
(***************************************************************************)
THEOREM RosterConsistent ==
  ASSUME \A s \in Scopes : ~({"Unlink", "Reopen"} \subseteq s.does)
  PROVE  Spec => []Consistent
<1>1. TypeOK /\ ErasedLeavesNothing /\ ArchivedHasNothingLive => Consistent BY DEF Consistent
<1> QED BY <1>1, RosterTypeOK, RosterErasedLeavesNothing, RosterArchivedHasNothingLive, PTL
-------------------------------------------------------------------------------
(* A declined invitation stays as it is but for the address it was told.   *)
Kept(a, b) == a.status = "declined" => b = [a EXCEPT !.told = b.told]
Declined(v, i) == v[Invited(i)] # None /\ v[Invited(i)].status = "declined"
Spares(v, st) ==
  \A i \in Invitation : LET r == Invited(i)
    IN  r \in DOMAIN st.puts /\ Declined(v, i) => st.puts[r] # None /\ Kept(v[r], st.puts[r])

(* The requests that may write another answer over it.                     *)
Lifts == {"Book", "Join", "Erase"}

LEMMA OpenSpares ==
  ASSUME NEW v, NEW st,
         \A i \in Invitation : Invited(i) \in DOMAIN st.puts => ~Declined(v, i)
  PROVE  Spares(v, st)
  BY DEF Spares

LEMMA ToldSpares ==
  ASSUME NEW v, RowsTyped(v), NEW st, NEW S, NEW told \in Addresses \cup {None},
         st.puts = [r \in S |-> [v[r] EXCEPT !.told = told]]
  PROVE  Spares(v, st)
<1> SUFFICES ASSUME NEW i \in Invitation, Invited(i) \in S, Declined(v, i)
             PROVE  st.puts[Invited(i)] # None /\ Kept(v[Invited(i)], st.puts[Invited(i)])
  BY DEF Spares
<1> DEFINE a == v[Invited(i)]
           b == [a EXCEPT !.told = told]
<1>1. a \in InvitationRow BY DEF RowsTyped, Declined
<1>2. st.puts[Invited(i)] = b OBVIOUS
<1>3. b \in InvitationRow BY <1>1 DEF InvitationRow, Addresses
<1>4. Kept(a, b) BY <1>1 DEF Kept, InvitationRow
<1> QED BY <1>2, <1>3, <1>4, NoneIs

LEMMA AnsweredSpares ==
  ASSUME NEW v, RowsTyped(v), NEW st, NEW S, NEW status,
         st.puts = Answered(v, S, status).puts,
         status = "declined" \/ \A i \in S : ~Declined(v, i)
  PROVE  Spares(v, st)
<1> DEFINE rs == {Invited(i) : i \in S}
<1>1. st.puts = [r \in rs |-> [v[r] EXCEPT !.status = status]]
  BY DEF Answered, Writes, Locks, Reads
<1> SUFFICES ASSUME NEW i \in Invitation, Invited(i) \in DOMAIN st.puts, Declined(v, i)
             PROVE  st.puts[Invited(i)] # None /\ Kept(v[Invited(i)], st.puts[Invited(i)])
  BY DEF Spares
<1>2. i \in S BY <1>1, KeyIs
<1>3. status = "declined" BY <1>2
<1>4. v[Invited(i)] \in InvitationRow BY DEF RowsTyped, Declined
<1>5. st.puts[Invited(i)] = v[Invited(i)] BY <1>1, <1>3, <1>4 DEF Declined, InvitationRow
<1> QED BY <1>4, <1>5, NoneIs DEF Kept, InvitationRow

(* What each request that is not the person's own booking or erasure does  *)
(* to a declined invitation.                                               *)
LEMMA InsertSpares ==
  ASSUME NEW v, NEW st, NEW free, \A i \in free : v[Invited(i)] = None, NEW fresh,
         st.puts = InsertInvitation(free, fresh).puts
  PROVE  Spares(v, st)
<1> DEFINE low == {Invited(i) : i \in {j \in free : \A k \in free : j <= k}}
           new == [r \in low |-> fresh]
           entry == [k \in {Key(Address)} |-> "taken"]
<1>1. DOMAIN st.puts = low \cup {Key(Address)}
  <2>1. st.puts = Overlay(new, entry) BY DEF InsertInvitation, Also, Inserts, Locks, Reads
  <2>2. DOMAIN Overlay(new, entry) = DOMAIN new \cup DOMAIN entry BY OverlayIs
  <2> QED BY <2>1, <2>2
<1>2. \A i \in Invitation : Invited(i) \in DOMAIN st.puts => i \in free BY <1>1, KeyIs
<1> QED BY <1>2, OpenSpares DEF Declined

LEMMA InviteSpares ==
  ASSUME NEW j, NEW rw, Doing(j, rw), j.op.does = "Invite", j.pc \in {4, 5}
  PROVE  Spares(Sees(j, rw), Sends(j, rw))
<1> DEFINE v == Sees(j, rw)
           st == Sends(j, rw)
           seen == j.seen
<1> SUFFICES Spares(v, st) OBVIOUS
<1>1. Statements(j.op, v, seen) = Invite(v, seen) BY InviteIs
<1>2. RowsTyped(v) BY DoingFits DEF FitSt
<1>3. CASE j.pc = 5
  <2>1. st = Ends(Writes(Stamped(v, seen))) BY <1>1, <1>3, InviteAdds DEF Sends
  <2>2. st.puts = [r \in Existing(v, Mine(seen)) |-> [v[r] EXCEPT !.told = Address]]
    BY <2>1 DEF Ends, Writes, Locks, Reads, Stamped
  <2> HIDE DEF v, st
  <2>3. Address \in Addresses \cup {None} BY DEF Addresses
  <2> QED BY <1>2, <2>2, <2>3, ToldSpares
<1>4. CASE j.pc = 4 /\ Mine(seen) # {}
  <2>1. st = Ends(StopIf(AcceptedOf(v, seen) = {}, Writes(Repended(v, seen))))
    BY <1>1, <1>4, InviteAdds DEF Sends
  <2>2. DOMAIN st.puts = AcceptedOf(v, seen)
    BY <2>1 DEF Ends, StopIf, Writes, Locks, Reads, Repended
  <2>3. \A i \in Invitation : Invited(i) \in DOMAIN st.puts => ~Declined(v, i)
    BY <2>2 DEF AcceptedOf, Declined
  <2> QED BY <2>3, OpenSpares
<1>5. CASE j.pc = 4 /\ Mine(seen) = {}
  <2> DEFINE fresh == FreshInvitation(Delivers(seen))
             new == InsertInvitation(FreeIds(v), fresh)
             full == NoRoom(v)
             note == [id |-> Lowest(FreeIds(v))]
  <2>1. st = Ends(Keeping(note, StopIf(full, new)))
    BY <1>1, <1>5, InviteAdds DEF Sends, NewInvitation
  <2>2. \A i \in FreeIds(v) : v[Invited(i)] = None BY DEF FreeIds
  <2>3. IsStatement(new)
    BY DEF IsStatement, InsertInvitation, Also, Inserts, Locks, Reads
  <2> HIDE DEF new, full, note, st, fresh
  <2>4. st.puts = new.puts BY <2>1, <2>3 DEF Ends, Keeping, StopIf, IsStatement
  <2> QED BY <2>2, <2>4, InsertSpares DEF new
<1> QED BY <1>3, <1>4, <1>5

LEMMA WalkInSpares ==
  ASSUME NEW j, NEW rw, Doing(j, rw), j.op.does = "WalkIn", j.pc \in {9, 10}
  PROVE  Spares(Sees(j, rw), Sends(j, rw))
<1> DEFINE v == Sees(j, rw)
           st == Sends(j, rw)
<1> SUFFICES Spares(v, st) OBVIOUS
<1>1. Statements(j.op, v, j.seen) = WalkIn(v, j.op.class) BY WalkInIs
<1>2. RowsTyped(v) BY DoingFits DEF FitSt
<1>3. CASE j.pc = 9 /\ HolderOf(v, Address) # {}
  <2>1. st = Locks({Key(Address)}, Insert) BY <1>1, <1>3, WalkInEnds DEF Sends, WalkInEntry
  <2>2. DOMAIN st.puts = {} BY <2>1, PutsOf
  <2> QED BY <2>2, OpenSpares
<1>4. CASE j.pc = 9 /\ HolderOf(v, Address) = {}
  <2> DEFINE fresh == FreshInvitation(TRUE)
             new == InsertInvitation(FreeIds(v), fresh)
             full == FreeIds(v) = {}
  <2>1. st = StopIf(full, new) BY <1>1, <1>4, WalkInEnds DEF Sends, WalkInEntry
  <2>2. \A i \in FreeIds(v) : v[Invited(i)] = None BY DEF FreeIds
  <2>3. IsStatement(new)
    BY DEF IsStatement, InsertInvitation, Also, Inserts, Locks, Reads
  <2> HIDE DEF new, full, st, fresh
  <2>4. st.puts = new.puts BY <2>1, <2>3 DEF StopIf, IsStatement
  <2> QED BY <2>2, <2>4, InsertSpares DEF new
<1>5. CASE j.pc = 10
  <2> DEFINE done == StatusAt(v, Address) \notin {"pending", "accepted"}
             mark == Answered(v, PendingOf(v), "accepted")
  <2>1. st = StopIf(done, mark) BY <1>1, <1>5, WalkInEnds DEF Sends
  <2>2. IsStatement(mark) BY DEF IsStatement, Answered, Writes, Locks, Reads
  <2> HIDE DEF mark, done, st
  <2>3. st.puts = mark.puts BY <2>1, <2>2, PutsOf
  <2>4. \A i \in PendingOf(v) : ~Declined(v, i) BY DEF PendingOf, At, Declined
  <2> HIDE DEF v
  <2> QED BY <1>2, <2>3, <2>4, AnsweredSpares DEF mark
<1> QED BY <1>3, <1>4, <1>5

LEMMA PersonSpares ==
  ASSUME NEW j, NEW rw, Doing(j, rw), Touches(j.op, j.pc),
         j.op.does \in {"Accept", "Decline", "Unlink"}
  PROVE  Spares(Sees(j, rw), Sends(j, rw))
<1> DEFINE v == Sees(j, rw)
           st == Sends(j, rw)
           i == j.op.inv
<1> SUFFICES Spares(v, st) OBVIOUS
<1>1. RowsTyped(v) BY DoingFits DEF FitSt
<1>2. \A S, status : IsStatement(Answered(v, S, status))
  BY DEF IsStatement, Answered, Writes, Locks, Reads
<1>3. CASE j.op.does = "Accept"
  <2> DEFINE mark == {k \in {i} : At(v, i).status = "pending"}
             gone == At(v, i).status \notin {"pending", "accepted"}
  <2>1. Statements(j.op, v, j.seen) = Accept(v, i) BY <1>3, Zenon DEF Statements
  <2>2. j.pc = 6 BY <1>3 DEF Touches, Touching
  <2>3. Accept(v, i)[6] = StopIf(gone, Answered(v, mark, "accepted")) BY DEF Accept
  <2>4. st = StopIf(gone, Answered(v, mark, "accepted")) BY <2>1, <2>2, <2>3 DEF Sends
  <2>5. \A k \in mark : ~Declined(v, k) BY DEF At, Declined
  <2> HIDE DEF mark, gone, v, st
  <2>6. st.puts = Answered(v, mark, "accepted").puts BY <1>2, <2>4, PutsOf
  <2> QED BY <1>1, <2>5, <2>6, AnsweredSpares
<1>4. CASE j.op.does = "Decline"
  <2> DEFINE open == {k \in {i} : At(v, k).status = "pending" /\ At(v, k).email = Address}
             gone == open = {}
  <2>1. Statements(j.op, v, j.seen) = Decline(v, i) BY <1>4, Zenon DEF Statements
  <2>2. j.pc = 2 BY <1>4 DEF Touches, Touching
  <2>3. Decline(v, i)[2] = StopIf(gone, Answered(v, open, "declined")) BY DEF Decline
  <2>4. st = StopIf(gone, Answered(v, open, "declined")) BY <2>1, <2>2, <2>3 DEF Sends
  <2> HIDE DEF open, gone, v, st
  <2>5. st.puts = Answered(v, open, "declined").puts BY <1>2, <2>4, PutsOf
  <2> QED BY <1>1, <2>5, AnsweredSpares
<1>5. CASE j.op.does = "Unlink"
  <2>1. j.pc = 8 BY <1>5 DEF Touches, Touching
  <2>2. st = Answered(v, DeliveredTo(v), "declined")
    <3>1. Statements(j.op, v, j.seen) = Unlink(v, j.seen) BY <1>5, Zenon DEF Statements
    <3>2. Unlink(v, j.seen)[8] = Answered(v, DeliveredTo(v), "declined")
      BY DEF Unlink, DeliveredTo
    <3> QED BY <2>1, <3>1, <3>2 DEF Sends
  <2> HIDE DEF v, st
  <2> QED BY <1>1, <2>2, AnsweredSpares
<1> QED BY <1>3, <1>4, <1>5

LEMMA TeacherSpares ==
  ASSUME NEW j, NEW rw, Doing(j, rw), Touches(j.op, j.pc), ~Sends(j, rw).stop,
         j.op.does \in {"Edit", "Remove", "Resend"}
  PROVE  Spares(Sees(j, rw), Sends(j, rw))
<1> DEFINE v == Sees(j, rw)
           st == Sends(j, rw)
           o == j.op
           inv == At(v, o.inv)
<1> SUFFICES Spares(v, st) OBVIOUS
<1>1. RowsTyped(v) BY DoingFits DEF FitSt
<1>2. ~st.stop /\ j.pc = 2 BY DEF Touches, Touching
<1>3. inv.status \in {"pending", "accepted"} => ~Declined(v, o.inv) BY DEF At, Declined
<1>4. CASE o.does = "Edit"
  <2> DEFINE closed == inv.status # "pending"
             new == Edited(v, j.seen, o)
             note == [held |-> inv.email]
  <2>0. Statements(o, v, j.seen)[2] = Keeping(note, StopIf(closed, Writes(new)))
    BY <1>4, EditIs
  <2>1. st = Keeping(note, StopIf(closed, Writes(new))) BY <1>2, <2>0 DEF Sends
  <2>2. DOMAIN new \subseteq {Invited(o.inv)} BY DEF Edited, Existing
  <2> HIDE DEF closed, new, note, st
  <2>3. ~closed /\ st.puts = new BY <1>2, <2>1 DEF Keeping, StopIf, Writes, Locks, Reads
  <2>4. \A i \in Invitation : Invited(i) \in DOMAIN st.puts => ~Declined(v, i)
    BY <1>3, <2>2, <2>3, KeyIs DEF closed
  <2> QED BY <2>4, OpenSpares
<1>5. CASE o.does = "Remove"
  <2> DEFINE freed == [k \in {Key(inv.email)} |-> None]
             kept == inv.status \notin {"pending", "accepted"}
             gone == StopIf(kept, Deletes({Invited(o.inv)}))
  <2>1. st = Ends(Also(freed, gone)) BY <1>2, <1>5, RemoveIs DEF Sends
  <2>2. gone.stop = kept /\ IsStatement(gone) /\ DOMAIN gone.puts = {Invited(o.inv)}
    BY DEF StopIf, Deletes, Locks, Reads, IsStatement
  <2>3. DOMAIN freed = {Key(inv.email)} OBVIOUS
  <2> HIDE DEF kept, freed, gone, st
  <2>4. ~kept /\ DOMAIN st.puts = {Key(inv.email), Invited(o.inv)}
    <3>1. st.stop = kept BY <2>1, <2>2 DEF Ends, Also, IsStatement
    <3>2. st.puts = Overlay(freed, gone.puts) BY <2>1, <2>2 DEF Ends, Also, IsStatement
    <3>3. DOMAIN Overlay(freed, gone.puts) = DOMAIN freed \cup DOMAIN gone.puts BY OverlayIs
    <3> QED BY <1>2, <2>2, <2>3, <3>1, <3>2, <3>3
  <2>5. \A i \in Invitation : Invited(i) \in DOMAIN st.puts => ~Declined(v, i)
    BY <1>3, <2>4, KeyIs DEF kept
  <2> QED BY <2>5, OpenSpares
<1>6. CASE o.does = "Resend"
  <2> DEFINE S == Existing(v, {Invited(o.inv)})
             told == j.seen.email
  <2>1. Statements(o, v, j.seen) = Resend(v, j.seen, o.inv) BY <1>6, Zenon DEF Statements
  <2>2. Resend(v, j.seen, o.inv)[2] = Ends(Writes([r \in S |-> [v[r] EXCEPT !.told = told]]))
    BY DEF Resend
  <2>3. st.puts = [r \in S |-> [v[r] EXCEPT !.told = told]]
    BY <1>2, <2>1, <2>2 DEF Sends, Ends, Writes, Locks, Reads
  <2>4. told \in Addresses \cup {None} BY DEF Doing, Good, Typed, SeenTyped
  <2> HIDE DEF S, told, v, st
  <2> QED BY <1>1, <2>3, <2>4, ToldSpares
<1> QED BY <1>4, <1>5, <1>6

LEMMA DoneSpares ==
  ASSUME NEW j, NEW rw, Doing(j, rw), ~Sends(j, rw).stop, j.op.does \notin Lifts
  PROVE  Spares(Sees(j, rw), Sends(j, rw))
<1> DEFINE v == Sees(j, rw)
           st == Sends(j, rw)
<1>1. CASE Touches(j.op, j.pc)
  <2>1. j.op.does \in DOMAIN Touching \ Lifts /\ j.pc \in Touching[j.op.does] BY <1>1 DEF Touches
  <2>2. j.op.does \in {"Accept", "Decline", "Unlink", "Edit", "Remove", "Resend", "Invite",
                       "WalkIn"}
    BY <2>1 DEF Touching, Lifts
  <2>3. j.op.does = "Invite" => j.pc \in {4, 5} BY <2>1 DEF Touching
  <2>4. j.op.does = "WalkIn" => j.pc \in {9, 10} BY <2>1 DEF Touching
  <2> QED BY <1>1, <2>2, <2>3, <2>4, InviteSpares, WalkInSpares, PersonSpares, TeacherSpares
<1>2. CASE ~Touches(j.op, j.pc)
  <2>1. Puts(j.op, j.pc, v, st) BY DoingFits DEF FitSt, Fit
  <2>2. \A i \in Invitation : Invited(i) \notin DOMAIN st.puts
    BY <1>2, <2>1, RowTags DEF Puts, MayPut
  <2> QED BY <2>2, OpenSpares
<1> QED BY <1>1, <1>2

-------------------------------------------------------------------------------
(* What a request has made of the person's answers, and what it may still  *)
(* count on.  The statement with which an acceptance and a walk-in look    *)
(* for a block the last time; an unlinking has deleted the link, and a     *)
(* teacher's add finds one.                                                *)
LookedAt == [Accept |-> 7, WalkIn |-> 11]

Respects(j, rw) ==
  j.op.does \notin Lifts => \A i \in Invitation :
     Invited(i) \in Drafts(j) /\ Declined(rw, i)
       => /\ Sees(j, rw)[Invited(i)] # None
          /\ Kept(rw[Invited(i)], Sees(j, rw)[Invited(i)])
Looked(j, rw) == Past(j, LookedAt) => rw[Said] # "left"
Leaving(j) == j.op.does = "Unlink" /\ j.pc > 7 => Link \in Drafts(j)
Adding(j, rw) == j.op.does = "RosterAdd" /\ Link \in Drafts(j) => j.pc > 5 /\ rw[Link] # None
Heeds(j, rw) == Respects(j, rw) /\ Looked(j, rw) /\ Leaving(j) /\ Adding(j, rw)

(* Whoever left or declined is blocked.                                    *)
Standing(rw) == rw[Said] \in {"left", "declined"} => rw[Block] # None

(* What the last statement of a request says for the person.               *)
Speakers == {"Book", "Join", "Accept", "Decline", "Unlink"}
Speaks(n, rw) ==
  /\ n.op.does \in Speakers => Said \in Drafts(n)
  /\ n.op.does \in {"Decline", "Unlink"} => Sees(n, rw)[Block] # None

LEMMA KeptTwice ==
  ASSUME NEW a \in InvitationRow, NEW b \in InvitationRow, NEW c \in InvitationRow,
         Kept(a, b), Kept(b, c)
  PROVE  Kept(a, c)
  BY DEF Kept, InvitationRow

LEMMA KeptSame == ASSUME NEW a \in InvitationRow PROVE Kept(a, a)
  BY DEF Kept, InvitationRow

LEMMA BareHeeds ==
  ASSUME NEW k, NEW rw, k.wrote = Nothing, k.pc \in 1 .. 5
  PROVE  Heeds(k, rw)
<1>1. Drafts(k) = {} BY DEF Drafts, Nothing
<1>2. ~Past(k, LookedAt) BY DEF Past, LookedAt
<1> QED BY <1>1, <1>2 DEF Heeds, Respects, Looked, Leaving, Adding

LEMMA QueueHeeds ==
  ASSUME NEW j, NEW rw, Heeds(j, rw), NEW k, Queues(j, rw, k)
  PROVE  Heeds(k, rw)
<1>1. /\ k.op = j.op /\ k.pc = j.pc /\ Drafts(k) = Drafts(j) /\ Sees(k, rw) = Sees(j, rw)
  BY DEF Queues, Drafts, Sees
<1> QED BY <1>1 DEF Heeds, Respects, Looked, Leaving, Adding, Past

LEMMA DoneRespects ==
  ASSUME NEW j, NEW rw, Doing(j, rw), ~Sends(j, rw).stop, Respects(j, rw)
  PROVE  Respects(Done(j, rw), rw)
<1> DEFINE n == Done(j, rw)
           v == Sees(j, rw)
           u == Sees(n, rw)
           st == Sends(j, rw)
<1>1. n.op = j.op BY DoneFields
<1> SUFFICES ASSUME j.op.does \notin Lifts, NEW i \in Invitation, Invited(i) \in Drafts(n),
                    Declined(rw, i)
             PROVE  u[Invited(i)] # None /\ Kept(rw[Invited(i)], u[Invited(i)])
  BY <1>1 DEF Respects
<1> DEFINE r == Invited(i)
<1>2. RowsTyped(rw) /\ RowsTyped(v) BY DoingFits DEF Doing, Sound, FitSt
<1>3. r \in Rows /\ rw[r] \in InvitationRow /\ v[r] \in InvitationRow \cup {None}
  BY <1>2, RowsAre DEF RowsTyped, Declined
<1>4. v[r] # None /\ Kept(rw[r], v[r])
  <2>1. CASE r \in Drafts(j) BY <2>1 DEF Respects
  <2>2. CASE r \notin Drafts(j)
    <3>1. v[r] = rw[r] BY <2>2, <1>3, Committed
    <3> QED BY <3>1, <1>3, KeptSame DEF Declined
  <2> QED BY <2>1, <2>2
<1>5. Declined(v, i) BY <1>3, <1>4 DEF Kept, Declined, InvitationRow
<1>6. CASE ~Writing(n, v, st, r)
  <2>1. u[r] = v[r] BY <1>3, <1>6, DoneWrites
  <2> QED BY <2>1, <1>4
<1>7. CASE Writing(n, v, st, r)
  <2>1. u[r] = st.puts[r] BY <1>3, <1>7, DoneWrites
  <2>2. r \in DOMAIN st.puts BY <1>7 DEF Writing
  <2>3. Spares(v, st) BY DoneSpares
  <2>4. st.puts[r] # None /\ Kept(v[r], st.puts[r]) BY <2>2, <2>3, <1>5 DEF Spares
  <2>5. st.puts[r] \in InvitationRow
    <3>1. Allowed(j.op, r, st.puts[r]) BY <2>2, DoingFits DEF FitSt, Fit, Puts, MayPut
    <3> QED BY <3>1, <2>4, RowTags DEF Allowed
  <2> QED BY <2>1, <2>4, <2>5, <1>3, <1>4, KeptTwice
<1> QED BY <1>6, <1>7

LEMMA DoneLooked ==
  ASSUME NEW j, NEW rw, Doing(j, rw), ~Sends(j, rw).stop, Looked(j, rw), Standing(rw)
  PROVE  Looked(Done(j, rw), rw)
<1> DEFINE n == Done(j, rw)
           v == Sees(j, rw)
           st == Sends(j, rw)
<1>1. n.op = j.op /\ n.pc = j.pc + 1 /\ j.pc \in 1 .. Lengths[j.op.does]
  BY DoneFields, DoingFits DEF FitSt
<1>2. CASE Past(j, LookedAt) BY <1>2 DEF Looked
<1>3. CASE ~Past(n, LookedAt) BY <1>3 DEF Looked
<1>4. CASE Past(n, LookedAt) /\ ~Past(j, LookedAt)
  <2>1. Does(j.op, j.pc, "Accept", 7) \/ Does(j.op, j.pc, "WalkIn", 11)
    BY <1>1, <1>4 DEF Past, LookedAt, Does
  <2>2. st = StopIf(v[Block] # None, Reads)
    <3>1. CASE Does(j.op, j.pc, "Accept", 7)
      <4>1. Statements(j.op, v, j.seen) = Accept(v, j.op.inv)
        BY <3>1, Zenon DEF Statements, Does
      <4>2. Accept(v, j.op.inv)[7] = StopIf(v[Block] # None, Reads) BY DEF Accept
      <4> QED BY <3>1, <4>1, <4>2 DEF Sends, Does
    <3>2. CASE Does(j.op, j.pc, "WalkIn", 11)
      <4>1. Statements(j.op, v, j.seen) = WalkIn(v, j.op.class) BY <3>2, WalkInIs DEF Does
      <4> QED BY <3>2, <4>1, WalkInEnds DEF Sends, Does
    <3> QED BY <2>1, <3>1, <3>2
  <2>3. v[Block] = None BY <2>2 DEF StopIf, Reads
  <2>4. Block \notin Drafts(j)
    BY <2>1, RowTags DEF Doing, Good, Drafting, Allowed, Does
  <2>5. rw[Block] = None BY <2>3, <2>4, Committed, RowsAre
  <2> QED BY <2>5 DEF Looked, Standing
<1> QED BY <1>2, <1>3, <1>4

LEMMA DoneLeaving ==
  ASSUME NEW j, NEW rw, Doing(j, rw), ~Sends(j, rw).stop, Leaving(j)
  PROVE  Leaving(Done(j, rw))
<1> DEFINE n == Done(j, rw)
           v == Sees(j, rw)
           st == Sends(j, rw)
           moved == Relinked(v, j.seen)
<1>1. n.op = j.op /\ n.pc = j.pc + 1 /\ j.pc \in 1 .. Lengths[j.op.does]
  BY DoneFields, DoingFits DEF FitSt
<1>2. \A r : r \in Drafts(j) \/ (r \in DOMAIN st.puts /\ Owns(n, r)) => r \in Drafts(n)
  BY DoneDrafts
<1> SUFFICES ASSUME j.op.does = "Unlink", j.pc + 1 > 7 PROVE Link \in Drafts(n)
  BY <1>1 DEF Leaving
<1>3. CASE j.pc > 7 BY <1>2, <1>3 DEF Leaving
<1>4. CASE j.pc = 7
  <2>1. st = StopIf(moved, Deletes({Link}))
    <3>1. Statements(j.op, v, j.seen) = Unlink(v, j.seen) BY Zenon DEF Statements
    <3>2. Unlink(v, j.seen)[7] = StopIf(moved, Deletes({Link})) BY DEF Unlink, Relinked
    <3> QED BY <1>4, <3>1, <3>2 DEF Sends
  <2> HIDE DEF moved
  <2>2. /\ ~moved /\ st.takes = [r \in {Link} |-> Update] /\ Link \in DOMAIN st.puts
    BY <2>1 DEF StopIf, Deletes, Locks, Reads
  <2>3. v[Link] # None BY <2>2 DEF moved, Relinked
  <2>4. Only(j.op, j.pc, j.seen, Link) BY <1>4 DEF Only, Does
  <2>5. Gained(j, rw, Link, Update) BY <2>2, <2>3 DEF Gained
  <2>6. Holds(n, Link, Update) BY <2>4, <2>5, OnlyHeld
  <2>7. Owns(n, Link) BY <2>6 DEF Owns, Holds
  <2> QED BY <2>2, <2>7, <1>2
<1> QED BY <1>1, <1>3, <1>4

LEMMA DoneAdding ==
  ASSUME NEW j, NEW rw, Doing(j, rw), ~Sends(j, rw).stop, Adding(j, rw)
  PROVE  Adding(Done(j, rw), rw)
<1> DEFINE n == Done(j, rw)
           v == Sees(j, rw)
           st == Sends(j, rw)
<1>1. n.op = j.op /\ n.pc = j.pc + 1 /\ j.pc \in 1 .. Lengths[j.op.does]
  BY DoneFields, DoingFits DEF FitSt
<1> SUFFICES ASSUME j.op.does = "RosterAdd", Link \in Drafts(n)
             PROVE  n.pc > 5 /\ rw[Link] # None
  BY <1>1 DEF Adding
<1>2. j.pc \in 1 .. 5 BY <1>1 DEF Lengths
<1>3. Link \notin Drafts(j) BY <1>2 DEF Adding
<1>4. Link \in DOMAIN st.puts
  <2>1. \A r : r \in Drafts(n) => r \in DOMAIN st.puts \/ r \in Drafts(j) BY DoneDrafts
  <2> QED BY <2>1, <1>3
<1>5. Link \in DOMAIN st.takes
  BY <1>4, DoingFits, RowTags DEF FitSt, Fit, Puts, Lockable
<1>6. \A q : Only(j.op, j.pc, j.seen, q) => q = Link
  BY <1>5, DoingFits DEF FitSt, Shape
<1>7. j.pc \notin {1, 2, 4}
  <2>1. j.pc = 1 => Only(j.op, j.pc, j.seen, Student) BY DEF Only, AtGate, StudentGate
  <2>2. j.pc = 2 => Only(j.op, j.pc, j.seen, Course(j.op.class))
    BY DEF Only, AtGate, CourseGate
  <2>3. j.pc = 4 => Only(j.op, j.pc, j.seen, Booking(j.op.class))
    BY DEF Only, AtGate, Charging
  <2> QED BY <2>1, <2>2, <2>3, <1>6, RowTags
<1>8. j.pc # 3
  <2> SUFFICES ASSUME j.pc = 3 PROVE FALSE OBVIOUS
  <2> DEFINE c == j.op.class
             booked == v[Booking(c)] = "charged"
  <2>1. Statements(j.op, v, j.seen) = RosterAdd(v, c) BY Zenon DEF Statements
  <2>2. RosterAdd(v, c)[3] = StopIf(booked, Reads) BY DEF RosterAdd, Transaction
  <2>3. st = StopIf(booked, Reads) BY <2>1, <2>2 DEF Sends
  <2> HIDE DEF booked
  <2>4. DOMAIN st.puts = {} BY <2>3 DEF StopIf, Reads, Nothing
  <2> QED BY <2>4, <1>4
<1>9. j.pc = 5 BY <1>2, <1>7, <1>8
<1>10. v[Link] # None
  <2>1. AtGate(j.op, j.pc, LinkGate) BY <1>9 DEF AtGate, LinkGate
  <2>2. st \in {ActivateLink(v), Ends(ActivateLink(v))} BY <2>1, GateStatements
  <2> QED BY <2>2 DEF ActivateLink, StopIf, Locks, Reads, Ends
<1>11. v[Link] = rw[Link] BY <1>3, Committed, RowsAre
<1> QED BY <1>1, <1>9, <1>10, <1>11

LEMMA DoneHeeds ==
  ASSUME NEW j, NEW rw, Doing(j, rw), ~Sends(j, rw).stop, Heeds(j, rw), Standing(rw)
  PROVE  Heeds(Done(j, rw), rw)
  BY DoneRespects, DoneLooked, DoneLeaving, DoneAdding DEF Heeds

(* The last statement of a request that speaks for the person.             *)
LEMMA SaysSo ==
  ASSUME NEW answer, NEW st, IsStatement(st)
  PROVE  /\ Said \in DOMAIN Ends(Saying(answer, st)).puts
         /\ Ends(Saying(answer, st)).takes = st.takes
         /\ \A r \in DOMAIN st.puts : r # Said =>
              /\ r \in DOMAIN Ends(Saying(answer, st)).puts
              /\ Ends(Saying(answer, st)).puts[r] = st.puts[r]
<1> DEFINE said == [r \in {Said} |-> answer]
<1>1. /\ Ends(Saying(answer, st)).puts = Overlay(said, st.puts)
      /\ Ends(Saying(answer, st)).takes = st.takes
  BY DEF Ends, Saying, Also, IsStatement
<1>2. DOMAIN Overlay(said, st.puts) = {Said} \cup DOMAIN st.puts
  BY DEF Overlay
<1>3. \A r \in DOMAIN st.puts : r # Said => Overlay(said, st.puts)[r] = st.puts[r]
  BY DEF Overlay
<1> QED BY <1>1, <1>2, <1>3

LEMMA LastSays ==
  ASSUME NEW j, NEW rw, Doing(j, rw), j.op.does \in Speakers, j.pc = Lengths[j.op.does]
  PROVE  LET v == Sees(j, rw)
         IN  \E answer : \E st : /\ IsStatement(st) /\ Sends(j, rw) = Ends(Saying(answer, st))
                                 /\ j.op.does \in {"Decline", "Unlink"} => st = UpsertBlock(v)
<1> DEFINE v == Sees(j, rw)
           seen == j.seen
           c == j.op.class
<1>1. /\ IsStatement(Reads) /\ IsStatement(UpsertBlock(v))
      /\ IsStatement(ResolveInvitation(v, seen))
      /\ IsStatement(Upsert(v, Queued(c), "waiting"))
  BY DEF IsStatement, Reads, UpsertBlock, Inserts, Locks, ResolveInvitation, Answered, Writes,
         Upsert
<1>2. CASE j.op.does = "Book"
  <2>1. Statements(j.op, v, seen) = Book(v, seen, c) BY <1>2, Zenon DEF Statements
  <2>2. Book(v, seen, c)[9] = Ends(Saying("booked", ResolveInvitation(v, seen)))
    BY DEF Book, Transaction
  <2>3. j.pc = 9 BY <1>2 DEF Lengths
  <2>4. Sends(j, rw) = Ends(Saying("booked", ResolveInvitation(v, seen)))
    BY <2>1, <2>2, <2>3 DEF Sends
  <2> HIDE DEF v
  <2> QED BY <2>4, <1>1, <1>2
<1>3. CASE j.op.does = "Join"
  <2>1. Statements(j.op, v, seen) = Join(v, seen, c) BY <1>3, Zenon DEF Statements
  <2>2. Join(v, seen, c)[8] = Ends(Saying("booked", Upsert(v, Queued(c), "waiting")))
    BY DEF Join, Transaction
  <2>3. j.pc = 8 BY <1>3 DEF Lengths
  <2>4. Sends(j, rw) = Ends(Saying("booked", Upsert(v, Queued(c), "waiting")))
    BY <2>1, <2>2, <2>3 DEF Sends
  <2> HIDE DEF v
  <2> QED BY <2>4, <1>1, <1>3
<1>4. CASE j.op.does = "Accept"
  <2>1. Statements(j.op, v, seen) = Accept(v, j.op.inv) BY <1>4, Zenon DEF Statements
  <2>2. Accept(v, j.op.inv)[8] = Ends(Saying("accepted", Reads)) BY DEF Accept, Commit
  <2>3. j.pc = 8 BY <1>4 DEF Lengths
  <2>4. Sends(j, rw) = Ends(Saying("accepted", Reads)) BY <2>1, <2>2, <2>3 DEF Sends
  <2> QED BY <2>4, <1>1, <1>4
<1>5. CASE j.op.does = "Decline"
  <2>1. Statements(j.op, v, seen) = Decline(v, j.op.inv) BY <1>5, Zenon DEF Statements
  <2>2. Decline(v, j.op.inv)[3] = Ends(Saying("declined", UpsertBlock(v))) BY DEF Decline
  <2>3. j.pc = 3 BY <1>5 DEF Lengths
  <2>4. Sends(j, rw) = Ends(Saying("declined", UpsertBlock(v)))
    BY <2>1, <2>2, <2>3 DEF Sends
  <2> QED BY <2>4, <1>1
<1>6. CASE j.op.does = "Unlink"
  <2>1. Statements(j.op, v, seen) = Unlink(v, seen) BY <1>6, Zenon DEF Statements
  <2>2. Unlink(v, seen)[9] = Ends(Saying("left", UpsertBlock(v))) BY DEF Unlink
  <2>3. j.pc = 9 BY <1>6 DEF Lengths
  <2>4. Sends(j, rw) = Ends(Saying("left", UpsertBlock(v)))
    BY <2>1, <2>2, <2>3 DEF Sends
  <2> QED BY <2>4, <1>1
<1> QED BY <1>2, <1>3, <1>4, <1>5, <1>6 DEF Speakers

LEMMA DoneSpeaks ==
  ASSUME NEW j, NEW rw, Doing(j, rw), j.pc = Lengths[j.op.does]
  PROVE  Speaks(Done(j, rw), rw)
<1> DEFINE n == Done(j, rw)
           v == Sees(j, rw)
           st == Sends(j, rw)
<1>1. n.op = j.op BY DoneFields
<1> SUFFICES ASSUME j.op.does \in Speakers
             PROVE  /\ Said \in Drafts(n)
                    /\ j.op.does \in {"Decline", "Unlink"} => Sees(n, rw)[Block] # None
  BY <1>1 DEF Speaks, Speakers
<1>2. PICK answer, own : /\ IsStatement(own) /\ st = Ends(Saying(answer, own))
                         /\ j.op.does \in {"Decline", "Unlink"} => own = UpsertBlock(v)
  BY LastSays
<1>3. /\ Said \in DOMAIN st.puts /\ st.takes = own.takes
      /\ \A r \in DOMAIN own.puts : r # Said => r \in DOMAIN st.puts /\ st.puts[r] = own.puts[r]
  BY <1>2, SaysSo
<1>4. Said \in Drafts(n)
  <2>1. Writing(n, v, st, Said) BY <1>3, RowTags DEF Writing
  <2> QED BY <2>1, DoneWrites
<1>5. ASSUME j.op.does \in {"Decline", "Unlink"} PROVE Sees(n, rw)[Block] # None
  <2>1. own = UpsertBlock(v) BY <1>2, <1>5
  <2>2. Block \in Rows /\ Block # Said BY RowsAre, RowTags
  <2>3. st.puts[Block] # None \/ Block \notin DOMAIN st.puts
    <3>1. Block \in DOMAIN st.puts => Allowed(j.op, Block, st.puts[Block])
      BY DoingFits DEF FitSt, Fit, Puts, MayPut
    <3>2. Block \in DOMAIN st.puts => st.puts[Block] = "stands" BY <3>1, <1>5 DEF Allowed
    <3> QED BY <3>2, NoneIs DEF Words
  <2>4. CASE Writing(n, v, st, Block)
    <3>1. Sees(n, rw)[Block] = st.puts[Block] BY <2>2, <2>4, DoneWrites
    <3> QED BY <3>1, <2>3, <2>4 DEF Writing
  <2>5. CASE ~Writing(n, v, st, Block)
    <3>1. Sees(n, rw)[Block] = v[Block] BY <2>2, <2>5, DoneWrites
    <3>2. SUFFICES ASSUME v[Block] = None PROVE FALSE BY <3>1
    <3>3. own = Inserts([r \in {Block} |-> "stands"]) BY <2>1, <3>2 DEF UpsertBlock
    <3>4. own.takes = [r \in {Block} |-> Insert] /\ Block \in DOMAIN own.puts
      BY <3>3 DEF Inserts, Locks, Reads
    <3>5. Gained(j, rw, Block, Update) BY <3>2, <3>4, <1>3 DEF Gained
    <3>6. Only(j.op, j.pc, j.seen, Block) BY <1>5 DEF Only, Does, Lengths
    <3>7. Holds(n, Block, Update) BY <3>5, <3>6, OnlyHeld
    <3>8. Owns(n, Block) BY <3>7 DEF Owns, Holds
    <3>9. Block \in DOMAIN st.puts BY <3>4, <1>3, <2>2
    <3> QED BY <3>8, <3>9, <2>5 DEF Writing
  <2> QED BY <2>4, <2>5
<1> QED BY <1>4, <1>5

-------------------------------------------------------------------------------
(* What a commit does to the person's answers, and to what others have     *)
(* seen of them.                                                           *)
Answering(n, rw) ==
  /\ Committing(n, rw) /\ Heeds(n, rw) /\ Standing(rw) /\ Speaks(n, rw)

LEMMA CommitSays ==
  ASSUME NEW n, NEW rw, Answering(n, rw)
  PROVE  LET v == Sees(n, rw)
         IN  /\ v[Said] # rw[Said] =>
                  \/ v[Said] = "booked" /\ n.op.does \in {"Book", "Join"}
                  \/ v[Said] = "accepted" /\ n.op.does = "Accept"
                  \/ v[Said] = "declined" /\ n.op.does = "Decline"
                  \/ v[Said] = "left" /\ n.op.does = "Unlink"
             /\ n.op.does \in {"Book", "Join"} => v[Said] = "booked"
             /\ n.op.does = "Accept" => v[Said] = "accepted"
<1> DEFINE v == Sees(n, rw)
<1>1. \A r \in Rows : r \notin Drafts(n) => v[r] = rw[r] BY CommitRows DEF Answering
<1>2. Said \in Drafts(n) => Allowed(n.op, Said, v[Said]) BY CommitRows DEF Answering
<1> HIDE DEF v
<1>3. v[Said] # rw[Said] => Said \in Drafts(n) BY <1>1, RowsAre
<1>4. n.op.does \in {"Book", "Join", "Accept"} => Said \in Drafts(n)
  BY DEF Answering, Speaks, Speakers
<1>5. Said \in Drafts(n) =>
        \/ v[Said] = "booked" /\ n.op.does \in {"Book", "Join"}
        \/ v[Said] = "accepted" /\ n.op.does = "Accept"
        \/ v[Said] = "declined" /\ n.op.does = "Decline"
        \/ v[Said] = "left" /\ n.op.does = "Unlink"
  BY <1>2 DEF Allowed
<1> QED BY <1>3, <1>4, <1>5 DEF v

LEMMA CommitStanding ==
  ASSUME NEW n, NEW rw, Answering(n, rw)
  PROVE  Standing(Sees(n, rw))
<1> DEFINE v == Sees(n, rw)
<1> SUFFICES ASSUME v[Said] \in {"left", "declined"} PROVE v[Block] # None BY DEF Standing
<1>1. CASE v[Said] # rw[Said]
  <2>1. n.op.does \in {"Decline", "Unlink"} BY <1>1, CommitSays
  <2> QED BY <2>1 DEF Answering, Speaks
<1>2. CASE v[Said] = rw[Said]
  <2>1. rw[Block] # None BY <1>2 DEF Answering, Standing
  <2>2. CASE Block \notin Drafts(n)
    <3>1. v[Block] = rw[Block] BY <2>2, CommitRows, RowsAre DEF Answering
    <3> QED BY <2>1, <3>1
  <2>3. CASE Block \in Drafts(n)
    <3>1. Allowed(n.op, Block, v[Block]) BY <2>3, CommitRows DEF Answering
    <3>2. n.op.does \notin {"Book", "Join"} BY CommitSays
    <3>3. v[Block] = "stands" BY <3>1, <3>2 DEF Allowed
    <3> QED BY <3>3, NoneIs DEF Words
  <2> QED BY <2>2, <2>3
<1> QED BY <1>1, <1>2

LEMMA CommitHeeds ==
  ASSUME NEW n, NEW x, NEW rw, Answering(n, rw), Meets(n, x, rw), Exclusive(n, x), Heeds(x, rw)
  PROVE  Heeds(x, Sees(n, rw))
<1> DEFINE v == Sees(n, rw)
<1>1. /\ \A r \in Rows : r \notin Drafts(n) => v[r] = rw[r]
      /\ \A r \in Drafts(x) : Sees(x, rw)[r] = Sees(x, v)[r]
  BY MeetsRows, CommitRows DEF Meets
<1>2. \A r \in Drafts(x) : Personal(r) => r \notin Drafts(n)
  <2> SUFFICES ASSUME NEW r \in Drafts(x), Personal(r), r \in Drafts(n) PROVE FALSE OBVIOUS
  <2>1. Locking(n, rw) /\ Locking(x, rw) BY DEF Meets, Committing, Good
  <2>2. ~Owns(x, r) BY <2>1, ApartDrafts DEF Meets
  <2> QED BY <2>1, <2>2 DEF Locking
<1>3. Personal(Link) BY RowTags DEF Personal
<1> HIDE DEF v
<1>4. Respects(x, v)
  <2> SUFFICES ASSUME x.op.does \notin Lifts, NEW i \in Invitation, Invited(i) \in Drafts(x),
                      Declined(v, i)
               PROVE  /\ Sees(x, v)[Invited(i)] # None
                      /\ Kept(v[Invited(i)], Sees(x, v)[Invited(i)])
    BY DEF Respects
  <2>1. v[Invited(i)] = rw[Invited(i)] BY <1>1, RowsAre DEF Exclusive
  <2>2. Sees(x, rw)[Invited(i)] = Sees(x, v)[Invited(i)] BY <1>1
  <2> QED BY <2>1, <2>2 DEF Heeds, Respects, Declined
<1>5. Looked(x, v)
  <2> SUFFICES ASSUME Past(x, LookedAt), v[Said] = "left" PROVE FALSE BY DEF Looked
  <2>1. rw[Said] # "left" BY DEF Heeds, Looked
  <2>2. n.op.does = "Unlink" BY <2>1, CommitSays DEF v
  <2>3. n.pc = 10 BY <2>2 DEF Answering, Committing, Lengths
  <2>4. Link \in Drafts(n) BY <2>2, <2>3 DEF Answering, Heeds, Leaving
  <2>5. x.pc \in Nat BY DEF Meets, Good, Typed, OpTyped, Lengths
  <2>6. Past(x, LinkGate) BY <2>5 DEF Past, LookedAt, LinkGate
  <2>7. Link \in Drafts(x) BY <2>6 DEF Meets, Good, Gated
  <2> QED BY <2>4, <2>7, <1>2, <1>3
<1>6. Adding(x, v)
  <2> SUFFICES ASSUME x.op.does = "RosterAdd", Link \in Drafts(x)
               PROVE  x.pc > 5 /\ v[Link] # None
    BY DEF Adding
  <2>1. v[Link] = rw[Link] BY <1>1, <1>2, <1>3, RowsAre
  <2> QED BY <2>1 DEF Heeds, Adding
<1> QED BY <1>4, <1>5, <1>6 DEF Heeds, v

(* A link comes to be by a request that makes one.                         *)
LEMMA CommitRelinks ==
  ASSUME NEW n, NEW rw, Answering(n, rw), rw[Link] = None, Sees(n, rw)[Link] # None
  PROVE  n.op.does \in {"Accept", "Book", "WalkIn", "Join", "Promote"}
<1> DEFINE v == Sees(n, rw)
<1>1. Link \in Drafts(n)
  <2>1. \A r \in Rows : r \notin Drafts(n) => v[r] = rw[r] BY CommitRows DEF Answering
  <2> QED BY <2>1, RowsAre
<1>2. Allowed(n.op, Link, v[Link]) BY <1>1, CommitRows DEF Answering
<1>3. n.op.does # "RosterAdd" BY <1>1 DEF Answering, Heeds, Adding
<1>4. n.op.does \notin {"Reopen", "Unarchive", "Archive"}
  <2>1. Committing(n, rw) BY DEF Answering
  <2> QED BY <1>1, <2>1, CommitLinks DEF StudentGate
<1> QED BY <1>2, <1>3, <1>4 DEF Allowed

-------------------------------------------------------------------------------
(* Whoever left or declined is blocked, and every request under way        *)
(* respects what the person has answered.                                  *)
Consent == Standing(row) /\ \A w \in Worker : Heeds(job[w], row)

LEMMA ConsentSettled ==
  ASSUME Inv, Consent, NEW w \in Worker, NEW jb, NEW rw, Settles(w, rw, jb),
         Standing(rw), Heeds(jb, rw), \A x \in Worker : x # w => Heeds(job[x], rw)
  PROVE  Consent'
<1>1. /\ row' = rw /\ job'[w] = jb
      /\ \A x \in Worker : x # w => job'[x] = job[x]
  BY DEF Settles, Inv
<1>2. \A x \in Worker : Heeds(job'[x], row') BY <1>1
<1> QED BY <1>1, <1>2 DEF Consent

LEMMA BareConsent ==
  ASSUME Inv, Consent, NEW w \in Worker, NEW jb, Settles(w, row, jb),
         jb.wrote = Nothing, jb.pc \in 1 .. 5
  PROVE  Consent'
<1>1. Heeds(jb, row) BY BareHeeds
<1>2. Standing(row) /\ \A x \in Worker : Heeds(job[x], row) BY DEF Consent
<1> QED BY <1>1, <1>2, ConsentSettled

(* What the commit of w leaves to the others.                              *)
LEMMA CommitConsent ==
  ASSUME Inv, Tidy, Consent, NEW w \in Worker, NEW n, Answering(n, row),
         \A x \in Worker : x # w => Apart(n, job[x]) /\ Exclusive(n, job[x])
  PROVE  /\ Standing(Overlay(n.wrote, row))
         /\ \A x \in Worker : x # w => Heeds(job[x], Overlay(n.wrote, row))
<1>1. Overlay(n.wrote, row) = Sees(n, row) BY DEF Sees
<1>2. Standing(Sees(n, row)) BY CommitStanding
<1>3. ASSUME NEW x \in Worker, x # w PROVE Heeds(job[x], Sees(n, row))
  <2>1. Calm(job[x], row) /\ Heeds(job[x], row) BY DEF Inv, Consent
  <2>2. CASE job[x].op = None
    <3>1. job[x].wrote = Nothing /\ job[x].pc \in 1 .. 5 BY <2>1, <2>2 DEF Calm, Idle
    <3> QED BY <3>1, BareHeeds
  <2>3. CASE job[x].op # None
    <3>1. Meets(n, job[x], row) BY <2>1, <2>3, <1>3 DEF Calm, Meets, Answering
    <3> QED BY <3>1, <2>1, <1>3, CommitHeeds
  <2> QED BY <2>2, <2>3
<1> QED BY <1>1, <1>2, <1>3

(* What w has done when its statement is over.                             *)
LEMMA DoneConsent ==
  ASSUME Inv, Tidy, Consent, NEW w \in Worker, Busy(w), ~Sends(job[w], row).stop,
         Clear(w, Sends(job[w], row), Done(job[w], row).locks)
  PROVE  LET j == job[w]
             n == Done(job[w], row)
         IN  /\ Heeds(n, row) /\ DOMAIN n = JobFields /\ n.op = j.op /\ n.pc = j.pc + 1
             /\ j.pc = Lengths[j.op.does] \/ Does(j.op, j.pc, "Invite", 4) => Answering(n, row)
             /\ \A x \in Worker : x # w => Apart(n, job[x]) /\ Exclusive(n, job[x])
<1> DEFINE j == job[w]
           n == Done(job[w], row)
<1>1. Doing(j, row) BY BusyDoes
<1>2. Standing(row) /\ Heeds(j, row) BY DEF Consent
<1>3. Heeds(n, row) BY <1>1, <1>2, DoneHeeds
<1>4. /\ Good(n, row) /\ n.op = j.op /\ n.pc = j.pc + 1
      /\ \A x \in Worker : x # w => Apart(n, job[x])
  BY DoneApart
<1>5. \A x \in Worker : x # w => Exclusive(n, job[x]) BY DoneTidy
<1>6. Sound(row) /\ scope \in Scopes BY DEF Inv
<1>7. ASSUME j.pc = Lengths[j.op.does] PROVE Speaks(n, row) BY <1>1, <1>7, DoneSpeaks
<1> HIDE DEF j, n
<1>8. ASSUME j.pc = Lengths[j.op.does] \/ Does(j.op, j.pc, "Invite", 4) PROVE Answering(n, row)
  <2>1. Committing(n, row) BY <1>4, <1>6, <1>8 DEF Committing, Does
  <2>2. Does(j.op, j.pc, "Invite", 4) => Speaks(n, row)
    BY <1>4 DEF Does, Speaks, Speakers
  <2> QED BY <2>1, <2>2, <1>2, <1>3, <1>7, <1>8 DEF Answering
<1>9. DOMAIN n = JobFields BY <1>4 DEF Good, Typed
<1> QED BY <1>3, <1>4, <1>5, <1>8, <1>9 DEF j, n

LEMMA StepsConsent ==
  ASSUME Inv, Tidy, Consent, NEW w \in Worker, Busy(w), Steps(w)
  PROVE  Consent'
<1> DEFINE j == job[w]
           st == Sends(job[w], row)
           n == Done(job[w], row)
<1>0. AtRest.wrote = Nothing /\ AtRest.pc \in 1 .. 5 BY DEF AtRest
<1>1. CASE Settles(w, row, AtRest) BY <1>0, <1>1, BareConsent
<1>2. CASE \E k : Settles(w, row, k) /\ Queues(j, row, k) /\ Clear(w, st, k.locks)
  <2>1. PICK k : Settles(w, row, k) /\ Queues(j, row, k) BY <1>2
  <2>2. Standing(row) /\ \A x \in Worker : Heeds(job[x], row) BY DEF Consent
  <2>3. Heeds(k, row) BY <2>1, <2>2, QueueHeeds
  <2> QED BY <2>1, <2>2, <2>3, ConsentSettled
<1>3. ASSUME ~st.stop, Clear(w, st, n.locks),
             \/ Settles(w, row, n) /\ j.pc # Lengths[j.op.does]
             \/ Settles(w, Overlay(n.wrote, row), AtRest) /\ j.pc = Lengths[j.op.does]
             \/ Settles(w, Overlay(n.wrote, row), Rests(n)) /\ Does(j.op, j.pc, "Invite", 4)
      PROVE  Consent'
  <2>1. /\ Heeds(n, row) /\ DOMAIN n = JobFields /\ n.pc = j.pc + 1
        /\ j.pc = Lengths[j.op.does] \/ Does(j.op, j.pc, "Invite", 4) => Answering(n, row)
        /\ \A x \in Worker : x # w => Apart(n, job[x]) /\ Exclusive(n, job[x])
    BY <1>3, DoneConsent
  <2>2. Standing(row) /\ \A x \in Worker : Heeds(job[x], row) BY DEF Consent
  <2> HIDE DEF n, j, st
  <2>3. CASE Settles(w, row, n) BY <2>1, <2>2, <2>3, ConsentSettled
  <2>4. CASE Settles(w, Overlay(n.wrote, row), AtRest) /\ j.pc = Lengths[j.op.does]
    <3>1. /\ Standing(Overlay(n.wrote, row))
          /\ \A x \in Worker : x # w => Heeds(job[x], Overlay(n.wrote, row))
      BY <2>1, <2>4, CommitConsent
    <3>2. Heeds(AtRest, Overlay(n.wrote, row)) BY <1>0, BareHeeds
    <3> QED BY <3>1, <3>2, <2>4, ConsentSettled
  <2>5. CASE Settles(w, Overlay(n.wrote, row), Rests(n)) /\ Does(j.op, j.pc, "Invite", 4)
    <3>1. /\ Standing(Overlay(n.wrote, row))
          /\ \A x \in Worker : x # w => Heeds(job[x], Overlay(n.wrote, row))
      BY <2>1, <2>5, CommitConsent
    <3>2. Rests(n).wrote = Nothing /\ Rests(n).pc \in 1 .. 5
      BY <2>1, <2>5 DEF Rests, JobFields, Does
    <3>3. Heeds(Rests(n), Overlay(n.wrote, row)) BY <3>2, BareHeeds
    <3> QED BY <3>1, <3>3, <2>5, ConsentSettled
  <2> QED BY <1>3, <2>3, <2>4, <2>5
<1> QED BY <1>1, <1>2, <1>3 DEF Steps

LEMMA ConsentInit == InitRoster => Consent
<1> SUFFICES ASSUME InitRoster PROVE Consent OBVIOUS
<1>1. job = [w \in Worker |-> AtRest] BY DEF InitRoster
<1>2. row[Said] = "nothing" BY RowsAre, RowTags, Zenon DEF InitRoster
<1>3. AtRest.wrote = Nothing /\ AtRest.pc \in 1 .. 5 BY DEF AtRest
<1>4. Heeds(AtRest, row) BY <1>3, BareHeeds
<1> QED BY <1>1, <1>2, <1>4 DEF Consent, Standing

(* The workers' statements are the only steps but a request's beginning    *)
(* and its death, which change no row.                                     *)
LEMMA NextSteps ==
  ASSUME Inv, Next
  PROVE  \E w \in Worker :
           \/ Begin(w) \/ Fails(w)
           \/ Busy(w) /\ Steps(w)
<1>1. PICK w \in Worker : Begin(w) \/ Send(w) \/ Proceed(w) \/ Fails(w) BY DEF Next
<1>2. CASE Begin(w) \/ Fails(w) BY <1>2
<1>3. CASE Send(w) \/ Proceed(w)
  <2>1. Busy(w) BY <1>3, SomeoneBusy
  <2>2. Doing(job[w], row) BY <2>1, BusyDoes
  <2>3. /\ DOMAIN job[w] = JobFields /\ job[w].pc \in 1 .. Lengths[job[w].op.does]
        /\ Fits(job[w].op, Sees(job[w], row), job[w].seen)
    BY <2>2, DoingFits DEF FitSt, Doing, Good, Typed
  <2>4. Steps(w) BY <2>3, <1>3, SendSteps, ProceedSteps
  <2> QED BY <2>1, <2>4
<1> QED BY <1>1, <1>2, <1>3

LEMMA ConsentStep == Inv /\ Tidy /\ Consent /\ [Next]_vars => Consent'
<1> SUFFICES ASSUME Inv, Tidy, Consent, [Next]_vars PROVE Consent' OBVIOUS
<1>1. CASE UNCHANGED vars
  <2>1. row' = row /\ job' = job BY <1>1 DEF vars, pgVars
  <2> QED BY <2>1 DEF Consent
<1>2. ASSUME Next PROVE Consent'
  <2>1. PICK w \in Worker : Begin(w) \/ Fails(w) \/ (Busy(w) /\ Steps(w)) BY <1>2, NextSteps
  <2>2. CASE Begin(w)
    <3>1. PICK o \in Requests : job' = [job EXCEPT ![w].op = o, ![w].seen = Unread]
      BY <2>2 DEF Begin
    <3> DEFINE k == Begun(job[w], o)
    <3>2. Settles(w, row, k) BY <2>2, <3>1 DEF Settles, Begin, Begun
    <3>3. Idle(job[w]) BY <2>2 DEF Inv, Calm, Begin, Busy
    <3>4. k.wrote = Nothing /\ k.pc \in 1 .. 5 BY <3>3 DEF Idle, JobFields, Begun
    <3> HIDE DEF k
    <3> QED BY <3>2, <3>4, BareConsent
  <2>3. CASE Fails(w)
    <3>1. Settles(w, row, AtRest) BY <2>3 DEF Fails, Settles
    <3>2. AtRest.wrote = Nothing /\ AtRest.pc \in 1 .. 5 BY DEF AtRest
    <3> QED BY <3>1, <3>2, BareConsent
  <2>4. CASE Busy(w) /\ Steps(w) BY <2>4, StepsConsent
  <2> QED BY <2>1, <2>2, <2>3, <2>4
<1> QED BY <1>1, <1>2

(* The rows change when a request commits, in a step of its own.           *)
LEMMA RowsTurn ==
  ASSUME Inv, Tidy, Consent, [Next]_vars, row' # row
  PROVE  \E w \in Worker : \E n : /\ Answering(n, row) /\ n.op = job[w].op
                                  /\ row' = Sees(n, row)
                                  /\ Busy(w) /\ job'[w] # job[w]
<1>1. Next BY DEF vars, pgVars
<1>2. PICK w \in Worker : Begin(w) \/ Fails(w) \/ (Busy(w) /\ Steps(w)) BY <1>1, NextSteps
<1>3. Busy(w) /\ Steps(w) BY <1>2 DEF Begin, Fails
<1> DEFINE j == job[w]
           st == Sends(job[w], row)
           n == Done(job[w], row)
<1>4. \A jb : ~Settles(w, row, jb) BY DEF Settles
<1>5. /\ ~st.stop /\ Clear(w, st, n.locks)
      /\ \/ Settles(w, Overlay(n.wrote, row), AtRest) /\ j.pc = Lengths[j.op.does]
         \/ Settles(w, Overlay(n.wrote, row), Rests(n)) /\ Does(j.op, j.pc, "Invite", 4)
  BY <1>3, <1>4 DEF Steps
<1>6. /\ DOMAIN n = JobFields /\ n.op = j.op /\ n.pc = j.pc + 1
      /\ j.pc = Lengths[j.op.does] \/ Does(j.op, j.pc, "Invite", 4) => Answering(n, row)
  BY <1>3, <1>5, DoneConsent
<1>7. Sees(n, row) = Overlay(n.wrote, row) BY DEF Sees
<1> HIDE DEF n, st
<1>8. job'[w] # job[w]
  <2>1. w \in DOMAIN job BY DEF Inv
  <2>2. CASE Settles(w, Overlay(n.wrote, row), AtRest)
    <3>1. job'[w] = AtRest BY <2>1, <2>2 DEF Settles
    <3> QED BY <3>1, <1>3 DEF Busy, AtRest
  <2>3. CASE Settles(w, Overlay(n.wrote, row), Rests(n)) /\ Does(j.op, j.pc, "Invite", 4)
    <3>1. job'[w] = Rests(n) BY <2>1, <2>3 DEF Settles
    <3>2. Rests(n).pc = 5 /\ job[w].pc = 4 BY <1>6, <2>3 DEF Rests, JobFields, Does
    <3> QED BY <3>1, <3>2
  <2> QED BY <1>5, <2>2, <2>3
<1> QED BY <1>3, <1>5, <1>6, <1>7, <1>8 DEF Settles

LEMMA RefusalKept ==
  ASSUME Inv, Tidy, Consent, [Next]_vars
  PROVE  /\ row'[Said] \in {"left", "declined"} => row'[Block] # None
         /\ row'[Said] = "left" /\ row[Said] # "left" => row'[Link] = None
         /\ row'[Said] = "left" /\ row[Link] = None /\ row'[Link] # None => StepOf({"Promote"})
         /\ row'[Said] = "declined" /\ row[Link] = None /\ row'[Link] # None
              => StepOf({"Promote", "WalkIn"})
         /\ row'[Said] = "accepted" => row[Said] # "left"
<1>1. CASE row' = row BY <1>1 DEF Consent, Standing
<1>2. CASE row' # row
  <2>w. PICK w \in Worker : \E n : /\ Answering(n, row) /\ n.op = job[w].op
                                   /\ row' = Sees(n, row) /\ Busy(w) /\ job'[w] # job[w]
    BY <1>2, RowsTurn
  <2>1. PICK n : /\ Answering(n, row) /\ n.op = job[w].op
                 /\ row' = Sees(n, row) /\ Busy(w) /\ job'[w] # job[w]
    BY <2>w
  <2>2. \A D : n.op.does \in D => StepOf(D) BY <2>1 DEF StepOf
  <2> DEFINE v == Sees(n, row)
  <2>3. /\ v[Said] # row[Said] =>
             \/ v[Said] = "booked" /\ n.op.does \in {"Book", "Join"}
             \/ v[Said] = "accepted" /\ n.op.does = "Accept"
             \/ v[Said] = "declined" /\ n.op.does = "Decline"
             \/ v[Said] = "left" /\ n.op.does = "Unlink"
        /\ n.op.does \in {"Book", "Join"} => v[Said] = "booked"
        /\ n.op.does = "Accept" => v[Said] = "accepted"
    BY <2>1, CommitSays
  <2>4. v[Said] \in {"left", "declined"} => v[Block] # None
    BY <2>1, CommitStanding DEF Standing
  <2>5. row[Link] = None /\ v[Link] # None =>
          n.op.does \in {"Accept", "Book", "WalkIn", "Join", "Promote"}
    BY <2>1, CommitRelinks
  <2>6. n.op.does \in {"Accept", "WalkIn"} => row[Said] # "left"
    <3>1. n.op.does \in {"Accept", "WalkIn"} => n.pc = Lengths[n.op.does] + 1
      BY <2>1 DEF Answering, Committing
    <3>2. n.op.does \in {"Accept", "WalkIn"} => Past(n, LookedAt)
      BY <3>1 DEF Past, LookedAt, Lengths
    <3> QED BY <3>2, <2>1 DEF Answering, Heeds, Looked
  <2>7. n.op.does = "Unlink" => v[Link] = None
    <3> SUFFICES ASSUME n.op.does = "Unlink" PROVE v[Link] = None OBVIOUS
    <3>1. n.pc = 10 BY <2>1 DEF Answering, Committing, Lengths
    <3>2. Link \in Drafts(n) BY <3>1, <2>1 DEF Answering, Heeds, Leaving
    <3>3. Allowed(n.op, Link, v[Link]) BY <3>2, <2>1, CommitRows DEF Answering
    <3> QED BY <3>3 DEF Allowed
  <2> HIDE DEF v
  <2>8. row' = v BY <2>1 DEF v
  <2>9. v[Said] = "left" /\ row[Link] = None /\ v[Link] # None => n.op.does \in {"Promote"}
    BY <2>3, <2>5, <2>6
  <2>10. v[Said] = "declined" /\ row[Link] = None /\ v[Link] # None
           => n.op.does \in {"Promote", "WalkIn"}
    BY <2>3, <2>5
  <2>11. v[Said] = "left" /\ row[Said] # "left" => v[Link] = None BY <2>3, <2>7
  <2>12. v[Said] = "accepted" => row[Said] # "left" BY <2>3, <2>6
  <2> QED BY <2>2, <2>4, <2>8, <2>9, <2>10, <2>11, <2>12
<1> QED BY <1>1, <1>2

LEMMA TombstoneKept ==
  ASSUME Inv, Tidy, Consent, [Next]_vars, NEW i \in Invitation, At(row, i).status = "declined",
         At(row', i) # [At(row, i) EXCEPT !.told = At(row', i).told]
  PROVE  StepOf({"Book", "Join", "Erase"})
<1> DEFINE r == Invited(i)
<1>1. Declined(row, i) /\ At(row, i) = row[r]
  BY NoneIs DEF Declined, At, NoInvitation, Words
<1>2. row[r] \in InvitationRow BY <1>1 DEF Inv, Sound, RowsTyped, Declined
<1>3. row' # row BY <1>1, <1>2, KeptSame DEF Kept
<1>w. PICK w \in Worker : \E n : /\ Answering(n, row) /\ n.op = job[w].op
                                 /\ row' = Sees(n, row) /\ Busy(w) /\ job'[w] # job[w]
  BY <1>3, RowsTurn
<1>4. PICK n : /\ Answering(n, row) /\ n.op = job[w].op
               /\ row' = Sees(n, row) /\ Busy(w) /\ job'[w] # job[w]
  BY <1>w
<1>5. n.op.does \in Lifts => StepOf(Lifts) BY <1>4 DEF StepOf
<1>6. ASSUME n.op.does \notin Lifts PROVE FALSE
  <2>1. CASE r \notin Drafts(n)
    <3>1. row'[r] = row[r] BY <2>1, <1>4, CommitRows, RowsAre DEF Answering
    <3>2. At(row', i) = At(row, i) BY <3>1 DEF At
    <3> QED BY <3>2, <1>1, <1>2, KeptSame DEF Kept
  <2>2. CASE r \in Drafts(n)
    <3>1. row'[r] # None /\ Kept(row[r], row'[r])
      BY <2>2, <1>1, <1>4, <1>6 DEF Answering, Heeds, Respects
    <3>2. At(row', i) = row'[r] BY <3>1 DEF At
    <3> QED BY <3>1, <3>2, <1>1 DEF Kept
  <2> QED BY <2>1, <2>2
<1> QED BY <1>5, <1>6 DEF Lifts

(***************************************************************************)
(* With the answers: whoever has left or declined is blocked for the       *)
(* teacher, what a request has drafted over a declined invitation keeps it *)
(* but for the address it was told, and an acceptance or a walk-in that    *)
(* has looked for a block for the last time knows the person has not left: *)
(* an unlinking past its delete holds the link they hold                   *)
(* (invitations.ts:1411).                                                  *)
(***************************************************************************)
THEOREM AnswersAreHeeded == Spec => [](Inv /\ Tidy /\ Consent)
<1>1. InitRoster => Inv /\ Tidy /\ Consent BY InvInit, TidyInit, ConsentInit
<1>2. Inv /\ Tidy /\ Consent /\ [Next]_vars => (Inv /\ Tidy /\ Consent)'
  BY InvStep, TidyStep, ConsentStep
<1> QED BY <1>1, <1>2, PTL DEF Spec

(***************************************************************************)
(* A refusal stands, whichever requests meet: whoever left is unlinked,    *)
(* whoever left or declined is blocked, nothing but a promotion links one  *)
(* who left again and nothing but a promotion or a walk-in one who         *)
(* declined, and no acceptance commits over a person who has just left     *)
(* (invitations.ts:1207-1255, 1411).                                       *)
(***************************************************************************)
THEOREM RosterRefusalStands == Spec => RefusalStands
<1> DEFINE A == /\ row'[Said] \in {"left", "declined"} => row'[Block] # None
                /\ row'[Said] = "left" /\ row[Said] # "left" => row'[Link] = None
                /\ row'[Said] = "left" /\ row[Link] = None /\ row'[Link] # None
                     => StepOf({"Promote"})
                /\ row'[Said] = "declined" /\ row[Link] = None /\ row'[Link] # None
                     => StepOf({"Promote", "WalkIn"})
                /\ row'[Said] = "accepted" => row[Said] # "left"
<1>1. Inv /\ Tidy /\ Consent /\ [Next]_vars => A BY RefusalKept
<1>2. RefusalStands <=> [][A]_vars BY DEF RefusalStands
<1> HIDE DEF A
<1> QED BY <1>1, <1>2, AnswersAreHeeded, PTL DEF Spec

(***************************************************************************)
(* A declined invitation is moved by nobody but the person, who books,     *)
(* joins a queue or erases the account: the teacher's invite, edit,        *)
(* removal and walk-in look at the answer in the statement that would      *)
(* write over it (app/api/invitations/[id]/route.ts:25-37).                *)
(***************************************************************************)
THEOREM RosterTombstoneStays == Spec => TombstoneStays
<1> DEFINE A == \A i \in Invitation :
       At(row, i).status = "declined" /\ At(row', i) # [At(row, i) EXCEPT !.told = At(row', i).told]
         => StepOf({"Book", "Join", "Erase"})
<1>1. Inv /\ Tidy /\ Consent /\ [Next]_vars => A BY TombstoneKept
<1>2. TombstoneStays <=> [][A]_vars BY DEF TombstoneStays
<1> HIDE DEF A
<1> QED BY <1>1, <1>2, AnswersAreHeeded, PTL DEF Spec
-------------------------------------------------------------------------------
(* What a statement asks for, beyond its table.                            *)
LEMMA AskFits ==
  ASSUME NEW j, NEW rw, Doing(j, rw), NEW r \in DOMAIN Sends(j, rw).takes
  PROVE  LET m == Sends(j, rw).takes[r]
         IN  /\ r \in Rows /\ AsksFor(j.op, j.pc, r) /\ m \in KeyShare .. Insert
             /\ m = Insert => Only(j.op, j.pc, j.seen, r) /\ r # Student /\ r[1] # "invitation"
             /\ r[1] = "key" => m = Insert
             /\ r # Student => m \in NoKeyUpdate .. Insert
  BY DoingFits DEF FitSt, Fit, Asks, Shape

LEMMA AskStudent ==
  ASSUME NEW j, NEW rw, Doing(j, rw), Student \in DOMAIN Sends(j, rw).takes
  PROVE  LET m == Sends(j, rw).takes[Student]
         IN  /\ m = KeyShare <=> j.op.does = "Promote"
             /\ m = Update => Does(j.op, j.pc, "Erase", 10)
<1> DEFINE o == j.op
           v == Sees(j, rw)
           st == Sends(j, rw)
<1>1. On(o, j.pc, StudentAt) BY AskFits, RowTags DEF AsksFor
<1>2. CASE AtGate(o, j.pc, StudentGate)
  <2>1. st = LockLiveStudent(v) BY <1>2, GateStatements
  <2>2. st.takes = [r \in {Student} |-> Share] BY <2>1 DEF LockLiveStudent, StopIf, Locks, Reads
  <2>3. o.does # "Promote" BY <1>2 DEF AtGate, StudentGate
  <2> QED BY <2>2, <2>3
<1>3. CASE Does(o, j.pc, "Promote", 3)
  <2>0. o.does = "Promote" /\ j.pc = 3 BY <1>3 DEF Does
  <2>a. Statements(o, v, j.seen) = Promote(v, o.class) BY <2>0, Zenon DEF Statements
  <2>b. Promote(v, o.class)[3] = Locks({Student}, KeyShare) BY DEF Promote, Transaction
  <2>1. st = Locks({Student}, KeyShare) BY <2>0, <2>a, <2>b DEF Sends
  <2>2. st.takes = [r \in {Student} |-> KeyShare] BY <2>1 DEF Locks, Reads
  <2> QED BY <2>0, <2>2
<1>4. CASE Does(o, j.pc, "Erase", 1)
  <2>0. o.does = "Erase" /\ j.pc = 1 BY <1>4 DEF Does
  <2>a. Statements(o, v, j.seen) = Erase(v, j.seen) BY <2>0, EraseIs
  <2>b. Erase(v, j.seen)[1] = Locks({Student}, NoKeyUpdate) BY EraseStarts
  <2>1. st = Locks({Student}, NoKeyUpdate) BY <2>0, <2>a, <2>b DEF Sends
  <2>2. st.takes = [r \in {Student} |-> NoKeyUpdate] BY <2>1 DEF Locks, Reads
  <2> QED BY <1>4, <2>2 DEF Does
<1>5. CASE Does(o, j.pc, "Erase", 10)
  <2>1. st = StopIf(v[Student] = "erased", Erasure) BY <1>5, EraseIs, EraseEnds DEF Sends, Does
  <2>2. st.takes = [r \in {Student} |-> Update]
    BY <2>1 DEF StopIf, Erasure, Locks, Reads
  <2> QED BY <1>5, <2>2 DEF Does
<1>6. AtGate(o, j.pc, StudentGate) \/ Does(o, j.pc, "Promote", 3) \/ Does(o, j.pc, "Erase", 1)
        \/ Does(o, j.pc, "Erase", 10)
  BY <1>1 DEF On, StudentAt, AtGate, StudentGate, Does
<1> QED BY <1>2, <1>3, <1>4, <1>5, <1>6

(* A queue entry is asked for by who has its class.                        *)
LEMMA AskQueue ==
  ASSUME NEW j, NEW rw, Doing(j, rw), NEW r \in DOMAIN Sends(j, rw).takes, r[1] = "queue"
  PROVE  Holds(j, Course(r[2]), Update)
<1> DEFINE o == j.op
           v == Sees(j, rw)
           st == Sends(j, rw)
<1>1. On(o, j.pc, QueueAt) /\ (r[2] = o.class \/ Wide(o)) BY AskFits DEF AsksFor
<1>2. Gated(j, rw) /\ Sorting(j) BY DEF Doing, Good
<1>3. CASE o.does \in {"Book", "Promote", "Join"}
  <2>1. Past(j, CourseGate) BY <1>1, <1>3 DEF Past, CourseGate, On, QueueAt
  <2>2. r[2] = o.class BY <1>1, <1>3 DEF Wide
  <2> QED BY <1>2, <2>1, <2>2 DEF Gated
<1>4. CASE o.does = "Unlink"
  <2>1. j.pc = 5 BY <1>1, <1>4 DEF On, QueueAt
  <2>a. Statements(o, v, j.seen) = Unlink(v, j.seen) BY <1>4, Zenon DEF Statements
  <2>b. Unlink(v, j.seen)[5] = Writes(Leaves(v, j.seen)) BY DEF Unlink, Leaves, WaitingIn
  <2>2. st = Writes(Leaves(v, j.seen)) BY <2>1, <2>a, <2>b DEF Sends
  <2>3. r \in DOMAIN Leaves(v, j.seen) BY <2>2 DEF Writes, Locks, Reads
  <2>4. r[2] \in j.seen.queues BY <2>3, RowTags DEF Leaves
  <2> QED BY <1>2, <1>4, <2>1, <2>4 DEF Sorting, SortedAt
<1>5. CASE o.does = "Erase"
  <2>1. j.pc = 7 BY <1>1, <1>5 DEF On, QueueAt
  <2>2. st = Deletes(QueuesOf(j.seen)) BY <1>5, <2>1, EraseIs, EraseEnds DEF Sends
  <2>3. r \in QueuesOf(j.seen) BY <2>2 DEF Deletes, Locks, Reads
  <2>4. r[2] \in j.seen.queues BY <2>3, RowTags DEF QueuesOf
  <2> QED BY <1>2, <1>5, <2>1, <2>4 DEF Sorting, SortedAt
<1> QED BY <1>1, <1>3, <1>4, <1>5 DEF On, QueueAt

(* A reopening that comes to the link a second time has it.                *)
LEMMA AskLink ==
  ASSUME NEW j, NEW rw, Doing(j, rw), Link \in DOMAIN Sends(j, rw).takes,
         Does(j.op, j.pc, "Reopen", 5)
  PROVE  j.seen.filed
<1> DEFINE v == Sees(j, rw)
<1>0. j.op.does = "Reopen" /\ j.pc = 5 BY DEF Does
<1>a. Statements(j.op, v, j.seen) = Reopen(v, j.seen, j.op.class) BY <1>0, Zenon DEF Statements
<1>b. Reopen(v, j.seen, j.op.class)[5] = Ends(Writes(Restored(v, j.seen)))
  BY DEF Reopen, Transaction, Restored
<1>1. Sends(j, rw) = Ends(Writes(Restored(v, j.seen))) BY <1>0, <1>a, <1>b DEF Sends
<1>2. Link \in DOMAIN Restored(v, j.seen) BY <1>1 DEF Ends, Writes, Locks, Reads
<1> QED BY <1>2 DEF Restored

(* A block is upserted without a lock if it is there.                      *)
LEMMA AskBlock ==
  ASSUME NEW j, NEW rw, Doing(j, rw), Block \in DOMAIN Sends(j, rw).takes
  PROVE  j.op.does \in {"Book", "Join"} \/ Sees(j, rw)[Block] = None
<1>1. On(j.op, j.pc, BlockAt) BY AskFits, RowTags DEF AsksFor
<1>2. SUFFICES ASSUME j.op.does \in {"Decline", "Unlink"} PROVE Sees(j, rw)[Block] = None
  BY <1>1 DEF On, BlockAt
<1>3. j.op.does \in Speakers /\ j.pc = Lengths[j.op.does]
  BY <1>1, <1>2 DEF Speakers, On, BlockAt, Lengths
<1>4. PICK answer : \E st : /\ IsStatement(st) /\ Sends(j, rw) = Ends(Saying(answer, st))
                            /\ st = UpsertBlock(Sees(j, rw))
  BY <1>2, <1>3, LastSays
<1>5. Sends(j, rw).takes = UpsertBlock(Sees(j, rw)).takes BY <1>4, SaysSo
<1>6. DOMAIN Reads.takes = {} BY DEF Reads, Nothing
<1> QED BY <1>5, <1>6 DEF UpsertBlock

LEMMA AskSorted ==
  ASSUME NEW j, NEW rw, j.op.does \in DOMAIN SortedAt, j.pc = SortedAt[j.op.does]
  PROVE  Sends(j, rw).inOrder
<1> DEFINE v == Sees(j, rw)
<1>1. Sends(j, rw) = LocksInOrder(Courses(j.seen.queues))
  <2>1. CASE j.op.does = "Unlink"
    <3>1. Statements(j.op, v, j.seen)[4] = LocksInOrder(Courses(j.seen.queues))
      BY <2>1, UnlinkSorts
    <3> QED BY <2>1, <3>1 DEF Sends, SortedAt
  <2>2. CASE j.op.does = "Erase"
    <3>1. Statements(j.op, v, j.seen) = Erase(v, j.seen) BY <2>2, EraseIs
    <3>2. Erase(v, j.seen)[3] = LocksInOrder(Courses(j.seen.queues)) BY EraseStarts
    <3> QED BY <2>2, <3>1, <3>2 DEF Sends, SortedAt
  <2> QED BY <2>1, <2>2 DEF SortedAt
<1> QED BY <1>1 DEF LocksInOrder, Locks, Reads

-------------------------------------------------------------------------------
(* The order in which the requests take their rows.  What is known of a    *)
(* row a request waits for.                                                *)
Awaiting(j) == \A r \in DOMAIN j.wants :
  LET m == j.wants[r]
  IN  /\ r \in Rows /\ AsksFor(j.op, j.pc, r) /\ m \in KeyShare .. Insert
      /\ m = Insert => Only(j.op, j.pc, j.seen, r) /\ r # Student /\ r[1] # "invitation"
      /\ r[1] = "key" => m = Insert
      /\ r = Student /\ j.op.does = "Promote" => m = KeyShare
      /\ r = Block => j.op.does \in {"Book", "Join"}
      /\ r = Link /\ Does(j.op, j.pc, "Reopen", 5) => j.seen.filed
      /\ r[1] = "queue" => Holds(j, Course(r[2]), Update)
      /\ r[1] = "invitation" => r[2] \in scope.invitations

(* A lock was asked for by a statement that is over, or by the one that    *)
(* waits for others of its rows.                                           *)
Since(j, r) ==
  \E p \in 1 .. j.pc :
    /\ AsksFor(j.op, p, r)
    /\ p = j.pc => /\ DOMAIN j.wants # {} /\ r \notin DOMAIN j.wants
                   /\ \A q : ~Only(j.op, j.pc, j.seen, q)

Retained(j) == \A r, m : Holds(j, r, m) =>
  /\ Since(j, r)
  /\ r # Student => m \in NoKeyUpdate .. Update
  /\ r = Student /\ m = KeyShare => j.op.does = "Promote"
  /\ r = Student /\ m = Update => j.op.does = "Erase" /\ j.pc > 10
  /\ r[1] = "queue" => Holds(j, Course(r[2]), Update)
  /\ r[1] = "invitation" => r[2] \in scope.invitations

(* Who takes several classes takes the lowest of them first.               *)
Ascending(j) ==
  j.op.does \in DOMAIN SortedAt /\ j.pc = SortedAt[j.op.does] /\ DOMAIN j.wants # {} =>
    /\ j.inOrder
    /\ \A c, d \in Class : \A m : Course(d) \in DOMAIN j.wants /\ Holds(j, Course(c), m) => c < d

(* What a request may have written that is not committed.                  *)
Lifting(j, rw) ==
  /\ Block \in Drafts(j) /\ j.pc <= Lengths[j.op.does] => rw[Block] # None
  /\ \A i \in Invitation :
       Invited(i) \in Drafts(j) /\ j.wrote[Invited(i)] # None => i \in scope.invitations
  /\ \A e : Key(e) \in Drafts(j) => j.op.does \in DOMAIN KeyAt

Orderly(j, rw) == Awaiting(j) /\ Retained(j) /\ Ascending(j) /\ Lifting(j, rw)

(* The invitations that are there are the scope's.                         *)
Scoped(rw) == \A i \in Invitation : rw[Invited(i)] # None => i \in scope.invitations

Orderliness == Scoped(row) /\ \A w \in Worker : Orderly(job[w], row)

LEMMA BareOrderly ==
  ASSUME NEW k, NEW rw, k.locks = {}, k.wrote = Nothing, DOMAIN k.wants = {}
  PROVE  Orderly(k, rw)
<1>1. \A r, m : ~Holds(k, r, m) BY DEF Holds
<1>2. Drafts(k) = {} BY DEF Drafts, Nothing
<1> QED BY <1>1, <1>2 DEF Orderly, Awaiting, Retained, Ascending, Lifting

(* An invitation the request sees is the scope's.                          *)
LEMMA SeesScoped ==
  ASSUME NEW j, NEW rw, Doing(j, rw), Scoped(rw), Lifting(j, rw), NEW i \in Invitation,
         Sees(j, rw)[Invited(i)] # None
  PROVE  i \in scope.invitations
<1>1. Invited(i) \in Rows BY RowsAre
<1>2. CASE Invited(i) \in Drafts(j)
  <2>1. Sees(j, rw)[Invited(i)] = j.wrote[Invited(i)] BY <1>2, SeesDraft
  <2> QED BY <1>2, <2>1 DEF Lifting
<1>3. CASE Invited(i) \notin Drafts(j)
  <2>1. Sees(j, rw)[Invited(i)] = rw[Invited(i)] BY <1>1, <1>3, Committed
  <2> QED BY <2>1 DEF Scoped
<1> QED BY <1>2, <1>3

(* A new invitation takes an id of the scope.                              *)
LEMMA InsertInScope ==
  ASSUME NEW v, NEW fresh, NEW i \in Invitation,
         Invited(i) \in DOMAIN InsertInvitation(FreeIds(v), fresh).puts
  PROVE  i \in scope.invitations
<1> DEFINE new == {Invited(k) : k \in {j \in FreeIds(v) : \A l \in FreeIds(v) : j <= l}}
<1>1. DOMAIN InsertInvitation(FreeIds(v), fresh).puts = new \cup {Key(Address)}
  <2> DEFINE f == [k \in {Key(Address)} |-> "taken"]
             g == [r \in new |-> fresh]
  <2>1. IsStatement(Inserts(f)) BY DEF IsStatement, Inserts, Locks, Reads
  <2>2. InsertInvitation(FreeIds(v), fresh) = Also(g, Inserts(f)) BY DEF InsertInvitation
  <2>3. DOMAIN g = new /\ DOMAIN f = {Key(Address)} OBVIOUS
  <2> HIDE DEF f, g
  <2>4. DOMAIN Also(g, Inserts(f)).puts = DOMAIN g \cup DOMAIN f BY <2>1, PutsOf
  <2> QED BY <2>2, <2>3, <2>4
<1>2. Invited(i) \in new BY <1>1, KeyIs
<1>3. PICK k \in FreeIds(v) : Invited(i) = Invited(k) BY <1>2
<1> QED BY <1>3, KeyIs DEF FreeIds

LEMMA AddsInScope ==
  ASSUME NEW j, NEW rw, Doing(j, rw), NEW i \in Invitation,
         Invited(i) \in DOMAIN Sends(j, rw).puts, Sends(j, rw).puts[Invited(i)] # None
  PROVE  Sees(j, rw)[Invited(i)] # None \/ i \in scope.invitations
<1> DEFINE v == Sees(j, rw)
           st == Sends(j, rw)
           r == Invited(i)
<1>1. MayPut(j.op, j.pc, v, r, st.puts[r]) BY DoingFits DEF FitSt, Fit, Puts
<1>2. CASE ~Readdresses(j.op, j.pc) BY <1>1, <1>2, RowTags DEF MayPut
<1>3. Touches(j.op, j.pc) BY <1>1, RowTags DEF MayPut
<1>4. CASE Does(j.op, j.pc, "Invite", 4)
  <2>0. j.op.does = "Invite" /\ j.pc = 4 BY <1>4 DEF Does
  <2>1. st = Invite(v, j.seen)[4] BY <2>0, InviteIs DEF Sends
  <2>2. CASE Mine(j.seen) # {}
    <3>1. st = Ends(StopIf(AcceptedOf(v, j.seen) = {}, Writes(Repended(v, j.seen))))
      BY <2>1, <2>2, InviteAdds
    <3>2. st.puts = Repended(v, j.seen) BY <3>1 DEF Ends, StopIf, Writes, Locks, Reads
    <3> QED BY <3>2 DEF Repended, AcceptedOf, Existing
  <2>3. CASE Mine(j.seen) = {}
    <3> DEFINE fresh == FreshInvitation(Delivers(j.seen))
    <3>1. st = Ends(NewInvitation(v, j.seen)) BY <2>1, <2>3, InviteAdds
    <3> HIDE DEF fresh
    <3>2. st.puts = InsertInvitation(FreeIds(v), fresh).puts
      BY <3>1 DEF Ends, NewInvitation, Keeping, StopIf, InsertInvitation, Also, Inserts, Locks,
                  Reads, fresh
    <3> QED BY <3>2, InsertInScope
  <2> QED BY <2>2, <2>3
<1>5. CASE Does(j.op, j.pc, "WalkIn", 9)
  <2>0. j.op.does = "WalkIn" /\ j.pc = 9 BY <1>5 DEF Does
  <2>1. st = WalkIn(v, j.op.class)[9] BY <2>0, WalkInIs DEF Sends
  <2>2. st = WalkInEntry(v) BY <2>1, WalkInEnds
  <2>3. CASE HolderOf(v, Address) # {}
    <3>1. DOMAIN st.puts = {} BY <2>2, <2>3 DEF WalkInEntry, Locks, Reads, Nothing
    <3> QED BY <3>1
  <2>4. CASE HolderOf(v, Address) = {}
    <3>1. st.puts = InsertInvitation(FreeIds(v), FreshInvitation(TRUE)).puts
      BY <2>2, <2>4 DEF WalkInEntry, StopIf, InsertInvitation, Also, Inserts, Locks, Reads
    <3> QED BY <3>1, InsertInScope
  <2> QED BY <2>3, <2>4
<1>6. CASE Does(j.op, j.pc, "Edit", 2)
  <2> DEFINE f == Edited(v, j.seen, j.op)
             x == At(v, j.op.inv).status # "pending"
             notes == [held |-> At(v, j.op.inv).email]
  <2>1. st = Keeping(notes, StopIf(x, Writes(f))) BY <1>6, EditWrites
  <2> HIDE DEF f, x, notes
  <2>2. st.puts = f BY <2>1 DEF Keeping, StopIf, Writes, Locks, Reads
  <2> QED BY <2>2 DEF Edited, Existing, f
<1>7. CASE Does(j.op, j.pc, "Edit", 3)
  <2> QED BY <1>3, <1>7 DEF Does, Touches, Touching
<1>8. CASE Does(j.op, j.pc, "Remove", 2)
  <2>0. j.op.does = "Remove" /\ j.pc = 2 BY <1>8 DEF Does
  <2>1. st.puts[r] = None
    <3> DEFINE x == At(v, j.op.inv).status \notin {"pending", "accepted"}
               gone == StopIf(x, Deletes({Invited(j.op.inv)}))
               f == [k \in {Key(At(v, j.op.inv).email)} |-> None]
    <3>1. Statements(j.op, v, j.seen) = Remove(v, j.op.inv) BY <2>0, Zenon DEF Statements
    <3>2. Remove(v, j.op.inv)[2] = Ends(Also(f, gone)) BY DEF Remove
    <3>3. st = Ends(Also(f, gone)) BY <2>0, <3>1, <3>2 DEF Sends
    <3>4. \A q \in DOMAIN f : f[q] = None OBVIOUS
    <3> HIDE DEF x, f
    <3>5. \A q \in DOMAIN gone.puts : gone.puts[q] = None BY DEF StopIf, Deletes, Locks, Reads
    <3>6. st.puts = Overlay(f, gone.puts)
      BY <3>3 DEF Ends, Also, StopIf, Deletes, Locks, Reads
    <3> HIDE DEF gone
    <3>7. /\ DOMAIN Overlay(f, gone.puts) = DOMAIN f \cup DOMAIN gone.puts
          /\ Overlay(f, gone.puts)[r] \in {f[r], gone.puts[r]}
          /\ r \in DOMAIN f => Overlay(f, gone.puts)[r] = f[r]
          /\ r \notin DOMAIN f => Overlay(f, gone.puts)[r] = gone.puts[r]
      <4> DEFINE g == gone.puts
      <4> HIDE DEF g
      <4>1. DOMAIN Overlay(f, g) = DOMAIN f \cup DOMAIN g BY OverlayIs
      <4>2. r \in DOMAIN Overlay(f, g) BY <3>6 DEF g
      <4>3. Overlay(f, g)[r] = IF r \in DOMAIN f THEN f[r] ELSE g[r] BY <4>1, <4>2 DEF Overlay
      <4> QED BY <4>1, <4>3 DEF g
    <3>8. r \in DOMAIN f \cup DOMAIN gone.puts BY <3>6, <3>7
    <3> QED BY <3>4, <3>5, <3>6, <3>7, <3>8
  <2> QED BY <2>1
<1>9. CASE Does(j.op, j.pc, "Erase", 8)
  <2>0. j.op.does = "Erase" /\ j.pc = 8 BY <1>9 DEF Does
  <2>1. Statements(j.op, v, j.seen) = Erase(v, j.seen) BY <2>0, EraseIs
  <2>2. st = Also(FreedIn(v), Writes(ScrubbedIn(v))) BY <2>0, <2>1, EraseEnds DEF Sends
  <2>3. DOMAIN st.puts = DOMAIN FreedIn(v) \cup DOMAIN ScrubbedIn(v)
    <3> DEFINE f == FreedIn(v)
               g == ScrubbedIn(v)
    <3> HIDE DEF f, g
    <3>1. IsStatement(Writes(g)) BY DEF IsStatement, Writes, Locks, Reads
    <3>2. Writes(g).puts = g BY PutsOf
    <3>3. DOMAIN Also(f, Writes(g)).puts = DOMAIN f \cup DOMAIN g BY <3>1, <3>2, PutsOf
    <3> QED BY <2>2, <3>3 DEF f, g
  <2>4. r \in DOMAIN ScrubbedIn(v) BY <2>3, KeyIs DEF FreedIn
  <2>5. PICK k \in HolderOf(v, Address) : r = Invited(k) BY <2>4 DEF ScrubbedIn
  <2>6. v[Invited(k)] # None BY HoldersExist DEF Addresses
  <2> QED BY <2>5, <2>6
<1> QED BY <1>2, <1>4, <1>5, <1>6, <1>7, <1>8, <1>9 DEF Readdresses, Does
-------------------------------------------------------------------------------
(* A statement that is done.                                               *)
LEMMA DoneRetained ==
  ASSUME NEW j, NEW rw, Doing(j, rw), Retained(j), Scoped(rw), Lifting(j, rw)
  PROVE  Retained(Done(j, rw))
<1> DEFINE n == Done(j, rw)
           v == Sees(j, rw)
           st == Sends(j, rw)
<1> HIDE DEF n, v, st
<1>0. /\ n.op = j.op /\ n.pc = j.pc + 1 /\ DOMAIN n.wants = {} /\ j.pc \in 1 .. Lengths[j.op.does]
      /\ j.pc \in Nat
  BY DoneFields, DoingFits DEF n, FitSt, Typed, Doing, Good, Lengths
<1>1. SUFFICES ASSUME NEW r, NEW m, Holds(n, r, m)
               PROVE  /\ Since(n, r)
                      /\ r # Student => m \in NoKeyUpdate .. Update
                      /\ r = Student /\ m = KeyShare => n.op.does = "Promote"
                      /\ r = Student /\ m = Update => n.op.does = "Erase" /\ n.pc > 10
                      /\ r[1] = "queue" => Holds(n, Course(r[2]), Update)
                      /\ r[1] = "invitation" => r[2] \in scope.invitations
  BY DEF Retained, n
<1>2. CASE Holds(j, r, m)
  <2>1. Since(n, r)
    <3>1. PICK p \in 1 .. j.pc : AsksFor(j.op, p, r) BY <1>2 DEF Retained, Since
    <3> QED BY <1>0, <3>1 DEF Since
  <2>2. r[1] = "queue" => Holds(n, Course(r[2]), Update) BY <1>2, DoneHolds DEF n, Retained
  <2> QED BY <1>0, <1>2, <2>1, <2>2 DEF Retained
<1>3. CASE Gained(j, rw, r, m)
  <2>1. /\ r \in DOMAIN st.takes /\ (st.takes[r] = Insert <=> v[r] = None)
        /\ m = IF st.takes[r] = Insert THEN Update ELSE st.takes[r]
    BY <1>3 DEF Gained, st, v
  <2>2. /\ r \in Rows /\ AsksFor(j.op, j.pc, r) /\ st.takes[r] \in KeyShare .. Insert
        /\ st.takes[r] = Insert => r # Student /\ r[1] # "invitation"
        /\ r # Student => st.takes[r] \in NoKeyUpdate .. Insert
    BY <2>1, AskFits DEF st
  <2>3. Since(n, r)
    <3>1. j.pc \in 1 .. n.pc /\ j.pc # n.pc BY <1>0
    <3> QED BY <1>0, <2>2, <3>1 DEF Since
  <2>4. r # Student => m \in NoKeyUpdate .. Update BY <2>1, <2>2
  <2>5. ASSUME r = Student
        PROVE  /\ m = KeyShare => n.op.does = "Promote"
               /\ m = Update => n.op.does = "Erase" /\ n.pc > 10
    <3>1. m = st.takes[Student] BY <2>1, <2>2, <2>5
    <3>2. /\ m = KeyShare <=> j.op.does = "Promote"
          /\ m = Update => Does(j.op, j.pc, "Erase", 10)
      BY <2>1, <2>5, <3>1, AskStudent DEF st
    <3> QED BY <1>0, <3>2 DEF Does
  <2>6. r[1] = "queue" => Holds(n, Course(r[2]), Update)
    BY <2>1, AskQueue, DoneHolds DEF n, st
  <2>7. ASSUME r[1] = "invitation" PROVE r[2] \in scope.invitations
    <3>1. PICK i \in Invitation : r = Invited(i) BY <2>2, <2>7, RowsByTable
    <3>2. v[Invited(i)] # None BY <2>1, <2>2, <2>7, <3>1
    <3> QED BY <3>1, <3>2, SeesScoped, RowTags DEF v
  <2> QED BY <2>3, <2>4, <2>5, <2>6, <2>7
<1> QED BY <1>1, <1>2, <1>3, DoneGains DEF n

LEMMA DoneLifting ==
  ASSUME NEW j, NEW rw, Doing(j, rw), Scoped(rw), Lifting(j, rw)
  PROVE  Lifting(Done(j, rw), rw)
<1> DEFINE n == Done(j, rw)
           v == Sees(j, rw)
           st == Sends(j, rw)
<1> HIDE DEF n, v, st
<1>0. n.op = j.op /\ n.pc = j.pc + 1 /\ j.pc \in 1 .. Lengths[j.op.does] /\ j.pc \in Nat
  BY DoneFields, DoingFits DEF n, FitSt, Typed, Doing, Good, Lengths
<1>1. \A r : r \in Drafts(n) =>
        \/ r \in DOMAIN st.puts /\ n.wrote[r] = st.puts[r] /\ (Personal(r) => Owns(n, r))
        \/ r \in Drafts(j) /\ n.wrote[r] = j.wrote[r]
  BY DoneDrafts DEF n, st
<1>2. ASSUME Block \in Drafts(n), n.pc <= Lengths[n.op.does] PROVE rw[Block] # None
  <2>1. Block \in Drafts(j) => rw[Block] # None BY <1>0, DoingFits DEF Lifting, FitSt, Doing
  <2>2. CASE Block \in DOMAIN st.puts /\ Owns(n, Block)
    <3>1. Block \in DOMAIN st.takes
      BY <2>2, DoingFits, RowTags DEF st, FitSt, Fit, Puts, Lockable
    <3>2. /\ AsksFor(j.op, j.pc, Block)
          /\ (st.takes[Block] = Insert => Only(j.op, j.pc, j.seen, Block))
      BY <3>1, AskFits DEF st
    <3>3. On(j.op, j.pc, BlockAt) BY <3>2, RowTags DEF AsksFor
    <3>4. j.op.does \in {"Book", "Join"} BY <1>0, <1>2, <3>3 DEF On, BlockAt, Lengths
    <3>5. st.takes[Block] # Insert
      BY <3>2, <3>4, RowTags DEF Only, Does
    <3>6. PICK m \in NoKeyUpdate .. Update : Holds(n, Block, m) BY <2>2 DEF Owns, Holds
    <3>7. CASE Holds(j, Block, m)
      <4>1. rw[Block] # None \/ Block \in Drafts(j)
        BY <3>7, RowTags DEF Doing, Good, Locking, LockFits, Personal
      <4> QED BY <2>1, <4>1
    <3>8. CASE Gained(j, rw, Block, m)
      <4>1. v[Block] # None BY <3>5, <3>8 DEF Gained, st, v
      <4>2. Block \in Rows BY RowsAre
      <4> QED BY <2>1, <4>1, <4>2, Committed DEF v
    <3> QED BY <3>6, <3>7, <3>8, DoneGains DEF n
  <2> QED BY <1>1, <1>2, <2>1, <2>2, RowTags DEF Personal
<1>3. ASSUME NEW i \in Invitation, Invited(i) \in Drafts(n), n.wrote[Invited(i)] # None
      PROVE  i \in scope.invitations
  <2>1. CASE Invited(i) \in DOMAIN st.puts /\ st.puts[Invited(i)] # None
    BY <2>1, AddsInScope, SeesScoped DEF st
  <2>2. CASE Invited(i) \in Drafts(j) /\ j.wrote[Invited(i)] # None BY <2>2 DEF Lifting
  <2> QED BY <1>1, <1>3, <2>1, <2>2
<1>4. ASSUME NEW e, Key(e) \in Drafts(n) PROVE n.op.does \in DOMAIN KeyAt
  <2>1. CASE Key(e) \in DOMAIN st.puts
    <3>1. MayPut(j.op, j.pc, v, Key(e), st.puts[Key(e)])
      BY <2>1, DoingFits DEF FitSt, Fit, Puts, st, v
    <3>2. Readdresses(j.op, j.pc) BY <3>1, RowTags DEF MayPut
    <3> QED BY <1>0, <3>2 DEF Readdresses, KeyAt
  <2>2. CASE Key(e) \in Drafts(j) BY <1>0, <2>2 DEF Lifting
  <2> QED BY <1>1, <1>4, <2>1, <2>2
<1> QED BY <1>2, <1>3, <1>4 DEF Lifting, n

LEMMA DoneOrderly ==
  ASSUME NEW j, NEW rw, Doing(j, rw), Scoped(rw), Orderly(j, rw)
  PROVE  Orderly(Done(j, rw), rw)
<1>1. DOMAIN Done(j, rw).wants = {} BY DoneFields
<1>2. Retained(Done(j, rw)) /\ Lifting(Done(j, rw), rw)
  BY DoneRetained, DoneLifting DEF Orderly
<1> QED BY <1>1, <1>2 DEF Orderly, Awaiting, Ascending
-------------------------------------------------------------------------------
(* A request that queues.                                                  *)
LEMMA QueueRetained ==
  ASSUME NEW j, NEW rw, Doing(j, rw), Awaiting(j), Retained(j), Scoped(rw), Lifting(j, rw),
         NEW k, Queues(j, rw, k)
  PROVE  Retained(k)
<1> DEFINE v == Sees(j, rw)
           st == Sends(j, rw)
<1> HIDE DEF v, st
<1>0. k.op = j.op /\ k.pc = j.pc /\ k.seen = j.seen /\ j.pc \in Nat /\ j.pc \in 1 .. j.pc
  BY DoingFits DEF Queues, FitSt, Lengths, Typed, Doing, Good
<1>1. SUFFICES ASSUME NEW r, NEW m, Holds(k, r, m)
               PROVE  /\ Since(k, r)
                      /\ r # Student => m \in NoKeyUpdate .. Update
                      /\ r = Student /\ m = KeyShare => k.op.does = "Promote"
                      /\ r = Student /\ m = Update => k.op.does = "Erase" /\ k.pc > 10
                      /\ r[1] = "queue" => Holds(k, Course(r[2]), Update)
                      /\ r[1] = "invitation" => r[2] \in scope.invitations
  BY DEF Retained
<1>2. CASE Holds(j, r, m)
  <2>1. Since(k, r)
    <3>1. PICK p \in 1 .. j.pc :
            /\ AsksFor(j.op, p, r)
            /\ p = j.pc => /\ DOMAIN j.wants # {} /\ r \notin DOMAIN j.wants
                           /\ \A q : ~Only(j.op, j.pc, j.seen, q)
      BY <1>2 DEF Retained, Since
    <3>2. DOMAIN j.wants # {} => DOMAIN k.wants # {} /\ DOMAIN k.wants \subseteq DOMAIN j.wants
      BY DEF Queues
    <3> QED BY <1>0, <3>1, <3>2 DEF Since
  <2>2. r[1] = "queue" => Holds(k, Course(r[2]), Update) BY <1>2, QueueHolds DEF Retained
  <2> QED BY <1>0, <1>2, <2>1, <2>2 DEF Retained
<1>3. CASE ~Holds(j, r, m)
  <2>1. Gained(j, rw, r, m) /\ st.takes[r] # Insert BY <1>1, <1>3, QueueHolds DEF st
  <2>2. r \in DOMAIN st.takes /\ v[r] # None /\ m = st.takes[r] BY <2>1 DEF Gained, st, v
  <2>3. r \in DOMAIN j.wants /\ DOMAIN k.wants = DOMAIN j.wants \ {r} /\ DOMAIN k.wants # {}
    <3>1. k.locks # j.locks BY <1>1, <1>3 DEF Holds
    <3>2. PICK q \in DOMAIN j.wants : /\ k.locks = j.locks \cup Gain(v, st, q)
                                      /\ DOMAIN k.wants = DOMAIN j.wants \ {q}
                                      /\ DOMAIN k.wants # {}
      BY <3>1 DEF Queues, v, st
    <3>3. <<r, m>> \in Gain(v, st, q) BY <1>1, <1>3, <3>2 DEF Holds
    <3>4. r = q BY <3>3, GainIs
    <3> QED BY <3>2, <3>4
  <2>4. \A q : ~Only(j.op, j.pc, j.seen, q)
    BY <2>3 DEF Doing, Good, Queueing
  <2>5. /\ r \in Rows /\ AsksFor(j.op, j.pc, r)
        /\ r # Student => m \in NoKeyUpdate .. Update
    BY <2>1, <2>2, AskFits DEF st
  <2>6. Since(k, r) BY <1>0, <2>3, <2>4, <2>5 DEF Since
  <2>7. ASSUME r = Student
        PROVE  (m = KeyShare => k.op.does = "Promote") /\ m # Update
    <3>1. /\ m = KeyShare <=> j.op.does = "Promote"
          /\ m = Update => Does(j.op, j.pc, "Erase", 10)
      BY <2>2, <2>7, AskStudent DEF st
    <3>2. ASSUME Does(j.op, j.pc, "Erase", 10) PROVE FALSE
      <4>1. PICK q \in DOMAIN k.wants : q # Student BY <2>3, <2>7
      <4>2. q \in Rows /\ AsksFor(j.op, j.pc, q) BY <2>3, <4>1 DEF Awaiting
      <4>3. q[1] = "student"
        BY <3>2, <4>2, RowsByTable DEF AsksFor, On, Does, ClassAt, BookingAt, QueueAt, PrivacyAt,
             LinkAt, PaymentAt, BlockAt, EntryAt, InvitationAt
      <4> QED BY <4>1, <4>2, <4>3, RowsByTable
    <3> QED BY <1>0, <3>1, <3>2
  <2>8. r[1] = "queue" => Holds(k, Course(r[2]), Update)
    BY <2>2, AskQueue, QueueHolds DEF st
  <2>9. ASSUME r[1] = "invitation" PROVE r[2] \in scope.invitations
    <3>1. PICK i \in Invitation : r = Invited(i) BY <2>5, <2>9, RowsByTable
    <3> QED BY <2>2, <3>1, SeesScoped, RowTags DEF v
  <2> QED BY <2>5, <2>6, <2>7, <2>8, <2>9
<1> QED BY <1>2, <1>3

(* Nobody waits to insert a block: whoever has drafted its row lifts one   *)
(* that is there.                                                          *)
LEMMA BlockWaits ==
  ASSUME Inv, Orderliness, NEW w \in Worker, Busy(w), DOMAIN job[w].wants = {},
         Block \in WantedRows(Sees(job[w], row), Sends(job[w], row)),
         \A q : WantedRows(Sees(job[w], row), Sends(job[w], row)) = {q}
            => ~Free(w, q, Sends(job[w], row).takes[q])
  PROVE  job[w].op.does \in {"Book", "Join"}
<1> DEFINE j == job[w]
           v == Sees(j, row)
           st == Sends(j, row)
<1>0. Doing(j, row) /\ Orderly(j, row) BY BusyDoes DEF Orderliness
<1> HIDE DEF v, st, j
<1>1. Block \in DOMAIN st.takes /\ (st.takes[Block] = Insert \/ v[Block] # None)
  BY DEF WantedRows, v, st, j
<1>2. SUFFICES ASSUME j.op.does \notin {"Book", "Join"} PROVE FALSE BY DEF j
<1>3. v[Block] = None BY <1>0, <1>1, <1>2, AskBlock DEF v, st
<1>4. st.takes[Block] = Insert BY <1>1, <1>3
<1>5. AsksFor(j.op, j.pc, Block) /\ Only(j.op, j.pc, j.seen, Block)
  BY <1>0, <1>1, <1>4, AskFits DEF st
<1>6. WantedRows(v, st) = {Block}
  <2>1. DOMAIN st.takes \subseteq {Block} BY <1>0, <1>5, DoingFits DEF FitSt, Shape, st
  <2> QED BY <1>1, <2>1 DEF WantedRows
<1>7. ~Free(w, Block, Insert) BY <1>4, <1>6 DEF v, st, j
<1>8. PICK x \in Worker : x # w /\ Block \in Drafts(job[x])
  BY <1>7 DEF Free, StandsInTheWay, Drafts
<1>9. row[Block] # None
  <2>1. Calm(job[x], row) /\ Lifting(job[x], row) BY DEF Inv, Orderliness, Orderly
  <2>2. job[x].op # None BY <1>8, <2>1 DEF Calm, Idle, Drafts, Nothing
  <2> QED BY <1>8, <2>1, <2>2 DEF Calm, Lifting
<1>10. Block \in Drafts(j) BY <1>0, <1>3, <1>9, Committed, RowsAre DEF v
<1>11. PICK m : Holds(j, Block, m)
  BY <1>0, <1>10, RowTags DEF Doing, Good, Locking, Owns, Holds, Personal
<1>12. PICK p \in 1 .. j.pc : AsksFor(j.op, p, Block) /\ p # j.pc
  BY <1>0, <1>11 DEF Orderly, Retained, Since, j
<1>13. On(j.op, p, BlockAt) /\ On(j.op, j.pc, BlockAt) BY <1>5, <1>12, RowTags DEF AsksFor
<1> QED BY <1>2, <1>12, <1>13 DEF On, BlockAt

LEMMA QueueAwaiting ==
  ASSUME Inv, Orderliness, NEW w \in Worker, Busy(w), NEW k, Queues(job[w], row, k), Waits(w, k)
  PROVE  Awaiting(k)
<1> DEFINE j == job[w]
           v == Sees(j, row)
           st == Sends(j, row)
<1>0. Doing(j, row) /\ Orderly(j, row) /\ Scoped(row) BY BusyDoes DEF Orderliness
<1>1. k.op = j.op /\ k.pc = j.pc /\ k.seen = j.seen BY DEF Queues
<1>2. \A r, m : Holds(j, r, m) => Holds(k, r, m) BY <1>0, QueueHolds
<1>3. ASSUME NEW r \in DOMAIN k.wants
      PROVE  \/ /\ r \in DOMAIN j.wants /\ k.wants[r] = j.wants[r]
             \/ /\ r \in DOMAIN st.takes /\ k.wants[r] = st.takes[r]
                /\ \/ r \in DOMAIN j.wants
                   \/ /\ DOMAIN j.wants = {} /\ r \in WantedRows(v, st)
                      /\ \A q : WantedRows(v, st) = {q} => ~Free(w, q, st.takes[q])
  BY <1>3 DEF Waits, WantedRows
<1> HIDE DEF j, v, st
<1>4. SUFFICES ASSUME NEW r \in DOMAIN k.wants
               PROVE  LET m == k.wants[r]
                      IN  /\ r \in Rows /\ AsksFor(k.op, k.pc, r) /\ m \in KeyShare .. Insert
                          /\ m = Insert =>
                               Only(k.op, k.pc, k.seen, r) /\ r # Student /\ r[1] # "invitation"
                          /\ r[1] = "key" => m = Insert
                          /\ r = Student /\ k.op.does = "Promote" => m = KeyShare
                          /\ r = Block => k.op.does \in {"Book", "Join"}
                          /\ r = Link /\ Does(k.op, k.pc, "Reopen", 5) => k.seen.filed
                          /\ r[1] = "queue" => Holds(k, Course(r[2]), Update)
                          /\ r[1] = "invitation" => r[2] \in scope.invitations
  BY DEF Awaiting
<1>5. CASE r \in DOMAIN j.wants /\ k.wants[r] = j.wants[r]
  BY <1>0, <1>1, <1>2, <1>5 DEF Orderly, Awaiting
<1>6. CASE r \in DOMAIN st.takes /\ k.wants[r] = st.takes[r]
  <2>1. LET m == k.wants[r]
        IN  /\ r \in Rows /\ AsksFor(k.op, k.pc, r) /\ m \in KeyShare .. Insert
            /\ m = Insert => Only(k.op, k.pc, k.seen, r) /\ r # Student /\ r[1] # "invitation"
            /\ r[1] = "key" => m = Insert
    BY <1>0, <1>1, <1>6, AskFits DEF st
  <2>2. r = Student /\ k.op.does = "Promote" => k.wants[r] = KeyShare
    BY <1>0, <1>1, <1>6, AskStudent DEF st
  <2>3. r = Link /\ Does(k.op, k.pc, "Reopen", 5) => k.seen.filed
    BY <1>0, <1>1, <1>6, AskLink DEF st
  <2>4. r[1] = "queue" => Holds(k, Course(r[2]), Update)
    BY <1>0, <1>2, <1>6, AskQueue DEF st
  <2>5. (r = Block => k.op.does \in {"Book", "Join"})
          /\ (r[1] = "invitation" => r[2] \in scope.invitations)
    <3>1. CASE r \in DOMAIN j.wants BY <1>0, <1>1, <3>1 DEF Orderly, Awaiting
    <3>2. CASE /\ DOMAIN j.wants = {} /\ r \in WantedRows(v, st)
               /\ \A q : WantedRows(v, st) = {q} => ~Free(w, q, st.takes[q])
      <4>1. r = Block => k.op.does \in {"Book", "Join"}
        BY <1>1, <3>2, BlockWaits DEF j, v, st
      <4>2. ASSUME r[1] = "invitation" PROVE r[2] \in scope.invitations
        <5>1. PICK i \in Invitation : r = Invited(i) BY <2>1, <4>2, RowsByTable
        <5>2. v[r] # None BY <1>6, <2>1, <3>2, <4>2 DEF WantedRows
        <5> QED BY <1>0, <5>1, <5>2, SeesScoped, RowTags DEF v, Orderly
      <4> QED BY <4>1, <4>2
    <3> QED BY <1>3, <1>4, <3>1, <3>2
  <2> QED BY <2>1, <2>2, <2>3, <2>4, <2>5
<1> QED BY <1>3, <1>4, <1>5, <1>6

LEMMA QueueAscending ==
  ASSUME NEW w \in Worker, Doing(job[w], row), Orderly(job[w], row), NEW k,
         Queues(job[w], row, k), Waits(w, k)
  PROVE  Ascending(k)
<1> DEFINE j == job[w]
           v == Sees(j, row)
           st == Sends(j, row)
           turn == {r \in DOMAIN j.wants : j.inOrder => \A q \in DOMAIN j.wants : r[2] <= q[2]}
<1>1. k.op = j.op /\ k.pc = j.pc BY DEF Queues
<1>2. SUFFICES ASSUME j.op.does \in DOMAIN SortedAt, j.pc = SortedAt[j.op.does],
                      DOMAIN k.wants # {}
               PROVE  /\ k.inOrder
                      /\ \A c, d \in Class : \A m :
                           Course(d) \in DOMAIN k.wants /\ Holds(k, Course(c), m) => c < d
  BY <1>1 DEF Ascending
<1>3. CASE DOMAIN j.wants = {} /\ k.locks = j.locks /\ k.inOrder = st.inOrder
  <2>1. k.inOrder BY <1>2, <1>3, AskSorted
  <2>2. ASSUME NEW c \in Class, NEW m, Holds(k, Course(c), m) PROVE FALSE
    <3>1. Since(j, Course(c)) BY <1>3, <2>2 DEF Holds, Orderly, Retained
    <3>2. PICK p \in 1 .. j.pc : AsksFor(j.op, p, Course(c)) /\ p # j.pc
      BY <1>3, <3>1 DEF Since
    <3>3. On(j.op, p, ClassAt) BY <3>2, RowTags DEF AsksFor
    <3> QED BY <1>2, <3>2, <3>3 DEF On, ClassAt, SortedAt
  <2> QED BY <2>1, <2>2
<1>4. ASSUME k.inOrder = j.inOrder, NEW r \in turn,
             \/ k.locks = j.locks /\ DOMAIN k.wants = DOMAIN j.wants
             \/ k.locks = j.locks \cup Gain(v, st, r) /\ DOMAIN k.wants = DOMAIN j.wants \ {r}
      PROVE  /\ k.inOrder
             /\ \A c, d \in Class : \A m :
                  Course(d) \in DOMAIN k.wants /\ Holds(k, Course(c), m) => c < d
  <2>1. /\ j.inOrder
        /\ \A c, d \in Class : \A m :
             Course(d) \in DOMAIN j.wants /\ Holds(j, Course(c), m) => c < d
    BY <1>2, <1>4 DEF Orderly, Ascending
  <2> SUFFICES ASSUME NEW c \in Class, NEW d \in Class, NEW m, Course(d) \in DOMAIN k.wants,
                      Holds(k, Course(c), m)
               PROVE  c < d
    BY <1>4, <2>1
  <2>2. CASE Holds(j, Course(c), m) BY <1>4, <2>1, <2>2
  <2>3. CASE ~Holds(j, Course(c), m)
    <3>1. <<Course(c), m>> \in Gain(v, st, r) /\ DOMAIN k.wants = DOMAIN j.wants \ {r}
      BY <1>4, <2>3 DEF Holds
    <3>2. r = Course(c) BY <3>1, GainIs
    <3>3. Course(d) \in DOMAIN j.wants /\ Course(d) # Course(c) BY <3>1, <3>2
    <3>4. c <= d /\ c # d BY <1>4, <2>1, <3>2, <3>3, RowTags
    <3> QED BY <3>4, RosterAssumption
  <2> QED BY <2>2, <2>3
<1> QED BY <1>3, <1>4, <1>2 DEF Waits

LEMMA QueueOrderly ==
  ASSUME Inv, Orderliness, NEW w \in Worker, Busy(w), NEW k, Queues(job[w], row, k), Waits(w, k)
  PROVE  Orderly(k, row)
<1>1. Doing(job[w], row) /\ Orderly(job[w], row) /\ Scoped(row) BY BusyDoes DEF Orderliness
<1>2. Awaiting(k) BY QueueAwaiting
<1>3. Retained(k) BY <1>1, QueueRetained DEF Orderly
<1>4. Ascending(k) BY <1>1, QueueAscending
<1>5. Lifting(k, row) BY <1>1 DEF Orderly, Lifting, Queues, Drafts
<1> QED BY <1>2, <1>3, <1>4, <1>5 DEF Orderly
-------------------------------------------------------------------------------
(* The commit of another request.                                          *)
LEMMA CommitScoped ==
  ASSUME NEW n, NEW rw, Committing(n, rw), Lifting(n, rw), Scoped(rw)
  PROVE  Scoped(Sees(n, rw))
<1> SUFFICES ASSUME NEW i \in Invitation, Sees(n, rw)[Invited(i)] # None
             PROVE  i \in scope.invitations
  BY DEF Scoped
<1>1. CASE Invited(i) \in Drafts(n)
  <2>1. n.wrote[Invited(i)] # None BY <1>1, SeesDraft
  <2> QED BY <1>1, <2>1 DEF Lifting
<1>2. CASE Invited(i) \notin Drafts(n)
  <2>1. rw[Invited(i)] # None BY <1>2, CommitRows, RowsAre
  <2> QED BY <2>1 DEF Scoped
<1> QED BY <1>1, <1>2

LEMMA CommitOrderly ==
  ASSUME NEW n, NEW x, NEW rw, Meets(n, x, rw), Orderly(x, rw)
  PROVE  Orderly(x, Sees(n, rw))
<1>1. Block \in Drafts(x) => Sees(n, rw)[Block] = rw[Block]
  <2>1. ASSUME Block \in Drafts(x) PROVE \E m : Holds(x, Block, m)
    BY <2>1, RowTags DEF Meets, Good, Locking, Owns, Holds, Personal
  <2>2. Block # Student /\ Personal(Block) BY RowTags DEF Personal
  <2> QED BY <2>1, <2>2, MeetsRows
<1> QED BY <1>1 DEF Orderly, Lifting

LEMMA OrderStays ==
  ASSUME UNCHANGED scope, NEW j, NEW rw
  PROVE  /\ Orderly(j, rw) => Orderly(j, rw)'
         /\ Scoped(rw) => Scoped(rw)'
  BY DEF Orderly, Awaiting, Retained, Ascending, Lifting, Scoped

LEMMA OrderNext ==
  ASSUME UNCHANGED scope, Scoped(row'), \A w \in Worker : Orderly(job'[w], row')
  PROVE  Orderliness'
  BY OrderStays DEF Orderliness

LEMMA OrderSettled ==
  ASSUME Inv, UNCHANGED scope, Orderliness, NEW w \in Worker, NEW jb, NEW rw, Settles(w, rw, jb),
         Scoped(rw), Orderly(jb, rw), \A x \in Worker : x # w => Orderly(job[x], rw)
  PROVE  Orderliness'
<1>1. /\ row' = rw /\ job'[w] = jb
      /\ \A x \in Worker : x # w => job'[x] = job[x]
  BY DEF Settles, Inv
<1>2. \A x \in Worker : Orderly(job'[x], row') BY <1>1
<1> QED BY <1>1, <1>2, OrderNext

LEMMA BareOrder ==
  ASSUME Inv, UNCHANGED scope, Orderliness, NEW w \in Worker, NEW jb, Settles(w, row, jb),
         jb.locks = {}, jb.wrote = Nothing, DOMAIN jb.wants = {}
  PROVE  Orderliness'
<1>1. Orderly(jb, row) BY BareOrderly
<1> QED BY <1>1, OrderSettled DEF Orderliness

(* What the commit of w leaves to the others.                              *)
LEMMA CommitOrder ==
  ASSUME Inv, Orderliness, NEW w \in Worker, NEW n, Committing(n, row), Lifting(n, row),
         \A x \in Worker : x # w => Apart(n, job[x])
  PROVE  /\ Scoped(Overlay(n.wrote, row))
         /\ \A x \in Worker : x # w => Orderly(job[x], Overlay(n.wrote, row))
<1>1. Overlay(n.wrote, row) = Sees(n, row) BY DEF Sees
<1>2. Scoped(Sees(n, row)) BY CommitScoped DEF Orderliness
<1>3. ASSUME NEW x \in Worker, x # w PROVE Orderly(job[x], Sees(n, row))
  <2>1. Calm(job[x], row) /\ Orderly(job[x], row) BY DEF Inv, Orderliness
  <2>2. CASE job[x].op = None
    <3>1. job[x].wrote = Nothing /\ job[x].locks = {} /\ DOMAIN job[x].wants = {}
      BY <2>1, <2>2 DEF Calm, Idle, Nothing
    <3> QED BY <3>1, BareOrderly
  <2>3. CASE job[x].op # None
    <3>1. Meets(n, job[x], row) BY <2>1, <2>3, <1>3 DEF Calm, Meets
    <3> QED BY <3>1, <2>1, CommitOrderly
  <2> QED BY <2>2, <2>3
<1> QED BY <1>1, <1>2, <1>3

LEMMA StepsOrder ==
  ASSUME Inv, UNCHANGED scope, Orderliness, NEW w \in Worker, Busy(w), Steps(w)
  PROVE  Orderliness'
<1> DEFINE j == job[w]
           st == Sends(job[w], row)
           n == Done(job[w], row)
<1>0. AtRest.wrote = Nothing /\ AtRest.locks = {} /\ DOMAIN AtRest.wants = {}
  BY DEF AtRest, Nothing
<1>1. CASE Settles(w, row, AtRest) BY <1>0, <1>1, BareOrder
<1>2. CASE \E k : Settles(w, row, k) /\ Queues(j, row, k) /\ Clear(w, st, k.locks) /\ Waits(w, k)
  <2>1. PICK k : Settles(w, row, k) /\ Queues(j, row, k) /\ Waits(w, k) BY <1>2
  <2>2. Scoped(row) /\ \A x \in Worker : Orderly(job[x], row) BY DEF Orderliness
  <2>3. Orderly(k, row) BY <2>1, QueueOrderly
  <2> QED BY <2>1, <2>2, <2>3, OrderSettled
<1>3. ASSUME ~st.stop, Clear(w, st, n.locks),
             \/ Settles(w, row, n) /\ j.pc # Lengths[j.op.does]
             \/ Settles(w, Overlay(n.wrote, row), AtRest) /\ j.pc = Lengths[j.op.does]
             \/ Settles(w, Overlay(n.wrote, row), Rests(n)) /\ Does(j.op, j.pc, "Invite", 4)
      PROVE  Orderliness'
  <2>1. /\ Good(n, row) /\ n.op = j.op /\ n.pc = j.pc + 1 /\ DOMAIN n.wants = {}
        /\ \A x \in Worker : x # w => Apart(n, job[x])
    BY <1>3, DoneApart
  <2>2. /\ Scoped(row) /\ \A x \in Worker : Orderly(job[x], row)
        /\ Sound(row) /\ scope \in Scopes
    BY DEF Orderliness, Inv
  <2>3. Orderly(n, row) BY <2>2, BusyDoes, DoneOrderly
  <2> HIDE DEF n, j, st
  <2>4. CASE Settles(w, row, n) BY <2>2, <2>3, <2>4, OrderSettled
  <2>5. ASSUME j.pc = Lengths[j.op.does] \/ Does(j.op, j.pc, "Invite", 4)
        PROVE  /\ Scoped(Overlay(n.wrote, row))
               /\ \A x \in Worker : x # w => Orderly(job[x], Overlay(n.wrote, row))
    <3>1. Committing(n, row) BY <2>1, <2>2, <2>5 DEF Committing, Does
    <3> QED BY <2>1, <2>3, <3>1, CommitOrder DEF Orderly
  <2>6. CASE Settles(w, Overlay(n.wrote, row), AtRest) /\ j.pc = Lengths[j.op.does]
    <3>1. Orderly(AtRest, Overlay(n.wrote, row)) BY <1>0, BareOrderly
    <3> QED BY <2>5, <2>6, <3>1, OrderSettled
  <2>7. CASE Settles(w, Overlay(n.wrote, row), Rests(n)) /\ Does(j.op, j.pc, "Invite", 4)
    <3>1. Rests(n).wrote = Nothing /\ Rests(n).locks = {} /\ DOMAIN Rests(n).wants = {}
      BY <2>1 DEF Rests, Good, Typed, JobFields
    <3>2. Orderly(Rests(n), Overlay(n.wrote, row)) BY <3>1, BareOrderly
    <3> QED BY <2>5, <2>7, <3>2, OrderSettled
  <2> QED BY <1>3, <2>4, <2>6, <2>7
<1> QED BY <1>1, <1>2, <1>3 DEF Steps

LEMMA OrderInit == InitRoster => Orderliness
<1> SUFFICES ASSUME InitRoster PROVE Orderliness OBVIOUS
<1>1. job = [w \in Worker |-> AtRest] BY DEF InitRoster
<1>2. \A i \in Invitation : row[Invited(i)] = None
  BY RowsAre, RowTags DEF InitRoster, Said, Linked, Student
<1>3. AtRest.wrote = Nothing /\ AtRest.locks = {} /\ DOMAIN AtRest.wants = {}
  BY DEF AtRest, Nothing
<1>4. Orderly(AtRest, row) BY <1>3, BareOrderly
<1> QED BY <1>1, <1>2, <1>4 DEF Orderliness, Scoped

LEMMA OrderStep == Inv /\ Orderliness /\ [Next]_vars => Orderliness'
<1> SUFFICES ASSUME Inv, Orderliness, [Next]_vars PROVE Orderliness' OBVIOUS
<1>1. CASE UNCHANGED vars
  <2>1. row' = row /\ job' = job /\ UNCHANGED scope BY <1>1 DEF vars, pgVars
  <2>2. Scoped(row') /\ \A w \in Worker : Orderly(job'[w], row') BY <2>1 DEF Orderliness
  <2> QED BY <2>1, <2>2, OrderNext
<1>2. ASSUME Next PROVE Orderliness'
  <2>0. UNCHANGED scope BY <1>2 DEF Next
  <2>1. PICK w \in Worker : Begin(w) \/ Fails(w) \/ (Busy(w) /\ Steps(w)) BY <1>2, NextSteps
  <2>2. CASE Begin(w)
    <3>1. PICK o \in Requests : job' = [job EXCEPT ![w].op = o, ![w].seen = Unread]
      BY <2>2 DEF Begin
    <3> DEFINE k == Begun(job[w], o)
    <3>2. Settles(w, row, k) BY <2>2, <3>1 DEF Settles, Begin, Begun
    <3>3. Idle(job[w]) BY <2>2 DEF Inv, Calm, Begin, Busy
    <3>4. k.wrote = Nothing /\ k.locks = {} /\ DOMAIN k.wants = {}
      BY <3>3 DEF Idle, JobFields, Begun, Nothing
    <3> HIDE DEF k
    <3> QED BY <2>0, <3>2, <3>4, BareOrder
  <2>3. CASE Fails(w)
    <3>1. Settles(w, row, AtRest) BY <2>3 DEF Fails, Settles
    <3>2. AtRest.wrote = Nothing /\ AtRest.locks = {} /\ DOMAIN AtRest.wants = {}
      BY DEF AtRest, Nothing
    <3> QED BY <2>0, <3>1, <3>2, BareOrder
  <2>4. CASE Busy(w) /\ Steps(w) BY <2>0, <2>4, StepsOrder
  <2> QED BY <2>1, <2>2, <2>3, <2>4
<1> QED BY <1>1, <1>2
-------------------------------------------------------------------------------
(* A finite set of numbers has a greatest.                                 *)
LEMMA Greatest ==
  ASSUME NEW D \in SUBSET Nat, IsFiniteSet(D), D # {}
  PROVE  \E m \in D : \A d \in D : d <= m
<1> DEFINE n == Cardinality(D)
<1>1. n \in Nat /\ ExistsBijection(1 .. n, D) BY FS_CardinalityType
<1> HIDE DEF n
<1>2. PICK f \in [1 .. n -> D] : \A d \in D : \E k \in 1 .. n : f[k] = d
  BY <1>1 DEF ExistsBijection, Bijection, Surjection
<1> DEFINE Bounds(k) == {b \in Nat : \A i \in 1 .. k : f[i] <= b}
           T == {k \in Nat : k <= n /\ Bounds(k) = {}}
<1>3. ASSUME NEW k \in Nat, k <= n, Bounds(k) = {}, \A l \in T : k <= l
      PROVE  FALSE
  <2>1. k # 0
    <3>1. 0 \in Bounds(0) OBVIOUS
    <3> QED BY <1>3, <3>1
  <2>2. k - 1 \in Nat /\ k - 1 <= n /\ ~(k <= k - 1) BY <1>1, <1>3, <2>1
  <2>3. k - 1 \notin T BY <1>3, <2>2
  <2>4. PICK b \in Nat : \A i \in 1 .. k - 1 : f[i] <= b BY <2>2, <2>3
  <2>a. \A i \in 1 .. k : i \in 1 .. n BY <1>1, <1>3
  <2>b. \A i \in 1 .. n : f[i] \in Nat BY <1>2
  <2>5. \A i \in 1 .. k : i \in 1 .. n /\ f[i] \in Nat BY <2>a, <2>b
  <2>6. k \in 1 .. k BY <1>3, <2>1
  <2>7. f[k] \in Nat BY <2>5, <2>6
  <2> DEFINE c == IF b <= f[k] THEN f[k] ELSE b
  <2>8. c \in Nat /\ b <= c /\ f[k] <= c BY <2>4, <2>7
  <2> HIDE DEF c
  <2>9. ASSUME NEW i \in 1 .. k PROVE f[i] <= c
    <3>1. CASE i = k BY <2>8, <3>1
    <3>2. CASE i # k
      <4>1. i \in 1 .. k - 1 BY <1>3, <3>2
      <4>2. f[i] <= b BY <2>4, <4>1
      <4>3. f[i] \in Nat BY <2>5
      <4> QED BY <2>4, <2>8, <4>2, <4>3
    <3> QED BY <3>1, <3>2
  <2>10. c \in Bounds(k) BY <2>8, <2>9
  <2> QED BY <1>3, <2>10
<1>4. PICK b \in Nat : \A i \in 1 .. n : f[i] <= b
  <2>1. T \subseteq Nat OBVIOUS
  <2>2. T = {}
    <3> SUFFICES ASSUME T # {} PROVE FALSE OBVIOUS
    <3>1. PICK k \in T : \A l \in T : k <= l BY <2>1, Least
    <3>2. k \in Nat /\ k <= n /\ Bounds(k) = {} BY <3>1
    <3> HIDE DEF T, Bounds
    <3> QED BY <1>3, <3>1, <3>2
  <2>3. Bounds(n) # {}
    <3> HIDE DEF Bounds
    <3> QED BY <1>1, <2>2
  <2> QED BY <2>3
<1> DEFINE B == {c \in Nat : \A d \in D : d <= c}
<1>5. b \in B
  <2>1. ASSUME NEW d \in D PROVE d <= b BY <1>2, <1>4
  <2> QED BY <2>1
<1>6. PICK m \in B : \A c \in B : m <= c BY <1>5, Least
<1>7. m \in D
  <2> SUFFICES ASSUME m \notin D PROVE FALSE OBVIOUS
  <2>1. PICK d \in D : TRUE OBVIOUS
  <2>2. d \in Nat /\ d <= m /\ d # m BY <1>6, <2>1
  <2>3. m - 1 \in Nat BY <1>6, <2>2
  <2>4. \A c \in D : c <= m - 1 BY <1>6
  <2> QED BY <1>6, <2>3, <2>4
<1> QED BY <1>6, <1>7

(* The scope has one invitation at most.                                   *)
Single == Cardinality(scope.invitations) <= 1

LEMMA TheInvitation ==
  ASSUME Single, scope \in Scopes, NEW i \in scope.invitations, NEW k \in scope.invitations
  PROVE  i = k
<1>1. IsFiniteSet(scope.invitations) BY FS_Subset, RosterAssumption
<1>2. {i, k} \in SUBSET scope.invitations OBVIOUS
<1>3. Cardinality({i, k}) <= Cardinality(scope.invitations) /\ IsFiniteSet({i, k})
  BY <1>1, <1>2, FS_Subset
<1>4. Cardinality({i, k}) \in Nat /\ Cardinality(scope.invitations) \in Nat
  BY <1>1, <1>3, FS_CardinalityType
<1>5. SUFFICES ASSUME i # k PROVE FALSE OBVIOUS
<1>6. Cardinality({i}) = 1 /\ IsFiniteSet({i}) BY FS_Singleton, Zenon
<1>7. Cardinality({i} \cup {k}) = IF k \in {i} THEN Cardinality({i}) ELSE Cardinality({i}) + 1
  BY <1>6, FS_AddElement, Zenon
<1>8. {i} \cup {k} = {i, k} OBVIOUS
<1>9. Cardinality({i, k}) = 2
  <2>1. Cardinality({i} \cup {k}) = 2 BY <1>5, <1>6, <1>7
  <2> QED BY <1>8, <2>1, Zenon
<1> QED BY <1>3, <1>4, <1>9 DEF Single
-------------------------------------------------------------------------------
(* Who waits for whom.  w waits for row r, which x has.                    *)
Ordered == Inv /\ Tidy /\ Orderliness
Stalls(w, x, r) == x # w /\ r \in Turn(w) /\ StandsInTheWay(x, r, job[w].wants[r])

(* A request that waits or is waited for is in the middle of its           *)
(* statements.                                                             *)
Middle(j) == /\ Good(j, row) /\ Orderly(j, row) /\ Moving(j, row)
             /\ j.op.does \in DOMAIN Lengths /\ j.pc \in 1 .. Lengths[j.op.does]

LEMMA StallsAre ==
  ASSUME Ordered, NEW w \in Worker, NEW x \in Worker, NEW r, Stalls(w, x, r)
  PROVE  LET a == job[w]
             b == job[x]
         IN  /\ Middle(a) /\ Middle(b) /\ Apart(a, b) /\ Exclusive(a, b) /\ Exclusive(b, a)
             /\ r \in DOMAIN a.wants /\ r \in Rows /\ AsksFor(a.op, a.pc, r) /\ r[1] # "ghost"
             /\ r # Student /\ r[1] # "key" => Owns(b, r) /\ ~Owns(a, r)
             /\ r[1] = "key" => r \in Drafts(b)
             /\ r = Student => \E m \in KeyShare .. Update :
                                 /\ Holds(b, Student, m) /\ a.wants[r] \in KeyShare .. Update
                                 /\ m + a.wants[r] >= 5
<1> DEFINE a == job[w]
           b == job[x]
<1>1. r \in DOMAIN a.wants /\ x # w /\ StandsInTheWay(x, r, a.wants[r])
  BY DEF Stalls, Turn
<1>2. /\ Calm(a, row) /\ Calm(b, row) /\ Orderly(a, row) /\ Orderly(b, row)
      /\ Moving(a, row) /\ Moving(b, row)
      /\ Apart(a, b) /\ Exclusive(a, b) /\ Exclusive(b, a)
  BY <1>1 DEF Ordered, Inv, Tidy, Orderliness
<1> HIDE DEF a, b
<1>3. a.wants[r] = Insert => r \in Drafts(b)
  BY <1>1 DEF StandsInTheWay, Drafts, b
<1>4. a.wants[r] # Insert => \E m \in KeyShare .. Update : Holds(b, r, m) /\ m + a.wants[r] >= 5
  BY <1>1 DEF StandsInTheWay, Holds, Conflict, b
<1>5. a.op # None BY <1>1, <1>2 DEF Calm, Idle, Nothing
<1>6. b.op # None BY <1>2, <1>3, <1>4 DEF Calm, Idle, Nothing, Drafts, Holds
<1>7. Middle(a) /\ Middle(b)
  <2>1. ASSUME NEW j, Good(j, row), j.pc <= Lengths[j.op.does]
        PROVE  j.op.does \in DOMAIN Lengths /\ j.pc \in 1 .. Lengths[j.op.does]
    <3>1. /\ j.op.does \in DOMAIN Lengths /\ j.pc \in 1 .. Lengths[j.op.does] + 1
      BY <2>1 DEF Good, Typed, OpTyped
    <3>2. Lengths[j.op.does] \in Nat BY <3>1 DEF Lengths
    <3> QED BY <2>1, <3>1, <3>2
  <2> QED BY <1>2, <1>5, <1>6, <2>1 DEF Calm, Middle
<1>8. /\ r \in Rows /\ AsksFor(a.op, a.pc, r) /\ r[1] # "ghost" /\ a.wants[r] \in KeyShare .. Insert
      /\ a.wants[r] = Insert => r # Student /\ r[1] # "invitation"
      /\ r[1] = "key" => a.wants[r] = Insert
  BY <1>1, <1>2 DEF Orderly, Awaiting, AsksFor
<1>9. ASSUME r # Student, r[1] # "key" PROVE Owns(b, r)
  <2>1. CASE a.wants[r] = Insert
    <3>1. Personal(r) BY <1>8, <1>9, <2>1 DEF Personal
    <3> QED BY <1>3, <1>7, <2>1, <3>1 DEF Middle, Good, Locking
  <2>2. CASE a.wants[r] # Insert
    <3>1. PICK m \in KeyShare .. Update : Holds(b, r, m) BY <1>4, <2>2
    <3>2. m \in NoKeyUpdate .. Update BY <1>2, <1>9, <3>1 DEF Orderly, Retained
    <3> QED BY <3>1, <3>2 DEF Owns, Holds
  <2> QED BY <2>1, <2>2
<1>10. ASSUME r # Student, r[1] # "key" PROVE ~Owns(a, r)
  <2> SUFFICES ASSUME Owns(a, r) PROVE FALSE OBVIOUS
  <2>1. PICK m \in NoKeyUpdate .. Update : Holds(a, r, m) BY DEF Owns, Holds
  <2>2. PICK n \in NoKeyUpdate .. Update : Holds(b, r, n) BY <1>9, <1>10 DEF Owns, Holds
  <2>3. CASE Personal(r) BY <1>2, <2>1, <2>2, <2>3 DEF Apart, Conflict
  <2>4. CASE r[1] = "invitation"
    <3>1. PICK i \in Invitation : r = Invited(i) BY <1>8, <2>4, RowsByTable
    <3>2. m + n < 5 BY <1>2, <2>1, <2>2, <3>1 DEF Exclusive
    <3> QED BY <3>2
  <2> QED BY <1>8, <1>10, <2>3, <2>4 DEF Personal
<1>11. r[1] = "key" => r \in Drafts(b) BY <1>3, <1>8
<1>12. ASSUME r = Student
       PROVE  \E m \in KeyShare .. Update : /\ Holds(b, Student, m)
                                            /\ a.wants[r] \in KeyShare .. Update
                                            /\ m + a.wants[r] >= 5
  <2>1. a.wants[r] \in KeyShare .. Update BY <1>8, <1>12
  <2> QED BY <1>4, <1>12, <2>1
<1> QED BY <1>1, <1>2, <1>7, <1>8, <1>9, <1>10, <1>11, <1>12 DEF a, b

(* A row is waited for by a statement after the one that locked it, or by  *)
(* the same one if that asks for several.                                  *)
LEMMA HeldSince ==
  ASSUME NEW j, Middle(j), NEW r, NEW m, Holds(j, r, m)
  PROVE  \E p \in 1 .. j.pc :
            /\ AsksFor(j.op, p, r)
            /\ p = j.pc => /\ r \notin DOMAIN j.wants
                           /\ \A q : ~Only(j.op, j.pc, j.seen, q)
  BY DEF Middle, Orderly, Retained, Since

-------------------------------------------------------------------------------
(* What nobody waits for.  A queue entry is asked for with its class.      *)
LEMMA NoQueueWaits ==
  ASSUME Ordered, NEW w \in Worker, NEW x \in Worker, NEW r, Stalls(w, x, r)
  PROVE  r[1] # "queue"
<1> SUFFICES ASSUME r[1] = "queue" PROVE FALSE OBVIOUS
<1> DEFINE a == job[w]
           b == job[x]
<1>1. /\ Middle(a) /\ Middle(b) /\ Apart(a, b) /\ r \in DOMAIN a.wants /\ r \in Rows /\ Owns(b, r)
  BY StallsAre, RowTags
<1> HIDE DEF a, b
<1>2. Holds(a, Course(r[2]), Update) BY <1>1 DEF Middle, Orderly, Awaiting
<1>3. Holds(b, Course(r[2]), Update) BY <1>1 DEF Middle, Orderly, Retained, Owns, Holds
<1>4. Personal(Course(r[2])) BY RowTags DEF Personal
<1> QED BY <1>1, <1>2, <1>3, <1>4 DEF Apart, Conflict

(* A block is lifted by who has the link.                                  *)
LEMMA NoBlockWaits ==
  ASSUME Ordered, NEW w \in Worker, NEW x \in Worker, NEW r, Stalls(w, x, r)
  PROVE  r # Block
<1> SUFFICES ASSUME r = Block PROVE FALSE OBVIOUS
<1> DEFINE a == job[w]
           b == job[x]
<1>1. /\ Middle(a) /\ Middle(b) /\ Apart(a, b) /\ r \in DOMAIN a.wants /\ Owns(b, r)
      /\ AsksFor(a.op, a.pc, Block)
  BY StallsAre, RowTags
<1> HIDE DEF a, b
<1>2. ASSUME NEW j, Middle(j), j.op.does \in {"Book", "Join"}, NEW p \in 1 .. j.pc,
             AsksFor(j.op, p, Block)
      PROVE  Owns(j, Link)
  <2>1. On(j.op, p, BlockAt) BY <1>2, RowTags DEF AsksFor
  <2>2. Past(j, LinkGate) BY <1>2, <2>1 DEF On, BlockAt, Past, LinkGate, Middle
  <2> QED BY <1>2, <2>2, RowTags DEF Middle, Good, Gated, Locking, Personal
<1>3. Owns(a, Link)
  <2>1. a.op.does \in {"Book", "Join"} BY <1>1 DEF Middle, Orderly, Awaiting
  <2>2. a.pc \in 1 .. a.pc BY <1>1 DEF Middle, Lengths
  <2> QED BY <1>1, <1>2, <2>1, <2>2
<1>4. Owns(b, Link)
  <2>1. PICK m : Holds(b, Block, m) BY <1>1 DEF Owns, Holds
  <2>2. PICK p \in 1 .. b.pc : /\ AsksFor(b.op, p, Block)
                               /\ p = b.pc => \A q : ~Only(b.op, b.pc, b.seen, q)
    BY <1>1, <2>1, HeldSince
  <2>3. On(b.op, p, BlockAt) BY <2>2, RowTags DEF AsksFor
  <2>4. CASE b.op.does \in {"Book", "Join"} BY <1>1, <1>2, <2>2, <2>4
  <2>5. CASE b.op.does \in {"Decline", "Unlink"}
    <3>1. p = b.pc BY <1>1, <2>2, <2>3, <2>5 DEF On, BlockAt, Middle, Lengths
    <3>2. Only(b.op, b.pc, b.seen, Block)
      BY <2>3, <2>5, <3>1 DEF On, BlockAt, Only, Does
    <3> QED BY <2>2, <3>1, <3>2
  <2> QED BY <2>3, <2>4, <2>5 DEF On, BlockAt
<1> QED BY <1>1, <1>3, <1>4, RowTags DEF Owns, Apart, Conflict, Holds, Personal

(* The erasure comes back to the person's row it has locked: a promotion   *)
(* that references it holds the class of a queue entry the erasure found.  *)
LEMMA NoErasureWaits ==
  ASSUME Ordered, NEW w \in Worker, NEW x \in Worker, Stalls(w, x, Student)
  PROVE  ~Does(job[w].op, job[w].pc, "Erase", 10)
<1> SUFFICES ASSUME Does(job[w].op, job[w].pc, "Erase", 10) PROVE FALSE OBVIOUS
<1> DEFINE a == job[w]
           b == job[x]
<1>1. /\ Middle(a) /\ Middle(b) /\ Apart(a, b) /\ \E m \in KeyShare .. Update : Holds(b, Student, m)
  BY StallsAre
<1>0. Does(a.op, a.pc, "Erase", 10) /\ DOMAIN row = Rows BY DEF Ordered, Inv, Sound, RowsTyped
<1> HIDE DEF a, b
<1>2. PICK m \in KeyShare .. Update : Holds(b, Student, m) BY <1>1
<1>3. Holds(a, Student, NoKeyUpdate) BY <1>0, <1>1 DEF Middle, Good, Erasing, Does
<1>4. m = KeyShare BY <1>1, <1>2, <1>3, RowTags DEF Apart, Conflict, Personal
<1>5. b.op.does = "Promote" BY <1>1, <1>2, <1>4 DEF Middle, Orderly, Retained
<1> DEFINE c == b.op.class
<1>6. c \in Class /\ Queued(c) \in Rows
  <2>1. c \in Class BY <1>1, <1>5 DEF Middle, Good, Typed, OpTyped
  <2> QED BY <2>1, RowsAre
<1>7. b.pc >= 3 /\ b.pc \in Nat
  <2>1. PICK p \in 1 .. b.pc : AsksFor(b.op, p, Student) BY <1>1, <1>2, HeldSince
  <2>2. On(b.op, p, StudentAt) BY <2>1, RowTags DEF AsksFor
  <2> QED BY <1>1, <1>5, <2>1, <2>2 DEF On, StudentAt, Middle, Lengths
<1>8. Holds(b, Course(c), Update) /\ row[Queued(c)] = "waiting"
  <2>1. Past(b, CourseGate) BY <1>5, <1>7 DEF Past, CourseGate
  <2> QED BY <1>1, <1>5, <1>7, <2>1 DEF Middle, Good, Gated, Promoting
<1>9. Holds(a, Course(c), Update)
  <2>1. CASE Queued(c) \in Drafts(a)
    BY <1>1, <2>1, RowTags DEF Middle, Good, Drafting
  <2>2. CASE Queued(c) \notin Drafts(a)
    <3>1. Sees(a, row)[Queued(c)] = "waiting" BY <1>0, <1>6, <1>8, <2>2, SeesRow
    <3>2. c \in a.seen.queues
      BY <1>0, <1>1, <1>6, <3>1, NoneIs DEF Middle, Good, Erasing, Does, Words
    <3> QED BY <1>0, <1>1, <3>2 DEF Middle, Good, Sorting, SortedAt, Does
  <2> QED BY <2>1, <2>2
<1> QED BY <1>1, <1>8, <1>9, RowTags DEF Apart, Conflict, Personal
-------------------------------------------------------------------------------
(* What a request asks for at statement pc that has asked for a row of     *)
(* some table at p.                                                        *)
Later == {"block", "queue", "invitation", "key"}

LEMMA Onward ==
  ASSUME NEW o, NEW p \in Nat, NEW pc \in Nat, p <= pc, NEW r, NEW q \in Rows,
         AsksFor(o, p, r), AsksFor(o, pc, q), ~Does(o, pc, "Erase", 10)
  PROVE  /\ r[1] = "invitation" =>
              \/ q[1] \in {"invitation", "block", "queue"}
              \/ q[1] = "key" /\ (Does(o, pc, "Edit", 3) \/ (Does(o, pc, "Invite", 4) /\ p = pc))
         /\ r[1] = "link" => q[1] \in Later \cup {"link", "payment"}
         /\ r[1] = "privacy" => q[1] \in Later \cup {"link", "privacy"}
         /\ r[1] = "registration" =>
              q[1] \in Later \cup {"payment", "link", "privacy", "registration"}
         /\ r[1] = "class" =>
              \/ q[1] \in Later \cup {"payment", "link", "privacy", "registration", "class"}
              \/ Does(o, pc, "Promote", 3)
         /\ r[1] = "student" => q[1] # "student" \/ p = pc
<1>1. q[1] \in {"student", "link", "privacy", "block", "class", "queue", "registration", "payment",
                "invitation", "key"}
  BY RowsByTable DEF AsksFor
<1>2. /\ q[1] = "student" => On(o, pc, StudentAt)
      /\ q[1] = "class" => On(o, pc, ClassAt)
      /\ q[1] = "registration" => On(o, pc, BookingAt)
      /\ q[1] = "privacy" => On(o, pc, PrivacyAt)
      /\ q[1] = "link" => On(o, pc, LinkAt)
      /\ q[1] = "payment" => On(o, pc, PaymentAt)
      /\ q[1] = "key" => On(o, pc, EntryAt)
  BY DEF AsksFor
<1>3. r[1] = "invitation" =>
        \/ q[1] \in {"invitation", "block", "queue"}
        \/ q[1] = "key" /\ (Does(o, pc, "Edit", 3) \/ (Does(o, pc, "Invite", 4) /\ p = pc))
  <2> SUFFICES ASSUME On(o, p, InvitationAt)
               PROVE  /\ ~On(o, pc, ClassAt) /\ ~On(o, pc, BookingAt) /\ ~On(o, pc, StudentAt)
                      /\ ~On(o, pc, PrivacyAt) /\ ~On(o, pc, LinkAt) /\ ~On(o, pc, PaymentAt)
                      /\ On(o, pc, EntryAt) =>
                           Does(o, pc, "Edit", 3) \/ (Does(o, pc, "Invite", 4) /\ p = pc)
    BY <1>1, <1>2 DEF AsksFor
  <2>1. ~On(o, pc, ClassAt) /\ ~On(o, pc, BookingAt)
    BY DEF On, InvitationAt, ClassAt, BookingAt
  <2>2. ~On(o, pc, StudentAt) BY DEF On, InvitationAt, StudentAt, Does
  <2>3. ~On(o, pc, PrivacyAt) /\ ~On(o, pc, PaymentAt)
    BY DEF On, InvitationAt, PrivacyAt, PaymentAt
  <2>4. ~On(o, pc, LinkAt) BY DEF On, InvitationAt, LinkAt
  <2>5. On(o, pc, EntryAt) => Does(o, pc, "Edit", 3) \/ (Does(o, pc, "Invite", 4) /\ p = pc)
    <3> SUFFICES ASSUME On(o, pc, EntryAt)
                 PROVE  Does(o, pc, "Edit", 3) \/ (Does(o, pc, "Invite", 4) /\ p = pc)
      OBVIOUS
    <3>1. CASE o.does = "WalkIn"
      <4>1. p = 10 /\ pc = 9 BY <3>1 DEF On, InvitationAt, EntryAt
      <4> QED BY <4>1
    <3>2. CASE o.does = "Invite"
      <4>1. p \in {4, 5} /\ pc = 4 BY <3>2 DEF On, InvitationAt, EntryAt
      <4> QED BY <3>2, <4>1 DEF Does
    <3>3. CASE o.does = "Edit"
      <4>1. pc = 3 BY <3>3 DEF On, EntryAt
      <4> QED BY <3>3, <4>1 DEF Does
    <3> QED BY <3>1, <3>2, <3>3 DEF On, EntryAt
  <2> QED BY <2>1, <2>2, <2>3, <2>4, <2>5
<1>4. r[1] = "link" => q[1] \in Later \cup {"link", "payment"}
  <2> SUFFICES ASSUME On(o, p, LinkAt)
               PROVE  /\ ~On(o, pc, ClassAt) /\ ~On(o, pc, BookingAt) /\ ~On(o, pc, StudentAt)
                      /\ ~On(o, pc, PrivacyAt)
    BY <1>1, <1>2 DEF AsksFor, Later
  <2>1. ~On(o, pc, ClassAt) /\ ~On(o, pc, BookingAt)
    BY DEF On, LinkAt, ClassAt, BookingAt
  <2>2. ~On(o, pc, StudentAt) BY DEF On, LinkAt, StudentAt, Does
  <2>3. ~On(o, pc, PrivacyAt) BY DEF On, LinkAt, PrivacyAt
  <2> QED BY <2>1, <2>2, <2>3
<1>5. r[1] = "privacy" => q[1] \in Later \cup {"link", "privacy"}
  <2> SUFFICES ASSUME On(o, p, PrivacyAt)
               PROVE  /\ ~On(o, pc, ClassAt) /\ ~On(o, pc, BookingAt) /\ ~On(o, pc, StudentAt)
                      /\ ~On(o, pc, PaymentAt)
    BY <1>1, <1>2 DEF AsksFor, Later
  <2> QED BY DEF On, PrivacyAt, ClassAt, BookingAt, StudentAt, PaymentAt, Does
<1>6. r[1] = "registration" =>
        q[1] \in Later \cup {"payment", "link", "privacy", "registration"}
  <2> SUFFICES ASSUME On(o, p, BookingAt) PROVE ~On(o, pc, ClassAt) /\ ~On(o, pc, StudentAt)
    BY <1>1, <1>2 DEF AsksFor, Later
  <2>1. ~On(o, pc, ClassAt) BY DEF On, BookingAt, ClassAt
  <2>2. ~On(o, pc, StudentAt) BY DEF On, BookingAt, StudentAt, Does
  <2> QED BY <2>1, <2>2
<1>7. r[1] = "class" =>
        \/ q[1] \in Later \cup {"payment", "link", "privacy", "registration", "class"}
        \/ Does(o, pc, "Promote", 3)
  <2> SUFFICES ASSUME On(o, p, ClassAt), On(o, pc, StudentAt) PROVE Does(o, pc, "Promote", 3)
    BY <1>1, <1>2 DEF AsksFor, Later
  <2> QED BY DEF On, ClassAt, StudentAt, Does
<1>8. r[1] = "student" => q[1] # "student" \/ p = pc
  <2> SUFFICES ASSUME On(o, p, StudentAt), On(o, pc, StudentAt) PROVE p = pc
    BY <1>2 DEF AsksFor
  <2> QED BY DEF On, StudentAt, Does
<1> QED BY <1>3, <1>4, <1>5, <1>6, <1>7, <1>8

(* Two locks of one chain: w waits for row r of x, which waits for row q.  *)
LEMMA Chained ==
  ASSUME Ordered, NEW w \in Worker, NEW x \in Worker, NEW r, Stalls(w, x, r),
         NEW y \in Worker, NEW q, Stalls(x, y, q), r[1] # "key"
  PROVE  LET b == job[x]
         IN  /\ q # r /\ q[1] \notin {"block", "queue"} /\ ~Does(b.op, b.pc, "Erase", 10)
             /\ \E p \in 1 .. b.pc :
                  /\ AsksFor(b.op, p, r)
                  /\ p = b.pc => r \notin DOMAIN b.wants /\ \A s : ~Only(b.op, b.pc, b.seen, s)
<1> DEFINE b == job[x]
<1>1. /\ Middle(b) /\ r \in Rows /\ r[1] # "ghost"
      /\ r # Student => Owns(b, r)
      /\ r = Student => \E m \in KeyShare .. Update : Holds(b, Student, m)
  BY StallsAre
<1>2. /\ q \in DOMAIN b.wants /\ q \in Rows /\ AsksFor(b.op, b.pc, q)
      /\ q # Student /\ q[1] # "key" => ~Owns(b, q)
  BY StallsAre
<1>3. q[1] \notin {"block", "queue"} BY <1>2, NoQueueWaits, NoBlockWaits, RowsByTable
<1>4. ~Does(b.op, b.pc, "Erase", 10)
  <2> SUFFICES ASSUME Does(b.op, b.pc, "Erase", 10) PROVE FALSE OBVIOUS
  <2>1. q = Student
    <3>1. q[1] \in {"student", "ghost"}
      BY <1>2, RowsByTable DEF AsksFor, On, Does, ClassAt, BookingAt, QueueAt, PrivacyAt, LinkAt,
         PaymentAt, BlockAt, EntryAt, InvitationAt
    <3> QED BY <1>2, <3>1, RowsByTable DEF AsksFor
  <2> QED BY <2>1, NoErasureWaits
<1> HIDE DEF b
<1>5. PICK m : Holds(b, r, m) BY <1>1 DEF Owns, Holds
<1>6. PICK p \in 1 .. b.pc :
        /\ AsksFor(b.op, p, r)
        /\ p = b.pc => r \notin DOMAIN b.wants /\ \A s : ~Only(b.op, b.pc, b.seen, s)
  BY <1>1, <1>5, HeldSince
<1>7. q # r
  <2>1. CASE r # Student BY <1>1, <1>2, <2>1
  <2>2. CASE r = Student
    <3> SUFFICES ASSUME q = r PROVE FALSE OBVIOUS
    <3>1. b.pc \in Nat /\ p \in Nat /\ p <= b.pc BY <1>1 DEF Middle, Lengths
    <3>2. p = b.pc BY <1>2, <1>4, <1>6, <2>2, <3>1, Onward, RowTags
    <3> QED BY <1>2, <1>6, <3>2
  <2> QED BY <2>1, <2>2
<1> QED BY <1>3, <1>4, <1>6, <1>7 DEF b
-------------------------------------------------------------------------------
(* The edit of an invitation does not wait for the entry of an address, if *)
(* there is no second invitation to give it to or take it from.            *)
LEMMA NoEditWaits ==
  ASSUME Ordered, Single, NEW w \in Worker, NEW x \in Worker, NEW r, Stalls(w, x, r),
         r[1] = "key"
  PROVE  ~Does(job[w].op, job[w].pc, "Edit", 3)
<1> SUFFICES ASSUME Does(job[w].op, job[w].pc, "Edit", 3) PROVE FALSE OBVIOUS
<1> DEFINE a == job[w]
           b == job[x]
           to == a.op.to
           inv == a.op.inv
<1>1. /\ Middle(a) /\ Middle(b) /\ Exclusive(a, b) /\ Exclusive(b, a)
      /\ r \in DOMAIN a.wants /\ r \in Rows /\ r \in Drafts(b)
  BY StallsAre
<1>2. Does(a.op, a.pc, "Edit", 3) /\ Addressed(row) /\ DOMAIN row = Rows /\ scope \in Scopes
  BY DEF Ordered, Inv, Tidy, Sound, RowsTyped
<1> HIDE DEF a, b
<1>3. Midway(a) /\ to \in Reals /\ inv \in Invitation
  BY <1>1, <1>2 DEF Does, Midway, Middle, Good, Typed, OpTyped, Reals
<1>4. r = Key(to)
  <2>1. Only(a.op, a.pc, a.seen, r) BY <1>1 DEF Middle, Orderly, Awaiting
  <2>2. a.op.does = "Edit" /\ a.pc = 3 BY <1>2 DEF Does
  <2> QED
    BY <2>1, <2>2 DEF Only, Does, AtGate, StudentGate, CourseGate, LinkGate, Charging, Linking
<1>5. /\ row[Invited(inv)] # None /\ Invited(inv) \in Drafts(a) /\ Owns(a, Invited(inv))
      /\ inv \in scope.invitations
  <2>1. /\ row[Invited(inv)] # None /\ Invited(inv) \in Drafts(a) /\ a.wrote[Invited(inv)] # None
    BY <1>1, <1>3 DEF Middle, Moving, Correcting
  <2> QED BY <1>1, <1>3, <2>1 DEF Middle, Moving, Backing, Orderly, Lifting
<1>6. ~\E i \in Invitation : Owns(b, Invited(i))
  <2> SUFFICES ASSUME NEW i \in Invitation, Owns(b, Invited(i)) PROVE FALSE OBVIOUS
  <2>1. PICK m \in NoKeyUpdate .. Update : Holds(b, Invited(i), m) BY DEF Owns, Holds
  <2>2. i \in scope.invitations BY <1>1, <2>1, RowTags DEF Middle, Orderly, Retained
  <2>3. i = inv BY <1>2, <1>5, <2>2, TheInvitation
  <2> QED BY <1>1, <1>5, <2>1, <2>3, OneOwner
<1>7. b.wrote[Key(to)] = "taken" /\ row[Key(to)] # "taken"
  BY <1>1, <1>3, <1>4, <1>6 DEF Middle, Moving, Backing
<1>8. Keyed(Sees(b, row), to)
  <2>1. ~Midway(b)
    <3>1. b.op.does \in DOMAIN KeyAt => b.pc > KeyAt[b.op.does]
      BY <1>1, <1>4 DEF Middle, Moving, Unmoved, Lengths, KeyAt
    <3> QED BY <3>1 DEF Midway, KeyAt
  <2> QED BY <1>1, <1>3, <1>4, <2>1 DEF Middle, Moving, Placing, Placed
<1>9. PICK k \in Invitation : Has(Sees(b, row), k, to)
  BY <1>1, <1>4, <1>7, <1>8, SeesDraft DEF Keyed
<1>10. CASE Invited(k) \in Drafts(b)
  <2>1. b.wrote[Invited(k)] # None
    BY <1>3, <1>9, <1>10, SeesDraft, NoneIs, KeyIs DEF Has, At, NoInvitation
  <2>2. k \in scope.invitations BY <1>1, <1>10, <2>1 DEF Middle, Orderly, Lifting
  <2>3. k = inv BY <1>2, <1>5, <2>2, TheInvitation
  <2> QED BY <1>1, <1>3, <1>5, <1>10, <2>3 DEF Exclusive
<1>11. CASE Invited(k) \notin Drafts(b)
  <2>1. Has(row, k, to) BY <1>2, <1>9, <1>11, SeesRow, RowsAre DEF Has, At
  <2> QED BY <1>2, <1>3, <1>7, <2>1 DEF Addressed, Keyed
<1> QED BY <1>10, <1>11

(* Who is waited for while it waits: what it waits for, by what it has.    *)
LEMMA AfterInvitation ==
  ASSUME Ordered, Single, NEW w \in Worker, NEW x \in Worker, NEW r, Stalls(w, x, r),
         NEW y \in Worker, NEW q, Stalls(x, y, q)
  PROVE  r[1] # "invitation"
<1> SUFFICES ASSUME r[1] = "invitation" PROVE FALSE OBVIOUS
<1> DEFINE b == job[x]
<1>1. Middle(b) /\ q \in Rows /\ AsksFor(b.op, b.pc, q) /\ q \in DOMAIN b.wants BY StallsAre
<1>2. Owns(b, r) /\ r \in Rows BY StallsAre, RowTags
<1>3. q # r /\ q[1] \notin {"block", "queue"} /\ ~Does(b.op, b.pc, "Erase", 10) BY Chained
<1>4. q[1] = "key" => ~Does(b.op, b.pc, "Edit", 3) BY NoEditWaits
<1>5. PICK p \in 1 .. b.pc :
        /\ AsksFor(b.op, p, r)
        /\ p = b.pc => r \notin DOMAIN b.wants /\ \A s : ~Only(b.op, b.pc, b.seen, s)
  BY Chained
<1> HIDE DEF b
<1>6. b.pc \in Nat /\ p \in Nat /\ p <= b.pc BY <1>1 DEF Middle, Lengths
<1>7. q[1] = "key" => Only(b.op, b.pc, b.seen, q) BY <1>1 DEF Middle, Orderly, Awaiting
<1>8. q[1] = "invitation" BY <1>1, <1>3, <1>4, <1>5, <1>6, <1>7, Onward
<1>9. PICK i \in Invitation : r = Invited(i) BY <1>2, RowsByTable
<1>10. PICK k \in Invitation : q = Invited(k) BY <1>1, <1>8, RowsByTable
<1>11. i \in scope.invitations
  <2>1. PICK m \in NoKeyUpdate .. Update : Holds(b, r, m) BY <1>2 DEF Owns, Holds
  <2> QED BY <1>1, <1>9, <2>1, RowTags DEF Middle, Orderly, Retained
<1>12. k \in scope.invitations BY <1>1, <1>8, <1>10, RowTags DEF Middle, Orderly, Awaiting
<1>13. i = k BY <1>11, <1>12, TheInvitation DEF Ordered, Inv
<1> QED BY <1>3, <1>9, <1>10, <1>13

LEMMA AfterKey ==
  ASSUME Ordered, NEW w \in Worker, NEW x \in Worker, NEW r, Stalls(w, x, r), r[1] = "key",
         NEW y \in Worker, NEW q, Stalls(x, y, q)
  PROVE  q[1] = "invitation"
<1> DEFINE b == job[x]
<1>1. Middle(b) /\ q \in Rows /\ AsksFor(b.op, b.pc, q) /\ r \in Drafts(b) /\ r \in Rows
  BY StallsAre
<1>2. ~Does(b.op, b.pc, "Erase", 10)
  <2> SUFFICES ASSUME Does(b.op, b.pc, "Erase", 10) PROVE FALSE OBVIOUS
  <2>1. q[1] \in {"student", "ghost"}
    BY <1>1, RowsByTable DEF AsksFor, On, Does, ClassAt, BookingAt, QueueAt, PrivacyAt, LinkAt,
       PaymentAt, BlockAt, EntryAt, InvitationAt
  <2>2. q = Student BY <1>1, <2>1, RowsByTable DEF AsksFor
  <2> QED BY <2>2, NoErasureWaits
<1> HIDE DEF b
<1>3. PICK e : r = Key(e) BY <1>1, RowsByTable
<1>4. b.op.does \in DOMAIN KeyAt BY <1>1, <1>3 DEF Middle, Orderly, Lifting
<1>5. b.pc > KeyAt[b.op.does]
  BY <1>1, <1>3, <1>4 DEF Middle, Moving, Unmoved, Lengths, KeyAt
<1>6. \/ b.op.does = "Invite" /\ b.pc = 5
      \/ b.op.does = "WalkIn" /\ b.pc \in 10 .. 12
      \/ b.op.does = "Erase" /\ b.pc \in {9, 11, 12}
  BY <1>1, <1>2, <1>4, <1>5 DEF Middle, Lengths, KeyAt, Does
<1> QED
  BY <1>1, <1>6, RowsByTable DEF AsksFor, On, StudentAt, ClassAt, BookingAt, QueueAt, PrivacyAt,
     LinkAt, PaymentAt, BlockAt, EntryAt

LEMMA AfterPayment ==
  ASSUME Ordered, NEW w \in Worker, NEW x \in Worker, NEW r, Stalls(w, x, r), r[1] = "payment",
         NEW y \in Worker, NEW q, Stalls(x, y, q)
  PROVE  /\ q[1] = "payment" /\ Does(job[x].op, job[x].pc, "Archive", 4)
         /\ Holds(job[x], Link, Update)
<1> DEFINE b == job[x]
<1>1. /\ Middle(b) /\ q \in Rows /\ AsksFor(b.op, b.pc, q) /\ q \in DOMAIN b.wants
      /\ q # Student /\ q[1] # "key" => ~Owns(b, q)
  BY StallsAre
<1>2. q # r BY Chained, RowTags
<1>3. PICK p \in 1 .. b.pc :
        /\ AsksFor(b.op, p, r)
        /\ p = b.pc => r \notin DOMAIN b.wants /\ \A s : ~Only(b.op, b.pc, b.seen, s)
  BY Chained, RowTags
<1>4. r \in Rows /\ DOMAIN row = Rows BY StallsAre DEF Ordered, Inv, Sound, RowsTyped
<1> HIDE DEF b
<1>5. On(b.op, p, PaymentAt) /\ (r[2] = b.op.class \/ Wide(b.op)) BY <1>3 DEF AsksFor
<1>6. ~(q[1] = "payment" /\ ~Wide(b.op))
  <2> SUFFICES ASSUME q[1] = "payment", ~Wide(b.op) PROVE FALSE OBVIOUS
  <2>1. q[2] = r[2] BY <1>1, <1>5 DEF AsksFor
  <2>2. PICK c \in Class : r = Owed(c) BY <1>4, RowsByTable
  <2>3. PICK d \in Class : q = Owed(d) BY <1>1, RowsByTable
  <2> QED BY <1>2, <2>1, <2>2, <2>3, RowTags
<1>7. b.op.does # "Complete"
  <2> SUFFICES ASSUME b.op.does = "Complete" PROVE FALSE OBVIOUS
  <2>1. p = 4 /\ b.pc = 4 BY <1>1, <1>5 DEF On, PaymentAt, Middle, Lengths
  <2>2. Only(b.op, b.pc, b.seen, Owed(b.op.class)) BY <2>1 DEF Only, Does
  <2> QED BY <1>3, <2>1, <2>2
<1>8. b.op.does \notin {"Pay", "Waive"}
  <2> SUFFICES ASSUME b.op.does \in {"Pay", "Waive"} PROVE FALSE OBVIOUS
  <2>1. b.pc = 1 BY <1>1 DEF Middle, Lengths
  <2>2. q[1] = "payment"
    BY <1>1, <2>1, RowsByTable DEF AsksFor, On, StudentAt, ClassAt, BookingAt, QueueAt, PrivacyAt,
       LinkAt, BlockAt, EntryAt, InvitationAt
  <2> QED BY <1>6, <2>2 DEF Wide
<1>9. ASSUME HasLink(b, row) PROVE q # Link
  BY <1>1, <1>9, RowTags DEF HasLink, Holds, Owns
<1>10. b.op.does # "Reopen"
  <2> SUFFICES ASSUME b.op.does = "Reopen" PROVE FALSE OBVIOUS
  <2>1. p \in {3, 4} /\ b.pc \in {3, 4, 5} BY <1>1, <1>5 DEF On, PaymentAt, Middle, Lengths
  <2>2. q[1] = "payment" \/ (q = Link /\ b.pc = 5)
    BY <1>1, <2>1, RowsByTable DEF AsksFor, On, StudentAt, ClassAt, BookingAt, QueueAt, PrivacyAt,
       LinkAt, PaymentAt, BlockAt, EntryAt, InvitationAt
  <2>3. ASSUME q = Link, b.pc = 5 PROVE FALSE
    <3>1. b.seen.filed BY <1>1, <2>3 DEF Middle, Orderly, Awaiting, Does
    <3> QED BY <1>1, <1>9, <2>3, <3>1 DEF Middle, Good, Reopening
  <2> QED BY <1>6, <2>2, <2>3 DEF Wide
<1>11. b.op.does = "Archive" BY <1>5, <1>7, <1>8, <1>10 DEF On, PaymentAt
<1>12. p = 4 /\ b.pc \in {4, 5} BY <1>1, <1>5, <1>11 DEF On, PaymentAt, Middle, Lengths
<1>13. HasLink(b, row) BY <1>1, <1>11, <1>12 DEF Middle, Good, Archiving
<1>14. q[1] = "payment" /\ b.pc = 4
  <2>1. (q[1] = "payment" /\ b.pc = 4) \/ q = Link
    BY <1>1, <1>11, <1>12, RowsByTable DEF AsksFor, On, StudentAt, ClassAt, BookingAt, QueueAt,
       PrivacyAt, LinkAt, PaymentAt, BlockAt, EntryAt, InvitationAt
  <2> QED BY <1>9, <1>13, <2>1
<1> QED BY <1>11, <1>13, <1>14 DEF b, Does, HasLink

LEMMA AfterLink ==
  ASSUME Ordered, NEW w \in Worker, NEW x \in Worker, NEW r, Stalls(w, x, r),
         r[1] \in {"link", "privacy"}, NEW y \in Worker, NEW q, Stalls(x, y, q)
  PROVE  q[1] \in {"invitation", "key", "payment"} \/ (r[1] = "privacy" /\ q[1] = "link")
<1> DEFINE b == job[x]
<1>1. Middle(b) /\ q \in Rows /\ AsksFor(b.op, b.pc, q) /\ r \in Rows BY StallsAre
<1>2. q # r /\ q[1] \notin {"block", "queue"} /\ ~Does(b.op, b.pc, "Erase", 10) BY Chained
<1>3. PICK p \in 1 .. b.pc : AsksFor(b.op, p, r) BY Chained
<1> HIDE DEF b
<1>4. b.pc \in Nat /\ p \in Nat /\ p <= b.pc BY <1>1 DEF Middle, Lengths
<1>5. CASE r[1] = "link"
  <2>1. q[1] \in Later \cup {"link", "payment"} BY <1>1, <1>2, <1>3, <1>4, <1>5, Onward
  <2>2. q[1] # "link" BY <1>1, <1>2, <1>5, RowsByTable
  <2> QED BY <1>2, <2>1, <2>2 DEF Later
<1>6. CASE r[1] = "privacy"
  <2>1. q[1] \in Later \cup {"link", "privacy"} BY <1>1, <1>2, <1>3, <1>4, <1>6, Onward
  <2>2. q[1] # "privacy" BY <1>1, <1>2, <1>6, RowsByTable
  <2> QED BY <1>2, <1>6, <2>1, <2>2 DEF Later
<1> QED BY <1>5, <1>6

LEMMA AfterBooking ==
  ASSUME Ordered, NEW w \in Worker, NEW x \in Worker, NEW r, Stalls(w, x, r),
         r[1] = "registration", NEW y \in Worker, NEW q, Stalls(x, y, q)
  PROVE  \/ q[1] \in {"invitation", "key", "payment", "link", "privacy"}
         \/ q[1] = "registration" /\ Holds(job[x], Student, NoKeyUpdate)
<1> DEFINE b == job[x]
<1>1. Middle(b) /\ q \in Rows /\ AsksFor(b.op, b.pc, q) /\ r \in Rows BY StallsAre
<1>2. q # r /\ q[1] \notin {"block", "queue"} /\ ~Does(b.op, b.pc, "Erase", 10)
  BY Chained
<1>3. PICK p \in 1 .. b.pc : AsksFor(b.op, p, r) BY Chained
<1> HIDE DEF b
<1>4. b.pc \in Nat /\ p \in Nat /\ p <= b.pc BY <1>1 DEF Middle, Lengths
<1>5. q[1] \in Later \cup {"payment", "link", "privacy", "registration"}
  BY <1>1, <1>2, <1>3, <1>4, Onward
<1>6. ASSUME q[1] = "registration" PROVE Holds(b, Student, NoKeyUpdate)
  <2>1. Wide(b.op)
    <3> SUFFICES ASSUME ~Wide(b.op) PROVE FALSE OBVIOUS
    <3>1. q[2] = r[2] BY <1>1, <1>3, <1>6 DEF AsksFor
    <3>2. PICK c \in Class : r = Booking(c) BY <1>1, RowsByTable
    <3>3. PICK d \in Class : q = Booking(d) BY <1>1, <1>6, RowsByTable
    <3> QED BY <1>2, <3>1, <3>2, <3>3, RowTags
  <2>2. On(b.op, b.pc, BookingAt) BY <1>1, <1>6 DEF AsksFor
  <2>3. b.op.does = "Erase" /\ b.pc = 4 BY <2>1, <2>2 DEF On, BookingAt, Wide
  <2> QED BY <1>1, <2>3 DEF Middle, Good, Erasing
<1> QED BY <1>2, <1>5, <1>6 DEF Later, b

(* Who has a class and waits for another takes them from the lowest.       *)
LEMMA AfterClass ==
  ASSUME Ordered, NEW w \in Worker, NEW x \in Worker, NEW c \in Class, Stalls(w, x, Course(c)),
         NEW y \in Worker, NEW q, Stalls(x, y, q)
  PROVE  \/ q[1] \in {"invitation", "key", "payment", "link", "privacy", "registration"}
         \/ \E d \in Class : q = Course(d) /\ c < d
         \/ Does(job[x].op, job[x].pc, "Promote", 3) /\ q = Student
<1> DEFINE b == job[x]
           r == Course(c)
<1>1. Middle(b) /\ q \in Rows /\ AsksFor(b.op, b.pc, q) /\ q \in DOMAIN b.wants /\ Owns(b, r)
  BY StallsAre, RowTags
<1>2. q # r /\ q[1] \notin {"block", "queue"} /\ ~Does(b.op, b.pc, "Erase", 10)
  BY Chained, RowTags
<1>3. PICK p \in 1 .. b.pc : AsksFor(b.op, p, r) BY Chained, RowTags
<1> HIDE DEF b
<1>4. b.pc \in Nat /\ p \in Nat /\ p <= b.pc BY <1>1 DEF Middle, Lengths
<1>5. \/ q[1] \in Later \cup {"payment", "link", "privacy", "registration", "class"}
      \/ Does(b.op, b.pc, "Promote", 3)
  BY <1>1, <1>2, <1>3, <1>4, Onward, RowTags
<1>6. ASSUME q[1] = "class" PROVE \E d \in Class : q = Course(d) /\ c < d
  <2>1. PICK d \in Class : q = Course(d) BY <1>1, <1>6, RowsByTable
  <2>2. Wide(b.op) BY <1>1, <1>2, <1>3, <1>6, <2>1, RowTags DEF AsksFor
  <2>3. On(b.op, b.pc, ClassAt) BY <1>1, <1>6 DEF AsksFor
  <2>4. b.op.does \in DOMAIN SortedAt /\ b.pc = SortedAt[b.op.does]
    BY <2>2, <2>3 DEF On, ClassAt, Wide, SortedAt
  <2>5. PICK m : Holds(b, Course(c), m) BY <1>1 DEF Owns, Holds
  <2> QED BY <1>1, <2>1, <2>4, <2>5 DEF Middle, Orderly, Ascending
<1>7. ASSUME Does(b.op, b.pc, "Promote", 3) PROVE q = Student
  <2>1. q[1] = "student"
    BY <1>1, <1>7, RowsByTable DEF AsksFor, On, Does, ClassAt, BookingAt, QueueAt, PrivacyAt,
       LinkAt, PaymentAt, BlockAt, EntryAt, InvitationAt
  <2> QED BY <1>1, <2>1, RowsByTable
<1> QED BY <1>2, <1>5, <1>6, <1>7 DEF Later, b

(* A promotion that references the person waits for an erasure alone, and  *)
(* this one is past all it waits for.                                      *)
LEMMA AfterErasure ==
  ASSUME Ordered, NEW w \in Worker, NEW x \in Worker, Stalls(w, x, Student),
         NEW y \in Worker, NEW q, Stalls(x, y, q)
  PROVE  q # Student /\ ~Does(job[w].op, job[w].pc, "Promote", 3)
<1> DEFINE a == job[w]
           b == job[x]
<1>1. q # Student BY Chained, RowTags
<1>2. /\ Middle(a) /\ Middle(b) /\ Student \in DOMAIN a.wants
      /\ \E m \in KeyShare .. Update :
           /\ Holds(b, Student, m) /\ a.wants[Student] \in KeyShare .. Update
           /\ m + a.wants[Student] >= 5
  BY StallsAre
<1>3. q \in Rows /\ AsksFor(b.op, b.pc, q) BY StallsAre
<1> HIDE DEF a, b
<1>4. ASSUME Does(a.op, a.pc, "Promote", 3) PROVE FALSE
  <2>1. a.wants[Student] = KeyShare BY <1>2, <1>4 DEF Middle, Orderly, Awaiting, Does
  <2>2. Holds(b, Student, Update) BY <1>2, <2>1
  <2>3. b.op.does = "Erase" /\ b.pc > 10 BY <1>2, <2>2 DEF Middle, Orderly, Retained
  <2>4. b.pc \in {11, 12} BY <1>2, <2>3 DEF Middle, Lengths
  <2> QED
    BY <1>3, <2>3, <2>4, RowsByTable DEF AsksFor, On, StudentAt, ClassAt, BookingAt, QueueAt,
       PrivacyAt, LinkAt, PaymentAt, BlockAt, EntryAt, InvitationAt
<1> QED BY <1>1, <1>4 DEF a
-------------------------------------------------------------------------------
(* Requests that wait for one another in a circle: by what they would wait *)
(* for, one table after the other.                                         *)
Ring(S) == S \subseteq Worker /\ \A w \in S : \E x \in S : \E r : Stalls(w, x, r)
Avoids(S, tables) == \A w, x \in S : \A r : Stalls(w, x, r) => r[1] \notin tables

LEMMA RingOnward ==
  ASSUME NEW S, Ring(S), NEW x \in S
  PROVE  x \in Worker /\ \E y \in S : y \in Worker /\ \E q : Stalls(x, y, q)
BY DEF Ring

LEMMA RingInvitations ==
  ASSUME Ordered, Single, NEW S, Ring(S)
  PROVE  Avoids(S, {"queue", "block", "invitation", "key"})
<1>1. ASSUME NEW w \in S, NEW x \in S, NEW r, Stalls(w, x, r)
      PROVE  r[1] \notin {"queue", "block", "invitation"}
  <2>1. w \in Worker /\ x \in Worker BY DEF Ring
  <2>2. PICK y \in S : y \in Worker /\ \E q : Stalls(x, y, q) BY RingOnward
  <2>3. r[1] # "invitation" BY <1>1, <2>1, <2>2, AfterInvitation
  <2>4. r[1] # "queue" BY <1>1, <2>1, NoQueueWaits
  <2>5. r[1] # "block" BY <1>1, <2>1, NoBlockWaits, StallsAre, RowsByTable
  <2> QED BY <2>3, <2>4, <2>5
<1>2. ASSUME NEW w \in S, NEW x \in S, NEW r, Stalls(w, x, r)
      PROVE  r[1] # "key"
  <2>1. w \in Worker /\ x \in Worker BY DEF Ring
  <2>2. PICK y \in S : y \in Worker /\ \E q : Stalls(x, y, q) BY RingOnward
  <2>3. PICK q : Stalls(x, y, q) BY <2>2
  <2>4. q[1] # "invitation" BY <1>1, <2>3
  <2> QED BY <1>2, <2>1, <2>2, <2>3, <2>4, AfterKey
<1> QED BY <1>1, <1>2 DEF Avoids

LEMMA RingLinks ==
  ASSUME Ordered, NEW S, Ring(S), Avoids(S, {"queue", "block", "invitation", "key"})
  PROVE  Avoids(S, {"payment", "link", "privacy"})
<1>1. ASSUME NEW w \in S, NEW x \in S, NEW r, Stalls(w, x, r)
      PROVE  r[1] # "payment"
  <2> SUFFICES ASSUME r[1] = "payment" PROVE FALSE OBVIOUS
  <2>1. w \in Worker /\ x \in Worker BY DEF Ring
  <2>2. PICK y \in S : y \in Worker /\ \E q : Stalls(x, y, q) BY RingOnward
  <2>3. PICK q : Stalls(x, y, q) BY <2>2
  <2>4. q[1] = "payment" /\ Holds(job[x], Link, Update)
    BY <1>1, <2>1, <2>2, <2>3, AfterPayment
  <2>5. PICK z \in S : z \in Worker /\ \E s : Stalls(y, z, s) BY RingOnward
  <2>6. PICK s : Stalls(y, z, s) BY <2>5
  <2>7. Holds(job[y], Link, Update) BY <2>1, <2>2, <2>3, <2>4, <2>5, <2>6, AfterPayment
  <2>8. Apart(job[x], job[y]) BY <2>1, <2>2, <2>3, StallsAre
  <2> QED BY <2>4, <2>7, <2>8, RowTags DEF Apart, Conflict, Personal
<1>2. ASSUME NEW w \in S, NEW x \in S, NEW r, Stalls(w, x, r)
      PROVE  r[1] # "link"
  <2> SUFFICES ASSUME r[1] = "link" PROVE FALSE OBVIOUS
  <2>1. w \in Worker /\ x \in Worker BY DEF Ring
  <2>2. PICK y \in S : y \in Worker /\ \E q : Stalls(x, y, q) BY RingOnward
  <2>3. PICK q : Stalls(x, y, q) BY <2>2
  <2>4. q[1] \in {"invitation", "key", "payment"} BY <1>2, <2>1, <2>2, <2>3, AfterLink
  <2> QED BY <1>1, <2>2, <2>3, <2>4 DEF Avoids
<1>3. ASSUME NEW w \in S, NEW x \in S, NEW r, Stalls(w, x, r)
      PROVE  r[1] # "privacy"
  <2> SUFFICES ASSUME r[1] = "privacy" PROVE FALSE OBVIOUS
  <2>1. w \in Worker /\ x \in Worker BY DEF Ring
  <2>2. PICK y \in S : y \in Worker /\ \E q : Stalls(x, y, q) BY RingOnward
  <2>3. PICK q : Stalls(x, y, q) BY <2>2
  <2>4. q[1] \in {"invitation", "key", "payment", "link"}
    BY <1>3, <2>1, <2>2, <2>3, AfterLink
  <2> QED BY <1>1, <1>2, <2>2, <2>3, <2>4 DEF Avoids
<1> QED BY <1>1, <1>2, <1>3 DEF Avoids

LEMMA RingBookings ==
  ASSUME Ordered, NEW S, Ring(S), Avoids(S, {"queue", "block", "invitation", "key"}),
         Avoids(S, {"payment", "link", "privacy"})
  PROVE  Avoids(S, {"registration"})
<1> SUFFICES ASSUME NEW w \in S, NEW x \in S, NEW r, Stalls(w, x, r), r[1] = "registration"
             PROVE  FALSE
  BY DEF Avoids
<1>1. w \in Worker /\ x \in Worker BY DEF Ring
<1>2. PICK y \in S : y \in Worker /\ \E q : Stalls(x, y, q) BY RingOnward
<1>3. PICK q : Stalls(x, y, q) BY <1>2
<1>4. q[1] = "registration" /\ Holds(job[x], Student, NoKeyUpdate)
  BY <1>1, <1>2, <1>3, AfterBooking DEF Avoids
<1>5. PICK z \in S : z \in Worker /\ \E s : Stalls(y, z, s) BY RingOnward
<1>6. PICK s : Stalls(y, z, s) BY <1>5
<1>7. Holds(job[y], Student, NoKeyUpdate)
  BY <1>1, <1>2, <1>3, <1>4, <1>5, <1>6, AfterBooking DEF Avoids
<1>8. Apart(job[x], job[y]) BY <1>1, <1>2, <1>3, StallsAre
<1> QED BY <1>4, <1>7, <1>8, RowTags DEF Apart, Conflict, Personal

(* Of the classes waited for in a circle none would be the highest.        *)
LEMMA RingClasses ==
  ASSUME Ordered, NEW S, Ring(S), Avoids(S, {"queue", "block", "invitation", "key"}),
         Avoids(S, {"payment", "link", "privacy"}), Avoids(S, {"registration"})
  PROVE  Avoids(S, {"class"})
<1> DEFINE D == {c \in Class : \E w, x \in S : Stalls(w, x, Course(c))}
<1>1. ASSUME NEW c \in D PROVE \E d \in D : c < d
  <2>1. PICK w \in S, x \in S : Stalls(w, x, Course(c)) OBVIOUS
  <2>2. w \in Worker /\ x \in Worker /\ c \in Class BY DEF Ring
  <2>3. PICK y \in S : y \in Worker /\ \E q : Stalls(x, y, q) BY RingOnward
  <2>4. PICK q : Stalls(x, y, q) BY <2>3
  <2>5. \/ \E d \in Class : q = Course(d) /\ c < d
        \/ Does(job[x].op, job[x].pc, "Promote", 3) /\ q = Student
    BY <2>1, <2>2, <2>3, <2>4, AfterClass DEF Avoids
  <2>6. PICK z \in S : z \in Worker /\ \E s : Stalls(y, z, s) BY RingOnward
  <2>7. ~(Does(job[x].op, job[x].pc, "Promote", 3) /\ q = Student)
    BY <2>2, <2>3, <2>4, <2>6, AfterErasure
  <2> QED BY <2>3, <2>4, <2>5, <2>7
<1>2. D \in SUBSET Nat /\ IsFiniteSet(D)
  <2>1. D \subseteq Class OBVIOUS
  <2> HIDE DEF D
  <2> QED BY <2>1, FS_Subset, RosterAssumption
<1>3. D = {}
  <2> SUFFICES ASSUME D # {} PROVE FALSE OBVIOUS
  <2> HIDE DEF D
  <2>1. PICK m \in D : \A d \in D : d <= m BY <1>2, Greatest
  <2>2. PICK d \in D : m < d BY <1>1
  <2> QED BY <1>2, <2>1, <2>2
<1> SUFFICES ASSUME NEW w \in S, NEW x \in S, NEW r, Stalls(w, x, r), r[1] = "class"
             PROVE  FALSE
  BY DEF Avoids
<1>4. w \in Worker /\ x \in Worker BY DEF Ring
<1>5. PICK c \in Class : r = Course(c) BY <1>4, StallsAre, RowsByTable
<1> QED BY <1>3, <1>5

LEMMA NoRing ==
  ASSUME Ordered, Single, NEW S, Ring(S)
  PROVE  S = {}
<1>1. Avoids(S, {"queue", "block", "invitation", "key"}) BY RingInvitations
<1>2. Avoids(S, {"payment", "link", "privacy"}) BY <1>1, RingLinks
<1>3. Avoids(S, {"registration"}) BY <1>1, <1>2, RingBookings
<1>4. Avoids(S, {"class"}) BY <1>1, <1>2, <1>3, RingClasses
<1>5. ASSUME NEW w \in S, NEW x \in S, NEW r, Stalls(w, x, r) PROVE r = Student
  <2>1. w \in Worker /\ x \in Worker BY DEF Ring
  <2>2. r \in Rows /\ r[1] # "ghost" BY <1>5, <2>1, StallsAre
  <2> QED BY <1>1, <1>2, <1>3, <1>4, <1>5, <2>2, RowsByTable DEF Avoids
<1> SUFFICES ASSUME NEW w \in S PROVE FALSE OBVIOUS
<1>6. PICK x \in S : x \in Worker /\ \E r : Stalls(w, x, r) BY RingOnward
<1>7. PICK y \in S : y \in Worker /\ \E q : Stalls(x, y, q) BY RingOnward
<1>8. w \in Worker /\ Stalls(w, x, Student) /\ Stalls(x, y, Student)
  BY <1>5, <1>6, <1>7, RingOnward
<1> QED BY <1>6, <1>7, <1>8, AfterErasure

LEMMA OrderedFree == Ordered => OrderedLocks
<1> SUFFICES ASSUME Ordered, Single PROVE NoDeadlock BY DEF OrderedLocks, Single
<1> SUFFICES ASSUME NEW S \in SUBSET Worker, \A w \in S : WaitsFor(w) \cap S # {}
             PROVE  S = {}
  BY DEF NoDeadlock
<1>1. ASSUME NEW w \in S PROVE \E x \in S : \E r : Stalls(w, x, r)
  <2>1. PICK x \in S : x \in WaitsFor(w) BY <1>1
  <2> QED BY <2>1 DEF WaitsFor, Stalls
<1> QED BY <1>1, NoRing DEF Ring

(***************************************************************************)
(* The inductive invariant with the order: what every request under way    *)
(* has locked it asked for earlier than what it waits for, the classes it  *)
(* has are lower than those it waits for, and an entry of the index it     *)
(* waits to insert stands alone in its statement.                          *)
(***************************************************************************)
THEOREM RequestsAskInOrder == Spec => []Ordered
<1>1. InitRoster => Ordered BY InvInit, TidyInit, OrderInit DEF Ordered
<1>2. Ordered /\ [Next]_vars => Ordered' BY InvStep, TidyStep, OrderStep DEF Ordered
<1> QED BY <1>1, <1>2, PTL DEF Spec

(***************************************************************************)
(* No requests wait for one another in a circle, whichever classes,        *)
(* payments and links they meet over and however many they are, as long as *)
(* the teacher has one invitation (docs/lock-order.md).                    *)
(***************************************************************************)
THEOREM RosterOrderedLocks == Spec => []OrderedLocks
<1>1. Ordered => OrderedLocks BY OrderedFree
<1> QED BY <1>1, RequestsAskInOrder, PTL
===============================================================================
