------------------------- MODULE RosterRequest_proofs -------------------------
(***************************************************************************)
(* One request of RosterConsent, between its first statement and its last: *)
(* what each of its statements asks for, writes and keeps of what it read, *)
(* and what therefore holds of its locks, of the rows it has written and of *)
(* what it remembers.  The rows committed around it are a parameter here;  *)
(* RosterConsent_proofs says what other requests do to them.               *)
(***************************************************************************)
EXTENDS RosterConsent, FiniteSetTheorems, WellFoundedInduction, TLAPS

(***************************************************************************)
(* A request is looked at alone: j is its record in job and rw are the     *)
(* committed rows.                                                         *)
(***************************************************************************)
Sees(j, rw) == Overlay(j.wrote, rw)
Sends(j, rw) == Statements(j.op, Sees(j, rw), j.seen)[j.pc]

Holds(j, r, m) == <<r, m>> \in j.locks
Owns(j, r) == \E m \in NoKeyUpdate .. Update : <<r, m>> \in j.locks
Drafts(j) == DOMAIN j.wrote

(* The number of statements of each request.                               *)
Lengths ==
  [Invite |-> 5, Edit |-> 3, Remove |-> 2, Resend |-> 2, Accept |-> 8, Decline |-> 3,
   Unlink |-> 9, SetPrivacy |-> 2, Book |-> 9, RosterAdd |-> 5, WalkIn |-> 12, Join |-> 8,
   Promote |-> 7, Cancel |-> 2, Complete |-> 4, Pay |-> 1, Waive |-> 1, Reopen |-> 5,
   Archive |-> 5, Unarchive |-> 2, Erase |-> 12]

(* The statement after which a request holds the person's row, the class   *)
(* it is about, and a link it has made or taken back.                      *)
StudentGate == [Book |-> 1, RosterAdd |-> 1, Join |-> 1, SetPrivacy |-> 1,
                Unlink |-> 2, Accept |-> 3, WalkIn |-> 3]
CourseGate == [Promote |-> 1, Cancel |-> 1, Complete |-> 1, Book |-> 2, RosterAdd |-> 2,
               Join |-> 2, WalkIn |-> 4]
LinkGate == [Accept |-> 5, Book |-> 7, WalkIn |-> 8, Join |-> 5, Promote |-> 6, RosterAdd |-> 5]

Past(j, gate) == j.op.does \in DOMAIN gate /\ j.pc > gate[j.op.does]

Addresses == {Address, Other, Scrubbed}
Answers == {"nothing", "accepted", "booked", "declined", "left"}

(* What request o may write in row r.                                      *)
Allowed(o, r, val) ==
  /\ r = Student => o.does = "Erase" /\ val = "erased"
  /\ r = Privacy => \/ val = None /\ o.does = "Erase"
                    \/ val \in {"shares", "silent"} /\ o.does \in {"SetPrivacy", "Unlink"}
  /\ r = Block => \/ val = None /\ o.does \in {"Book", "Join"}
                  \/ val = "stands" /\ o.does \in {"Decline", "Unlink"}
  /\ r = Said => \/ val = "booked" /\ o.does \in {"Book", "Join"}
                 \/ val = "accepted" /\ o.does = "Accept"
                 \/ val = "declined" /\ o.does = "Decline"
                 \/ val = "left" /\ o.does = "Unlink"
  /\ r = Linked => val \in 0 .. 1
  /\ r = Link =>
       \/ val = None /\ o.does \in {"Unlink", "Erase"}
       \/ /\ val \in LinkRow
          /\ val.filed <=> o.does = "Archive"
          /\ o.does \in {"Accept", "Book", "RosterAdd", "WalkIn", "Join", "Promote",
                         "Reopen", "Unarchive", "Archive"}
  /\ r[1] = "class" => o.does = "Complete" /\ r[2] = o.class /\ val = "completed"
  /\ r[1] = "queue" =>
       \/ val = None /\ o.does = "Erase"
       \/ val = "waiting" /\ o.does = "Join" /\ r[2] = o.class
       \/ val = "left" /\ o.does = "Unlink"
       \/ val = "left" /\ o.does \in {"Book", "Promote"} /\ r[2] = o.class
  /\ r[1] = "registration" =>
       \/ /\ val = "charged" /\ r[2] = o.class
          /\ o.does \in {"Book", "RosterAdd", "WalkIn", "Promote", "Complete"}
       \/ val = "cancelled" /\ o.does = "Cancel" /\ r[2] = o.class
       \/ val = "cancelled" /\ o.does = "Erase"
  /\ r[1] = "payment" =>
       \/ val = "open" /\ o.does \in {"Complete", "Reopen"} /\ r[2] = o.class
       \/ val = "settled" /\ o.does = "Pay"
       \/ val = "waived" /\ o.does \in {"Waive", "Archive"}
  /\ r[1] = "invitation" => val \in InvitationRow \/ (val = None /\ o.does = "Remove")
  /\ r[1] = "key" => val \in {None, "taken"}

(* What only the last statement of a request writes.                       *)
AtTheEnd(o, r) == \/ r = Link /\ o.does \in {"Archive", "Reopen", "Unarchive"}
                  \/ r[1] = "payment" /\ o.does = "Complete"

RowsTyped(v) ==
  /\ DOMAIN v = Rows
  /\ v[Student] \in {"live", "erased"}
  /\ v[Privacy] \in {None, "shares", "silent"} /\ v[Block] \in {None, "stands"}
  /\ v[Said] \in Answers /\ v[Linked] \in 0 .. 1
  /\ v[Link] \in LinkRow \cup {None}
  /\ \A c \in Class :
       /\ v[Course(c)] \in {"open", "completed"}
       /\ v[Queued(c)] \in {None, "waiting", "left"}
       /\ v[Booking(c)] \in {None, "charged", "cancelled"}
       /\ v[Owed(c)] \in {None, "open", "settled", "waived"}
  /\ \A i \in Invitation : v[Invited(i)] \in InvitationRow \cup {None}
  /\ \A e \in Addresses : v[Key(e)] \in {None, "taken"}

Lockable(r) == r[1] \notin {"key", "ghost"}

(* The statements that give an address to an invitation or free it.        *)
Readdresses(o, pc) ==
  \/ o.does = "Invite" /\ pc = 4
  \/ o.does = "Edit" /\ pc \in {2, 3}
  \/ o.does = "Remove" /\ pc = 2
  \/ o.does = "WalkIn" /\ pc = 9
  \/ o.does = "Erase" /\ pc = 8

(* The statements that write invitations.                                  *)
Touching == [Edit |-> {2}, Remove |-> {2}, Resend |-> {2}, Decline |-> {2}, Invite |-> {4, 5},
             Accept |-> {6}, Unlink |-> {8}, WalkIn |-> {9, 10}, Book |-> {9}, Join |-> {7},
             Erase |-> {8, 9}]
Touches(o, pc) == o.does \in DOMAIN Touching /\ pc \in Touching[o.does]

(* What statement pc of request o may write in row r of the rows v.        *)
MayPut(o, pc, v, r, val) ==
  /\ r \in Rows /\ Allowed(o, r, val)
  /\ pc # Lengths[o.does] => ~AtTheEnd(o, r)
  /\ r[1] = "invitation" => Touches(o, pc)
  /\ ~Readdresses(o, pc) =>
        /\ r[1] # "key"
        /\ r[1] = "invitation" => v[r] # None /\ val # None /\ val.email = v[r].email
MayPutAll(o, pc, v, f) == \A r \in DOMAIN f : MayPut(o, pc, v, r, f[r])

(* What the statements of all requests have in common: which rows and      *)
(* modes they ask for, what they write, and that they ask for a row of the *)
(* person's before they write it.                                          *)
Asks(st) == \A r \in DOMAIN st.takes :
   /\ r \in Rows /\ st.takes[r] \in KeyShare .. Insert
   /\ st.takes[r] \in KeyShare .. Share => r = Student
   /\ st.takes[r] = Insert => r # Student /\ r[1] # "invitation"
Puts(o, pc, v, st) == \A r \in DOMAIN st.puts :
   /\ MayPut(o, pc, v, r, st.puts[r])
   /\ Lockable(r) /\ ~(r[1] = "invitation" /\ Readdresses(o, pc)) => r \in DOMAIN st.takes

IsStatement(st) == DOMAIN st = {"takes", "inOrder", "puts", "notes", "stop", "ends"}
Fit(o, pc, v, st) == IsStatement(st) /\ Asks(st) /\ Puts(o, pc, v, st)
FitStep(o, pc, v, st) == Fit(o, pc, v, st) /\ st.ends = FALSE
FitEnd(o, pc, v, st) == Fit(o, pc, v, st) /\ st.ends = TRUE

OpTyped(o) ==
  /\ o.does \in DOMAIN Lengths
  /\ o.does \in {"Book", "RosterAdd", "WalkIn", "Join", "Promote", "Cancel", "Complete",
                 "Reopen", "Pay", "Waive"} => o.class \in Class
  /\ o.does \in {"Accept", "Decline", "Remove", "Resend", "Edit"} => o.inv \in Invitation
  /\ o.does = "Edit" => o.to \in {Address, Other}

SeenTyped(o, seen) ==
  /\ seen.queues \subseteq Class
  /\ seen.filed \in BOOLEAN
  /\ seen.id \in Invitation \cup {None} /\ seen.email \in Addresses \cup {None}
  /\ o.does = "Archive" => seen.billed \subseteq {Owed(c) : c \in Class}
-------------------------------------------------------------------------------
(* Rows and statements.                                                    *)

LEMMA RowTags ==
  /\ Student[1] = "student" /\ Link[1] = "link" /\ Privacy[1] = "privacy" /\ Block[1] = "block"
  /\ Said[1] = "ghost" /\ Linked[1] = "ghost" /\ Said # Linked
  /\ \A c : /\ Course(c)[1] = "class" /\ Queued(c)[1] = "queue" /\ Booking(c)[1] = "registration"
            /\ Owed(c)[1] = "payment" /\ Invited(c)[1] = "invitation" /\ Key(c)[1] = "key"
            /\ Course(c)[2] = c /\ Queued(c)[2] = c /\ Booking(c)[2] = c
            /\ Owed(c)[2] = c /\ Invited(c)[2] = c
  BY DEF Student, Link, Privacy, Block, Said, Linked, Course, Queued, Booking, Owed, Invited, Key

LEMMA KeysDiffer ==
  /\ Key(Address) # Key(Other) /\ Key(Address) # Key(Scrubbed) /\ Key(Other) # Key(Scrubbed)
  /\ Address # Other /\ Address # Scrubbed /\ Other # Scrubbed
  BY DEF Key, Address, Other, Scrubbed

LEMMA RowsAre ==
  /\ {Student, Link, Privacy, Block, Said, Linked} \subseteq Rows
  /\ \A e : Key(e) \in Rows
  /\ \A c \in Class : {Course(c), Queued(c), Booking(c), Owed(c)} \subseteq Rows
  /\ \A i \in Invitation : Invited(i) \in Rows
  BY DEF Rows, Addresses, Key, Address, Other, Scrubbed

LEMMA RowsByTable ==
  ASSUME NEW r \in Rows
  PROVE  /\ r[1] = "student" => r = Student
         /\ r[1] = "link" => r = Link
         /\ r[1] = "privacy" => r = Privacy
         /\ r[1] = "block" => r = Block
         /\ r[1] = "ghost" => r \in {Said, Linked}
         /\ r[1] = "class" => \E c \in Class : r = Course(c)
         /\ r[1] = "queue" => \E c \in Class : r = Queued(c)
         /\ r[1] = "registration" => \E c \in Class : r = Booking(c)
         /\ r[1] = "payment" => \E c \in Class : r = Owed(c)
         /\ r[1] = "invitation" => \E i \in Invitation : r = Invited(i)
         /\ r[1] = "key" => \E e \in Addresses : r = Key(e)
         /\ r[1] \in {"student", "link", "privacy", "block", "ghost", "class", "queue",
                      "registration", "payment", "invitation", "key"}
  BY RowTags DEF Rows, Addresses

LEMMA OverlayIs ==
  ASSUME NEW f, NEW g
  PROVE  /\ DOMAIN Overlay(f, g) = DOMAIN f \cup DOMAIN g
         /\ \A r \in DOMAIN f : Overlay(f, g)[r] = f[r]
         /\ \A r \in DOMAIN g \ DOMAIN f : Overlay(f, g)[r] = g[r]
  BY DEF Overlay

USE DEF KeyShare, Share, NoKeyUpdate, Update, Insert

LEMMA NoneIs ==
  /\ None \notin Words /\ None \notin LinkRow /\ None \notin InvitationRow
  /\ None \notin Addresses /\ None \notin Invitation
  BY NoneAssumption, RosterAssumption DEF Addresses

LEMMA MayPutRoster ==
  ASSUME NEW o, NEW pc, NEW v, NEW r \in Rows, NEW val, Allowed(o, r, val),
         ~AtTheEnd(o, r), r[1] \notin {"key", "invitation"}
  PROVE  MayPut(o, pc, v, r, val)
  BY DEF MayPut

(* A statement that stops under a condition, keeps something of its result *)
(* or is the last one asks for and writes what it did before.              *)
LEMMA FitWraps ==
  ASSUME NEW o, NEW pc, NEW v, NEW st, FitStep(o, pc, v, st), NEW x
  PROVE  /\ FitStep(o, pc, v, StopIf(x, st)) /\ FitStep(o, pc, v, Keeping(x, st))
         /\ FitEnd(o, pc, v, Ends(st))
         /\ FitEnd(o, pc, v, Ends(StopIf(x, st))) /\ FitEnd(o, pc, v, Ends(Keeping(x, st)))
<1>1. /\ IsStatement(StopIf(x, st)) /\ IsStatement(Keeping(x, st))
      /\ StopIf(x, st).takes = st.takes /\ StopIf(x, st).puts = st.puts
      /\ Keeping(x, st).takes = st.takes /\ Keeping(x, st).puts = st.puts
      /\ StopIf(x, st).ends = FALSE /\ Keeping(x, st).ends = FALSE
  BY DEF IsStatement, StopIf, Keeping, FitStep, Fit
<1>2. FitStep(o, pc, v, StopIf(x, st)) /\ FitStep(o, pc, v, Keeping(x, st))
  BY <1>1 DEF Fit, FitStep, Asks, Puts
<1>3. \A t : FitStep(o, pc, v, t) => FitEnd(o, pc, v, Ends(t))
  <2> TAKE t
  <2> HAVE FitStep(o, pc, v, t)
  <2>1. /\ IsStatement(Ends(t)) /\ Ends(t).takes = t.takes /\ Ends(t).puts = t.puts
        /\ Ends(t).ends = TRUE
    BY DEF IsStatement, Ends, FitStep, Fit
  <2> QED BY <2>1 DEF Fit, FitStep, FitEnd, Asks, Puts
<1> QED BY <1>2, <1>3

LEMMA FitReads == ASSUME NEW o, NEW pc, NEW v PROVE FitStep(o, pc, v, Reads)
  BY DEF Fit, FitStep, Asks, Puts, Reads, Nothing, IsStatement

LEMMA FitLocks ==
  ASSUME NEW o, NEW pc, NEW v, NEW S \in SUBSET Rows, NEW m \in KeyShare .. Update,
         m \in KeyShare .. Share => S \subseteq {Student}
  PROVE  FitStep(o, pc, v, Locks(S, m)) /\ (m = Update => FitStep(o, pc, v, LocksInOrder(S)))
  BY DEF Fit, FitStep, Asks, Puts, Reads, Nothing, IsStatement, Locks, LocksInOrder

LEMMA FitUpsert ==
  ASSUME NEW o, NEW pc, NEW v, NEW r \in Rows, NEW val, Allowed(o, r, val),
         r # Student, r[1] \notin {"key", "invitation"}, ~AtTheEnd(o, r)
  PROVE  FitStep(o, pc, v, Upsert(v, r, val))
<1>1. MayPut(o, pc, v, r, val) BY MayPutRoster
<1> QED BY <1>1 DEF Fit, FitStep, Asks, Puts, Reads, Nothing, IsStatement, Upsert

LEMMA FitWrites ==
  ASSUME NEW o, NEW pc, NEW v, NEW S, NEW f, DOMAIN f = S, MayPutAll(o, pc, v, f)
  PROVE  FitStep(o, pc, v, Writes(f))
<1>1. /\ Writes(f).takes = [r \in S |-> NoKeyUpdate] /\ Writes(f).puts = f
      /\ IsStatement(Writes(f)) /\ Writes(f).ends = FALSE
  BY DEF Writes, Locks, Reads, IsStatement
<1>2. Asks(Writes(f)) BY <1>1 DEF Asks, MayPutAll, MayPut
<1>3. Puts(o, pc, v, Writes(f)) BY <1>1 DEF Puts, MayPutAll
<1> QED BY <1>1, <1>2, <1>3 DEF Fit, FitStep

LEMMA FitDeletes ==
  ASSUME NEW o, NEW pc, NEW v, NEW S, MayPutAll(o, pc, v, [r \in S |-> None])
  PROVE  FitStep(o, pc, v, Deletes(S))
<1>1. /\ Deletes(S).takes = [r \in S |-> Update] /\ Deletes(S).puts = [r \in S |-> None]
      /\ IsStatement(Deletes(S)) /\ Deletes(S).ends = FALSE
  BY DEF Deletes, Locks, Reads, IsStatement
<1>2. Asks(Deletes(S)) BY <1>1 DEF Asks, MayPutAll, MayPut
<1>3. Puts(o, pc, v, Deletes(S)) BY <1>1 DEF Puts, MayPutAll
<1> QED BY <1>1, <1>2, <1>3 DEF Fit, FitStep

LEMMA FitInserts ==
  ASSUME NEW o, NEW pc, NEW v, NEW S, NEW f, DOMAIN f = S, MayPutAll(o, pc, v, f),
         \A r \in S : r # Student /\ r[1] # "invitation"
  PROVE  FitStep(o, pc, v, Inserts(f))
<1>1. /\ Inserts(f).takes = [r \in S |-> Insert] /\ Inserts(f).puts = f
      /\ IsStatement(Inserts(f)) /\ Inserts(f).ends = FALSE
  BY DEF Inserts, Locks, Reads, IsStatement
<1>2. Asks(Inserts(f)) BY <1>1 DEF Asks, MayPutAll, MayPut
<1>3. Puts(o, pc, v, Inserts(f)) BY <1>1 DEF Puts, MayPutAll
<1> QED BY <1>1, <1>2, <1>3 DEF Fit, FitStep

(* A statement that also writes rows nobody locks.                         *)
LEMMA FitAlso ==
  ASSUME NEW o, NEW pc, NEW v, NEW st, FitStep(o, pc, v, st), NEW f, MayPutAll(o, pc, v, f),
         \A r \in DOMAIN f : ~Lockable(r) \/ (r[1] = "invitation" /\ Readdresses(o, pc))
  PROVE  FitStep(o, pc, v, Also(f, st))
<1>1. /\ Also(f, st).takes = st.takes /\ Also(f, st).puts = Overlay(f, st.puts)
      /\ IsStatement(Also(f, st)) /\ Also(f, st).ends = FALSE
  BY DEF Also, IsStatement, Fit, FitStep
<1>2. \A r \in DOMAIN Overlay(f, st.puts) :
         \/ r \in DOMAIN f /\ Overlay(f, st.puts)[r] = f[r]
         \/ r \in DOMAIN st.puts /\ Overlay(f, st.puts)[r] = st.puts[r]
  <2>1. DOMAIN Overlay(f, st.puts) = DOMAIN f \cup DOMAIN st.puts
    BY OverlayIs
  <2>2. \A r \in DOMAIN f : Overlay(f, st.puts)[r] = f[r]
    BY OverlayIs
  <2>3. \A r \in DOMAIN st.puts \ DOMAIN f : Overlay(f, st.puts)[r] = st.puts[r]
    BY OverlayIs
  <2> QED BY <2>1, <2>2, <2>3
<1>3. Asks(Also(f, st)) BY <1>1 DEF Asks, Fit, FitStep
<1>4. Puts(o, pc, v, Also(f, st)) BY <1>1, <1>2 DEF Puts, MayPutAll, Fit, FitStep
<1> QED BY <1>1, <1>3, <1>4 DEF Fit, FitStep
-------------------------------------------------------------------------------
(* The statements the requests share.                                      *)

LEMMA FitHelpers ==
  ASSUME NEW o, OpTyped(o), NEW pc, NEW v, RowsTyped(v), NEW seen
  PROVE  /\ FitStep(o, pc, v, LockLiveStudent(v))
         /\ \A c \in Class : FitStep(o, pc, v, LockOpenClass(v, c))
         /\ o.does \in {"Book", "Join"} => FitStep(o, pc, v, LiftBlock)
         /\ o.does \in {"Decline", "Unlink"} => FitStep(o, pc, v, UpsertBlock(v))
<1>1. FitStep(o, pc, v, LockLiveStudent(v))
  BY FitLocks, FitWraps, RowsAre DEF LockLiveStudent
<1>2. ASSUME NEW c \in Class PROVE FitStep(o, pc, v, LockOpenClass(v, c))
  <2>1. {Course(c)} \in SUBSET Rows BY RowsAre
  <2>2. FitStep(o, pc, v, Locks({Course(c)}, Update)) BY <2>1, FitLocks
  <2> QED BY <2>2, FitWraps DEF LockOpenClass
<1>3. /\ o.does \in {"Book", "Join"} => Allowed(o, Block, None)
      /\ o.does \in {"Decline", "Unlink"} => Allowed(o, Block, "stands")
      /\ ~AtTheEnd(o, Block)
  BY DEF Allowed, AtTheEnd, Block, Student, Privacy, Said, Linked, Link
<1>4. Block \in Rows /\ Block # Student /\ Block[1] # "invitation"
  BY RowsAre, RowTags
<1>5. /\ o.does \in {"Book", "Join"} => MayPutAll(o, pc, v, [r \in {Block} |-> None])
      /\ o.does \in {"Decline", "Unlink"} => MayPutAll(o, pc, v, [r \in {Block} |-> "stands"])
  BY <1>3, <1>4, RowTags, MayPutRoster DEF MayPutAll
<1>6. o.does \in {"Book", "Join"} => FitStep(o, pc, v, LiftBlock)
  BY <1>5, FitDeletes DEF LiftBlock
<1>7. ASSUME o.does \in {"Decline", "Unlink"}
      PROVE  FitStep(o, pc, v, Inserts([r \in {Block} |-> "stands"]))
  <2> DEFINE f == [r \in {Block} |-> "stands"]
  <2> SUFFICES FitStep(o, pc, v, Inserts(f)) OBVIOUS
  <2>1. DOMAIN f = {Block} /\ MayPutAll(o, pc, v, f) BY <1>5, <1>7
  <2> HIDE DEF f
  <2> QED BY <2>1, <1>4, FitInserts
<1>8. o.does \in {"Decline", "Unlink"} => FitStep(o, pc, v, UpsertBlock(v))
  BY <1>7, FitReads DEF UpsertBlock
<1> QED BY <1>1, <1>2, <1>6, <1>8

(* A request that makes or takes back a link.                              *)
LEMMA FitLinks ==
  ASSUME NEW o, o.does \in {"Accept", "Book", "RosterAdd", "WalkIn", "Join", "Promote"},
         NEW pc, NEW v, RowsTyped(v)
  PROVE  FitStep(o, pc, v, InsertLink(v)) /\ FitStep(o, pc, v, ActivateLink(v))
<1> DEFINE noted == IF v[Link] = None THEN [r \in {Linked} |-> 1 - v[Linked]] ELSE Nothing
           made == [r \in {Link} |-> [id |-> 1 - v[Linked], filed |-> FALSE]]
           active == [r \in Existing(v, {Link}) |-> [v[r] EXCEPT !.filed = FALSE]]
<1>1. ~AtTheEnd(o, Link) /\ ~AtTheEnd(o, Linked)
  BY RowTags DEF AtTheEnd
<1>2. v[Linked] \in 0 .. 1 /\ 1 - v[Linked] \in 0 .. 1
  BY DEF RowsTyped
<1>3. Allowed(o, Linked, 1 - v[Linked])
  BY <1>2, RowTags DEF Allowed
<1>4. \A l \in LinkRow : ~l.filed => Allowed(o, Link, l)
  BY RowTags DEF Allowed
<1>5. Link \in Rows /\ Linked \in Rows /\ Link # Student
  BY RowsAre, RowTags
<1>6. MayPutAll(o, pc, v, noted)
  BY <1>1, <1>3, <1>5, RowTags, MayPutRoster DEF MayPutAll, Nothing
<1>7. MayPutAll(o, pc, v, made)
  BY <1>1, <1>2, <1>4, <1>5, RowTags, MayPutRoster DEF MayPutAll, LinkRow
<1>8. MayPutAll(o, pc, v, active)
  <2>1. \A r \in DOMAIN active : r = Link /\ v[Link] \in LinkRow
    BY DEF Existing, RowsTyped
  <2>2. \A l \in LinkRow : [l EXCEPT !.filed = FALSE] \in LinkRow
                           /\ ~[l EXCEPT !.filed = FALSE].filed
    BY DEF LinkRow
  <2>3. ASSUME NEW r \in DOMAIN active PROVE MayPut(o, pc, v, r, active[r])
    <3>1. r = Link /\ active[r] = [v[Link] EXCEPT !.filed = FALSE] BY <2>1
    <3>2. Allowed(o, Link, active[r]) BY <3>1, <2>1, <2>2, <1>4
    <3> QED BY <3>1, <3>2, <1>1, <1>5, RowTags, MayPutRoster
  <2> QED BY <2>3 DEF MayPutAll
<1>9. \A r \in DOMAIN noted : ~Lockable(r)
  BY RowTags DEF Nothing, Lockable
<1>10. DOMAIN made = {Link} /\ Link[1] = "link"
  BY RowTags
<1>11. InsertLink(v) = Keeping([created |-> v[Link] = None], Also(noted, Inserts(made)))
  BY DEF InsertLink
<1>12. ActivateLink(v) = StopIf(v[Link] = None, [Locks({Link}, Update) EXCEPT !.puts = active])
  BY DEF ActivateLink
<1> HIDE DEF noted, made, active
<1>13. FitStep(o, pc, v, Inserts(made))
  BY <1>5, <1>7, <1>10, FitInserts
<1>14. FitStep(o, pc, v, InsertLink(v))
  BY <1>6, <1>9, <1>11, <1>13, FitAlso, FitWraps
<1>15. FitStep(o, pc, v, [Locks({Link}, Update) EXCEPT !.puts = active])
  <2> DEFINE st == [Locks({Link}, Update) EXCEPT !.puts = active]
  <2> SUFFICES FitStep(o, pc, v, st) OBVIOUS
  <2>1. /\ IsStatement(st) /\ st.ends = FALSE /\ st.puts = active
        /\ st.takes = [r \in {Link} |-> Update]
    BY DEF Locks, Reads, IsStatement
  <2>2. \A r \in DOMAIN active : r = Link
    BY DEF active, Existing
  <2> HIDE DEF st
  <2>3. Asks(st) BY <2>1, <1>5 DEF Asks
  <2>4. Puts(o, pc, v, st) BY <2>1, <2>2, <1>8 DEF Puts, MayPutAll
  <2> QED BY <2>1, <2>3, <2>4 DEF FitStep, Fit
<1>16. FitStep(o, pc, v, ActivateLink(v))
  BY <1>12, <1>15, FitWraps
<1> QED BY <1>14, <1>16

(* A request that marks invitations it found.                              *)
LEMMA FitAnswered ==
  ASSUME NEW o, NEW pc, Touches(o, pc), NEW v, RowsTyped(v), NEW S \in SUBSET Invitation,
         \A i \in S : v[Invited(i)] # None, NEW status \in {"pending", "accepted", "declined"}
  PROVE  FitStep(o, pc, v, Answered(v, S, status))
<1> DEFINE rs == {Invited(i) : i \in S}
           f == [r \in rs |-> [v[r] EXCEPT !.status = status]]
<1>1. ASSUME NEW r \in rs PROVE MayPut(o, pc, v, r, f[r])
  <2>1. PICK i \in S : r = Invited(i) OBVIOUS
  <2>2. r \in Rows /\ r[1] = "invitation" /\ v[r] \in InvitationRow
    BY <2>1, RowsAre, RowTags DEF RowsTyped
  <2>3. f[r] \in InvitationRow /\ f[r].email = v[r].email BY <2>2 DEF InvitationRow
  <2> QED BY <2>2, <2>3, RowTags, NoneIs DEF Allowed, AtTheEnd, MayPut
<1>2. DOMAIN f = rs /\ MayPutAll(o, pc, v, f) BY <1>1 DEF MayPutAll
<1>3. Answered(v, S, status) = Writes(f) BY DEF Answered
<1> HIDE DEF f, rs
<1> QED BY <1>2, <1>3, FitWrites

LEMMA HoldersExist ==
  ASSUME NEW v, NEW e \in Addresses
  PROVE  /\ HolderOf(v, e) \subseteq Invitation
         /\ \A i \in HolderOf(v, e) : v[Invited(i)] # None
  BY NoneIs DEF HolderOf, At, NoInvitation

LEMMA FitResolve ==
  ASSUME NEW o, NEW pc, Touches(o, pc), NEW v, RowsTyped(v), NEW seen
  PROVE  FitStep(o, pc, v, ResolveInvitation(v, seen))
<1> DEFINE S == {i \in HolderOf(v, Address) : IF seen.created THEN At(v, i).status # "accepted"
                                             ELSE At(v, i).status = "declined"}
<1>1. S \subseteq Invitation /\ \A i \in S : v[Invited(i)] # None
  BY HoldersExist DEF Addresses
<1>2. ResolveInvitation(v, seen) = Answered(v, S, "accepted") BY DEF ResolveInvitation
<1> HIDE DEF S
<1> QED BY <1>1, <1>2, FitAnswered

LEMMA FitSaying ==
  ASSUME NEW o, NEW pc, NEW v, NEW answer, Allowed(o, Said, answer), NEW st,
         FitStep(o, pc, v, st)
  PROVE  FitStep(o, pc, v, Saying(answer, st))
<1> DEFINE f == [r \in {Said} |-> answer]
<1>1. Said \in Rows /\ ~AtTheEnd(o, Said) /\ Said[1] = "ghost"
  BY RowTags, RowsAre DEF AtTheEnd
<1>2. MayPutAll(o, pc, v, f) /\ \A r \in DOMAIN f : ~Lockable(r)
  BY <1>1, MayPutRoster DEF MayPutAll, Lockable
<1>3. Saying(answer, st) = Also(f, st) BY DEF Saying
<1> HIDE DEF f
<1> QED BY <1>2, <1>3, FitAlso

LEMMA MaySay ==
  ASSUME NEW o
  PROVE  /\ o.does \in {"Book", "Join"} => Allowed(o, Said, "booked")
         /\ o.does = "Accept" => Allowed(o, Said, "accepted")
         /\ o.does = "Decline" => Allowed(o, Said, "declined")
         /\ o.does = "Unlink" => Allowed(o, Said, "left")
  BY RowTags DEF Allowed

(* Every statement of a request fits, and only the last commits: but an    *)
(* invite commits the invitation before it stamps it.                      *)
FitAt(o, pc, v, st) ==
  IF pc = Lengths[o.does] \/ (o.does = "Invite" /\ pc = 4)
  THEN FitEnd(o, pc, v, st) ELSE FitStep(o, pc, v, st)
Fits(o, v, seen) ==
  /\ Len(Statements(o, v, seen)) = Lengths[o.does]
  /\ \A pc \in 1 .. Lengths[o.does] : FitAt(o, pc, v, Statements(o, v, seen)[pc])

(* The statements at a request's gates.                                    *)
Gates(o, v, seen) ==
  /\ o.does \in DOMAIN StudentGate =>
       Statements(o, v, seen)[StudentGate[o.does]] = LockLiveStudent(v)
  /\ o.does \in DOMAIN CourseGate =>
       Statements(o, v, seen)[CourseGate[o.does]] = LockOpenClass(v, o.class)
  /\ o.does \in DOMAIN LinkGate =>
       Statements(o, v, seen)[LinkGate[o.does]]
         \in {ActivateLink(v), Ends(ActivateLink(v))}

LEMMA BookIs ==
  ASSUME NEW o, o.does = "Book", NEW v, NEW seen
  PROVE  LET S == Statements(o, v, seen)
         IN  /\ Len(S) = 9 /\ S[1] = LockLiveStudent(v) /\ S[2] = LockOpenClass(v, o.class)
             /\ S[3] = StopIf(v[Booking(o.class)] = "charged", Reads)
             /\ S[4] = Upsert(v, Booking(o.class), "charged")
             /\ S[5] = Writes([r \in {q \in {Queued(o.class)} : v[q] = "waiting"} |-> "left"])
             /\ S[6] = InsertLink(v) /\ S[7] = ActivateLink(v) /\ S[8] = LiftBlock
             /\ S[9] = Ends(Saying("booked", ResolveInvitation(v, seen)))
<1>1. Statements(o, v, seen) = Book(v, seen, o.class)
  BY Zenon DEF Statements
<1> QED BY <1>1 DEF Book, Transaction, ActivateRegistration

LEMMA BookFits ==
  ASSUME NEW o, OpTyped(o), o.does = "Book", NEW v, RowsTyped(v), NEW seen
  PROVE  Fits(o, v, seen) /\ Gates(o, v, seen)
<1> DEFINE S == Statements(o, v, seen)
           c == o.class
           left == [r \in {q \in {Queued(c)} : v[q] = "waiting"} |-> "left"]
<1>1. c \in Class BY DEF OpTyped
<1>2. /\ Len(S) = 9 /\ S[1] = LockLiveStudent(v) /\ S[2] = LockOpenClass(v, c)
      /\ S[3] = StopIf(v[Booking(c)] = "charged", Reads) /\ S[4] = Upsert(v, Booking(c), "charged")
      /\ S[5] = Writes(left)
      /\ S[6] = InsertLink(v) /\ S[7] = ActivateLink(v) /\ S[8] = LiftBlock
      /\ S[9] = Ends(Saying("booked", ResolveInvitation(v, seen)))
  BY BookIs
<1>3. /\ Allowed(o, Booking(c), "charged") /\ Allowed(o, Queued(c), "left")
      /\ ~AtTheEnd(o, Booking(c)) /\ ~AtTheEnd(o, Queued(c))
  BY RowTags DEF Allowed, AtTheEnd
<1>4. \A pc : FitStep(o, pc, v, S[1]) /\ FitStep(o, pc, v, S[2]) /\ FitStep(o, pc, v, S[8])
  BY <1>1, <1>2, FitHelpers
<1>5. \A pc : FitStep(o, pc, v, S[3])
  BY <1>2, FitReads, FitWraps
<1>6. \A pc : FitStep(o, pc, v, S[4])
  BY <1>1, <1>2, <1>3, FitUpsert, RowsAre, RowTags
<1>7. \A pc : FitStep(o, pc, v, S[5])
  <2>1. \A pc : MayPutAll(o, pc, v, left)
    BY <1>1, <1>3, MayPutRoster, RowsAre, RowTags DEF MayPutAll
  <2>2. S[5] = Writes(left) BY <1>2
  <2> HIDE DEF left, S
  <2> QED BY <2>1, <2>2, FitWrites
<1>8. \A pc : FitStep(o, pc, v, S[6]) /\ FitStep(o, pc, v, S[7])
  BY <1>2, FitLinks
<1>9. FitEnd(o, 9, v, S[9])
  <2>1. Touches(o, 9) BY DEF Touches, Touching
  <2> QED BY <1>2, <2>1, FitResolve, MaySay, FitSaying, FitWraps
<1>10. Lengths[o.does] = 9 /\ o.does # "Invite" BY DEF Lengths
<1>11. Fits(o, v, seen)
  BY <1>2, <1>4, <1>5, <1>6, <1>7, <1>8, <1>9, <1>10 DEF Fits, FitAt
<1>12. Gates(o, v, seen)
  BY <1>2 DEF Gates, StudentGate, CourseGate, LinkGate
<1> QED BY <1>11, <1>12

LEMMA FitCharge ==
  ASSUME NEW o, OpTyped(o), o.does \in {"Book", "RosterAdd", "WalkIn", "Promote"},
         NEW pc, NEW v
  PROVE  FitStep(o, pc, v, Upsert(v, Booking(o.class), "charged"))
<1>1. Allowed(o, Booking(o.class), "charged") /\ ~AtTheEnd(o, Booking(o.class))
  BY RowTags DEF Allowed, AtTheEnd
<1>2. Booking(o.class) \in Rows BY RowsAre DEF OpTyped
<1> QED BY <1>1, <1>2, FitUpsert, RowTags

LEMMA RosterAddFits ==
  ASSUME NEW o, OpTyped(o), o.does = "RosterAdd", NEW v, RowsTyped(v), NEW seen
  PROVE  Fits(o, v, seen) /\ Gates(o, v, seen)
<1> DEFINE S == Statements(o, v, seen)
           c == o.class
<1>1. Statements(o, v, seen) = RosterAdd(v, c)
  BY Zenon DEF Statements
<1>2. /\ Len(S) = 5 /\ S[1] = LockLiveStudent(v) /\ S[2] = LockOpenClass(v, c)
      /\ S[3] = StopIf(v[Booking(c)] = "charged", Reads) /\ S[4] = Upsert(v, Booking(c), "charged")
      /\ S[5] = Ends(ActivateLink(v))
  BY <1>1 DEF RosterAdd, Transaction, ActivateRegistration
<1>3. \A pc : FitStep(o, pc, v, S[1]) /\ FitStep(o, pc, v, S[2])
  BY <1>2, FitHelpers DEF OpTyped
<1>4. \A pc : FitStep(o, pc, v, S[3]) /\ FitStep(o, pc, v, S[4])
  BY <1>2, FitReads, FitWraps, FitCharge
<1>5. \A pc : FitEnd(o, pc, v, S[5])
  BY <1>2, FitLinks, FitWraps
<1>6. Lengths[o.does] = 5 /\ o.does # "Invite" BY DEF Lengths
<1>7. Fits(o, v, seen)
  BY <1>2, <1>3, <1>4, <1>5, <1>6 DEF Fits, FitAt
<1>8. Gates(o, v, seen)
  BY <1>2 DEF Gates, StudentGate, CourseGate, LinkGate
<1> QED BY <1>7, <1>8

LEMMA JoinFits ==
  ASSUME NEW o, OpTyped(o), o.does = "Join", NEW v, RowsTyped(v), NEW seen
  PROVE  Fits(o, v, seen) /\ Gates(o, v, seen)
<1> DEFINE S == Statements(o, v, seen)
           c == o.class
<1>1. Statements(o, v, seen) = Join(v, seen, c)
  BY Zenon DEF Statements
<1>2. /\ Len(S) = 8 /\ S[1] = LockLiveStudent(v) /\ S[2] = LockOpenClass(v, c)
      /\ S[3] = StopIf(v[Booking(c)] = "charged", Reads)
      /\ S[4] = InsertLink(v) /\ S[5] = ActivateLink(v) /\ S[6] = LiftBlock
      /\ S[7] = ResolveInvitation(v, seen)
      /\ S[8] = Ends(Saying("booked", Upsert(v, Queued(c), "waiting")))
  BY <1>1 DEF Join, Transaction
<1>3. \A pc : FitStep(o, pc, v, S[1]) /\ FitStep(o, pc, v, S[2]) /\ FitStep(o, pc, v, S[6])
  BY <1>2, FitHelpers DEF OpTyped
<1>4. \A pc : FitStep(o, pc, v, S[3])
  BY <1>2, FitReads, FitWraps
<1>5. FitStep(o, 4, v, S[4]) /\ FitStep(o, 5, v, S[5]) /\ FitStep(o, 7, v, S[7])
  <2>1. Touches(o, 7) BY DEF Touches, Touching
  <2> QED BY <1>2, <2>1, FitLinks, FitResolve
<1>6. \A pc : FitEnd(o, pc, v, S[8])
  <2>1. Allowed(o, Queued(c), "waiting") /\ ~AtTheEnd(o, Queued(c)) /\ Queued(c) \in Rows
    BY RowTags, RowsAre DEF Allowed, AtTheEnd, OpTyped
  <2>2. \A pc : FitStep(o, pc, v, Upsert(v, Queued(c), "waiting"))
    BY <2>1, FitUpsert, RowTags
  <2> QED BY <1>2, <2>2, MaySay, FitSaying, FitWraps
<1>7. Lengths[o.does] = 8 /\ o.does # "Invite" BY DEF Lengths
<1>8. Fits(o, v, seen)
  BY <1>2, <1>3, <1>4, <1>5, <1>6, <1>7 DEF Fits, FitAt
<1>9. Gates(o, v, seen)
  BY <1>2 DEF Gates, StudentGate, CourseGate, LinkGate
<1> QED BY <1>8, <1>9

LEMMA PromoteIs ==
  ASSUME NEW o, o.does = "Promote", NEW v, NEW seen
  PROVE  LET S == Statements(o, v, seen)
             c == o.class
         IN  /\ Len(S) = 7 /\ S[1] = LockOpenClass(v, c)
             /\ S[2] = StopIf(v[Queued(c)] # "waiting" \/ v[Booking(c)] = "charged", Reads)
             /\ S[3] = Locks({Student}, KeyShare) /\ S[4] = Upsert(v, Booking(c), "charged")
             /\ S[5] = InsertLink(v) /\ S[6] = ActivateLink(v)
             /\ S[7] = Ends(Writes([r \in {Queued(c)} |-> "left"]))
<1>1. Statements(o, v, seen) = Promote(v, o.class)
  BY Zenon DEF Statements
<1> QED BY <1>1 DEF Promote, Transaction, ActivateRegistration

LEMMA PromoteFits ==
  ASSUME NEW o, OpTyped(o), o.does = "Promote", NEW v, RowsTyped(v), NEW seen
  PROVE  Fits(o, v, seen) /\ Gates(o, v, seen)
<1> DEFINE S == Statements(o, v, seen)
           c == o.class
           left == [r \in {Queued(c)} |-> "left"]
<1>1. /\ Len(S) = 7 /\ S[1] = LockOpenClass(v, c)
      /\ S[2] = StopIf(v[Queued(c)] # "waiting" \/ v[Booking(c)] = "charged", Reads)
      /\ S[3] = Locks({Student}, KeyShare) /\ S[4] = Upsert(v, Booking(c), "charged")
      /\ S[5] = InsertLink(v) /\ S[6] = ActivateLink(v) /\ S[7] = Ends(Writes(left))
  BY PromoteIs
<1>2. \A pc : FitStep(o, pc, v, S[1]) /\ FitStep(o, pc, v, S[2])
  BY <1>1, FitHelpers, FitReads, FitWraps DEF OpTyped
<1>3. \A pc : FitStep(o, pc, v, S[3])
  BY <1>1, FitLocks, RowsAre
<1>4. \A pc : FitStep(o, pc, v, S[4]) /\ FitStep(o, pc, v, S[5]) /\ FitStep(o, pc, v, S[6])
  BY <1>1, FitCharge, FitLinks
<1>5. \A pc : FitEnd(o, pc, v, S[7])
  <2>1. Allowed(o, Queued(c), "left") /\ ~AtTheEnd(o, Queued(c)) /\ Queued(c) \in Rows
    BY RowTags, RowsAre DEF Allowed, AtTheEnd, OpTyped
  <2>2. \A pc : MayPutAll(o, pc, v, left)
    BY <2>1, MayPutRoster, RowTags DEF MayPutAll
  <2>3. S[7] = Ends(Writes(left)) BY <1>1
  <2> HIDE DEF left, S
  <2> QED BY <2>2, <2>3, FitWrites, FitWraps
<1>6. Lengths[o.does] = 7 /\ o.does # "Invite" BY DEF Lengths
<1>7. Fits(o, v, seen)
  BY <1>1, <1>2, <1>3, <1>4, <1>5, <1>6 DEF Fits, FitAt
<1>8. Gates(o, v, seen)
  BY <1>1 DEF Gates, StudentGate, CourseGate, LinkGate
<1> QED BY <1>7, <1>8

LEMMA FitPrivacy ==
  ASSUME NEW o, o.does \in {"SetPrivacy", "Unlink"}, NEW pc, NEW v,
         NEW value \in {"shares", "silent"}
  PROVE  FitStep(o, pc, v, Upsert(v, Privacy, value))
<1>1. Allowed(o, Privacy, value) /\ ~AtTheEnd(o, Privacy)
  BY RowTags DEF Allowed, AtTheEnd
<1> QED BY <1>1, RowsAre, RowTags, FitUpsert

LEMMA SetPrivacyFits ==
  ASSUME NEW o, OpTyped(o), o.does = "SetPrivacy", NEW v, RowsTyped(v), NEW seen
  PROVE  Fits(o, v, seen) /\ Gates(o, v, seen)
<1> DEFINE S == Statements(o, v, seen)
<1>1. Statements(o, v, seen) = SetPrivacy(v)
  BY Zenon DEF Statements
<1>2. /\ Len(S) = 2 /\ S[1] = LockLiveStudent(v) /\ S[2] = Ends(Upsert(v, Privacy, "shares"))
  BY <1>1 DEF SetPrivacy, Transaction
<1>3. \A pc : FitStep(o, pc, v, S[1]) /\ FitEnd(o, pc, v, S[2])
  BY <1>2, FitHelpers, FitPrivacy, FitWraps
<1>4. Lengths[o.does] = 2 /\ o.does # "Invite" BY DEF Lengths
<1>5. Fits(o, v, seen)
  BY <1>2, <1>3, <1>4 DEF Fits, FitAt
<1>6. Gates(o, v, seen)
  BY <1>2 DEF Gates, StudentGate, CourseGate, LinkGate
<1> QED BY <1>5, <1>6

LEMMA AcceptFits ==
  ASSUME NEW o, OpTyped(o), o.does = "Accept", NEW v, RowsTyped(v), NEW seen
  PROVE  Fits(o, v, seen) /\ Gates(o, v, seen)
<1> DEFINE S == Statements(o, v, seen)
           inv == At(v, o.inv)
           open == {j \in {o.inv} : inv.status = "pending"}
<1>1. Statements(o, v, seen) = Accept(v, o.inv)
  BY Zenon DEF Statements
<1>2. /\ Len(S) = 8 /\ S[1] = StopIf(inv.email # Address, Reads)
      /\ S[2] = StopIf(v[Block] # None, Reads) /\ S[3] = LockLiveStudent(v)
      /\ S[4] = InsertLink(v) /\ S[5] = ActivateLink(v)
      /\ S[6] = StopIf(inv.status \notin {"pending", "accepted"}, Answered(v, open, "accepted"))
      /\ S[7] = StopIf(v[Block] # None, Reads)
      /\ S[8] = Ends(Saying("accepted", Commit))
  BY <1>1 DEF Accept
<1>3. \A pc : FitStep(o, pc, v, S[1]) /\ FitStep(o, pc, v, S[2]) /\ FitStep(o, pc, v, S[7])
  BY <1>2, FitReads, FitWraps
<1>4. \A pc : FitStep(o, pc, v, S[3]) /\ FitStep(o, pc, v, S[4]) /\ FitStep(o, pc, v, S[5])
  BY <1>2, FitHelpers, FitLinks
<1>5. FitStep(o, 6, v, S[6])
  <2>1. open \subseteq Invitation /\ \A i \in open : v[Invited(i)] # None
    BY NoneIs DEF OpTyped, At, NoInvitation, Words
  <2>2. S[6] = StopIf(inv.status \notin {"pending", "accepted"}, Answered(v, open, "accepted"))
    BY <1>2
  <2>3. Touches(o, 6) BY DEF Touches, Touching
  <2> HIDE DEF open, S
  <2> QED BY <2>1, <2>2, <2>3, FitAnswered, FitWraps
<1>6. \A pc : FitEnd(o, pc, v, S[8])
  BY <1>2, FitReads, MaySay, FitSaying, FitWraps DEF Commit
<1>7. Lengths[o.does] = 8 /\ o.does # "Invite" BY DEF Lengths
<1>8. Fits(o, v, seen)
  BY <1>2, <1>3, <1>4, <1>5, <1>6, <1>7 DEF Fits, FitAt
<1>9. Gates(o, v, seen)
  BY <1>2 DEF Gates, StudentGate, CourseGate, LinkGate
<1> QED BY <1>8, <1>9

LEMMA DeclineFits ==
  ASSUME NEW o, OpTyped(o), o.does = "Decline", NEW v, RowsTyped(v), NEW seen
  PROVE  Fits(o, v, seen) /\ Gates(o, v, seen)
<1> DEFINE S == Statements(o, v, seen)
           open == {j \in {o.inv} : At(v, j).status = "pending" /\ At(v, j).email = Address}
<1>1. Statements(o, v, seen) = Decline(v, o.inv)
  BY Zenon DEF Statements
<1>2. /\ Len(S) = 3 /\ S[1] = StopIf(At(v, o.inv).email # Address, Reads)
      /\ S[2] = StopIf(open = {}, Answered(v, open, "declined"))
      /\ S[3] = Ends(Saying("declined", UpsertBlock(v)))
  BY <1>1 DEF Decline
<1>3. \A pc : FitStep(o, pc, v, S[1])
  BY <1>2, FitReads, FitWraps
<1>4. FitStep(o, 2, v, S[2])
  <2>1. open \subseteq Invitation /\ \A i \in open : v[Invited(i)] # None
    BY NoneIs DEF OpTyped, At, NoInvitation, Words
  <2>2. S[2] = StopIf(open = {}, Answered(v, open, "declined"))
    BY <1>2
  <2>3. Touches(o, 2) BY DEF Touches, Touching
  <2> HIDE DEF open, S
  <2> QED BY <2>1, <2>2, <2>3, FitAnswered, FitWraps
<1>5. \A pc : FitEnd(o, pc, v, S[3])
  BY <1>2, FitHelpers, MaySay, FitSaying, FitWraps
<1>6. Lengths[o.does] = 3 /\ o.does # "Invite" BY DEF Lengths
<1>7. Fits(o, v, seen)
  BY <1>2, <1>3, <1>4, <1>5, <1>6 DEF Fits, FitAt
<1>8. Gates(o, v, seen)
  BY DEF Gates, StudentGate, CourseGate, LinkGate
<1> QED BY <1>7, <1>8

(* Names for what the statements of an unlink and an erasure are about.    *)
Courses(S) == {Course(c) : c \in S}
WaitingIn(v) == {c \in Class : v[Queued(c)] = "waiting"}
Leaves(v, seen) == [r \in {Queued(c) : c \in seen.queues \cap WaitingIn(v)} |-> "left"]
Relinked(v, seen) == v[Link] = None \/ v[Link].id # seen.link.id
DeliveredTo(v) == {i \in HolderOf(v, Address) : At(v, i).delivered}

LEMMA UnlinkFits ==
  ASSUME NEW o, OpTyped(o), o.does = "Unlink", NEW v, RowsTyped(v),
         NEW seen, SeenTyped(o, seen)
  PROVE  Fits(o, v, seen) /\ Gates(o, v, seen)
<1> DEFINE S == Statements(o, v, seen)
<1>1. /\ Len(S) = 9 /\ S[1] = Keeping([link |-> v[Link]], StopIf(v[Link] = None, Reads))
      /\ S[2] = LockLiveStudent(v) /\ S[3] = Keeping([queues |-> WaitingIn(v)], Reads)
      /\ S[4] = LocksInOrder(Courses(seen.queues)) /\ S[5] = Writes(Leaves(v, seen))
      /\ S[6] = Upsert(v, Privacy, "silent")
      /\ S[7] = StopIf(Relinked(v, seen), Deletes({Link}))
      /\ S[8] = Answered(v, DeliveredTo(v), "declined")
      /\ S[9] = Ends(Saying("left", UpsertBlock(v)))
  <2>1. S = Unlink(v, seen)
    BY Zenon DEF Statements
  <2> QED BY <2>1 DEF Unlink, DeliveredTo, Relinked, Courses, WaitingIn, Leaves
<1>2. FitStep(o, 1, v, S[1]) /\ FitStep(o, 2, v, S[2]) /\ FitStep(o, 3, v, S[3])
  <2>1. FitStep(o, 2, v, S[2]) BY <1>1, FitHelpers
  <2>2. FitStep(o, 1, v, S[1]) /\ FitStep(o, 3, v, S[3]) BY <1>1, FitReads, FitWraps
  <2> QED BY <2>1, <2>2
<1>3. \A pc : FitStep(o, pc, v, S[4])
  <2>1. Courses(seen.queues) \in SUBSET Rows BY RowsAre DEF SeenTyped, Courses
  <2> QED BY <1>1, <2>1, FitLocks
<1>4. \A pc : FitStep(o, pc, v, S[5])
  <2>1. \A pc : MayPutAll(o, pc, v, Leaves(v, seen))
    <3>1. \A c \in Class : Allowed(o, Queued(c), "left") /\ ~AtTheEnd(o, Queued(c))
      BY RowTags DEF Allowed, AtTheEnd
    <3> QED BY <3>1, MayPutRoster, RowsAre, RowTags DEF MayPutAll, SeenTyped, Leaves
  <2> QED BY <1>1, <2>1, FitWrites
<1>5. \A pc : FitStep(o, pc, v, S[6])
  BY <1>1, FitPrivacy
<1>6. \A pc : FitStep(o, pc, v, S[7])
  <2>1. Allowed(o, Link, None) /\ ~AtTheEnd(o, Link)
    BY RowTags DEF Allowed, AtTheEnd
  <2>2. \A pc : MayPutAll(o, pc, v, [r \in {Link} |-> None])
    BY <2>1, MayPutRoster, RowsAre, RowTags DEF MayPutAll
  <2>3. \A pc : FitStep(o, pc, v, Deletes({Link}))
    BY <2>2, FitDeletes
  <2> QED BY <1>1, <2>3, FitWraps
<1>7. FitStep(o, 8, v, S[8])
  <2>1. DeliveredTo(v) \subseteq Invitation /\ \A i \in DeliveredTo(v) : v[Invited(i)] # None
    BY HoldersExist DEF Addresses, DeliveredTo
  <2>2. Touches(o, 8) BY DEF Touches, Touching
  <2> QED BY <1>1, <2>1, <2>2, FitAnswered
<1>8. \A pc : FitEnd(o, pc, v, S[9])
  BY <1>1, FitHelpers, MaySay, FitSaying, FitWraps
<1>9. Lengths[o.does] = 9 /\ o.does # "Invite" BY DEF Lengths
<1>10. Fits(o, v, seen)
  BY <1>1, <1>2, <1>3, <1>4, <1>5, <1>6, <1>7, <1>8, <1>9 DEF Fits, FitAt
<1>11. Gates(o, v, seen)
  BY <1>1 DEF Gates, StudentGate, CourseGate, LinkGate
<1> QED BY <1>10, <1>11

LEMMA CancelFits ==
  ASSUME NEW o, OpTyped(o), o.does = "Cancel", NEW v, RowsTyped(v), NEW seen
  PROVE  Fits(o, v, seen) /\ Gates(o, v, seen)
<1> DEFINE S == Statements(o, v, seen)
           c == o.class
           gone == [r \in {Booking(c)} |-> "cancelled"]
<1>1. Statements(o, v, seen) = Cancel(v, c)
  BY Zenon DEF Statements
<1>2. /\ Len(S) = 2 /\ S[1] = LockOpenClass(v, c)
      /\ S[2] = Ends(StopIf(v[Booking(c)] # "charged", Writes(gone)))
  BY <1>1 DEF Cancel, Transaction
<1>3. \A pc : FitStep(o, pc, v, S[1])
  BY <1>2, FitHelpers DEF OpTyped
<1>4. \A pc : FitEnd(o, pc, v, S[2])
  <2>1. Allowed(o, Booking(c), "cancelled") /\ ~AtTheEnd(o, Booking(c)) /\ Booking(c) \in Rows
    BY RowTags, RowsAre DEF Allowed, AtTheEnd, OpTyped
  <2>2. \A pc : MayPutAll(o, pc, v, gone)
    BY <2>1, MayPutRoster, RowTags DEF MayPutAll
  <2>3. S[2] = Ends(StopIf(v[Booking(c)] # "charged", Writes(gone))) BY <1>2
  <2> HIDE DEF gone, S
  <2> QED BY <2>2, <2>3, FitWrites, FitWraps
<1>5. Lengths[o.does] = 2 /\ o.does # "Invite" BY DEF Lengths
<1>6. Fits(o, v, seen)
  BY <1>2, <1>3, <1>4, <1>5 DEF Fits, FitAt
<1>7. Gates(o, v, seen)
  BY <1>2 DEF Gates, StudentGate, CourseGate, LinkGate
<1> QED BY <1>6, <1>7

(* Names for what a completion writes.                                     *)
Billed(v, c) == {r \in {Booking(c)} : v[r] = "charged"}
Priced(v, c) == [r \in Billed(v, c) |-> v[r]]
Owing(c, seen) == [r \in {Owed(c) : q \in seen.billed} |-> "open"]

LEMMA CompleteIs ==
  ASSUME NEW o, o.does = "Complete", NEW v, NEW seen
  PROVE  LET S == Statements(o, v, seen)
             c == o.class
         IN  /\ Len(S) = 4 /\ S[1] = LockOpenClass(v, c)
             /\ S[2] = Writes([r \in {Course(c)} |-> "completed"])
             /\ S[3] = Keeping([billed |-> Billed(v, c)], Writes(Priced(v, c)))
             /\ S[4] = Ends(Inserts(Owing(c, seen)))
<1>1. Statements(o, v, seen) = Complete(v, seen, o.class)
  BY Zenon DEF Statements
<1> QED BY <1>1 DEF Complete, Transaction, Billed, Priced, Owing

LEMMA CompleteFits ==
  ASSUME NEW o, OpTyped(o), o.does = "Complete", NEW v, RowsTyped(v), NEW seen
  PROVE  Fits(o, v, seen) /\ Gates(o, v, seen)
<1> DEFINE S == Statements(o, v, seen)
           c == o.class
           done == [r \in {Course(c)} |-> "completed"]
<1>1. /\ Len(S) = 4 /\ S[1] = LockOpenClass(v, c) /\ S[2] = Writes(done)
      /\ S[3] = Keeping([billed |-> Billed(v, c)], Writes(Priced(v, c))) /\ S[4] = Ends(Inserts(Owing(c, seen)))
  BY CompleteIs
<1>2. {Course(c), Booking(c), Owed(c)} \subseteq Rows
  BY RowsAre DEF OpTyped
<1>3. \A pc : FitStep(o, pc, v, S[1])
  BY <1>1, FitHelpers DEF OpTyped
<1>4. \A pc : FitStep(o, pc, v, S[2])
  <2>1. Allowed(o, Course(c), "completed") /\ ~AtTheEnd(o, Course(c))
    BY RowTags DEF Allowed, AtTheEnd
  <2>2. \A pc : MayPutAll(o, pc, v, done)
    BY <1>2, <2>1, MayPutRoster, RowTags DEF MayPutAll
  <2>3. S[2] = Writes(done) BY <1>1
  <2> HIDE DEF done, S
  <2> QED BY <2>2, <2>3, FitWrites
<1>5. \A pc : FitStep(o, pc, v, S[3])
  <2>1. Allowed(o, Booking(c), "charged") /\ ~AtTheEnd(o, Booking(c))
    BY RowTags DEF Allowed, AtTheEnd
  <2>2. \A pc : MayPutAll(o, pc, v, Priced(v, c))
    BY <1>2, <2>1, MayPutRoster, RowTags DEF MayPutAll, Priced, Billed
  <2> QED BY <1>1, <2>2, FitWrites, FitWraps
<1>6. FitEnd(o, 4, v, S[4])
  <2>1. Allowed(o, Owed(c), "open") /\ Lengths[o.does] = 4 /\ ~Readdresses(o, 4)
    BY RowTags DEF Allowed, Lengths, Readdresses
  <2>2. /\ MayPutAll(o, 4, v, Owing(c, seen))
        /\ \A r \in DOMAIN Owing(c, seen) : r # Student /\ r[1] # "invitation"
    BY <1>2, <2>1, RowTags DEF MayPutAll, MayPut, Owing
  <2> QED BY <1>1, <2>2, FitInserts, FitWraps
<1>7. Lengths[o.does] = 4 /\ o.does # "Invite" BY DEF Lengths
<1>8. Fits(o, v, seen)
  BY <1>1, <1>3, <1>4, <1>5, <1>6, <1>7 DEF Fits, FitAt
<1>9. Gates(o, v, seen)
  BY <1>1 DEF Gates, StudentGate, CourseGate, LinkGate
<1> QED BY <1>8, <1>9

LEMMA SettleFits ==
  ASSUME NEW o, OpTyped(o), o.does \in {"Pay", "Waive"}, NEW v, RowsTyped(v), NEW seen
  PROVE  Fits(o, v, seen) /\ Gates(o, v, seen)
<1> DEFINE S == Statements(o, v, seen)
           c == o.class
           as == IF o.does = "Pay" THEN "settled" ELSE "waived"
           closed == [r \in {q \in {Owed(c)} : v[q] = "open"} |-> as]
<1>1. Statements(o, v, seen) = Settle(v, c, as)
  <2>1. CASE o.does = "Pay"
    <3>1. S = Settle(v, c, "settled") BY <2>1, Zenon DEF Statements
    <3> QED BY <2>1, <3>1
  <2>2. CASE o.does = "Waive"
    <3>1. S = Settle(v, c, "waived") BY <2>2, Zenon DEF Statements
    <3> QED BY <2>2, <3>1
  <2> QED BY <2>1, <2>2
<1>2. Len(S) = 1 /\ S[1] = Ends(Writes(closed))
  BY <1>1 DEF Settle, Transaction
<1>3. \A pc : FitEnd(o, pc, v, S[1])
  <2>1. Allowed(o, Owed(c), as) /\ ~AtTheEnd(o, Owed(c)) /\ Owed(c) \in Rows
    BY RowTags, RowsAre DEF Allowed, AtTheEnd, OpTyped
  <2>2. \A pc : MayPutAll(o, pc, v, closed)
    BY <2>1, MayPutRoster, RowTags DEF MayPutAll
  <2>3. S[1] = Ends(Writes(closed)) BY <1>2
  <2> HIDE DEF closed, S
  <2> QED BY <2>2, <2>3, FitWrites, FitWraps
<1>4. Lengths[o.does] = 1 /\ o.does # "Invite" BY DEF Lengths
<1>5. Fits(o, v, seen)
  BY <1>2, <1>3, <1>4 DEF Fits, FitAt
<1>6. Gates(o, v, seen)
  BY DEF Gates, StudentGate, CourseGate, LinkGate
<1> QED BY <1>5, <1>6

(* A request that writes the link under which somebody is archived.        *)
Marked(v, filed) == [r \in Existing(v, {Link}) |-> [v[r] EXCEPT !.filed = filed]]

LEMMA FitMarked ==
  ASSUME NEW o, OpTyped(o), NEW v, RowsTyped(v), NEW filed \in BOOLEAN,
         \/ o.does = "Archive" /\ filed
         \/ o.does \in {"Reopen", "Unarchive"} /\ ~filed
  PROVE  FitStep(o, Lengths[o.does], v, Writes(Marked(v, filed)))
<1> DEFINE pc == Lengths[o.does]
<1>1. ASSUME NEW r \in DOMAIN Marked(v, filed) PROVE MayPut(o, pc, v, r, Marked(v, filed)[r])
  <2>1. r = Link /\ v[Link] \in LinkRow /\ Marked(v, filed)[r] = [v[Link] EXCEPT !.filed = filed]
    BY DEF Marked, Existing, RowsTyped
  <2>2. Marked(v, filed)[r] \in LinkRow /\ Marked(v, filed)[r].filed = filed
    BY <2>1 DEF LinkRow
  <2>3. Allowed(o, Link, Marked(v, filed)[r])
    BY <2>2, RowTags DEF Allowed
  <2>4. ~Readdresses(o, pc) BY DEF Readdresses
  <2> QED BY <2>1, <2>3, <2>4, RowsAre, RowTags DEF MayPut
<1>2. MayPutAll(o, pc, v, Marked(v, filed)) BY <1>1 DEF MayPutAll
<1> QED BY <1>2, FitWrites

(* Names for what a reopening and an archive write.                        *)
Closed(v, c) == {r \in {Owed(c)} : v[r] \in {"settled", "waived"}}
Restored(v, seen) == [r \in {q \in {Link} : seen.filed} |-> [v[r] EXCEPT !.filed = FALSE]]
OpenIn(v) == {Owed(c) : c \in {d \in Class : v[Owed(d)] = "open"}}
LiveIn(v) == {c \in Class : v[Booking(c)] = "charged" /\ v[Course(c)] = "open"}
Waived(v, seen) == [r \in seen.billed \cap OpenIn(v) |-> "waived"]

(* A reopening that found the link archived has it locked: it is there.    *)
Ready(o, v, seen) == o.does = "Reopen" /\ seen.filed => v[Link] # None

LEMMA ReopenIs ==
  ASSUME NEW o, o.does = "Reopen", NEW v, NEW seen
  PROVE  LET S == Statements(o, v, seen)
             c == o.class
         IN  /\ Len(S) = 5 /\ S[1] = StopIf(v[Owed(c)] = None, Reads)
             /\ S[2] = Keeping([filed |-> IsFiled(v)], Locks({Link}, Update))
             /\ S[3] = Locks({Owed(c)}, Update)
             /\ S[4] = StopIf(Closed(v, c) = {}, Writes([r \in Closed(v, c) |-> "open"]))
             /\ S[5] = Ends(Writes(Restored(v, seen)))
<1>1. Statements(o, v, seen) = Reopen(v, seen, o.class)
  BY Zenon DEF Statements
<1> QED BY <1>1 DEF Reopen, Transaction, Closed, Restored

LEMMA ReopenFits ==
  ASSUME NEW o, OpTyped(o), o.does = "Reopen", NEW v, RowsTyped(v),
         NEW seen, SeenTyped(o, seen), Ready(o, v, seen)
  PROVE  Fits(o, v, seen) /\ Gates(o, v, seen)
<1> DEFINE S == Statements(o, v, seen)
           c == o.class
           reopened == [r \in Closed(v, c) |-> "open"]
<1>1. /\ Len(S) = 5 /\ S[1] = StopIf(v[Owed(c)] = None, Reads)
      /\ S[2] = Keeping([filed |-> IsFiled(v)], Locks({Link}, Update))
      /\ S[3] = Locks({Owed(c)}, Update)
      /\ S[4] = StopIf(Closed(v, c) = {}, Writes(reopened))
      /\ S[5] = Ends(Writes(Restored(v, seen)))
  BY ReopenIs, ZenonT(60)
<1>2. Owed(c) \in Rows BY RowsAre DEF OpTyped
<1>3. \A pc : FitStep(o, pc, v, S[1])
  BY <1>1, FitReads, FitWraps
<1>4. \A pc : FitStep(o, pc, v, S[2]) /\ FitStep(o, pc, v, S[3])
  <2>1. {Link} \in SUBSET Rows /\ {Owed(c)} \in SUBSET Rows BY <1>2, RowsAre
  <2>2. \A pc : FitStep(o, pc, v, Locks({Link}, Update)) /\ FitStep(o, pc, v, Locks({Owed(c)}, Update))
    BY <2>1, FitLocks
  <2> QED BY <1>1, <2>2, FitWraps
<1>5. \A pc : FitStep(o, pc, v, S[4])
  <2>1. Allowed(o, Owed(c), "open") /\ ~AtTheEnd(o, Owed(c))
    BY RowTags DEF Allowed, AtTheEnd
  <2>2. \A pc : MayPutAll(o, pc, v, reopened)
    BY <1>2, <2>1, MayPutRoster, RowTags DEF MayPutAll, Closed
  <2>3. S[4] = StopIf(Closed(v, c) = {}, Writes(reopened)) BY <1>1
  <2> HIDE DEF reopened, S
  <2> QED BY <2>2, <2>3, FitWrites, FitWraps
<1>6. Lengths[o.does] = 5 /\ o.does # "Invite" BY DEF Lengths
<1>7. FitEnd(o, 5, v, S[5])
  <2>1. ASSUME NEW r \in DOMAIN Restored(v, seen)
        PROVE  MayPut(o, 5, v, r, Restored(v, seen)[r])
    <3>1. /\ r = Link /\ v[Link] \in LinkRow
          /\ Restored(v, seen)[r] = [v[Link] EXCEPT !.filed = FALSE]
      BY DEF Restored, Ready, RowsTyped
    <3>2. Restored(v, seen)[r] \in LinkRow /\ ~Restored(v, seen)[r].filed
      BY <3>1 DEF LinkRow
    <3>3. Allowed(o, Link, Restored(v, seen)[r])
      BY <3>2, RowTags DEF Allowed
    <3> QED BY <1>6, <3>1, <3>3, RowsAre, RowTags DEF MayPut
  <2>2. MayPutAll(o, 5, v, Restored(v, seen)) BY <2>1 DEF MayPutAll
  <2> QED BY <1>1, <2>2, FitWrites, FitWraps
<1>8. Fits(o, v, seen)
  BY <1>1, <1>3, <1>4, <1>5, <1>6, <1>7 DEF Fits, FitAt
<1>9. Gates(o, v, seen)
  BY DEF Gates, StudentGate, CourseGate, LinkGate
<1> QED BY <1>8, <1>9

LEMMA ArchiveIs ==
  ASSUME NEW o, o.does = "Archive", NEW v, NEW seen
  PROVE  LET S == Statements(o, v, seen)
         IN  /\ Len(S) = 5
             /\ S[1] = StopIf(v[Link] = None \/ IsFiled(v), Locks({Link}, Update))
             /\ S[2] = StopIf(LiveIn(v) # {}, Reads)
             /\ S[3] = Keeping([billed |-> OpenIn(v)],
                               StopIf(OpenIn(v) # {} /\ ~o.waive, Reads))
             /\ S[4] = StopIf(~(seen.billed \subseteq OpenIn(v)), Writes(Waived(v, seen)))
             /\ S[5] = Ends(Writes(Marked(v, TRUE)))
<1>1. Statements(o, v, seen) = Archive(v, seen, o.waive)
  BY Zenon DEF Statements
<1> QED BY <1>1 DEF Archive, Transaction, LiveIn, OpenIn, Waived, Marked

LEMMA ArchiveFits ==
  ASSUME NEW o, OpTyped(o), o.does = "Archive", NEW v, RowsTyped(v),
         NEW seen, SeenTyped(o, seen)
  PROVE  Fits(o, v, seen) /\ Gates(o, v, seen)
<1> DEFINE S == Statements(o, v, seen)
<1>1. /\ Len(S) = 5
      /\ S[1] = StopIf(v[Link] = None \/ IsFiled(v), Locks({Link}, Update))
      /\ S[2] = StopIf(LiveIn(v) # {}, Reads)
      /\ S[3] = Keeping([billed |-> OpenIn(v)], StopIf(OpenIn(v) # {} /\ ~o.waive, Reads))
      /\ S[4] = StopIf(~(seen.billed \subseteq OpenIn(v)), Writes(Waived(v, seen)))
      /\ S[5] = Ends(Writes(Marked(v, TRUE)))
  BY ArchiveIs
<1>2. \A pc : FitStep(o, pc, v, S[1])
  <2>1. {Link} \in SUBSET Rows BY RowsAre
  <2>2. \A pc : FitStep(o, pc, v, Locks({Link}, Update)) BY <2>1, FitLocks
  <2> QED BY <1>1, <2>2, FitWraps
<1>3. \A pc : FitStep(o, pc, v, S[2]) /\ FitStep(o, pc, v, S[3])
  BY <1>1, FitReads, FitWraps
<1>4. \A pc : FitStep(o, pc, v, S[4])
  <2>1. \A c \in Class : /\ Allowed(o, Owed(c), "waived") /\ ~AtTheEnd(o, Owed(c))
                         /\ Owed(c) \in Rows
    BY RowTags, RowsAre DEF Allowed, AtTheEnd
  <2>2. \A pc : MayPutAll(o, pc, v, Waived(v, seen))
    BY <2>1, MayPutRoster, RowTags DEF MayPutAll, Waived, OpenIn
  <2> QED BY <1>1, <2>2, FitWrites, FitWraps
<1>5. Lengths[o.does] = 5 /\ o.does # "Invite" BY DEF Lengths
<1>6. FitEnd(o, 5, v, S[5])
  BY <1>1, <1>5, FitMarked, FitWraps
<1>7. Fits(o, v, seen)
  <2>1. Len(S) = 5 BY <1>1
  <2> QED BY <1>2, <1>3, <1>4, <1>5, <1>6, <2>1 DEF Fits, FitAt
<1>8. Gates(o, v, seen)
  BY DEF Gates, StudentGate, CourseGate, LinkGate
<1> QED BY <1>7, <1>8

LEMMA UnarchiveFits ==
  ASSUME NEW o, OpTyped(o), o.does = "Unarchive", NEW v, RowsTyped(v), NEW seen
  PROVE  Fits(o, v, seen) /\ Gates(o, v, seen)
<1> DEFINE S == Statements(o, v, seen)
<1>1. Statements(o, v, seen) = Unarchive(v)
  BY Zenon DEF Statements
<1>2. /\ Len(S) = 2 /\ S[1] = StopIf(~IsFiled(v), Reads) /\ S[2] = Ends(Writes(Marked(v, FALSE)))
  BY <1>1 DEF Unarchive, Marked
<1>3. Lengths[o.does] = 2 /\ o.does # "Invite" BY DEF Lengths
<1>4. FitStep(o, 1, v, S[1]) /\ FitEnd(o, 2, v, S[2])
  BY <1>2, <1>3, FitReads, FitMarked, FitWraps
<1>5. Fits(o, v, seen)
  <2>1. Len(S) = 2 BY <1>2
  <2> QED BY <1>3, <1>4, <2>1 DEF Fits, FitAt
<1>6. Gates(o, v, seen)
  BY DEF Gates, StudentGate, CourseGate, LinkGate
<1> QED BY <1>5, <1>6

LEMMA ResendFits ==
  ASSUME NEW o, OpTyped(o), o.does = "Resend", NEW v, RowsTyped(v),
         NEW seen, SeenTyped(o, seen)
  PROVE  Fits(o, v, seen) /\ Gates(o, v, seen)
<1> DEFINE S == Statements(o, v, seen)
           stamped == [r \in Existing(v, {Invited(o.inv)}) |-> [v[r] EXCEPT !.told = seen.email]]
<1>1. Statements(o, v, seen) = Resend(v, seen, o.inv)
  BY Zenon DEF Statements
<1>2. /\ Len(S) = 2
      /\ S[1] = Keeping([email |-> At(v, o.inv).email],
                        StopIf(At(v, o.inv).status # "pending", Reads))
      /\ S[2] = Ends(Writes(stamped))
  BY <1>1 DEF Resend
<1>3. \A pc : FitStep(o, pc, v, S[1])
  BY <1>2, FitReads, FitWraps
<1>4. FitEnd(o, 2, v, S[2])
  <2>1. ASSUME NEW r \in DOMAIN stamped PROVE MayPut(o, 2, v, r, stamped[r])
    <3>1. r = Invited(o.inv) /\ r \in Rows /\ v[r] \in InvitationRow
      BY RowsAre DEF Existing, OpTyped, RowsTyped
    <3>2. stamped[r] = [v[r] EXCEPT !.told = seen.email]
      OBVIOUS
    <3>3. stamped[r] \in InvitationRow /\ stamped[r].email = v[r].email
      BY <3>1, <3>2 DEF InvitationRow, SeenTyped, Addresses
    <3>4. Touches(o, 2) BY DEF Touches, Touching
    <3> QED BY <3>1, <3>3, <3>4, RowTags, NoneIs DEF MayPut, Allowed, AtTheEnd
  <2>2. MayPutAll(o, 2, v, stamped) BY <2>1 DEF MayPutAll
  <2>3. S[2] = Ends(Writes(stamped)) BY <1>2
  <2> HIDE DEF stamped, S
  <2> QED BY <2>2, <2>3, FitWrites, FitWraps
<1>5. Lengths[o.does] = 2 /\ o.does # "Invite" BY DEF Lengths
<1>6. Fits(o, v, seen)
  BY <1>2, <1>3, <1>4, <1>5 DEF Fits, FitAt
<1>7. Gates(o, v, seen)
  BY DEF Gates, StudentGate, CourseGate, LinkGate
<1> QED BY <1>6, <1>7

(* A statement that gives an address to an invitation or frees it.         *)
LEMMA MayPutAddress ==
  ASSUME NEW o, NEW pc, Readdresses(o, pc), NEW v
  PROVE  /\ \A e : \A val \in {None, "taken"} : MayPut(o, pc, v, Key(e), val)
         /\ Touches(o, pc) => \A i \in Invitation :
              /\ \A val \in InvitationRow : MayPut(o, pc, v, Invited(i), val)
              /\ o.does = "Remove" => MayPut(o, pc, v, Invited(i), None)
  BY RowTags, RowsAre DEF MayPut, Allowed, AtTheEnd

LEMMA RemoveIs ==
  ASSUME NEW o, o.does = "Remove", NEW v, NEW seen
  PROVE  LET S == Statements(o, v, seen)
             inv == At(v, o.inv)
         IN  /\ Len(S) = 2 /\ S[1] = StopIf(inv.status \notin {"pending", "accepted"}, Reads)
             /\ S[2] = Ends(Also([k \in {Key(inv.email)} |-> None],
                         StopIf(inv.status \notin {"pending", "accepted"}, Deletes({Invited(o.inv)}))))
<1>1. Statements(o, v, seen) = Remove(v, o.inv)
  BY Zenon DEF Statements
<1> QED BY <1>1 DEF Remove

LEMMA RemoveFits ==
  ASSUME NEW o, OpTyped(o), o.does = "Remove", NEW v, RowsTyped(v), NEW seen
  PROVE  Fits(o, v, seen) /\ Gates(o, v, seen)
<1> DEFINE S == Statements(o, v, seen)
           inv == At(v, o.inv)
           freed == [k \in {Key(inv.email)} |-> None]
           gone == StopIf(inv.status \notin {"pending", "accepted"}, Deletes({Invited(o.inv)}))
<1>1. /\ Len(S) = 2 /\ S[1] = StopIf(inv.status \notin {"pending", "accepted"}, Reads)
      /\ S[2] = Ends(Also(freed, gone))
  BY RemoveIs
<1>2. \A pc : FitStep(o, pc, v, S[1])
  BY <1>1, FitReads, FitWraps
<1>3. FitEnd(o, 2, v, S[2])
  <2>1. Readdresses(o, 2) /\ Touches(o, 2) BY DEF Readdresses, Touches, Touching
  <2>2. MayPutAll(o, 2, v, freed) /\ \A r \in DOMAIN freed : ~Lockable(r)
    BY <2>1, MayPutAddress, RowTags DEF MayPutAll, Lockable
  <2>3. MayPutAll(o, 2, v, [r \in {Invited(o.inv)} |-> None])
    BY <2>1, MayPutAddress DEF MayPutAll, OpTyped
  <2>4. FitStep(o, 2, v, gone)
    BY <2>3, FitDeletes, FitWraps
  <2>5. S[2] = Ends(Also(freed, gone)) BY <1>1
  <2> HIDE DEF freed, gone, S
  <2> QED BY <2>2, <2>4, <2>5, FitAlso, FitWraps
<1>4. Lengths[o.does] = 2 /\ o.does # "Invite" BY DEF Lengths
<1>5. Fits(o, v, seen)
  BY <1>1, <1>2, <1>3, <1>4 DEF Fits, FitAt
<1>6. Gates(o, v, seen)
  BY DEF Gates, StudentGate, CourseGate, LinkGate
<1> QED BY <1>5, <1>6

(* Names for what an edit writes.                                          *)
Edited(v, seen, o) ==
  [r \in Existing(v, {Invited(o.inv)}) |->
     [At(v, o.inv) EXCEPT !.email = o.to, !.delivered = @ /\ o.to = seen.email]]
Moved(seen, o) == {k \in {Key(o.to)} : seen.held # o.to}
TakenBy(ks) == [k \in ks |-> "taken"]
FreedFor(seen, o) == [k \in {Key(seen.held) : m \in Moved(seen, o)} |-> None]

LEMMA EditIs ==
  ASSUME NEW o, o.does = "Edit", NEW v, NEW seen
  PROVE  LET S == Statements(o, v, seen)
             inv == At(v, o.inv)
         IN  /\ Len(S) = 3
             /\ S[1] = Keeping([email |-> inv.email], StopIf(inv.status # "pending", Reads))
             /\ S[2] = Keeping([held |-> inv.email],
                               StopIf(inv.status # "pending", Writes(Edited(v, seen, o))))
             /\ S[3] = Ends(StopIf(Existing(v, Moved(seen, o)) # {},
                              Also(FreedFor(seen, o), Inserts(TakenBy(Moved(seen, o))))))
<1>1. Statements(o, v, seen) = Edit(v, seen, o.inv, o.to)
  BY Zenon DEF Statements
<1> QED BY <1>1 DEF Edit, Edited, Moved, TakenBy, FreedFor

LEMMA EditFits ==
  ASSUME NEW o, OpTyped(o), o.does = "Edit", NEW v, RowsTyped(v), NEW seen
  PROVE  Fits(o, v, seen) /\ Gates(o, v, seen)
<1> DEFINE S == Statements(o, v, seen)
           inv == At(v, o.inv)
<1>1. /\ Len(S) = 3
      /\ S[1] = Keeping([email |-> inv.email], StopIf(inv.status # "pending", Reads))
      /\ S[2] = Keeping([held |-> inv.email],
                        StopIf(inv.status # "pending", Writes(Edited(v, seen, o))))
      /\ S[3] = Ends(StopIf(Existing(v, Moved(seen, o)) # {},
                       Also(FreedFor(seen, o), Inserts(TakenBy(Moved(seen, o))))))
  BY EditIs
<1>2. \A pc : FitStep(o, pc, v, S[1])
  BY <1>1, FitReads, FitWraps
<1>3. FitStep(o, 2, v, S[2])
  <2>1. ASSUME NEW r \in DOMAIN Edited(v, seen, o)
        PROVE  r = Invited(o.inv) /\ Edited(v, seen, o)[r] \in InvitationRow
    <3>1. r = Invited(o.inv) /\ v[r] \in InvitationRow /\ inv = v[r] /\ o.to \in Addresses
      BY NoneIs DEF Existing, OpTyped, RowsTyped, Edited, At, Addresses
    <3>2. Edited(v, seen, o)[r] =
            [v[r] EXCEPT !.email = o.to, !.delivered = @ /\ o.to = seen.email]
      BY <3>1 DEF Edited
    <3> QED BY <3>1, <3>2 DEF InvitationRow, Addresses
  <2>2. MayPutAll(o, 2, v, Edited(v, seen, o))
    BY <2>1, MayPutAddress DEF MayPutAll, OpTyped, Readdresses, Touches, Touching
  <2> QED BY <1>1, <2>2, FitWrites, FitWraps
<1>4. FitEnd(o, 3, v, S[3])
  <2>1. /\ MayPutAll(o, 3, v, TakenBy(Moved(seen, o)))
        /\ MayPutAll(o, 3, v, FreedFor(seen, o))
    BY MayPutAddress DEF MayPutAll, Readdresses, TakenBy, FreedFor, Moved
  <2>2. \A r \in DOMAIN FreedFor(seen, o) : ~Lockable(r)
    BY RowTags DEF Lockable, FreedFor
  <2>3. DOMAIN TakenBy(Moved(seen, o)) = Moved(seen, o)
        /\ \A r \in Moved(seen, o) : r # Student /\ r[1] # "invitation"
    BY RowTags DEF TakenBy, Moved
  <2>4. FitStep(o, 3, v, Inserts(TakenBy(Moved(seen, o))))
    BY <2>1, <2>3, FitInserts
  <2> QED BY <1>1, <2>1, <2>2, <2>4, FitAlso, FitWraps
<1>5. Lengths[o.does] = 3 /\ o.does # "Invite" BY DEF Lengths
<1>6. Fits(o, v, seen)
  <2>1. Len(S) = 3 BY <1>1
  <2> QED BY <1>2, <1>3, <1>4, <1>5, <2>1 DEF Fits, FitAt
<1>7. Gates(o, v, seen)
  BY DEF Gates, StudentGate, CourseGate, LinkGate
<1> QED BY <1>6, <1>7

(* Names for what an invite writes.                                        *)
FreeIds(v) == {i \in scope.invitations : v[Invited(i)] = None}
Mine(seen) == {Invited(i) : i \in {seen.id} \ {None}}
AcceptedOf(v, seen) == {r \in Existing(v, Mine(seen)) : v[r].status = "accepted"}
FreshInvitation(delivered) ==
  [email |-> Address, status |-> "pending", delivered |-> delivered, told |-> None]
Delivers(seen) == ~seen.blocked /\ ~seen.linked
Repended(v, seen) ==
  [r \in AcceptedOf(v, seen) |->
     [v[r] EXCEPT !.status = "pending", !.delivered = Delivers(seen)]]
Stamped(v, seen) == [r \in Existing(v, Mine(seen)) |-> [v[r] EXCEPT !.told = Address]]

LEMMA FitInsertInvitation ==
  ASSUME NEW o, NEW pc, Readdresses(o, pc), Touches(o, pc), NEW v,
         NEW free \in SUBSET Invitation, NEW fresh \in InvitationRow
  PROVE  FitStep(o, pc, v, InsertInvitation(free, fresh))
<1> DEFINE new == [r \in {Invited(i) : i \in {j \in free : \A k \in free : j <= k}} |-> fresh]
           entry == [k \in {Key(Address)} |-> "taken"]
<1>1. \A r \in DOMAIN new : r[1] = "invitation" /\ \E i \in Invitation : r = Invited(i)
  BY RowTags
<1>2. MayPutAll(o, pc, v, new)
  BY <1>1, MayPutAddress DEF MayPutAll
<1>3. MayPutAll(o, pc, v, entry) /\ \A r \in {Key(Address)} : r # Student /\ r[1] # "invitation"
  BY MayPutAddress, RowTags DEF MayPutAll
<1>4. DOMAIN entry = {Key(Address)} OBVIOUS
<1>5. InsertInvitation(free, fresh) = Also(new, Inserts(entry)) BY DEF InsertInvitation
<1> HIDE DEF new, entry
<1>6. FitStep(o, pc, v, Inserts(entry)) BY <1>3, <1>4, FitInserts
<1> QED BY <1>1, <1>2, <1>5, <1>6, FitAlso

LEMMA FreeIdsExist == ASSUME scope \in Scopes, NEW v PROVE FreeIds(v) \subseteq Invitation
  BY RosterAssumption DEF FreeIds

(* What stops an invite, and what its statements read.                     *)
InviteNotes(v) == [id |-> Lowest(HolderOf(v, Address)), status |-> StatusAt(v, Address)]
Pointless(v, seen) == v[Link] # None /\ (v[Privacy] = "shares" \/ seen.status = "accepted")
NoRoom(v) == FreeIds(v) = {} \/ v[Key(Address)] # None
NewInvitation(v, seen) ==
  Keeping([id |-> Lowest(FreeIds(v))],
    StopIf(NoRoom(v), InsertInvitation(FreeIds(v), FreshInvitation(Delivers(seen)))))

LEMMA InviteIs ==
  ASSUME NEW o, o.does = "Invite", NEW v, NEW seen
  PROVE  Statements(o, v, seen) = Invite(v, seen)
  BY Zenon DEF Statements

LEMMA InviteReads ==
  ASSUME NEW v, NEW seen
  PROVE  /\ Invite(v, seen)[1] = Keeping(InviteNotes(v),
              StopIf(StatusAt(v, Address) \in {"pending", "declined"}, Reads))
         /\ Invite(v, seen)[2] =
              Keeping([linked |-> v[Link] # None], StopIf(Pointless(v, seen), Reads))
         /\ Invite(v, seen)[3] = Keeping([blocked |-> v[Block] # None],
              StopIf(Mine(seen) = {} /\ FreeIds(v) = {}, Reads))
<1>1. Invite(v, seen)[1] = Keeping(InviteNotes(v),
         StopIf(StatusAt(v, Address) \in {"pending", "declined"}, Reads))
  BY DEF Invite, InviteNotes
<1>2. Invite(v, seen)[2] =
         Keeping([linked |-> v[Link] # None], StopIf(Pointless(v, seen), Reads))
  BY DEF Invite, Pointless
<1>3. Invite(v, seen)[3] = Keeping([blocked |-> v[Block] # None],
         StopIf(Mine(seen) = {} /\ FreeIds(v) = {}, Reads))
  BY DEF Invite, Mine, FreeIds
<1> QED BY <1>1, <1>2, <1>3

LEMMA InviteAdds ==
  ASSUME NEW v, NEW seen
  PROVE  /\ Len(Invite(v, seen)) = 5
         /\ Mine(seen) # {} => Invite(v, seen)[4] =
              Ends(StopIf(AcceptedOf(v, seen) = {}, Writes(Repended(v, seen))))
         /\ Mine(seen) = {} => Invite(v, seen)[4] = Ends(NewInvitation(v, seen))
         /\ Invite(v, seen)[5] = Ends(Writes(Stamped(v, seen)))
<1>1. Len(Invite(v, seen)) = 5
  BY DEF Invite
<1>2. Mine(seen) # {} => Invite(v, seen)[4] =
        Ends(StopIf(AcceptedOf(v, seen) = {}, Writes(Repended(v, seen))))
  BY DEF Invite, Mine, AcceptedOf, Repended, Delivers
<1>3. Mine(seen) = {} => Invite(v, seen)[4] = Ends(NewInvitation(v, seen))
  BY DEF Invite, Mine, NewInvitation, NoRoom, FreeIds, FreshInvitation, Delivers
<1>4. Invite(v, seen)[5] = Ends(Writes(Stamped(v, seen)))
  BY DEF Invite, Mine, Stamped
<1> QED BY <1>1, <1>2, <1>3, <1>4

LEMMA InviteFits ==
  ASSUME NEW o, OpTyped(o), o.does = "Invite", NEW v, RowsTyped(v),
         NEW seen, SeenTyped(o, seen), scope \in Scopes
  PROVE  Fits(o, v, seen) /\ Gates(o, v, seen)
<1> DEFINE S == Statements(o, v, seen)
<1>0. S = Invite(v, seen) BY InviteIs
<1>1. ASSUME NEW r \in Mine(seen) PROVE \E i \in Invitation : r = Invited(i)
  BY DEF Mine, SeenTyped
<1>2. FitStep(o, 1, v, S[1]) /\ FitStep(o, 2, v, S[2]) /\ FitStep(o, 3, v, S[3])
  <2>1. S[1] = Keeping(InviteNotes(v),
                 StopIf(StatusAt(v, Address) \in {"pending", "declined"}, Reads))
    BY <1>0, InviteReads
  <2>2. S[2] = Keeping([linked |-> v[Link] # None], StopIf(Pointless(v, seen), Reads))
    BY <1>0, InviteReads
  <2>3. S[3] = Keeping([blocked |-> v[Block] # None],
                 StopIf(Mine(seen) = {} /\ FreeIds(v) = {}, Reads))
    BY <1>0, InviteReads
  <2> QED BY <2>1, <2>2, <2>3, FitReads, FitWraps
<1>3. FitEnd(o, 4, v, S[4])
  <2>1. CASE Mine(seen) # {}
    <3>1. ASSUME NEW r \in AcceptedOf(v, seen)
          PROVE  MayPut(o, 4, v, r, Repended(v, seen)[r])
      <4>1. PICK i \in Invitation : r = Invited(i) /\ v[r] # None
        BY <1>1 DEF AcceptedOf, Existing
      <4>2. v[r] \in InvitationRow BY <4>1 DEF RowsTyped
      <4>3. Delivers(seen) \in BOOLEAN BY DEF Delivers
      <4>4. Repended(v, seen)[r] =
              [v[r] EXCEPT !.status = "pending", !.delivered = Delivers(seen)]
        BY DEF Repended
      <4>5. Repended(v, seen)[r] \in InvitationRow
        BY <4>2, <4>3, <4>4 DEF InvitationRow
      <4> QED BY <4>1, <4>5, MayPutAddress DEF Readdresses, Touches, Touching
    <3>2. MayPutAll(o, 4, v, Repended(v, seen)) BY <3>1 DEF MayPutAll, Repended
    <3>3. S[4] = Ends(StopIf(AcceptedOf(v, seen) = {}, Writes(Repended(v, seen))))
      BY <1>0, <2>1, InviteAdds
    <3> QED BY <3>2, <3>3, FitWrites, FitWraps
  <2>2. CASE Mine(seen) = {}
    <3> DEFINE fresh == FreshInvitation(Delivers(seen))
    <3>1. fresh \in InvitationRow
      BY DEF FreshInvitation, InvitationRow, Delivers
    <3>2. FitStep(o, 4, v, InsertInvitation(FreeIds(v), fresh))
      BY <3>1, FreeIdsExist, FitInsertInvitation DEF Readdresses, Touches, Touching
    <3>3. FitStep(o, 4, v, NewInvitation(v, seen)) BY <3>2, FitWraps DEF NewInvitation
    <3>4. S[4] = Ends(NewInvitation(v, seen))
      BY <2>2, <1>0, InviteAdds
    <3> QED BY <3>3, <3>4, FitWraps
  <2> QED BY <2>1, <2>2
<1>4. FitEnd(o, 5, v, S[5])
  <2>1. ASSUME NEW r \in DOMAIN Stamped(v, seen) PROVE MayPut(o, 5, v, r, Stamped(v, seen)[r])
    <3>1. PICK i \in Invitation : r = Invited(i) /\ v[r] # None
      BY <1>1 DEF Stamped, Existing
    <3>2. v[r] \in InvitationRow BY <3>1 DEF RowsTyped
    <3>3. Stamped(v, seen)[r] = [v[r] EXCEPT !.told = Address] BY DEF Stamped
    <3>4. Stamped(v, seen)[r] \in InvitationRow /\ Stamped(v, seen)[r].email = v[r].email
      BY <3>2, <3>3 DEF InvitationRow
    <3>5. Touches(o, 5) BY DEF Touches, Touching
    <3> QED BY <3>1, <3>2, <3>4, <3>5, RowsAre, RowTags, NoneIs DEF MayPut, Allowed, AtTheEnd
  <2>2. MayPutAll(o, 5, v, Stamped(v, seen)) BY <2>1 DEF MayPutAll
  <2>3. S[5] = Ends(Writes(Stamped(v, seen))) BY <1>0, InviteAdds
  <2> QED BY <2>2, <2>3, FitWrites, FitWraps
<1>5. Lengths[o.does] = 5 BY DEF Lengths
<1>6. Fits(o, v, seen)
  <2>1. Len(S) = 5 BY <1>0, InviteAdds
  <2> QED BY <1>2, <1>3, <1>4, <1>5, <2>1 DEF Fits, FitAt
<1>7. Gates(o, v, seen)
  BY DEF Gates, StudentGate, CourseGate, LinkGate
<1> QED BY <1>6, <1>7

(* Names for what a walk-in looks for and writes.                          *)
PendingOf(v) == {i \in HolderOf(v, Address) : At(v, i).status = "pending"}
WalkInEntry(v) ==
  IF HolderOf(v, Address) # {} THEN Locks({Key(Address)}, Insert)
  ELSE StopIf(FreeIds(v) = {}, InsertInvitation(FreeIds(v), FreshInvitation(TRUE)))

LEMMA WalkInStarts ==
  ASSUME NEW v, NEW c
  PROVE  /\ Len(WalkIn(v, c)) = 12
         /\ WalkIn(v, c)[1] = StopIf(StatusAt(v, Address) = "declined" \/ v[Student] = "erased",
                                     Reads)
         /\ WalkIn(v, c)[2] = StopIf(v[Block] # None, Reads)
         /\ WalkIn(v, c)[3] = LockLiveStudent(v) /\ WalkIn(v, c)[4] = LockOpenClass(v, c)
         /\ WalkIn(v, c)[5] = StopIf(v[Booking(c)] = "charged", Reads)
         /\ WalkIn(v, c)[6] = Upsert(v, Booking(c), "charged")
         /\ WalkIn(v, c)[7] = InsertLink(v) /\ WalkIn(v, c)[8] = ActivateLink(v)
<1>1. Len(WalkIn(v, c)) = 12
  BY DEF WalkIn, Transaction
<1>2. WalkIn(v, c)[1] = StopIf(StatusAt(v, Address) = "declined" \/ v[Student] = "erased", Reads)
  BY DEF WalkIn, Transaction
<1>3. /\ WalkIn(v, c)[2] = StopIf(v[Block] # None, Reads)
      /\ WalkIn(v, c)[3] = LockLiveStudent(v) /\ WalkIn(v, c)[4] = LockOpenClass(v, c)
      /\ WalkIn(v, c)[5] = StopIf(v[Booking(c)] = "charged", Reads)
  BY DEF WalkIn, Transaction
<1>4. /\ WalkIn(v, c)[6] = Upsert(v, Booking(c), "charged")
      /\ WalkIn(v, c)[7] = InsertLink(v) /\ WalkIn(v, c)[8] = ActivateLink(v)
  BY DEF WalkIn, Transaction, ActivateRegistration
<1> QED BY <1>1, <1>2, <1>3, <1>4

LEMMA WalkInEnds ==
  ASSUME NEW v, NEW c
  PROVE  /\ WalkIn(v, c)[9] = WalkInEntry(v)
         /\ WalkIn(v, c)[10] = StopIf(StatusAt(v, Address) \notin {"pending", "accepted"},
                                      Answered(v, PendingOf(v), "accepted"))
         /\ WalkIn(v, c)[11] = StopIf(v[Block] # None, Reads)
         /\ WalkIn(v, c)[12] = Ends(Reads)
<1>1. WalkIn(v, c)[9] = WalkInEntry(v)
  BY DEF WalkIn, Transaction, WalkInEntry, FreeIds, FreshInvitation
<1>2. WalkIn(v, c)[10] = StopIf(StatusAt(v, Address) \notin {"pending", "accepted"},
                                Answered(v, PendingOf(v), "accepted"))
  BY DEF WalkIn, Transaction, PendingOf
<1>3. WalkIn(v, c)[11] = StopIf(v[Block] # None, Reads) /\ WalkIn(v, c)[12] = Ends(Reads)
  BY DEF WalkIn, Transaction, Commit
<1> QED BY <1>1, <1>2, <1>3

LEMMA WalkInIs ==
  ASSUME NEW o, o.does = "WalkIn", NEW v, NEW seen
  PROVE  Statements(o, v, seen) = WalkIn(v, o.class)
  BY Zenon DEF Statements

LEMMA WalkInFits ==
  ASSUME NEW o, OpTyped(o), o.does = "WalkIn", NEW v, RowsTyped(v), NEW seen, scope \in Scopes
  PROVE  Fits(o, v, seen) /\ Gates(o, v, seen)
<1> DEFINE S == Statements(o, v, seen)
           c == o.class
<1>1. S = WalkIn(v, c) BY WalkInIs
<1>2. FitStep(o, 1, v, S[1]) /\ FitStep(o, 2, v, S[2]) /\ FitStep(o, 5, v, S[5])
  BY <1>1, WalkInStarts, FitReads, FitWraps
<1>3. FitStep(o, 3, v, S[3]) /\ FitStep(o, 4, v, S[4])
  <2>1. c \in Class BY DEF OpTyped
  <2>2. FitStep(o, 3, v, LockLiveStudent(v)) /\ FitStep(o, 4, v, LockOpenClass(v, c))
    BY <2>1, FitHelpers
  <2> QED BY <1>1, <2>2, WalkInStarts
<1>4. FitStep(o, 6, v, S[6]) /\ FitStep(o, 7, v, S[7]) /\ FitStep(o, 8, v, S[8])
  BY <1>1, WalkInStarts, FitCharge, FitLinks
<1>5. FitStep(o, 9, v, S[9])
  <2>1. FitStep(o, 9, v, Locks({Key(Address)}, Insert))
    BY RowsAre, RowTags
    DEF FitStep, Fit, Asks, Puts, IsStatement, Locks, Reads, Nothing
  <2>2. FreshInvitation(TRUE) \in InvitationRow
    BY DEF FreshInvitation, InvitationRow
  <2>3. FitStep(o, 9, v, InsertInvitation(FreeIds(v), FreshInvitation(TRUE)))
    <3>1. Readdresses(o, 9) /\ Touches(o, 9) BY DEF Readdresses, Touches, Touching
    <3> QED BY <3>1, <2>2, FreeIdsExist, FitInsertInvitation
  <2>4. FitStep(o, 9, v, WalkInEntry(v))
    BY <2>1, <2>3, FitWraps DEF WalkInEntry
  <2> QED BY <1>1, <2>4, WalkInEnds
<1>6. FitStep(o, 10, v, S[10])
  <2>1. PendingOf(v) \subseteq Invitation /\ \A i \in PendingOf(v) : v[Invited(i)] # None
    BY HoldersExist DEF Addresses, PendingOf
  <2>2. Touches(o, 10) BY DEF Touches, Touching
  <2> QED BY <1>1, <2>1, <2>2, WalkInEnds, FitAnswered, FitWraps
<1>7. FitStep(o, 11, v, S[11]) /\ FitEnd(o, 12, v, S[12])
  BY <1>1, WalkInEnds, FitReads, FitWraps
<1>8. Lengths[o.does] = 12 /\ o.does # "Invite" BY DEF Lengths
<1>9. Fits(o, v, seen)
  <2>1. Len(S) = 12 BY <1>1, WalkInStarts
  <2> QED BY <1>2, <1>3, <1>4, <1>5, <1>6, <1>7, <1>8, <2>1 DEF Fits, FitAt
<1>10. Gates(o, v, seen)
  BY <1>1, WalkInStarts DEF Gates, StudentGate, CourseGate, LinkGate
<1> QED BY <1>9, <1>10

(* Names for what an erasure writes.                                       *)
InQueue(v) == {c \in Class : v[Queued(c)] # None}
CancelledIn(v) == [r \in {Booking(c) : c \in LiveIn(v)} |-> "cancelled"]
QueuesOf(seen) == {Queued(c) : c \in seen.queues}
ScrubbedIn(v) == [r \in {Invited(i) : i \in HolderOf(v, Address)} |-> Scrub(At(v, r[2]))]
FreedIn(v) == [k \in {Key(At(v, i).email) : i \in HolderOf(v, Address)} |-> None]
ToldOf(v) == {i \in Invitation : At(v, i).told = Address}
Untold(v) == [r \in {Invited(i) : i \in ToldOf(v)} |-> [v[r] EXCEPT !.told = Scrubbed]]
Erasure == [Locks({Student}, Update) EXCEPT !.puts = [r \in {Student} |-> "erased"]]

LEMMA EraseStarts ==
  ASSUME NEW v, NEW seen
  PROVE  /\ Len(Erase(v, seen)) = 12
         /\ Erase(v, seen)[1] = Locks({Student}, NoKeyUpdate)
         /\ Erase(v, seen)[2] = Keeping([queues |-> InQueue(v)], Reads)
         /\ Erase(v, seen)[3] = LocksInOrder(Courses(seen.queues))
         /\ Erase(v, seen)[4] = Writes(CancelledIn(v))
         /\ Erase(v, seen)[5] = Deletes({Privacy}) /\ Erase(v, seen)[6] = Deletes({Link})
<1>1. Len(Erase(v, seen)) = 12 /\ Erase(v, seen)[1] = Locks({Student}, NoKeyUpdate)
  BY DEF Erase, Transaction
<1>2. Erase(v, seen)[2] = Keeping([queues |-> InQueue(v)], Reads)
  BY DEF Erase, Transaction, InQueue
<1>3. Erase(v, seen)[3] = LocksInOrder(Courses(seen.queues))
  BY DEF Erase, Transaction, Courses
<1>4. Erase(v, seen)[4] = Writes(CancelledIn(v))
  BY DEF Erase, Transaction, CancelledIn, LiveIn
<1>5. Erase(v, seen)[5] = Deletes({Privacy})
  BY DEF Erase, Transaction
<1>6. Erase(v, seen)[6] = Deletes({Link})
  BY DEF Erase, Transaction
<1> QED BY <1>1, <1>2, <1>3, <1>4, <1>5, <1>6

LEMMA EraseEnds ==
  ASSUME NEW v, NEW seen
  PROVE  /\ Erase(v, seen)[7] = Deletes(QueuesOf(seen))
         /\ Erase(v, seen)[8] = Also(FreedIn(v), Writes(ScrubbedIn(v)))
         /\ Erase(v, seen)[9] = Writes(Untold(v))
         /\ Erase(v, seen)[10] = StopIf(v[Student] = "erased", Erasure)
         /\ Erase(v, seen)[11] = StopIf(InQueue(v) # {}, Reads)
         /\ Erase(v, seen)[12] = Ends(Reads)
<1>1. Erase(v, seen)[7] = Deletes(QueuesOf(seen))
  BY DEF Erase, Transaction, QueuesOf
<1>2. Erase(v, seen)[8] = Also(FreedIn(v), Writes(ScrubbedIn(v)))
  BY DEF Erase, Transaction, FreedIn, ScrubbedIn
<1>3. Erase(v, seen)[9] = Writes(Untold(v))
  BY DEF Erase, Transaction, Untold, ToldOf
<1>4. Erase(v, seen)[10] = StopIf(v[Student] = "erased", Erasure)
  BY DEF Erase, Transaction, Erasure
<1>5. Erase(v, seen)[11] = StopIf(InQueue(v) # {}, Reads)
  BY DEF Erase, Transaction, InQueue
<1>6. Erase(v, seen)[12] = Ends(Reads)
  BY DEF Erase, Transaction, Commit
<1> QED BY <1>1, <1>2, <1>3, <1>4, <1>5, <1>6

LEMMA EraseIs ==
  ASSUME NEW o, o.does = "Erase", NEW v, NEW seen
  PROVE  Statements(o, v, seen) = Erase(v, seen)
  BY Zenon DEF Statements

LEMMA EraseFits ==
  ASSUME NEW o, OpTyped(o), o.does = "Erase", NEW v, RowsTyped(v),
         NEW seen, SeenTyped(o, seen)
  PROVE  Fits(o, v, seen) /\ Gates(o, v, seen)
<1> DEFINE S == Statements(o, v, seen)
<1>1. S = Erase(v, seen) BY EraseIs
<1>2. FitStep(o, 1, v, S[1])
  <2>1. {Student} \in SUBSET Rows BY RowsAre
  <2>2. FitStep(o, 1, v, Locks({Student}, NoKeyUpdate)) BY <2>1, FitLocks
  <2> QED BY <1>1, <2>2, EraseStarts
<1>3. FitStep(o, 2, v, S[2])
  BY <1>1, EraseStarts, FitReads, FitWraps
<1>4. FitStep(o, 3, v, S[3])
  <2>1. Courses(seen.queues) \in SUBSET Rows BY RowsAre DEF SeenTyped, Courses
  <2>2. FitStep(o, 3, v, LocksInOrder(Courses(seen.queues))) BY <2>1, FitLocks
  <2> QED BY <1>1, <2>2, EraseStarts
<1>5. FitStep(o, 4, v, S[4])
  <2>1. \A c \in Class : /\ Allowed(o, Booking(c), "cancelled") /\ ~AtTheEnd(o, Booking(c))
                         /\ Booking(c) \in Rows
    BY RowTags, RowsAre DEF Allowed, AtTheEnd
  <2>2. MayPutAll(o, 4, v, CancelledIn(v))
    BY <2>1, MayPutRoster, RowTags DEF MayPutAll, CancelledIn, LiveIn
  <2> QED BY <1>1, <2>2, EraseStarts, FitWrites
<1>6. FitStep(o, 5, v, S[5]) /\ FitStep(o, 6, v, S[6])
  <2>1. /\ Allowed(o, Link, None) /\ ~AtTheEnd(o, Link)
        /\ Allowed(o, Privacy, None) /\ ~AtTheEnd(o, Privacy)
    BY RowTags DEF Allowed, AtTheEnd
  <2>2. \A pc : /\ MayPutAll(o, pc, v, [r \in {Link} |-> None])
                /\ MayPutAll(o, pc, v, [r \in {Privacy} |-> None])
    BY <2>1, MayPutRoster, RowsAre, RowTags DEF MayPutAll
  <2>3. \A pc : FitStep(o, pc, v, Deletes({Link})) /\ FitStep(o, pc, v, Deletes({Privacy}))
    BY <2>2, FitDeletes
  <2> QED BY <1>1, <2>3, EraseStarts
<1>7. FitStep(o, 7, v, S[7])
  <2>1. \A c \in Class : /\ Allowed(o, Queued(c), None) /\ ~AtTheEnd(o, Queued(c))
                         /\ Queued(c) \in Rows
    BY RowTags, RowsAre DEF Allowed, AtTheEnd
  <2>2. MayPutAll(o, 7, v, [r \in QueuesOf(seen) |-> None])
    BY <2>1, MayPutRoster, RowTags DEF MayPutAll, QueuesOf, SeenTyped
  <2> QED BY <1>1, <2>2, EraseEnds, FitDeletes
<1>8. FitStep(o, 8, v, S[8])
  <2>1. Readdresses(o, 8) /\ Touches(o, 8) BY DEF Readdresses, Touches, Touching
  <2>2. ASSUME NEW r \in DOMAIN ScrubbedIn(v)
        PROVE  \E i \in Invitation : r = Invited(i) /\ ScrubbedIn(v)[r] \in InvitationRow
    <3>1. PICK i \in Invitation : r = Invited(i) /\ v[r] # None
      BY HoldersExist DEF ScrubbedIn, Addresses
    <3>2. r[2] = i /\ At(v, i) \in InvitationRow
      BY <3>1, RowTags DEF RowsTyped, At
    <3>3. ScrubbedIn(v)[r] = Scrub(At(v, i)) BY <3>2 DEF ScrubbedIn
    <3>4. \A inv \in InvitationRow : Scrub(inv) \in InvitationRow
      BY DEF Scrub, InvitationRow
    <3> QED BY <3>1, <3>2, <3>3, <3>4
  <2>3. MayPutAll(o, 8, v, ScrubbedIn(v))
    BY <2>1, <2>2, MayPutAddress DEF MayPutAll
  <2>4. MayPutAll(o, 8, v, FreedIn(v)) /\ \A r \in DOMAIN FreedIn(v) : ~Lockable(r)
    BY <2>1, MayPutAddress, RowTags DEF MayPutAll, FreedIn, Lockable
  <2>5. FitStep(o, 8, v, Writes(ScrubbedIn(v))) BY <2>3, FitWrites
  <2>6. FitStep(o, 8, v, Also(FreedIn(v), Writes(ScrubbedIn(v))))
    BY <2>4, <2>5, FitAlso
  <2> QED BY <1>1, <2>6, EraseEnds
<1>9. FitStep(o, 9, v, S[9])
  <2>1. ASSUME NEW r \in DOMAIN Untold(v) PROVE MayPut(o, 9, v, r, Untold(v)[r])
    <3>1. PICK i \in Invitation : r = Invited(i) /\ v[r] # None
      BY NoneIs DEF Untold, ToldOf, At, NoInvitation, Addresses
    <3>2. v[r] \in InvitationRow BY <3>1 DEF RowsTyped
    <3>3. Untold(v)[r] = [v[r] EXCEPT !.told = Scrubbed] BY DEF Untold
    <3>4. Untold(v)[r] \in InvitationRow /\ Untold(v)[r].email = v[r].email
      BY <3>2, <3>3 DEF InvitationRow
    <3>5. Touches(o, 9) BY DEF Touches, Touching
    <3> QED BY <3>1, <3>2, <3>4, <3>5, RowsAre, RowTags, NoneIs DEF MayPut, Allowed, AtTheEnd
  <2>2. MayPutAll(o, 9, v, Untold(v)) BY <2>1 DEF MayPutAll
  <2> QED BY <1>1, <2>2, EraseEnds, FitWrites
<1>10. FitStep(o, 10, v, S[10])
  <2>1. Allowed(o, Student, "erased") /\ ~AtTheEnd(o, Student) /\ Student \in Rows
    BY RowTags, RowsAre DEF Allowed, AtTheEnd
  <2>2. MayPut(o, 10, v, Student, "erased") BY <2>1, MayPutRoster, RowTags
  <2>3. /\ IsStatement(Erasure) /\ Erasure.ends = FALSE
        /\ Erasure.puts = [r \in {Student} |-> "erased"]
        /\ Erasure.takes = [r \in {Student} |-> Update]
    BY DEF Erasure, Locks, Reads, IsStatement
  <2>4. Asks(Erasure) BY <2>1, <2>3 DEF Asks
  <2>5. Puts(o, 10, v, Erasure) BY <2>2, <2>3 DEF Puts
  <2>6. FitStep(o, 10, v, Erasure) BY <2>3, <2>4, <2>5 DEF FitStep, Fit
  <2> QED BY <1>1, <2>6, EraseEnds, FitWraps
<1>11. FitStep(o, 11, v, S[11])
  BY <1>1, EraseEnds, FitReads, FitWraps
<1>12. FitEnd(o, 12, v, S[12])
  BY <1>1, EraseEnds, FitReads, FitWraps
<1>13. Lengths[o.does] = 12 /\ o.does # "Invite" BY DEF Lengths
<1>14. Fits(o, v, seen)
  <2>1. Len(S) = 12 BY <1>1, EraseStarts
  <2> QED BY <1>2, <1>3, <1>4, <1>5, <1>6, <1>7, <1>8, <1>9, <1>10, <1>11, <1>12, <1>13, <2>1
          DEF Fits, FitAt
<1>15. Gates(o, v, seen)
  BY DEF Gates, StudentGate, CourseGate, LinkGate
<1> QED BY <1>14, <1>15

(* All requests together.                                                  *)
LEMMA RequestFits ==
  ASSUME NEW o, OpTyped(o), NEW v, RowsTyped(v), NEW seen, SeenTyped(o, seen),
         Ready(o, v, seen), scope \in Scopes
  PROVE  Fits(o, v, seen) /\ Gates(o, v, seen)
<1>1. o.does \in {"Invite", "Edit", "Remove", "Resend", "Accept", "Decline", "Unlink",
                  "SetPrivacy", "Book", "RosterAdd", "WalkIn", "Join", "Promote", "Cancel",
                  "Complete", "Pay", "Waive", "Reopen", "Archive", "Unarchive", "Erase"}
  BY DEF OpTyped, Lengths
<1>2. CASE o.does \in {"Invite", "Edit", "Remove", "Resend", "Accept", "Decline", "Unlink"}
  BY <1>2, InviteFits, EditFits, RemoveFits, ResendFits, AcceptFits, DeclineFits, UnlinkFits
<1>3. CASE o.does \in {"SetPrivacy", "Book", "RosterAdd", "WalkIn", "Join", "Promote", "Cancel"}
  BY <1>3, SetPrivacyFits, BookFits, RosterAddFits, WalkInFits, JoinFits, PromoteFits, CancelFits
<1>4. CASE o.does \in {"Complete", "Pay", "Waive", "Reopen", "Archive", "Unarchive", "Erase"}
  BY <1>4, CompleteFits, SettleFits, ReopenFits, ArchiveFits, UnarchiveFits, EraseFits
<1> QED BY <1>1, <1>2, <1>3, <1>4

-------------------------------------------------------------------------------
(* What the statements of each request ask for and keep.                   *)

Charging == [Book |-> 4, RosterAdd |-> 4, WalkIn |-> 6, Promote |-> 4]
Linking == [Accept |-> 4, Book |-> 6, WalkIn |-> 7, Join |-> 4, Promote |-> 5]
AtGate(o, pc, gate) == o.does \in DOMAIN gate /\ pc = gate[o.does]
Does(o, pc, does, n) == o.does = does /\ pc = n

(* The row q that is the only one statement pc of request o asks for.      *)
Only(o, pc, seen, q) ==
  \/ q = Student /\ (AtGate(o, pc, StudentGate) \/ Does(o, pc, "Erase", 1))
  \/ q = Course(o.class) /\ AtGate(o, pc, CourseGate)
  \/ q = Booking(o.class) /\ (AtGate(o, pc, Charging) \/ Does(o, pc, "Complete", 3))
  \/ q = Owed(o.class) /\ Does(o, pc, "Complete", 4)
  \/ q = Queued(o.class) /\ Does(o, pc, "Join", 8)
  \/ q = Privacy /\ (\/ Does(o, pc, "SetPrivacy", 2) \/ Does(o, pc, "Unlink", 6)
                     \/ Does(o, pc, "Erase", 5))
  \/ q = Block /\ (Does(o, pc, "Decline", 3) \/ Does(o, pc, "Unlink", 9))
  \/ q = Link /\ (\/ AtGate(o, pc, Linking) \/ AtGate(o, pc, LinkGate)
                  \/ Does(o, pc, "Reopen", 2) \/ Does(o, pc, "Archive", 1)
                  \/ Does(o, pc, "Unlink", 7) \/ Does(o, pc, "Erase", 6))
  \/ q = Key(Address) /\ (Does(o, pc, "WalkIn", 9) \/ (Does(o, pc, "Invite", 4) /\ seen.id = None))
  \/ q = Invited(o.inv) /\ Does(o, pc, "Edit", 2)
  \/ q = Key(o.to) /\ Does(o, pc, "Edit", 3)

AtMost(o, pc, seen, S) == \A q : Only(o, pc, seen, q) => q \in S

(* What a request keeps of what its statements return, and where.          *)
NotesOK(o, pc, n) ==
  /\ "queues" \in DOMAIN n =>
       n.queues \subseteq Class /\ (Does(o, pc, "Unlink", 3) \/ Does(o, pc, "Erase", 2))
  /\ "filed" \in DOMAIN n => n.filed \in BOOLEAN /\ Does(o, pc, "Reopen", 2)
  /\ "id" \in DOMAIN n =>
       n.id \in Invitation \cup {None} /\ (Does(o, pc, "Invite", 1) \/ Does(o, pc, "Invite", 4))
  /\ "email" \in DOMAIN n => n.email \in Addresses \cup {None}
  /\ "billed" \in DOMAIN n =>
       \/ Does(o, pc, "Complete", 3)
       \/ Does(o, pc, "Archive", 3) /\ n.billed \subseteq {Owed(c) : c \in Class}
  /\ "held" \in DOMAIN n => Does(o, pc, "Edit", 2)

(* The statements with which a request may lock rows of each table.        *)
StudentAt == [Book |-> {1}, RosterAdd |-> {1}, Join |-> {1}, SetPrivacy |-> {1}, Unlink |-> {2},
              Accept |-> {3}, WalkIn |-> {3}, Promote |-> {3}, Erase |-> {1, 10}]
ClassAt == [Promote |-> {1}, Cancel |-> {1}, Complete |-> {1, 2}, Book |-> {2}, RosterAdd |-> {2},
            Join |-> {2}, WalkIn |-> {4}, Unlink |-> {4}, Erase |-> {3}]
BookingAt == [Book |-> {4}, RosterAdd |-> {4}, WalkIn |-> {6}, Promote |-> {4}, Cancel |-> {2},
              Complete |-> {3}, Erase |-> {4}]
QueueAt == [Book |-> {5}, Promote |-> {7}, Join |-> {8}, Unlink |-> {5}, Erase |-> {7}]
PrivacyAt == [SetPrivacy |-> {2}, Unlink |-> {6}, Erase |-> {5}]
LinkAt == [Accept |-> {4, 5}, Book |-> {6, 7}, RosterAdd |-> {5}, WalkIn |-> {7, 8},
           Join |-> {4, 5}, Promote |-> {5, 6}, Unlink |-> {7}, Erase |-> {6}, Archive |-> {1, 5},
           Reopen |-> {2, 5}, Unarchive |-> {2}]
PaymentAt == [Complete |-> {4}, Pay |-> {1}, Waive |-> {1}, Reopen |-> {3, 4}, Archive |-> {4}]
BlockAt == [Book |-> {8}, Join |-> {6}, Decline |-> {3}, Unlink |-> {9}]
EntryAt == [WalkIn |-> {9}, Invite |-> {4}, Edit |-> {3}]
InvitationAt == [Edit |-> {2}, Remove |-> {2}, Resend |-> {2}, Decline |-> {2}, Invite |-> {4, 5},
                 Accept |-> {6}, Unlink |-> {8}, WalkIn |-> {10}, Book |-> {9}, Join |-> {7},
                 Erase |-> {8, 9}]
On(o, pc, table) == o.does \in DOMAIN table /\ pc \in table[o.does]

(* Statement pc of request o may ask for row r: of a class it is not about *)
(* only if it is about all the person has.                                 *)
Wide(o) == o.does \in {"Unlink", "Erase", "Archive"}
AsksFor(o, pc, r) ==
  /\ r[1] # "ghost"
  /\ r[1] = "student" => On(o, pc, StudentAt)
  /\ r[1] = "class" => On(o, pc, ClassAt)
  /\ r[1] = "registration" => On(o, pc, BookingAt)
  /\ r[1] = "queue" => On(o, pc, QueueAt)
  /\ r[1] = "privacy" => On(o, pc, PrivacyAt)
  /\ r[1] = "link" => On(o, pc, LinkAt)
  /\ r[1] = "payment" => On(o, pc, PaymentAt)
  /\ r[1] = "block" => On(o, pc, BlockAt)
  /\ r[1] = "key" => On(o, pc, EntryAt)
  /\ r[1] = "invitation" => On(o, pc, InvitationAt)
  /\ r[1] \in {"class", "registration", "queue", "payment"} => r[2] = o.class \/ Wide(o)

(* An insert stands alone in its statement, which writes what it inserts   *)
(* unless it is an entry of the index.                                     *)
Shape(o, pc, seen, st) ==
  /\ \A q : Only(o, pc, seen, q) => DOMAIN st.takes \subseteq {q}
  /\ \A r \in DOMAIN st.takes : st.takes[r] = Insert =>
       Only(o, pc, seen, r) /\ (Lockable(r) => r \in DOMAIN st.puts)
  /\ \A r \in DOMAIN st.takes : r[1] = "key" => st.takes[r] = Insert
  /\ \A r \in DOMAIN st.takes : AsksFor(o, pc, r)
  /\ NotesOK(o, pc, st.notes)

LEMMA AsksRows ==
  ASSUME NEW o, NEW pc
  PROVE  /\ On(o, pc, StudentAt) => AsksFor(o, pc, Student)
         /\ On(o, pc, LinkAt) => AsksFor(o, pc, Link)
         /\ On(o, pc, PrivacyAt) => AsksFor(o, pc, Privacy)
         /\ On(o, pc, BlockAt) => AsksFor(o, pc, Block)
         /\ \A c : c = o.class \/ Wide(o) =>
              /\ On(o, pc, ClassAt) => AsksFor(o, pc, Course(c))
              /\ On(o, pc, BookingAt) => AsksFor(o, pc, Booking(c))
              /\ On(o, pc, QueueAt) => AsksFor(o, pc, Queued(c))
              /\ On(o, pc, PaymentAt) => AsksFor(o, pc, Owed(c))
         /\ On(o, pc, InvitationAt) => \A i : AsksFor(o, pc, Invited(i))
         /\ On(o, pc, EntryAt) => \A e : AsksFor(o, pc, Key(e))
  BY RowTags DEF AsksFor

Shapes(o, v, seen) ==
  \A pc \in 1 .. Lengths[o.does] : Shape(o, pc, seen, Statements(o, v, seen)[pc])

(* The shape of a statement does not depend on when its caller gives up,   *)
(* on what else it writes or on its being the last.                        *)
LEMMA ShapeWraps ==
  ASSUME NEW o, NEW pc, NEW seen, NEW st, IsStatement(st), Shape(o, pc, seen, st), NEW x
  PROVE  /\ IsStatement(StopIf(x, st)) /\ Shape(o, pc, seen, StopIf(x, st))
         /\ IsStatement(Also(x, st)) /\ Shape(o, pc, seen, Also(x, st))
         /\ IsStatement(Ends(st)) /\ Shape(o, pc, seen, Ends(st))
         /\ IsStatement(Saying(x, st)) /\ Shape(o, pc, seen, Saying(x, st))
         /\ NotesOK(o, pc, x) => IsStatement(Keeping(x, st)) /\ Shape(o, pc, seen, Keeping(x, st))
<1>1. /\ IsStatement(StopIf(x, st)) /\ StopIf(x, st).takes = st.takes
      /\ StopIf(x, st).puts = st.puts /\ StopIf(x, st).notes = st.notes
  BY DEF IsStatement, StopIf
<1>2. \A f : /\ IsStatement(Also(f, st)) /\ Also(f, st).takes = st.takes
             /\ Also(f, st).puts = Overlay(f, st.puts) /\ Also(f, st).notes = st.notes
  BY DEF IsStatement, Also
<1>3. /\ IsStatement(Ends(st)) /\ Ends(st).takes = st.takes
      /\ Ends(st).puts = st.puts /\ Ends(st).notes = st.notes
  BY DEF IsStatement, Ends
<1>4. /\ IsStatement(Keeping(x, st)) /\ Keeping(x, st).takes = st.takes
      /\ Keeping(x, st).puts = st.puts /\ Keeping(x, st).notes = x
  BY DEF IsStatement, Keeping
<1>5. ASSUME NEW f PROVE DOMAIN st.puts \subseteq DOMAIN Overlay(f, st.puts)
  <2>1. DOMAIN Overlay(f, st.puts) = DOMAIN f \cup DOMAIN st.puts BY OverlayIs
  <2> QED BY <2>1
<1>6. \A f : Shape(o, pc, seen, Also(f, st))
  BY <1>2, <1>5 DEF Shape
<1>7. IsStatement(Saying(x, st)) /\ Shape(o, pc, seen, Saying(x, st))
  BY <1>2, <1>6 DEF Saying
<1> QED BY <1>1, <1>2, <1>3, <1>4, <1>6, <1>7 DEF Shape

LEMMA NoNotes == ASSUME NEW o, NEW pc PROVE NotesOK(o, pc, Nothing)
  BY DEF NotesOK, Nothing

LEMMA ShapeReads ==
  ASSUME NEW o, NEW pc, NEW seen
  PROVE  IsStatement(Reads) /\ Shape(o, pc, seen, Reads)
<1>1. /\ IsStatement(Reads) /\ DOMAIN Reads.takes = {} /\ Reads.notes = Nothing
  BY DEF Reads, Nothing, IsStatement
<1> QED BY <1>1, NoNotes DEF Shape

(* Statements that insert nothing.                                         *)
LEMMA ShapeLocks ==
  ASSUME NEW o, NEW pc, NEW seen, NEW S, NEW m \in KeyShare .. Update,
         \A q : Only(o, pc, seen, q) => S \subseteq {q},
         \A r \in S : AsksFor(o, pc, r) /\ r[1] # "key"
  PROVE  /\ IsStatement(Locks(S, m)) /\ Shape(o, pc, seen, Locks(S, m))
         /\ IsStatement(LocksInOrder(S)) /\ Shape(o, pc, seen, LocksInOrder(S))
         /\ IsStatement(Deletes(S)) /\ Shape(o, pc, seen, Deletes(S))
<1>1. /\ IsStatement(Locks(S, m)) /\ Locks(S, m).takes = [r \in S |-> m]
      /\ Locks(S, m).notes = Nothing
  BY DEF Locks, Reads, IsStatement
<1>2. /\ IsStatement(LocksInOrder(S)) /\ LocksInOrder(S).takes = [r \in S |-> Update]
      /\ LocksInOrder(S).notes = Nothing
  BY DEF LocksInOrder, Locks, Reads, IsStatement
<1>3. /\ IsStatement(Deletes(S)) /\ Deletes(S).takes = [r \in S |-> Update]
      /\ Deletes(S).notes = Nothing
  BY DEF Deletes, Locks, Reads, IsStatement
<1>4. \A k \in KeyShare .. Update : \A st :
         st.takes = [r \in S |-> k] /\ st.notes = Nothing => Shape(o, pc, seen, st)
  BY NoNotes DEF Shape
<1> QED BY <1>1, <1>2, <1>3, <1>4

LEMMA ShapeWrites ==
  ASSUME NEW o, NEW pc, NEW seen, NEW f, AtMost(o, pc, seen, {}),
         \A r \in DOMAIN f : AsksFor(o, pc, r) /\ r[1] # "key"
  PROVE  IsStatement(Writes(f)) /\ Shape(o, pc, seen, Writes(f))
<1>1. /\ IsStatement(Writes(f)) /\ Writes(f).takes = [r \in DOMAIN f |-> NoKeyUpdate]
      /\ Writes(f).notes = Nothing
  BY DEF Writes, Locks, Reads, IsStatement
<1> QED BY <1>1, NoNotes DEF Shape, AtMost

LEMMA ShapeStops ==
  ASSUME NEW o, NEW pc, NEW seen, NEW x
  PROVE  IsStatement(StopIf(x, Reads)) /\ Shape(o, pc, seen, StopIf(x, Reads))
  BY ShapeReads, ShapeWraps

(* Statements that insert one row.                                         *)
LEMMA ShapeInserts ==
  ASSUME NEW o, NEW pc, NEW seen, NEW f,
         \A r \in DOMAIN f : Only(o, pc, seen, r) /\ AsksFor(o, pc, r),
         \A q : Only(o, pc, seen, q) => DOMAIN f \subseteq {q}
  PROVE  IsStatement(Inserts(f)) /\ Shape(o, pc, seen, Inserts(f))
<1>1. /\ IsStatement(Inserts(f)) /\ Inserts(f).takes = [r \in DOMAIN f |-> Insert]
      /\ Inserts(f).puts = f /\ Inserts(f).notes = Nothing
  BY DEF Inserts, Locks, Reads, IsStatement
<1> QED BY <1>1, NoNotes DEF Shape

LEMMA ShapeUpsert ==
  ASSUME NEW o, NEW pc, NEW seen, NEW v, NEW r, NEW val, Only(o, pc, seen, r),
         AtMost(o, pc, seen, {r}), AsksFor(o, pc, r), r[1] # "key"
  PROVE  IsStatement(Upsert(v, r, val)) /\ Shape(o, pc, seen, Upsert(v, r, val))
<1>1. /\ IsStatement(Upsert(v, r, val)) /\ DOMAIN Upsert(v, r, val).takes = {r}
      /\ DOMAIN Upsert(v, r, val).puts = {r} /\ Upsert(v, r, val).notes = Nothing
  BY DEF Upsert, Reads, IsStatement
<1> QED BY <1>1, NoNotes DEF Shape, AtMost

(* The statements the requests share.                                      *)
LEMMA ShapeStudent ==
  ASSUME NEW o, NEW pc, NEW seen, NEW v, AtMost(o, pc, seen, {Student}),
         AsksFor(o, pc, Student)
  PROVE  IsStatement(LockLiveStudent(v)) /\ Shape(o, pc, seen, LockLiveStudent(v))
<1>1. IsStatement(Locks({Student}, Share)) /\ Shape(o, pc, seen, Locks({Student}, Share))
  BY ShapeLocks, RowTags DEF AtMost
<1> QED BY <1>1, ShapeWraps DEF LockLiveStudent

LEMMA ShapeCourse ==
  ASSUME NEW o, NEW pc, NEW seen, NEW v, NEW c, AtMost(o, pc, seen, {Course(c)}),
         AsksFor(o, pc, Course(c))
  PROVE  IsStatement(LockOpenClass(v, c)) /\ Shape(o, pc, seen, LockOpenClass(v, c))
<1>1. IsStatement(Locks({Course(c)}, Update)) /\ Shape(o, pc, seen, Locks({Course(c)}, Update))
  BY ShapeLocks, RowTags DEF AtMost
<1> QED BY <1>1, ShapeWraps DEF LockOpenClass

LEMMA ShapeInsertLink ==
  ASSUME NEW o, NEW pc, NEW seen, NEW v, AtMost(o, pc, seen, {Link}), Only(o, pc, seen, Link),
         AsksFor(o, pc, Link)
  PROVE  IsStatement(InsertLink(v)) /\ Shape(o, pc, seen, InsertLink(v))
<1> DEFINE noted == IF v[Link] = None THEN [r \in {Linked} |-> 1 - v[Linked]] ELSE Nothing
           made == [r \in {Link} |-> [id |-> 1 - v[Linked], filed |-> FALSE]]
<1>1. InsertLink(v) = Keeping([created |-> v[Link] = None], Also(noted, Inserts(made)))
  BY DEF InsertLink
<1>2. DOMAIN made = {Link} /\ NotesOK(o, pc, [created |-> v[Link] = None])
  BY DEF NotesOK
<1> HIDE DEF noted, made
<1>3. IsStatement(Inserts(made)) /\ Shape(o, pc, seen, Inserts(made))
  BY <1>2, ShapeInserts DEF AtMost
<1> DEFINE st == Also(noted, Inserts(made))
           n == [created |-> v[Link] = None]
<1>4. IsStatement(st) /\ Shape(o, pc, seen, st)
  BY <1>3, ShapeWraps
<1>5. InsertLink(v) = Keeping(n, st) /\ NotesOK(o, pc, n)
  BY <1>1, <1>2
<1> HIDE DEF st, n
<1> QED BY <1>4, <1>5, ShapeWraps

LEMMA ShapeActivateLink ==
  ASSUME NEW o, NEW pc, NEW seen, NEW v, AtMost(o, pc, seen, {Link}),
         AsksFor(o, pc, Link)
  PROVE  IsStatement(ActivateLink(v)) /\ Shape(o, pc, seen, ActivateLink(v))
<1> DEFINE active == [r \in Existing(v, {Link}) |-> [v[r] EXCEPT !.filed = FALSE]]
           st == [Locks({Link}, Update) EXCEPT !.puts = active]
<1>1. ActivateLink(v) = StopIf(v[Link] = None, st)
  BY DEF ActivateLink
<1>2. /\ IsStatement(st) /\ st.takes = [r \in {Link} |-> Update] /\ st.notes = Nothing
  BY DEF Locks, Reads, IsStatement
<1> HIDE DEF st
<1>3. Shape(o, pc, seen, st) BY <1>2, NoNotes, RowTags DEF Shape, AtMost
<1> QED BY <1>1, <1>2, <1>3, ShapeWraps

LEMMA ShapeLiftBlock ==
  ASSUME NEW o, NEW pc, NEW seen, AtMost(o, pc, seen, {}),
         AsksFor(o, pc, Block)
  PROVE  IsStatement(LiftBlock) /\ Shape(o, pc, seen, LiftBlock)
  BY ShapeLocks, RowTags DEF LiftBlock, AtMost

LEMMA ShapeUpsertBlock ==
  ASSUME NEW o, NEW pc, NEW seen, NEW v, AtMost(o, pc, seen, {Block}), Only(o, pc, seen, Block),
         AsksFor(o, pc, Block)
  PROVE  IsStatement(UpsertBlock(v)) /\ Shape(o, pc, seen, UpsertBlock(v))
<1> DEFINE f == [r \in {Block} |-> "stands"]
<1>1. DOMAIN f = {Block} OBVIOUS
<1>2. UpsertBlock(v) = IF v[Block] = None THEN Inserts(f) ELSE Reads BY DEF UpsertBlock
<1> HIDE DEF f
<1>3. IsStatement(Inserts(f)) /\ Shape(o, pc, seen, Inserts(f))
  BY <1>1, ShapeInserts DEF AtMost
<1> QED BY <1>2, <1>3, ShapeReads

LEMMA ShapeAnswered ==
  ASSUME NEW o, NEW pc, NEW seen, AtMost(o, pc, seen, {}), \A i : AsksFor(o, pc, Invited(i)),
         NEW v, NEW S, NEW status
  PROVE  IsStatement(Answered(v, S, status)) /\ Shape(o, pc, seen, Answered(v, S, status))
<1> DEFINE f == [r \in {Invited(i) : i \in S} |-> [v[r] EXCEPT !.status = status]]
<1>1. \A r \in DOMAIN f : AsksFor(o, pc, r) /\ r[1] # "key" BY RowTags
<1>2. Answered(v, S, status) = Writes(f) BY DEF Answered
<1> HIDE DEF f
<1> QED BY <1>1, <1>2, ShapeWrites

LEMMA BookShapes ==
  ASSUME NEW o, o.does = "Book", NEW v, NEW seen
  PROVE  Shapes(o, v, seen)
<1> DEFINE S == Statements(o, v, seen)
           c == o.class
           left == [r \in {q \in {Queued(c)} : v[q] = "waiting"} |-> "left"]
<1>0. /\ AsksFor(o, 1, Student) /\ AsksFor(o, 2, Course(c))
      /\ AsksFor(o, 4, Booking(c)) /\ AsksFor(o, 5, Queued(c))
      /\ AsksFor(o, 6, Link) /\ AsksFor(o, 7, Link) /\ AsksFor(o, 8, Block)
      /\ (\A i : AsksFor(o, 9, Invited(i)))
  BY AsksRows DEF On, Wide, StudentAt, ClassAt, BookingAt, QueueAt, LinkAt, BlockAt, InvitationAt
<1>1. /\ S[1] = LockLiveStudent(v) /\ S[2] = LockOpenClass(v, c)
      /\ S[3] = StopIf(v[Booking(c)] = "charged", Reads) /\ S[4] = Upsert(v, Booking(c), "charged")
      /\ S[5] = Writes(left)
      /\ S[6] = InsertLink(v) /\ S[7] = ActivateLink(v) /\ S[8] = LiftBlock
      /\ S[9] = Ends(Saying("booked", ResolveInvitation(v, seen)))
  BY BookIs
<1>2. /\ AtMost(o, 1, seen, {Student}) /\ AtMost(o, 2, seen, {Course(c)})
      /\ AtMost(o, 4, seen, {Booking(c)}) /\ AtMost(o, 5, seen, {})
      /\ AtMost(o, 6, seen, {Link}) /\ AtMost(o, 7, seen, {Link})
      /\ AtMost(o, 8, seen, {}) /\ AtMost(o, 9, seen, {})
  BY DEF AtMost, Only, AtGate, Does, StudentGate, CourseGate, LinkGate, Charging, Linking
<1>3. Only(o, 4, seen, Booking(c)) /\ Only(o, 6, seen, Link)
  BY DEF Only, AtGate, Does, StudentGate, CourseGate, LinkGate, Charging, Linking
<1>4. Shape(o, 1, seen, S[1])
  BY <1>0, <1>1, <1>2, ShapeStudent
<1>5. Shape(o, 2, seen, S[2])
  BY <1>0, <1>1, <1>2, ShapeCourse
<1>6. Shape(o, 3, seen, S[3])
  BY <1>1, ShapeStops
<1>7. Shape(o, 4, seen, S[4])
  BY <1>0, <1>1, <1>2, <1>3, ShapeUpsert, RowTags
<1>8. Shape(o, 5, seen, S[5])
  <2>1. \A r \in DOMAIN left : AsksFor(o, 5, r) /\ r[1] # "key" BY <1>0, RowTags
  <2>2. S[5] = Writes(left) BY <1>1
  <2> HIDE DEF left, S
  <2> QED BY <1>2, <2>1, <2>2, ShapeWrites
<1>9. Shape(o, 6, seen, S[6])
  BY <1>0, <1>1, <1>2, <1>3, ShapeInsertLink
<1>10. Shape(o, 7, seen, S[7])
  BY <1>0, <1>1, <1>2, ShapeActivateLink
<1>11. Shape(o, 8, seen, S[8])
  BY <1>0, <1>1, <1>2, ShapeLiftBlock
<1>12. Shape(o, 9, seen, S[9])
  BY <1>0, <1>1, <1>2, ShapeAnswered, ShapeWraps DEF ResolveInvitation
<1>13. Lengths[o.does] = 9 BY DEF Lengths
<1> QED BY <1>4, <1>5, <1>6, <1>7, <1>8, <1>9, <1>10, <1>11, <1>12, <1>13 DEF Shapes

LEMMA RosterAddShapes ==
  ASSUME NEW o, o.does = "RosterAdd", NEW v, NEW seen
  PROVE  Shapes(o, v, seen)
<1> DEFINE S == Statements(o, v, seen)
           c == o.class
<1>0. /\ AsksFor(o, 1, Student) /\ AsksFor(o, 2, Course(c))
      /\ AsksFor(o, 4, Booking(c)) /\ AsksFor(o, 5, Link)
  BY AsksRows DEF On, Wide, StudentAt, ClassAt, BookingAt, LinkAt
<1>1. S = RosterAdd(v, c)
  BY Zenon DEF Statements
<1>2. /\ S[1] = LockLiveStudent(v) /\ S[2] = LockOpenClass(v, c)
      /\ S[3] = StopIf(v[Booking(c)] = "charged", Reads) /\ S[4] = Upsert(v, Booking(c), "charged")
      /\ S[5] = Ends(ActivateLink(v))
  BY <1>1 DEF RosterAdd, Transaction, ActivateRegistration
<1>3. /\ AtMost(o, 1, seen, {Student}) /\ AtMost(o, 2, seen, {Course(c)})
      /\ AtMost(o, 4, seen, {Booking(c)}) /\ AtMost(o, 5, seen, {Link})
  BY DEF AtMost, Only, AtGate, Does, StudentGate, CourseGate, LinkGate, Charging, Linking
<1>4. Only(o, 4, seen, Booking(c))
  BY DEF Only, AtGate, Does, StudentGate, CourseGate, LinkGate, Charging, Linking
<1>5. Shape(o, 1, seen, S[1])
  BY <1>0, <1>2, <1>3, ShapeStudent
<1>6. Shape(o, 2, seen, S[2])
  BY <1>0, <1>2, <1>3, ShapeCourse
<1>7. Shape(o, 3, seen, S[3])
  BY <1>2, ShapeStops
<1>8. Shape(o, 4, seen, S[4])
  BY <1>0, <1>2, <1>3, <1>4, ShapeUpsert, RowTags
<1>9. Shape(o, 5, seen, S[5])
  BY <1>0, <1>2, <1>3, ShapeActivateLink, ShapeWraps
<1>10. Lengths[o.does] = 5 BY DEF Lengths
<1> QED BY <1>5, <1>6, <1>7, <1>8, <1>9, <1>10 DEF Shapes

LEMMA JoinShapes ==
  ASSUME NEW o, o.does = "Join", NEW v, NEW seen
  PROVE  Shapes(o, v, seen)
<1> DEFINE S == Statements(o, v, seen)
           c == o.class
<1>0. /\ AsksFor(o, 1, Student) /\ AsksFor(o, 2, Course(c)) /\ AsksFor(o, 4, Link)
      /\ AsksFor(o, 5, Link) /\ AsksFor(o, 6, Block)
      /\ (\A i : AsksFor(o, 7, Invited(i))) /\ AsksFor(o, 8, Queued(c))
  BY AsksRows DEF On, Wide, StudentAt, ClassAt, QueueAt, LinkAt, BlockAt, InvitationAt
<1>1. S = Join(v, seen, c)
  BY Zenon DEF Statements
<1>2. /\ S[1] = LockLiveStudent(v) /\ S[2] = LockOpenClass(v, c)
      /\ S[3] = StopIf(v[Booking(c)] = "charged", Reads)
      /\ S[4] = InsertLink(v) /\ S[5] = ActivateLink(v) /\ S[6] = LiftBlock
      /\ S[7] = ResolveInvitation(v, seen)
      /\ S[8] = Ends(Saying("booked", Upsert(v, Queued(c), "waiting")))
  BY <1>1 DEF Join, Transaction
<1>3. /\ AtMost(o, 1, seen, {Student}) /\ AtMost(o, 2, seen, {Course(c)})
      /\ AtMost(o, 4, seen, {Link}) /\ AtMost(o, 5, seen, {Link})
      /\ AtMost(o, 6, seen, {}) /\ AtMost(o, 7, seen, {})
      /\ AtMost(o, 8, seen, {Queued(c)})
  BY DEF AtMost, Only, AtGate, Does, StudentGate, CourseGate, LinkGate, Charging, Linking
<1>4. Only(o, 4, seen, Link) /\ Only(o, 8, seen, Queued(c))
  BY DEF Only, AtGate, Does, StudentGate, CourseGate, LinkGate, Charging, Linking
<1>5. Shape(o, 1, seen, S[1])
  BY <1>0, <1>2, <1>3, ShapeStudent
<1>6. Shape(o, 2, seen, S[2])
  BY <1>0, <1>2, <1>3, ShapeCourse
<1>7. Shape(o, 3, seen, S[3])
  BY <1>2, ShapeStops
<1>8. Shape(o, 4, seen, S[4])
  BY <1>0, <1>2, <1>3, <1>4, ShapeInsertLink
<1>9. Shape(o, 5, seen, S[5])
  BY <1>0, <1>2, <1>3, ShapeActivateLink
<1>10. Shape(o, 6, seen, S[6])
  BY <1>0, <1>2, <1>3, ShapeLiftBlock
<1>11. Shape(o, 7, seen, S[7])
  BY <1>0, <1>2, <1>3, ShapeAnswered DEF ResolveInvitation
<1>12. Shape(o, 8, seen, S[8])
  <2>1. /\ IsStatement(Upsert(v, Queued(c), "waiting"))
        /\ Shape(o, 8, seen, Upsert(v, Queued(c), "waiting"))
    BY <1>0, <1>3, <1>4, ShapeUpsert, RowTags
  <2> QED BY <1>2, <2>1, ShapeWraps
<1>13. Lengths[o.does] = 8 BY DEF Lengths
<1> QED BY <1>5, <1>6, <1>7, <1>8, <1>9, <1>10, <1>11, <1>12, <1>13 DEF Shapes

LEMMA PromoteShapes ==
  ASSUME NEW o, o.does = "Promote", NEW v, NEW seen
  PROVE  Shapes(o, v, seen)
<1> DEFINE S == Statements(o, v, seen)
           c == o.class
           left == [r \in {Queued(c)} |-> "left"]
           over == v[Queued(c)] # "waiting" \/ v[Booking(c)] = "charged"
<1>0. /\ AsksFor(o, 1, Course(c)) /\ AsksFor(o, 3, Student)
      /\ AsksFor(o, 4, Booking(c)) /\ AsksFor(o, 5, Link) /\ AsksFor(o, 6, Link)
      /\ AsksFor(o, 7, Queued(c))
  BY AsksRows DEF On, Wide, StudentAt, ClassAt, BookingAt, QueueAt, LinkAt
<1>1. /\ S[1] = LockOpenClass(v, c)
      /\ S[2] = StopIf(over, Reads)
      /\ S[3] = Locks({Student}, KeyShare) /\ S[4] = Upsert(v, Booking(c), "charged")
      /\ S[5] = InsertLink(v) /\ S[6] = ActivateLink(v) /\ S[7] = Ends(Writes(left))
  BY PromoteIs
<1>2. /\ AtMost(o, 1, seen, {Course(c)}) /\ AtMost(o, 3, seen, {})
      /\ AtMost(o, 4, seen, {Booking(c)}) /\ AtMost(o, 5, seen, {Link})
      /\ AtMost(o, 6, seen, {Link}) /\ AtMost(o, 7, seen, {})
  BY DEF AtMost, Only, AtGate, Does, StudentGate, CourseGate, LinkGate, Charging, Linking
<1>3. Only(o, 4, seen, Booking(c)) /\ Only(o, 5, seen, Link)
  BY DEF Only, AtGate, Does, StudentGate, CourseGate, LinkGate, Charging, Linking
<1>4. Shape(o, 1, seen, S[1])
  BY <1>0, <1>1, <1>2, ShapeCourse
<1>5. Shape(o, 2, seen, S[2])
  <2>1. S[2] = StopIf(over, Reads) BY <1>1
  <2> HIDE DEF over, S
  <2> QED BY <2>1, ShapeReads, ShapeWraps
<1>6. Shape(o, 3, seen, S[3])
  BY <1>0, <1>1, <1>2, ShapeLocks, RowTags DEF AtMost
<1>7. Shape(o, 4, seen, S[4])
  BY <1>0, <1>1, <1>2, <1>3, ShapeUpsert, RowTags
<1>8. Shape(o, 5, seen, S[5])
  BY <1>0, <1>1, <1>2, <1>3, ShapeInsertLink
<1>9. Shape(o, 6, seen, S[6])
  BY <1>0, <1>1, <1>2, ShapeActivateLink
<1>10. Shape(o, 7, seen, S[7])
  <2>1. \A r \in DOMAIN left : AsksFor(o, 7, r) /\ r[1] # "key" BY <1>0, RowTags
  <2>2. S[7] = Ends(Writes(left)) BY <1>1
  <2> HIDE DEF left, S
  <2> QED BY <1>2, <2>1, <2>2, ShapeWrites, ShapeWraps
<1>11. Lengths[o.does] = 7 BY DEF Lengths
<1> QED BY <1>4, <1>5, <1>6, <1>7, <1>8, <1>9, <1>10, <1>11 DEF Shapes

LEMMA SetPrivacyShapes ==
  ASSUME NEW o, o.does = "SetPrivacy", NEW v, NEW seen
  PROVE  Shapes(o, v, seen)
<1> DEFINE S == Statements(o, v, seen)
<1>0. /\ AsksFor(o, 1, Student) /\ AsksFor(o, 2, Privacy)
  BY AsksRows DEF On, Wide, StudentAt, PrivacyAt
<1>1. S = SetPrivacy(v)
  BY Zenon DEF Statements
<1>2. S[1] = LockLiveStudent(v) /\ S[2] = Ends(Upsert(v, Privacy, "shares"))
  BY <1>1 DEF SetPrivacy, Transaction
<1>3. /\ AtMost(o, 1, seen, {Student}) /\ AtMost(o, 2, seen, {Privacy})
  BY DEF AtMost, Only, AtGate, Does, StudentGate, CourseGate, LinkGate, Charging, Linking
<1>4. Only(o, 2, seen, Privacy)
  BY DEF Only, AtGate, Does, StudentGate, CourseGate, LinkGate, Charging, Linking
<1>5. Shape(o, 1, seen, S[1])
  BY <1>0, <1>2, <1>3, ShapeStudent
<1>6. Shape(o, 2, seen, S[2])
  <2>1. /\ IsStatement(Upsert(v, Privacy, "shares"))
        /\ Shape(o, 2, seen, Upsert(v, Privacy, "shares"))
    BY <1>0, <1>3, <1>4, ShapeUpsert, RowTags
  <2> QED BY <1>2, <2>1, ShapeWraps
<1>7. Lengths[o.does] = 2 BY DEF Lengths
<1> QED BY <1>5, <1>6, <1>7 DEF Shapes

LEMMA AcceptShapes ==
  ASSUME NEW o, o.does = "Accept", NEW v, NEW seen
  PROVE  Shapes(o, v, seen)
<1> DEFINE S == Statements(o, v, seen)
           inv == At(v, o.inv)
           open == {j \in {o.inv} : inv.status = "pending"}
<1>0. /\ AsksFor(o, 3, Student) /\ AsksFor(o, 4, Link) /\ AsksFor(o, 5, Link)
      /\ (\A i : AsksFor(o, 6, Invited(i)))
  BY AsksRows DEF On, Wide, StudentAt, LinkAt, InvitationAt
<1>1. S = Accept(v, o.inv)
  BY Zenon DEF Statements
<1>2. /\ S[1] = StopIf(inv.email # Address, Reads)
      /\ S[2] = StopIf(v[Block] # None, Reads) /\ S[3] = LockLiveStudent(v)
      /\ S[4] = InsertLink(v) /\ S[5] = ActivateLink(v)
      /\ S[6] = StopIf(inv.status \notin {"pending", "accepted"}, Answered(v, open, "accepted"))
      /\ S[7] = StopIf(v[Block] # None, Reads)
      /\ S[8] = Ends(Saying("accepted", Reads))
  BY <1>1 DEF Accept, Commit
<1>3. /\ AtMost(o, 3, seen, {Student}) /\ AtMost(o, 4, seen, {Link})
      /\ AtMost(o, 5, seen, {Link}) /\ AtMost(o, 6, seen, {})
  BY DEF AtMost, Only, AtGate, Does, StudentGate, CourseGate, LinkGate, Charging, Linking
<1>4. Only(o, 4, seen, Link)
  BY DEF Only, AtGate, Does, StudentGate, CourseGate, LinkGate, Charging, Linking
<1>5. Shape(o, 1, seen, S[1]) /\ Shape(o, 2, seen, S[2]) /\ Shape(o, 7, seen, S[7])
  BY <1>2, ShapeReads, ShapeWraps
<1>6. Shape(o, 3, seen, S[3])
  BY <1>0, <1>2, <1>3, ShapeStudent
<1>7. Shape(o, 4, seen, S[4])
  BY <1>0, <1>2, <1>3, <1>4, ShapeInsertLink
<1>8. Shape(o, 5, seen, S[5])
  BY <1>0, <1>2, <1>3, ShapeActivateLink
<1>9. Shape(o, 6, seen, S[6])
  <2>1. /\ IsStatement(Answered(v, open, "accepted"))
        /\ Shape(o, 6, seen, Answered(v, open, "accepted"))
    BY <1>0, <1>3, ShapeAnswered
  <2> QED BY <1>2, <2>1, ShapeWraps
<1>10. Shape(o, 8, seen, S[8])
  BY <1>2, ShapeReads, ShapeWraps
<1>11. Lengths[o.does] = 8 BY DEF Lengths
<1> QED BY <1>5, <1>6, <1>7, <1>8, <1>9, <1>10, <1>11 DEF Shapes

LEMMA DeclineShapes ==
  ASSUME NEW o, o.does = "Decline", NEW v, NEW seen
  PROVE  Shapes(o, v, seen)
<1> DEFINE S == Statements(o, v, seen)
           open == {j \in {o.inv} : At(v, j).status = "pending" /\ At(v, j).email = Address}
<1>0. /\ (\A i : AsksFor(o, 2, Invited(i))) /\ AsksFor(o, 3, Block)
  BY AsksRows DEF On, Wide, BlockAt, InvitationAt
<1>1. S = Decline(v, o.inv)
  BY Zenon DEF Statements
<1>2. /\ S[1] = StopIf(At(v, o.inv).email # Address, Reads)
      /\ S[2] = StopIf(open = {}, Answered(v, open, "declined"))
      /\ S[3] = Ends(Saying("declined", UpsertBlock(v)))
  BY <1>1 DEF Decline
<1>3. /\ AtMost(o, 2, seen, {}) /\ AtMost(o, 3, seen, {Block})
  BY DEF AtMost, Only, AtGate, Does, StudentGate, CourseGate, LinkGate, Charging, Linking
<1>4. Only(o, 3, seen, Block)
  BY DEF Only, AtGate, Does, StudentGate, CourseGate, LinkGate, Charging, Linking
<1>5. Shape(o, 1, seen, S[1])
  BY <1>2, ShapeReads, ShapeWraps, SMTT(30)
<1>6. Shape(o, 2, seen, S[2])
  <2>1. S[2] = StopIf(open = {}, Answered(v, open, "declined")) BY <1>2
  <2> HIDE DEF open, S
  <2>2. /\ IsStatement(Answered(v, open, "declined"))
        /\ Shape(o, 2, seen, Answered(v, open, "declined"))
    BY <1>0, <1>3, ShapeAnswered
  <2> QED BY <2>1, <2>2, ShapeWraps
<1>7. Shape(o, 3, seen, S[3])
  BY <1>0, <1>2, <1>3, <1>4, ShapeUpsertBlock, ShapeWraps
<1>8. Lengths[o.does] = 3 BY DEF Lengths
<1> QED BY <1>5, <1>6, <1>7, <1>8 DEF Shapes

LEMMA UnlinkShapes ==
  ASSUME NEW o, o.does = "Unlink", NEW v, NEW seen
  PROVE  Shapes(o, v, seen)
<1> DEFINE S == Statements(o, v, seen)
<1>0. /\ AsksFor(o, 2, Student) /\ (\A c : AsksFor(o, 4, Course(c)))
      /\ (\A c : AsksFor(o, 5, Queued(c))) /\ AsksFor(o, 6, Privacy)
      /\ AsksFor(o, 7, Link) /\ (\A i : AsksFor(o, 8, Invited(i)))
      /\ AsksFor(o, 9, Block)
  BY AsksRows DEF On, Wide, StudentAt, ClassAt, QueueAt, PrivacyAt, LinkAt, BlockAt, InvitationAt
<1>1. S = Unlink(v, seen)
  BY Zenon DEF Statements
<1>2. /\ S[1] = Keeping([link |-> v[Link]], StopIf(v[Link] = None, Reads))
      /\ S[2] = LockLiveStudent(v) /\ S[3] = Keeping([queues |-> WaitingIn(v)], Reads)
      /\ S[4] = LocksInOrder(Courses(seen.queues)) /\ S[5] = Writes(Leaves(v, seen))
      /\ S[6] = Upsert(v, Privacy, "silent")
      /\ S[7] = StopIf(Relinked(v, seen), Deletes({Link}))
      /\ S[8] = Answered(v, DeliveredTo(v), "declined")
      /\ S[9] = Ends(Saying("left", UpsertBlock(v)))
  BY <1>1 DEF Unlink, WaitingIn, Courses, Leaves, Relinked, DeliveredTo
<1>3. /\ AtMost(o, 2, seen, {Student}) /\ AtMost(o, 4, seen, {})
      /\ AtMost(o, 5, seen, {}) /\ AtMost(o, 6, seen, {Privacy})
      /\ AtMost(o, 7, seen, {Link}) /\ AtMost(o, 8, seen, {})
      /\ AtMost(o, 9, seen, {Block})
  BY DEF AtMost, Only, AtGate, Does, StudentGate, CourseGate, LinkGate, Charging, Linking
<1>4. Only(o, 6, seen, Privacy) /\ Only(o, 9, seen, Block)
  BY DEF Only, AtGate, Does, StudentGate, CourseGate, LinkGate, Charging, Linking
<1>5. Shape(o, 1, seen, S[1])
  <2>1. NotesOK(o, 1, [link |-> v[Link]]) BY DEF NotesOK
  <2>2. /\ IsStatement(StopIf(v[Link] = None, Reads))
        /\ Shape(o, 1, seen, StopIf(v[Link] = None, Reads))
    BY ShapeStops
  <2> QED BY <1>2, <2>1, <2>2, ShapeWraps
<1>6. Shape(o, 2, seen, S[2])
  BY <1>0, <1>2, <1>3, ShapeStudent
<1>7. Shape(o, 3, seen, S[3])
  <2>1. NotesOK(o, 3, [queues |-> WaitingIn(v)]) BY DEF NotesOK, Does, WaitingIn
  <2> QED BY <1>2, <2>1, ShapeReads, ShapeWraps
<1>8. Shape(o, 4, seen, S[4])
  <2>1. \A r \in Courses(seen.queues) : AsksFor(o, 4, r) /\ r[1] # "key"
    BY <1>0, RowTags DEF Courses
  <2> QED BY <1>0, <1>2, <1>3, <2>1, ShapeLocks DEF AtMost
<1>9. Shape(o, 5, seen, S[5])
  <2>1. \A r \in DOMAIN Leaves(v, seen) : AsksFor(o, 5, r) /\ r[1] # "key"
    BY <1>0, RowTags DEF Leaves
  <2> QED BY <1>2, <1>3, <2>1, ShapeWrites
<1>10. Shape(o, 6, seen, S[6])
  BY <1>0, <1>2, <1>3, <1>4, ShapeUpsert, RowTags
<1>11. Shape(o, 7, seen, S[7])
  <2>1. IsStatement(Deletes({Link})) /\ Shape(o, 7, seen, Deletes({Link}))
    BY <1>0, <1>3, ShapeLocks, RowTags DEF AtMost
  <2> QED BY <1>2, <2>1, ShapeWraps
<1>12. Shape(o, 8, seen, S[8])
  BY <1>0, <1>2, <1>3, ShapeAnswered
<1>13. Shape(o, 9, seen, S[9])
  BY <1>0, <1>2, <1>3, <1>4, ShapeUpsertBlock, ShapeWraps
<1>14. Lengths[o.does] = 9 BY DEF Lengths
<1> QED BY <1>5, <1>6, <1>7, <1>8, <1>9, <1>10, <1>11, <1>12, <1>13, <1>14 DEF Shapes

LEMMA CancelShapes ==
  ASSUME NEW o, o.does = "Cancel", NEW v, NEW seen
  PROVE  Shapes(o, v, seen)
<1> DEFINE S == Statements(o, v, seen)
           c == o.class
           gone == [r \in {Booking(c)} |-> "cancelled"]
<1>0. /\ AsksFor(o, 1, Course(c)) /\ AsksFor(o, 2, Booking(c))
  BY AsksRows DEF On, Wide, ClassAt, BookingAt
<1>1. S = Cancel(v, c)
  BY Zenon DEF Statements
<1>2. /\ S[1] = LockOpenClass(v, c)
      /\ S[2] = Ends(StopIf(v[Booking(c)] # "charged", Writes(gone)))
  BY <1>1 DEF Cancel, Transaction
<1>3. /\ AtMost(o, 1, seen, {Course(c)}) /\ AtMost(o, 2, seen, {})
  BY DEF AtMost, Only, AtGate, Does, StudentGate, CourseGate, LinkGate, Charging, Linking
<1>4. Shape(o, 1, seen, S[1])
  BY <1>0, <1>2, <1>3, ShapeCourse
<1>5. Shape(o, 2, seen, S[2])
  <2>1. \A r \in DOMAIN gone : AsksFor(o, 2, r) /\ r[1] # "key" BY <1>0, RowTags
  <2>2. S[2] = Ends(StopIf(v[Booking(c)] # "charged", Writes(gone))) BY <1>2
  <2> HIDE DEF gone, S
  <2>3. IsStatement(Writes(gone)) /\ Shape(o, 2, seen, Writes(gone)) BY <1>3, <2>1, ShapeWrites
  <2> QED BY <2>2, <2>3, ShapeWraps
<1>6. Lengths[o.does] = 2 BY DEF Lengths
<1> QED BY <1>4, <1>5, <1>6 DEF Shapes

LEMMA CompleteShapes ==
  ASSUME NEW o, o.does = "Complete", NEW v, NEW seen
  PROVE  Shapes(o, v, seen)
<1> DEFINE S == Statements(o, v, seen)
           c == o.class
           done == [r \in {Course(c)} |-> "completed"]
<1>0. /\ AsksFor(o, 1, Course(c)) /\ AsksFor(o, 2, Course(c))
      /\ AsksFor(o, 3, Booking(c)) /\ AsksFor(o, 4, Owed(c))
  BY AsksRows DEF On, Wide, ClassAt, BookingAt, PaymentAt
<1>1. /\ S[1] = LockOpenClass(v, c) /\ S[2] = Writes(done)
      /\ S[3] = Keeping([billed |-> Billed(v, c)], Writes(Priced(v, c)))
      /\ S[4] = Ends(Inserts(Owing(c, seen)))
  BY CompleteIs
<1>2. /\ AtMost(o, 1, seen, {Course(c)}) /\ AtMost(o, 2, seen, {})
      /\ AtMost(o, 3, seen, {Booking(c)}) /\ AtMost(o, 4, seen, {Owed(c)})
  BY DEF AtMost, Only, AtGate, Does, StudentGate, CourseGate, LinkGate, Charging, Linking
<1>3. Only(o, 4, seen, Owed(c))
  BY DEF Only, AtGate, Does, StudentGate, CourseGate, LinkGate, Charging, Linking
<1>4. Shape(o, 1, seen, S[1])
  BY <1>0, <1>1, <1>2, ShapeCourse
<1>5. Shape(o, 2, seen, S[2])
  <2>1. \A r \in DOMAIN done : AsksFor(o, 2, r) /\ r[1] # "key" BY <1>0, RowTags
  <2>2. S[2] = Writes(done) BY <1>1
  <2> HIDE DEF done, S
  <2> QED BY <1>2, <2>1, <2>2, ShapeWrites
<1>6. Shape(o, 3, seen, S[3])
  <2>1. /\ IsStatement(Writes(Priced(v, c))) /\ Writes(Priced(v, c)).notes = Nothing
        /\ Writes(Priced(v, c)).takes = [r \in DOMAIN Priced(v, c) |-> NoKeyUpdate]
    BY DEF Writes, Locks, Reads, IsStatement
  <2>2. DOMAIN Priced(v, c) \subseteq {Booking(c)} BY DEF Priced, Billed
  <2>3. Shape(o, 3, seen, Writes(Priced(v, c)))
    BY <1>0, <1>2, <2>1, <2>2, NoNotes, RowTags DEF Shape, AtMost
  <2>4. NotesOK(o, 3, [billed |-> Billed(v, c)]) BY DEF NotesOK, Does
  <2> QED BY <1>1, <2>1, <2>3, <2>4, ShapeWraps
<1>7. Shape(o, 4, seen, S[4])
  <2>1. DOMAIN Owing(c, seen) \subseteq {Owed(c)} BY DEF Owing
  <2>2. IsStatement(Inserts(Owing(c, seen))) /\ Shape(o, 4, seen, Inserts(Owing(c, seen)))
    BY <1>0, <1>2, <1>3, <2>1, ShapeInserts DEF AtMost
  <2> QED BY <1>1, <2>2, ShapeWraps
<1>8. Lengths[o.does] = 4 BY DEF Lengths
<1> QED BY <1>4, <1>5, <1>6, <1>7, <1>8 DEF Shapes

LEMMA SettleShapes ==
  ASSUME NEW o, o.does \in {"Pay", "Waive"}, NEW v, NEW seen
  PROVE  Shapes(o, v, seen)
<1> DEFINE S == Statements(o, v, seen)
           c == o.class
           as == IF o.does = "Pay" THEN "settled" ELSE "waived"
           closed == [r \in {q \in {Owed(c)} : v[q] = "open"} |-> as]
<1>0. /\ AsksFor(o, 1, Owed(c))
  BY AsksRows DEF On, Wide, PaymentAt
<1>1. S = Settle(v, c, as)
  <2>1. CASE o.does = "Pay"
    <3>1. S = Settle(v, c, "settled") BY <2>1, Zenon DEF Statements
    <3> QED BY <2>1, <3>1
  <2>2. CASE o.does = "Waive"
    <3>1. S = Settle(v, c, "waived") BY <2>2, Zenon DEF Statements
    <3> QED BY <2>2, <3>1
  <2> QED BY <2>1, <2>2
<1>2. S[1] = Ends(Writes(closed))
  BY <1>1 DEF Settle, Transaction
<1>3. /\ AtMost(o, 1, seen, {})
  BY DEF AtMost, Only, AtGate, Does, StudentGate, CourseGate, LinkGate, Charging, Linking
<1>4. Shape(o, 1, seen, S[1])
  <2>1. \A r \in DOMAIN closed : AsksFor(o, 1, r) /\ r[1] # "key" BY <1>0, RowTags
  <2>2. S[1] = Ends(Writes(closed)) BY <1>2
  <2> HIDE DEF closed, S
  <2> QED BY <1>3, <2>1, <2>2, ShapeWrites, ShapeWraps
<1>5. Lengths[o.does] = 1 BY DEF Lengths
<1> QED BY <1>4, <1>5 DEF Shapes

LEMMA ReopenShapes ==
  ASSUME NEW o, o.does = "Reopen", NEW v, RowsTyped(v), NEW seen
  PROVE  Shapes(o, v, seen)
<1> DEFINE S == Statements(o, v, seen)
           c == o.class
           reopened == [r \in Closed(v, c) |-> "open"]
<1>0. /\ AsksFor(o, 2, Link) /\ AsksFor(o, 3, Owed(c)) /\ AsksFor(o, 4, Owed(c))
      /\ AsksFor(o, 5, Link)
  BY AsksRows DEF On, Wide, LinkAt, PaymentAt
<1>1. /\ Len(S) = 5 /\ S[1] = StopIf(v[Owed(c)] = None, Reads)
      /\ S[2] = Keeping([filed |-> IsFiled(v)], Locks({Link}, Update))
      /\ S[3] = Locks({Owed(c)}, Update)
      /\ S[4] = StopIf(Closed(v, c) = {}, Writes(reopened))
      /\ S[5] = Ends(Writes(Restored(v, seen)))
  BY ReopenIs, ZenonT(60)
<1>2. /\ AtMost(o, 2, seen, {Link}) /\ AtMost(o, 3, seen, {})
      /\ AtMost(o, 4, seen, {}) /\ AtMost(o, 5, seen, {})
  BY DEF AtMost, Only, AtGate, Does, StudentGate, CourseGate, LinkGate, Charging, Linking
<1>3. Shape(o, 1, seen, S[1])
  BY <1>1, ShapeStops
<1>4. Shape(o, 2, seen, S[2])
  <2>1. IsStatement(Locks({Link}, Update)) /\ Shape(o, 2, seen, Locks({Link}, Update))
    BY <1>0, <1>2, ShapeLocks, RowTags DEF AtMost
  <2>2. NotesOK(o, 2, [filed |-> IsFiled(v)])
    BY DEF NotesOK, Does, IsFiled, RowsTyped, LinkRow
  <2> QED BY <1>1, <2>1, <2>2, ShapeWraps
<1>5. Shape(o, 3, seen, S[3])
  BY <1>0, <1>1, <1>2, ShapeLocks, RowTags DEF AtMost
<1>6. Shape(o, 4, seen, S[4])
  <2>1. \A r \in DOMAIN reopened : AsksFor(o, 4, r) /\ r[1] # "key" BY <1>0, RowTags DEF Closed
  <2>2. S[4] = StopIf(Closed(v, c) = {}, Writes(reopened)) BY <1>1
  <2> HIDE DEF reopened, S
  <2>3. IsStatement(Writes(reopened)) /\ Shape(o, 4, seen, Writes(reopened))
    BY <1>2, <2>1, ShapeWrites
  <2> QED BY <2>2, <2>3, ShapeWraps
<1>7. Shape(o, 5, seen, S[5])
  <2>1. \A r \in DOMAIN Restored(v, seen) : AsksFor(o, 5, r) /\ r[1] # "key"
    BY <1>0, RowTags DEF Restored
  <2>2. IsStatement(Writes(Restored(v, seen))) /\ Shape(o, 5, seen, Writes(Restored(v, seen)))
    BY <1>2, <2>1, ShapeWrites
  <2> QED BY <1>1, <2>2, ShapeWraps
<1>8. Lengths[o.does] = 5 BY DEF Lengths
<1> QED BY <1>3, <1>4, <1>5, <1>6, <1>7, <1>8 DEF Shapes

LEMMA ArchiveShapes ==
  ASSUME NEW o, o.does = "Archive", NEW v, NEW seen
  PROVE  Shapes(o, v, seen)
<1> DEFINE S == Statements(o, v, seen)
           unfit == v[Link] = None \/ IsFiled(v)
           owing == OpenIn(v) # {} /\ ~o.waive
           more == ~(seen.billed \subseteq OpenIn(v))
<1>0. /\ AsksFor(o, 1, Link) /\ (\A c : AsksFor(o, 4, Owed(c)))
      /\ AsksFor(o, 5, Link)
  BY AsksRows DEF On, Wide, LinkAt, PaymentAt
<1>1. /\ S[1] = StopIf(unfit, Locks({Link}, Update))
      /\ S[2] = StopIf(LiveIn(v) # {}, Reads)
      /\ S[3] = Keeping([billed |-> OpenIn(v)], StopIf(owing, Reads))
      /\ S[4] = StopIf(more, Writes(Waived(v, seen)))
      /\ S[5] = Ends(Writes(Marked(v, TRUE)))
  BY ArchiveIs
<1>2. /\ AtMost(o, 1, seen, {Link}) /\ AtMost(o, 4, seen, {})
      /\ AtMost(o, 5, seen, {})
  BY DEF AtMost, Only, AtGate, Does, StudentGate, CourseGate, LinkGate, Charging, Linking
<1>3. Shape(o, 1, seen, S[1])
  <2>1. S[1] = StopIf(unfit, Locks({Link}, Update)) BY <1>1
  <2> HIDE DEF unfit, S
  <2>2. IsStatement(Locks({Link}, Update)) /\ Shape(o, 1, seen, Locks({Link}, Update))
    BY <1>0, <1>2, ShapeLocks, RowTags DEF AtMost
  <2> QED BY <2>1, <2>2, ShapeWraps
<1>4. Shape(o, 2, seen, S[2])
  BY <1>1, ShapeStops
<1>5. Shape(o, 3, seen, S[3])
  <2>1. S[3] = Keeping([billed |-> OpenIn(v)], StopIf(owing, Reads)) BY <1>1
  <2> HIDE DEF owing, S
  <2>2. IsStatement(StopIf(owing, Reads)) /\ Shape(o, 3, seen, StopIf(owing, Reads))
    BY ShapeStops
  <2>3. NotesOK(o, 3, [billed |-> OpenIn(v)]) BY DEF NotesOK, Does, OpenIn
  <2> QED BY <2>1, <2>2, <2>3, ShapeWraps
<1>6. Shape(o, 4, seen, S[4])
  <2>1. S[4] = StopIf(more, Writes(Waived(v, seen))) BY <1>1
  <2> HIDE DEF more, S
  <2>2. \A r \in DOMAIN Waived(v, seen) : AsksFor(o, 4, r) /\ r[1] # "key"
    BY <1>0, RowTags DEF Waived, OpenIn
  <2>3. IsStatement(Writes(Waived(v, seen))) /\ Shape(o, 4, seen, Writes(Waived(v, seen)))
    BY <1>2, <2>2, ShapeWrites
  <2> QED BY <2>1, <2>3, ShapeWraps
<1>7. Shape(o, 5, seen, S[5])
  <2>1. \A r \in DOMAIN Marked(v, TRUE) : AsksFor(o, 5, r) /\ r[1] # "key"
    BY <1>0, RowTags DEF Marked, Existing
  <2>2. IsStatement(Writes(Marked(v, TRUE))) /\ Shape(o, 5, seen, Writes(Marked(v, TRUE)))
    BY <1>2, <2>1, ShapeWrites
  <2> QED BY <1>1, <2>2, ShapeWraps
<1>8. Lengths[o.does] = 5 BY DEF Lengths
<1> QED BY <1>3, <1>4, <1>5, <1>6, <1>7, <1>8 DEF Shapes

LEMMA UnarchiveShapes ==
  ASSUME NEW o, o.does = "Unarchive", NEW v, NEW seen
  PROVE  Shapes(o, v, seen)
<1> DEFINE S == Statements(o, v, seen)
<1>0. /\ AsksFor(o, 2, Link)
  BY AsksRows DEF On, Wide, LinkAt
<1>1. S = Unarchive(v)
  BY Zenon DEF Statements
<1>2. S[1] = StopIf(~IsFiled(v), Reads) /\ S[2] = Ends(Writes(Marked(v, FALSE)))
  BY <1>1 DEF Unarchive, Marked
<1>3. /\ AtMost(o, 2, seen, {})
  BY DEF AtMost, Only, AtGate, Does, StudentGate, CourseGate, LinkGate, Charging, Linking
<1>4. Shape(o, 1, seen, S[1])
  BY <1>2, ShapeStops
<1>5. Shape(o, 2, seen, S[2])
  <2>1. \A r \in DOMAIN Marked(v, FALSE) : AsksFor(o, 2, r) /\ r[1] # "key"
    BY <1>0, RowTags DEF Marked, Existing
  <2>2. IsStatement(Writes(Marked(v, FALSE))) /\ Shape(o, 2, seen, Writes(Marked(v, FALSE)))
    BY <1>3, <2>1, ShapeWrites
  <2> QED BY <1>2, <2>2, ShapeWraps
<1>6. Lengths[o.does] = 2 BY DEF Lengths
<1> QED BY <1>4, <1>5, <1>6 DEF Shapes

LEMMA Least ==
  ASSUME NEW T \in SUBSET Nat, T # {}
  PROVE  \E m \in T : \A k \in T : m <= k
<1> DEFINE R == OpToRel(<, Nat)
<1>1. IsWellFoundedOn(R, Nat)
  BY NatLessThanWellFounded
<1>2. \E m \in T : \A k \in T : ~(<<k, m>> \in R)
  <2> HIDE DEF R
  <2> QED BY <1>1, WFMin, Zenon
<1>3. \E m \in T : \A k \in T : ~(k < m)
  BY <1>2 DEF OpToRel
<1> QED BY <1>3

LEMMA LowestIs ==
  ASSUME NEW T \in SUBSET Invitation
  PROVE  /\ Lowest(T) \in Invitation \cup {None}
         /\ T # {} => Min(T) \in T
<1>1. ASSUME T # {} PROVE Min(T) \in T
  <2>1. T \in SUBSET Nat BY RosterAssumption
  <2>2. \E m \in T : \A k \in T : m <= k BY <1>1, <2>1, Least
  <2> QED BY <2>2 DEF Min
<1> QED BY <1>1 DEF Lowest

LEMMA ResendShapes ==
  ASSUME NEW o, o.does = "Resend", OpTyped(o), NEW v, RowsTyped(v), NEW seen
  PROVE  Shapes(o, v, seen)
<1> DEFINE S == Statements(o, v, seen)
           stamped == [r \in Existing(v, {Invited(o.inv)}) |-> [v[r] EXCEPT !.told = seen.email]]
<1>0. /\ (\A i : AsksFor(o, 2, Invited(i)))
  BY AsksRows DEF On, Wide, InvitationAt
<1>1. S = Resend(v, seen, o.inv)
  BY Zenon DEF Statements
<1>2. /\ S[1] = Keeping([email |-> At(v, o.inv).email],
                        StopIf(At(v, o.inv).status # "pending", Reads))
      /\ S[2] = Ends(Writes(stamped))
  BY <1>1 DEF Resend
<1>3. /\ AtMost(o, 2, seen, {})
  BY DEF AtMost, Only, AtGate, Does, StudentGate, CourseGate, LinkGate, Charging, Linking
<1>4. Shape(o, 1, seen, S[1])
  <2>1. At(v, o.inv).email \in Addresses \cup {None}
    BY DEF At, NoInvitation, OpTyped, RowsTyped, InvitationRow, Addresses
  <2>2. NotesOK(o, 1, [email |-> At(v, o.inv).email]) BY <2>1 DEF NotesOK
  <2>3. /\ IsStatement(StopIf(At(v, o.inv).status # "pending", Reads))
        /\ Shape(o, 1, seen, StopIf(At(v, o.inv).status # "pending", Reads))
    BY ShapeStops
  <2> QED BY <1>2, <2>2, <2>3, ShapeWraps
<1>5. Shape(o, 2, seen, S[2])
  <2>1. \A r \in DOMAIN stamped : AsksFor(o, 2, r) /\ r[1] # "key" BY <1>0, RowTags DEF Existing
  <2>2. S[2] = Ends(Writes(stamped)) BY <1>2
  <2> HIDE DEF stamped, S
  <2>3. IsStatement(Writes(stamped)) /\ Shape(o, 2, seen, Writes(stamped))
    BY <1>3, <2>1, ShapeWrites
  <2> QED BY <2>2, <2>3, ShapeWraps
<1>6. Lengths[o.does] = 2 BY DEF Lengths
<1> QED BY <1>4, <1>5, <1>6 DEF Shapes

LEMMA RemoveShapes ==
  ASSUME NEW o, o.does = "Remove", NEW v, NEW seen
  PROVE  Shapes(o, v, seen)
<1> DEFINE S == Statements(o, v, seen)
           inv == At(v, o.inv)
           freed == [k \in {Key(inv.email)} |-> None]
<1>0. /\ (\A i : AsksFor(o, 2, Invited(i)))
  BY AsksRows DEF On, Wide, InvitationAt
<1>1. /\ Len(S) = 2 /\ S[1] = StopIf(inv.status \notin {"pending", "accepted"}, Reads)
      /\ S[2] = Ends(Also(freed,
                  StopIf(inv.status \notin {"pending", "accepted"}, Deletes({Invited(o.inv)}))))
  BY RemoveIs
<1>2. /\ AtMost(o, 2, seen, {})
  BY DEF AtMost, Only, AtGate, Does, StudentGate, CourseGate, LinkGate, Charging, Linking
<1>3. Shape(o, 1, seen, S[1])
  BY <1>1, ShapeStops
<1>4. Shape(o, 2, seen, S[2])
  <2> DEFINE gone == inv.status \notin {"pending", "accepted"}
  <2>1. S[2] = Ends(Also(freed, StopIf(gone, Deletes({Invited(o.inv)})))) BY <1>1
  <2> HIDE DEF gone, freed, S
  <2>2. IsStatement(Deletes({Invited(o.inv)})) /\ Shape(o, 2, seen, Deletes({Invited(o.inv)}))
    BY <1>0, <1>2, ShapeLocks, RowTags DEF AtMost
  <2>3. /\ IsStatement(StopIf(gone, Deletes({Invited(o.inv)})))
        /\ Shape(o, 2, seen, StopIf(gone, Deletes({Invited(o.inv)})))
    BY <2>2, ShapeWraps
  <2> QED BY <2>1, <2>3, ShapeWraps
<1>5. Lengths[o.does] = 2 BY DEF Lengths
<1> QED BY <1>3, <1>4, <1>5 DEF Shapes

LEMMA EditShapes ==
  ASSUME NEW o, o.does = "Edit", OpTyped(o), NEW v, RowsTyped(v), NEW seen
  PROVE  Shapes(o, v, seen)
<1> DEFINE S == Statements(o, v, seen)
           inv == At(v, o.inv)
<1>0. /\ (\A i : AsksFor(o, 2, Invited(i))) /\ (\A e : AsksFor(o, 3, Key(e)))
  BY AsksRows DEF On, Wide, EntryAt, InvitationAt
<1>1. /\ Len(S) = 3
      /\ S[1] = Keeping([email |-> inv.email], StopIf(inv.status # "pending", Reads))
      /\ S[2] = Keeping([held |-> inv.email],
                        StopIf(inv.status # "pending", Writes(Edited(v, seen, o))))
      /\ S[3] = Ends(StopIf(Existing(v, Moved(seen, o)) # {},
                       Also(FreedFor(seen, o), Inserts(TakenBy(Moved(seen, o))))))
  BY EditIs
<1>2. /\ AtMost(o, 2, seen, {Invited(o.inv)}) /\ AtMost(o, 3, seen, {Key(o.to)})
  BY DEF AtMost, Only, AtGate, Does, StudentGate, CourseGate, LinkGate, Charging, Linking
<1>3. Only(o, 3, seen, Key(o.to))
  BY DEF Only, AtGate, Does, StudentGate, CourseGate, LinkGate, Charging, Linking
<1>4. Shape(o, 1, seen, S[1])
  <2>1. inv.email \in Addresses \cup {None}
    BY DEF At, NoInvitation, OpTyped, RowsTyped, InvitationRow, Addresses
  <2>2. NotesOK(o, 1, [email |-> inv.email]) BY <2>1 DEF NotesOK
  <2>3. /\ IsStatement(StopIf(inv.status # "pending", Reads))
        /\ Shape(o, 1, seen, StopIf(inv.status # "pending", Reads))
    BY ShapeStops
  <2> QED BY <1>1, <2>2, <2>3, ShapeWraps
<1>5. Shape(o, 2, seen, S[2])
  <2> DEFINE f == Edited(v, seen, o)
  <2>1. DOMAIN f \subseteq {Invited(o.inv)} BY DEF Edited, Existing
  <2> HIDE DEF f
  <2>2. /\ IsStatement(Writes(f)) /\ Writes(f).notes = Nothing
        /\ Writes(f).takes = [r \in DOMAIN f |-> NoKeyUpdate]
    BY DEF Writes, Locks, Reads, IsStatement
  <2>3. Shape(o, 2, seen, Writes(f))
    BY <1>0, <1>2, <2>1, <2>2, NoNotes, RowTags DEF Shape, AtMost
  <2>4. NotesOK(o, 2, [held |-> inv.email]) BY DEF NotesOK, Does
  <2>5. /\ IsStatement(StopIf(inv.status # "pending", Writes(f)))
        /\ Shape(o, 2, seen, StopIf(inv.status # "pending", Writes(f)))
    BY <2>2, <2>3, ShapeWraps
  <2> QED BY <1>1, <2>4, <2>5, ShapeWraps DEF f
<1>6. Shape(o, 3, seen, S[3])
  <2> DEFINE f == TakenBy(Moved(seen, o))
             st == Also(FreedFor(seen, o), Inserts(f))
  <2>1. DOMAIN f \subseteq {Key(o.to)} BY DEF TakenBy, Moved
  <2> HIDE DEF f
  <2>2. IsStatement(Inserts(f)) /\ Shape(o, 3, seen, Inserts(f))
    BY <1>0, <1>2, <1>3, <2>1, ShapeInserts DEF AtMost
  <2>3. IsStatement(st) /\ Shape(o, 3, seen, st)
    BY <2>2, ShapeWraps
  <2>4. S[3] = Ends(StopIf(Existing(v, Moved(seen, o)) # {}, st)) BY <1>1 DEF f
  <2> HIDE DEF st, S
  <2>5. /\ IsStatement(StopIf(Existing(v, Moved(seen, o)) # {}, st))
        /\ Shape(o, 3, seen, StopIf(Existing(v, Moved(seen, o)) # {}, st))
    BY <2>3, ShapeWraps
  <2> QED BY <2>4, <2>5, ShapeWraps
<1>7. Lengths[o.does] = 3 BY DEF Lengths
<1> QED BY <1>4, <1>5, <1>6, <1>7 DEF Shapes

LEMMA ShapeInsertInvitation ==
  ASSUME NEW o, NEW pc, NEW seen, AtMost(o, pc, seen, {Key(Address)}),
         Only(o, pc, seen, Key(Address)), NEW free, NEW fresh,
         AsksFor(o, pc, Key(Address))
  PROVE  /\ IsStatement(InsertInvitation(free, fresh))
         /\ Shape(o, pc, seen, InsertInvitation(free, fresh))
<1> DEFINE new == [r \in {Invited(i) : i \in {j \in free : \A k \in free : j <= k}} |-> fresh]
           entry == [k \in {Key(Address)} |-> "taken"]
<1>1. DOMAIN entry = {Key(Address)} OBVIOUS
<1>2. InsertInvitation(free, fresh) = Also(new, Inserts(entry)) BY DEF InsertInvitation
<1> HIDE DEF new, entry
<1>3. IsStatement(Inserts(entry)) /\ Shape(o, pc, seen, Inserts(entry))
  BY <1>1, ShapeInserts DEF AtMost
<1> QED BY <1>2, <1>3, ShapeWraps

LEMMA InviteShapes ==
  ASSUME NEW o, o.does = "Invite", NEW v, RowsTyped(v), NEW seen, SeenTyped(o, seen),
         scope \in Scopes
  PROVE  Shapes(o, v, seen)
<1> DEFINE S == Statements(o, v, seen)
<1>0. /\ (\A i : AsksFor(o, 4, Invited(i))) /\ (\A e : AsksFor(o, 4, Key(e)))
      /\ (\A i : AsksFor(o, 5, Invited(i)))
  BY AsksRows DEF On, Wide, EntryAt, InvitationAt
<1>1. S = Invite(v, seen) BY InviteIs
<1>2. Shape(o, 1, seen, S[1])
  <2>1. HolderOf(v, Address) \in SUBSET Invitation BY DEF HolderOf
  <2>2. NotesOK(o, 1, InviteNotes(v)) BY <2>1, LowestIs DEF NotesOK, Does, InviteNotes
  <2>3. S[1] = Keeping(InviteNotes(v), StopIf(StatusAt(v, Address) \in {"pending", "declined"}, Reads))
    BY <1>1, InviteReads
  <2> QED BY <2>2, <2>3, ShapeStops, ShapeWraps
<1>3. Shape(o, 2, seen, S[2])
  <2>1. NotesOK(o, 2, [linked |-> v[Link] # None]) BY DEF NotesOK
  <2>2. S[2] = Keeping([linked |-> v[Link] # None], StopIf(Pointless(v, seen), Reads))
    BY <1>1, InviteReads
  <2>3. /\ IsStatement(StopIf(Pointless(v, seen), Reads))
        /\ Shape(o, 2, seen, StopIf(Pointless(v, seen), Reads))
    BY ShapeStops
  <2> QED BY <2>1, <2>2, <2>3, ShapeWraps
<1>4. Shape(o, 3, seen, S[3])
  <2> DEFINE full == Mine(seen) = {} /\ FreeIds(v) = {}
             n == [blocked |-> v[Block] # None]
  <2>1. NotesOK(o, 3, n) BY DEF NotesOK
  <2>2. S[3] = Keeping(n, StopIf(full, Reads)) BY <1>1, InviteReads
  <2> HIDE DEF full, n, S
  <2>3. IsStatement(StopIf(full, Reads)) /\ Shape(o, 3, seen, StopIf(full, Reads))
    BY ShapeStops
  <2> QED BY <2>1, <2>2, <2>3, ShapeWraps
<1>5. Shape(o, 4, seen, S[4])
  <2>1. CASE Mine(seen) # {}
    <3>1. seen.id # None BY <2>1 DEF Mine
    <3>2. AtMost(o, 4, seen, {})
      BY <3>1 DEF AtMost, Only, AtGate, Does, StudentGate, CourseGate, LinkGate, Charging, Linking
    <3>3. \A r \in DOMAIN Repended(v, seen) : AsksFor(o, 4, r) /\ r[1] # "key"
      BY <1>0, RowTags DEF Repended, AcceptedOf, Existing, Mine
    <3>4. IsStatement(Writes(Repended(v, seen))) /\ Shape(o, 4, seen, Writes(Repended(v, seen)))
      BY <3>2, <3>3, ShapeWrites
    <3>5. S[4] = Ends(StopIf(AcceptedOf(v, seen) = {}, Writes(Repended(v, seen))))
      BY <1>1, <2>1, InviteAdds
    <3>6. /\ IsStatement(StopIf(AcceptedOf(v, seen) = {}, Writes(Repended(v, seen))))
          /\ Shape(o, 4, seen, StopIf(AcceptedOf(v, seen) = {}, Writes(Repended(v, seen))))
      BY <3>4, ShapeWraps
    <3> QED BY <3>5, <3>6, ShapeWraps
  <2>2. CASE Mine(seen) = {}
    <3>1. seen.id = None BY <2>2, NoneIs DEF Mine
    <3>2. AtMost(o, 4, seen, {Key(Address)}) /\ Only(o, 4, seen, Key(Address))
      BY <3>1 DEF AtMost, Only, AtGate, Does, StudentGate, CourseGate, LinkGate, Charging, Linking
    <3> DEFINE st == InsertInvitation(FreeIds(v), FreshInvitation(Delivers(seen)))
    <3>3. IsStatement(st) /\ Shape(o, 4, seen, st)
      BY <1>0, <3>2, ShapeInsertInvitation
    <3>4. NewInvitation(v, seen) = Keeping([id |-> Lowest(FreeIds(v))], StopIf(NoRoom(v), st))
      BY DEF NewInvitation
    <3> HIDE DEF st
    <3>5. IsStatement(StopIf(NoRoom(v), st)) /\ Shape(o, 4, seen, StopIf(NoRoom(v), st))
      BY <3>3, ShapeWraps
    <3>6. NotesOK(o, 4, [id |-> Lowest(FreeIds(v))])
      BY FreeIdsExist, LowestIs DEF NotesOK, Does
    <3>7. IsStatement(NewInvitation(v, seen)) /\ Shape(o, 4, seen, NewInvitation(v, seen))
      BY <3>4, <3>5, <3>6, ShapeWraps
    <3>8. S[4] = Ends(NewInvitation(v, seen)) BY <1>1, <2>2, InviteAdds
    <3> QED BY <3>7, <3>8, ShapeWraps
  <2> QED BY <2>1, <2>2
<1>6. Shape(o, 5, seen, S[5])
  <2>1. AtMost(o, 5, seen, {})
    BY DEF AtMost, Only, AtGate, Does, StudentGate, CourseGate, LinkGate, Charging, Linking
  <2>2. \A r \in DOMAIN Stamped(v, seen) : AsksFor(o, 5, r) /\ r[1] # "key"
    BY <1>0, RowTags DEF Stamped, Existing, Mine
  <2>3. IsStatement(Writes(Stamped(v, seen))) /\ Shape(o, 5, seen, Writes(Stamped(v, seen)))
    BY <2>1, <2>2, ShapeWrites
  <2>4. S[5] = Ends(Writes(Stamped(v, seen))) BY <1>1, InviteAdds
  <2> QED BY <2>3, <2>4, ShapeWraps
<1>7. Lengths[o.does] = 5 BY DEF Lengths
<1> QED BY <1>2, <1>3, <1>4, <1>5, <1>6, <1>7 DEF Shapes

LEMMA WalkInShapes ==
  ASSUME NEW o, o.does = "WalkIn", NEW v, NEW seen
  PROVE  Shapes(o, v, seen)
<1> DEFINE S == Statements(o, v, seen)
           c == o.class
<1>0. /\ AsksFor(o, 3, Student) /\ AsksFor(o, 4, Course(c))
      /\ AsksFor(o, 6, Booking(c)) /\ AsksFor(o, 7, Link) /\ AsksFor(o, 8, Link)
      /\ (\A e : AsksFor(o, 9, Key(e))) /\ (\A i : AsksFor(o, 10, Invited(i)))
  BY AsksRows DEF On, Wide, StudentAt, ClassAt, BookingAt, LinkAt, EntryAt, InvitationAt
<1>1. S = WalkIn(v, c) BY WalkInIs
<1>2. /\ AtMost(o, 3, seen, {Student}) /\ AtMost(o, 4, seen, {Course(c)})
      /\ AtMost(o, 6, seen, {Booking(c)}) /\ AtMost(o, 7, seen, {Link})
      /\ AtMost(o, 8, seen, {Link}) /\ AtMost(o, 9, seen, {Key(Address)})
      /\ AtMost(o, 10, seen, {})
  BY DEF AtMost, Only, AtGate, Does, StudentGate, CourseGate, LinkGate, Charging, Linking
<1>3. Only(o, 6, seen, Booking(c)) /\ Only(o, 7, seen, Link) /\ Only(o, 9, seen, Key(Address))
  BY DEF Only, AtGate, Does, StudentGate, CourseGate, LinkGate, Charging, Linking
<1>4. Shape(o, 1, seen, S[1])
  <2> DEFINE over == StatusAt(v, Address) = "declined" \/ v[Student] = "erased"
  <2>1. S[1] = StopIf(over, Reads) BY <1>1, WalkInStarts
  <2> HIDE DEF over, S
  <2> QED BY <2>1, ShapeStops
<1>5. Shape(o, 2, seen, S[2]) /\ Shape(o, 5, seen, S[5])
  BY <1>1, WalkInStarts, ShapeStops
<1>6. Shape(o, 3, seen, S[3])
  BY <1>0, <1>1, <1>2, WalkInStarts, ShapeStudent
<1>7. Shape(o, 4, seen, S[4])
  BY <1>0, <1>1, <1>2, WalkInStarts, ShapeCourse
<1>8. Shape(o, 6, seen, S[6])
  BY <1>0, <1>1, <1>2, <1>3, WalkInStarts, ShapeUpsert, RowTags
<1>9. Shape(o, 7, seen, S[7])
  BY <1>0, <1>1, <1>2, <1>3, WalkInStarts, ShapeInsertLink
<1>10. Shape(o, 8, seen, S[8])
  BY <1>0, <1>1, <1>2, WalkInStarts, ShapeActivateLink
<1>11. Shape(o, 9, seen, S[9])
  <2>1. Shape(o, 9, seen, Locks({Key(Address)}, Insert))
    <3>1. /\ Locks({Key(Address)}, Insert).takes = [r \in {Key(Address)} |-> Insert]
          /\ Locks({Key(Address)}, Insert).notes = Nothing
      BY DEF Locks, Reads
    <3>2. ~Lockable(Key(Address)) BY RowTags DEF Lockable
    <3>3. \A q : Only(o, 9, seen, q) => q = Key(Address) BY <1>2 DEF AtMost
    <3> QED BY <1>0, <1>3, <3>1, <3>2, <3>3, NoNotes DEF Shape
  <2>2. /\ IsStatement(InsertInvitation(FreeIds(v), FreshInvitation(TRUE)))
        /\ Shape(o, 9, seen, InsertInvitation(FreeIds(v), FreshInvitation(TRUE)))
    BY <1>0, <1>2, <1>3, ShapeInsertInvitation
  <2>3. Shape(o, 9, seen, WalkInEntry(v))
    BY <2>1, <2>2, ShapeWraps DEF WalkInEntry
  <2> QED BY <1>1, <2>3, WalkInEnds
<1>12. Shape(o, 10, seen, S[10])
  <2>1. /\ IsStatement(Answered(v, PendingOf(v), "accepted"))
        /\ Shape(o, 10, seen, Answered(v, PendingOf(v), "accepted"))
    BY <1>0, <1>2, ShapeAnswered
  <2> QED BY <1>1, <2>1, WalkInEnds, ShapeWraps
<1>13. Shape(o, 11, seen, S[11]) /\ Shape(o, 12, seen, S[12])
  BY <1>1, WalkInEnds, ShapeStops, ShapeReads, ShapeWraps
<1>14. Lengths[o.does] = 12 BY DEF Lengths
<1> QED BY <1>4, <1>5, <1>6, <1>7, <1>8, <1>9, <1>10, <1>11, <1>12, <1>13, <1>14 DEF Shapes

LEMMA EraseShapes ==
  ASSUME NEW o, o.does = "Erase", NEW v, NEW seen
  PROVE  Shapes(o, v, seen)
<1> DEFINE S == Statements(o, v, seen)
<1>0. /\ AsksFor(o, 1, Student) /\ (\A c : AsksFor(o, 3, Course(c)))
      /\ (\A c : AsksFor(o, 4, Booking(c))) /\ AsksFor(o, 5, Privacy)
      /\ AsksFor(o, 6, Link) /\ (\A c : AsksFor(o, 7, Queued(c)))
      /\ (\A i : AsksFor(o, 8, Invited(i))) /\ (\A i : AsksFor(o, 9, Invited(i)))
      /\ AsksFor(o, 10, Student)
  BY AsksRows DEF On, Wide, StudentAt, ClassAt, BookingAt, QueueAt, PrivacyAt, LinkAt, InvitationAt
<1>1. S = Erase(v, seen) BY EraseIs
<1>2. /\ AtMost(o, 1, seen, {Student}) /\ AtMost(o, 5, seen, {Privacy})
      /\ AtMost(o, 6, seen, {Link})
      /\ AtMost(o, 3, seen, {}) /\ AtMost(o, 4, seen, {}) /\ AtMost(o, 7, seen, {})
      /\ AtMost(o, 8, seen, {}) /\ AtMost(o, 9, seen, {}) /\ AtMost(o, 10, seen, {})
  BY DEF AtMost, Only, AtGate, Does, StudentGate, CourseGate, LinkGate, Charging, Linking
<1>3. Shape(o, 1, seen, S[1])
  <2>1. Shape(o, 1, seen, Locks({Student}, NoKeyUpdate))
    BY <1>0, <1>2, ShapeLocks, RowTags DEF AtMost
  <2> QED BY <1>1, <2>1, EraseStarts
<1>4. Shape(o, 2, seen, S[2])
  <2>1. NotesOK(o, 2, [queues |-> InQueue(v)]) BY DEF NotesOK, Does, InQueue
  <2>2. Shape(o, 2, seen, Keeping([queues |-> InQueue(v)], Reads))
    BY <2>1, ShapeReads, ShapeWraps
  <2> QED BY <1>1, <2>2, EraseStarts
<1>5. Shape(o, 3, seen, S[3])
  <2>1. \A r \in Courses(seen.queues) : AsksFor(o, 3, r) /\ r[1] # "key"
    BY <1>0, RowTags DEF Courses
  <2>2. Shape(o, 3, seen, LocksInOrder(Courses(seen.queues)))
    BY <1>0, <1>2, <2>1, ShapeLocks DEF AtMost
  <2> QED BY <1>1, <2>2, EraseStarts
<1>6. Shape(o, 4, seen, S[4])
  <2>1. \A r \in DOMAIN CancelledIn(v) : AsksFor(o, 4, r) /\ r[1] # "key"
    BY <1>0, RowTags DEF CancelledIn
  <2>2. Shape(o, 4, seen, Writes(CancelledIn(v)))
    BY <1>2, <2>1, ShapeWrites
  <2> QED BY <1>1, <2>2, EraseStarts
<1>7. Shape(o, 5, seen, S[5]) /\ Shape(o, 6, seen, S[6])
  <2>1. Shape(o, 5, seen, Deletes({Privacy})) /\ Shape(o, 6, seen, Deletes({Link}))
    BY <1>0, <1>2, ShapeLocks, RowTags DEF AtMost
  <2> QED BY <1>1, <2>1, EraseStarts
<1>8. Shape(o, 7, seen, S[7])
  <2>1. \A r \in QueuesOf(seen) : AsksFor(o, 7, r) /\ r[1] # "key" BY <1>0, RowTags DEF QueuesOf
  <2>2. Shape(o, 7, seen, Deletes(QueuesOf(seen)))
    BY <1>0, <1>2, <2>1, ShapeLocks DEF AtMost
  <2> QED BY <1>1, <2>2, EraseEnds
<1>9. Shape(o, 8, seen, S[8])
  <2>1. \A r \in DOMAIN ScrubbedIn(v) : AsksFor(o, 8, r) /\ r[1] # "key"
    BY <1>0, RowTags DEF ScrubbedIn
  <2>2. IsStatement(Writes(ScrubbedIn(v))) /\ Shape(o, 8, seen, Writes(ScrubbedIn(v)))
    BY <1>2, <2>1, ShapeWrites
  <2>3. Shape(o, 8, seen, Also(FreedIn(v), Writes(ScrubbedIn(v)))) BY <2>2, ShapeWraps
  <2> QED BY <1>1, <2>3, EraseEnds
<1>10. Shape(o, 9, seen, S[9])
  <2>1. \A r \in DOMAIN Untold(v) : AsksFor(o, 9, r) /\ r[1] # "key" BY <1>0, RowTags DEF Untold
  <2>2. Shape(o, 9, seen, Writes(Untold(v))) BY <1>2, <2>1, ShapeWrites
  <2> QED BY <1>1, <2>2, EraseEnds
<1>11. Shape(o, 10, seen, S[10])
  <2>1. /\ IsStatement(Erasure) /\ Erasure.takes = [r \in {Student} |-> Update]
        /\ Erasure.notes = Nothing
    BY DEF Erasure, Locks, Reads, IsStatement
  <2>2. Shape(o, 10, seen, Erasure) BY <1>0, <1>2, <2>1, NoNotes, RowTags DEF Shape, AtMost
  <2> QED BY <1>1, <2>1, <2>2, EraseEnds, ShapeWraps
<1>12. Shape(o, 11, seen, S[11]) /\ Shape(o, 12, seen, S[12])
  BY <1>1, EraseEnds, ShapeStops, ShapeReads, ShapeWraps
<1>13. Lengths[o.does] = 12 BY DEF Lengths
<1> QED BY <1>3, <1>4, <1>5, <1>6, <1>7, <1>8, <1>9, <1>10, <1>11, <1>12, <1>13 DEF Shapes

LEMMA RequestShapes ==
  ASSUME NEW o, OpTyped(o), NEW v, RowsTyped(v), NEW seen, SeenTyped(o, seen),
         scope \in Scopes
  PROVE  Shapes(o, v, seen)
<1>1. o.does \in {"Invite", "Edit", "Remove", "Resend", "Accept", "Decline", "Unlink",
                  "SetPrivacy", "Book", "RosterAdd", "WalkIn", "Join", "Promote", "Cancel",
                  "Complete", "Pay", "Waive", "Reopen", "Archive", "Unarchive", "Erase"}
  BY DEF OpTyped, Lengths
<1>2. CASE o.does \in {"Invite", "Edit", "Remove", "Resend", "Accept", "Decline", "Unlink"}
  BY <1>2, InviteShapes, EditShapes, RemoveShapes, ResendShapes, AcceptShapes, DeclineShapes,
     UnlinkShapes
<1>3. CASE o.does \in {"SetPrivacy", "Book", "RosterAdd", "WalkIn", "Join", "Promote", "Cancel"}
  BY <1>3, SetPrivacyShapes, BookShapes, RosterAddShapes, WalkInShapes, JoinShapes, PromoteShapes,
     CancelShapes
<1>4. CASE o.does \in {"Complete", "Pay", "Waive", "Reopen", "Archive", "Unarchive", "Erase"}
  BY <1>4, CompleteShapes, SettleShapes, ReopenShapes, ArchiveShapes, UnarchiveShapes, EraseShapes
<1> QED BY <1>1, <1>2, <1>3, <1>4

-------------------------------------------------------------------------------
(* The steps of a request.                                                 *)

JobFields == {"op", "pc", "wants", "inOrder", "locks", "wrote", "seen"}
KeptFields == {"id", "email", "held", "queues", "billed", "filed"}

(* What a statement st over the rows v asks for, and the lock it gets on r. *)
WantedRows(v, st) == {r \in DOMAIN st.takes : st.takes[r] = Insert \/ v[r] # None}
Gain(v, st, r) ==
  {l \in {<<r, IF st.takes[r] = Insert THEN Update ELSE st.takes[r]>>} :
     r \in DOMAIN st.takes /\ (st.takes[r] = Insert <=> v[r] = None)}
Asked(j, v, st) == IF DOMAIN j.wants = {} THEN WantedRows(v, st) ELSE DOMAIN j.wants

WrittenBy(v, locks, st) ==
  LET mine(r) == \E m \in NoKeyUpdate .. Update : <<r, m>> \in locks
  IN  [r \in {q \in DOMAIN st.puts :
             \/ q[1] = "ghost"
             \/ q[1] = "key" /\ \E p \in DOMAIN st.takes : mine(p)
             \/ q[1] # "key" /\ q \notin DOMAIN st.takes /\ v[q] = None
             \/ mine(q)} |-> st.puts[r]]

(* The request j after its statement st, done over the committed rows rw.  *)
DoneLocks(j, v, st) == j.locks \cup UNION {Gain(v, st, r) : r \in Asked(j, v, st)}
DoneBy(j, v, st) ==
  [j EXCEPT !.pc = @ + 1, !.wants = Nothing, !.seen = Overlay(st.notes, @),
            !.locks = DoneLocks(j, v, st),
            !.wrote = Overlay(WrittenBy(v, DoneLocks(j, v, st), st), @)]
Done(j, rw) == DoneBy(j, Sees(j, rw), Sends(j, rw))
Rests(n) == [n EXCEPT !.locks = {}, !.wrote = Nothing]

(* k is the request j after it has queued for a row or taken one of those  *)
(* it queues for.                                                          *)
Queues(j, rw, k) ==
  LET v == Sees(j, rw)
      st == Sends(j, rw)
  IN  /\ DOMAIN k = JobFields /\ k.op = j.op /\ k.pc = j.pc /\ k.seen = j.seen /\ k.wrote = j.wrote
      /\ \/ k.locks = j.locks /\ DOMAIN j.wants = {} /\ DOMAIN k.wants = WantedRows(v, st)
         \/ k.locks = j.locks /\ DOMAIN k.wants = DOMAIN j.wants
         \/ \E r \in DOMAIN j.wants : /\ k.locks = j.locks \cup Gain(v, st, r)
                                      /\ DOMAIN k.wants = DOMAIN j.wants \ {r}
                                      /\ DOMAIN k.wants # {}

(* Nobody is in the way of the locks w gets.                               *)
Clear(w, st, locks) ==
  \A r : \A m : <<r, m>> \in locks \ job[w].locks =>
     r \in DOMAIN st.takes /\ Free(w, r, st.takes[r])

LEMMA TakenIsGain ==
  ASSUME NEW w \in Worker, NEW st, NEW r, NEW mode, r \in DOMAIN st.takes => mode = st.takes[r]
  PROVE  Taken(w, st, r, mode) = Gain(Sees(job[w], row), st, r)
  BY DEF Taken, Gain, Sees, View

LEMMA WrittenIs ==
  ASSUME NEW w \in Worker, NEW st, NEW locks
  PROVE  Written(w, locks, st) = WrittenBy(Sees(job[w], row), locks, st)
  BY DEF Written, WrittenBy, Sees, View

LEMMA StatementIs ==
  ASSUME NEW w \in Worker
  PROVE  /\ Statement(w) = Sends(job[w], row)
         /\ View(w) = Sees(job[w], row)
         /\ Program(w) = Statements(job[w].op, Sees(job[w], row), job[w].seen)
  BY DEF Statement, Program, Sends, Sees, View

(* How w's job and the rows change when a statement of it is done.         *)
Advances(w, ends, stop, last) ==
  LET n == Done(job[w], row)
  IN  /\ row' = IF ends /\ ~stop THEN Overlay(n.wrote, row) ELSE row
      /\ job' = [job EXCEPT ![w] = IF stop \/ last THEN AtRest ELSE IF ends THEN Rests(n) ELSE n]

LEMMA CompletesIs ==
  ASSUME NEW w \in Worker, DOMAIN job[w] = JobFields, NEW last,
         Completes(w, Sends(job[w], row), DoneLocks(job[w], Sees(job[w], row), Sends(job[w], row)),
                   last)
  PROVE  Advances(w, Sends(job[w], row).ends, Sends(job[w], row).stop, last)
<1> DEFINE j == job[w]
           st == Sends(job[w], row)
           v == Sees(job[w], row)
           locks == DoneLocks(j, v, st)
           wrote == Overlay(Written(w, locks, st), j.wrote)
           seen == Overlay(st.notes, j.seen)
           next == [j EXCEPT !.pc = @ + 1, !.wants = Nothing, !.seen = seen]
           n == Done(j, row)
<1>1. wrote = Overlay(WrittenBy(v, locks, st), j.wrote)
  BY WrittenIs
<1>2. n = [next EXCEPT !.locks = locks, !.wrote = wrote]
  BY <1>1 DEF Done, DoneBy, JobFields
<1>3. n.wrote = wrote
  BY <1>2 DEF JobFields
<1>4. Rests(n) = [next EXCEPT !.locks = {}, !.wrote = Nothing]
  BY <1>2 DEF Rests, JobFields
<1>5. /\ row' = IF st.ends /\ ~st.stop THEN Overlay(wrote, row) ELSE row
      /\ job' = [job EXCEPT ![w] =
           IF st.stop \/ last THEN AtRest
           ELSE IF st.ends THEN [next EXCEPT !.locks = {}, !.wrote = Nothing]
           ELSE [next EXCEPT !.locks = locks, !.wrote = wrote]]
  BY DEF Completes
<1> HIDE DEF next, wrote, locks, seen
<1> QED BY <1>2, <1>3, <1>4, <1>5 DEF Advances

(* w's request becomes k, which waits: it has just sent a statement that   *)
(* asks for several rows or for one that is not free, or it has waited for *)
(* the row whose turn it was and asks for its lock now, or has it.         *)
Waits(w, k) ==
  LET j == job[w]
      st == Sends(j, row)
      rows == WantedRows(Sees(j, row), st)
      turn == {r \in DOMAIN j.wants : j.inOrder => \A q \in DOMAIN j.wants : r[2] <= q[2]}
  IN  \/ /\ DOMAIN j.wants = {} /\ k.locks = j.locks /\ k.inOrder = st.inOrder
         /\ DOMAIN k.wants = rows /\ \A r \in rows : k.wants[r] = st.takes[r]
         /\ rows # {} /\ \A q : rows = {q} => ~Free(w, q, st.takes[q])
      \/ /\ k.inOrder = j.inOrder
         /\ \E r \in turn :
              /\ \A q \in DOMAIN k.wants \ {r} : k.wants[q] = j.wants[q]
              /\ \/ /\ k.locks = j.locks /\ DOMAIN k.wants = DOMAIN j.wants
                    /\ r \in DOMAIN st.takes /\ k.wants[r] = st.takes[r]
                 \/ /\ k.locks = j.locks \cup Gain(Sees(j, row), st, r)
                    /\ DOMAIN k.wants = DOMAIN j.wants \ {r}

(* A step of w: its caller gives up, it queues, or its statement is done.  *)
Settles(w, rw, jb) == row' = rw /\ job' = [job EXCEPT ![w] = jb]
Steps(w) ==
  LET j == job[w]
      n == Done(j, row)
      st == Sends(j, row)
  IN  \/ Settles(w, row, AtRest)
      \/ \E k : /\ Settles(w, row, k) /\ Queues(j, row, k) /\ Clear(w, st, k.locks)
                /\ Waits(w, k)
      \/ /\ ~st.stop /\ Clear(w, st, n.locks)
         /\ \/ Settles(w, row, n) /\ j.pc # Lengths[j.op.does]
            \/ Settles(w, Overlay(n.wrote, row), AtRest) /\ j.pc = Lengths[j.op.does]
            \/ Settles(w, Overlay(n.wrote, row), Rests(n)) /\ Does(j.op, j.pc, "Invite", 4)

LEMMA DoneIs ==
  ASSUME NEW j, NEW rw, DOMAIN j = JobFields
  PROVE  LET n == Done(j, rw)
             st == Sends(j, rw)
         IN  /\ DOMAIN n = JobFields /\ n.op = j.op /\ n.pc = j.pc + 1 /\ n.wants = Nothing
             /\ n.seen = Overlay(st.notes, j.seen)
             /\ n.locks = DoneLocks(j, Sees(j, rw), st)
             /\ n.wrote = Overlay(WrittenBy(Sees(j, rw), n.locks, st), j.wrote)
  BY DEF Done, DoneBy, JobFields

LEMMA AdvancesSteps ==
  ASSUME NEW w \in Worker, DOMAIN job[w] = JobFields,
         job[w].pc \in 1 .. Lengths[job[w].op.does],
         Fits(job[w].op, Sees(job[w], row), job[w].seen),
         Clear(w, Sends(job[w], row), Done(job[w], row).locks),
         Advances(w, Sends(job[w], row).ends, Sends(job[w], row).stop,
                  job[w].pc = Lengths[job[w].op.does])
  PROVE  Steps(w)
<1> DEFINE j == job[w]
           st == Sends(j, row)
           n == Done(j, row)
<1>1. FitAt(j.op, j.pc, Sees(j, row), st) BY DEF Fits, Sends
<1>2. st.ends = (j.pc = Lengths[j.op.does] \/ Does(j.op, j.pc, "Invite", 4))
  BY <1>1 DEF FitAt, FitStep, FitEnd, Does
<1>3. CASE st.stop
  BY <1>3 DEF Advances, Steps, Settles
<1>4. CASE ~st.stop
  BY <1>2, <1>4 DEF Advances, Steps, Settles
<1> QED BY <1>3, <1>4

LEMMA GainIs ==
  ASSUME NEW v, NEW st, NEW q, NEW r, NEW m, <<r, m>> \in Gain(v, st, q)
  PROVE  /\ r = q /\ q \in DOMAIN st.takes /\ (st.takes[q] = Insert <=> v[q] = None)
         /\ m = IF st.takes[q] = Insert THEN Update ELSE st.takes[q]
  BY DEF Gain

LEMMA SendSteps ==
  ASSUME NEW w \in Worker, DOMAIN job[w] = JobFields,
         job[w].pc \in 1 .. Lengths[job[w].op.does],
         Fits(job[w].op, Sees(job[w], row), job[w].seen), Send(w)
  PROVE  Steps(w)
<1> DEFINE j == job[w]
           v == Sees(j, row)
           st == Sends(j, row)
           n == Done(j, row)
           rows == WantedRows(v, st)
           wanted == Wanted(w, st)
           last == j.pc = Lengths[j.op.does]
           taken == UNION {Taken(w, st, r, wanted[r]) : r \in rows}
<1>1. Statement(w) = st /\ View(w) = v /\ IsLast(w) = last
  <2>1. Statement(w) = st /\ View(w) = v /\ Program(w) = Statements(j.op, v, j.seen)
    BY StatementIs
  <2>2. Len(Program(w)) = Lengths[j.op.does] BY <2>1 DEF Fits
  <2> QED BY <2>1, <2>2 DEF IsLast
<1>2. DOMAIN wanted = rows /\ \A r \in rows : wanted[r] = st.takes[r]
  BY <1>1 DEF Wanted, WantedRows, Existing
<1>3. rows \subseteq DOMAIN st.takes BY DEF WantedRows
<1>4. Issue(w, st, last) BY <1>1 DEF Send
<1>5. DOMAIN j.wants = {} BY <1>4 DEF Issue, Waiting
<1>6. CASE Cardinality(rows) <= 1 /\ \A r \in rows : Free(w, r, wanted[r])
  <2>1. \A r \in rows : Taken(w, st, r, wanted[r]) = Gain(v, st, r)
    BY <1>2, TakenIsGain
  <2>2. j.locks \cup taken = DoneLocks(j, v, st)
    BY <1>5, <2>1 DEF DoneLocks, Asked
  <2>3. Completes(w, st, DoneLocks(j, v, st), last)
    BY <1>2, <1>4, <1>6, <2>2 DEF Issue
  <2>4. Advances(w, st.ends, st.stop, last) BY <2>3, CompletesIs
  <2>5. Clear(w, st, n.locks)
    <3>1. n.locks = DoneLocks(j, v, st) BY DoneIs
    <3>2. ASSUME NEW r, NEW m, <<r, m>> \in n.locks \ j.locks
          PROVE  r \in DOMAIN st.takes /\ Free(w, r, st.takes[r])
      <4>1. PICK q \in rows : <<r, m>> \in Gain(v, st, q)
        BY <1>5, <3>1, <3>2 DEF DoneLocks, Asked
      <4> QED BY <4>1, <1>2, <1>6, GainIs
    <3> QED BY <3>2 DEF Clear
  <2> QED BY <2>4, <2>5, AdvancesSteps
<1>7. CASE ~(Cardinality(rows) <= 1 /\ \A r \in rows : Free(w, r, wanted[r]))
  <2> DEFINE k == [j EXCEPT !.wants = wanted, !.inOrder = st.inOrder]
  <2>1. job' = [job EXCEPT ![w].wants = wanted, ![w].inOrder = st.inOrder] /\ row' = row
    BY <1>2, <1>4, <1>7 DEF Issue
  <2>2. job' = [job EXCEPT ![w] = k] BY <2>1
  <2>3. /\ DOMAIN k = JobFields /\ k.op = j.op /\ k.pc = j.pc /\ k.seen = j.seen
        /\ k.wrote = j.wrote /\ k.locks = j.locks /\ k.wants = wanted /\ k.inOrder = st.inOrder
    BY DEF JobFields
  <2> HIDE DEF k, wanted
  <2>4. Queues(j, row, k) BY <1>2, <1>5, <2>3 DEF Queues
  <2>5. Clear(w, st, k.locks) BY <2>3 DEF Clear
  <2>6. rows # {} /\ \A q : rows = {q} => ~Free(w, q, st.takes[q])
    <3>1. Cardinality({}) = 0 /\ \A q : Cardinality({q}) = 1 BY FS_EmptySet, FS_Singleton
    <3>2. rows = {} => FALSE BY <1>7, <3>1
    <3>3. ASSUME NEW q, rows = {q} PROVE ~Free(w, q, st.takes[q])
      <4>1. Cardinality({q}) = 1 BY <3>1
      <4>2. Cardinality(rows) = 1 BY <3>3, <4>1, Zenon
      <4>3. q \in rows BY <3>3
      <4> HIDE DEF rows
      <4> QED BY <4>2, <4>3, <1>2, <1>7, <3>3
    <3> QED BY <3>2, <3>3
  <2>7. Waits(w, k) BY <1>2, <1>5, <2>3, <2>6 DEF Waits
  <2> QED BY <2>1, <2>2, <2>4, <2>5, <2>7 DEF Steps, Settles
<1> QED BY <1>6, <1>7

LEMMA ProceedSteps ==
  ASSUME NEW w \in Worker, DOMAIN job[w] = JobFields,
         job[w].pc \in 1 .. Lengths[job[w].op.does],
         Fits(job[w].op, Sees(job[w], row), job[w].seen), Proceed(w)
  PROVE  Steps(w)
<1> DEFINE j == job[w]
           v == Sees(j, row)
           st == Sends(j, row)
           n == Done(j, row)
           last == j.pc = Lengths[j.op.does]
<1>1. Statement(w) = st /\ View(w) = v /\ IsLast(w) = last
  <2>1. Statement(w) = st /\ View(w) = v /\ Program(w) = Statements(j.op, v, j.seen)
    BY StatementIs
  <2>2. Len(Program(w)) = Lengths[j.op.does] BY <2>1 DEF Fits
  <2> QED BY <2>1, <2>2 DEF IsLast
<1>2. PICK r \in Turn(w) : Grant(w, r, st, last)
  BY <1>1 DEF Proceed
<1>3. r \in DOMAIN j.wants BY DEF Turn
<1> DEFINE locks == j.locks \cup Taken(w, st, r, j.wants[r])
           left == [q \in DOMAIN j.wants \ {r} |-> j.wants[q]]
<1>4. CASE r \in DOMAIN st.takes /\ st.takes[r] # j.wants[r]
  <2> DEFINE k == [j EXCEPT !.wants = [@ EXCEPT ![r] = st.takes[r]]]
  <2>1. job' = [job EXCEPT ![w].wants[r] = st.takes[r]] /\ row' = row
    BY <1>2, <1>4 DEF Grant
  <2>2. job' = [job EXCEPT ![w] = k] BY <2>1
  <2>3. /\ DOMAIN k = JobFields /\ k.op = j.op /\ k.pc = j.pc /\ k.seen = j.seen
        /\ k.wrote = j.wrote /\ k.locks = j.locks /\ k.inOrder = j.inOrder
        /\ DOMAIN k.wants = DOMAIN j.wants /\ k.wants[r] = st.takes[r]
        /\ \A q \in DOMAIN k.wants \ {r} : k.wants[q] = j.wants[q]
    BY <1>3 DEF JobFields
  <2> HIDE DEF k
  <2>4. Queues(j, row, k) BY <2>3 DEF Queues
  <2>5. Clear(w, st, k.locks) BY <2>3 DEF Clear
  <2>6. Waits(w, k) BY <1>2, <1>4, <2>3 DEF Waits, Turn
  <2> QED BY <2>1, <2>2, <2>4, <2>5, <2>6 DEF Steps, Settles
<1>5. CASE ~(r \in DOMAIN st.takes /\ st.takes[r] # j.wants[r])
  <2>1. Taken(w, st, r, j.wants[r]) = Gain(v, st, r) BY <1>5, TakenIsGain
  <2>2. Clear(w, st, locks)
    <3>1. ASSUME NEW q, NEW m, <<q, m>> \in locks \ j.locks
          PROVE  q \in DOMAIN st.takes /\ Free(w, q, st.takes[q])
      <4>1. q = r /\ r \in DOMAIN st.takes BY <2>1, <3>1, GainIs
      <4> QED BY <4>1, <1>2, <1>5 DEF Grant
    <3> QED BY <3>1 DEF Clear
  <2>3. CASE DOMAIN left = {}
    <3>1. DOMAIN j.wants = {r} BY <1>3, <2>3
    <3>2. locks = DoneLocks(j, v, st) BY <2>1, <3>1 DEF DoneLocks, Asked
    <3>3. Completes(w, st, locks, last) BY <1>2, <1>5, <2>3 DEF Grant
    <3>4. Advances(w, st.ends, st.stop, last) BY <3>2, <3>3, CompletesIs
    <3>5. Clear(w, st, n.locks) BY <2>2, <3>2, DoneIs
    <3> QED BY <3>4, <3>5, AdvancesSteps
  <2>4. CASE DOMAIN left # {}
    <3> DEFINE k == [j EXCEPT !.wants = left, !.locks = locks]
    <3>1. job' = [job EXCEPT ![w].wants = left, ![w].locks = locks] /\ row' = row
      BY <1>2, <1>5, <2>4 DEF Grant
    <3>2. job' = [job EXCEPT ![w] = k] BY <3>1
    <3>3. /\ DOMAIN k = JobFields /\ k.op = j.op /\ k.pc = j.pc /\ k.seen = j.seen
          /\ k.wrote = j.wrote /\ k.locks = locks /\ k.wants = left /\ k.inOrder = j.inOrder
      BY DEF JobFields
    <3>4. k.locks = j.locks \cup Gain(v, st, r) BY <2>1, <3>3
    <3>5. DOMAIN k.wants = DOMAIN j.wants \ {r} /\ DOMAIN k.wants # {} BY <2>4, <3>3
    <3> HIDE DEF k
    <3>6. Queues(j, row, k) BY <1>3, <3>3, <3>4, <3>5 DEF Queues
    <3>7. Clear(w, st, k.locks) BY <2>2, <3>3
    <3>8. Waits(w, k) BY <1>2, <3>3, <3>4, <3>5 DEF Waits, Turn
    <3> QED BY <3>1, <3>2, <3>6, <3>7, <3>8 DEF Steps, Settles
  <2> QED BY <2>3, <2>4
<1> QED BY <1>4, <1>5

-------------------------------------------------------------------------------
(* What holds of a request at any time.  A row is the person's own unless  *)
(* it is an invitation, an index entry or a ghost.                         *)
Personal(r) == r[1] \notin {"key", "ghost", "invitation"}
Live(v, c) == v[Booking(c)] = "charged" /\ v[Course(c)] = "open"

Typed(j) ==
  /\ DOMAIN j = JobFields
  /\ OpTyped(j.op) /\ j.op.does \in scope.does
  /\ j.pc \in 1 .. Lengths[j.op.does] + 1
  /\ KeptFields \subseteq DOMAIN j.seen /\ SeenTyped(j.op, j.seen)

Queueing(j) == \A q : Only(j.op, j.pc, j.seen, q) => DOMAIN j.wants \subseteq {q}

(* A row a request made itself, and did not find.                          *)
Creates(o, r) == /\ r[1] = "payment" => o.does = "Complete"
                 /\ r = Link => o.does \notin {"Reopen", "Archive", "Unarchive"}

(* A request locks rows that are there or that it makes, and what it has   *)
(* written it has locked.                                                  *)
LockFits(j, rw, r, m) ==
  /\ r \in Rows /\ m \in KeyShare .. Update
  /\ m = KeyShare => r = Student
  /\ rw[r] # None \/ (r \in Drafts(j) /\ Creates(j.op, r))
Locking(j, rw) ==
  /\ \A r, m : Holds(j, r, m) /\ Personal(r) => LockFits(j, rw, r, m)
  /\ \A r \in Drafts(j) : Personal(r) => Owns(j, r)

Drafting(j) ==
  /\ Drafts(j) \subseteq Rows
  /\ \A r \in Drafts(j) : /\ Allowed(j.op, r, j.wrote[r])
                          /\ AtTheEnd(j.op, r) => j.pc > Lengths[j.op.does]
                          /\ r[1] = "queue" => Holds(j, Course(r[2]), Update)

Gated(j, rw) ==
  /\ Past(j, StudentGate) => Holds(j, Student, Share) /\ rw[Student] = "live"
  /\ Past(j, CourseGate) =>
        Holds(j, Course(j.op.class), Update) /\ rw[Course(j.op.class)] = "open"
  /\ Past(j, LinkGate) => Link \in Drafts(j)

(* Who locks the classes of all the queues the person stands in.           *)
SortedAt == [Unlink |-> 4, Erase |-> 3]
Sorting(j) ==
  j.op.does \in DOMAIN SortedAt =>
    /\ j.pc = SortedAt[j.op.does] /\ DOMAIN j.wants # {} =>
         \A c \in j.seen.queues : Course(c) \in DOMAIN j.wants \/ Holds(j, Course(c), Update)
    /\ j.pc > SortedAt[j.op.does] => \A c \in j.seen.queues : Holds(j, Course(c), Update)

Promoting(j, rw) ==
  j.op.does = "Promote" =>
    /\ j.pc <= 2 => Drafts(j) = {}
    /\ j.pc > 2 => rw[Queued(j.op.class)] = "waiting"

Completing(j, rw) ==
  j.op.does = "Complete" =>
    LET c == j.op.class
    IN  /\ j.pc <= 2 => Drafts(j) = {}
        /\ j.pc > 2 => Course(c) \in Drafts(j)
        /\ j.pc > 3 /\ j.seen.billed # {} => Owns(j, Booking(c)) /\ rw[Booking(c)] = "charged"
        /\ Booking(c) \in Drafts(j) => rw[Booking(c)] = "charged"
        /\ Owed(c) \in Drafts(j) => j.seen.billed # {}

HasLink(j, rw) == Holds(j, Link, Update) /\ rw[Link] # None

Reopening(j, rw) ==
  j.op.does = "Reopen" =>
    /\ j.pc > 1 => rw[Owed(j.op.class)] # None
    /\ j.seen.filed => j.pc > 2 /\ HasLink(j, rw)
    /\ j.pc > 2 /\ "Unlink" \notin scope.does =>
         \/ HasLink(j, rw) /\ (rw[Link].filed = j.seen.filed)
         \/ rw[Student] = "erased"
    /\ j.pc > 5 /\ j.seen.filed => Link \in Drafts(j)

Separate == ~({"Unlink", "Reopen"} \subseteq scope.does)

Archiving(j, rw) ==
  j.op.does = "Archive" =>
    LET v == Sees(j, rw)
    IN  /\ j.pc > 1 => HasLink(j, rw) /\ rw[Link].filed = FALSE
        /\ Separate => \A c \in Class :
             /\ j.pc > 2 => ~Live(rw, c)
             /\ j.pc = 4 /\ v[Owed(c)] = "open" =>
                  /\ Owed(c) \in j.seen.billed
                  /\ DOMAIN j.wants # {} => Owed(c) \in DOMAIN j.wants \/ Owns(j, Owed(c))
             /\ j.pc > 4 => v[Owed(c)] # "open"

Erasing(j, rw) ==
  j.op.does = "Erase" =>
    LET v == Sees(j, rw)
    IN  /\ j.pc > 1 => Holds(j, Student, NoKeyUpdate)
        /\ \A c \in Class :
             /\ j.pc > 2 /\ v[Queued(c)] # None => c \in j.seen.queues
             /\ j.pc = 4 /\ DOMAIN j.wants # {} /\ Live(v, c) =>
                  Booking(c) \in DOMAIN j.wants \/ Owns(j, Booking(c))
             /\ j.pc > 4 => ~Live(v, c)
             /\ j.pc > 11 => v[Queued(c)] = None
        /\ j.pc > 5 => v[Privacy] = None
        /\ j.pc > 6 => v[Link] = None
        /\ j.pc > 10 => Student \in Drafts(j)

Good(j, rw) ==
  /\ Typed(j) /\ Queueing(j) /\ Locking(j, rw) /\ Drafting(j) /\ Gated(j, rw) /\ Sorting(j)
  /\ Promoting(j, rw) /\ Completing(j, rw) /\ Reopening(j, rw) /\ Archiving(j, rw)
  /\ Erasing(j, rw)

(* No two requests hold the same row of the person's in modes that         *)
(* conflict.                                                               *)
Apart(a, b) == \A r, m, n : Holds(a, r, m) /\ Holds(b, r, n) /\ Personal(r) => ~Conflict(m, n)

(* A request that does nothing.                                            *)
Idle(j) == /\ DOMAIN j = JobFields /\ j.pc = 1 /\ j.wants = Nothing /\ j.locks = {}
           /\ j.wrote = Nothing

Linkful(rw) ==
  "Unlink" \notin scope.does => \A c \in Class :
     rw[Owed(c)] # None \/ rw[Booking(c)] = "charged" => rw[Link] # None \/ rw[Student] = "erased"
Erased(rw) ==
  rw[Student] = "erased" =>
    /\ rw[Link] = None /\ rw[Privacy] = None
    /\ \A c \in Class : rw[Queued(c)] = None /\ ~Live(rw, c)
Archived(rw) == IsFiled(rw) => \A c \in Class : rw[Owed(c)] # "open" /\ ~Live(rw, c)

Sound(rw) == RowsTyped(rw) /\ Linkful(rw) /\ Erased(rw) /\ (Separate => Archived(rw))
-------------------------------------------------------------------------------
LEMMA SeesDraft ==
  ASSUME NEW j, NEW rw, NEW r \in Drafts(j)
  PROVE  Sees(j, rw)[r] = j.wrote[r]
  BY DEF Sees, Drafts, Overlay

LEMMA SeesRow ==
  ASSUME NEW j, NEW rw, NEW r \in DOMAIN rw, r \notin Drafts(j)
  PROVE  Sees(j, rw)[r] = rw[r]
  BY DEF Sees, Drafts, Overlay

LEMMA SeesRows ==
  ASSUME NEW j, NEW rw
  PROVE  DOMAIN Sees(j, rw) = Drafts(j) \cup DOMAIN rw
  BY DEF Sees, Drafts, Overlay

LEMMA SeesTyped ==
  ASSUME NEW j, NEW rw, RowsTyped(rw), Typed(j), Drafting(j)
  PROVE  RowsTyped(Sees(j, rw))
<1> DEFINE v == Sees(j, rw)
<1> SUFFICES RowsTyped(v) OBVIOUS
<1>a. \A r : r \in Drafts(j) => v[r] = j.wrote[r] BY SeesDraft
<1>b. \A r : r \in DOMAIN rw /\ r \notin Drafts(j) => v[r] = rw[r] BY SeesRow
<1>c. DOMAIN v = Drafts(j) \cup DOMAIN rw BY SeesRows
<1> HIDE DEF v
<1>1. DOMAIN v = Rows /\ DOMAIN rw = Rows
  BY <1>a, <1>b, <1>c DEF Drafting, RowsTyped
<1>2. ASSUME NEW r \in Rows
      PROVE  v[r] = rw[r] \/ Allowed(j.op, r, v[r])
  BY <1>1, <1>a, <1>b, <1>c DEF Drafting
<1>3. /\ v[Student] \in {"live", "erased"}
      /\ v[Privacy] \in {None, "shares", "silent"} /\ v[Block] \in {None, "stands"}
      /\ v[Said] \in Answers /\ v[Linked] \in 0 .. 1
      /\ v[Link] \in LinkRow \cup {None}
  BY <1>2, RowsAre DEF RowsTyped, Allowed, Answers
<1>4. ASSUME NEW c \in Class
      PROVE  /\ v[Course(c)] \in {"open", "completed"}
             /\ v[Queued(c)] \in {None, "waiting", "left"}
             /\ v[Booking(c)] \in {None, "charged", "cancelled"}
             /\ v[Owed(c)] \in {None, "open", "settled", "waived"}
  <2>1. /\ Course(c) \in Rows /\ Queued(c) \in Rows /\ Booking(c) \in Rows /\ Owed(c) \in Rows
        /\ Course(c)[1] = "class" /\ Queued(c)[1] = "queue"
        /\ Booking(c)[1] = "registration" /\ Owed(c)[1] = "payment"
    BY RowsAre, RowTags
  <2>2. v[Course(c)] \in {"open", "completed"} BY <1>2, <2>1 DEF RowsTyped, Allowed
  <2>3. v[Queued(c)] \in {None, "waiting", "left"} BY <1>2, <2>1 DEF RowsTyped, Allowed
  <2>4. v[Booking(c)] \in {None, "charged", "cancelled"} BY <1>2, <2>1 DEF RowsTyped, Allowed
  <2>5. v[Owed(c)] \in {None, "open", "settled", "waived"} BY <1>2, <2>1 DEF RowsTyped, Allowed
  <2> QED BY <2>2, <2>3, <2>4, <2>5
<1>5. ASSUME NEW i \in Invitation PROVE v[Invited(i)] \in InvitationRow \cup {None}
  <2>1. Invited(i) \in Rows /\ Invited(i)[1] = "invitation" BY RowsAre, RowTags
  <2> QED BY <1>2, <2>1 DEF RowsTyped, Allowed
<1>6. ASSUME NEW e \in Addresses PROVE v[Key(e)] \in {None, "taken"}
  <2>1. Key(e) \in Rows /\ Key(e)[1] = "key" BY RowsAre, RowTags
  <2> QED BY <1>2, <2>1 DEF RowsTyped, Allowed
<1> QED BY <1>1, <1>3, <1>4, <1>5, <1>6 DEF RowsTyped

(* A request in the middle of its statements, and what is known of the one *)
(* it sends.                                                               *)
Doing(j, rw) == /\ Good(j, rw) /\ j.pc <= Lengths[j.op.does] /\ Sound(rw) /\ scope \in Scopes
FitSt(j, rw) ==
  LET v == Sees(j, rw)
      st == Sends(j, rw)
  IN  /\ RowsTyped(v) /\ j.pc \in 1 .. Lengths[j.op.does]
      /\ Fits(j.op, v, j.seen) /\ Gates(j.op, v, j.seen)
      /\ Fit(j.op, j.pc, v, st) /\ Shape(j.op, j.pc, j.seen, st)

LEMMA DoingFits ==
  ASSUME NEW j, NEW rw, Doing(j, rw)
  PROVE  FitSt(j, rw)
<1> DEFINE v == Sees(j, rw)
           st == Sends(j, rw)
<1>1. RowsTyped(v) BY SeesTyped DEF Doing, Good, Sound
<1>2. j.pc \in 1 .. Lengths[j.op.does] /\ Lengths[j.op.does] \in Nat
  <2>1. j.op.does \in DOMAIN Lengths BY DEF Doing, Good, Typed, OpTyped
  <2>2. Lengths[j.op.does] \in Nat BY <2>1 DEF Lengths
  <2> QED BY <2>2 DEF Doing, Good, Typed
<1>3. Ready(j.op, v, j.seen)
  <2> SUFFICES ASSUME j.op.does = "Reopen", j.seen.filed PROVE v[Link] # None
    BY DEF Ready
  <2>1. rw[Link] # None BY DEF Doing, Good, Reopening, HasLink
  <2>2. ~(Link \in Drafts(j))
    <3>1. AtTheEnd(j.op, Link) BY DEF AtTheEnd
    <3>2. Link \in Drafts(j) => j.pc > Lengths[j.op.does] BY <3>1 DEF Doing, Good, Drafting
    <3> QED BY <3>2, <1>2
  <2>3. Link \in DOMAIN rw BY RowsAre DEF Doing, Sound, RowsTyped
  <2>4. \A r : r \in DOMAIN rw /\ r \notin Drafts(j) => v[r] = rw[r] BY SeesRow
  <2> QED BY <2>1, <2>2, <2>3, <2>4
<1>4. OpTyped(j.op) /\ SeenTyped(j.op, j.seen) /\ scope \in Scopes
  BY DEF Doing, Good, Typed
<1>5. Fits(j.op, v, j.seen) /\ Gates(j.op, v, j.seen)
  BY <1>1, <1>3, <1>4, RequestFits
<1>6. Shapes(j.op, v, j.seen)
  BY <1>1, <1>4, RequestShapes
<1>7. Fit(j.op, j.pc, v, st)
  BY <1>2, <1>5 DEF Fits, FitAt, FitStep, FitEnd, Sends
<1>8. Shape(j.op, j.pc, j.seen, st)
  BY <1>2, <1>6 DEF Shapes, Sends
<1> QED BY <1>1, <1>2, <1>5, <1>7, <1>8 DEF FitSt

-------------------------------------------------------------------------------
(* What the end of a statement changes in the request.                     *)
Gained(j, rw, r, m) ==
  LET st == Sends(j, rw)
  IN  /\ r \in DOMAIN st.takes /\ (st.takes[r] = Insert <=> Sees(j, rw)[r] = None)
      /\ m = IF st.takes[r] = Insert THEN Update ELSE st.takes[r]

LEMMA DoneFields ==
  ASSUME NEW j, NEW rw, Doing(j, rw)
  PROVE  LET n == Done(j, rw)
         IN  DOMAIN n = JobFields /\ n.op = j.op /\ n.pc = j.pc + 1 /\ DOMAIN n.wants = {}
<1>1. DOMAIN j = JobFields BY DEF Doing, Good, Typed
<1> QED BY <1>1, DoneIs DEF Nothing

LEMMA DoneHolds ==
  ASSUME NEW j, NEW rw, Doing(j, rw)
  PROVE  LET n == Done(j, rw)
         IN  /\ \A r, m : Holds(j, r, m) => Holds(n, r, m)
             /\ \A r : Owns(j, r) => Owns(n, r)
<1> DEFINE n == Done(j, rw)
<1>1. DOMAIN j = JobFields BY DEF Doing, Good, Typed
<1>2. n.locks = DoneLocks(j, Sees(j, rw), Sends(j, rw)) BY <1>1, DoneIs
<1> QED BY <1>2 DEF Holds, Owns, DoneLocks

LEMMA DoneGains ==
  ASSUME NEW j, NEW rw, Doing(j, rw)
  PROVE  LET n == Done(j, rw)
             st == Sends(j, rw)
         IN  /\ \A r, m : Holds(n, r, m) => Holds(j, r, m) \/ Gained(j, rw, r, m)
             /\ \A r, m : Gained(j, rw, r, m) /\ r \in Asked(j, Sees(j, rw), st) => Holds(n, r, m)
<1> DEFINE n == Done(j, rw)
           v == Sees(j, rw)
           st == Sends(j, rw)
<1>1. DOMAIN j = JobFields BY DEF Doing, Good, Typed
<1>2. n.locks = DoneLocks(j, v, st) BY <1>1, DoneIs
<1>3. ASSUME NEW r, NEW m, Holds(n, r, m), ~Holds(j, r, m) PROVE Gained(j, rw, r, m)
  <2>1. PICK q \in Asked(j, v, st) : <<r, m>> \in Gain(v, st, q)
    BY <1>2, <1>3 DEF DoneLocks, Holds
  <2> QED BY <2>1, GainIs DEF Gained
<1>4. ASSUME NEW r, NEW m, Gained(j, rw, r, m), r \in Asked(j, v, st) PROVE Holds(n, r, m)
  <2>1. <<r, m>> \in Gain(v, st, r) BY <1>4 DEF Gained, Gain
  <2> QED BY <2>1, <1>2, <1>4 DEF DoneLocks, Holds
<1> QED BY <1>3, <1>4

(* The only row a statement asks for is locked when it is done.            *)
LEMMA OnlyHeld ==
  ASSUME NEW j, NEW rw, Doing(j, rw), NEW q, Only(j.op, j.pc, j.seen, q),
         NEW m, Gained(j, rw, q, m)
  PROVE  Holds(Done(j, rw), q, m)
<1>1. q \in Asked(j, Sees(j, rw), Sends(j, rw))
  <2>1. DOMAIN j.wants \subseteq {q} BY DEF Doing, Good, Queueing
  <2>2. q \in WantedRows(Sees(j, rw), Sends(j, rw)) BY DEF Gained, WantedRows
  <2> QED BY <2>1, <2>2 DEF Asked
<1> QED BY <1>1, DoneGains

LEMMA DoneDrafts ==
  ASSUME NEW j, NEW rw, Doing(j, rw)
  PROVE  LET n == Done(j, rw)
             st == Sends(j, rw)
         IN  /\ \A r : r \in Drafts(n) =>
                  \/ r \in DOMAIN st.puts /\ n.wrote[r] = st.puts[r]
                     /\ (Personal(r) => Owns(n, r))
                  \/ r \in Drafts(j) /\ n.wrote[r] = j.wrote[r]
             /\ \A r : r \in Drafts(j) => r \in Drafts(n)
             /\ \A r : r \in DOMAIN st.puts /\ Owns(n, r) =>
                  r \in Drafts(n) /\ n.wrote[r] = st.puts[r]
             /\ \A r : r \in Drafts(j) /\ r \notin DOMAIN st.puts => n.wrote[r] = j.wrote[r]
<1> DEFINE n == Done(j, rw)
           v == Sees(j, rw)
           st == Sends(j, rw)
           w == WrittenBy(v, n.locks, st)
<1>1. DOMAIN j = JobFields BY DEF Doing, Good, Typed
<1>2. n.wrote = Overlay(w, j.wrote) BY <1>1, DoneIs
<1>3. /\ DOMAIN w = {q \in DOMAIN st.puts :
             \/ q[1] = "ghost"
             \/ q[1] = "key" /\ \E p \in DOMAIN st.takes : Owns(n, p)
             \/ q[1] # "key" /\ q \notin DOMAIN st.takes /\ v[q] = None
             \/ Owns(n, q)}
      /\ \A r \in DOMAIN w : w[r] = st.puts[r]
  BY DEF WrittenBy, Owns
<1>4. Puts(j.op, j.pc, v, st) BY DoingFits DEF FitSt, Fit
<1>5. \A r \in DOMAIN w : Personal(r) => Owns(n, r)
  BY <1>3, <1>4 DEF Puts, Personal, Lockable
<1> HIDE DEF w, n, st, v
<1> SUFFICES /\ \A r : r \in Drafts(n) =>
                  \/ r \in DOMAIN st.puts /\ n.wrote[r] = st.puts[r]
                     /\ (Personal(r) => Owns(n, r))
                  \/ r \in Drafts(j) /\ n.wrote[r] = j.wrote[r]
             /\ \A r : r \in Drafts(j) => r \in Drafts(n)
             /\ \A r : r \in DOMAIN st.puts /\ Owns(n, r) =>
                  r \in Drafts(n) /\ n.wrote[r] = st.puts[r]
             /\ \A r : r \in Drafts(j) /\ r \notin DOMAIN st.puts => n.wrote[r] = j.wrote[r]
  BY DEF n, st
<1> QED BY <1>2, <1>3, <1>5 DEF Overlay, Drafts

LEMMA DoneSeen ==
  ASSUME NEW j, NEW rw, Doing(j, rw)
  PROVE  LET n == Done(j, rw)
             notes == Sends(j, rw).notes
         IN  /\ DOMAIN j.seen \subseteq DOMAIN n.seen
             /\ n.seen.queues = IF "queues" \in DOMAIN notes THEN notes.queues ELSE j.seen.queues
             /\ n.seen.filed = IF "filed" \in DOMAIN notes THEN notes.filed ELSE j.seen.filed
             /\ n.seen.billed = IF "billed" \in DOMAIN notes THEN notes.billed ELSE j.seen.billed
             /\ n.seen.id = IF "id" \in DOMAIN notes THEN notes.id ELSE j.seen.id
             /\ n.seen.email = IF "email" \in DOMAIN notes THEN notes.email ELSE j.seen.email
             /\ n.seen.held = IF "held" \in DOMAIN notes THEN notes.held ELSE j.seen.held
<1> DEFINE n == Done(j, rw)
           notes == Sends(j, rw).notes
<1>1. DOMAIN j = JobFields /\ KeptFields \subseteq DOMAIN j.seen BY DEF Doing, Good, Typed
<1>2. n.seen = Overlay(notes, j.seen) BY <1>1, DoneIs
<1> HIDE DEF n, notes
<1> SUFFICES
             /\ DOMAIN j.seen \subseteq DOMAIN n.seen
             /\ n.seen.queues = IF "queues" \in DOMAIN notes THEN notes.queues ELSE j.seen.queues
             /\ n.seen.filed = IF "filed" \in DOMAIN notes THEN notes.filed ELSE j.seen.filed
             /\ n.seen.billed = IF "billed" \in DOMAIN notes THEN notes.billed ELSE j.seen.billed
             /\ n.seen.id = IF "id" \in DOMAIN notes THEN notes.id ELSE j.seen.id
             /\ n.seen.email = IF "email" \in DOMAIN notes THEN notes.email ELSE j.seen.email
             /\ n.seen.held = IF "held" \in DOMAIN notes THEN notes.held ELSE j.seen.held
  BY DEF n, notes
<1> QED BY <1>1, <1>2 DEF Overlay, KeptFields

-------------------------------------------------------------------------------
(* A statement of a good request leaves it good.                           *)

LEMMA DoneTyped ==
  ASSUME NEW j, NEW rw, Doing(j, rw)
  PROVE  Typed(Done(j, rw)) /\ Queueing(Done(j, rw))
<1> DEFINE n == Done(j, rw)
           notes == Sends(j, rw).notes
<1>1. NotesOK(j.op, j.pc, notes) BY DoingFits DEF FitSt, Shape
<1>2. SeenTyped(j.op, j.seen) BY DEF Doing, Good, Typed
<1>3. /\ DOMAIN j.seen \subseteq DOMAIN n.seen
      /\ n.seen.queues = IF "queues" \in DOMAIN notes THEN notes.queues ELSE j.seen.queues
      /\ n.seen.filed = IF "filed" \in DOMAIN notes THEN notes.filed ELSE j.seen.filed
      /\ n.seen.billed = IF "billed" \in DOMAIN notes THEN notes.billed ELSE j.seen.billed
      /\ n.seen.id = IF "id" \in DOMAIN notes THEN notes.id ELSE j.seen.id
      /\ n.seen.email = IF "email" \in DOMAIN notes THEN notes.email ELSE j.seen.email
  BY DoneSeen
<1>4. DOMAIN n = JobFields /\ n.op = j.op /\ n.pc = j.pc + 1 /\ DOMAIN n.wants = {}
  BY DoneFields
<1>5. j.pc \in 1 .. Lengths[j.op.does] BY DoingFits DEF FitSt
<1> HIDE DEF n, notes
<1>6. SeenTyped(j.op, n.seen)
  BY <1>1, <1>2, <1>3 DEF SeenTyped, NotesOK, Does
<1>7. Typed(n)
  <2>1. Lengths[j.op.does] \in Nat BY DEF Doing, Good, Typed, OpTyped, Lengths
  <2>2. n.pc \in 1 .. Lengths[n.op.does] + 1 BY <1>4, <1>5, <2>1
  <2>3. KeptFields \subseteq DOMAIN n.seen BY <1>3 DEF Doing, Good, Typed
  <2> QED BY <1>4, <1>6, <2>2, <2>3 DEF Doing, Good, Typed
<1>8. Queueing(n) BY <1>4 DEF Queueing
<1> QED BY <1>7, <1>8 DEF n

LEMMA DoneLocking ==
  ASSUME NEW j, NEW rw, Doing(j, rw)
  PROVE  Locking(Done(j, rw), rw)
<1> DEFINE n == Done(j, rw)
           st == Sends(j, rw)
           v == Sees(j, rw)
<1>1. /\ Asks(st) /\ Puts(j.op, j.pc, v, st) /\ Shape(j.op, j.pc, j.seen, st)
      /\ j.pc \in 1 .. Lengths[j.op.does]
  BY DoingFits DEF FitSt, Fit
<1>2. n.op = j.op BY DoneFields
<1>3. /\ \A r, m : Holds(j, r, m) => Holds(n, r, m)
      /\ \A r : Owns(j, r) => Owns(n, r)
  BY DoneHolds
<1>4. \A r, m : Holds(n, r, m) => Holds(j, r, m) \/ Gained(j, rw, r, m)
  BY DoneGains
<1>5. /\ \A r : r \in Drafts(n) => \/ Personal(r) => Owns(n, r)
                                   \/ r \in Drafts(j)
      /\ \A r : r \in Drafts(j) => r \in Drafts(n)
      /\ \A r : r \in DOMAIN st.puts /\ Owns(n, r) => r \in Drafts(n)
  BY DoneDrafts
<1>6. Locking(j, rw) BY DEF Doing, Good
<1>7. \A r : r \in DOMAIN rw /\ r \notin Drafts(j) => v[r] = rw[r] BY SeesRow
<1>8. DOMAIN rw = Rows BY DEF Doing, Sound, RowsTyped
<1> HIDE DEF n, st, v
<1>9. ASSUME NEW r, NEW m, Holds(n, r, m), Personal(r) PROVE LockFits(n, rw, r, m)
  <2>1. CASE Holds(j, r, m)
    BY <2>1, <1>2, <1>5, <1>6, <1>9 DEF Locking, LockFits
  <2>2. CASE ~Holds(j, r, m)
    <3>1. /\ r \in DOMAIN st.takes /\ (st.takes[r] = Insert <=> v[r] = None)
          /\ m = IF st.takes[r] = Insert THEN Update ELSE st.takes[r]
      BY <2>2, <1>4, <1>9 DEF Gained, st, v
    <3>2. r \in Rows /\ m \in KeyShare .. Update /\ (m = KeyShare => r = Student)
      BY <3>1, <1>1 DEF Asks
    <3>3. CASE st.takes[r] = Insert
      <4>1. Only(j.op, j.pc, j.seen, r) /\ r \in DOMAIN st.puts
        BY <3>1, <3>3, <1>1, <1>9 DEF Shape, Lockable, Personal
      <4>2. Owns(n, r) BY <3>1, <3>3, <1>9 DEF Owns, Holds
      <4>3. Creates(j.op, r)
        <5>1. r[1] = "payment" => j.op.does = "Complete"
          BY <4>1, RowTags DEF Only, Does
        <5>2. ASSUME r = Link, j.op.does \in {"Reopen", "Archive", "Unarchive"} PROVE FALSE
          <6>1. AtTheEnd(j.op, r) BY <5>2 DEF AtTheEnd
          <6>2. j.pc = Lengths[j.op.does] BY <4>1, <6>1, <1>1 DEF Puts, MayPut
          <6>3. \/ Does(j.op, j.pc, "Reopen", 2) \/ Does(j.op, j.pc, "Archive", 1)
            BY <4>1, <5>2, RowTags DEF Only, AtGate, Does, StudentGate, CourseGate, LinkGate,
                                       Charging, Linking
          <6> QED BY <6>2, <6>3 DEF Does, Lengths
        <5> QED BY <5>1, <5>2 DEF Creates
      <4> QED BY <3>2, <4>1, <4>2, <4>3, <1>2, <1>5 DEF LockFits
    <3>4. CASE st.takes[r] # Insert
      <4>1. CASE r \notin Drafts(j)
        BY <3>1, <3>2, <3>4, <4>1, <1>7, <1>8 DEF LockFits
      <4>2. CASE r \in Drafts(j)
        <5>1. PICK k : Holds(j, r, k)
          BY <4>2, <1>6, <1>9 DEF Locking, Owns, Holds
        <5>2. rw[r] # None \/ (r \in Drafts(j) /\ Creates(j.op, r))
          BY <5>1, <1>6, <1>9 DEF Locking, LockFits
        <5> QED BY <5>2, <3>2, <1>2, <1>5 DEF LockFits
      <4> QED BY <4>1, <4>2
    <3> QED BY <3>3, <3>4
  <2> QED BY <2>1, <2>2
<1>10. ASSUME NEW r \in Drafts(n), Personal(r) PROVE Owns(n, r)
  BY <1>3, <1>5, <1>6, <1>10 DEF Locking
<1> QED BY <1>9, <1>10 DEF Locking, n

(* The statements at a request's gates write nothing but a link.           *)
LEMMA GateStatements ==
  ASSUME NEW j, NEW rw, Doing(j, rw)
  PROVE  LET st == Sends(j, rw)
             v == Sees(j, rw)
         IN  /\ AtGate(j.op, j.pc, StudentGate) => st = LockLiveStudent(v)
             /\ AtGate(j.op, j.pc, CourseGate) => st = LockOpenClass(v, j.op.class)
             /\ AtGate(j.op, j.pc, LinkGate) => st \in {ActivateLink(v), Ends(ActivateLink(v))}
  BY DoingFits DEF FitSt, Gates, AtGate, Sends

LEMMA DoneGated ==
  ASSUME NEW j, NEW rw, Doing(j, rw), ~Sends(j, rw).stop
  PROVE  Gated(Done(j, rw), rw)
<1> DEFINE n == Done(j, rw)
           st == Sends(j, rw)
           v == Sees(j, rw)
           c == j.op.class
<1>1. n.op = j.op /\ n.pc = j.pc + 1 /\ j.pc \in 1 .. Lengths[j.op.does]
  BY DoneFields, DoingFits DEF FitSt
<1>2. /\ \A r, m : Holds(j, r, m) => Holds(n, r, m)
      /\ \A r : r \in Drafts(j) => r \in Drafts(n)
      /\ \A r : r \in DOMAIN st.puts /\ Owns(n, r) => r \in Drafts(n)
  BY DoneHolds, DoneDrafts
<1>3. \A gate \in {StudentGate, CourseGate, LinkGate} :
         Past(n, gate) => Past(j, gate) \/ AtGate(j.op, j.pc, gate)
  <2> SUFFICES ASSUME NEW gate \in {StudentGate, CourseGate, LinkGate}, Past(n, gate),
                      ~Past(j, gate) PROVE AtGate(j.op, j.pc, gate)
    OBVIOUS
  <2>1. \A does \in DOMAIN gate : gate[does] \in Nat BY DEF StudentGate, CourseGate, LinkGate
  <2> QED BY <1>1, <2>1 DEF Past, AtGate
<1>4. Gated(j, rw) BY DEF Doing, Good
<1>5. \A r : r \in DOMAIN rw /\ r \notin Drafts(j) => v[r] = rw[r] BY SeesRow
<1>6. RowsTyped(rw) /\ RowsTyped(v) BY DoingFits DEF Doing, Sound, FitSt
<1>7. ASSUME AtGate(j.op, j.pc, StudentGate)
      PROVE  Holds(n, Student, Share) /\ rw[Student] = "live"
  <2>1. st = LockLiveStudent(v) BY <1>7, GateStatements
  <2>2. v[Student] # "erased" /\ st.takes = [r \in {Student} |-> Share]
    BY <2>1 DEF LockLiveStudent, StopIf, Locks, Reads
  <2>3. Student \notin Drafts(j)
    BY <1>7, RowTags DEF Doing, Good, Drafting, Allowed, AtGate, StudentGate
  <2>4. rw[Student] = "live" BY <2>2, <2>3, <1>5, <1>6, RowsAre DEF RowsTyped
  <2>5. Only(j.op, j.pc, j.seen, Student) BY <1>7 DEF Only
  <2>6. Gained(j, rw, Student, Share) BY <2>2, <1>6, NoneIs DEF Gained, RowsTyped, Words
  <2>7. Holds(n, Student, Share) BY <2>5, <2>6, OnlyHeld
  <2> QED BY <2>4, <2>7
<1>8. ASSUME AtGate(j.op, j.pc, CourseGate)
      PROVE  Holds(n, Course(c), Update) /\ rw[Course(c)] = "open"
  <2>1. st = LockOpenClass(v, c) BY <1>8, GateStatements
  <2>2. v[Course(c)] = "open" /\ st.takes = [r \in {Course(c)} |-> Update]
    BY <2>1 DEF LockOpenClass, StopIf, Locks, Reads
  <2>0. c \in Class BY <1>8 DEF Doing, Good, Typed, OpTyped, AtGate, CourseGate
  <2>3. Course(c) \notin Drafts(j)
    <3> SUFFICES ASSUME Course(c) \in Drafts(j) PROVE FALSE OBVIOUS
    <3>1. j.op.does = "Complete" BY RowTags DEF Doing, Good, Drafting, Allowed
    <3>2. j.pc = 1 BY <3>1, <1>8 DEF AtGate, CourseGate
    <3> QED BY <3>1, <3>2 DEF Doing, Good, Completing
  <2>4. rw[Course(c)] = "open" BY <2>0, <2>2, <2>3, <1>5, <1>6, RowsAre DEF RowsTyped
  <2>5. Only(j.op, j.pc, j.seen, Course(c)) BY <1>8 DEF Only
  <2>6. Gained(j, rw, Course(c), Update) BY <2>2, NoneIs DEF Gained, Words
  <2>7. Holds(n, Course(c), Update) BY <2>5, <2>6, OnlyHeld
  <2> QED BY <2>4, <2>7
<1>9. ASSUME AtGate(j.op, j.pc, LinkGate)
      PROVE  Link \in Drafts(n)
  <2> DEFINE active == [r \in Existing(v, {Link}) |-> [v[r] EXCEPT !.filed = FALSE]]
  <2>1. st \in {ActivateLink(v), Ends(ActivateLink(v))} BY <1>9, GateStatements
  <2>2. /\ ActivateLink(v) = StopIf(v[Link] = None, [Locks({Link}, Update) EXCEPT !.puts = active])
    BY DEF ActivateLink
  <2> HIDE DEF active
  <2>3. v[Link] # None /\ st.takes = [r \in {Link} |-> Update] /\ st.puts = active
    BY <2>1, <2>2 DEF StopIf, Locks, Reads, Ends
  <2>4. Link \in DOMAIN active BY <2>3 DEF active, Existing
  <2>5. Only(j.op, j.pc, j.seen, Link) BY <1>9 DEF Only
  <2>6. Gained(j, rw, Link, Update) BY <2>3 DEF Gained
  <2>7. Holds(n, Link, Update) BY <2>5, <2>6, OnlyHeld
  <2>8. Owns(n, Link) BY <2>7 DEF Owns, Holds
  <2> QED BY <2>3, <2>4, <2>8, <1>2
<1>10. Past(n, StudentGate) => Holds(n, Student, Share) /\ rw[Student] = "live"
  BY <1>2, <1>3, <1>4, <1>7 DEF Gated
<1>11. Past(n, CourseGate) => Holds(n, Course(c), Update) /\ rw[Course(c)] = "open"
  BY <1>2, <1>3, <1>4, <1>8 DEF Gated
<1>12. Past(n, LinkGate) => Link \in Drafts(n)
  BY <1>2, <1>3, <1>4, <1>9 DEF Gated
<1> HIDE DEF n
<1> QED BY <1>1, <1>10, <1>11, <1>12 DEF Gated, n

-------------------------------------------------------------------------------
LEMMA UnlinkIs ==
  ASSUME NEW o, o.does = "Unlink", NEW v, NEW seen
  PROVE  LET S == Statements(o, v, seen)
         IN  /\ S[1] = Keeping([link |-> v[Link]], StopIf(v[Link] = None, Reads))
             /\ S[2] = LockLiveStudent(v) /\ S[3] = Keeping([queues |-> WaitingIn(v)], Reads)
             /\ S[4] = LocksInOrder(Courses(seen.queues)) /\ S[5] = Writes(Leaves(v, seen))
             /\ S[6] = Upsert(v, Privacy, "silent")
             /\ S[7] = StopIf(Relinked(v, seen), Deletes({Link}))
             /\ S[8] = Answered(v, DeliveredTo(v), "declined")
             /\ S[9] = Ends(Saying("left", UpsertBlock(v)))
<1>1. Statements(o, v, seen) = Unlink(v, seen)
  BY Zenon DEF Statements
<1> QED BY <1>1 DEF Unlink, WaitingIn, Courses, Leaves, Relinked, DeliveredTo

LEMMA UnlinkSorts ==
  ASSUME NEW o, o.does = "Unlink", NEW v, NEW seen
  PROVE  Statements(o, v, seen)[4] = LocksInOrder(Courses(seen.queues))
<1>1. Statements(o, v, seen) = Unlink(v, seen)
  BY Zenon DEF Statements
<1> QED BY <1>1 DEF Unlink, WaitingIn, Courses, Leaves, Relinked, DeliveredTo

(* What a statement writes, whatever it is wrapped in.                     *)
LEMMA PutsOf ==
  /\ DOMAIN Reads.puts = {}
  /\ \A n, st, f : /\ IsStatement(st) => /\ Keeping(n, st).puts = st.puts
                                         /\ StopIf(n, st).puts = st.puts
                                         /\ Ends(st).puts = st.puts
                                         /\ DOMAIN Also(f, st).puts = DOMAIN f \cup DOMAIN st.puts
                   /\ Writes(f).puts = f /\ Inserts(f).puts = f
  /\ \A S, m : DOMAIN Locks(S, m).puts = {} /\ DOMAIN LocksInOrder(S).puts = {}
               /\ DOMAIN Deletes(S).puts = S
  /\ \A v, r, val : DOMAIN Upsert(v, r, val).puts = {r}
<1>1. DOMAIN Reads.puts = {} BY DEF Reads, Nothing
<1>2. ASSUME NEW n, NEW st, NEW f
      PROVE  /\ IsStatement(st) => /\ Keeping(n, st).puts = st.puts
                                   /\ StopIf(n, st).puts = st.puts
                                   /\ Ends(st).puts = st.puts
                                   /\ DOMAIN Also(f, st).puts = DOMAIN f \cup DOMAIN st.puts
             /\ Writes(f).puts = f /\ Inserts(f).puts = f
  <2>1. DOMAIN Overlay(f, st.puts) = DOMAIN f \cup DOMAIN st.puts BY OverlayIs
  <2> QED BY <2>1 DEF Keeping, StopIf, Ends, Also, Writes, Inserts, Locks, Reads, IsStatement
<1>3. \A S, m : DOMAIN Locks(S, m).puts = {} /\ DOMAIN LocksInOrder(S).puts = {}
                /\ DOMAIN Deletes(S).puts = S
  BY DEF Locks, LocksInOrder, Deletes, Reads, Nothing
<1>4. \A v, r, val : DOMAIN Upsert(v, r, val).puts = {r}
  BY DEF Upsert, Reads
<1> QED BY <1>1, <1>2, <1>3, <1>4

NoQueue(st) == \A r \in DOMAIN st.puts : r[1] # "queue"

LEMMA UnlinkPuts ==
  ASSUME NEW o, o.does = "Unlink", NEW pc \in 1 .. 9, NEW v, NEW seen,
         NEW r \in DOMAIN Statements(o, v, seen)[pc].puts, r[1] = "queue"
  PROVE  pc = 5 /\ r[2] \in seen.queues
<1> DEFINE S == Statements(o, v, seen)
<1>1. /\ S[1] = Keeping([link |-> v[Link]], StopIf(v[Link] = None, Reads))
      /\ S[2] = LockLiveStudent(v) /\ S[3] = Keeping([queues |-> WaitingIn(v)], Reads)
      /\ S[4] = LocksInOrder(Courses(seen.queues)) /\ S[5] = Writes(Leaves(v, seen))
      /\ S[6] = Upsert(v, Privacy, "silent")
      /\ S[7] = StopIf(Relinked(v, seen), Deletes({Link}))
      /\ S[8] = Answered(v, DeliveredTo(v), "declined")
      /\ S[9] = Ends(Saying("left", UpsertBlock(v)))
  BY UnlinkIs, ZenonT(60)
<1>2. NoQueue(S[1])
  BY <1>1 DEF NoQueue, Keeping, StopIf, Reads, Nothing
<1>3. NoQueue(S[2]) /\ NoQueue(S[3]) /\ NoQueue(S[4])
  BY <1>1 DEF NoQueue, Keeping, StopIf, Reads, Nothing, LockLiveStudent, Locks, LocksInOrder
<1>4. NoQueue(S[6]) /\ NoQueue(S[7])
  BY <1>1, RowTags DEF NoQueue, StopIf, Reads, Locks, Upsert, Deletes
<1>5. NoQueue(S[8])
  <2> DEFINE f == [r_1 \in {Invited(i) : i \in DeliveredTo(v)} |-> [v[r_1] EXCEPT !.status = "declined"]]
  <2>1. \A q \in DOMAIN f : q[1] # "queue" BY RowTags
  <2>2. S[8] = Writes(f) BY <1>1 DEF Answered
  <2> HIDE DEF f, S
  <2> QED BY <2>1, <2>2, PutsOf DEF NoQueue
<1>6. NoQueue(S[9])
  <2>1. DOMAIN UpsertBlock(v).puts \subseteq {Block} /\ IsStatement(UpsertBlock(v))
    BY DEF UpsertBlock, Inserts, Locks, Reads, Nothing, IsStatement
  <2> DEFINE st == UpsertBlock(v)
             said == [r_1 \in {Said} |-> "left"]
  <2>2. S[9] = Ends(Also(said, st)) BY <1>1 DEF Saying
  <2>3. DOMAIN said = {Said} OBVIOUS
  <2>4. IsStatement(st) /\ DOMAIN st.puts \subseteq {Block} BY <2>1
  <2> HIDE DEF st, said, S
  <2>5. Ends(Also(said, st)).puts = Overlay(said, st.puts)
    BY <2>4 DEF Ends, Also, IsStatement
  <2>6. DOMAIN Overlay(said, st.puts) = DOMAIN said \cup DOMAIN st.puts BY OverlayIs
  <2> QED BY <2>2, <2>3, <2>4, <2>5, <2>6, RowTags DEF NoQueue
<1>7. ASSUME pc = 5 PROVE r[2] \in seen.queues
  <2>1. S[5].puts = Leaves(v, seen) BY <1>1, PutsOf
  <2>2. r \in DOMAIN Leaves(v, seen) BY <2>1, <1>7
  <2> QED BY <2>2, RowTags DEF Leaves
<1> HIDE DEF S
<1>8. pc \in 1 .. 9 /\ r \in DOMAIN S[pc].puts BY DEF S
<1> QED BY <1>2, <1>3, <1>4, <1>5, <1>6, <1>7, <1>8 DEF NoQueue

LEMMA ErasePuts ==
  ASSUME NEW o, o.does = "Erase", NEW pc \in 1 .. 12, NEW v, NEW seen,
         NEW r \in DOMAIN Statements(o, v, seen)[pc].puts, r[1] = "queue"
  PROVE  pc = 7 /\ r[2] \in seen.queues
<1> DEFINE S == Erase(v, seen)
<1>1. Statements(o, v, seen) = S BY EraseIs
<1>a. /\ S[1] = Locks({Student}, NoKeyUpdate) /\ S[2] = Keeping([queues |-> InQueue(v)], Reads)
      /\ S[3] = LocksInOrder(Courses(seen.queues)) /\ S[4] = Writes(CancelledIn(v))
      /\ S[5] = Deletes({Privacy}) /\ S[6] = Deletes({Link})
  BY EraseStarts
<1>b. /\ S[7] = Deletes(QueuesOf(seen)) /\ S[8] = Also(FreedIn(v), Writes(ScrubbedIn(v)))
      /\ S[9] = Writes(Untold(v)) /\ S[10] = StopIf(v[Student] = "erased", Erasure)
      /\ S[11] = StopIf(InQueue(v) # {}, Reads) /\ S[12] = Ends(Reads)
  BY EraseEnds
<1> HIDE DEF S
<1>2. NoQueue(S[1]) /\ NoQueue(S[2]) /\ NoQueue(S[3])
  BY <1>a DEF NoQueue, Keeping, Reads, Nothing, Locks, LocksInOrder
<1>3. NoQueue(S[4])
  <2>1. S[4].puts = CancelledIn(v) BY <1>a, PutsOf
  <2> QED BY <2>1, RowTags DEF NoQueue, CancelledIn
<1>4. NoQueue(S[5]) /\ NoQueue(S[6])
  BY <1>a, PutsOf, RowTags DEF NoQueue
<1>5. NoQueue(S[8])
  <2>1. S[8].puts = Overlay(FreedIn(v), ScrubbedIn(v))
    BY <1>b DEF Also, Writes, Locks, Reads
  <2>2. DOMAIN Overlay(FreedIn(v), ScrubbedIn(v)) = DOMAIN FreedIn(v) \cup DOMAIN ScrubbedIn(v)
    BY OverlayIs
  <2>3. \A q \in DOMAIN FreedIn(v) : q[1] # "queue" BY RowTags DEF FreedIn
  <2>4. \A q \in DOMAIN ScrubbedIn(v) : q[1] # "queue" BY RowTags DEF ScrubbedIn
  <2> QED BY <2>1, <2>2, <2>3, <2>4 DEF NoQueue
<1>6. NoQueue(S[9])
  <2>1. S[9].puts = Untold(v) BY <1>b, PutsOf
  <2> QED BY <2>1, RowTags DEF NoQueue, Untold
<1>7. NoQueue(S[10]) /\ NoQueue(S[11]) /\ NoQueue(S[12])
  BY <1>b, RowTags DEF NoQueue, StopIf, Erasure, Reads, Nothing, Locks, Ends
<1>8. ASSUME pc = 7 PROVE r[2] \in seen.queues
  <2>1. DOMAIN S[7].puts = QueuesOf(seen) BY <1>b, PutsOf
  <2>2. r \in QueuesOf(seen) BY <2>1, <1>1, <1>8
  <2> QED BY <2>2, RowTags DEF QueuesOf
<1>9. pc \in 1 .. 12 /\ r \in DOMAIN S[pc].puts BY <1>1
<1> QED BY <1>2, <1>3, <1>4, <1>5, <1>6, <1>7, <1>8, <1>9 DEF NoQueue

LEMMA DoneDrafting ==
  ASSUME NEW j, NEW rw, Doing(j, rw)
  PROVE  Drafting(Done(j, rw))
<1> DEFINE n == Done(j, rw)
           st == Sends(j, rw)
           v == Sees(j, rw)
<1>1. n.op = j.op /\ n.pc = j.pc + 1 /\ j.pc \in 1 .. Lengths[j.op.does]
  BY DoneFields, DoingFits DEF FitSt
<1>2. /\ \A r, m : Holds(j, r, m) => Holds(n, r, m)
      /\ \A r : r \in Drafts(n) => \/ r \in DOMAIN st.puts /\ n.wrote[r] = st.puts[r]
                                   \/ r \in Drafts(j) /\ n.wrote[r] = j.wrote[r]
  BY DoneHolds, DoneDrafts
<1>3. Drafting(j) /\ Gated(j, rw) /\ Sorting(j) BY DEF Doing, Good
<1>4. Puts(j.op, j.pc, v, st) BY DoingFits DEF FitSt, Fit
<1>a. OpTyped(j.op) BY DEF Doing, Good, Typed
<1>5. ASSUME NEW r \in DOMAIN st.puts, r[1] = "queue" PROVE Holds(j, Course(r[2]), Update)
  <2>1. Allowed(j.op, r, st.puts[r]) BY <1>4, <1>5 DEF Puts, MayPut
  <2>2. \/ j.op.does \in {"Book", "Join", "Promote"} /\ r[2] = j.op.class
        \/ j.op.does = "Unlink" \/ j.op.does = "Erase"
    BY <2>1, <1>5 DEF Allowed
  <2>3. CASE j.op.does \in {"Book", "Join", "Promote"} /\ r[2] = j.op.class
    <3>1. ~AtGate(j.op, j.pc, StudentGate)
      <4> SUFFICES ASSUME AtGate(j.op, j.pc, StudentGate) PROVE FALSE OBVIOUS
      <4>1. st = LockLiveStudent(v) BY GateStatements
      <4> QED BY <4>1, <1>5 DEF LockLiveStudent, StopIf, Locks, Reads, Nothing
    <3>2. ~AtGate(j.op, j.pc, CourseGate)
      <4> SUFFICES ASSUME AtGate(j.op, j.pc, CourseGate) PROVE FALSE OBVIOUS
      <4>1. st = LockOpenClass(v, j.op.class) BY GateStatements
      <4> QED BY <4>1, <1>5 DEF LockOpenClass, StopIf, Locks, Reads, Nothing
    <3>3. Past(j, CourseGate)
      BY <3>1, <3>2, <2>3, <1>1 DEF AtGate, Past, StudentGate, CourseGate
    <3> QED BY <3>3, <2>3, <1>3 DEF Gated
  <2>4. CASE j.op.does = "Unlink"
    <3>1. Lengths[j.op.does] = 9 BY <2>4 DEF Lengths
    <3>2. j.pc = 5 /\ r[2] \in j.seen.queues
      BY <3>1, <2>4, <1>1, <1>5, UnlinkPuts DEF Sends
    <3> QED BY <3>2, <2>4, <1>3 DEF Sorting, SortedAt
  <2>5. CASE j.op.does = "Erase"
    <3>1. Lengths[j.op.does] = 12 BY <2>5 DEF Lengths
    <3>2. j.pc = 7 /\ r[2] \in j.seen.queues
      BY <3>1, <2>5, <1>1, <1>5, ErasePuts DEF Sends
    <3> QED BY <3>2, <2>5, <1>3 DEF Sorting, SortedAt
  <2> QED BY <2>2, <2>3, <2>4, <2>5
<1>b. Lengths[j.op.does] \in Nat BY <1>a DEF OpTyped, Lengths
<1> HIDE DEF n, st, v
<1>6. ASSUME NEW r \in Drafts(n)
      PROVE  /\ r \in Rows /\ Allowed(n.op, r, n.wrote[r])
             /\ AtTheEnd(n.op, r) => n.pc > Lengths[n.op.does]
             /\ r[1] = "queue" => Holds(n, Course(r[2]), Update)
  <2>1. CASE r \in DOMAIN st.puts /\ n.wrote[r] = st.puts[r]
    <3>1. MayPut(j.op, j.pc, v, r, st.puts[r]) BY <2>1, <1>4 DEF Puts
    <3>2. r \in Rows /\ Allowed(n.op, r, n.wrote[r]) BY <3>1, <2>1, <1>1 DEF MayPut
    <3>3. AtTheEnd(n.op, r) => n.pc > Lengths[n.op.does]
      BY <3>1, <1>1, <1>b DEF MayPut
    <3> QED BY <3>2, <3>3, <2>1, <1>2, <1>5
  <2>2. CASE r \in Drafts(j) /\ n.wrote[r] = j.wrote[r]
    BY <2>2, <1>1, <1>2, <1>3, <1>b DEF Drafting
  <2> QED BY <2>1, <2>2, <1>2
<1> QED BY <1>6 DEF Drafting, n

-------------------------------------------------------------------------------
LEMMA DoneSorting ==
  ASSUME NEW j, NEW rw, Doing(j, rw)
  PROVE  Sorting(Done(j, rw))
<1> DEFINE n == Done(j, rw)
           st == Sends(j, rw)
           v == Sees(j, rw)
           at == SortedAt[j.op.does]
<1>1. /\ n.op = j.op /\ n.pc = j.pc + 1 /\ j.pc \in 1 .. Lengths[j.op.does]
      /\ DOMAIN n.wants = {}
  BY DoneFields, DoingFits DEF FitSt
<1>2. \A r, m : Holds(j, r, m) => Holds(n, r, m) BY DoneHolds
<1>3. \A r, m : Gained(j, rw, r, m) /\ r \in Asked(j, v, st) => Holds(n, r, m) BY DoneGains
<1>4. n.seen.queues = IF "queues" \in DOMAIN st.notes THEN st.notes.queues ELSE j.seen.queues
  BY DoneSeen
<1>5. NotesOK(j.op, j.pc, st.notes) /\ RowsTyped(v) BY DoingFits DEF FitSt, Shape
<1>6. Sorting(j) /\ SeenTyped(j.op, j.seen) BY DEF Doing, Good, Typed
<1> SUFFICES ASSUME j.op.does \in DOMAIN SortedAt, n.pc > at, NEW c \in n.seen.queues
             PROVE  Holds(n, Course(c), Update)
  BY <1>1 DEF Sorting
<1>7. at \in Nat BY DEF SortedAt
<1>8. j.pc >= at BY <1>1, <1>7
<1>9. n.seen.queues = j.seen.queues
  BY <1>4, <1>5, <1>8 DEF NotesOK, Does, SortedAt
<1>10. CASE j.pc > at BY <1>2, <1>6, <1>9, <1>10 DEF Sorting
<1>11. CASE j.pc = at
  <2>1. st = LocksInOrder(Courses(j.seen.queues))
    <3> DEFINE S == Statements(j.op, v, j.seen)
    <3>0. st = S[j.pc] BY DEF Sends
    <3>1. CASE j.op.does = "Unlink"
      <4>1. S[4] = LocksInOrder(Courses(j.seen.queues)) BY <3>1, UnlinkSorts
      <4>2. j.pc = 4 BY <3>1, <1>11 DEF SortedAt
      <4> HIDE DEF S, st, v
      <4> QED BY <4>1, <4>2, <3>0
    <3>2. CASE j.op.does = "Erase"
      <4>1. Erase(v, j.seen)[3] = LocksInOrder(Courses(j.seen.queues)) BY EraseStarts
      <4>2. S = Erase(v, j.seen) BY <3>2, EraseIs
      <4>3. j.pc = 3 BY <3>2, <1>11 DEF SortedAt
      <4> HIDE DEF S, st, v
      <4> QED BY <4>1, <4>2, <4>3, <3>0
    <3> QED BY <3>1, <3>2 DEF SortedAt
  <2>2. st.takes = [r \in Courses(j.seen.queues) |-> Update]
    BY <2>1 DEF LocksInOrder, Locks, Reads
  <2>3. c \in Class /\ Course(c) \in DOMAIN st.takes /\ st.takes[Course(c)] = Update
    BY <2>2, <1>6, <1>9 DEF SeenTyped, Courses
  <2>4. v[Course(c)] # None BY <2>3, <1>5, NoneIs DEF RowsTyped, Words
  <2>5. Gained(j, rw, Course(c), Update) BY <2>3, <2>4 DEF Gained
  <2>6. Course(c) \in WantedRows(v, st) BY <2>3, <2>4 DEF WantedRows
  <2>7. CASE DOMAIN j.wants = {} BY <2>5, <2>6, <2>7, <1>3 DEF Asked
  <2>8. CASE DOMAIN j.wants # {}
    <3>1. Course(c) \in DOMAIN j.wants \/ Holds(j, Course(c), Update)
      BY <2>8, <1>6, <1>9, <1>11 DEF Sorting
    <3> QED BY <3>1, <2>5, <2>8, <1>2, <1>3 DEF Asked
  <2> QED BY <2>7, <2>8
<1> QED BY <1>1, <1>7, <1>8, <1>10, <1>11

LEMMA DonePromoting ==
  ASSUME NEW j, NEW rw, Doing(j, rw), ~Sends(j, rw).stop
  PROVE  Promoting(Done(j, rw), rw)
<1> DEFINE n == Done(j, rw)
           st == Sends(j, rw)
           v == Sees(j, rw)
           c == j.op.class
<1>1. n.op = j.op /\ n.pc = j.pc + 1 /\ j.pc \in 1 .. Lengths[j.op.does]
  BY DoneFields, DoingFits DEF FitSt
<1>2. \A r : r \in Drafts(n) => r \in DOMAIN st.puts \/ r \in Drafts(j)
  BY DoneDrafts
<1>3. \A r : r \in DOMAIN rw /\ r \notin Drafts(j) => v[r] = rw[r] BY SeesRow
<1>4. Promoting(j, rw) /\ OpTyped(j.op) /\ DOMAIN rw = Rows
  BY DEF Doing, Good, Typed, Sound, RowsTyped
<1> SUFFICES ASSUME j.op.does = "Promote" PROVE Promoting(n, rw)
  BY <1>1 DEF Promoting
<1>5. c \in Class BY <1>4 DEF OpTyped
<1> DEFINE S == Statements(j.op, v, j.seen)
           x == v[Queued(c)] # "waiting" \/ v[Booking(c)] = "charged"
<1>b. S[1] = LockOpenClass(v, c) /\ S[2] = StopIf(x, Reads)
  <2>1. /\ Len(S) = 7 /\ S[1] = LockOpenClass(v, c)
        /\ S[2] = StopIf(v[Queued(c)] # "waiting" \/ v[Booking(c)] = "charged", Reads)
        /\ S[3] = Locks({Student}, KeyShare) /\ S[4] = Upsert(v, Booking(c), "charged")
        /\ S[5] = InsertLink(v) /\ S[6] = ActivateLink(v)
        /\ S[7] = Ends(Writes([r \in {Queued(c)} |-> "left"]))
    BY PromoteIs
  <2> QED BY <2>1
<1>d. st = S[j.pc] BY DEF Sends
<1> HIDE DEF S, x
<1>6. j.pc = 1 => DOMAIN st.puts = {}
  <2> SUFFICES ASSUME j.pc = 1 PROVE DOMAIN st.puts = {} OBVIOUS
  <2>1. st = LockOpenClass(v, c) BY <1>b, <1>d
  <2> QED BY <2>1 DEF LockOpenClass, StopIf, Locks, Reads, Nothing
<1>7. j.pc = 2 => v[Queued(c)] = "waiting"
  <2> SUFFICES ASSUME j.pc = 2 PROVE v[Queued(c)] = "waiting" OBVIOUS
  <2>1. st = StopIf(x, Reads) BY <1>b, <1>d
  <2>2. ~x BY <2>1 DEF StopIf, Reads
  <2> QED BY <2>2 DEF x
<1>8. j.pc = 2 => rw[Queued(c)] = "waiting"
  BY <1>3, <1>4, <1>5, <1>7, RowsAre DEF Promoting
<1>9. j.pc <= 1 => Drafts(n) = {}
  BY <1>1, <1>2, <1>4, <1>6 DEF Promoting
<1> HIDE DEF n, st, v
<1> QED BY <1>1, <1>4, <1>8, <1>9 DEF Promoting

LEMMA DoneCompleting ==
  ASSUME NEW j, NEW rw, Doing(j, rw)
  PROVE  Completing(Done(j, rw), rw)
<1> DEFINE n == Done(j, rw)
           st == Sends(j, rw)
           v == Sees(j, rw)
           c == j.op.class
<1>1. n.op = j.op /\ n.pc = j.pc + 1 /\ j.pc \in 1 .. Lengths[j.op.does]
  BY DoneFields, DoingFits DEF FitSt
<1>2. \A r : r \in Drafts(n) => \/ r \in DOMAIN st.puts /\ (Personal(r) => Owns(n, r))
                                \/ r \in Drafts(j)
  BY DoneDrafts
<1>a. /\ \A r : r \in Drafts(j) => r \in Drafts(n)
      /\ \A r : r \in DOMAIN st.puts /\ Owns(n, r) => r \in Drafts(n)
  BY DoneDrafts
<1>3. \A r : r \in DOMAIN rw /\ r \notin Drafts(j) => v[r] = rw[r] BY SeesRow
<1>4. Completing(j, rw) /\ OpTyped(j.op) /\ RowsTyped(rw)
  BY DEF Doing, Good, Typed, Sound
<1>5. \A r : Owns(j, r) => Owns(n, r) BY DoneHolds
<1>6. n.seen.billed = IF "billed" \in DOMAIN st.notes THEN st.notes.billed ELSE j.seen.billed
  BY DoneSeen
<1>b. NotesOK(j.op, j.pc, st.notes) BY DoingFits DEF FitSt, Shape
<1>c. \A q, m : Only(j.op, j.pc, j.seen, q) /\ Gained(j, rw, q, m) => Holds(n, q, m)
  BY OnlyHeld
<1> SUFFICES ASSUME j.op.does = "Complete" PROVE Completing(n, rw)
  BY <1>1 DEF Completing
<1>7. c \in Class /\ Lengths[j.op.does] = 4 /\ j.pc \in 1 .. 4
  BY <1>1, <1>4 DEF OpTyped, Lengths
<1> DEFINE S == Statements(j.op, v, j.seen)
<1>8. /\ S[1] = LockOpenClass(v, c)
      /\ S[2] = Writes([r \in {Course(c)} |-> "completed"])
      /\ S[3] = Keeping([billed |-> Billed(v, c)], Writes(Priced(v, c)))
      /\ S[4] = Ends(Inserts(Owing(c, j.seen)))
  BY CompleteIs
<1>9. st = S[j.pc] BY DEF Sends
<1> HIDE DEF S
<1>10. RowsTyped(v) BY DoingFits DEF FitSt
<1> HIDE DEF n, st, v
<1>11. CASE j.pc = 1
  <2>0. st = LockOpenClass(v, c) BY <1>8, <1>9, <1>11
  <2>1. DOMAIN st.puts = {} BY <2>0 DEF LockOpenClass, StopIf, Locks, Reads, Nothing
  <2>2. Drafts(j) = {} BY <1>4, <1>11 DEF Completing
  <2>3. Drafts(n) = {} BY <2>1, <2>2, <1>2
  <2> QED BY <2>3, <1>1, <1>11 DEF Completing
<1>12. CASE j.pc = 2
  <2>1. st.takes = [r \in {Course(c)} |-> NoKeyUpdate] /\ DOMAIN st.puts = {Course(c)}
    <3>1. st = Writes([r \in {Course(c)} |-> "completed"]) BY <1>8, <1>9, <1>12
    <3> QED BY <3>1 DEF Writes, Locks, Reads
  <2>2. Drafts(j) = {} BY <1>4, <1>12 DEF Completing
  <2>3. Holds(j, Course(c), Update)
    BY <1>12 DEF Doing, Good, Gated, Past, CourseGate
  <2>4. Owns(n, Course(c)) BY <2>3, <1>5 DEF Owns, Holds
  <2>5. Course(c) \in Drafts(n) BY <2>1, <2>4, <1>a
  <2>6. \A r \in Drafts(n) : r = Course(c) BY <2>1, <2>2, <1>2
  <2>7. Booking(c) \notin Drafts(n) /\ Owed(c) \notin Drafts(n) BY <2>6, RowTags
  <2> QED BY <2>5, <2>7, <1>1, <1>12 DEF Completing
<1>13. CASE j.pc = 3
  <2>1. /\ st.takes = [r \in Billed(v, c) |-> NoKeyUpdate] /\ DOMAIN st.puts = Billed(v, c)
        /\ st.notes = [billed |-> Billed(v, c)]
    <3>1. st = Keeping([billed |-> Billed(v, c)], Writes(Priced(v, c))) BY <1>8, <1>9, <1>13
    <3> QED BY <3>1 DEF Writes, Locks, Reads, Keeping, Priced
  <2>2. n.seen.billed = Billed(v, c) BY <2>1, <1>6
  <2>3. v[Booking(c)] = "charged" => rw[Booking(c)] = "charged"
    <3>1. CASE Booking(c) \in Drafts(j) BY <3>1, <1>4 DEF Completing
    <3>2. CASE Booking(c) \notin Drafts(j)
      BY <3>2, <1>3, <1>4, <1>7, RowsAre DEF RowsTyped
    <3> QED BY <3>1, <3>2
  <2>4. v[Booking(c)] = "charged" => Owns(n, Booking(c))
    <3> SUFFICES ASSUME v[Booking(c)] = "charged" PROVE Owns(n, Booking(c)) OBVIOUS
    <3>1. Only(j.op, j.pc, j.seen, Booking(c)) BY <1>13 DEF Only, Does
    <3>2. Booking(c) \in Billed(v, c) /\ v[Booking(c)] # None
      BY NoneIs DEF Billed, Words
    <3>3. Gained(j, rw, Booking(c), NoKeyUpdate) BY <3>2, <2>1 DEF Gained, st, v
    <3>4. Holds(n, Booking(c), NoKeyUpdate) BY <3>1, <3>3, <1>c
    <3> QED BY <3>4 DEF Owns, Holds
  <2>5. Billed(v, c) # {} => v[Booking(c)] = "charged" BY DEF Billed
  <2>6. Course(c) \in Drafts(n) BY <1>4, <1>13, <1>a DEF Completing
  <2>7. Booking(c) \in Drafts(n) => rw[Booking(c)] = "charged"
    BY <2>1, <2>3, <2>5, <1>2, <1>4 DEF Completing
  <2>8. Owed(c) \notin Drafts(n)
    <3>1. Owed(c) \notin DOMAIN st.puts BY <2>1, RowTags DEF Billed
    <3>2. Owed(c) \notin Drafts(j)
      <4>1. AtTheEnd(j.op, Owed(c)) BY RowTags DEF AtTheEnd
      <4> QED BY <4>1, <1>7 DEF Doing, Good, Drafting
    <3> QED BY <3>1, <3>2, <1>2
  <2> QED BY <2>2, <2>3, <2>4, <2>5, <2>6, <2>7, <2>8, <1>1, <1>13 DEF Completing
<1>14. CASE j.pc = 4
  <2>1. DOMAIN st.puts = DOMAIN Owing(c, j.seen)
    <3>1. st = Ends(Inserts(Owing(c, j.seen))) BY <1>8, <1>9, <1>14
    <3> QED BY <3>1 DEF Inserts, Locks, Reads, Ends
  <2>2. n.seen.billed = j.seen.billed BY <1>6, <1>b, <1>14 DEF NotesOK, Does
  <2>3. \A r \in DOMAIN st.puts : r = Owed(c) /\ j.seen.billed # {} BY <2>1 DEF Owing
  <2>4. Owed(c) \notin Drafts(j)
    <3>1. AtTheEnd(j.op, Owed(c)) BY RowTags DEF AtTheEnd
    <3> QED BY <3>1, <1>7 DEF Doing, Good, Drafting
  <2>5. Course(c) \in Drafts(n) BY <1>4, <1>14, <1>a DEF Completing
  <2>6. Booking(c) # Owed(c) BY RowTags
  <2> QED BY <2>2, <2>3, <2>4, <2>5, <2>6, <1>1, <1>2, <1>4, <1>5, <1>14 DEF Completing
<1> QED BY <1>7, <1>11, <1>12, <1>13, <1>14

-------------------------------------------------------------------------------
(* What a request sees after its statement.                                *)
LEMMA DoneSees ==
  ASSUME NEW j, NEW rw, Doing(j, rw), NEW r \in DOMAIN rw
  PROVE  LET n == Done(j, rw)
             st == Sends(j, rw)
         IN  /\ r \notin DOMAIN st.puts => Sees(n, rw)[r] = Sees(j, rw)[r]
             /\ r \in DOMAIN st.puts => Sees(n, rw)[r] \in {st.puts[r], Sees(j, rw)[r]}
             /\ r \in DOMAIN st.puts /\ Owns(n, r) => Sees(n, rw)[r] = st.puts[r]
<1> DEFINE n == Done(j, rw)
           st == Sends(j, rw)
           v == Sees(j, rw)
           u == Sees(n, rw)
<1>1. /\ \A q : q \in Drafts(j) => v[q] = j.wrote[q]
      /\ \A q : q \in DOMAIN rw /\ q \notin Drafts(j) => v[q] = rw[q]
  BY SeesDraft, SeesRow
<1>2. /\ \A q : q \in Drafts(n) => u[q] = n.wrote[q]
      /\ \A q : q \in DOMAIN rw /\ q \notin Drafts(n) => u[q] = rw[q]
  BY SeesDraft, SeesRow
<1>3. /\ r \in Drafts(n) => \/ r \in DOMAIN st.puts /\ n.wrote[r] = st.puts[r]
                            \/ r \in Drafts(j) /\ n.wrote[r] = j.wrote[r]
      /\ r \in Drafts(j) => r \in Drafts(n)
      /\ r \in DOMAIN st.puts /\ Owns(n, r) => r \in Drafts(n) /\ n.wrote[r] = st.puts[r]
      /\ r \in Drafts(j) /\ r \notin DOMAIN st.puts => n.wrote[r] = j.wrote[r]
  BY DoneDrafts
<1> SUFFICES /\ r \notin DOMAIN st.puts => u[r] = v[r]
             /\ r \in DOMAIN st.puts => u[r] \in {st.puts[r], v[r]}
             /\ r \in DOMAIN st.puts /\ Owns(n, r) => u[r] = st.puts[r]
  OBVIOUS
<1> HIDE DEF n, st, v, u
<1> QED BY <1>1, <1>2, <1>3

(* A row both asked for and found is locked.                               *)
LEMMA OnlyOwned ==
  ASSUME NEW j, NEW rw, Doing(j, rw), NEW q, Only(j.op, j.pc, j.seen, q),
         q \in DOMAIN Sends(j, rw).takes, Sends(j, rw).takes[q] \in {NoKeyUpdate, Update},
         Sees(j, rw)[q] # None
  PROVE  Owns(Done(j, rw), q) /\ Holds(Done(j, rw), q, Sends(j, rw).takes[q])
<1>1. Gained(j, rw, q, Sends(j, rw).takes[q]) BY DEF Gained
<1>2. Holds(Done(j, rw), q, Sends(j, rw).takes[q]) BY <1>1, OnlyHeld
<1> QED BY <1>2 DEF Owns, Holds

LEMMA DoneReopening ==
  ASSUME NEW j, NEW rw, Doing(j, rw), ~Sends(j, rw).stop
  PROVE  Reopening(Done(j, rw), rw)
<1> DEFINE n == Done(j, rw)
           st == Sends(j, rw)
           v == Sees(j, rw)
           c == j.op.class
<1>1. n.op = j.op /\ n.pc = j.pc + 1 /\ j.pc \in 1 .. Lengths[j.op.does]
  BY DoneFields, DoingFits DEF FitSt
<1>2. /\ \A r, m : Holds(j, r, m) => Holds(n, r, m)
      /\ \A r : Owns(j, r) => Owns(n, r)
  BY DoneHolds
<1>a. \A r : r \in DOMAIN st.puts /\ Owns(n, r) => r \in Drafts(n)
  BY DoneDrafts
<1>3. \A r : r \in DOMAIN rw /\ r \notin Drafts(j) => v[r] = rw[r] BY SeesRow
<1>4. Reopening(j, rw) /\ OpTyped(j.op) /\ RowsTyped(rw) /\ Linkful(rw) /\ Locking(j, rw)
  BY DEF Doing, Good, Typed, Sound
<1>6. n.seen.filed = IF "filed" \in DOMAIN st.notes THEN st.notes.filed ELSE j.seen.filed
  BY DoneSeen
<1>b. NotesOK(j.op, j.pc, st.notes) BY DoingFits DEF FitSt, Shape
<1>c. \A q : (/\ Only(j.op, j.pc, j.seen, q) /\ q \in DOMAIN st.takes
              /\ st.takes[q] \in {NoKeyUpdate, Update} /\ v[q] # None)
             => Holds(n, q, st.takes[q])
  BY OnlyOwned
<1> SUFFICES ASSUME j.op.does = "Reopen" PROVE Reopening(n, rw)
  BY <1>1 DEF Reopening
<1>7. c \in Class /\ Lengths[j.op.does] = 5 /\ j.pc \in 1 .. 5
  BY <1>1, <1>4 DEF OpTyped, Lengths
<1> DEFINE S == Statements(j.op, v, j.seen)
           gone == v[Owed(c)] = None
           filed == IsFiled(v)
<1>8. /\ S[1] = StopIf(gone, Reads)
      /\ S[2] = Keeping([filed |-> filed], Locks({Link}, Update))
      /\ S[5] = Ends(Writes(Restored(v, j.seen)))
  <2>1. /\ Len(S) = 5 /\ S[1] = StopIf(v[Owed(c)] = None, Reads)
        /\ S[2] = Keeping([filed |-> IsFiled(v)], Locks({Link}, Update))
        /\ S[3] = Locks({Owed(c)}, Update)
        /\ S[4] = StopIf(Closed(v, c) = {}, Writes([r \in Closed(v, c) |-> "open"]))
        /\ S[5] = Ends(Writes(Restored(v, j.seen)))
    BY ReopenIs
  <2> QED BY <2>1
<1>9. st = S[j.pc] BY DEF Sends
<1> HIDE DEF S, gone, filed
<1>10. RowsTyped(v) BY DoingFits DEF FitSt
<1>11. v[Link] = rw[Link]
  <2>1. Link \notin Drafts(j)
    <3>1. AtTheEnd(j.op, Link) BY DEF AtTheEnd
    <3> QED BY <3>1, <1>7 DEF Doing, Good, Drafting
  <2> QED BY <2>1, <1>3, <1>4, RowsAre DEF RowsTyped
<1>12. ~st.stop OBVIOUS
<1> HIDE DEF n, st, v
<1>13. CASE j.pc = 1
  <2>1. st = StopIf(gone, Reads) BY <1>8, <1>9, <1>13
  <2>2. ~gone BY <2>1, <1>12 DEF StopIf, Reads
  <2>3. rw[Owed(c)] # None
    <3>1. CASE Owed(c) \in Drafts(j)
      <4>1. PICK m : Holds(j, Owed(c), m)
        BY <3>1, <1>4, RowTags DEF Locking, Personal, Owns, Holds
      <4> QED BY <4>1, <1>4, RowTags DEF Locking, Personal, LockFits, Creates
    <3>2. CASE Owed(c) \notin Drafts(j)
      BY <3>2, <2>2, <1>3, <1>4, <1>7, RowsAre DEF RowsTyped, gone
    <3> QED BY <3>1, <3>2
  <2>4. ~n.seen.filed
    <3>1. n.seen.filed = j.seen.filed BY <1>6, <1>b, <1>13 DEF NotesOK, Does
    <3> QED BY <3>1, <1>4, <1>13 DEF Reopening
  <2> QED BY <2>3, <2>4, <1>1, <1>13 DEF Reopening
<1>14. CASE j.pc = 2
  <2>1. st = Keeping([filed |-> filed], Locks({Link}, Update)) BY <1>8, <1>9, <1>14
  <2>2. st.takes = [r \in {Link} |-> Update] /\ n.seen.filed = filed
    BY <2>1, <1>6 DEF Keeping, Locks, Reads
  <2>3. rw[Link] # None => HasLink(n, rw)
    <3> SUFFICES ASSUME rw[Link] # None PROVE HasLink(n, rw) OBVIOUS
    <3>1. Only(j.op, j.pc, j.seen, Link) BY <1>14 DEF Only, Does
    <3>2. Link \in DOMAIN st.takes /\ st.takes[Link] = Update BY <2>2
    <3> QED BY <3>1, <3>2, <1>11, <1>c DEF HasLink
  <2>4. rw[Link] = None => ~filed BY <1>11 DEF filed, IsFiled
  <2>5. rw[Link] # None => filed = rw[Link].filed BY <1>11 DEF filed, IsFiled
  <2>6. rw[Owed(c)] # None BY <1>4, <1>14 DEF Reopening
  <2>7. rw[Link] = None /\ "Unlink" \notin scope.does => rw[Student] = "erased"
    BY <2>6, <1>4, <1>7 DEF Linkful
  <2> QED BY <2>2, <2>3, <2>4, <2>5, <2>6, <2>7, <1>1, <1>14 DEF Reopening
<1>15. CASE j.pc > 2
  <2>1. n.seen.filed = j.seen.filed BY <1>6, <1>b, <1>15 DEF NotesOK, Does
  <2>2. HasLink(j, rw) => HasLink(n, rw) BY <1>2 DEF HasLink
  <2>3. j.pc = 5 /\ j.seen.filed => Link \in Drafts(n)
    <3> SUFFICES ASSUME j.pc = 5, j.seen.filed PROVE Link \in Drafts(n) OBVIOUS
    <3>1. st = Ends(Writes(Restored(v, j.seen))) BY <1>8, <1>9
    <3>2. st.puts = Restored(v, j.seen) BY <3>1 DEF Ends, Writes, Locks, Reads
    <3>3. Link \in DOMAIN Restored(v, j.seen) BY DEF Restored
    <3>4. Owns(j, Link) BY <1>4 DEF Reopening, HasLink, Owns, Holds
    <3> QED BY <3>2, <3>3, <3>4, <1>2, <1>a
  <2> QED BY <2>1, <2>2, <2>3, <1>1, <1>4, <1>7, <1>15 DEF Reopening
<1> QED BY <1>7, <1>13, <1>14, <1>15

LEMMA DoneArchiving ==
  ASSUME NEW j, NEW rw, Doing(j, rw), ~Sends(j, rw).stop
  PROVE  Archiving(Done(j, rw), rw)
<1> DEFINE n == Done(j, rw)
           st == Sends(j, rw)
           v == Sees(j, rw)
           u == Sees(n, rw)
<1>1. n.op = j.op /\ n.pc = j.pc + 1 /\ j.pc \in 1 .. Lengths[j.op.does] /\ DOMAIN n.wants = {}
  BY DoneFields, DoingFits DEF FitSt
<1>2. /\ \A r, m : Holds(j, r, m) => Holds(n, r, m)
      /\ \A r : Owns(j, r) => Owns(n, r)
  BY DoneHolds
<1>a. \A r, m : Gained(j, rw, r, m) /\ r \in Asked(j, v, st) => Holds(n, r, m) BY DoneGains
<1>3. \A r : r \in DOMAIN rw /\ r \notin Drafts(j) => v[r] = rw[r] BY SeesRow
<1>4. Archiving(j, rw) /\ RowsTyped(rw) /\ Drafting(j)
  BY DEF Doing, Good, Sound
<1>d. \A r \in DOMAIN rw :
         /\ r \notin DOMAIN st.puts => u[r] = v[r]
         /\ r \in DOMAIN st.puts => u[r] \in {st.puts[r], v[r]}
         /\ r \in DOMAIN st.puts /\ Owns(n, r) => u[r] = st.puts[r]
  BY DoneSees
<1>5. ASSUME NEW c \in Class
      PROVE  /\ Owed(c) \notin DOMAIN st.puts => u[Owed(c)] = v[Owed(c)]
             /\ Owed(c) \in DOMAIN st.puts /\ Owns(n, Owed(c)) => u[Owed(c)] = st.puts[Owed(c)]
  <2>1. Owed(c) \in DOMAIN rw BY RowsAre DEF Doing, Sound, RowsTyped
  <2> HIDE DEF n, st, u, v
  <2> QED BY <2>1, <1>d
<1>6. n.seen.billed = IF "billed" \in DOMAIN st.notes THEN st.notes.billed ELSE j.seen.billed
  BY DoneSeen
<1>b. NotesOK(j.op, j.pc, st.notes) BY DoingFits DEF FitSt, Shape
<1>c. \A q : (/\ Only(j.op, j.pc, j.seen, q) /\ q \in DOMAIN st.takes
              /\ st.takes[q] \in {NoKeyUpdate, Update} /\ v[q] # None)
             => Holds(n, q, st.takes[q])
  BY OnlyOwned
<1> SUFFICES ASSUME j.op.does = "Archive" PROVE Archiving(n, rw)
  BY <1>1 DEF Archiving
<1>7. Lengths[j.op.does] = 5 /\ j.pc \in 1 .. 5
  BY <1>1 DEF Lengths
<1> DEFINE S == Statements(j.op, v, j.seen)
           gone == v[Link] = None \/ IsFiled(v)
           busy == LiveIn(v) # {}
           owing == OpenIn(v) # {} /\ ~j.op.waive
           moved == ~(j.seen.billed \subseteq OpenIn(v))
<1>8. /\ S[1] = StopIf(gone, Locks({Link}, Update)) /\ S[2] = StopIf(busy, Reads)
      /\ S[3] = Keeping([billed |-> OpenIn(v)], StopIf(owing, Reads))
      /\ S[4] = StopIf(moved, Writes(Waived(v, j.seen)))
      /\ S[5] = Ends(Writes(Marked(v, TRUE)))
  <2>1. /\ Len(S) = 5
        /\ S[1] = StopIf(v[Link] = None \/ IsFiled(v), Locks({Link}, Update))
        /\ S[2] = StopIf(LiveIn(v) # {}, Reads)
        /\ S[3] = Keeping([billed |-> OpenIn(v)], StopIf(OpenIn(v) # {} /\ ~j.op.waive, Reads))
        /\ S[4] = StopIf(~(j.seen.billed \subseteq OpenIn(v)), Writes(Waived(v, j.seen)))
        /\ S[5] = Ends(Writes(Marked(v, TRUE)))
    BY ArchiveIs
  <2> QED BY <2>1
<1>9. st = S[j.pc] BY DEF Sends
<1> HIDE DEF S, gone, busy, owing, moved
<1>10. RowsTyped(v) BY DoingFits DEF FitSt
<1>11. v[Link] = rw[Link]
  <2>1. Link \notin Drafts(j)
    <3>1. AtTheEnd(j.op, Link) BY DEF AtTheEnd
    <3> QED BY <3>1, <1>7 DEF Doing, Good, Drafting
  <2> QED BY <2>1, <1>3, <1>4, RowsAre DEF RowsTyped
<1>12. ~st.stop OBVIOUS
<1>13. HasLink(j, rw) => HasLink(n, rw) BY <1>2 DEF HasLink
<1>14. \A c \in Class : v[Booking(c)] = rw[Booking(c)] /\ v[Course(c)] = rw[Course(c)]
  <2> SUFFICES ASSUME NEW c \in Class
               PROVE  v[Booking(c)] = rw[Booking(c)] /\ v[Course(c)] = rw[Course(c)]
    OBVIOUS
  <2>1. Booking(c) \notin Drafts(j) /\ Course(c) \notin Drafts(j)
    BY <1>4, RowTags DEF Drafting, Allowed
  <2> QED BY <2>1, <1>3, <1>4, RowsAre DEF RowsTyped
<1>16. \A c \in Class : Separate /\ j.pc > 2 => ~Live(rw, c) BY <1>4 DEF Archiving
<1> HIDE DEF n, st, v, u
<1>17. CASE j.pc = 1
  <2>1. st = StopIf(gone, Locks({Link}, Update)) BY <1>8, <1>9, <1>17
  <2>2. ~gone /\ st.takes = [r \in {Link} |-> Update]
    BY <2>1, <1>12 DEF StopIf, Locks, Reads
  <2>3. v[Link] # None /\ ~IsFiled(v) BY <2>2 DEF gone
  <2>4. Only(j.op, j.pc, j.seen, Link) BY <1>17 DEF Only, Does
  <2>5. Link \in DOMAIN st.takes /\ st.takes[Link] = Update BY <2>2
  <2>6. Holds(n, Link, Update) BY <2>3, <2>4, <2>5, <1>c
  <2>7. rw[Link].filed = FALSE
    BY <2>3, <1>11, <1>4 DEF IsFiled, RowsTyped, LinkRow
  <2> QED BY <2>3, <2>6, <2>7, <1>1, <1>11, <1>17 DEF Archiving, HasLink
<1>18. CASE j.pc = 2
  <2>1. st = StopIf(busy, Reads) BY <1>8, <1>9, <1>18
  <2>2. ~busy BY <2>1, <1>12 DEF StopIf, Reads
  <2>3. \A c \in Class : ~Live(rw, c) BY <2>2, <1>14 DEF busy, LiveIn, Live
  <2> QED BY <2>3, <1>1, <1>4, <1>13, <1>18 DEF Archiving
<1>19. CASE j.pc = 3
  <2>1. st = Keeping([billed |-> OpenIn(v)], StopIf(owing, Reads)) BY <1>8, <1>9, <1>19
  <2>2. DOMAIN st.puts = {} /\ n.seen.billed = OpenIn(v)
    BY <2>1, <1>6 DEF Keeping, StopIf, Reads, Nothing
  <2>3. \A c \in Class : u[Owed(c)] = "open" => Owed(c) \in n.seen.billed
    BY <2>2, <1>5 DEF OpenIn
  <2> QED BY <2>3, <1>1, <1>4, <1>13, <1>16, <1>19 DEF Archiving, u
<1>20. CASE j.pc = 4
  <2>1. st = StopIf(moved, Writes(Waived(v, j.seen))) BY <1>8, <1>9, <1>20
  <2>2. /\ ~moved /\ st.puts = Waived(v, j.seen)
        /\ st.takes = [r \in DOMAIN Waived(v, j.seen) |-> NoKeyUpdate]
    BY <2>1, <1>12 DEF StopIf, Writes, Locks, Reads
  <2>3. ASSUME Separate, NEW c \in Class PROVE u[Owed(c)] # "open"
    <3>1. CASE v[Owed(c)] = "open"
      <4>1. /\ Owed(c) \in j.seen.billed
            /\ DOMAIN j.wants # {} => Owed(c) \in DOMAIN j.wants \/ Owns(j, Owed(c))
        BY <3>1, <2>3, <1>4, <1>20 DEF Archiving, v
      <4>2. Owed(c) \in DOMAIN Waived(v, j.seen) /\ Waived(v, j.seen)[Owed(c)] = "waived"
        BY <3>1, <4>1 DEF Waived, OpenIn
      <4>3. v[Owed(c)] # None BY <3>1, NoneIs DEF Words
      <4>4. Gained(j, rw, Owed(c), NoKeyUpdate) BY <2>2, <4>2, <4>3 DEF Gained, st, v
      <4>5. Owed(c) \in WantedRows(v, st) BY <2>2, <4>2, <4>3 DEF WantedRows
      <4>6. Owed(c) \in Asked(j, v, st) \/ Owns(j, Owed(c))
        BY <4>1, <4>5 DEF Asked
      <4>7. Owns(n, Owed(c)) BY <4>4, <4>6, <1>2, <1>a DEF Owns, Holds
      <4> QED BY <4>2, <4>7, <2>2, <1>5
    <3>2. CASE v[Owed(c)] # "open"
      <4>1. Owed(c) \notin DOMAIN Waived(v, j.seen)
        BY <3>2, RowTags DEF Waived, OpenIn
      <4> QED BY <4>1, <3>2, <2>2, <1>5
    <3> QED BY <3>1, <3>2
  <2> QED BY <2>3, <1>1, <1>4, <1>13, <1>16, <1>20 DEF Archiving, u
<1>21. CASE j.pc = 5
  <2>1. st = Ends(Writes(Marked(v, TRUE))) BY <1>8, <1>9, <1>21
  <2>2. st.puts = Marked(v, TRUE) BY <2>1 DEF Ends, Writes, Locks, Reads
  <2>3. \A c : Owed(c) \notin DOMAIN Marked(v, TRUE) BY RowTags DEF Marked, Existing
  <2>4. \A c \in Class : u[Owed(c)] = v[Owed(c)] BY <2>2, <2>3, <1>5
  <2>5. \A c \in Class : Separate => v[Owed(c)] # "open" BY <1>4, <1>21 DEF Archiving, v
  <2> QED BY <2>4, <2>5, <1>1, <1>4, <1>13, <1>16, <1>21 DEF Archiving, u
<1> QED BY <1>7, <1>17, <1>18, <1>19, <1>20, <1>21

-------------------------------------------------------------------------------
(* The erasure, as far as the queue entries and the places in classes go.  *)
LEMMA EraseSees ==
  ASSUME NEW j, NEW rw, Doing(j, rw), j.op.does = "Erase"
  PROVE  LET v == Sees(j, rw)
             u == Sees(Done(j, rw), rw)
         IN  /\ \A c \in Class : /\ u[Queued(c)] # None => v[Queued(c)] # None
                                 /\ Live(u, c) => Live(v, c)
             /\ v[Privacy] = None => u[Privacy] = None
             /\ v[Link] = None => u[Link] = None
<1> DEFINE n == Done(j, rw)
           st == Sends(j, rw)
           v == Sees(j, rw)
           u == Sees(n, rw)
<1>1. \A r \in DOMAIN rw :
         /\ r \notin DOMAIN st.puts => u[r] = v[r]
         /\ r \in DOMAIN st.puts => u[r] \in {st.puts[r], v[r]}
         /\ r \in DOMAIN st.puts /\ Owns(n, r) => u[r] = st.puts[r]
  BY DoneSees
<1>2. DOMAIN rw = Rows BY DEF Doing, Sound, RowsTyped
<1>3. Puts(j.op, j.pc, v, st) BY DoingFits DEF FitSt, Fit
<1>4. \A r \in Rows : u[r] = v[r] \/ Allowed(j.op, r, u[r])
  BY <1>1, <1>2, <1>3 DEF Puts, MayPut
<1> HIDE DEF n, st, v, u
<1>5. ASSUME NEW c \in Class, u[Queued(c)] # None PROVE v[Queued(c)] # None
  <2>1. Queued(c) \in Rows /\ Queued(c)[1] = "queue" BY RowsAre, RowTags
  <2> QED BY <2>1, <1>4, <1>5 DEF Allowed
<1>6. ASSUME NEW c \in Class, Live(u, c) PROVE Live(v, c)
  <2>1. /\ Booking(c) \in Rows /\ Booking(c)[1] = "registration"
        /\ Course(c) \in Rows /\ Course(c)[1] = "class"
    BY RowsAre, RowTags
  <2>2. u[Booking(c)] = v[Booking(c)] BY <2>1, <1>4, <1>6 DEF Allowed, Live
  <2>3. u[Course(c)] = v[Course(c)] BY <2>1, <1>4, <1>6 DEF Allowed, Live
  <2> QED BY <2>2, <2>3, <1>6 DEF Live
<1>7. v[Privacy] = None => u[Privacy] = None
  <2>1. Privacy \in Rows BY RowsAre
  <2>2. u[Privacy] = v[Privacy] \/ Allowed(j.op, Privacy, u[Privacy]) BY <2>1, <1>4
  <2> QED BY <2>2 DEF Allowed
<1>8. v[Link] = None => u[Link] = None
  <2>1. Link \in Rows BY RowsAre
  <2>2. u[Link] = v[Link] \/ Allowed(j.op, Link, u[Link]) BY <2>1, <1>4
  <2> QED BY <2>2 DEF Allowed
<1> QED BY <1>5, <1>6, <1>7, <1>8 DEF n, v, u

(* The row a deletion is about is gone after it.                           *)
LEMMA DeleteGone ==
  ASSUME NEW j, NEW rw, Doing(j, rw), NEW r \in Rows, Sends(j, rw) = Deletes({r}),
         Only(j.op, j.pc, j.seen, r)
  PROVE  Sees(Done(j, rw), rw)[r] = None
<1> DEFINE n == Done(j, rw)
           st == Sends(j, rw)
           v == Sees(j, rw)
           u == Sees(n, rw)
<1>1. /\ r \in DOMAIN st.puts => u[r] \in {st.puts[r], v[r]}
      /\ r \in DOMAIN st.puts /\ Owns(n, r) => u[r] = st.puts[r]
  <2>1. r \in DOMAIN rw BY DEF Doing, Sound, RowsTyped
  <2> QED BY <2>1, DoneSees
<1>2. st.takes = [q \in {r} |-> Update] /\ st.puts = [q \in {r} |-> None]
  BY DEF Deletes, Locks, Reads
<1>3. v[r] # None => Owns(n, r) BY <1>2, OnlyOwned
<1> HIDE DEF n, st, v, u
<1>4. u[r] = None BY <1>1, <1>2, <1>3
<1> QED BY <1>4 DEF n, u

LEMMA DoneErasing ==
  ASSUME NEW j, NEW rw, Doing(j, rw), ~Sends(j, rw).stop
  PROVE  Erasing(Done(j, rw), rw)
<1> DEFINE n == Done(j, rw)
           st == Sends(j, rw)
           v == Sees(j, rw)
           u == Sees(n, rw)
<1>1. n.op = j.op /\ n.pc = j.pc + 1 /\ j.pc \in 1 .. Lengths[j.op.does] /\ DOMAIN n.wants = {}
  BY DoneFields, DoingFits DEF FitSt
<1>2. /\ \A r, m : Holds(j, r, m) => Holds(n, r, m)
      /\ \A r : Owns(j, r) => Owns(n, r)
  BY DoneHolds
<1>a. \A r, m : Gained(j, rw, r, m) /\ r \in Asked(j, v, st) => Holds(n, r, m) BY DoneGains
<1>3. Erasing(j, rw) /\ RowsTyped(rw) BY DEF Doing, Good, Sound
<1>b. /\ \A r : r \in Drafts(j) => r \in Drafts(n)
      /\ \A r : r \in DOMAIN st.puts /\ Owns(n, r) => r \in Drafts(n)
  BY DoneDrafts
<1>4. n.seen.queues = IF "queues" \in DOMAIN st.notes THEN st.notes.queues ELSE j.seen.queues
  BY DoneSeen
<1>5. NotesOK(j.op, j.pc, st.notes) /\ RowsTyped(v) BY DoingFits DEF FitSt, Shape
<1> SUFFICES ASSUME j.op.does = "Erase" PROVE Erasing(n, rw)
  BY <1>1 DEF Erasing
<1>6. /\ \A c \in Class : /\ u[Queued(c)] # None => v[Queued(c)] # None
                          /\ Live(u, c) => Live(v, c)
      /\ v[Privacy] = None => u[Privacy] = None
      /\ v[Link] = None => u[Link] = None
  BY EraseSees
<1>7. Lengths[j.op.does] = 12 /\ j.pc \in 1 .. 12
  BY <1>1 DEF Lengths
<1> DEFINE S == Erase(v, j.seen)
<1>8. st = S[j.pc]
  <2>1. Statements(j.op, v, j.seen) = S BY EraseIs
  <2> QED BY <2>1 DEF Sends
<1>9. /\ S[1] = Locks({Student}, NoKeyUpdate) /\ S[2] = Keeping([queues |-> InQueue(v)], Reads)
      /\ S[4] = Writes(CancelledIn(v)) /\ S[5] = Deletes({Privacy}) /\ S[6] = Deletes({Link})
  BY EraseStarts, ZenonT(60)
<1> DEFINE gone == v[Student] = "erased"
           queued == InQueue(v) # {}
<1>10. S[10] = StopIf(gone, Erasure) /\ S[11] = StopIf(queued, Reads)
  <2>1. /\ S[7] = Deletes(QueuesOf(j.seen))
        /\ S[8] = Also(FreedIn(v), Writes(ScrubbedIn(v)))
        /\ S[9] = Writes(Untold(v))
        /\ S[10] = StopIf(v[Student] = "erased", Erasure)
        /\ S[11] = StopIf(InQueue(v) # {}, Reads)
        /\ S[12] = Ends(Reads)
    BY EraseEnds
  <2> QED BY <2>1
<1>11. ~st.stop OBVIOUS
<1>12. Privacy \in Rows /\ Link \in Rows BY RowsAre
<1>13. j.pc = 5 => u[Privacy] = None
  <2> SUFFICES ASSUME j.pc = 5 PROVE u[Privacy] = None OBVIOUS
  <2>1. st = Deletes({Privacy}) BY <1>8, <1>9
  <2>2. Only(j.op, j.pc, j.seen, Privacy) BY DEF Only, Does
  <2> QED BY <2>1, <2>2, <1>12, DeleteGone
<1>14. j.pc = 6 => u[Link] = None
  <2> SUFFICES ASSUME j.pc = 6 PROVE u[Link] = None OBVIOUS
  <2>1. st = Deletes({Link}) BY <1>8, <1>9
  <2>2. Only(j.op, j.pc, j.seen, Link) BY DEF Only, Does
  <2> QED BY <2>1, <2>2, <1>12, DeleteGone
<1>15. j.pc = 1 => Holds(n, Student, NoKeyUpdate)
  <2> SUFFICES ASSUME j.pc = 1 PROVE Holds(n, Student, NoKeyUpdate) OBVIOUS
  <2>1. st = Locks({Student}, NoKeyUpdate) BY <1>8, <1>9
  <2>2. st.takes = [r \in {Student} |-> NoKeyUpdate] BY <2>1 DEF Locks, Reads
  <2>3. Only(j.op, j.pc, j.seen, Student) BY DEF Only, Does
  <2>4. v[Student] # None BY <1>5, NoneIs DEF RowsTyped, Words
  <2> QED BY <2>2, <2>3, <2>4, OnlyOwned
<1>16. j.pc = 4 => \A c \in Class : ~Live(u, c)
  <2> SUFFICES ASSUME j.pc = 4, NEW c \in Class, Live(u, c) PROVE FALSE OBVIOUS
  <2>1. st = Writes(CancelledIn(v)) BY <1>8, <1>9
  <2>2. st.puts = CancelledIn(v) /\ st.takes = [r \in DOMAIN CancelledIn(v) |-> NoKeyUpdate]
    BY <2>1 DEF Writes, Locks, Reads
  <2>3. Live(v, c) BY <1>6
  <2>4. Booking(c) \in DOMAIN CancelledIn(v) /\ CancelledIn(v)[Booking(c)] = "cancelled"
    BY <2>3 DEF CancelledIn, LiveIn, Live
  <2>5. v[Booking(c)] # None BY <2>3, NoneIs DEF Live, Words
  <2>6. Gained(j, rw, Booking(c), NoKeyUpdate) BY <2>2, <2>4, <2>5 DEF Gained
  <2>7. Booking(c) \in WantedRows(v, st) BY <2>2, <2>4, <2>5 DEF WantedRows
  <2>8. DOMAIN j.wants # {} => Booking(c) \in DOMAIN j.wants \/ Owns(j, Booking(c))
    BY <2>3, <1>3 DEF Erasing
  <2>9. Booking(c) \in Asked(j, v, st) \/ Owns(j, Booking(c)) BY <2>7, <2>8 DEF Asked
  <2>10. Owns(n, Booking(c)) BY <2>6, <2>9, <1>2, <1>a DEF Owns, Holds
  <2>11. Booking(c) \in DOMAIN rw BY <1>3, RowsAre DEF RowsTyped
  <2>12. u[Booking(c)] = st.puts[Booking(c)] BY <2>2, <2>4, <2>10, <2>11, DoneSees
  <2> QED BY <2>2, <2>4, <2>12 DEF Live
<1> HIDE DEF S, gone, queued, n, st, v, u
<1>17. j.pc = 10 => Student \in Drafts(n)
  <2> SUFFICES ASSUME j.pc = 10 PROVE Student \in Drafts(n) OBVIOUS
  <2>1. st = StopIf(gone, Erasure) BY <1>8, <1>10
  <2>2. Student \in DOMAIN st.puts BY <2>1 DEF StopIf, Erasure, Locks, Reads
  <2>3. Owns(j, Student) BY <1>3 DEF Erasing, Owns, Holds
  <2> QED BY <2>2, <2>3, <1>2, <1>b
<1>18. j.pc = 11 => \A c \in Class : v[Queued(c)] = None
  <2> SUFFICES ASSUME j.pc = 11, NEW c \in Class PROVE v[Queued(c)] = None OBVIOUS
  <2>1. st = StopIf(queued, Reads) BY <1>8, <1>10
  <2>2. ~queued BY <2>1, <1>11 DEF StopIf, Reads
  <2> QED BY <2>2 DEF queued, InQueue
<1>19. ASSUME NEW c \in Class, n.pc > 2, u[Queued(c)] # None PROVE c \in n.seen.queues
  <2>1. v[Queued(c)] # None BY <1>6, <1>19
  <2>2. CASE j.pc = 2
    <3>1. st = Keeping([queues |-> InQueue(v)], Reads) BY <1>8, <1>9, <2>2
    <3>2. n.seen.queues = InQueue(v) BY <3>1, <1>4 DEF Keeping, Reads
    <3> QED BY <3>2, <2>1 DEF InQueue
  <2>3. CASE j.pc # 2
    <3>1. j.pc > 2 BY <2>3, <1>1, <1>7, <1>19
    <3>2. n.seen.queues = j.seen.queues BY <2>3, <1>4, <1>5 DEF NotesOK, Does
    <3> QED BY <3>1, <3>2, <2>1, <1>3 DEF Erasing, v
  <2> QED BY <2>2, <2>3
<1>20. ASSUME NEW c \in Class
       PROVE  /\ n.pc > 2 /\ u[Queued(c)] # None => c \in n.seen.queues
              /\ n.pc = 4 /\ DOMAIN n.wants # {} /\ Live(u, c) =>
                   Booking(c) \in DOMAIN n.wants \/ Owns(n, Booking(c))
              /\ n.pc > 4 => ~Live(u, c)
              /\ n.pc > 11 => u[Queued(c)] = None
  <2>1. n.pc > 4 => ~Live(u, c)
    <3>1. CASE j.pc = 4 BY <3>1, <1>16
    <3>2. CASE j.pc > 4 BY <3>2, <1>3, <1>6 DEF Erasing, v
    <3> QED BY <3>1, <3>2, <1>1, <1>7
  <2>2. n.pc > 11 => u[Queued(c)] = None
    <3>1. CASE j.pc = 11 BY <3>1, <1>18, <1>6
    <3>2. CASE j.pc > 11 BY <3>2, <1>3, <1>6 DEF Erasing, v
    <3> QED BY <3>1, <3>2, <1>1, <1>7
  <2> QED BY <2>1, <2>2, <1>1, <1>19
<1>21. n.pc > 1 => Holds(n, Student, NoKeyUpdate)
  BY <1>1, <1>2, <1>3, <1>7, <1>15 DEF Erasing
<1>22. n.pc > 5 => u[Privacy] = None
  BY <1>1, <1>3, <1>6, <1>7, <1>13 DEF Erasing, v
<1>23. n.pc > 6 => u[Link] = None
  BY <1>1, <1>3, <1>6, <1>7, <1>14 DEF Erasing, v
<1>24. n.pc > 10 => Student \in Drafts(n)
  BY <1>1, <1>3, <1>7, <1>17, <1>b DEF Erasing
<1> QED BY <1>20, <1>21, <1>22, <1>23, <1>24 DEF Erasing, u

(* A statement that does not make its caller give up leaves a good request *)
(* good.                                                                   *)
LEMMA DoneGood ==
  ASSUME NEW j, NEW rw, Doing(j, rw), ~Sends(j, rw).stop
  PROVE  Good(Done(j, rw), rw)
  BY DoneTyped, DoneLocking, DoneDrafting, DoneGated, DoneSorting, DonePromoting, DoneCompleting,
     DoneReopening, DoneArchiving, DoneErasing DEF Good

-------------------------------------------------------------------------------
(* A request that queues for its rows, or has just got one of several.     *)

LEMMA QueueHolds ==
  ASSUME NEW j, NEW rw, Doing(j, rw), NEW k, Queues(j, rw, k)
  PROVE  /\ \A r, m : Holds(j, r, m) => Holds(k, r, m)
         /\ \A r, m : Holds(k, r, m) =>
              \/ Holds(j, r, m)
              \/ Gained(j, rw, r, m) /\ Sends(j, rw).takes[r] # Insert
<1> DEFINE v == Sees(j, rw)
           st == Sends(j, rw)
<1>1. \A r, m : Holds(j, r, m) => Holds(k, r, m) BY DEF Queues, Holds
<1>2. ASSUME NEW r, NEW m, Holds(k, r, m), ~Holds(j, r, m)
      PROVE  Gained(j, rw, r, m) /\ st.takes[r] # Insert
  <2>1. PICK q \in DOMAIN j.wants : /\ k.locks = j.locks \cup Gain(v, st, q)
                                    /\ DOMAIN k.wants = DOMAIN j.wants \ {q}
                                    /\ DOMAIN k.wants # {}
    BY <1>2 DEF Queues, Holds
  <2>2. <<r, m>> \in Gain(v, st, q) BY <2>1, <1>2 DEF Holds
  <2>3. r = q /\ Gained(j, rw, r, m) BY <2>2, GainIs DEF Gained
  <2>4. st.takes[r] # Insert
    <3> SUFFICES ASSUME st.takes[r] = Insert PROVE FALSE OBVIOUS
    <3>1. Only(j.op, j.pc, j.seen, r) BY <2>3, DoingFits DEF FitSt, Shape, Gained
    <3>2. DOMAIN j.wants \subseteq {r} BY <3>1 DEF Doing, Good, Queueing
    <3> QED BY <3>2, <2>1, <2>3
  <2> QED BY <2>3, <2>4
<1> QED BY <1>1, <1>2

LEMMA QueueWants ==
  ASSUME NEW j, NEW rw, Doing(j, rw), NEW k, Queues(j, rw, k), NEW r, NEW m,
         Gained(j, rw, r, m), DOMAIN k.wants # {},
         DOMAIN j.wants # {} => r \in DOMAIN j.wants \/ Holds(j, r, m)
  PROVE  r \in DOMAIN k.wants \/ Holds(k, r, m)
<1> DEFINE v == Sees(j, rw)
           st == Sends(j, rw)
<1>1. r \in WantedRows(v, st) /\ <<r, m>> \in Gain(v, st, r)
  BY DEF Gained, WantedRows, Gain
<1> HIDE DEF v, st
<1>2. \/ k.locks = j.locks /\ DOMAIN j.wants = {} /\ DOMAIN k.wants = WantedRows(v, st)
      \/ k.locks = j.locks /\ DOMAIN k.wants = DOMAIN j.wants
      \/ \E q \in DOMAIN j.wants : /\ k.locks = j.locks \cup Gain(v, st, q)
                                   /\ DOMAIN k.wants = DOMAIN j.wants \ {q}
  BY DEF Queues, v, st
<1> QED BY <1>1, <1>2 DEF Holds

LEMMA QueueTyped ==
  ASSUME NEW j, NEW rw, Doing(j, rw), NEW k, Queues(j, rw, k)
  PROVE  Typed(k) /\ Queueing(k)
<1>1. DOMAIN k = JobFields /\ k.op = j.op /\ k.pc = j.pc /\ k.seen = j.seen BY DEF Queues
<1>2. Typed(k) BY <1>1 DEF Typed, Doing, Good
<1>3. ASSUME NEW q, Only(j.op, j.pc, j.seen, q) PROVE DOMAIN k.wants \subseteq {q}
  <2>1. DOMAIN Sends(j, rw).takes \subseteq {q} BY <1>3, DoingFits DEF FitSt, Shape
  <2>2. WantedRows(Sees(j, rw), Sends(j, rw)) \subseteq {q} BY <2>1 DEF WantedRows
  <2>3. DOMAIN j.wants \subseteq {q} BY <1>3 DEF Doing, Good, Queueing
  <2>4. \/ DOMAIN k.wants = WantedRows(Sees(j, rw), Sends(j, rw))
        \/ DOMAIN k.wants \subseteq DOMAIN j.wants
    BY DEF Queues
  <2> QED BY <2>2, <2>3, <2>4
<1> QED BY <1>1, <1>2, <1>3 DEF Queueing

LEMMA QueueLocking ==
  ASSUME NEW j, NEW rw, Doing(j, rw), NEW k, Queues(j, rw, k)
  PROVE  Locking(k, rw)
<1> DEFINE v == Sees(j, rw)
           st == Sends(j, rw)
<1>1. k.op = j.op /\ Drafts(k) = Drafts(j) BY DEF Queues, Drafts
<1>2. /\ \A r, m : Holds(j, r, m) => Holds(k, r, m)
      /\ \A r, m : Holds(k, r, m) => Holds(j, r, m) \/ (Gained(j, rw, r, m) /\ st.takes[r] # Insert)
  BY QueueHolds
<1>3. Locking(j, rw) BY DEF Doing, Good
<1>4. \A r : r \in DOMAIN rw /\ r \notin Drafts(j) => v[r] = rw[r] BY SeesRow
<1>5. DOMAIN rw = Rows BY DEF Doing, Sound, RowsTyped
<1>6. Asks(st) BY DoingFits DEF FitSt, Fit
<1>7. ASSUME NEW r, NEW m, Holds(k, r, m), Personal(r) PROVE LockFits(k, rw, r, m)
  <2>1. CASE Holds(j, r, m) BY <2>1, <1>1, <1>3, <1>7 DEF Locking, LockFits
  <2>2. CASE ~Holds(j, r, m)
    <3>1. r \in DOMAIN st.takes /\ v[r] # None /\ m = st.takes[r] /\ m # Insert
      BY <2>2, <1>2, <1>7 DEF Gained
    <3>2. r \in Rows /\ m \in KeyShare .. Update /\ (m = KeyShare => r = Student)
      BY <3>1, <1>6 DEF Asks
    <3>3. CASE r \notin Drafts(j)
      BY <3>1, <3>2, <3>3, <1>4, <1>5 DEF LockFits
    <3>4. CASE r \in Drafts(j)
      <4>1. PICK i : Holds(j, r, i)
        BY <3>4, <1>3, <1>7 DEF Locking, Owns, Holds
      <4>2. rw[r] # None \/ (r \in Drafts(j) /\ Creates(j.op, r))
        BY <4>1, <1>3, <1>7 DEF Locking, LockFits
      <4> QED BY <4>2, <3>2, <1>1 DEF LockFits
    <3> QED BY <3>3, <3>4
  <2> QED BY <2>1, <2>2
<1>8. ASSUME NEW r \in Drafts(k), Personal(r) PROVE Owns(k, r)
  BY <1>1, <1>2, <1>3, <1>8 DEF Locking, Owns, Holds
<1> QED BY <1>7, <1>8 DEF Locking

LEMMA QueueSorting ==
  ASSUME NEW j, NEW rw, Doing(j, rw), NEW k, Queues(j, rw, k)
  PROVE  Sorting(k)
<1> DEFINE v == Sees(j, rw)
           st == Sends(j, rw)
           at == SortedAt[j.op.does]
<1>1. k.op = j.op /\ k.pc = j.pc /\ k.seen = j.seen BY DEF Queues
<1>2. \A r, m : Holds(j, r, m) => Holds(k, r, m) BY QueueHolds
<1>3. Sorting(j) /\ SeenTyped(j.op, j.seen) BY DEF Doing, Good, Typed
<1>4. RowsTyped(v) BY DoingFits DEF FitSt
<1> SUFFICES ASSUME j.op.does \in DOMAIN SortedAt PROVE Sorting(k)
  BY <1>1 DEF Sorting
<1>5. ASSUME j.pc = at, DOMAIN k.wants # {}, NEW c \in j.seen.queues
      PROVE  Course(c) \in DOMAIN k.wants \/ Holds(k, Course(c), Update)
  <2>1. st = LocksInOrder(Courses(j.seen.queues))
    <3> DEFINE S == Statements(j.op, v, j.seen)
    <3>0. st = S[j.pc] BY DEF Sends
    <3>1. CASE j.op.does = "Unlink"
      <4>1. S[4] = LocksInOrder(Courses(j.seen.queues)) BY <3>1, UnlinkSorts
      <4>2. j.pc = 4 BY <3>1, <1>5 DEF SortedAt
      <4> HIDE DEF S, st, v
      <4> QED BY <4>1, <4>2, <3>0
    <3>2. CASE j.op.does = "Erase"
      <4>1. Erase(v, j.seen)[3] = LocksInOrder(Courses(j.seen.queues)) BY EraseStarts
      <4>2. S = Erase(v, j.seen) BY <3>2, EraseIs
      <4>3. j.pc = 3 BY <3>2, <1>5 DEF SortedAt
      <4> HIDE DEF S, st, v
      <4> QED BY <4>1, <4>2, <4>3, <3>0
    <3> QED BY <3>1, <3>2 DEF SortedAt
  <2>2. st.takes = [r \in Courses(j.seen.queues) |-> Update]
    BY <2>1 DEF LocksInOrder, Locks, Reads
  <2>3. c \in Class /\ Course(c) \in DOMAIN st.takes /\ st.takes[Course(c)] = Update
    BY <2>2, <1>3 DEF SeenTyped, Courses
  <2>4. v[Course(c)] # None BY <2>3, <1>4, NoneIs DEF RowsTyped, Words
  <2>5. Gained(j, rw, Course(c), Update) BY <2>3, <2>4 DEF Gained
  <2>6. DOMAIN j.wants # {} => Course(c) \in DOMAIN j.wants \/ Holds(j, Course(c), Update)
    BY <1>3, <1>5 DEF Sorting
  <2> QED BY <2>5, <2>6, <1>5, QueueWants
<1> QED BY <1>1, <1>2, <1>3, <1>5 DEF Sorting

LEMMA ArchiveWaives ==
  ASSUME NEW o, o.does = "Archive", NEW v, NEW seen
  PROVE  Statements(o, v, seen)[4]
           = StopIf(~(seen.billed \subseteq OpenIn(v)), Writes(Waived(v, seen)))
<1>1. Statements(o, v, seen) = Archive(v, seen, o.waive)
  BY Zenon DEF Statements
<1> QED BY <1>1 DEF Archive, Transaction, OpenIn, Waived

LEMMA QueueArchiving ==
  ASSUME NEW j, NEW rw, Doing(j, rw), NEW k, Queues(j, rw, k)
  PROVE  Archiving(k, rw)
<1> DEFINE v == Sees(j, rw)
           st == Sends(j, rw)
<1>1. k.op = j.op /\ k.pc = j.pc /\ k.seen = j.seen /\ Sees(k, rw) = v BY DEF Queues, Sees
<1>2. /\ \A r, m : Holds(j, r, m) => Holds(k, r, m)
      /\ \A r : Owns(j, r) => Owns(k, r)
  BY QueueHolds DEF Owns, Holds
<1>3. Archiving(j, rw) BY DEF Doing, Good
<1> SUFFICES ASSUME j.op.does = "Archive" PROVE Archiving(k, rw)
  BY <1>1 DEF Archiving
<1>4. ASSUME Separate, NEW c \in Class, j.pc = 4, v[Owed(c)] = "open", DOMAIN k.wants # {}
      PROVE  Owed(c) \in DOMAIN k.wants \/ Owns(k, Owed(c))
  <2> DEFINE S == Statements(j.op, v, j.seen)
             moved == ~(j.seen.billed \subseteq OpenIn(v))
  <2>1. S[4] = StopIf(moved, Writes(Waived(v, j.seen)))
    BY ArchiveWaives
  <2>2. st = S[j.pc] BY DEF Sends
  <2> HIDE DEF S, moved
  <2>3. st.takes = [r \in DOMAIN Waived(v, j.seen) |-> NoKeyUpdate]
    <3>1. st = StopIf(moved, Writes(Waived(v, j.seen))) BY <2>1, <2>2, <1>4
    <3> HIDE DEF st, v
    <3> QED BY <3>1 DEF StopIf, Writes, Locks, Reads
  <2>4. /\ Owed(c) \in j.seen.billed
        /\ DOMAIN j.wants # {} => Owed(c) \in DOMAIN j.wants \/ Owns(j, Owed(c))
    BY <1>3, <1>4 DEF Archiving
  <2>5. Owed(c) \in DOMAIN Waived(v, j.seen) BY <2>4, <1>4 DEF Waived, OpenIn
  <2>6. v[Owed(c)] # None BY <1>4, NoneIs DEF Words
  <2>7. Gained(j, rw, Owed(c), NoKeyUpdate) BY <2>3, <2>5, <2>6 DEF Gained
  <2>8. CASE Owns(j, Owed(c)) BY <2>8, <1>2
  <2>9. CASE ~Owns(j, Owed(c))
    <3>1. Owed(c) \in DOMAIN k.wants \/ Holds(k, Owed(c), NoKeyUpdate)
      BY <2>4, <2>7, <2>9, <1>4, QueueWants
    <3> QED BY <3>1 DEF Owns, Holds
  <2> QED BY <2>8, <2>9
<1>5. HasLink(j, rw) => HasLink(k, rw) BY <1>2 DEF HasLink
<1> HIDE DEF v
<1> QED BY <1>1, <1>3, <1>4, <1>5 DEF Archiving, v

LEMMA QueueErasing ==
  ASSUME NEW j, NEW rw, Doing(j, rw), NEW k, Queues(j, rw, k)
  PROVE  Erasing(k, rw)
<1> DEFINE v == Sees(j, rw)
           st == Sends(j, rw)
<1>1. /\ k.op = j.op /\ k.pc = j.pc /\ k.seen = j.seen /\ Sees(k, rw) = v
      /\ Drafts(k) = Drafts(j)
  BY DEF Queues, Sees, Drafts
<1>2. /\ \A r, m : Holds(j, r, m) => Holds(k, r, m)
      /\ \A r : Owns(j, r) => Owns(k, r)
  BY QueueHolds DEF Owns, Holds
<1>3. Erasing(j, rw) BY DEF Doing, Good
<1> SUFFICES ASSUME j.op.does = "Erase" PROVE Erasing(k, rw)
  BY <1>1 DEF Erasing
<1>4. ASSUME NEW c \in Class, j.pc = 4, Live(v, c), DOMAIN k.wants # {}
      PROVE  Booking(c) \in DOMAIN k.wants \/ Owns(k, Booking(c))
  <2>1. st = Writes(CancelledIn(v))
    <3>1. Statements(j.op, v, j.seen) = Erase(v, j.seen) BY EraseIs
    <3>2. Erase(v, j.seen)[4] = Writes(CancelledIn(v)) BY EraseStarts
    <3> QED BY <3>1, <3>2, <1>4 DEF Sends
  <2>2. st.takes = [r \in DOMAIN CancelledIn(v) |-> NoKeyUpdate]
    BY <2>1 DEF Writes, Locks, Reads
  <2>3. Booking(c) \in DOMAIN CancelledIn(v) BY <1>4 DEF CancelledIn, LiveIn, Live
  <2>4. v[Booking(c)] # None BY <1>4, NoneIs DEF Live, Words
  <2>5. Gained(j, rw, Booking(c), NoKeyUpdate) BY <2>2, <2>3, <2>4 DEF Gained
  <2>6. DOMAIN j.wants # {} => Booking(c) \in DOMAIN j.wants \/ Owns(j, Booking(c))
    BY <1>3, <1>4 DEF Erasing
  <2>7. CASE Owns(j, Booking(c)) BY <2>7, <1>2
  <2>8. CASE ~Owns(j, Booking(c))
    <3>1. Booking(c) \in DOMAIN k.wants \/ Holds(k, Booking(c), NoKeyUpdate)
      BY <2>5, <2>6, <2>8, <1>4, QueueWants
    <3> QED BY <3>1 DEF Owns, Holds
  <2> QED BY <2>7, <2>8
<1> HIDE DEF v
<1> QED BY <1>1, <1>2, <1>3, <1>4 DEF Erasing, v

LEMMA QueueGood ==
  ASSUME NEW j, NEW rw, Doing(j, rw), NEW k, Queues(j, rw, k)
  PROVE  Good(k, rw)
<1>1. /\ k.op = j.op /\ k.pc = j.pc /\ k.seen = j.seen /\ k.wrote = j.wrote
      /\ Drafts(k) = Drafts(j)
  BY DEF Queues, Drafts
<1>2. /\ \A r, m : Holds(j, r, m) => Holds(k, r, m)
      /\ \A r : Owns(j, r) => Owns(k, r)
  BY QueueHolds DEF Owns, Holds
<1>3. Drafting(k) BY <1>1, <1>2 DEF Doing, Good, Drafting
<1>4. \A gate : Past(k, gate) => Past(j, gate) BY <1>1 DEF Past
<1>5. Gated(k, rw) BY <1>1, <1>2, <1>4 DEF Doing, Good, Gated
<1>6. Promoting(k, rw) BY <1>1 DEF Doing, Good, Promoting
<1>7. Completing(k, rw) BY <1>1, <1>2 DEF Doing, Good, Completing
<1>8. Reopening(k, rw)
  <2>1. HasLink(j, rw) => HasLink(k, rw) BY <1>2 DEF HasLink
  <2> QED BY <2>1, <1>1 DEF Doing, Good, Reopening
<1> QED BY <1>3, <1>5, <1>6, <1>7, <1>8, QueueTyped, QueueLocking, QueueSorting, QueueArchiving,
        QueueErasing DEF Good

-------------------------------------------------------------------------------
(* A request as it arrives, and an invite between its two transactions.    *)
LEMMA RequestTyped ==
  ASSUME NEW o \in Requests, scope \in Scopes
  PROVE  OpTyped(o) /\ o.does \in scope.does
<1>1. scope.classes \subseteq Class /\ scope.invitations \subseteq Invitation
  BY RosterAssumption
<1>2. CASE o \in [does : scope.does \cap {"Invite", "Unlink", "SetPrivacy", "Unarchive", "Erase"}]
  BY <1>2 DEF OpTyped, Lengths
<1>3. CASE o \in [does : scope.does \cap {"Accept", "Decline", "Remove", "Resend"},
                  inv : scope.invitations]
  BY <1>1, <1>3 DEF OpTyped, Lengths
<1>4. CASE o \in [does : scope.does \cap {"Edit"}, inv : scope.invitations, to : {Address, Other}]
  BY <1>1, <1>4 DEF OpTyped, Lengths
<1>5. CASE o \in [does : scope.does \cap {"Book", "RosterAdd", "WalkIn", "Join", "Promote",
                                          "Cancel", "Complete", "Reopen", "Pay", "Waive"},
                  class : scope.classes]
  BY <1>1, <1>5 DEF OpTyped, Lengths
<1>6. CASE o \in [does : scope.does \cap {"Archive"}, waive : BOOLEAN]
  BY <1>6 DEF OpTyped, Lengths
<1> QED BY <1>2, <1>3, <1>4, <1>5, <1>6 DEF Requests

(* Nothing is said of a request that has no locks and has written nothing, *)
(* before its first gate.                                                  *)
Bare(k) == k.locks = {} /\ k.wrote = Nothing /\ DOMAIN k.wants = {}

LEMMA BareGood ==
  ASSUME NEW k, NEW rw, Bare(k), Typed(k), k.pc = 1 \/ k.op.does = "Invite",
         k.op.does = "Reopen" => k.seen.filed = FALSE
  PROVE  Good(k, rw)
<1>1. Drafts(k) = {} /\ \A r, m : ~Holds(k, r, m) BY DEF Bare, Drafts, Holds, Nothing
<1>2. \A gate \in {StudentGate, CourseGate, LinkGate} : ~Past(k, gate)
  BY DEF Past, StudentGate, CourseGate, LinkGate
<1>3. Queueing(k) BY DEF Queueing, Bare
<1>4. Locking(k, rw) /\ Drafting(k) BY <1>1 DEF Locking, Drafting
<1>5. Gated(k, rw) BY <1>2 DEF Gated
<1>6. Sorting(k) BY DEF Sorting, SortedAt
<1>7. Promoting(k, rw) /\ Completing(k, rw) BY <1>1 DEF Promoting, Completing
<1>8. Reopening(k, rw) BY DEF Reopening
<1>9. Archiving(k, rw) BY DEF Archiving
<1>10. Erasing(k, rw) BY DEF Erasing
<1> QED BY <1>3, <1>4, <1>5, <1>6, <1>7, <1>8, <1>9, <1>10 DEF Good

Begun(j, o) == [j EXCEPT !.op = o, !.seen = Unread]

LEMMA BeginGood ==
  ASSUME NEW j, Idle(j), NEW o \in Requests, scope \in Scopes, NEW rw
  PROVE  /\ Good(Begun(j, o), rw) /\ Bare(Begun(j, o))
         /\ Begun(j, o).op = o /\ Begun(j, o).pc <= Lengths[o.does]
<1> DEFINE k == Begun(j, o)
<1>1. OpTyped(o) /\ o.does \in scope.does BY RequestTyped
<1>2. /\ DOMAIN k = JobFields /\ k.op = o /\ k.pc = 1 /\ k.seen = Unread /\ k.wants = Nothing
      /\ k.locks = {} /\ k.wrote = Nothing
  BY DEF Idle, JobFields, Begun
<1>3. Lengths[o.does] \in Nat \ {0} BY <1>1 DEF OpTyped, Lengths
<1>4. KeptFields \subseteq DOMAIN Unread /\ SeenTyped(o, Unread) /\ Unread.filed = FALSE
  BY DEF KeptFields, Unread, SeenTyped
<1>5. Typed(k) BY <1>1, <1>2, <1>3, <1>4 DEF Typed
<1>6. Bare(k) BY <1>2 DEF Bare, Nothing
<1> HIDE DEF k
<1>7. Good(k, rw) BY <1>2, <1>4, <1>5, <1>6, BareGood
<1> QED BY <1>2, <1>3, <1>6, <1>7 DEF k

LEMMA RestsGood ==
  ASSUME NEW n, NEW rw, NEW rx, Good(n, rx), n.op.does = "Invite", n.pc = 5, DOMAIN n.wants = {}
  PROVE  Good(Rests(n), rw) /\ Bare(Rests(n)) /\ Rests(n).op = n.op /\ Rests(n).pc = 5
<1> DEFINE k == Rests(n)
<1>1. Typed(n) BY DEF Good
<1>2. /\ DOMAIN k = JobFields /\ k.op = n.op /\ k.pc = n.pc /\ k.seen = n.seen /\ k.wants = n.wants
      /\ k.locks = {} /\ k.wrote = Nothing
  BY <1>1 DEF Typed, JobFields, Rests
<1> HIDE DEF k
<1>3. Typed(k) BY <1>1, <1>2 DEF Typed
<1>4. Bare(k) BY <1>2 DEF Bare
<1> QED BY <1>2, <1>3, <1>4, BareGood DEF k
===============================================================================
