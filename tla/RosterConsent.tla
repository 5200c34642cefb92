--------------------------- MODULE RosterConsent ---------------------------
(***************************************************************************)
(* One teacher and one person: the invitation, the roster link, the block, *)
(* the privacy row and the person's queue entries, registrations and       *)
(* payments, with every request that changes them, each as the sequence of *)
(* statements its transaction sends (invitations.ts, roster-link.ts,       *)
(* link-consent.ts, walk-ins.ts, student-archive.ts, gdpr.ts and the       *)
(* booking, queue and payment services as far as they touch these rows).   *)
(*                                                                         *)
(* Left out: names, notifications and e-mail, seat counts (a full class is *)
(* a refusal, which may come at any time), other students, the second      *)
(* profile an erased person may open under the same address.               *)
(***************************************************************************)
EXTENDS RowLocks, FiniteSetsExt

CONSTANTS
  Class,       \* the teacher's classes, numbered as their ids sort
  Invitation,  \* ids of the teacher's invitations
  Scopes       \* what may meet: see scope

ASSUME RosterAssumption ==
  /\ Class \subseteq Nat /\ IsFiniteSet(Class)
  /\ Invitation \subseteq Nat /\ IsFiniteSet(Invitation)
  /\ \A s \in Scopes : s.classes \subseteq Class /\ s.invitations \subseteq Invitation

VARIABLE
  scope        \* the requests that may arrive, how many may be under way at
               \* once, and the classes and invitation ids they are about;
               \* never changes

vars == <<pgVars, scope>>

Address == "address"       \* the person's own
Other == "other"           \* an address of somebody else
Scrubbed == "scrubbed"     \* what the erasure writes in its place

(* What the columns hold that are looked at.                               *)
Words == {"live", "erased", "open", "completed", "waiting", "left", "charged", "cancelled",
          "settled", "waived", "shares", "silent", "stands", "taken", "pending", "accepted",
          "declined"}
LinkRow == [id : 0 .. 1, filed : BOOLEAN]
InvitationRow ==
  [email : {Address, Other, Scrubbed}, delivered : BOOLEAN,
   status : {"pending", "accepted", "declined"}, told : {None, Address, Other, Scrubbed}]

ASSUME NoneAssumption ==
  None \notin Words \cup {Address, Other, Scrubbed} \cup LinkRow \cup InvitationRow \cup Nat

Student == <<"student", 0>>
Link == <<"link", 0>>
Privacy == <<"privacy", 0>>
Block == <<"block", 0>>
Course(c) == <<"class", c>>
Queued(c) == <<"queue", c>>
Booking(c) == <<"registration", c>>
Owed(c) == <<"payment", c>>
Invited(i) == <<"invitation", i>>
Key(e) == <<"key", IF e = Address THEN 0 ELSE IF e = Other THEN 1 ELSE 2>>

Said == <<"ghost", 0>>     \* the person's last answer to this teacher
Linked == <<"ghost", 1>>   \* the id of the last roster link

Rows == {Student, Link, Privacy, Block, Said, Linked}
          \cup {Key(e) : e \in {Address, Other, Scrubbed}}
          \cup {Course(c) : c \in Class} \cup {Queued(c) : c \in Class}
          \cup {Booking(c) : c \in Class} \cup {Owed(c) : c \in Class}
          \cup {Invited(i) : i \in Invitation}

InitRoster ==
  /\ row = [r \in Rows |->
       CASE r = Student -> "live"
         [] r[1] = "class" -> "open"
         [] r = Said -> "nothing"
         [] r = Linked -> 0
         [] OTHER -> None]
  /\ job = [w \in Worker |-> AtRest]
  /\ scope \in Scopes

-----------------------------------------------------------------------------
NoInvitation == [email |-> None, status |-> None, delivered |-> FALSE, told |-> None]
At(v, i) == IF v[Invited(i)] = None THEN NoInvitation ELSE v[Invited(i)]

IsFiled(v) == IF v[Link] = None THEN FALSE ELSE v[Link].filed

Lowest(S) == IF S = {} THEN None ELSE Min(S)
HolderOf(v, e) == {i \in Invitation : At(v, i).email = e}
StatusAt(v, e) == IF HolderOf(v, e) = {} THEN None ELSE At(v, Min(HolderOf(v, e))).status

\* Fault: nothing but the read before it keeps an address to one invitation.
InsertUnchecked(free, fresh) ==
  [Reads EXCEPT !.puts =
     [r \in {Invited(i) : i \in {j \in free : \A k \in free : j <= k}} |-> fresh]]

InsertInvitation(free, fresh) ==
  Also([r \in {Invited(i) : i \in {j \in free : \A k \in free : j <= k}} |-> fresh],
       Inserts([k \in {Key(Address)} |-> "taken"]))

(* The invitations a statement's WHERE matches, and the write of them.     *)
Answered(v, S, status) ==
  Writes([r \in {Invited(i) : i \in S} |-> [v[r] EXCEPT !.status = status]])

\* Fault: the gate reads the student and does not lock it.
ReadLiveStudent(v) == StopIf(v[Student] = "erased", Reads)

(* lockLiveStudent                                                         *)
LockLiveStudent(v) == StopIf(v[Student] = "erased", Locks({Student}, Share))

(* lockClassRow, and the check every writer makes of the class it locked.  *)
LockOpenClass(v, c) == StopIf(v[Course(c)] # "open", Locks({Course(c)}, Update))

(* linkTeacherStudent: the insert that may find the link there, then its   *)
(* lock, under which an archived link is taken back; a link that went away *)
(* in between rolls the caller back.                                       *)
InsertLink(v) ==
  Keeping([created |-> v[Link] = None],
          Also(IF v[Link] = None THEN [r \in {Linked} |-> 1 - v[Linked]] ELSE Nothing,
               Inserts([r \in {Link} |-> [id |-> 1 - v[Linked], filed |-> FALSE]])))

ActivateLink(v) ==
  StopIf(v[Link] = None,
         [Locks({Link}, Update) EXCEPT !.puts =
            [r \in Existing(v, {Link}) |-> [v[r] EXCEPT !.filed = FALSE]]])

(* resolveInvitationOnLink: the block goes, then the invitation, pending   *)
(* only if this act made the link, declined always.                        *)
LiftBlock == Deletes({Block})
ResolveInvitation(v, seen) ==
  Answered(v, {i \in HolderOf(v, Address) :
                 IF seen.created THEN At(v, i).status # "accepted"
                 ELSE At(v, i).status = "declined"}, "accepted")

\* Fault: the upsert writes a block that is there.
UpsertAndWriteBlock(v) ==
  [Reads EXCEPT !.takes = [q \in {Block} |-> IF v[q] = None THEN Insert ELSE NoKeyUpdate],
                !.puts = [q \in {Block} |-> "stands"]]

(* The upsert of a TeacherBlock with an empty update: it takes no lock on  *)
(* a block that is there.                                                  *)
UpsertBlock(v) == IF v[Block] = None THEN Inserts([r \in {Block} |-> "stands"]) ELSE Reads

(* An upsert that inserts the row or writes it.                            *)
Upsert(v, r, value) ==
  [Reads EXCEPT !.takes = [q \in {r} |-> IF v[q] = None THEN Insert ELSE NoKeyUpdate],
                !.puts = [q \in {r} |-> value]]
ActivateRegistration(v, c) == Upsert(v, Booking(c), "charged")

Saying(answer, st) == Also([r \in {Said} |-> answer], st)

(* One transaction: its last statement commits it.  A transaction that     *)
(* ends in a check of what it has not locked commits in a step of its own. *)
Commit == Reads
Transaction(steps) == [n \in DOMAIN steps |-> IF n = Len(steps) THEN Ends(steps[n]) ELSE steps[n]]
-----------------------------------------------------------------------------
(* inviteContact, then the route's own stamp of the address it told.       *)
Invite(v, seen) ==
  LET at == HolderOf(v, Address)
      free == {i \in scope.invitations : v[Invited(i)] = None}
      mine == {Invited(i) : i \in {seen.id} \ {None}}
      accepted == {r \in Existing(v, mine) : v[r].status = "accepted"}
      delivered == ~seen.blocked /\ ~seen.linked
      fresh == [email |-> Address, status |-> "pending", delivered |-> delivered, told |-> None]
  IN  << Keeping([id |-> Lowest(at), status |-> StatusAt(v, Address)],
                 StopIf(StatusAt(v, Address) \in {"pending", "declined"}, Reads)),
         Keeping([linked |-> v[Link] # None],
                 StopIf(v[Link] # None /\ (v[Privacy] = "shares" \/ seen.status = "accepted"),
                        Reads)),
         Keeping([blocked |-> v[Block] # None], StopIf(mine = {} /\ free = {}, Reads)),
         Ends(IF mine # {}
              THEN StopIf(accepted = {},
                     Writes([r \in accepted |->
                        [v[r] EXCEPT !.status = "pending", !.delivered = delivered]]))
              ELSE Keeping([id |-> Lowest(free)],
                     StopIf(free = {} \/ v[Key(Address)] # None, InsertInvitation(free, fresh)))),
         Ends(Writes([r \in Existing(v, mine) |-> [v[r] EXCEPT !.told = Address]])) >>

(* PUT /api/invitations/[id]: the teacher corrects the address.  The one   *)
(* update takes the invitation's row, then the new address's place in the  *)
(* unique index.                                                           *)
Edit(v, seen, i, to) ==
  LET inv == At(v, i)
      edited == [inv EXCEPT !.email = to, !.delivered = @ /\ to = seen.email]
      moved == {k \in {Key(to)} : seen.held # to}
  IN  << Keeping([email |-> inv.email], StopIf(inv.status # "pending", Reads)),
         Keeping([held |-> inv.email],
                 StopIf(inv.status # "pending",
                        Writes([r \in Existing(v, {Invited(i)}) |-> edited]))),
         Ends(StopIf(Existing(v, moved) # {},
           Also([k \in {Key(seen.held) : m \in moved} |-> None],
                Inserts([k \in moved |-> "taken"])))) >>

\* Fault: only the read before it asks for the status.
RemoveWhatever(v, i) ==
  LET inv == At(v, i)
  IN  << StopIf(inv.status \notin {"pending", "accepted"}, Reads),
         Ends(Also([k \in {Key(inv.email) : r \in Existing(v, {Invited(i)})} |-> None],
                   Deletes({Invited(i)}))) >>

(* DELETE /api/invitations/[id]                                            *)
Remove(v, i) ==
  LET inv == At(v, i)
      gone == StopIf(inv.status \notin {"pending", "accepted"}, Deletes({Invited(i)}))
  IN  << StopIf(inv.status \notin {"pending", "accepted"}, Reads),
         Ends(Also([k \in {Key(inv.email)} |-> None], gone)) >>

(* POST /api/invitations/[id]/resend                                       *)
Resend(v, seen, i) ==
  << Keeping([email |-> At(v, i).email], StopIf(At(v, i).status # "pending", Reads)),
     Ends(Writes([r \in Existing(v, {Invited(i)}) |-> [v[r] EXCEPT !.told = seen.email]])) >>

\* Fault: the block is not looked at again inside the transaction.
AcceptCheckedOnce(v, i) ==
  LET inv == At(v, i)
  IN  << StopIf(inv.email # Address, Reads),
         StopIf(v[Block] # None, Reads),
         LockLiveStudent(v),
         InsertLink(v),
         ActivateLink(v),
         StopIf(inv.status \notin {"pending", "accepted"},
                Answered(v, {j \in {i} : inv.status = "pending"}, "accepted")),
         Ends(Saying("accepted", Commit)) >>

(* acceptInvitation: two reads, then the transaction.                      *)
Accept(v, i) ==
  LET inv == At(v, i)
  IN  << StopIf(inv.email # Address, Reads),
         StopIf(v[Block] # None, Reads),
         LockLiveStudent(v),
         InsertLink(v),
         ActivateLink(v),
         StopIf(inv.status \notin {"pending", "accepted"},
                Answered(v, {j \in {i} : inv.status = "pending"}, "accepted")),
         StopIf(v[Block] # None, Reads),
         Ends(Saying("accepted", Commit)) >>

(* declineInvitation and declinePending                                    *)
Decline(v, i) ==
  LET open == {j \in {i} : At(v, j).status = "pending" /\ At(v, j).email = Address}
  IN  << StopIf(At(v, i).email # Address, Reads),
         StopIf(open = {}, Answered(v, open, "declined")),
         Ends(Saying("declined", UpsertBlock(v))) >>

\* Fault: the link goes first, the queue entries after it.
UnlinkFirst(v, seen) ==
  LET waiting == {c \in Class : v[Queued(c)] = "waiting"}
  IN  << Keeping([link |-> v[Link]], StopIf(v[Link] = None, Reads)),
         LockLiveStudent(v),
         StopIf(v[Link] = None \/ v[Link].id # seen.link.id, Deletes({Link})),
         Keeping([queues |-> waiting], Reads),
         LocksInOrder({Course(c) : c \in seen.queues}),
         Writes([r \in {Queued(c) : c \in seen.queues \cap waiting} |-> "left"]),
         Upsert(v, Privacy, "silent"),
         Answered(v, {i \in HolderOf(v, Address) : At(v, i).delivered}, "declined"),
         Ends(Saying("left", UpsertBlock(v))) >>

(* unlinkTeacher, with withdrawWaitingEntriesForTeacher in its place.      *)
Unlink(v, seen) ==
  LET waiting == {c \in Class : v[Queued(c)] = "waiting"}
  IN  << Keeping([link |-> v[Link]], StopIf(v[Link] = None, Reads)),
         LockLiveStudent(v),
         Keeping([queues |-> waiting], Reads),
         LocksInOrder({Course(c) : c \in seen.queues}),
         Writes([r \in {Queued(c) : c \in seen.queues \cap waiting} |-> "left"]),
         Upsert(v, Privacy, "silent"),
         StopIf(v[Link] = None \/ v[Link].id # seen.link.id, Deletes({Link})),
         Answered(v, {i \in HolderOf(v, Address) : At(v, i).delivered}, "declined"),
         Ends(Saying("left", UpsertBlock(v))) >>

(* updateStudentPrivacy                                                    *)
SetPrivacy(v) == Transaction(<< LockLiveStudent(v), Upsert(v, Privacy, "shares") >>)

(* POST /api/registrations, the student's own booking.                     *)
Book(v, seen, c) ==
  Transaction(<<
    LockLiveStudent(v),
    LockOpenClass(v, c),
    StopIf(v[Booking(c)] = "charged", Reads),
    ActivateRegistration(v, c),
    Writes([r \in {q \in {Queued(c)} : v[q] = "waiting"} |-> "left"]),
    InsertLink(v),
    ActivateLink(v),
    LiftBlock,
    Saying("booked", ResolveInvitation(v, seen)) >>)

(* POST /api/registrations, the teacher's add of a student on the roster.  *)
RosterAdd(v, c) ==
  Transaction(<<
    LockLiveStudent(v),
    LockOpenClass(v, c),
    StopIf(v[Booking(c)] = "charged", Reads),
    ActivateRegistration(v, c),
    ActivateLink(v) >>)

(* POST /api/registrations, a walk-in at the person's own address:         *)
(* resolveWalkInStudent, the booking, completeWalkIn.                      *)
WalkIn(v, c) ==
  LET held == HolderOf(v, Address)
      free == {i \in scope.invitations : v[Invited(i)] = None}
      fresh == [email |-> Address, status |-> "pending", delivered |-> TRUE, told |-> None]
  IN  Transaction(<<
        StopIf(StatusAt(v, Address) = "declined" \/ v[Student] = "erased", Reads),
        StopIf(v[Block] # None, Reads),
        LockLiveStudent(v),
        LockOpenClass(v, c),
        StopIf(v[Booking(c)] = "charged", Reads),
        ActivateRegistration(v, c),
        InsertLink(v),
        ActivateLink(v),
        IF held # {} THEN Locks({Key(Address)}, Insert)
        ELSE StopIf(free = {}, InsertInvitation(free, fresh)),
        StopIf(StatusAt(v, Address) \notin {"pending", "accepted"},
               Answered(v, {i \in held : At(v, i).status = "pending"}, "accepted")),
        StopIf(v[Block] # None, Reads),
        Commit >>)

(* addToWaitlist                                                           *)
Join(v, seen, c) ==
  Transaction(<<
    LockLiveStudent(v),
    LockOpenClass(v, c),
    StopIf(v[Booking(c)] = "charged", Reads),
    InsertLink(v),
    ActivateLink(v),
    LiftBlock,
    ResolveInvitation(v, seen),
    Saying("booked", Upsert(v, Queued(c), "waiting")) >>)

(* promoteNext and claimSpot for this person: neither resolves anything.   *)
(* Their inserts reference the student's row.                              *)
Promote(v, c) ==
  Transaction(<<
    LockOpenClass(v, c),
    StopIf(v[Queued(c)] # "waiting" \/ v[Booking(c)] = "charged", Reads),
    Locks({Student}, KeyShare),
    ActivateRegistration(v, c),
    InsertLink(v),
    ActivateLink(v),
    Writes([r \in {Queued(c)} |-> "left"]) >>)

(* DELETE /api/registrations/[id] in time                                  *)
Cancel(v, c) ==
  Transaction(<<
    LockOpenClass(v, c),
    StopIf(v[Booking(c)] # "charged", Writes([r \in {Booking(c)} |-> "cancelled"])) >>)

(* completeClass: the class is completed, the registrations it bills are   *)
(* priced, and each of them gets its payment.                              *)
Complete(v, seen, c) ==
  LET billed == {r \in {Booking(c)} : v[r] = "charged"}
  IN  Transaction(<<
        LockOpenClass(v, c),
        Writes([r \in {Course(c)} |-> "completed"]),
        Keeping([billed |-> billed], Writes([r \in billed |-> v[r]])),
        Inserts([r \in {Owed(c) : q \in seen.billed} |-> "open"]) >>)

(* markPaymentPaid, markPaymentNotCharged: a compare-and-set of its own.   *)
Settle(v, c, as) ==
  Transaction(<< Writes([r \in {q \in {Owed(c)} : v[q] = "open"} |-> as]) >>)

\* Fault: the payment is locked before the link.
ReopenPaymentFirst(v, seen, c) ==
  LET closed == {r \in {Owed(c)} : v[r] \in {"settled", "waived"}}
  IN  Transaction(<<
        StopIf(v[Owed(c)] = None, Reads),
        Locks({Owed(c)}, Update),
        Keeping([filed |-> IsFiled(v)], Locks({Link}, Update)),
        StopIf(closed = {}, Writes([r \in closed |-> "open"])),
        Writes([r \in {q \in {Link} : seen.filed} |-> [v[r] EXCEPT !.filed = FALSE]]) >>)

(* reopenPayment: it puts an archived link back only if it locked one.     *)
Reopen(v, seen, c) ==
  LET closed == {r \in {Owed(c)} : v[r] \in {"settled", "waived"}}
  IN  Transaction(<<
        StopIf(v[Owed(c)] = None, Reads),
        Keeping([filed |-> IsFiled(v)], Locks({Link}, Update)),
        Locks({Owed(c)}, Update),
        StopIf(closed = {}, Writes([r \in closed |-> "open"])),
        Writes([r \in {q \in {Link} : seen.filed} |-> [v[r] EXCEPT !.filed = FALSE]]) >>)

\* Fault: the link is read, not locked, before what is live is counted.
ArchiveUnlocked(v, seen, waive) ==
  LET open == {Owed(c) : c \in {d \in Class : v[Owed(d)] = "open"}}
      live == {c \in Class : v[Booking(c)] = "charged" /\ v[Course(c)] = "open"}
  IN  Transaction(<<
        StopIf(v[Link] = None \/ IsFiled(v), Reads),
        StopIf(live # {}, Reads),
        Keeping([billed |-> open], StopIf(open # {} /\ ~waive, Reads)),
        StopIf(~(seen.billed \subseteq open), Writes([r \in seen.billed \cap open |-> "waived"])),
        Writes([r \in Existing(v, {Link}) |-> [v[r] EXCEPT !.filed = TRUE]]) >>)

(* archiveStudent: the payments the teacher agreed to waive are the ones   *)
(* it reads open, and one that is settled meanwhile undoes the archive.    *)
Archive(v, seen, waive) ==
  LET open == {Owed(c) : c \in {d \in Class : v[Owed(d)] = "open"}}
      live == {c \in Class : v[Booking(c)] = "charged" /\ v[Course(c)] = "open"}
  IN  Transaction(<<
        StopIf(v[Link] = None \/ IsFiled(v), Locks({Link}, Update)),
        StopIf(live # {}, Reads),
        Keeping([billed |-> open], StopIf(open # {} /\ ~waive, Reads)),
        StopIf(~(seen.billed \subseteq open), Writes([r \in seen.billed \cap open |-> "waived"])),
        Writes([r \in Existing(v, {Link}) |-> [v[r] EXCEPT !.filed = TRUE]]) >>)

(* PATCH /api/students/[id]?state=unarchived: a read, then an update.      *)
Unarchive(v) ==
  << StopIf(~IsFiled(v), Reads),
     Ends(Writes([r \in Existing(v, {Link}) |-> [v[r] EXCEPT !.filed = FALSE]])) >>

(* An invitation of an erased person.                                      *)
Scrub(inv) == [inv EXCEPT !.email = Scrubbed, !.told = IF @ = None THEN None ELSE Scrubbed]

(* deleteStudentAccount                                                    *)
Erase(v, seen) ==
  LET queues == {c \in Class : v[Queued(c)] # None}
      upcoming == {c \in Class : v[Booking(c)] = "charged" /\ v[Course(c)] = "open"}
      here == HolderOf(v, Address)
      told == {i \in Invitation : At(v, i).told = Address}
  IN  Transaction(<<
        Locks({Student}, NoKeyUpdate),
        Keeping([queues |-> queues], Reads),
        LocksInOrder({Course(c) : c \in seen.queues}),
        Writes([r \in {Booking(c) : c \in upcoming} |-> "cancelled"]),
        Deletes({Privacy}),
        Deletes({Link}),
        Deletes({Queued(c) : c \in seen.queues}),
        Also([k \in {Key(At(v, i).email) : i \in here} |-> None],
             Writes([r \in {Invited(i) : i \in here} |-> Scrub(At(v, r[2]))])),
        Writes([r \in {Invited(i) : i \in told} |-> [v[r] EXCEPT !.told = Scrubbed]]),
        StopIf(v[Student] = "erased",
               [Locks({Student}, Update) EXCEPT !.puts = [r \in {Student} |-> "erased"]]),
        StopIf(queues # {}, Reads),
        Commit >>)

-----------------------------------------------------------------------------
(* Who may ask for what: the person only with a live profile.              *)
OwnActs == {"Accept", "Decline", "Unlink", "SetPrivacy", "Book", "Join", "Erase"}

Requests ==
  LET does(S) == scope.does \cap S
  IN  [does : does({"Invite", "Unlink", "SetPrivacy", "Unarchive", "Erase"})]
        \cup [does : does({"Accept", "Decline", "Remove", "Resend"}), inv : scope.invitations]
        \cup [does : does({"Edit"}), inv : scope.invitations, to : {Address, Other}]
        \cup [does : does({"Book", "RosterAdd", "WalkIn", "Join", "Promote", "Cancel",
                           "Complete", "Reopen", "Pay", "Waive"}), class : scope.classes]
        \cup [does : does({"Archive"}), waive : BOOLEAN]

(* The statements of request o, when its transaction sees the rows v and   *)
(* has kept seen of what it read.                                          *)
Statements(o, v, seen) ==
  CASE o.does = "Invite" -> Invite(v, seen)
    [] o.does = "Edit" -> Edit(v, seen, o.inv, o.to)
    [] o.does = "Remove" -> Remove(v, o.inv)
    [] o.does = "Resend" -> Resend(v, seen, o.inv)
    [] o.does = "Accept" -> Accept(v, o.inv)
    [] o.does = "Decline" -> Decline(v, o.inv)
    [] o.does = "Unlink" -> Unlink(v, seen)
    [] o.does = "SetPrivacy" -> SetPrivacy(v)
    [] o.does = "Book" -> Book(v, seen, o.class)
    [] o.does = "RosterAdd" -> RosterAdd(v, o.class)
    [] o.does = "WalkIn" -> WalkIn(v, o.class)
    [] o.does = "Join" -> Join(v, seen, o.class)
    [] o.does = "Promote" -> Promote(v, o.class)
    [] o.does = "Cancel" -> Cancel(v, o.class)
    [] o.does = "Complete" -> Complete(v, seen, o.class)
    [] o.does = "Pay" -> Settle(v, o.class, "settled")
    [] o.does = "Waive" -> Settle(v, o.class, "waived")
    [] o.does = "Reopen" -> Reopen(v, seen, o.class)
    [] o.does = "Archive" -> Archive(v, seen, o.waive)
    [] o.does = "Unarchive" -> Unarchive(v)
    [] o.does = "Erase" -> Erase(v, seen)

Program(w) == Statements(job[w].op, View(w), job[w].seen)

Unread == [id |-> None, status |-> None, linked |-> FALSE, blocked |-> FALSE,
           email |-> None, held |-> None,
           created |-> FALSE,
           link |-> [id |-> None, filed |-> FALSE], queues |-> {}, billed |-> {}, filed |-> FALSE]

Begin(w) ==
  /\ ~Busy(w)
  /\ Cardinality({x \in Worker : Busy(x)}) < scope.atOnce
  /\ \E o \in Requests :
       /\ o.does \in OwnActs => row[Student] = "live"
       /\ job' = [job EXCEPT ![w].op = o, ![w].seen = Unread]
  /\ UNCHANGED row

Statement(w) == Program(w)[job[w].pc]
IsLast(w) == job[w].pc = Len(Program(w))

Send(w) == Busy(w) /\ Issue(w, Statement(w), IsLast(w))
Proceed(w) == \E r \in Turn(w) : Grant(w, r, Statement(w), IsLast(w))

Next ==
  /\ UNCHANGED scope
  /\ \E w \in Worker : Begin(w) \/ Send(w) \/ Proceed(w) \/ Fails(w)

Spec == InitRoster /\ [][Next]_vars
-----------------------------------------------------------------------------
(***************************************************************************)
(* The rows hold what their columns can hold, an unfinished request has a  *)
(* statement left to send, and one invitation of a teacher has an address. *)
(***************************************************************************)
TypeOK ==
  /\ DOMAIN row = Rows
  /\ row[Student] \in {"live", "erased"}
  /\ row[Privacy] \in {None, "shares", "silent"} /\ row[Block] \in {None, "stands"}
  /\ row[Said] \in {"nothing", "accepted", "booked", "declined", "left"}
  /\ row[Link] \in LinkRow \cup {None}
  /\ \A c \in Class :
       /\ row[Course(c)] \in {"open", "completed"}
       /\ row[Queued(c)] \in {None, "waiting", "left"}
       /\ row[Booking(c)] \in {None, "charged", "cancelled"}
       /\ row[Owed(c)] \in {None, "open", "settled", "waived"}
  /\ \A i, j \in Invitation :
       /\ row[Invited(i)] \in InvitationRow \cup {None}
       /\ At(row, i).email = At(row, j).email /\ i # j
            => At(row, i).email \in {None, Scrubbed}
  /\ \A e \in {Address, Other} : (row[Key(e)] = "taken") <=> (HolderOf(row, e) # {})
  /\ \A w \in Worker : Busy(w) => job[w].pc \in 1 .. Len(Program(w))

(* The request whose statement the step is.                                *)
StepOf(does) == \E w \in Worker : /\ job'[w] # job[w]
                                 /\ Busy(w) /\ job[w].op.does \in does

(***************************************************************************)
(* A refusal stands until the person's own act.  Whoever left this teacher *)
(* is not linked, whoever left or declined is blocked, nothing that was    *)
(* under way when they did links them again, and an acceptance that began  *)
(* before they left does not commit over it (invitations.ts:1207-1255,     *)
(* data-model.md "TeacherBlock").  Two windows the code leaves open: an    *)
(* acceptance or a walk-in that has looked for a block for the last time   *)
(* may commit over a decline, as the check "NARROWS the remaining window"  *)
(* (invitations.ts:1411), and a promotion resolves no consent at all.      *)
(***************************************************************************)
RefusalStands ==
  [][/\ row'[Said] \in {"left", "declined"} => row'[Block] # None
     /\ row'[Said] = "left" /\ row[Said] # "left" => row'[Link] = None
     /\ row'[Said] = "left" /\ row[Link] = None /\ row'[Link] # None => StepOf({"Promote"})
     /\ row'[Said] = "declined" /\ row[Link] = None /\ row'[Link] # None
          => StepOf({"Promote", "WalkIn"})
     /\ row'[Said] = "accepted" => row[Said] # "left"]_vars

(***************************************************************************)
(* A declined invitation is a tombstone: only a booking or a queue entry   *)
(* of the person's own lifts it, and no interleaving of the teacher's      *)
(* invites, edits, removals and walk-ins moves or frees its address        *)
(* (app/api/invitations/[id]/route.ts:25-37).                              *)
(***************************************************************************)
TombstoneStays ==
  [][\A i \in Invitation :
       At(row, i).status = "declined" /\ At(row', i) # [At(row, i) EXCEPT !.told = At(row', i).told]
         => StepOf({"Book", "Join", "Erase"})]_vars

(***************************************************************************)
(* An archived link has nothing live: no registration a completion would   *)
(* still bill and no payment still owed (data-model.md:371, "The           *)
(* invariant: an archived link has nothing live").                         *)
(***************************************************************************)
ArchivedHasNothingLive ==
  IsFiled(row) =>
     \A c \in Class : /\ row[Owed(c)] # "open"
                      /\ ~(row[Booking(c)] = "charged" /\ row[Course(c)] = "open")

(***************************************************************************)
(* Once the person is erased nothing that names them is left or comes back *)
(* from a request that had already begun: no link, no privacy row, no      *)
(* queue entry and no place in a class still to come (gdpr.ts:538).        *)
(***************************************************************************)
ErasedLeavesNothing ==
  row[Student] = "erased" =>
    /\ row[Link] = None /\ row[Privacy] = None
    /\ \A c \in Class : /\ row[Queued(c)] = None
                        /\ ~(row[Booking(c)] = "charged" /\ row[Course(c)] = "open")

(***************************************************************************)
(* The roster, the bookings and the account agree, whichever requests met. *)
(***************************************************************************)
Consistent == TypeOK /\ ArchivedHasNothingLive /\ ErasedLeavesNothing

(***************************************************************************)
(* The requests wait in no circle as long as the teacher has one           *)
(* invitation: an edit and an erasure take two of them, each after the     *)
(* address of the other is freed, in no order (gdpr.ts:816).               *)
(***************************************************************************)
OrderedLocks == Cardinality(scope.invitations) <= 1 => NoDeadlock
=============================================================================
