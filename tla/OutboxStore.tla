---------------------------- MODULE OutboxStore ----------------------------
(***************************************************************************)
(* The store of attendance marks a teacher taps (lib/attendance-outbox.ts): *)
(* one document in localStorage, shared by the tabs of a device, and what   *)
(* each tab keeps in memory when storage refuses a write.  Every change is  *)
(* a read, a change and a write under one Web Lock, so it is one step here; *)
(* reads are made at any time, without the lock.  A clear is two steps: the *)
(* removal, then the record by which the other tabs learn of it.            *)
(*                                                                          *)
(* A mark is its number in the order of the taps and stands for the entry   *)
(* of that id.  Expiry (24 hours, 7 days) and malformed documents are left  *)
(* out: no confirmation or refusal expires here.                            *)
(***************************************************************************)
EXTENDS Naturals, Sequences

CONSTANTS
    Tabs,       \* the tabs open on the device
    Regs,       \* the registrations marked
    Owners,     \* the accounts that use the device
    Teacher(_), \* the account whose class a registration is in
    MaxMarks,   \* bound: the taps made
    Refusals,   \* which storage calls may fail, one set for each kind of device
    None

\* "write": the whole document; "smaller": what storage held already and the
\* tab still agrees with; "removal"; "record": the record of a clear; "read".
StorageCalls == {"write", "smaller", "removal", "record", "read"}

ASSUME TeacherAssumption == \A r \in Regs : Teacher(r) \in Owners

ASSUME BoundAssumption == MaxMarks \in Nat

ASSUME RefusalsAssumption == Refusals \subseteq SUBSET StorageCalls

VARIABLES
    storage,   \* the stored document: per registration, its entries
    tab,       \* what each tab holds (TabState)
    taps,      \* the marks tapped so far: the tab and the registration of each
    clearing,  \* the clear whose record is not written yet (the lock is held)
    refusable, \* the storage calls that may fail on this device
    over,      \* marks settled, cleared, or replaced in the tab that showed them
    lost       \* marks a tab held only in memory, and said so, when it closed

storeVars == <<storage, tab, taps, clearing, refusable, over, lost>>

Marks == 1..MaxMarks
Entry == Marks \cup {None}
Slot == [pending : Entry, confirmed : Entry, refused : Entry]
NoSlot == [pending |-> None, confirmed |-> None, refused |-> None]
Document == [Regs -> Slot]
NoEntries == [r \in Regs |-> NoSlot]
NoOverrides == [r \in Regs |-> None]
Everything == "all"
Override == [mine : Slot, held : Slot]
Clear == [tab : Tabs, what : Owners \cup {Everything}]

ASSUME EverythingAssumption == Everything \notin Owners

ASSUME NoneAssumption == None \notin Marks /\ None \notin Override /\ None \notin Clear

\* known: storage as last read or written; overlay: per registration, the tab's
\* own entries storage does not hold, and what storage held then; missed: the
\* clears recorded by other tabs that this one has not noticed.
TabState ==
    [known : Document, overlay : [Regs -> Override \cup {None}],
     detached : BOOLEAN, missed : SUBSET (Owners \cup {Everything})]

Init ==
    /\ storage = NoEntries
    /\ refusable \in Refusals
    /\ tab = [t \in Tabs |-> [known |-> NoEntries, overlay |-> NoOverrides,
                              detached |-> FALSE, missed |-> {}]]
    /\ taps = <<>>
    /\ clearing = None
    /\ over = {}
    /\ lost = {}

RegOf(m) == taps[m].reg
OwnerOf(m) == Teacher(RegOf(m))
OwnedBy(m, owners) == m # None /\ OwnerOf(m) \in owners

---------------------------------------------------------------------------
(* Reading *)

\* What a tab shows: the stored entries, with its own where it holds any.
View(s) ==
    [r \in Regs |->
        IF s.overlay[r] # None THEN s.overlay[r].mine
        ELSE IF s.detached THEN NoSlot ELSE s.known[r]]

RewrittenSinceMine(current, override) == current # override.mine

\* Another tab has written the registration since this one's write was refused:
\* that write is taken as the newer.
Rewritten(current, override) == current # override.held

Reconciled(s) ==
    IF s.detached THEN s
    ELSE [s EXCEPT !.overlay = [r \in Regs |->
            IF @[r] # None /\ Rewritten(s.known[r], @[r]) THEN None ELSE @[r]]]

\* The tab drops from memory what a clear in another tab covers.
ClearsNoticedForAll(s) ==
    [s EXCEPT !.missed = {}, !.overlay = IF s.missed = {} THEN @ ELSE NoOverrides]

ClearsNoticed(s) ==
    LET covered(o) ==
            \/ Everything \in s.missed
            \/ OwnedBy(o.mine.pending, s.missed)
            \/ OwnedBy(o.mine.refused, s.missed)
    IN  [s EXCEPT !.missed = {},
                  !.overlay = [r \in Regs |->
                      IF @[r] # None /\ covered(@[r]) THEN None ELSE @[r]]]

AfterReadCached(s, readable) == Reconciled(s)

\* A read that throws keeps what the tab read last, and notices no clear.
AfterRead(s, readable) ==
    IF ~readable THEN Reconciled(s)
    ELSE ClearsNoticed(Reconciled(IF s.detached THEN s ELSE [s EXCEPT !.known = storage]))

Readable == IF "read" \in refusable THEN BOOLEAN ELSE {TRUE}

Read(t) ==
    /\ \E readable \in Readable : tab' = [tab EXCEPT ![t] = AfterRead(@, readable)]
    /\ UNCHANGED <<storage, taps, clearing, over, lost, refusable>>

---------------------------------------------------------------------------
(* Writing *)

\* The registrations whose entries in next differ from those of base.
Overrides(next, base) ==
    [r \in Regs |-> IF next[r] = base[r] THEN None ELSE [mine |-> next[r], held |-> base[r]]]

KeepsHeld(next, held) == held

Agreed(next, held) ==
    [r \in Regs |-> [e \in DOMAIN NoSlot |-> IF next[r][e] = held[r][e] THEN next[r][e] ELSE None]]

\* The storage calls that fail while a document is written.
Failures ==
    {f \in SUBSET (refusable \cap {"write", "smaller", "removal"}) :
        ("smaller" \in f => "write" \in f) /\ ("removal" \in f => "smaller" \in f)}

Written(s, next) ==
    [s EXCEPT !.known = next, !.overlay = NoOverrides, !.detached = FALSE]

\* Storage refused the document: it keeps the entries it already held that the
\* tab still agrees with, and the tab holds the rest.
KeptSmaller(s, next) ==
    LET kept == Agreed(next, IF s.detached THEN NoEntries ELSE s.known)
    IN  [s EXCEPT !.known = kept, !.overlay = Overrides(next, kept), !.detached = FALSE]

\* It refused that too: its copy is removed, or no longer read.
Removed(s, next, failed) ==
    [s EXCEPT !.known = NoEntries, !.overlay = Overrides(next, NoEntries),
              !.detached = "removal" \in failed]

\* A write of next by tab t, whose state is s after its read.
Persist(t, s, next, failed) ==
    LET small == KeptSmaller(s, next)
    IN  \/ /\ failed = {}
           /\ storage' = next
           /\ tab' = [tab EXCEPT ![t] = Written(s, next)]
        \/ /\ failed = {"write"}
           /\ storage' = small.known
           /\ tab' = [tab EXCEPT ![t] = small]
        \/ /\ "smaller" \in failed
           /\ storage' = IF "removal" \in failed THEN storage ELSE NoEntries
           /\ tab' = [tab EXCEPT ![t] = Removed(s, next, failed)]

\* After a read that threw, the change stays in memory and nothing is written.
Hold(t, s, next) ==
    /\ tab' = [tab EXCEPT ![t] = [s EXCEPT !.overlay = Overrides(next, s.known)]]
    /\ UNCHANGED storage

Apply(t, s, readable, next) ==
    IF readable \/ s.detached
    THEN \E failed \in Failures : Persist(t, s, next, failed)
    ELSE Hold(t, s, next)

\* The step of every operation: read, change what the tab shows, write.
Change(t, f(_)) ==
    \E readable \in Readable :
        LET s == AfterRead(tab[t], readable) IN Apply(t, s, readable, f(View(s)))

Locked == clearing # None
Shown(t) == View(AfterRead(tab[t], TRUE))

---------------------------------------------------------------------------
(* Operations *)

\* enqueueAttendance: a new tap replaces the registration's pending entry.
Tap(t, r) ==
    LET m == Len(taps) + 1
        queued(shown) == [shown EXCEPT ![r].pending = m]
    IN  /\ ~Locked
        /\ m \in Marks
        /\ taps' = Append(taps, [tab |-> t, reg |-> r])
        /\ Change(t, queued)
        /\ over' = over \cup ({Shown(t)[r].pending} \ {None})
        /\ UNCHANGED <<clearing, lost, refusable>>

\* settleEntry compares the entry's id: a newer tap may have replaced it.
IsPendingAny(shown, m) == shown[RegOf(m)].pending # None

IsPending(shown, m) == shown[RegOf(m)].pending = m

\* settleEntry: only while the entry sent is still the pending one.
SettledSlot(slot, kind) ==
    CASE kind = "confirmed" -> [pending |-> None, confirmed |-> slot.pending, refused |-> None]
      [] kind = "refused" -> [slot EXCEPT !.pending = None, !.refused = slot.pending]
      [] kind = "dropped" -> [slot EXCEPT !.pending = None]

Outcomes == {"confirmed", "refused", "dropped"}

Settle(t, m, kind) ==
    LET settled(shown) ==
            IF IsPending(shown, m)
            THEN [shown EXCEPT ![RegOf(m)] = SettledSlot(@, kind)] ELSE shown
    IN  /\ ~Locked
        /\ Change(t, settled)
        /\ over' = IF IsPending(Shown(t), m) THEN over \cup {m} ELSE over
        /\ UNCHANGED <<taps, clearing, lost, refusable>>

DismissRefused(t, r) ==
    LET dismissed(shown) == [shown EXCEPT ![r].refused = None]
    IN  /\ ~Locked
        /\ Shown(t)[r].refused # None
        /\ Change(t, dismissed)
        /\ UNCHANGED <<taps, clearing, over, lost, refusable>>

\* retryWrite: the whole write again, when the page hides or another tab writes.
RetryWrite(t) ==
    /\ ~Locked
    /\ tab[t].overlay # NoOverrides
    /\ ~tab[t].detached
    /\ \E readable \in Readable :
          LET s == AfterRead(tab[t], readable)
          IN  IF s.overlay = NoOverrides
              THEN tab' = [tab EXCEPT ![t] = s] /\ UNCHANGED storage
              ELSE Apply(t, s, readable, View(s))
    /\ UNCHANGED <<taps, clearing, over, lost, refusable>>

\* clearOutbox: sign-out removes the stored copy and the tab's entries.
ClearAll(t) ==
    /\ ~Locked
    /\ \E removed \in IF "removal" \in refusable THEN BOOLEAN ELSE {TRUE} :
          /\ storage' = IF removed THEN NoEntries ELSE storage
          /\ tab' = [tab EXCEPT ![t].known = NoEntries, ![t].overlay = NoOverrides,
                                ![t].detached = ~removed]
    /\ clearing' = [tab |-> t, what |-> Everything]
    /\ UNCHANGED <<taps, over, lost, refusable>>

\* clearOwnedOutbox: deleting an account removes its pending and refused marks.
ClearOwned(t, o) ==
    LET kept(m) == IF OwnedBy(m, {o}) THEN None ELSE m
        others(shown) ==
            [r \in Regs |-> [shown[r] EXCEPT !.pending = kept(@), !.refused = kept(@)]]
    IN  /\ ~Locked
        /\ Change(t, others)
        /\ clearing' = [tab |-> t, what |-> o]
        /\ UNCHANGED <<taps, over, lost, refusable>>

\* writeClears: the record by which the other tabs notice the clear.
CoveredFromZero(what) == 0..Len(taps)

Covered(what) == {m \in 1..Len(taps) : what \in {Everything, OwnerOf(m)}}

RecordClear ==
    /\ Locked
    /\ \/ /\ tab' = [t \in Tabs |->
                        [tab[t] EXCEPT !.missed =
                            IF t = clearing.tab THEN {} ELSE @ \cup {clearing.what}]]
          /\ over' = over \cup Covered(clearing.what)
       \/ /\ "record" \in refusable
          /\ UNCHANGED <<tab, over>>
    /\ clearing' = None
    /\ UNCHANGED <<storage, taps, lost, refusable>>

\* useOutboxVolatile: a pending mark the tab shows and storage does not hold.
Volatile(s) ==
    {m \in 1..Len(taps) : /\ View(s)[RegOf(m)].pending = m
                          /\ s.overlay[RegOf(m)] # None
                          /\ s.overlay[RegOf(m)].held.pending # m}

\* The page is reloaded or closed: what it held in memory is gone.
Reload(t) ==
    /\ ~(Locked /\ clearing.tab = t)
    /\ tab' = [tab EXCEPT ![t] = [known |-> storage, overlay |-> NoOverrides,
                                  detached |-> FALSE, missed |-> {}]]
    /\ lost' = lost \cup Volatile(tab[t])
    /\ UNCHANGED <<storage, taps, clearing, over, refusable>>

Next ==
    \/ RecordClear
    \/ \E t \in Tabs :
          \/ Read(t) \/ RetryWrite(t) \/ ClearAll(t) \/ Reload(t)
          \/ \E r \in Regs : DismissRefused(t, r) \/ Tap(t, r)
          \/ \E o \in Owners : ClearOwned(t, o)
          \/ \E m \in 1..Len(taps), kind \in Outcomes : IsPending(Shown(t), m) /\ Settle(t, m, kind)

Spec == Init /\ [][Next]_storeVars

---------------------------------------------------------------------------
(* Properties *)

\* Every variable has its type.
TypeOK ==
    /\ storage \in Document
    /\ tab \in [Tabs -> TabState]
    /\ taps \in Seq([tab : Tabs, reg : Regs]) /\ Len(taps) <= MaxMarks
    /\ clearing \in Clear \cup {None}
    /\ refusable \in Refusals
    /\ over \subseteq Marks /\ lost \subseteq Marks

\* A mark that was settled, cleared or replaced does not come back, where what
\* storage holds can be read and removed: storage does not hold it for a reload
\* to find, and no open tab shows it after a read.
NoComeback ==
    refusable \cap {"read", "removal"} = {} => \A m \in over :
        /\ storage[RegOf(m)].pending # m
        /\ \A t \in Tabs : Shown(t)[RegOf(m)].pending # m

\* A mark that is not over or lost with its tab is in storage, or a tab holds it
\* in memory and warns that a reload would lose it.
Held(m) ==
    \/ storage[RegOf(m)].pending = m
    \/ \E t \in Tabs : m \in Volatile(AfterRead(tab[t], TRUE))

Live == (1..Len(taps)) \ (over \cup lost)
Newer(m) == {n \in m + 1..Len(taps) : RegOf(n) = RegOf(m)}

\* While storage takes every write no tab loses another's mark: the newest mark
\* of a registration is stored until it is settled or cleared.
NothingLost ==
    refusable = {} =>
        \A m \in Live : storage[RegOf(m)].pending = m \/ Newer(m) # {} \/ Locked

\* What storage and the tabs hold is neither too much nor too little: nothing that
\* was settled, and everything that was not.
Consistent == TypeOK /\ NoComeback /\ NothingLost

\* A mark only a tab holds is lost only when the stored entries of its own
\* registration change: no read, reload, retry or clear of another account's
\* marks drops it.
KeptUntilWritten ==
    [][\A m \in Live :
        (Held(m) /\ ~Held(m)' /\ m \in Live' /\ ~Locked')
            => storage'[RegOf(m)] # storage[RegOf(m)]]_storeVars

=============================================================================
