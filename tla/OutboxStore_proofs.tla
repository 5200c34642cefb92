------------------------- MODULE OutboxStore_proofs -------------------------
(***************************************************************************)
(* Proofs about OutboxStore and AttendanceSync, for any number of tabs,     *)
(* registrations, accounts and taps, and for every set of storage calls     *)
(* that may fail.                                                           *)
(***************************************************************************)
EXTENDS AttendanceSync, SequenceTheorems, TLAPS

---------------------------------------------------------------------------
(* Documents *)

\* The empty slot, document and overlay have their types.
LEMMA EmptyTypes ==
    /\ None \in Entry
    /\ NoSlot \in Slot
    /\ NoEntries \in Document
    /\ NoOverrides \in [Regs -> Override \cup {None}]
  BY DEF NoSlot, Slot, NoEntries, Document, NoOverrides, Entry

\* What two slots say alike: each field of a is that of b or nothing.
PartOf(a, b) ==
    /\ a.pending \in {b.pending, None}
    /\ a.confirmed \in {b.confirmed, None}
    /\ a.refused \in {b.refused, None}

\* The smaller document has only entries of the one that was refused.
LEMMA AgreedPart ==
    ASSUME NEW next \in Document, NEW held \in Document
    PROVE  /\ Agreed(next, held) \in Document
           /\ \A r \in Regs : PartOf(Agreed(next, held)[r], next[r])
<1> DEFINE D == {"pending", "confirmed", "refused"}
<1>1. DOMAIN NoSlot = D
  BY DEF NoSlot
<1>2. Agreed(next, held)
        = [r \in Regs |->
              [e \in D |-> IF next[r][e] = held[r][e] THEN next[r][e] ELSE None]]
  BY <1>1 DEF Agreed
<1>3. \A r \in Regs : Agreed(next, held)[r] \in Slot
  <2> SUFFICES ASSUME NEW r \in Regs PROVE Agreed(next, held)[r] \in Slot
    OBVIOUS
  <2> DEFINE a == [e \in D |-> IF next[r][e] = held[r][e] THEN next[r][e] ELSE None]
  <2>1. a = Agreed(next, held)[r]
    BY <1>2
  <2>2. a = [pending |-> a.pending, confirmed |-> a.confirmed, refused |-> a.refused]
    OBVIOUS
  <2>3. a.pending \in Entry /\ a.confirmed \in Entry /\ a.refused \in Entry
    BY DEF Document, Slot, Entry
  <2> QED
    BY <2>1, <2>2, <2>3 DEF Slot
<1>4. Agreed(next, held) \in [Regs -> Slot]
  BY <1>3, <1>2
<1>5. \A r \in Regs : PartOf(Agreed(next, held)[r], next[r])
  BY <1>2 DEF PartOf
<1> QED
  BY <1>4, <1>5 DEF Document

\* The overlay of a document over another is an overlay.
LEMMA OverridesType ==
    ASSUME NEW next \in Document, NEW base \in Document
    PROVE  Overrides(next, base) \in [Regs -> Override \cup {None}]
  BY DEF Document, Overrides, Override

\* What each registration's override says.
LEMMA OverridesAt ==
    ASSUME NEW next \in Document, NEW base \in Document, NEW r \in Regs
    PROVE  /\ Overrides(next, base)[r] = None <=> next[r] = base[r]
           /\ next[r] # base[r] => /\ Overrides(next, base)[r].mine = next[r]
                                   /\ Overrides(next, base)[r].held = base[r]
<1>1. next[r] \in Slot /\ base[r] \in Slot
  BY DEF Document
<1>2. [mine |-> next[r], held |-> base[r]] \in Override
  BY <1>1 DEF Override
<1>3. [mine |-> next[r], held |-> base[r]] # None
  BY <1>2, NoneAssumption
<1> QED
  BY <1>3 DEF Overrides

---------------------------------------------------------------------------
(* Reading *)

\* What a tab shows is a document.
LEMMA ViewType ==
    ASSUME NEW s \in TabState
    PROVE  View(s) \in Document
<1> SUFFICES ASSUME NEW r \in Regs
             PROVE  (IF s.overlay[r] # None THEN s.overlay[r].mine
                     ELSE IF s.detached THEN NoSlot ELSE s.known[r]) \in Slot
  BY DEF View, Document
<1>1. s.overlay[r] \in Override \cup {None} /\ s.known[r] \in Slot
  BY DEF TabState, Document
<1> QED
  BY <1>1, EmptyTypes DEF Override

\* A read drops entries of the overlay or keeps them as they are, and leaves the
\* rest of the tab's state typed.
LEMMA ReadType ==
    ASSUME NEW s \in TabState, NEW readable \in BOOLEAN, storage \in Document
    PROVE  AfterRead(s, readable) \in TabState
<1>1. ASSUME NEW u \in TabState PROVE Reconciled(u) \in TabState
  <2>1. [r \in Regs |-> IF u.overlay[r] # None /\ Rewritten(u.known[r], u.overlay[r])
                        THEN None ELSE u.overlay[r]] \in [Regs -> Override \cup {None}]
    BY DEF TabState
  <2> QED
    BY <1>1, <2>1 DEF Reconciled, TabState
<1>2. ASSUME NEW u \in TabState PROVE ClearsNoticed(u) \in TabState
  <2> DEFINE cov(o) ==
            \/ Everything \in u.missed
            \/ OwnedBy(o.mine.pending, u.missed)
            \/ OwnedBy(o.mine.refused, u.missed)
  <2>1. ClearsNoticed(u)
          = [u EXCEPT !.missed = {},
                      !.overlay = [r \in Regs |-> IF u.overlay[r] # None /\ cov(u.overlay[r])
                                                  THEN None ELSE u.overlay[r]]]
    BY <1>2 DEF ClearsNoticed, TabState
  <2> HIDE DEF cov
  <2>2. [r \in Regs |-> IF u.overlay[r] # None /\ cov(u.overlay[r])
                        THEN None ELSE u.overlay[r]] \in [Regs -> Override \cup {None}]
    BY DEF TabState
  <2> QED
    BY <1>2, <2>1, <2>2 DEF TabState
<1>3. [s EXCEPT !.known = storage] \in TabState
  BY DEF TabState
<1> QED
  BY <1>1, <1>2, <1>3 DEF AfterRead

\* The clears a tab has missed cover an entry of the override.
Gone(o, missed) ==
    \/ Everything \in missed
    \/ OwnedBy(o.mine.pending, missed)
    \/ OwnedBy(o.mine.refused, missed)

\* The override of r that outlives the read, if one does.
Survives(s, known, readable, r) ==
    /\ s.overlay[r] # None
    /\ s.detached \/ s.overlay[r].held = known[r]
    /\ readable => ~Gone(s.overlay[r], s.missed)

\* Everything a read does.
LEMMA ReadDoes ==
    ASSUME NEW s \in TabState, NEW readable \in BOOLEAN, storage \in Document
    PROVE  LET a == AfterRead(s, readable)
           IN  /\ a.detached = s.detached
               /\ a.known = IF readable /\ ~s.detached THEN storage ELSE s.known
               /\ a.missed = IF readable THEN {} ELSE s.missed
               /\ \A r \in Regs : a.overlay[r] = IF Survives(s, a.known, readable, r)
                                                 THEN s.overlay[r] ELSE None
<1> DEFINE read == IF readable /\ ~s.detached THEN [s EXCEPT !.known = storage] ELSE s
           kept == Reconciled(read)
<1>1. read \in TabState /\ read.overlay = s.overlay /\ read.detached = s.detached
      /\ read.missed = s.missed
      /\ read.known = IF readable /\ ~s.detached THEN storage ELSE s.known
  BY DEF TabState
<1>2. AfterRead(s, readable) = IF readable THEN ClearsNoticed(kept) ELSE kept
  BY DEF AfterRead
<1> HIDE DEF read
<1>3. /\ kept.detached = s.detached /\ kept.missed = s.missed /\ kept.known = read.known
      /\ \A r \in Regs : kept.overlay[r] =
            IF s.overlay[r] # None /\ (s.detached \/ s.overlay[r].held = read.known[r])
            THEN s.overlay[r] ELSE None
  <2>1. CASE read.detached
    BY <1>1, <2>1 DEF Reconciled
  <2>2. CASE ~read.detached
    <3>1. kept = [read EXCEPT !.overlay = [r \in Regs |->
                     IF read.overlay[r] # None /\ Rewritten(read.known[r], read.overlay[r])
                     THEN None ELSE read.overlay[r]]]
      BY <1>1, <2>2 DEF Reconciled, TabState
    <3> QED
      BY <3>1, <1>1, <2>2 DEF TabState, Rewritten
  <2> QED
    BY <2>1, <2>2
<1>4. kept \in TabState
  <2>1. kept = read \/ kept = [read EXCEPT !.overlay = [r \in Regs |->
                     IF read.overlay[r] # None /\ Rewritten(read.known[r], read.overlay[r])
                     THEN None ELSE read.overlay[r]]]
    BY <1>1 DEF Reconciled, TabState
  <2>2. [r \in Regs |-> IF read.overlay[r] # None /\ Rewritten(read.known[r], read.overlay[r])
                        THEN None ELSE read.overlay[r]] \in [Regs -> Override \cup {None}]
    BY <1>1 DEF TabState
  <2> QED
    BY <2>1, <2>2, <1>1 DEF TabState
<1> HIDE DEF kept
<1>5. ClearsNoticed(kept)
          = [kept EXCEPT !.missed = {},
                         !.overlay = [r \in Regs |->
                              IF kept.overlay[r] # None /\ Gone(kept.overlay[r], kept.missed)
                              THEN None ELSE kept.overlay[r]]]
  BY <1>4 DEF ClearsNoticed, TabState, Gone
<1>6. CASE readable
  BY <1>1, <1>2, <1>3, <1>4, <1>5, <1>6 DEF TabState, Survives
<1>7. CASE ~readable
  BY <1>1, <1>2, <1>3, <1>7 DEF Survives
<1> QED
  BY <1>6, <1>7

---------------------------------------------------------------------------
(* Writing *)

\* What the change of tab t to next, after a read that left it in state s, leaves
\* in tab t (x) and in storage.
Outcome(t, s, readable, next, x) ==
    /\ x \in TabState
    /\ tab' = [tab EXCEPT ![t] = x]
    /\ x.missed = s.missed
    /\ x.overlay = Overrides(next, x.known)
    /\ refusable = {} => x.known = next /\ storage' = next /\ ~x.detached
    /\ \/ /\ storage' = x.known
          /\ ~x.detached
          /\ readable \/ s.detached
          /\ \A r \in Regs : PartOf(x.known[r], next[r])
       \/ /\ storage' = storage
          /\ x.detached
          /\ x.known = NoEntries
          /\ readable \/ s.detached
          /\ "removal" \in refusable
       \/ /\ storage' = storage
          /\ x.known = s.known
          /\ ~x.detached /\ ~s.detached
          /\ ~readable

\* A change has one of three outcomes: written as far as storage takes it, kept
\* because the removal failed, or kept because the read did.
LEMMA ApplyOutcome ==
    ASSUME NEW t \in Tabs, NEW s \in TabState, NEW readable \in Readable,
           NEW next \in Document, storage \in Document,
           Apply(t, s, readable, next)
    PROVE  \E x : Outcome(t, s, readable, next, x)
<1>1. CASE readable \/ s.detached
  <2>1. PICK failed \in Failures : Persist(t, s, next, failed)
    BY <1>1 DEF Apply
  <2>2. failed \subseteq refusable
    BY DEF Failures
  <2> DEFINE small == KeptSmaller(s, next)
             base == IF s.detached THEN NoEntries ELSE s.known
             kept == Agreed(next, base)
  <2>3. CASE failed = {} /\ storage' = next /\ tab' = [tab EXCEPT ![t] = Written(s, next)]
    <3>1. Overrides(next, next) = NoOverrides
      BY DEF Overrides, NoOverrides
    <3>2. \A r \in Regs : PartOf(next[r], next[r])
      BY DEF PartOf
    <3>3. Written(s, next) \in TabState
      BY EmptyTypes DEF Written, TabState
    <3>4. /\ Written(s, next).missed = s.missed /\ Written(s, next).known = next
          /\ Written(s, next).overlay = NoOverrides /\ ~Written(s, next).detached
      BY DEF Written, TabState
    <3> QED
      BY <1>1, <2>3, <3>1, <3>2, <3>3, <3>4 DEF Outcome
  <2>4. CASE failed = {"write"} /\ storage' = small.known /\ tab' = [tab EXCEPT ![t] = small]
    <3>1. base \in Document
      BY EmptyTypes DEF TabState
    <3>2. kept \in Document /\ \A r \in Regs : PartOf(kept[r], next[r])
      BY <3>1, AgreedPart
    <3>3. small = [s EXCEPT !.known = kept, !.overlay = Overrides(next, kept),
                            !.detached = FALSE]
      BY DEF KeptSmaller
    <3> HIDE DEF small, kept
    <3>4. Overrides(next, kept) \in [Regs -> Override \cup {None}]
      BY <3>2, OverridesType
    <3>5. small \in TabState
      BY <3>2, <3>3, <3>4 DEF TabState
    <3>6. /\ small.missed = s.missed /\ small.known = kept
          /\ small.overlay = Overrides(next, kept) /\ ~small.detached
      BY <3>3 DEF TabState
    <3> QED
      BY <1>1, <2>2, <2>4, <3>2, <3>5, <3>6 DEF Outcome
  <2>5. CASE /\ "smaller" \in failed
             /\ storage' = IF "removal" \in failed THEN storage ELSE NoEntries
             /\ tab' = [tab EXCEPT ![t] = Removed(s, next, failed)]
    <3>1. Overrides(next, NoEntries) \in [Regs -> Override \cup {None}]
      BY EmptyTypes, OverridesType
    <3> DEFINE gone == "removal" \in failed
    <3>2. gone \in BOOLEAN
      OBVIOUS
    <3>3. Removed(s, next, failed)
            = [s EXCEPT !.known = NoEntries, !.overlay = Overrides(next, NoEntries),
                        !.detached = gone]
      BY DEF Removed
    <3> HIDE DEF gone
    <3>4. Removed(s, next, failed) \in TabState
      BY EmptyTypes, <3>1, <3>2, <3>3 DEF TabState
    <3> USE DEF gone
    <3>5. /\ Removed(s, next, failed).missed = s.missed
          /\ Removed(s, next, failed).known = NoEntries
          /\ Removed(s, next, failed).overlay = Overrides(next, NoEntries)
          /\ Removed(s, next, failed).detached = ("removal" \in failed)
      BY DEF Removed, TabState
    <3>6. \A r \in Regs : PartOf(NoEntries[r], next[r])
      BY DEF PartOf, NoEntries, NoSlot
    <3> QED
      BY <1>1, <2>2, <2>5, <3>4, <3>5, <3>6 DEF Outcome
  <2> QED
    BY <2>1, <2>3, <2>4, <2>5 DEF Persist
<1>2. CASE ~(readable \/ s.detached)
  <2> DEFINE x == [s EXCEPT !.overlay = Overrides(next, s.known)]
  <2>1. tab' = [tab EXCEPT ![t] = x] /\ storage' = storage
    BY <1>2 DEF Apply, Hold
  <2>2. "read" \in refusable
    BY <1>2 DEF Readable
  <2>3. s.known \in Document
    BY DEF TabState
  <2>4. Overrides(next, s.known) \in [Regs -> Override \cup {None}]
    BY <2>3, OverridesType
  <2>5. /\ x \in TabState /\ x.missed = s.missed /\ x.known = s.known
        /\ x.overlay = Overrides(next, s.known) /\ x.detached = s.detached
    BY <2>4 DEF TabState
  <2> HIDE DEF x
  <2> QED
    BY <1>2, <2>1, <2>2, <2>5 DEF Outcome
<1> QED
  BY <1>1, <1>2

---------------------------------------------------------------------------
(* The invariant *)

\* The marks of a registration's slot are marks tapped for that registration.
Sites(r) == {None} \cup {m \in 1..Len(taps) : RegOf(m) = r}

SitedSlot(slot, r) ==
    slot.pending \in Sites(r) /\ slot.confirmed \in Sites(r) /\ slot.refused \in Sites(r)

Sited ==
    \A r \in Regs :
        /\ SitedSlot(storage[r], r)
        /\ \A t \in Tabs :
              /\ SitedSlot(tab[t].known[r], r)
              /\ tab[t].overlay[r] # None => SitedSlot(tab[t].overlay[r].mine, r)

\* An override was made over the document the tab knows.
KnownHeld ==
    \A t \in Tabs, r \in Regs :
        tab[t].overlay[r] # None => tab[t].overlay[r].held = tab[t].known[r]

\* Tab t holds m itself; storage held it too; the tab has still to notice a clear
\* that covers it.
Mine(t, m) == tab[t].overlay[RegOf(m)] # None /\ tab[t].overlay[RegOf(m)].mine.pending = m
Old(t, m) == tab[t].overlay[RegOf(m)].held.pending = m
Unnoticed(t, m) == Everything \in tab[t].missed \/ OwnerOf(m) \in tab[t].missed

\* A mark that is over is in no storage, and a tab holds it only in an override it
\* drops at its next read.
OverDropped ==
    \A m \in over :
        /\ storage[RegOf(m)].pending # m
        /\ \A t \in Tabs : Mine(t, m) => Old(t, m) \/ Unnoticed(t, m)

\* One tab at most holds a mark storage did not hold when it was overridden.
SoleHolder ==
    \A m \in 1..Len(taps), t \in Tabs :
        Mine(t, m) /\ ~Old(t, m) =>
            /\ storage[RegOf(m)].pending # m
            /\ \A u \in Tabs \ {t} : Mine(u, m) => Old(u, m)

\* Between a clear and its record neither storage nor the tab that clears holds
\* what it covers.
ClearedHere ==
    Locked =>
        /\ \A m \in Covered(clearing.what) :
              storage[RegOf(m)].pending # m /\ ~Mine(clearing.tab, m)
        /\ tab[clearing.tab].missed = {} \/ tab[clearing.tab].overlay = NoOverrides

\* Storage can be read and removed on this device.
Quiet == refusable \cap {"read", "removal"} = {}

QuietInv ==
    Quiet => /\ \A t \in Tabs : ~tab[t].detached
             /\ OverDropped /\ SoleHolder /\ ClearedHere

\* While nothing is refused, no tab holds anything itself, and a mark nobody
\* settled or cleared is stored unless a newer one took its place.
WholeInv ==
    refusable = {} =>
        /\ \A t \in Tabs : tab[t].overlay = NoOverrides
        /\ \A m \in Live : \/ storage[RegOf(m)].pending = m
                           \/ Newer(m) # {}
                           \/ Locked /\ m \in Covered(clearing.what)

OverTapped == over \subseteq 1..Len(taps)

IInv == TypeOK /\ Sited /\ KnownHeld /\ QuietInv /\ WholeInv /\ OverTapped

\* The mark of a tap has a registration and is a mark.
LEMMA MarkTypes ==
    ASSUME TypeOK, NEW m \in 1..Len(taps)
    PROVE  RegOf(m) \in Regs /\ m \in Marks /\ m # None
<1>1. taps \in Seq([tab : Tabs, reg : Regs]) /\ Len(taps) \in Nat /\ Len(taps) <= MaxMarks
  BY DEF TypeOK
<1>2. taps[m] \in [tab : Tabs, reg : Regs]
  BY <1>1, ElementOfSeq
<1>3. m \in Marks
  BY <1>1, BoundAssumption DEF Marks
<1> QED
  BY <1>2, <1>3, NoneAssumption DEF RegOf

\* Whether a read throws is a truth value.
LEMMA ReadableBoolean == Readable \subseteq BOOLEAN
  BY DEF Readable

\* The state of a tab after its read, and what the tab then shows, have their types.
LEMMA AfterReadType ==
    ASSUME TypeOK, NEW t \in Tabs, NEW readable \in Readable
    PROVE  /\ AfterRead(tab[t], readable) \in TabState
           /\ View(AfterRead(tab[t], readable)) \in Document
<1>1. tab[t] \in TabState /\ storage \in Document
  BY DEF TypeOK
<1>2. AfterRead(tab[t], readable) \in TabState
  BY <1>1, ReadType, ReadableBoolean
<1> QED
  BY <1>2, ViewType

\* What a tab would show after a read is a document.
LEMMA ShownType ==
    ASSUME TypeOK, NEW t \in Tabs
    PROVE  Shown(t) \in Document
  BY AfterReadType DEF Shown, Readable

\* What a tab shows for a registration are marks of that registration.
LEMMA ViewSited ==
    ASSUME TypeOK, Sited, NEW t \in Tabs, NEW readable \in BOOLEAN, NEW r \in Regs
    PROVE  SitedSlot(View(AfterRead(tab[t], readable))[r], r)
<1> DEFINE a == AfterRead(tab[t], readable)
<1>1. tab[t] \in TabState /\ storage \in Document
  BY DEF TypeOK
<1>2. /\ a.known = storage \/ a.known = tab[t].known
      /\ a.overlay[r] # None => a.overlay[r] = tab[t].overlay[r]
  BY <1>1, ReadDoes
<1> HIDE DEF a
<1>3. View(a)[r] = IF a.overlay[r] # None THEN a.overlay[r].mine
                   ELSE IF a.detached THEN NoSlot ELSE a.known[r]
  BY DEF View
<1>4. SitedSlot(NoSlot, r)
  BY DEF SitedSlot, NoSlot, Sites
<1> QED
  BY <1>2, <1>3, <1>4 DEF Sited, a

---------------------------------------------------------------------------
(* Operations *)

\* The marks the step makes, for registration r.
NewMarks(r) == {m \in 1..Len(taps') : m > Len(taps) /\ taps'[m].reg = r}

\* A slot made from one the tab showed: a mark stays, moves on to an outcome, goes
\* away, or is the new one.
MadeFrom(slot, shown, r) ==
    /\ slot.pending \in {shown.pending, None} \cup NewMarks(r)
    /\ slot.confirmed \in {shown.confirmed, shown.pending, None}
    /\ slot.refused \in {shown.refused, shown.pending, None}

\* What every change of a tab's document to next has in common: the document is
\* made from what the tab showed; a mark that is over from now on was shown and is
\* not in it; one it drops is over, or covered by the clear that begins here.
Edit(t, readable, next) ==
    /\ readable \in Readable
    /\ next \in Document
    /\ Apply(t, AfterRead(tab[t], readable), readable, next)
    /\ \A r \in Regs : MadeFrom(next[r], View(AfterRead(tab[t], readable))[r], r)
    /\ taps' \in Seq([tab : Tabs, reg : Regs]) /\ Len(taps') <= MaxMarks
    /\ Len(taps) <= Len(taps')
    /\ \A m \in 1..Len(taps) : taps'[m] = taps[m]
    /\ \A r \in Regs : \A m \in NewMarks(r) : next[r].pending = m
    /\ over \subseteq over'
    /\ \A m \in over' \ over : /\ m \in 1..Len(taps)
                               /\ Shown(t)[RegOf(m)].pending = m
                               /\ next[RegOf(m)].pending # m
    /\ ~Locked
    /\ \/ clearing' = None
       \/ /\ clearing' \in Clear /\ clearing' # None /\ clearing'.tab = t
          /\ taps' = taps
          /\ \A m \in Covered(clearing'.what) : next[RegOf(m)].pending # m
    /\ \A m \in 1..Len(taps) :
          /\ Shown(t)[RegOf(m)].pending = m
          /\ View(AfterRead(tab[t], readable))[RegOf(m)].pending = m
          /\ next[RegOf(m)].pending # m
          => \/ m \in over'
             \/ clearing' # None /\ m \in Covered(clearing'.what)
    /\ UNCHANGED <<lost, refusable>>

\* A tap is an edit: it makes the next mark and replaces the pending one.
LEMMA TapEdits ==
    ASSUME TypeOK, Sited, NEW t \in Tabs, NEW r \in Regs, Tap(t, r)
    PROVE  \E readable, next : Edit(t, readable, next)
<1> DEFINE m == Len(taps) + 1
<1>1. PICK readable \in Readable :
          Apply(t, AfterRead(tab[t], readable), readable,
                [View(AfterRead(tab[t], readable)) EXCEPT ![r].pending = m])
  BY DEF Tap, Change
<1> DEFINE shown == View(AfterRead(tab[t], readable))
           next == [shown EXCEPT ![r].pending = m]
<1>2. shown \in Document
  BY AfterReadType
<1>3. Shown(t) \in Document
  BY ShownType
<1>4. /\ taps \in Seq([tab : Tabs, reg : Regs]) /\ Len(taps) \in Nat
      /\ m \in Marks /\ m # None
  BY NoneAssumption DEF TypeOK, Tap
<1>5. /\ taps' = Append(taps, [tab |-> t, reg |-> r])
      /\ taps' \in Seq([tab : Tabs, reg : Regs]) /\ Len(taps') = m /\ m <= MaxMarks
      /\ \A k \in 1..Len(taps) : taps'[k] = taps[k]
      /\ taps'[m].reg = r
  BY <1>4 DEF Tap, Marks
<1>6. NewMarks(r) = {m} /\ \A q \in Regs \ {r} : NewMarks(q) = {}
  BY <1>4, <1>5 DEF NewMarks
<1>7. next \in Document
  BY <1>2, <1>4 DEF Document, Slot, Entry
<1>8. /\ next[r].pending = m /\ next[r].confirmed = shown[r].confirmed
      /\ next[r].refused = shown[r].refused
      /\ \A q \in Regs \ {r} : next[q] = shown[q]
  BY <1>2 DEF Document, Slot
<1> HIDE DEF shown, next
<1>9. \A q \in Regs : MadeFrom(next[q], shown[q], q)
  BY <1>6, <1>8 DEF MadeFrom
<1>10. \A q \in Regs : \A k \in NewMarks(q) : next[q].pending = k
  BY <1>6, <1>8
<1>11. over' = over \cup ({Shown(t)[r].pending} \ {None}) /\ ~Locked /\ clearing' = None
  BY DEF Tap, Locked
<1>12. \/ Shown(t)[r].pending = None
       \/ Shown(t)[r].pending \in 1..Len(taps) /\ RegOf(Shown(t)[r].pending) = r
  BY ViewSited DEF Shown, SitedSlot, Sites
<1>13. \A k \in over' \ over : /\ k \in 1..Len(taps)
                               /\ Shown(t)[RegOf(k)].pending = k
                               /\ next[RegOf(k)].pending # k
  BY <1>4, <1>8, <1>11, <1>12
<1>14. ASSUME NEW k \in 1..Len(taps), Shown(t)[RegOf(k)].pending = k,
              shown[RegOf(k)].pending = k, next[RegOf(k)].pending # k
       PROVE  k \in over'
  <2>1. RegOf(k) \in Regs
    BY MarkTypes
  <2>2. RegOf(k) = r
    BY <1>8, <1>14, <2>1
  <2> QED
    BY <1>11, <1>14, <2>2, MarkTypes
<1>15. UNCHANGED <<lost, refusable>>
  BY DEF Tap
<1>16. Apply(t, AfterRead(tab[t], readable), readable, next)
  BY <1>1 DEF shown, next
<1>17. Edit(t, readable, next)
  BY <1>4, <1>5, <1>7, <1>9, <1>10, <1>11, <1>13, <1>14, <1>15, <1>16 DEF Edit, shown
<1> QED
  BY <1>17

\* An answer is an edit: it takes the pending mark, if it is the one sent.
LEMMA SettleEdits ==
    ASSUME TypeOK, NEW t \in Tabs, NEW m \in 1..Len(taps), NEW kind \in Outcomes,
           Settle(t, m, kind)
    PROVE  \E readable, next : Edit(t, readable, next)
<1>1. PICK readable \in Readable :
          Apply(t, AfterRead(tab[t], readable), readable,
                LET shown == View(AfterRead(tab[t], readable))
                IN  IF IsPending(shown, m)
                    THEN [shown EXCEPT ![RegOf(m)] = SettledSlot(@, kind)] ELSE shown)
  BY DEF Settle, Change
<1> DEFINE shown == View(AfterRead(tab[t], readable))
           next == IF IsPending(shown, m)
                   THEN [shown EXCEPT ![RegOf(m)] = SettledSlot(@, kind)] ELSE shown
           old == shown[RegOf(m)]
           new == SettledSlot(old, kind)
<1>2. shown \in Document
  BY AfterReadType
<1>3. RegOf(m) \in Regs /\ m # None
  BY MarkTypes
<1>4. old \in Slot
  BY <1>2, <1>3 DEF Document
<1>5. Apply(t, AfterRead(tab[t], readable), readable, next)
  BY <1>1
<1>6. /\ new \in Slot /\ new.pending = None
      /\ new.confirmed \in {old.confirmed, old.pending, None}
      /\ new.refused \in {old.refused, old.pending, None}
  BY <1>4, EmptyTypes DEF SettledSlot, Slot, Outcomes
<1>7. /\ next \in Document
      /\ IsPending(shown, m) => next[RegOf(m)] = new
      /\ \A r \in Regs : next[r] # shown[r] => r = RegOf(m) /\ IsPending(shown, m)
  BY <1>2, <1>3, <1>6 DEF Document
<1> HIDE DEF next, new
<1>8. \A r \in Regs : MadeFrom(next[r], shown[r], r)
  BY <1>6, <1>7 DEF MadeFrom
<1>9. /\ over' = IF IsPending(Shown(t), m) THEN over \cup {m} ELSE over
      /\ ~Locked /\ clearing' = None /\ UNCHANGED <<taps, lost, refusable>>
  BY DEF Settle, Locked
<1>10. /\ taps \in Seq([tab : Tabs, reg : Regs]) /\ Len(taps) <= MaxMarks
       /\ Len(taps) <= Len(taps') /\ \A r \in Regs : NewMarks(r) = {}
  BY <1>9 DEF TypeOK, NewMarks
<1>11. next[RegOf(m)].pending # m
  BY <1>3, <1>6, <1>7 DEF IsPending
<1>12. ASSUME NEW k \in 1..Len(taps), Shown(t)[RegOf(k)].pending = k,
              shown[RegOf(k)].pending = k, next[RegOf(k)].pending # k
       PROVE  k \in over'
  <2>1. RegOf(k) = RegOf(m) /\ IsPending(shown, m)
    BY <1>7, <1>12, MarkTypes
  <2> QED
    BY <1>9, <1>12, <2>1 DEF IsPending
<1> HIDE DEF shown
<1>13. Edit(t, readable, next)
  BY <1>5, <1>7, <1>8, <1>9, <1>10, <1>11, <1>12 DEF Edit, shown, IsPending
<1> QED
  BY <1>13

\* Dismissing a refusal is an edit that touches no pending mark.
LEMMA DismissEdits ==
    ASSUME TypeOK, NEW t \in Tabs, NEW r \in Regs, DismissRefused(t, r)
    PROVE  \E readable, next : Edit(t, readable, next)
<1>1. PICK readable \in Readable :
          Apply(t, AfterRead(tab[t], readable), readable,
                [View(AfterRead(tab[t], readable)) EXCEPT ![r].refused = None])
  BY DEF DismissRefused, Change
<1> DEFINE shown == View(AfterRead(tab[t], readable))
           next == [shown EXCEPT ![r].refused = None]
<1>2. shown \in Document
  BY AfterReadType
<1>3. /\ next \in Document
      /\ \A q \in Regs : /\ next[q].pending = shown[q].pending
                         /\ next[q].confirmed = shown[q].confirmed
                         /\ next[q].refused \in {shown[q].refused, None}
  BY <1>2, EmptyTypes DEF Document, Slot
<1>4. Apply(t, AfterRead(tab[t], readable), readable, next)
  BY <1>1
<1> HIDE DEF next
<1>5. \A q \in Regs : MadeFrom(next[q], shown[q], q)
  BY <1>3 DEF MadeFrom
<1>6. ~Locked /\ clearing' = None /\ UNCHANGED <<taps, over, lost, refusable>>
  BY DEF DismissRefused, Locked
<1>7. /\ taps \in Seq([tab : Tabs, reg : Regs]) /\ Len(taps) <= MaxMarks
      /\ Len(taps) <= Len(taps') /\ \A q \in Regs : NewMarks(q) = {}
  BY <1>6 DEF TypeOK, NewMarks
<1>8. \A k \in 1..Len(taps) : next[RegOf(k)].pending = shown[RegOf(k)].pending
  BY <1>3, MarkTypes
<1> HIDE DEF shown
<1>9. Edit(t, readable, next)
  BY <1>3, <1>4, <1>5, <1>6, <1>7, <1>8 DEF Edit, shown
<1> QED
  BY <1>9

\* Clearing an account's marks is an edit that leaves none of its pending marks.
LEMMA ClearOwnedEdits ==
    ASSUME TypeOK, NEW t \in Tabs, NEW o \in Owners, ClearOwned(t, o)
    PROVE  \E readable, next : Edit(t, readable, next)
<1> DEFINE kept(m) == IF OwnedBy(m, {o}) THEN None ELSE m
<1>1. PICK readable \in Readable :
          Apply(t, AfterRead(tab[t], readable), readable,
                [r \in Regs |-> [View(AfterRead(tab[t], readable))[r]
                                    EXCEPT !.pending = kept(@), !.refused = kept(@)]])
  BY DEF ClearOwned, Change
<1> DEFINE shown == View(AfterRead(tab[t], readable))
           next == [r \in Regs |-> [shown[r] EXCEPT !.pending = kept(@), !.refused = kept(@)]]
<1>2. shown \in Document
  BY AfterReadType
<1>3. /\ next \in Document
      /\ \A r \in Regs : /\ next[r].pending = kept(shown[r].pending)
                         /\ next[r].confirmed = shown[r].confirmed
                         /\ next[r].refused = kept(shown[r].refused)
  BY <1>2, EmptyTypes DEF Document, Slot
<1>4. Apply(t, AfterRead(tab[t], readable), readable, next)
  BY <1>1
<1> HIDE DEF next
<1>5. \A r \in Regs : MadeFrom(next[r], shown[r], r)
  BY <1>3 DEF MadeFrom
<1>6. /\ ~Locked /\ clearing' = [tab |-> t, what |-> o]
      /\ UNCHANGED <<taps, over, lost, refusable>>
  BY DEF ClearOwned, Locked
<1>7. /\ taps \in Seq([tab : Tabs, reg : Regs]) /\ Len(taps) <= MaxMarks
      /\ Len(taps) <= Len(taps') /\ \A r \in Regs : NewMarks(r) = {}
  BY <1>6 DEF TypeOK, NewMarks
<1>8. clearing' \in Clear /\ clearing' # None /\ clearing'.tab = t /\ clearing'.what = o
  BY <1>6, NoneAssumption DEF Clear
<1>9. ASSUME NEW m \in 1..Len(taps), OwnerOf(m) = o
      PROVE  next[RegOf(m)].pending # m
  BY <1>3, <1>9, MarkTypes DEF OwnedBy
<1>10. \A m \in Covered(o) : m \in 1..Len(taps) /\ next[RegOf(m)].pending # m
  BY <1>9, EverythingAssumption DEF Covered
<1>11. ASSUME NEW m \in 1..Len(taps), shown[RegOf(m)].pending = m, next[RegOf(m)].pending # m
       PROVE  m \in Covered(o)
  BY <1>3, <1>11, MarkTypes DEF OwnedBy, Covered
<1> HIDE DEF shown
<1>12. Edit(t, readable, next)
  BY <1>3, <1>4, <1>5, <1>6, <1>7, <1>8, <1>10, <1>11 DEF Edit, shown
<1> QED
  BY <1>12

\* A retry writes what the tab shows, or is a read that left nothing to write.
LEMMA RetryEdits ==
    ASSUME TypeOK, NEW t \in Tabs, RetryWrite(t)
    PROVE  \/ Read(t)
           \/ \E readable, next : Edit(t, readable, next)
<1>1. PICK readable \in Readable :
          LET s == AfterRead(tab[t], readable)
          IN  IF s.overlay = NoOverrides
              THEN tab' = [tab EXCEPT ![t] = s] /\ UNCHANGED storage
              ELSE Apply(t, s, readable, View(s))
  BY DEF RetryWrite
<1> DEFINE shown == View(AfterRead(tab[t], readable))
<1>2. ~Locked /\ clearing' = None /\ UNCHANGED <<taps, clearing, over, lost, refusable>>
  BY DEF RetryWrite, Locked
<1>3. CASE Apply(t, AfterRead(tab[t], readable), readable, shown)
  <2>1. shown \in Document
    BY AfterReadType
  <2>2. \A r \in Regs : MadeFrom(shown[r], shown[r], r)
    BY DEF MadeFrom
  <2>3. /\ taps \in Seq([tab : Tabs, reg : Regs]) /\ Len(taps) <= MaxMarks
        /\ Len(taps) <= Len(taps') /\ \A r \in Regs : NewMarks(r) = {}
    BY <1>2 DEF TypeOK, NewMarks
  <2> HIDE DEF shown
  <2>4. Edit(t, readable, shown)
    BY <1>2, <1>3, <2>1, <2>2, <2>3 DEF Edit, shown
  <2> QED
    BY <2>4
<1>4. CASE tab' = [tab EXCEPT ![t] = AfterRead(@, readable)] /\ UNCHANGED storage
  BY <1>2, <1>4 DEF Read
<1> QED
  BY <1>1, <1>3, <1>4

---------------------------------------------------------------------------
(* Edits preserve the invariant *)

\* An edit has an outcome.
LEMMA EditOutcome ==
    ASSUME TypeOK, NEW t \in Tabs, NEW readable, NEW next, Edit(t, readable, next)
    PROVE  /\ readable \in BOOLEAN /\ next \in Document
           /\ AfterRead(tab[t], readable) \in TabState
           /\ \E x : Outcome(t, AfterRead(tab[t], readable), readable, next, x)
<1>1. readable \in Readable /\ next \in Document
      /\ Apply(t, AfterRead(tab[t], readable), readable, next)
  BY DEF Edit
<1>2. AfterRead(tab[t], readable) \in TabState /\ storage \in Document
  BY <1>1, AfterReadType DEF TypeOK
<1> QED
  BY <1>1, <1>2, ApplyOutcome, ReadableBoolean

\* What an outcome leaves in each tab: x in tab t, and in the others what they had.
Leaves(t, next, x) ==
    /\ x \in TabState /\ x.known \in Document /\ tab'[t] = x
    /\ \A u \in Tabs \ {t} : tab'[u] = tab[u]
    /\ tab' \in [Tabs -> TabState]
    /\ \A r \in Regs :
          /\ x.overlay[r] = None <=> next[r] = x.known[r]
          /\ x.overlay[r] # None => /\ x.overlay[r].mine = next[r]
                                    /\ x.overlay[r].held = x.known[r]

LEMMA OutcomeLeaves ==
    ASSUME TypeOK, NEW t \in Tabs, NEW s, NEW readable, NEW next \in Document, NEW x,
           Outcome(t, s, readable, next, x)
    PROVE  Leaves(t, next, x)
<1>1. x \in TabState /\ tab' = [tab EXCEPT ![t] = x] /\ x.overlay = Overrides(next, x.known)
  BY DEF Outcome
<1>2. tab \in [Tabs -> TabState]
  BY DEF TypeOK
<1>3. x.known \in Document
  BY <1>1 DEF TabState
<1> QED
  BY <1>1, <1>2, <1>3, OverridesAt DEF Leaves

\* An edit keeps the types.
LEMMA EditTyped ==
    ASSUME TypeOK, NEW t \in Tabs, NEW readable, NEW next, Edit(t, readable, next)
    PROVE  TypeOK'
<1>1. PICK x : Outcome(t, AfterRead(tab[t], readable), readable, next, x)
  BY EditOutcome
<1>2. next \in Document /\ AfterRead(tab[t], readable) \in TabState
  BY EditOutcome
<1>3. tab' \in [Tabs -> TabState] /\ x.known \in Document
  BY <1>1, <1>2, OutcomeLeaves DEF Leaves
<1>4. storage' \in Document
  BY <1>1, <1>3 DEF Outcome, TypeOK
<1>5. over' \subseteq Marks
  BY MarkTypes DEF Edit, TypeOK
<1> QED
  BY <1>3, <1>4, <1>5 DEF Edit, TypeOK

\* The sites of a registration only grow.
LEMMA SitesGrow ==
    ASSUME TypeOK, NEW r \in Regs, Len(taps) <= Len(taps'), Len(taps') \in Nat,
           \A m \in 1..Len(taps) : taps'[m] = taps[m]
    PROVE  Sites(r) \subseteq Sites(r)'
<1>1. Len(taps) \in Nat
  BY DEF TypeOK
<1> QED
  BY <1>1 DEF Sites, RegOf

\* An edit puts no mark in the slot of another registration.
LEMMA EditSited ==
    ASSUME TypeOK, Sited, NEW t \in Tabs, NEW readable, NEW next, Edit(t, readable, next)
    PROVE  Sited'
<1> DEFINE a == AfterRead(tab[t], readable)
<1>1. PICK x : Outcome(t, a, readable, next, x)
  BY EditOutcome
<1>2. next \in Document /\ a \in TabState /\ readable \in BOOLEAN
  BY EditOutcome
<1> SUFFICES ASSUME NEW r \in Regs
             PROVE  /\ SitedSlot(storage[r], r)'
                    /\ \A u \in Tabs :
                          /\ SitedSlot(tab[u].known[r], r)'
                          /\ (tab[u].overlay[r] # None => SitedSlot(tab[u].overlay[r].mine, r))'
  BY DEF Sited
<1>3. Sites(r) \subseteq Sites(r)'
  BY SitesGrow DEF Edit
<1>4. NewMarks(r) \subseteq Sites(r)' /\ None \in Sites(r)'
  BY DEF NewMarks, Sites, RegOf
<1>5. MadeFrom(next[r], View(a)[r], r)
  BY DEF Edit
<1>6. SitedSlot(View(a)[r], r)
  BY <1>2, ViewSited
<1>7. SitedSlot(next[r], r)'
  BY <1>3, <1>4, <1>5, <1>6 DEF MadeFrom, SitedSlot
<1>8. SitedSlot(storage[r], r) /\ \A u \in Tabs : SitedSlot(tab[u].known[r], r)
  BY DEF Sited
<1>9. a.known = storage \/ a.known = tab[t].known
  BY <1>2, ReadDoes DEF TypeOK
<1>10. SitedSlot(x.known[r], r)'
  <2>1. \/ PartOf(x.known[r], next[r])
        \/ x.known[r] = NoSlot
        \/ x.known = a.known
    BY <1>1 DEF Outcome, NoEntries
  <2> HIDE DEF a
  <2> QED
    BY <2>1, <1>3, <1>4, <1>7, <1>8, <1>9 DEF PartOf, SitedSlot, NoSlot
<1>11. SitedSlot(storage[r], r)'
  <2>1. storage' = x.known \/ storage' = storage
    BY <1>1 DEF Outcome
  <2> QED
    BY <2>1, <1>3, <1>8, <1>10 DEF SitedSlot
<1>12. Leaves(t, next, x)
  BY <1>1, <1>2, OutcomeLeaves
<1>13. ASSUME NEW u \in Tabs
       PROVE  /\ SitedSlot(tab[u].known[r], r)'
              /\ (tab[u].overlay[r] # None => SitedSlot(tab[u].overlay[r].mine, r))'
  <2>1. CASE u = t
    BY <2>1, <1>12, <1>7, <1>10 DEF Leaves
  <2>2. CASE u # t
    <3>1. tab'[u] = tab[u]
      BY <2>2, <1>12 DEF Leaves
    <3>2. tab[u].overlay[r] # None => SitedSlot(tab[u].overlay[r].mine, r)
      BY DEF Sited
    <3> QED
      BY <3>1, <3>2, <1>3, <1>8 DEF SitedSlot
  <2> QED
    BY <2>1, <2>2
<1> QED
  BY <1>11, <1>13

\* An edit overrides the document the tab then knows.
LEMMA EditKnownHeld ==
    ASSUME TypeOK, KnownHeld, NEW t \in Tabs, NEW readable, NEW next, Edit(t, readable, next)
    PROVE  KnownHeld'
<1>1. PICK x : Outcome(t, AfterRead(tab[t], readable), readable, next, x)
  BY EditOutcome
<1>2. next \in Document
  BY EditOutcome
<1>3. Leaves(t, next, x)
  BY <1>1, <1>2, OutcomeLeaves
<1> QED
  BY <1>3 DEF KnownHeld, Leaves

\* On a quiet device a mark a tab shows is not over, and any other tab that holds
\* it took it over from storage.
LEMMA QuietShown ==
    ASSUME TypeOK, QuietInv, Quiet, NEW t \in Tabs, NEW m \in 1..Len(taps),
           Shown(t)[RegOf(m)].pending = m
    PROVE  m \notin over /\ \A u \in Tabs \ {t} : Mine(u, m) => Old(u, m)
<1> DEFINE r == RegOf(m)
           a == AfterRead(tab[t], TRUE)
<1>1. r \in Regs /\ m # None
  BY MarkTypes
<1>2. tab[t] \in TabState /\ storage \in Document /\ ~tab[t].detached
  BY DEF TypeOK, QuietInv
<1>3. a.known = storage /\ a.detached = tab[t].detached
  BY <1>2, ReadDoes
<1>4. a.overlay[r] = IF Survives(tab[t], a.known, TRUE, r) THEN tab[t].overlay[r] ELSE None
  BY <1>1, <1>2, ReadDoes
<1>5. View(a)[r] = IF a.overlay[r] # None THEN a.overlay[r].mine
                   ELSE IF a.detached THEN NoSlot ELSE a.known[r]
  BY <1>1 DEF View
<1>6. View(a)[r].pending = m
  BY DEF Shown
<1> HIDE DEF a
<1>7. CASE a.overlay[r] = None
  <2>1. storage[r].pending = m
    BY <1>2, <1>3, <1>5, <1>6, <1>7
  <2> QED
    BY <2>1 DEF QuietInv, OverDropped, SoleHolder
<1>8. CASE a.overlay[r] # None
  <2>1. /\ Mine(t, m) /\ tab[t].overlay[r].held = storage[r]
        /\ ~Gone(tab[t].overlay[r], tab[t].missed)
    BY <1>2, <1>3, <1>4, <1>5, <1>6, <1>8 DEF Survives, Mine
  <2>2. ~Unnoticed(t, m)
    BY <1>1, <2>1 DEF Gone, Unnoticed, Mine, OwnedBy
  <2>3. Old(t, m) => storage[r].pending = m
    BY <2>1 DEF Old
  <2> QED
    BY <2>1, <2>2, <2>3 DEF QuietInv, OverDropped, SoleHolder
<1> QED
  BY <1>7, <1>8

\* On a quiet device an edit brings back nothing that is over, and leaves a mark storage
\* does not hold with one tab.
LEMMA EditQuiet ==
    ASSUME IInv, NEW t \in Tabs, NEW readable, NEW next, Edit(t, readable, next)
    PROVE  QuietInv'
<1> SUFFICES ASSUME Quiet'
             PROVE  (\A u \in Tabs : ~tab'[u].detached)
                    /\ OverDropped' /\ SoleHolder' /\ ClearedHere'
  BY DEF QuietInv
<1> USE DEF IInv
<1>1. Quiet /\ Readable = {TRUE}
  BY DEF Quiet, Readable, Edit
<1>2. readable = TRUE
  BY <1>1 DEF Edit
<1> DEFINE a == AfterRead(tab[t], TRUE)
<1>3. PICK x : Outcome(t, a, readable, next, x)
  BY <1>2, EditOutcome
<1>4. next \in Document
  BY EditOutcome
<1>5. Leaves(t, next, x)
  BY <1>3, <1>4, OutcomeLeaves
<1>6. a.missed = {}
  BY ReadDoes DEF TypeOK
<1>7. /\ storage' = x.known /\ ~x.detached /\ x.missed = {}
      /\ \A r \in Regs : PartOf(x.known[r], next[r])
  BY <1>1, <1>2, <1>3, <1>6 DEF Outcome, Quiet
<1>8. \A m \in 1..Len(taps) : RegOf(m)' = RegOf(m) /\ OwnerOf(m)' = OwnerOf(m)
  BY DEF Edit, RegOf, OwnerOf
<1>9. \A m \in 1..Len(taps) : RegOf(m) \in Regs /\ m # None
  BY MarkTypes
<1>10. ASSUME NEW m \in 1..Len(taps), next[RegOf(m)].pending = m
       PROVE  Shown(t)[RegOf(m)].pending = m
  <2>1. MadeFrom(next[RegOf(m)], Shown(t)[RegOf(m)], RegOf(m))
    BY <1>2, <1>9 DEF Edit, Shown
  <2> QED
    BY <1>9, <1>10, <2>1 DEF MadeFrom, NewMarks
<1>11. ASSUME NEW m \in 1..Len(taps), next[RegOf(m)].pending # m
       PROVE  storage'[RegOf(m)].pending # m /\ ~Mine(t, m)'
  BY <1>5, <1>7, <1>8, <1>9, <1>11 DEF PartOf, Mine, Leaves
<1>12. ASSUME NEW m \in 1..Len(taps), NEW u \in Tabs \ {t}
       PROVE  /\ Mine(u, m)' <=> Mine(u, m)
              /\ Old(u, m)' <=> Old(u, m)
              /\ Unnoticed(u, m)' <=> Unnoticed(u, m)
  BY <1>5, <1>8 DEF Mine, Old, Unnoticed, Leaves
<1>13. \A u \in Tabs : ~tab'[u].detached
  BY <1>1, <1>5, <1>7 DEF QuietInv, Leaves
<1>14. OverDropped'
  <2> SUFFICES ASSUME NEW m \in over'
               PROVE  /\ storage'[RegOf(m)'].pending # m
                      /\ \A u \in Tabs : Mine(u, m)' => Old(u, m)' \/ Unnoticed(u, m)'
    BY DEF OverDropped
  <2>1. m \in 1..Len(taps)
    BY DEF OverTapped, Edit
  <2>2. next[RegOf(m)].pending # m
    BY <1>1, <1>10, <2>1, QuietShown DEF Edit
  <2>3. ASSUME NEW u \in Tabs \ {t}, Mine(u, m) PROVE Old(u, m) \/ Unnoticed(u, m)
    BY <1>1, <2>1, <2>3, QuietShown DEF Edit, QuietInv, OverDropped
  <2> QED
    BY <1>8, <1>11, <1>12, <2>1, <2>2, <2>3
<1>15. ASSUME NEW m \in 1..Len(taps') PROVE RegOf(m)' \in Regs
  <2>1. taps' \in Seq([tab : Tabs, reg : Regs])
    BY DEF Edit
  <2>2. taps'[m] \in [tab : Tabs, reg : Regs]
    BY <2>1, ElementOfSeq
  <2> QED
    BY <2>2 DEF RegOf
<1>16. ASSUME NEW m \in 1..Len(taps'), m \notin 1..Len(taps), NEW u \in Tabs \ {t}
       PROVE  ~Mine(u, m)'
  <2>1. Len(taps) \in Nat /\ taps' \in Seq([tab : Tabs, reg : Regs]) /\ Len(taps') \in Nat
    BY DEF TypeOK, Edit
  <2>2. RegOf(m)' \in Regs
    BY <1>15
  <2>3. m # None
    BY <2>1, NoneAssumption, BoundAssumption DEF Marks, Edit
  <2>4. tab[u].overlay[RegOf(m)'] # None => SitedSlot(tab[u].overlay[RegOf(m)'].mine, RegOf(m)')
    BY <2>2 DEF Sited
  <2> QED
    BY <1>5, <1>16, <2>3, <2>4 DEF Leaves, Mine, SitedSlot, Sites
<1>17. SoleHolder'
  <2> SUFFICES ASSUME NEW m \in 1..Len(taps'), NEW u \in Tabs, Mine(u, m)', ~Old(u, m)'
               PROVE  /\ storage'[RegOf(m)'].pending # m
                      /\ \A w \in Tabs \ {u} : Mine(w, m)' => Old(w, m)'
    BY DEF SoleHolder
  <2>1. CASE u = t
    <3>1. storage'[RegOf(m)'].pending # m
      BY <1>5, <1>7, <1>15, <2>1 DEF Mine, Old, Leaves
    <3>2. CASE m \in 1..Len(taps)
      BY <1>1, <1>10, <1>11, <1>12, <2>1, <3>1, <3>2, QuietShown
    <3>3. CASE m \notin 1..Len(taps)
      BY <2>1, <3>1, <3>3, <1>16
    <3> QED
      BY <3>2, <3>3
  <2>2. CASE u # t
    <3>1. m \in 1..Len(taps) /\ Mine(u, m) /\ ~Old(u, m)
      BY <1>12, <1>16, <2>2
    <3>2. next[RegOf(m)].pending # m
      BY <1>1, <1>10, <2>2, <3>1, QuietShown
    <3>3. storage'[RegOf(m)'].pending # m /\ ~Mine(t, m)'
      BY <1>8, <1>11, <3>1, <3>2
    <3>4. \A w \in Tabs \ {u} : Mine(w, m) => Old(w, m)
      BY <1>1, <3>1 DEF QuietInv, SoleHolder
    <3> QED
      BY <1>12, <3>1, <3>3, <3>4
  <2> QED
    BY <2>1, <2>2
<1>18. ClearedHere'
  <2> SUFFICES ASSUME Locked'
               PROVE  /\ \A m \in Covered(clearing.what)' :
                            storage'[RegOf(m)'].pending # m /\ ~Mine(clearing.tab, m)'
                      /\ tab'[clearing'.tab].missed = {}
    BY DEF ClearedHere
  <2>1. /\ clearing'.tab = t /\ taps' = taps
        /\ \A m \in Covered(clearing'.what) : next[RegOf(m)].pending # m
    BY DEF Edit, Locked
  <2>2. Covered(clearing.what)' = Covered(clearing'.what)
    BY <2>1 DEF Covered, OwnerOf, RegOf
  <2>3. tab'[t].missed = {}
    BY <1>5, <1>7 DEF Leaves
  <2>4. \A m \in Covered(clearing'.what) : m \in 1..Len(taps)
    BY DEF Covered
  <2>5. \A m : Mine(clearing.tab, m)' <=> Mine(t, m)'
    BY <2>1 DEF Mine
  <2> QED
    BY <1>8, <1>11, <2>1, <2>2, <2>3, <2>4, <2>5
<1> QED
  BY <1>13, <1>14, <1>17, <1>18

\* While nothing is refused an edit stores every mark it does not put an end to.
LEMMA EditWhole ==
    ASSUME IInv, NEW t \in Tabs, NEW readable, NEW next, Edit(t, readable, next)
    PROVE  WholeInv'
<1> SUFFICES ASSUME refusable' = {}
             PROVE  /\ \A u \in Tabs : tab'[u].overlay = NoOverrides
                    /\ \A m \in Live' : \/ storage'[RegOf(m)'].pending = m
                                        \/ Newer(m)' # {}
                                        \/ Locked' /\ m \in Covered(clearing.what)'
  BY DEF WholeInv
<1> USE DEF IInv
<1>1. refusable = {} /\ Quiet /\ readable = TRUE
  BY DEF Edit, Quiet, Readable
<1> DEFINE a == AfterRead(tab[t], TRUE)
<1>2. PICK x : Outcome(t, a, readable, next, x)
  BY <1>1, EditOutcome
<1>3. next \in Document
  BY EditOutcome
<1>4. Leaves(t, next, x)
  BY <1>2, <1>3, OutcomeLeaves
<1>5. x.known = next /\ storage' = next /\ x.overlay = Overrides(next, next)
  BY <1>1, <1>2 DEF Outcome
<1>6. Overrides(next, next) = NoOverrides
  BY DEF Overrides, NoOverrides
<1>7. \A u \in Tabs : tab'[u].overlay = NoOverrides
  BY <1>1, <1>4, <1>5, <1>6 DEF Leaves, WholeInv
<1>8. ASSUME NEW m \in Live'
      PROVE  \/ storage'[RegOf(m)'].pending = m
             \/ Newer(m)' # {}
             \/ Locked' /\ m \in Covered(clearing.what)'
  <2>1. Len(taps) \in Nat /\ Len(taps') \in Nat /\ m \in 1..Len(taps') /\ m \notin over'
    BY DEF TypeOK, Live, Edit
  <2>2. CASE m \notin 1..Len(taps)
    <3>1. taps' \in Seq([tab : Tabs, reg : Regs])
      BY DEF Edit
    <3>2. taps'[m] \in [tab : Tabs, reg : Regs]
      BY <2>1, <3>1, ElementOfSeq
    <3>3. RegOf(m)' \in Regs /\ m \in NewMarks(RegOf(m)')
      BY <2>1, <2>2, <3>2 DEF RegOf, NewMarks
    <3> QED
      BY <1>5, <3>3 DEF Edit
  <2>3. CASE m \in 1..Len(taps)
    <3>1. m \in Live /\ RegOf(m) \in Regs /\ RegOf(m)' = RegOf(m)
      BY <2>1, <2>3, MarkTypes DEF Live, Edit, RegOf
    <3>2. CASE Newer(m) # {}
      <4>1. PICK n \in m + 1..Len(taps) : RegOf(n) = RegOf(m)
        BY <3>2 DEF Newer
      <4>2. n \in m + 1..Len(taps') /\ RegOf(n)' = RegOf(m)'
        BY <2>1, <2>3, <3>1, <4>1 DEF Edit, RegOf
      <4> QED
        BY <4>2 DEF Newer
    <3>3. CASE storage[RegOf(m)].pending = m
      <4>1. tab[t].overlay[RegOf(m)] = None /\ ~tab[t].detached
        BY <1>1, <3>1 DEF WholeInv, QuietInv, NoOverrides
      <4>2. a.overlay[RegOf(m)] = None /\ ~a.detached /\ a.known = storage
        BY <3>1, <4>1, ReadDoes DEF TypeOK, Survives
      <4>3. Shown(t)[RegOf(m)] = storage[RegOf(m)]
        BY <3>1, <4>2 DEF Shown, View
      <4>4. \/ next[RegOf(m)].pending = m
            \/ clearing' # None /\ m \in Covered(clearing'.what)
        BY <1>1, <2>1, <2>3, <3>3, <4>3 DEF Edit, Shown
      <4>5. clearing' # None => taps' = taps
        BY DEF Edit
      <4> QED
        BY <1>5, <3>1, <4>4, <4>5 DEF Locked, Covered, OwnerOf, RegOf
    <3> QED
      BY <1>1, <3>1, <3>2, <3>3 DEF WholeInv, Edit
  <2> QED
    BY <2>2, <2>3
<1> QED
  BY <1>7, <1>8

\* Every edit preserves the invariant.
LEMMA EditKeeps ==
    ASSUME IInv, NEW t \in Tabs, NEW readable, NEW next, Edit(t, readable, next)
    PROVE  IInv'
<1>1. TypeOK'
  BY EditTyped DEF IInv
<1>2. Sited' /\ KnownHeld'
  BY EditSited, EditKnownHeld DEF IInv
<1>3. QuietInv' /\ WholeInv'
  BY EditQuiet, EditWhole
<1>4. OverTapped'
  <2>1. Len(taps) \in Nat /\ Len(taps') \in Nat /\ Len(taps) <= Len(taps')
    BY DEF IInv, TypeOK, Edit
  <2> QED
    BY <2>1 DEF IInv, OverTapped, Edit
<1> QED
  BY <1>1, <1>2, <1>3, <1>4 DEF IInv

---------------------------------------------------------------------------
(* The steps that edit nothing preserve the invariant *)

\* The tab's overrides only go away: what it knows is the document it knew or the
\* stored one.
LEMMA ReadKeeps ==
    ASSUME IInv, NEW t \in Tabs, Read(t)
    PROVE  IInv'
<1> USE DEF IInv
<1>1. PICK readable \in Readable : tab' = [tab EXCEPT ![t] = AfterRead(@, readable)]
  BY DEF Read
<1> DEFINE a == AfterRead(tab[t], readable)
<1>2. UNCHANGED <<storage, taps, clearing, over, lost, refusable>>
  BY DEF Read
<1>3. /\ tab \in [Tabs -> TabState] /\ tab[t] \in TabState /\ storage \in Document
      /\ readable \in BOOLEAN /\ a \in TabState
  BY AfterReadType, ReadableBoolean DEF TypeOK
<1>4. /\ a.detached = tab[t].detached
      /\ a.known = IF readable /\ ~tab[t].detached THEN storage ELSE tab[t].known
      /\ a.missed = IF readable THEN {} ELSE tab[t].missed
      /\ \A r \in Regs : a.overlay[r] = IF Survives(tab[t], a.known, readable, r)
                                        THEN tab[t].overlay[r] ELSE None
  BY <1>3, ReadDoes
<1>5. tab'[t] = a /\ (\A u \in Tabs \ {t} : tab'[u] = tab[u]) /\ tab' \in [Tabs -> TabState]
  BY <1>1, <1>3
<1> HIDE DEF a
<1>6. TypeOK'
  BY <1>2, <1>5 DEF TypeOK
<1>7. Sited'
  <2> SUFFICES ASSUME NEW r \in Regs, NEW u \in Tabs
               PROVE  /\ SitedSlot(storage[r], r)'
                      /\ SitedSlot(tab[u].known[r], r)'
                      /\ (tab[u].overlay[r] # None => SitedSlot(tab[u].overlay[r].mine, r))'
    BY <1>2 DEF Sited, SitedSlot, Sites, RegOf
  <2>1. Sites(r)' = Sites(r)
    BY <1>2 DEF Sites, RegOf
  <2>2. /\ SitedSlot(storage[r], r)
        /\ SitedSlot(tab[u].known[r], r)
        /\ tab[u].overlay[r] # None => SitedSlot(tab[u].overlay[r].mine, r)
    BY DEF Sited
  <2> QED
    BY <1>2, <1>4, <1>5, <2>1, <2>2 DEF SitedSlot, Survives
<1>8. KnownHeld'
  BY <1>4, <1>5 DEF KnownHeld, Survives
<1>9. QuietInv'
  <2> SUFFICES ASSUME Quiet
               PROVE  (\A u \in Tabs : ~tab'[u].detached)
                      /\ OverDropped' /\ SoleHolder' /\ ClearedHere'
    BY <1>2 DEF QuietInv, Quiet
  <2>1. readable = TRUE
    BY DEF Quiet, Readable
  <2>2. \A m \in 1..Len(taps) : RegOf(m) \in Regs /\ m # None
    BY MarkTypes
  <2>3. \A m : RegOf(m)' = RegOf(m) /\ OwnerOf(m)' = OwnerOf(m)
    BY <1>2 DEF RegOf, OwnerOf
  <2>4. ASSUME NEW m \in 1..Len(taps), Mine(t, m)'
        PROVE  Mine(t, m) /\ (Old(t, m)' <=> Old(t, m)) /\ ~Unnoticed(t, m)
    <3>1. tab'[t].overlay[RegOf(m)] = tab[t].overlay[RegOf(m)] /\ Mine(t, m)
          /\ Survives(tab[t], a.known, TRUE, RegOf(m))
      BY <1>4, <1>5, <2>1, <2>2, <2>3, <2>4 DEF Mine
    <3> QED
      BY <2>2, <2>3, <3>1 DEF Old, Unnoticed, Survives, Gone, OwnedBy, Mine
  <2>5. ASSUME NEW m \in 1..Len(taps), NEW u \in Tabs \ {t}
        PROVE  /\ Mine(u, m)' <=> Mine(u, m)
               /\ Old(u, m)' <=> Old(u, m)
               /\ Unnoticed(u, m)' <=> Unnoticed(u, m)
    BY <1>5, <2>3 DEF Mine, Old, Unnoticed
  <2>6. \A u \in Tabs : ~tab'[u].detached
    BY <1>4, <1>5 DEF QuietInv
  <2>7. OverDropped'
    BY <1>2, <2>3, <2>4, <2>5 DEF OverDropped, QuietInv, OverTapped
  <2>8. SoleHolder'
    BY <1>2, <2>3, <2>4, <2>5 DEF SoleHolder, QuietInv
  <2>9. ClearedHere'
    <3> SUFFICES ASSUME Locked
                 PROVE  /\ \A m \in Covered(clearing.what)' :
                              storage'[RegOf(m)'].pending # m /\ ~Mine(clearing.tab, m)'
                        /\ \/ tab'[clearing.tab].missed = {}
                           \/ tab'[clearing.tab].overlay = NoOverrides
      BY <1>2 DEF ClearedHere, Locked
    <3>1. Covered(clearing.what)' = Covered(clearing.what)
          /\ Covered(clearing.what) \subseteq 1..Len(taps) /\ clearing.tab \in Tabs
      BY <1>2 DEF Covered, OwnerOf, RegOf, TypeOK, Locked, Clear
    <3>2. \A m : Mine(clearing.tab, m)' <=> (tab'[clearing.tab].overlay[RegOf(m)] # None
                        /\ tab'[clearing.tab].overlay[RegOf(m)].mine.pending = m)
      BY <1>2, <2>3 DEF Mine
    <3>3. \A m \in 1..Len(taps) : Mine(clearing.tab, m)' => Mine(clearing.tab, m)
      BY <1>2, <2>4, <2>5, <3>1, <3>2 DEF Mine
    <3>4. clearing.tab = t => tab'[clearing.tab].missed = {}
      BY <1>4, <1>5, <2>1
    <3> QED
      BY <1>2, <1>5, <2>3, <3>1, <3>3, <3>4 DEF QuietInv, ClearedHere
  <2> QED
    BY <2>6, <2>7, <2>8, <2>9
<1>10. WholeInv'
  <2> SUFFICES ASSUME refusable = {}
               PROVE  \A u \in Tabs : tab'[u].overlay = NoOverrides
    BY <1>2 DEF WholeInv, Live, Newer, RegOf, Locked, Covered, OwnerOf
  <2>1. \A r \in Regs : a.overlay[r] = None
    BY <1>4 DEF WholeInv, Survives, NoOverrides
  <2>2. a.overlay = NoOverrides
    BY <1>3, <2>1 DEF TabState, NoOverrides
  <2> QED
    BY <1>5, <2>2 DEF WholeInv
<1>11. OverTapped'
  BY <1>2 DEF OverTapped
<1> QED
  BY <1>6, <1>7, <1>8, <1>9, <1>10, <1>11

\* A tab lets go of everything it holds, and loses nothing of another's.
LEMMA ReloadKeeps ==
    ASSUME IInv, NEW t \in Tabs, Reload(t)
    PROVE  IInv'
<1> USE DEF IInv
<1> DEFINE x == [known |-> storage, overlay |-> NoOverrides, detached |-> FALSE,
                 missed |-> {}]
<1>1. /\ UNCHANGED <<storage, taps, clearing, over, refusable>>
      /\ tab' = [tab EXCEPT ![t] = x]
      /\ lost' = lost \cup Volatile(tab[t])
      /\ Locked => clearing.tab # t
  BY DEF Reload
<1>2. tab \in [Tabs -> TabState] /\ storage \in Document
  BY DEF TypeOK
<1>3. x \in TabState
  BY <1>2, EmptyTypes DEF TabState
<1>4. x.known = storage /\ x.overlay = NoOverrides /\ x.detached = FALSE /\ x.missed = {}
  OBVIOUS
<1> HIDE DEF x
<1>5. tab'[t] = x /\ (\A u \in Tabs \ {t} : tab'[u] = tab[u]) /\ tab' \in [Tabs -> TabState]
  BY <1>1, <1>2, <1>3
<1>6. \A r \in Regs : x.overlay[r] = None
  BY <1>4 DEF NoOverrides
<1>7. Volatile(tab[t]) \subseteq Marks
  BY MarkTypes DEF Volatile
<1>8. TypeOK'
  BY <1>1, <1>5, <1>7 DEF TypeOK
<1>9. Sited'
  BY <1>1, <1>4, <1>5, <1>6 DEF Sited, SitedSlot, Sites, RegOf
<1>10. KnownHeld'
  BY <1>5, <1>6 DEF KnownHeld
<1>11. \A m : RegOf(m)' = RegOf(m) /\ OwnerOf(m)' = OwnerOf(m)
  BY <1>1 DEF RegOf, OwnerOf
<1>12. ASSUME NEW m \in 1..Len(taps) PROVE ~Mine(t, m)'
  BY <1>5, <1>6, <1>11, <1>12, MarkTypes DEF Mine
<1>13. ASSUME NEW m, NEW u \in Tabs \ {t}
       PROVE  /\ Mine(u, m)' <=> Mine(u, m)
              /\ Old(u, m)' <=> Old(u, m)
              /\ Unnoticed(u, m)' <=> Unnoticed(u, m)
  BY <1>5, <1>11 DEF Mine, Old, Unnoticed
<1>14. QuietInv'
  <2> SUFFICES ASSUME Quiet
               PROVE  (\A u \in Tabs : ~tab'[u].detached)
                      /\ OverDropped' /\ SoleHolder' /\ ClearedHere'
    BY <1>1 DEF QuietInv, Quiet
  <2>1. \A u \in Tabs : ~tab'[u].detached
    BY <1>4, <1>5 DEF QuietInv
  <2>2. OverDropped'
    BY <1>1, <1>11, <1>12, <1>13 DEF OverDropped, QuietInv, OverTapped
  <2>3. SoleHolder'
    BY <1>1, <1>11, <1>12, <1>13 DEF SoleHolder, QuietInv
  <2>4. ClearedHere'
    <3> SUFFICES ASSUME Locked
                 PROVE  /\ \A m \in Covered(clearing.what)' :
                              storage'[RegOf(m)'].pending # m /\ ~Mine(clearing.tab, m)'
                        /\ \/ tab'[clearing.tab].missed = {}
                           \/ tab'[clearing.tab].overlay = NoOverrides
      BY <1>1 DEF ClearedHere, Locked
    <3>1. Covered(clearing.what)' = Covered(clearing.what) /\ clearing.tab \in Tabs \ {t}
      BY <1>1 DEF Covered, OwnerOf, RegOf, TypeOK, Locked, Clear
    <3>2. \A m : Mine(clearing.tab, m)' <=> Mine(clearing.tab, m)
      BY <1>1, <1>5, <1>11, <3>1 DEF Mine
    <3> QED
      BY <1>1, <1>5, <1>11, <3>1, <3>2 DEF QuietInv, ClearedHere
  <2> QED
    BY <2>1, <2>2, <2>3, <2>4
<1>15. WholeInv'
  <2> SUFFICES ASSUME refusable = {}
               PROVE  \A u \in Tabs : tab'[u].overlay = NoOverrides
    BY <1>1 DEF WholeInv, Live, Newer, RegOf, Locked, Covered, OwnerOf
  <2> QED
    BY <1>4, <1>5 DEF WholeInv
<1> QED
  BY <1>1, <1>8, <1>9, <1>10, <1>14, <1>15 DEF OverTapped

\* A clear of everything empties storage where it can be removed.
LEMMA ClearAllKeeps ==
    ASSUME IInv, NEW t \in Tabs, ClearAll(t)
    PROVE  IInv'
<1> USE DEF IInv
<1>1. PICK removed \in IF "removal" \in refusable THEN BOOLEAN ELSE {TRUE} :
          /\ storage' = IF removed THEN NoEntries ELSE storage
          /\ tab' = [tab EXCEPT ![t].known = NoEntries, ![t].overlay = NoOverrides,
                                ![t].detached = ~removed]
  BY DEF ClearAll
<1> DEFINE gone == ~removed
           x == [tab[t] EXCEPT !.known = NoEntries, !.overlay = NoOverrides,
                               !.detached = gone]
<1>2. /\ UNCHANGED <<taps, over, lost, refusable>> /\ ~Locked
      /\ clearing' = [tab |-> t, what |-> Everything]
  BY DEF ClearAll
<1>3. tab \in [Tabs -> TabState] /\ tab[t] \in TabState /\ storage \in Document
  BY DEF TypeOK
<1>4. gone \in BOOLEAN /\ ("removal" \notin refusable => gone = FALSE /\ storage' = NoEntries)
      /\ storage' \in {NoEntries, storage}
  BY <1>1
<1>5. tab' = [tab EXCEPT ![t].known = NoEntries, ![t].overlay = NoOverrides, ![t].detached = gone]
  BY <1>1
<1> HIDE DEF gone
<1>6. tab' = [tab EXCEPT ![t] = x]
  BY <1>3, <1>5
<1>7. x \in TabState
  BY <1>3, <1>4, EmptyTypes DEF TabState
<1>8. x.known = NoEntries /\ x.overlay = NoOverrides /\ x.detached = gone
  BY <1>3 DEF TabState
<1> HIDE DEF x
<1>9. tab'[t] = x /\ (\A u \in Tabs \ {t} : tab'[u] = tab[u]) /\ tab' \in [Tabs -> TabState]
  BY <1>3, <1>6, <1>7
<1>10. \A r \in Regs : x.overlay[r] = None
  BY <1>8 DEF NoOverrides
<1>11. clearing' \in Clear
  BY <1>2 DEF Clear
<1>12. TypeOK'
  BY <1>2, <1>4, <1>9, <1>11, EmptyTypes DEF TypeOK
<1>13. \A r \in Regs : SitedSlot(NoEntries[r], r)
  BY DEF NoEntries, NoSlot, SitedSlot, Sites
<1>14. Sited'
  <2>1. \A r \in Regs : Sites(r)' = Sites(r)
    BY <1>2 DEF Sites, RegOf
  <2> QED
    BY <1>4, <1>8, <1>9, <1>10, <1>13, <2>1 DEF Sited, SitedSlot
<1>15. KnownHeld'
  BY <1>9, <1>10 DEF KnownHeld
<1>16. \A m : RegOf(m)' = RegOf(m) /\ OwnerOf(m)' = OwnerOf(m)
  BY <1>2 DEF RegOf, OwnerOf
<1>17. ASSUME NEW m \in 1..Len(taps) PROVE ~Mine(t, m)'
  BY <1>9, <1>10, <1>16, <1>17, MarkTypes DEF Mine
<1>18. ASSUME NEW m, NEW u \in Tabs \ {t}
       PROVE  /\ Mine(u, m)' <=> Mine(u, m)
              /\ Old(u, m)' <=> Old(u, m)
              /\ Unnoticed(u, m)' <=> Unnoticed(u, m)
  BY <1>9, <1>16 DEF Mine, Old, Unnoticed
<1>19. QuietInv'
  <2> SUFFICES ASSUME Quiet
               PROVE  (\A u \in Tabs : ~tab'[u].detached)
                      /\ OverDropped' /\ SoleHolder' /\ ClearedHere'
    BY <1>2 DEF QuietInv, Quiet
  <2>1. storage' = NoEntries /\ gone = FALSE
    BY <1>4 DEF Quiet
  <2>2. \A m \in 1..Len(taps) : storage'[RegOf(m)].pending # m
    BY <2>1, MarkTypes DEF NoEntries, NoSlot
  <2>3. \A u \in Tabs : ~tab'[u].detached
    BY <1>8, <1>9, <2>1 DEF QuietInv
  <2>4. OverDropped'
    BY <1>2, <1>16, <1>17, <1>18, <2>2 DEF OverDropped, QuietInv, OverTapped
  <2>5. SoleHolder'
    BY <1>2, <1>16, <1>17, <1>18, <2>2 DEF SoleHolder, QuietInv
  <2>6. ClearedHere'
    <3>1. clearing'.tab = t /\ tab'[clearing'.tab].overlay = NoOverrides
      BY <1>2, <1>8, <1>9
    <3>2. Covered(clearing.what)' \subseteq 1..Len(taps)
      BY <1>2 DEF Covered
    <3>3. \A m : Mine(clearing.tab, m)' <=> Mine(t, m)'
      BY <3>1 DEF Mine
    <3> QED
      BY <1>16, <1>17, <2>2, <3>1, <3>2, <3>3 DEF ClearedHere
  <2> QED
    BY <2>3, <2>4, <2>5, <2>6
<1>20. WholeInv'
  <2>1. clearing' # None /\ clearing'.what = Everything
    BY <1>2, <1>11, NoneAssumption
  <2>2. \A m \in Live' : m \in Covered(clearing.what)'
    BY <2>1 DEF Live, Covered
  <2> QED
    BY <1>2, <1>8, <1>9, <2>1, <2>2 DEF WholeInv, Locked
<1> QED
  BY <1>2, <1>12, <1>14, <1>15, <1>19, <1>20 DEF OverTapped

\* The record of a clear makes what it covers over, and is news to the other tabs;
\* storage and the tab that cleared hold none of it since the clear.
LEMMA RecordClearKeeps ==
    ASSUME IInv, RecordClear
    PROVE  IInv'
<1> USE DEF IInv
<1>1. Locked /\ clearing' = None /\ UNCHANGED <<storage, taps, lost, refusable>>
  BY DEF RecordClear
<1>2. clearing \in Clear /\ clearing.tab \in Tabs /\ clearing.what \in Owners \cup {Everything}
  BY <1>1 DEF TypeOK, Locked, Clear
<1>3. Covered(clearing.what) \subseteq 1..Len(taps)
  BY DEF Covered
<1>4. \A m : RegOf(m)' = RegOf(m) /\ OwnerOf(m)' = OwnerOf(m)
  BY <1>1 DEF RegOf, OwnerOf
<1>5. CASE UNCHANGED <<tab, over>> /\ "record" \in refusable
  <2>1. TypeOK' /\ Sited' /\ KnownHeld' /\ OverTapped'
    BY <1>1, <1>5 DEF TypeOK, Sited, SitedSlot, Sites, RegOf, KnownHeld, OverTapped
  <2>2. QuietInv'
    <3>1. ClearedHere'
      BY <1>1 DEF ClearedHere, Locked
    <3>2. OverDropped' <=> OverDropped
      BY <1>1, <1>4, <1>5 DEF OverDropped, Mine, Old, Unnoticed
    <3>3. SoleHolder' <=> SoleHolder
      BY <1>1, <1>4, <1>5 DEF SoleHolder, Mine, Old
    <3> QED
      BY <1>1, <1>5, <3>1, <3>2, <3>3 DEF QuietInv, Quiet
  <2>3. WholeInv'
    BY <1>1, <1>5 DEF WholeInv
  <2> QED
    BY <2>1, <2>2, <2>3
<1>6. CASE /\ tab' = [t \in Tabs |->
                        [tab[t] EXCEPT !.missed =
                            IF t = clearing.tab THEN {} ELSE @ \cup {clearing.what}]]
           /\ over' = over \cup Covered(clearing.what)
  <2>1. ASSUME NEW t \in Tabs
        PROVE  /\ tab'[t] \in TabState /\ tab'[t].known = tab[t].known
               /\ tab'[t].overlay = tab[t].overlay /\ tab'[t].detached = tab[t].detached
               /\ t # clearing.tab => tab'[t].missed = tab[t].missed \cup {clearing.what}
               /\ t = clearing.tab => tab'[t].missed = {}
    <3>1. tab[t] \in TabState /\ tab[t].missed \in SUBSET (Owners \cup {Everything})
      BY DEF TypeOK, TabState
    <3> DEFINE mi == IF t = clearing.tab THEN {} ELSE tab[t].missed \cup {clearing.what}
    <3>2. mi \in SUBSET (Owners \cup {Everything})
      BY <1>2, <3>1
    <3>3. tab'[t] = [tab[t] EXCEPT !.missed = mi]
      BY <1>6, <3>1 DEF TabState
    <3>4. t # clearing.tab => mi = tab[t].missed \cup {clearing.what}
      OBVIOUS
    <3>5. t = clearing.tab => mi = {}
      OBVIOUS
    <3> HIDE DEF mi
    <3> QED
      BY <3>1, <3>2, <3>3, <3>4, <3>5 DEF TabState
  <2>2. tab' \in [Tabs -> TabState]
    <3>1. tab' = [t \in Tabs |-> tab'[t]]
      BY <1>6
    <3> QED
      BY <2>1, <3>1
  <2>3. OverTapped' /\ over' \subseteq Marks
    BY <1>1, <1>3, <1>6, MarkTypes DEF OverTapped
  <2>4. TypeOK'
    BY <1>1, <2>2, <2>3 DEF TypeOK
  <2>5. Sited'
    <3>1. \A r \in Regs : Sites(r)' = Sites(r)
      BY <1>1 DEF Sites, RegOf
    <3> QED
      BY <1>1, <2>1, <3>1 DEF Sited, SitedSlot
  <2>6. KnownHeld'
    BY <2>1 DEF KnownHeld
  <2>7. ASSUME NEW m, NEW t \in Tabs
        PROVE  /\ Mine(t, m)' <=> Mine(t, m)
               /\ Old(t, m)' <=> Old(t, m)
    BY <1>4, <2>1 DEF Mine, Old
  <2>8. QuietInv'
    <3> SUFFICES ASSUME Quiet
                 PROVE  (\A u \in Tabs : ~tab'[u].detached)
                        /\ OverDropped' /\ SoleHolder' /\ ClearedHere'
      BY <1>1 DEF QuietInv, Quiet
    <3>1. \A u \in Tabs : ~tab'[u].detached
      BY <2>1 DEF QuietInv
    <3>2. ClearedHere'
      BY <1>1 DEF ClearedHere, Locked
    <3>3. SoleHolder'
      BY <1>1, <1>4, <2>7 DEF SoleHolder, QuietInv
    <3>4. OverDropped'
      <4> SUFFICES ASSUME NEW m \in over'
                   PROVE  /\ storage[RegOf(m)].pending # m
                          /\ \A t \in Tabs : Mine(t, m) => Old(t, m) \/ Unnoticed(t, m)'
        BY <1>1, <1>4, <2>7 DEF OverDropped
      <4>1. CASE m \in Covered(clearing.what)
        <5>1. storage[RegOf(m)].pending # m /\ ~Mine(clearing.tab, m)
          BY <1>1, <4>1 DEF QuietInv, ClearedHere
        <5>2. clearing.what \in {Everything, OwnerOf(m)}
          BY <4>1 DEF Covered
        <5>3. \A t \in Tabs \ {clearing.tab} : Unnoticed(t, m)'
          BY <1>4, <2>1, <5>2 DEF Unnoticed
        <5> QED
          BY <5>1, <5>3
      <4>2. CASE m \in over /\ m \notin Covered(clearing.what)
        <5>1. /\ storage[RegOf(m)].pending # m
              /\ \A t \in Tabs : Mine(t, m) => Old(t, m) \/ Unnoticed(t, m)
          BY <4>2 DEF QuietInv, OverDropped
        <5>2. \A t \in Tabs \ {clearing.tab} : Unnoticed(t, m) => Unnoticed(t, m)'
          BY <1>4, <2>1 DEF Unnoticed
        <5>3. Mine(clearing.tab, m) => ~Unnoticed(clearing.tab, m)
          <6>1. RegOf(m) \in Regs
            BY <4>2, MarkTypes DEF OverTapped
          <6> QED
            BY <1>1, <6>1 DEF QuietInv, ClearedHere, Mine, Unnoticed, NoOverrides
        <5> QED
          BY <5>1, <5>2, <5>3
      <4> QED
        BY <1>6, <4>1, <4>2
    <3> QED
      BY <3>1, <3>2, <3>3, <3>4
  <2>9. WholeInv'
    <3>1. \A m \in Live' : m \in Live /\ m \notin Covered(clearing.what)
      BY <1>1, <1>6 DEF Live
    <3>2. \A m : Newer(m)' = Newer(m)
      BY <1>1 DEF Newer, RegOf
    <3> QED
      BY <1>1, <1>4, <2>1, <3>1, <3>2 DEF WholeInv
  <2> QED
    BY <2>3, <2>4, <2>5, <2>6, <2>8, <2>9
<1> QED
  BY <1>5, <1>6 DEF RecordClear

---------------------------------------------------------------------------
(* Safety *)

\* The invariant holds in a browser that has stored nothing yet.
LEMMA InitKeeps == Init => IInv
<1> SUFFICES ASSUME Init PROVE IInv
  OBVIOUS
<1> DEFINE x == [known |-> NoEntries, overlay |-> NoOverrides, detached |-> FALSE,
                 missed |-> {}]
<1>1. x \in TabState
  BY EmptyTypes DEF TabState
<1>2. \A t \in Tabs : tab[t] = x
  BY DEF Init
<1>3. x.known = NoEntries /\ x.overlay = NoOverrides /\ ~x.detached
  OBVIOUS
<1>4. tab = [t \in Tabs |-> x]
  BY DEF Init
<1> HIDE DEF x
<1>5. tab \in [Tabs -> TabState]
  BY <1>1, <1>4
<1>6. taps = <<>> /\ Len(taps) = 0 /\ 1..Len(taps) = {}
  BY DEF Init
<1>7. TypeOK
  <2>1. taps \in Seq([tab : Tabs, reg : Regs]) /\ Len(taps) <= MaxMarks
    BY <1>6, EmptySeq, BoundAssumption
  <2> QED
    BY <1>5, <2>1, EmptyTypes DEF Init, TypeOK
<1>8. \A r \in Regs : NoOverrides[r] = None /\ NoEntries[r] = NoSlot
  BY DEF NoOverrides, NoEntries
<1>9. \A r \in Regs : SitedSlot(NoSlot, r)
  BY DEF SitedSlot, NoSlot, Sites
<1>10. Sited /\ KnownHeld
  BY <1>2, <1>3, <1>8, <1>9 DEF Sited, KnownHeld, Init
<1>11. QuietInv
  BY <1>2, <1>3, <1>6 DEF QuietInv, OverDropped, SoleHolder, ClearedHere, Locked, Init
<1>12. WholeInv
  BY <1>2, <1>3, <1>6 DEF WholeInv, Live
<1> QED
  BY <1>7, <1>10, <1>11, <1>12 DEF IInv, OverTapped, Init

\* A step of the store is a record, a read, a reload, a clear of everything or an edit.
LEMMA NextCases ==
    ASSUME IInv, Next
    PROVE  \/ RecordClear
           \/ \E t \in Tabs : \/ Read(t) \/ Reload(t) \/ ClearAll(t)
                              \/ \E readable, next : Edit(t, readable, next)
<1>1. CASE RecordClear
  BY <1>1
<1>2. ASSUME NEW t \in Tabs, Read(t) \/ Reload(t) \/ ClearAll(t)
      PROVE  \/ Read(t) \/ Reload(t) \/ ClearAll(t)
             \/ \E readable, next : Edit(t, readable, next)
  BY <1>2
<1>3. ASSUME NEW t \in Tabs, RetryWrite(t)
      PROVE  Read(t) \/ \E readable, next : Edit(t, readable, next)
  BY <1>3, RetryEdits DEF IInv
<1>4. ASSUME NEW t \in Tabs, NEW r \in Regs, DismissRefused(t, r) \/ Tap(t, r)
      PROVE  \E readable, next : Edit(t, readable, next)
  BY <1>4, DismissEdits, TapEdits DEF IInv
<1>5. ASSUME NEW t \in Tabs, NEW o \in Owners, ClearOwned(t, o)
      PROVE  \E readable, next : Edit(t, readable, next)
  BY <1>5, ClearOwnedEdits DEF IInv
<1>6. ASSUME NEW t \in Tabs, NEW m \in 1..Len(taps), NEW kind \in Outcomes,
             Settle(t, m, kind)
      PROVE  \E readable, next : Edit(t, readable, next)
  BY <1>6, SettleEdits DEF IInv
<1> QED
  BY <1>1, <1>2, <1>3, <1>4, <1>5, <1>6 DEF Next

\* Every step preserves the invariant.
LEMMA NextKeeps == IInv /\ [Next]_storeVars => IInv'
<1> SUFFICES ASSUME IInv, [Next]_storeVars PROVE IInv'
  OBVIOUS
<1>1. CASE Next
  BY <1>1, NextCases, RecordClearKeeps, ReadKeeps, ReloadKeeps, ClearAllKeeps, EditKeeps
<1>2. CASE UNCHANGED storeVars
  <2>1. UNCHANGED <<storage, tab, taps, clearing, refusable, over, lost>>
    BY <1>2 DEF storeVars
  <2>2. TypeOK' /\ OverTapped' /\ KnownHeld'
    BY <2>1 DEF IInv, TypeOK, OverTapped, KnownHeld
  <2>3. Sited' <=> Sited
    BY <2>1 DEF Sited, SitedSlot, Sites, RegOf
  <2>4. OverDropped' <=> OverDropped
    BY <2>1 DEF OverDropped, Mine, Old, Unnoticed, RegOf, OwnerOf
  <2>5. SoleHolder' <=> SoleHolder
    BY <2>1 DEF SoleHolder, Mine, Old, RegOf
  <2>6. ClearedHere' <=> ClearedHere
    BY <2>1 DEF ClearedHere, Locked, Covered, Mine, RegOf, OwnerOf
  <2>7. QuietInv'
    BY <2>1, <2>4, <2>5, <2>6 DEF IInv, QuietInv, Quiet
  <2>8. WholeInv' <=> WholeInv
    BY <2>1 DEF WholeInv, Live, Newer, Locked, Covered, RegOf, OwnerOf
  <2> QED
    BY <2>2, <2>3, <2>7, <2>8 DEF IInv
<1> QED
  BY <1>1, <1>2

\* The invariant holds in every state of every behaviour of the store.
THEOREM InvariantHolds == Spec => []IInv
  BY InitKeeps, NextKeeps, PTL DEF Spec

\* Every variable has its type.
THEOREM TypeCorrect == Spec => []TypeOK
<1>1. IInv => TypeOK
  BY DEF IInv
<1> QED
  BY <1>1, InvariantHolds, PTL

\* On a device whose storage can be read and removed, a mark that was settled,
\* cleared or replaced does not come back, whatever else storage refuses and in
\* whatever order the tabs read, write, clear and close.
THEOREM OverStaysOver == Spec => []NoComeback
<1>1. IInv => NoComeback
  <2> SUFFICES ASSUME IInv, Quiet, NEW m \in over
               PROVE  /\ storage[RegOf(m)].pending # m
                      /\ \A t \in Tabs : Shown(t)[RegOf(m)].pending # m
    BY DEF NoComeback, Quiet
  <2>1. m \in 1..Len(taps)
    BY DEF IInv, OverTapped
  <2> QED
    BY <2>1, QuietShown DEF IInv, QuietInv, OverDropped
<1> QED
  BY <1>1, InvariantHolds, PTL

\* While storage takes every write, a mark is stored until it is settled or cleared,
\* or a newer one takes its place.
THEOREM MarksAreStored == Spec => []NothingLost
<1>1. IInv => NothingLost
  BY DEF IInv, WholeInv, NothingLost
<1> QED
  BY <1>1, InvariantHolds, PTL

\* What storage and the tabs hold is neither too much nor too little.
THEOREM StoreConsistent == Spec => []Consistent
<1>1. TypeOK /\ NoComeback /\ NothingLost => Consistent
  BY DEF Consistent
<1> QED
  BY <1>1, TypeCorrect, OverStaysOver, MarksAreStored, PTL

---------------------------------------------------------------------------
(* Marks only a tab holds *)

\* Tab t holds m, which storage does not, in an override its next read keeps.
Waits(t, m) ==
    LET o == tab[t].overlay[RegOf(m)]
    IN  /\ o # None /\ o.mine.pending = m /\ o.held.pending # m
        /\ tab[t].detached \/ o.held = storage[RegOf(m)]
        /\ ~Unnoticed(t, m)

HeldWaits ==
    \A m \in 1..Len(taps) :
        Held(m) <=> \/ storage[RegOf(m)].pending = m
                    \/ \E t \in Tabs : Waits(t, m)

\* A missed clear covers an override when it covers its pending mark: the two marks
\* of an override are of one registration.
LEMMA GoneUnnoticed ==
    ASSUME TypeOK, Sited, NEW t \in Tabs, NEW m \in 1..Len(taps), Mine(t, m)
    PROVE  Gone(tab[t].overlay[RegOf(m)], tab[t].missed) <=> Unnoticed(t, m)
<1> DEFINE o == tab[t].overlay[RegOf(m)]
<1>1. RegOf(m) \in Regs /\ m # None /\ o.mine.pending = m
  BY MarkTypes DEF Mine
<1>2. o.mine.refused = None \/ (o.mine.refused # None /\ OwnerOf(o.mine.refused) = OwnerOf(m))
  BY <1>1 DEF Mine, Sited, SitedSlot, Sites, OwnerOf
<1> QED
  BY <1>1, <1>2 DEF Gone, Unnoticed, OwnedBy

\* The override of a mark that waits outlives a read.
LEMMA WaitsSurvives ==
    ASSUME TypeOK, Sited, KnownHeld, NEW t \in Tabs, NEW m \in 1..Len(taps), Waits(t, m),
           NEW readable \in BOOLEAN
    PROVE  /\ AfterRead(tab[t], readable).overlay[RegOf(m)] = tab[t].overlay[RegOf(m)]
           /\ View(AfterRead(tab[t], readable))[RegOf(m)].pending = m
<1> DEFINE a == AfterRead(tab[t], readable)
           r == RegOf(m)
<1>1. r \in Regs /\ tab[t] \in TabState /\ storage \in Document
  BY MarkTypes DEF TypeOK
<1>2. /\ a.known = IF readable /\ ~tab[t].detached THEN storage ELSE tab[t].known
      /\ a.overlay[r] = IF Survives(tab[t], a.known, readable, r)
                        THEN tab[t].overlay[r] ELSE None
  BY <1>1, ReadDoes
<1>3. Mine(t, m) /\ ~Gone(tab[t].overlay[r], tab[t].missed)
  BY GoneUnnoticed DEF Waits, Mine
<1>4. tab[t].overlay[r].held = tab[t].known[r]
  BY <1>1, <1>3 DEF KnownHeld, Mine
<1>5. Survives(tab[t], a.known, readable, r)
  BY <1>2, <1>3, <1>4 DEF Survives, Waits
<1> HIDE DEF a
<1>6. View(a)[r] = IF a.overlay[r] # None THEN a.overlay[r].mine
                   ELSE IF a.detached THEN NoSlot ELSE a.known[r]
  BY <1>1 DEF View
<1> QED
  BY <1>2, <1>3, <1>5, <1>6 DEF Mine, a

\* A mark is held when it is stored or waits in a tab.
LEMMA HeldMeans == TypeOK /\ Sited /\ KnownHeld => HeldWaits
<1> SUFFICES ASSUME TypeOK, Sited, KnownHeld, NEW m \in 1..Len(taps), NEW t \in Tabs
             PROVE  m \in Volatile(AfterRead(tab[t], TRUE)) <=> Waits(t, m)
  BY DEF HeldWaits, Held
<1> DEFINE a == AfterRead(tab[t], TRUE)
           r == RegOf(m)
<1>1. r \in Regs /\ tab[t] \in TabState /\ storage \in Document
  BY MarkTypes DEF TypeOK
<1>2. /\ a.known = IF tab[t].detached THEN tab[t].known ELSE storage
      /\ a.overlay[r] = IF Survives(tab[t], a.known, TRUE, r)
                        THEN tab[t].overlay[r] ELSE None
  BY <1>1, ReadDoes
<1>3. m \in Volatile(a) <=> /\ a.overlay[r] # None
                            /\ a.overlay[r].mine.pending = m
                            /\ a.overlay[r].held.pending # m
  BY <1>1 DEF Volatile, View
<1>4. ASSUME Waits(t, m) PROVE m \in Volatile(a)
  BY <1>3, <1>4, WaitsSurvives DEF Waits
<1> HIDE DEF a
<1>5. ASSUME m \in Volatile(a) PROVE Waits(t, m)
  BY <1>1, <1>2, <1>3, <1>5, GoneUnnoticed DEF Waits, Survives, Mine
<1> QED
  BY <1>4, <1>5 DEF a

\* An edit stores the mark that waits in its tab, or leaves it waiting.
LEMMA EditWaits ==
    ASSUME IInv, NEW t \in Tabs, NEW readable, NEW next, Edit(t, readable, next),
           NEW m \in 1..Len(taps), Waits(t, m), m \notin over', ~Locked'
    PROVE  storage'[RegOf(m)].pending = m \/ Waits(t, m)'
<1> DEFINE a == AfterRead(tab[t], readable)
           r == RegOf(m)
<1> USE DEF IInv
<1>1. /\ readable \in BOOLEAN /\ next \in Document
      /\ \E x : Outcome(t, a, readable, next, x)
  BY EditOutcome
<1>2. PICK x : Outcome(t, a, readable, next, x)
  BY <1>1
<1>3. Leaves(t, next, x)
  BY <1>1, <1>2, OutcomeLeaves
<1>4. r \in Regs /\ m # None /\ r' = r /\ OwnerOf(m)' = OwnerOf(m)
  BY MarkTypes DEF Edit, RegOf, OwnerOf
<1>5. View(a)[r].pending = m /\ Shown(t)[r].pending = m
  BY <1>1, WaitsSurvives DEF Shown
<1>6. next[r].pending = m
  BY <1>5 DEF Edit, Locked
<1>7. /\ a.detached = tab[t].detached
      /\ a.known = IF readable /\ ~tab[t].detached THEN storage ELSE tab[t].known
      /\ a.missed = IF readable THEN {} ELSE tab[t].missed
  BY <1>1, ReadDoes DEF TypeOK
<1> HIDE DEF a
<1>8. ~Unnoticed(t, m)'
  BY <1>2, <1>3, <1>4, <1>7 DEF Outcome, Leaves, Unnoticed, Waits
<1>9. ASSUME x.known[r].pending # m, x.detached \/ x.known[r] = storage'[r]
      PROVE  Waits(t, m)'
  <2>1. x.overlay[r] # None /\ x.overlay[r].mine = next[r] /\ x.overlay[r].held = x.known[r]
    BY <1>3, <1>4, <1>6, <1>9 DEF Leaves
  <2>2. tab'[t] = x
    BY <1>3 DEF Leaves
  <2> QED
    BY <1>4, <1>6, <1>8, <1>9, <2>1, <2>2 DEF Waits
<1>10. CASE storage' = x.known
  BY <1>9, <1>10
<1>11. CASE x.detached /\ x.known = NoEntries
  BY <1>4, <1>9, <1>11 DEF NoEntries, NoSlot
<1>12. CASE storage' = storage /\ x.known = a.known /\ ~a.detached /\ ~readable
  <2>1. x.known[r] = tab[t].overlay[r].held
    BY <1>4, <1>7, <1>12 DEF KnownHeld, Waits
  <2> QED
    BY <1>7, <1>9, <1>12, <2>1 DEF Waits
<1> QED
  BY <1>2, <1>10, <1>11, <1>12 DEF Outcome

\* A step that leaves the stored entries of its registration as they are keeps a
\* mark that waits and is neither over nor lost.
LEMMA StepWaits ==
    ASSUME IInv, Next, NEW t \in Tabs, NEW m \in Live, Waits(t, m), m \in Live', ~Locked',
           storage'[RegOf(m)] = storage[RegOf(m)]
    PROVE  storage'[RegOf(m)].pending = m \/ Waits(t, m)'
<1> USE DEF IInv
<1>1. m \in 1..Len(taps) /\ m \notin over' /\ m \notin lost'
  BY DEF Live
<1>2. RegOf(m) \in Regs
  BY <1>1, MarkTypes
<1>3. ASSUME tab'[t] = tab[t], RegOf(m)' = RegOf(m), OwnerOf(m)' = OwnerOf(m)
      PROVE  Waits(t, m)'
  BY <1>3 DEF Waits, Unnoticed
<1>4. CASE RecordClear
  <2>1. UNCHANGED <<storage, taps>> /\ RegOf(m)' = RegOf(m) /\ OwnerOf(m)' = OwnerOf(m)
    BY <1>4 DEF RecordClear, RegOf, OwnerOf
  <2>2. CASE UNCHANGED tab
    BY <1>3, <2>1, <2>2
  <2>3. CASE /\ tab' = [u \in Tabs |->
                           [tab[u] EXCEPT !.missed =
                               IF u = clearing.tab THEN {} ELSE @ \cup {clearing.what}]]
             /\ over' = over \cup Covered(clearing.what)
    <3>1. clearing.what \notin {Everything, OwnerOf(m)}
      BY <1>1, <2>3 DEF Covered
    <3> DEFINE mi == IF t = clearing.tab THEN {} ELSE tab[t].missed \cup {clearing.what}
    <3>2. tab[t] \in TabState
      BY DEF TypeOK
    <3>3. tab'[t] = [tab[t] EXCEPT !.missed = mi]
      BY <2>3, <3>2 DEF TabState
    <3>4. mi \subseteq tab[t].missed \cup {clearing.what}
      OBVIOUS
    <3> HIDE DEF mi
    <3>5. tab'[t].overlay = tab[t].overlay /\ tab'[t].detached = tab[t].detached
          /\ tab'[t].missed = mi
      BY <3>2, <3>3 DEF TabState
    <3>6. ~Unnoticed(t, m)'
      BY <2>1, <3>1, <3>4, <3>5 DEF Waits, Unnoticed
    <3> QED
      BY <2>1, <3>5, <3>6 DEF Waits
  <2> QED
    BY <1>4, <2>2, <2>3 DEF RecordClear
<1>5. ASSUME NEW u \in Tabs, Read(u)
      PROVE  Waits(t, m)'
  <2>1. PICK readable \in Readable : tab' = [tab EXCEPT ![u] = AfterRead(@, readable)]
    BY <1>5 DEF Read
  <2>2. RegOf(m)' = RegOf(m) /\ OwnerOf(m)' = OwnerOf(m) /\ UNCHANGED storage
    BY <1>5 DEF Read, RegOf, OwnerOf
  <2>3. CASE u # t
    BY <1>3, <2>1, <2>2, <2>3 DEF TypeOK
  <2>4. CASE u = t
    <3> DEFINE a == AfterRead(tab[t], readable)
    <3>1. readable \in BOOLEAN /\ tab'[t] = a
      BY <2>1, <2>4, ReadableBoolean DEF TypeOK
    <3>2. a.overlay[RegOf(m)] = tab[t].overlay[RegOf(m)]
      BY <1>1, <3>1, WaitsSurvives
    <3>3. a.detached = tab[t].detached /\ a.missed \subseteq tab[t].missed
      BY <3>1, ReadDoes DEF TypeOK
    <3> HIDE DEF a
    <3> QED
      BY <2>2, <3>1, <3>2, <3>3 DEF Waits, Unnoticed
  <2> QED
    BY <2>3, <2>4
<1>6. ASSUME NEW u \in Tabs, Reload(u)
      PROVE  Waits(t, m)'
  <2>1. RegOf(m)' = RegOf(m) /\ OwnerOf(m)' = OwnerOf(m)
    BY <1>6 DEF Reload, RegOf, OwnerOf
  <2>2. m \in Volatile(tab[t])
    BY <1>1, <1>2 DEF Waits, Volatile, View
  <2>3. u # t
    BY <1>1, <1>6, <2>2 DEF Reload
  <2>4. tab'[t] = tab[t]
    BY <1>6, <2>3 DEF Reload, TypeOK
  <2> QED
    BY <1>3, <2>1, <2>4
<1>7. ASSUME NEW u \in Tabs, ClearAll(u)
      PROVE  FALSE
  <2>1. clearing' \in Clear
    BY <1>7 DEF ClearAll, Clear
  <2> QED
    BY <2>1, NoneAssumption DEF Locked
<1>8. ASSUME NEW u \in Tabs, NEW readable, NEW next, Edit(u, readable, next)
      PROVE  storage'[RegOf(m)].pending = m \/ Waits(t, m)'
  <2>1. CASE u = t
    BY <1>1, <1>8, <2>1, EditWaits
  <2>2. CASE u # t
    <3>1. RegOf(m)' = RegOf(m) /\ OwnerOf(m)' = OwnerOf(m)
      BY <1>1, <1>8 DEF Edit, RegOf, OwnerOf
    <3>2. PICK x : Outcome(u, AfterRead(tab[u], readable), readable, next, x)
      BY <1>8, EditOutcome
    <3>3. next \in Document
      BY <1>8, EditOutcome
    <3>4. Leaves(u, next, x)
      BY <3>2, <3>3, OutcomeLeaves
    <3>5. tab'[t] = tab[t]
      BY <2>2, <3>4 DEF Leaves
    <3> QED
      BY <1>3, <3>1, <3>5
  <2> QED
    BY <2>1, <2>2
<1> QED
  BY <1>4, <1>5, <1>6, <1>7, <1>8, NextCases

\* A mark only a tab holds is lost only when the stored entries of its own
\* registration change: no read, reload, retry or clear of another account's marks
\* drops it, whatever storage refuses.
THEOREM HeldUntilWritten == Spec => KeptUntilWritten
<1> DEFINE Kept ==
        \A m \in Live : (Held(m) /\ ~Held(m)' /\ m \in Live' /\ ~Locked')
                            => storage'[RegOf(m)] # storage[RegOf(m)]
<1>1. IInv => HeldWaits
  BY HeldMeans DEF IInv
<1>2. IInv /\ Next /\ HeldWaits /\ HeldWaits' => Kept
  <2> SUFFICES ASSUME IInv, Next, HeldWaits, HeldWaits', NEW m \in Live,
                      Held(m), ~Held(m)', m \in Live', ~Locked',
                      storage'[RegOf(m)] = storage[RegOf(m)]
               PROVE  FALSE
    OBVIOUS
  <2>1. m \in 1..Len(taps) /\ m \in 1..Len(taps')
    BY DEF Live
  <2>2. RegOf(m)' = RegOf(m)
    <3>1. ASSUME NEW u \in Tabs, NEW readable, NEW next, Edit(u, readable, next)
          PROVE  RegOf(m)' = RegOf(m)
      BY <2>1, <3>1 DEF Edit, RegOf
    <3> QED
      BY <3>1, NextCases DEF RecordClear, Read, Reload, ClearAll, RegOf
  <2>3. storage'[RegOf(m)].pending # m /\ \A t \in Tabs : ~Waits(t, m)'
    BY <2>1, <2>2 DEF HeldWaits
  <2>4. PICK t \in Tabs : Waits(t, m)
    BY <2>1, <2>3 DEF HeldWaits
  <2> QED
    BY <2>3, <2>4, StepWaits
<1>3. [][Kept]_storeVars => KeptUntilWritten
  BY DEF KeptUntilWritten
<1> HIDE DEF Kept
<1>4. Spec => [][Kept]_storeVars
  BY <1>1, <1>2, InvariantHolds, PTL DEF Spec
<1> QED
  BY <1>3, <1>4

---------------------------------------------------------------------------
(* Replaying the marks: the steps of AttendanceSync leave the store to its *)
(* own steps.                                                              *)

\* The steps of the store that preserve its invariant.
StoreMove ==
    \/ RecordClear
    \/ \E t \in Tabs : \/ Read(t) \/ Reload(t) \/ ClearAll(t)
                       \/ \E readable, next : Edit(t, readable, next)
    \/ UNCHANGED storeVars

\* Every mark sent, and every mark about to be, was tapped.
OnTheWay == late \cup (IF flush = None THEN {} ELSE flush.todo \cup ({flush.sent} \ {None}))

AllTapped == recorded \cup OnTheWay \subseteq 1..Len(taps)

\* What the server keeps for a registration is a mark of it, and was recorded.
ServerInv == \A r \in Regs : server[r] # None => server[r] \in recorded /\ RegOf(server[r]) = r

PassInv ==
    /\ flush \in Pass \cup {None}
    /\ server \in [Regs -> Entry]
    /\ flush # None /\ flush.answer # None => flush.sent # None
    /\ flush # None /\ flush.answer = "confirmed" => flush.sent \in recorded

\* A slot shows no mark as confirmed that the server never recorded.
ToldSlot(slot) == slot.confirmed \in recorded \cup {None}

Told ==
    \A r \in Regs :
        /\ ToldSlot(storage[r])
        /\ \A t \in Tabs :
              /\ ToldSlot(tab[t].known[r])
              /\ tab[t].overlay[r] # None => ToldSlot(tab[t].overlay[r].mine)

SyncInv == IInv /\ PassInv /\ AllTapped /\ ServerInv /\ Told

\* The store's move keeps what was tapped.
LEMMA TapsKept ==
    ASSUME IInv, StoreMove
    PROVE  /\ Len(taps) \in Nat /\ Len(taps') \in Nat /\ Len(taps) <= Len(taps')
           /\ \A m \in 1..Len(taps) : m \in 1..Len(taps') /\ taps'[m] = taps[m]
           /\ refusable' = refusable
<1>1. taps' = taps \/ \E t \in Tabs : \E readable, next : Edit(t, readable, next)
  BY DEF StoreMove, RecordClear, Read, Reload, ClearAll, storeVars
<1>2. /\ Len(taps) \in Nat /\ Len(taps') \in Nat /\ Len(taps) <= Len(taps')
      /\ \A m \in 1..Len(taps) : taps'[m] = taps[m]
  BY <1>1 DEF Edit, IInv, TypeOK
<1>3. refusable' = refusable
  BY DEF StoreMove, RecordClear, Read, Reload, ClearAll, storeVars, Edit
<1> QED
  BY <1>2, <1>3

\* The store's move preserves the store's invariant.
LEMMA StoreMoveKeeps ==
    ASSUME IInv, StoreMove
    PROVE  IInv'
<1>1. CASE UNCHANGED storeVars
  BY <1>1, NextKeeps
<1> QED
  BY <1>1, RecordClearKeeps, ReadKeeps, ReloadKeeps, ClearAllKeeps, EditKeeps DEF StoreMove

\* What a tab shows after a read, it was told.
LEMMA ViewTold ==
    ASSUME TypeOK, Told, NEW t \in Tabs, NEW readable \in BOOLEAN, NEW r \in Regs
    PROVE  ToldSlot(View(AfterRead(tab[t], readable))[r])
<1> DEFINE a == AfterRead(tab[t], readable)
<1>1. tab[t] \in TabState /\ storage \in Document
  BY DEF TypeOK
<1>2. /\ a.known = storage \/ a.known = tab[t].known
      /\ a.overlay[r] # None => a.overlay[r] = tab[t].overlay[r]
  BY <1>1, ReadDoes
<1> HIDE DEF a
<1>3. View(a)[r] = IF a.overlay[r] # None THEN a.overlay[r].mine
                   ELSE IF a.detached THEN NoSlot ELSE a.known[r]
  BY DEF View
<1>4. ToldSlot(NoSlot)
  BY DEF ToldSlot, NoSlot
<1> QED
  BY <1>2, <1>3, <1>4 DEF Told, a

\* A change of tab t's document that shows no mark as confirmed but those it did and m.
Confirms(t, m) ==
    \E readable \in Readable, next \in Document :
        /\ Apply(t, AfterRead(tab[t], readable), readable, next)
        /\ \A r \in Regs :
              next[r].confirmed \in {View(AfterRead(tab[t], readable))[r].confirmed, None, m}

\* Such a change keeps the tabs told, if the server recorded m.
LEMMA ConfirmsTold ==
    ASSUME TypeOK, Told, NEW t \in Tabs, NEW m \in recorded \cup {None}, Confirms(t, m),
           UNCHANGED recorded
    PROVE  Told'
<1>1. PICK readable \in Readable, next \in Document :
          /\ Apply(t, AfterRead(tab[t], readable), readable, next)
          /\ \A r \in Regs :
                next[r].confirmed \in {View(AfterRead(tab[t], readable))[r].confirmed, None, m}
  BY DEF Confirms
<1> DEFINE a == AfterRead(tab[t], readable)
<1>2. a \in TabState /\ readable \in BOOLEAN /\ storage \in Document
  BY AfterReadType, ReadableBoolean DEF TypeOK
<1>3. PICK x : Outcome(t, a, readable, next, x)
  BY <1>1, <1>2, ApplyOutcome
<1>4. Leaves(t, next, x)
  BY <1>3, OutcomeLeaves
<1>5. a.known = storage \/ a.known = tab[t].known
  BY <1>2, ReadDoes DEF TypeOK
<1> SUFFICES ASSUME NEW r \in Regs
             PROVE  /\ ToldSlot(storage'[r])
                    /\ \A u \in Tabs :
                          /\ ToldSlot(tab'[u].known[r])
                          /\ tab'[u].overlay[r] # None => ToldSlot(tab'[u].overlay[r].mine)
  BY DEF Told, ToldSlot
<1>6. ToldSlot(View(a)[r])
  BY <1>2, ViewTold
<1>7. ToldSlot(next[r])
  BY <1>1, <1>6 DEF ToldSlot
<1>8. /\ ToldSlot(storage[r])
      /\ \A u \in Tabs : /\ ToldSlot(tab[u].known[r])
                         /\ tab[u].overlay[r] # None => ToldSlot(tab[u].overlay[r].mine)
  BY DEF Told
<1>9. ToldSlot(x.known[r])
  <2>1. PartOf(x.known[r], next[r]) \/ x.known[r] = NoSlot \/ x.known = a.known
    BY <1>3 DEF Outcome, NoEntries
  <2> HIDE DEF a
  <2> QED
    BY <2>1, <1>5, <1>7, <1>8 DEF PartOf, ToldSlot, NoSlot
<1>10. ToldSlot(storage'[r])
  <2>1. storage' = x.known \/ storage' = storage
    BY <1>3 DEF Outcome
  <2> QED
    BY <2>1, <1>8, <1>9
<1>11. ASSUME NEW u \in Tabs
       PROVE  /\ ToldSlot(tab'[u].known[r])
              /\ tab'[u].overlay[r] # None => ToldSlot(tab'[u].overlay[r].mine)
  <2>1. CASE u = t
    BY <2>1, <1>4, <1>7, <1>9 DEF Leaves
  <2>2. CASE u # t
    BY <2>2, <1>4, <1>8 DEF Leaves
  <2> QED
    BY <2>1, <2>2
<1> QED
  BY <1>10, <1>11

\* A read, a reload and a clear of everything show nothing new as confirmed, nor does
\* the record of a clear.
LEMMA OthersTold ==
    ASSUME TypeOK, Told, UNCHANGED recorded,
           \/ RecordClear \/ UNCHANGED storeVars
           \/ \E t \in Tabs : Read(t) \/ Reload(t) \/ ClearAll(t)
    PROVE  Told'
<1> SUFFICES ASSUME NEW r \in Regs
             PROVE  /\ ToldSlot(storage'[r])
                    /\ \A u \in Tabs :
                          /\ ToldSlot(tab'[u].known[r])
                          /\ tab'[u].overlay[r] # None => ToldSlot(tab'[u].overlay[r].mine)
  BY DEF Told, ToldSlot
<1>1. /\ ToldSlot(storage[r])
      /\ \A u \in Tabs : /\ ToldSlot(tab[u].known[r])
                         /\ tab[u].overlay[r] # None => ToldSlot(tab[u].overlay[r].mine)
  BY DEF Told
<1>2. /\ tab \in [Tabs -> TabState] /\ storage \in Document
      /\ NoEntries[r] = NoSlot /\ NoOverrides[r] = None /\ ToldSlot(NoSlot)
  BY DEF TypeOK, NoEntries, NoOverrides, NoSlot, ToldSlot
<1>3. CASE UNCHANGED storeVars
  BY <1>1, <1>3 DEF storeVars
<1>4. CASE RecordClear
  <2>1. storage' = storage
    BY <1>4 DEF RecordClear
  <2>2. ASSUME NEW u \in Tabs
        PROVE  tab'[u].known = tab[u].known /\ tab'[u].overlay = tab[u].overlay
    BY <1>2, <1>4 DEF RecordClear, TabState
  <2> QED
    BY <1>1, <2>1, <2>2
<1>5. ASSUME NEW t \in Tabs, Read(t)
      PROVE  /\ ToldSlot(storage'[r])
             /\ \A u \in Tabs :
                   /\ ToldSlot(tab'[u].known[r])
                   /\ tab'[u].overlay[r] # None => ToldSlot(tab'[u].overlay[r].mine)
  <2>1. PICK readable \in Readable : tab' = [tab EXCEPT ![t] = AfterRead(@, readable)]
    BY <1>5 DEF Read
  <2> DEFINE a == AfterRead(tab[t], readable)
  <2>2. /\ a.known = storage \/ a.known = tab[t].known
        /\ a.overlay[r] # None => a.overlay[r] = tab[t].overlay[r]
    BY <1>2, ReadDoes, ReadableBoolean
  <2>3. tab'[t] = a /\ \A u \in Tabs \ {t} : tab'[u] = tab[u]
    BY <1>2, <2>1
  <2>4. storage' = storage
    BY <1>5 DEF Read
  <2> HIDE DEF a
  <2> QED
    BY <1>1, <2>2, <2>3, <2>4
<1>6. ASSUME NEW t \in Tabs, Reload(t)
      PROVE  /\ ToldSlot(storage'[r])
             /\ \A u \in Tabs :
                   /\ ToldSlot(tab'[u].known[r])
                   /\ tab'[u].overlay[r] # None => ToldSlot(tab'[u].overlay[r].mine)
  <2>1. /\ tab'[t].known = storage /\ tab'[t].overlay = NoOverrides /\ storage' = storage
        /\ \A u \in Tabs \ {t} : tab'[u] = tab[u]
    BY <1>2, <1>6 DEF Reload
  <2> QED
    BY <1>1, <1>2, <2>1
<1>7. ASSUME NEW t \in Tabs, ClearAll(t)
      PROVE  /\ ToldSlot(storage'[r])
             /\ \A u \in Tabs :
                   /\ ToldSlot(tab'[u].known[r])
                   /\ tab'[u].overlay[r] # None => ToldSlot(tab'[u].overlay[r].mine)
  <2>1. /\ tab'[t].known = NoEntries /\ tab'[t].overlay = NoOverrides
        /\ storage' = NoEntries \/ storage' = storage
        /\ \A u \in Tabs \ {t} : tab'[u] = tab[u]
    <3>1. PICK removed \in BOOLEAN :
              /\ storage' = IF removed THEN NoEntries ELSE storage
              /\ tab' = [tab EXCEPT ![t].known = NoEntries, ![t].overlay = NoOverrides,
                                    ![t].detached = ~removed]
      BY <1>7 DEF ClearAll
    <3>2. tab[t] \in TabState
      BY <1>2
    <3> QED
      BY <1>2, <3>1, <3>2 DEF TabState
  <2> QED
    BY <1>1, <1>2, <2>1
<1> QED
  BY <1>3, <1>4, <1>5, <1>6, <1>7

\* What the operations of a tab confirm: nothing, but for an answer that says so.
LEMMA OperationsConfirm ==
    ASSUME TypeOK, NEW t \in Tabs
    PROVE  /\ \A r \in Regs : Tap(t, r) \/ DismissRefused(t, r) => Confirms(t, None)
           /\ \A o \in Owners : ClearOwned(t, o) => Confirms(t, None)
           /\ RetryWrite(t) => Read(t) \/ Confirms(t, None)
           /\ \A m \in 1..Len(taps), kind \in Outcomes :
                 Settle(t, m, kind) => Confirms(t, IF kind = "confirmed" THEN m ELSE None)
<1> DEFINE Sees(readable) == View(AfterRead(tab[t], readable))
<1>1. \A readable \in Readable : Sees(readable) \in Document
  BY AfterReadType
<1>2. ASSUME NEW r \in Regs, Tap(t, r) PROVE Confirms(t, None)
  <2> DEFINE m == Len(taps) + 1
             next(readable) == [Sees(readable) EXCEPT ![r].pending = m]
  <2>1. m \in Marks
    BY <1>2 DEF Tap
  <2>2. PICK readable \in Readable :
            Apply(t, AfterRead(tab[t], readable), readable, next(readable))
    BY <1>2 DEF Tap, Change
  <2>3. Sees(readable) \in Document
    BY <1>1
  <2> HIDE DEF Sees
  <2>4. next(readable) \in Document
        /\ \A q \in Regs : next(readable)[q].confirmed = Sees(readable)[q].confirmed
    BY <2>1, <2>3 DEF Document, Slot, Entry
  <2> HIDE DEF next
  <2> QED
    BY <2>2, <2>4 DEF Confirms, Sees
<1>3. ASSUME NEW r \in Regs, DismissRefused(t, r) PROVE Confirms(t, None)
  <2> DEFINE next(readable) == [Sees(readable) EXCEPT ![r].refused = None]
  <2>1. PICK readable \in Readable :
            Apply(t, AfterRead(tab[t], readable), readable, next(readable))
    BY <1>3 DEF DismissRefused, Change
  <2>2. Sees(readable) \in Document
    BY <1>1
  <2> HIDE DEF Sees
  <2>3. next(readable) \in Document
        /\ \A q \in Regs : next(readable)[q].confirmed = Sees(readable)[q].confirmed
    BY <2>2, EmptyTypes DEF Document, Slot
  <2> HIDE DEF next
  <2> QED
    BY <2>1, <2>3 DEF Confirms, Sees
<1>4. ASSUME NEW o \in Owners, ClearOwned(t, o) PROVE Confirms(t, None)
  <2> DEFINE kept(m) == IF OwnedBy(m, {o}) THEN None ELSE m
             next(readable) == [r \in Regs |-> [Sees(readable)[r]
                                    EXCEPT !.pending = kept(@), !.refused = kept(@)]]
  <2>1. PICK readable \in Readable :
            Apply(t, AfterRead(tab[t], readable), readable, next(readable))
    BY <1>4 DEF ClearOwned, Change
  <2>2. Sees(readable) \in Document
    BY <1>1
  <2> HIDE DEF Sees
  <2>3. next(readable) \in Document
        /\ \A q \in Regs : next(readable)[q].confirmed = Sees(readable)[q].confirmed
    BY <2>2, EmptyTypes DEF Document, Slot
  <2> HIDE DEF next
  <2> QED
    BY <2>1, <2>3 DEF Confirms, Sees
<1>5. ASSUME RetryWrite(t) PROVE Read(t) \/ Confirms(t, None)
  <2>1. PICK readable \in Readable :
            LET s == AfterRead(tab[t], readable)
            IN  IF s.overlay = NoOverrides
                THEN tab' = [tab EXCEPT ![t] = s] /\ UNCHANGED storage
                ELSE Apply(t, s, readable, View(s))
    BY <1>5 DEF RetryWrite
  <2>2. UNCHANGED <<taps, clearing, over, lost, refusable>>
    BY <1>5 DEF RetryWrite
  <2>3. CASE tab' = [tab EXCEPT ![t] = AfterRead(@, readable)] /\ UNCHANGED storage
    BY <2>2, <2>3 DEF Read
  <2>4. CASE Apply(t, AfterRead(tab[t], readable), readable, Sees(readable))
    BY <1>1, <2>4 DEF Confirms
  <2> QED
    BY <2>1, <2>3, <2>4
<1>6. ASSUME NEW m \in 1..Len(taps), NEW kind \in Outcomes, Settle(t, m, kind)
      PROVE  Confirms(t, IF kind = "confirmed" THEN m ELSE None)
  <2> DEFINE next(readable) ==
                IF IsPending(Sees(readable), m)
                THEN [Sees(readable) EXCEPT ![RegOf(m)] = SettledSlot(@, kind)]
                ELSE Sees(readable)
  <2>1. PICK readable \in Readable :
            Apply(t, AfterRead(tab[t], readable), readable, next(readable))
    BY <1>6 DEF Settle, Change
  <2>2. Sees(readable) \in Document /\ RegOf(m) \in Regs
    BY <1>1, MarkTypes
  <2> HIDE DEF Sees
  <2> DEFINE old == Sees(readable)[RegOf(m)]
             new == SettledSlot(old, kind)
  <2>3. old \in Slot
    BY <2>2 DEF Document
  <2>4. /\ new \in Slot
        /\ new.confirmed \in {old.confirmed, None}
           \/ (kind = "confirmed" /\ new.confirmed = old.pending)
    BY <2>3, EmptyTypes DEF SettledSlot, Slot, Outcomes
  <2>5. /\ next(readable) \in Document
        /\ \A q \in Regs : \/ next(readable)[q] = Sees(readable)[q]
                           \/ /\ q = RegOf(m) /\ old.pending = m
                              /\ next(readable)[q] = new
    BY <2>2, <2>4 DEF Document, IsPending
  <2>6. \A q \in Regs : next(readable)[q].confirmed
            \in {Sees(readable)[q].confirmed, None, IF kind = "confirmed" THEN m ELSE None}
    BY <2>4, <2>5
  <2> HIDE DEF next, new, old
  <2> QED
    BY <2>1, <2>5, <2>6 DEF Confirms, Sees
<1> QED
  BY <1>2, <1>3, <1>4, <1>5, <1>6

\* A step of the pass leaves the store to one of its moves, which shows nothing as
\* confirmed that the server did not record.
LEMMA SyncMoves ==
    ASSUME SyncInv, [SyncNext]_vars
    PROVE  StoreMove /\ (UNCHANGED recorded => Told')
<1> USE DEF SyncInv
<1>1. TypeOK
  BY DEF IInv
<1>2. ASSUME NEW t \in Tabs, Confirms(t, None), UNCHANGED recorded PROVE Told'
  BY <1>1, <1>2, ConfirmsTold
<1>3. CASE UNCHANGED storeVars
  BY <1>1, <1>3, OthersTold DEF StoreMove
<1>4. ASSUME StoreStep
      PROVE  StoreMove /\ Told'
  <2>1. UNCHANGED recorded
    BY <1>4 DEF StoreStep, syncVars
  <2>2. ASSUME RecordClear \/ \E t \in Tabs : Read(t) \/ ClearAll(t)
        PROVE  StoreMove /\ Told'
    BY <1>1, <2>1, <2>2, OthersTold DEF StoreMove
  <2>3. ASSUME NEW t \in Tabs, RetryWrite(t)
        PROVE  StoreMove /\ Told'
    <3>1. StoreMove
      BY <1>1, <2>3, RetryEdits DEF StoreMove
    <3>2. Read(t) \/ Confirms(t, None)
      BY <1>1, <2>3, OperationsConfirm
    <3> QED
      BY <1>1, <1>2, <2>1, <3>1, <3>2, OthersTold
  <2>4. ASSUME NEW t \in Tabs, NEW r \in Regs, DismissRefused(t, r) \/ Tap(t, r)
        PROVE  StoreMove /\ Told'
    <3>1. StoreMove
      BY <1>1, <2>4, DismissEdits, TapEdits DEF StoreMove, IInv
    <3>2. Confirms(t, None)
      BY <1>1, <2>4, OperationsConfirm
    <3> QED
      BY <1>2, <2>1, <3>1, <3>2
  <2>5. ASSUME NEW t \in Tabs, NEW o \in Owners, ClearOwned(t, o)
        PROVE  StoreMove /\ Told'
    <3>1. StoreMove
      BY <1>1, <2>5, ClearOwnedEdits DEF StoreMove
    <3>2. Confirms(t, None)
      BY <1>1, <2>5, OperationsConfirm
    <3> QED
      BY <1>2, <2>1, <3>1, <3>2
  <2> QED
    BY <1>4, <2>2, <2>3, <2>4, <2>5 DEF StoreStep
<1>5. ASSUME SettleSent
      PROVE  StoreMove /\ Told'
  <2> DEFINE t == flush.tab
             m == flush.sent
             kind == flush.answer
  <2>1. /\ flush # None /\ flush \in Pass /\ t \in Tabs /\ kind \in Outcomes
        /\ m # None /\ m \in 1..Len(taps)
    <3>1. flush # None /\ flush \in Pass /\ kind \in Outcomes
      BY <1>5 DEF SettleSent, PassInv
    <3>2. m # None
      BY <3>1, PassAssumption DEF PassInv, Answers
    <3> QED
      BY <3>1, <3>2 DEF Pass, AllTapped, OnTheWay
  <2>2. Settle(t, m, kind) /\ UNCHANGED recorded
    BY <1>5 DEF SettleSent
  <2>3. kind = "confirmed" => m \in recorded
    BY <2>1 DEF PassInv
  <2> HIDE DEF t, m, kind
  <2>4. StoreMove
    BY <1>1, <2>1, <2>2, SettleEdits DEF StoreMove
  <2>5. Confirms(t, IF kind = "confirmed" THEN m ELSE None)
    BY <1>1, <2>1, <2>2, OperationsConfirm
  <2> QED
    BY <1>1, <2>1, <2>2, <2>3, <2>4, <2>5, ConfirmsTold
<1>6. ASSUME NEW t \in Tabs, NEW o \in Owners, StartPass(t, o)
      PROVE  StoreMove /\ Told'
  <2>1. TRUE \in Readable
    BY DEF Readable
  <2>2. Read(t) /\ UNCHANGED recorded
    BY <1>6, <2>1 DEF StartPass, Read
  <2> QED
    BY <1>1, <2>2, OthersTold DEF StoreMove
<1>7. ASSUME NEW t \in Tabs, ReloadPage(t)
      PROVE  StoreMove /\ Told'
  <2>1. Reload(t) /\ UNCHANGED recorded
    BY <1>7 DEF ReloadPage
  <2> QED
    BY <1>1, <2>1, OthersTold DEF StoreMove
<1>8. ASSUME \/ Send \/ Serve \/ KeepSent \/ Unanswered \/ EndPass
             \/ \E m \in Marks : ServeLate(m)
             \/ UNCHANGED vars
      PROVE  UNCHANGED storeVars
  BY <1>8 DEF Send, Serve, KeepSent, Unanswered, EndPass, ServeLate, vars
<1> QED
  BY <1>3, <1>4, <1>5, <1>6, <1>7, <1>8 DEF SyncNext

\* The steps that record a mark, or put one on the way.
LEMMA PassStep ==
    ASSUME SyncInv, [SyncNext]_vars
    PROVE  PassInv' /\ AllTapped' /\ ServerInv' /\ Told'
<1> USE DEF SyncInv
<1>1. StoreMove /\ TypeOK
  BY SyncMoves DEF IInv
<1>2. /\ 1..Len(taps) \subseteq 1..Len(taps') /\ 1..Len(taps) \subseteq Marks
      /\ \A m \in 1..Len(taps) : taps'[m] = taps[m] /\ RegOf(m) \in Regs /\ m # None
  BY <1>1, TapsKept, MarkTypes
<1>3. \A m \in 1..Len(taps) : RegOf(m)' = RegOf(m)
  BY <1>2 DEF RegOf
<1>4. /\ recorded \subseteq 1..Len(taps) /\ late \subseteq 1..Len(taps)
      /\ flush # None => /\ flush \in Pass /\ flush.todo \subseteq 1..Len(taps)
                         /\ flush.sent # None => flush.sent \in 1..Len(taps)
  BY DEF AllTapped, OnTheWay, PassInv
<1>5. ASSUME UNCHANGED <<server, recorded>>
      PROVE  ServerInv'
  BY <1>3, <1>4, <1>5 DEF ServerInv
<1>6. ASSUME NEW m \in 1..Len(taps), Record(m)
      PROVE  ServerInv' /\ server' \in [Regs -> Entry] /\ recorded' \subseteq 1..Len(taps')
  BY <1>2, <1>3, <1>4, <1>6 DEF Record, ServerInv, PassInv, Entry
<1>7. Told'
  <2>1. CASE UNCHANGED recorded
    BY <2>1, SyncMoves
  <2>2. CASE Serve \/ \E m \in Marks : ServeLate(m)
    BY <2>2 DEF Serve, ServeLate, Record, storeVars, Told, ToldSlot
  <2> QED
    BY <2>1, <2>2 DEF SyncNext, StoreStep, syncVars, vars, Send, SettleSent, KeepSent,
                      Unanswered, EndPass, ReloadPage, StartPass
<1>8. CASE UNCHANGED syncVars
  <2>1. UNCHANGED <<flush, late, server, recorded>>
    BY <1>8 DEF syncVars
  <2> QED
    BY <1>2, <1>4, <1>5, <1>7, <2>1 DEF PassInv, AllTapped, OnTheWay
<1>9. ASSUME NEW t \in Tabs, NEW o \in Owners, StartPass(t, o)
      PROVE  PassInv' /\ AllTapped' /\ ServerInv' /\ Told'
  <2>1. PendingOf(t, o) \subseteq 1..Len(taps)
    BY DEF PendingOf
  <2>2. /\ flush' = [tab |-> t, todo |-> PendingOf(t, o), sent |-> None, answer |-> None]
        /\ UNCHANGED <<late, server, recorded, taps>>
    BY <1>9 DEF StartPass
  <2>3. flush' \in Pass /\ flush' # None
    BY <1>2, <2>1, <2>2, PassAssumption DEF Pass, Entry
  <2>4. PassInv'
    BY <2>2, <2>3, PassAssumption DEF PassInv, Answers, Outcomes
  <2>5. AllTapped'
    BY <1>4, <2>1, <2>2, <2>3 DEF AllTapped, OnTheWay
  <2> QED
    BY <1>5, <1>7, <2>2, <2>4, <2>5
<1>10. ASSUME Send
       PROVE  PassInv' /\ AllTapped' /\ ServerInv' /\ Told'
  <2>1. PICK m \in flush.todo : flush' = [flush EXCEPT !.sent = m, !.todo = @ \ {m}]
    BY <1>10 DEF Send
  <2>2. flush # None /\ flush.sent = None /\ UNCHANGED <<late, server, recorded, taps>>
    BY <1>10 DEF Send, storeVars
  <2>3. m \in 1..Len(taps) /\ m \in Marks /\ m # None /\ flush.answer = None
    BY <1>2, <1>4, <2>2 DEF PassInv
  <2>4. /\ flush' \in Pass /\ flush' # None /\ flush'.sent = m
        /\ flush'.todo = flush.todo \ {m} /\ flush'.answer = None
    BY <1>4, <2>1, <2>2, <2>3, PassAssumption DEF Pass, Entry
  <2>5. PassInv'
    BY <2>2, <2>4, PassAssumption DEF PassInv, Answers, Outcomes
  <2>6. AllTapped'
    BY <1>4, <2>2, <2>3, <2>4 DEF AllTapped, OnTheWay
  <2> QED
    BY <1>5, <1>7, <2>2, <2>5, <2>6
<1>11. ASSUME Serve
       PROVE  PassInv' /\ AllTapped' /\ ServerInv' /\ Told'
  <2> DEFINE m == flush.sent
  <2>1. PICK answer \in Answers :
            /\ flush' = [flush EXCEPT !.answer = answer]
            /\ \/ answer \in {"confirmed", "retry"} /\ Record(m)
               \/ answer # "confirmed" /\ UNCHANGED <<server, recorded>>
    BY <1>11 DEF Serve
  <2>2. /\ flush # None /\ m # None /\ m \in 1..Len(taps) /\ m \in Marks
        /\ UNCHANGED <<late, taps>>
    BY <1>2, <1>4, <1>11 DEF Serve, storeVars
  <2>3. /\ flush' \in Pass /\ flush' # None /\ flush'.sent = m
        /\ flush'.todo = flush.todo /\ flush'.answer = answer
    BY <1>4, <2>1, <2>2, PassAssumption DEF Pass
  <2> HIDE DEF m
  <2>4. /\ ServerInv' /\ server' \in [Regs -> Entry] /\ recorded' \subseteq 1..Len(taps')
        /\ answer = "confirmed" => m \in recorded'
    <3>1. CASE Record(m)
      BY <1>6, <2>2, <3>1 DEF Record
    <3>2. CASE answer # "confirmed" /\ UNCHANGED <<server, recorded>>
      BY <1>2, <1>4, <1>5, <3>2 DEF PassInv
    <3> QED
      BY <2>1, <3>1, <3>2
  <2>5. PassInv'
    BY <2>2, <2>3, <2>4 DEF PassInv
  <2>6. AllTapped'
    BY <1>4, <2>2, <2>3, <2>4 DEF AllTapped, OnTheWay
  <2> QED
    BY <1>7, <2>4, <2>5, <2>6
<1>12. ASSUME SettleSent
       PROVE  PassInv' /\ AllTapped' /\ ServerInv' /\ Told'
  <2>1. /\ flush # None /\ flush' = [flush EXCEPT !.sent = None, !.answer = None]
        /\ UNCHANGED <<late, server, recorded>>
    BY <1>12 DEF SettleSent
  <2>2. /\ flush' \in Pass /\ flush' # None /\ flush'.sent = None
        /\ flush'.todo = flush.todo /\ flush'.answer = None
    BY <1>4, <2>1, PassAssumption DEF Pass, Entry
  <2>3. PassInv'
    BY <2>1, <2>2, PassAssumption DEF PassInv, Answers, Outcomes
  <2>4. AllTapped'
    BY <1>2, <1>4, <2>1, <2>2 DEF AllTapped, OnTheWay
  <2> QED
    BY <1>5, <1>7, <2>1, <2>3, <2>4
<1>13. ASSUME KeepSent
       PROVE  PassInv' /\ AllTapped' /\ ServerInv' /\ Told'
  <2>1. /\ flush # None /\ UNCHANGED <<late, server, recorded, taps>>
        /\ flush' = None \/ flush' = [flush EXCEPT !.sent = None, !.answer = None]
    BY <1>13 DEF KeepSent, storeVars
  <2>2. flush' # None =>
        /\ flush' \in Pass /\ flush'.sent = None
        /\ flush'.todo = flush.todo /\ flush'.answer = None
    BY <1>4, <2>1, PassAssumption DEF Pass, Entry
  <2>3. PassInv'
    BY <2>1, <2>2, PassAssumption DEF PassInv, Answers, Outcomes
  <2>4. AllTapped'
    BY <1>4, <2>1, <2>2 DEF AllTapped, OnTheWay
  <2> QED
    BY <1>5, <1>7, <2>1, <2>3, <2>4
<1>14. \A m \in Abandoned : flush # None /\ flush.sent # None /\ m = flush.sent
  BY DEF Abandoned
<1>15. ASSUME flush' = flush \/ flush' = None, UNCHANGED <<server, recorded>>,
              \A m \in late' : m \in late \/ m \in Abandoned
       PROVE  PassInv' /\ AllTapped' /\ ServerInv' /\ Told'
  <2>1. PassInv'
    BY <1>15 DEF PassInv
  <2>2. AllTapped'
    BY <1>2, <1>4, <1>14, <1>15 DEF AllTapped, OnTheWay
  <2> QED
    BY <1>5, <1>7, <1>15, <2>1, <2>2
<1>16. ASSUME Unanswered \/ EndPass \/ \E t \in Tabs : ReloadPage(t)
       PROVE  PassInv' /\ AllTapped' /\ ServerInv' /\ Told'
  BY <1>15, <1>16 DEF Unanswered, EndPass, ReloadPage
<1>17. ASSUME NEW m \in Marks, ServeLate(m)
       PROVE  PassInv' /\ AllTapped' /\ ServerInv' /\ Told'
  <2>1. /\ m \in late /\ late' = late \ {m} /\ UNCHANGED <<flush, taps>>
        /\ Record(m) \/ UNCHANGED <<server, recorded>>
    BY <1>17 DEF ServeLate, storeVars
  <2>2. ServerInv' /\ server' \in [Regs -> Entry] /\ recorded' \subseteq 1..Len(taps')
    BY <1>2, <1>4, <1>5, <1>6, <2>1 DEF PassInv
  <2>3. recorded \subseteq recorded'
    BY <2>1 DEF Record
  <2>4. PassInv'
    BY <2>1, <2>2, <2>3 DEF PassInv
  <2>5. AllTapped'
    BY <1>4, <2>1, <2>2 DEF AllTapped, OnTheWay
  <2> QED
    BY <1>7, <2>2, <2>4, <2>5
<1>18. UNCHANGED vars => UNCHANGED syncVars
  BY DEF vars
<1> QED
  BY <1>8, <1>9, <1>10, <1>11, <1>12, <1>13, <1>16, <1>17, <1>18 DEF SyncNext, StoreStep

LEMMA SyncInvHolds == SyncSpec => []SyncInv
<1>1. SyncInit => SyncInv
  <2> SUFFICES ASSUME SyncInit PROVE SyncInv
    OBVIOUS
  <2>1. IInv
    BY InitKeeps DEF SyncInit
  <2>2. PassInv /\ ServerInv /\ AllTapped
    BY DEF SyncInit, PassInv, ServerInv, AllTapped, OnTheWay, Entry
  <2>3. Told
    <3>1. \A r \in Regs : storage[r].confirmed = None
      BY DEF SyncInit, Init, NoEntries, NoSlot
    <3>2. \A t \in Tabs, r \in Regs :
              tab[t].known[r].confirmed = None /\ tab[t].overlay[r] = None
      BY DEF SyncInit, Init, NoEntries, NoSlot, NoOverrides
    <3> QED
      BY <3>1, <3>2 DEF Told, ToldSlot
  <2> QED
    BY <2>1, <2>2, <2>3 DEF SyncInv
<1>2. SyncInv /\ [SyncNext]_vars => SyncInv'
  <2> SUFFICES ASSUME SyncInv, [SyncNext]_vars PROVE SyncInv'
    OBVIOUS
  <2>1. IInv'
    BY SyncMoves, StoreMoveKeeps DEF SyncInv
  <2> QED
    BY <2>1, PassStep DEF SyncInv
<1> QED
  BY <1>1, <1>2, PTL DEF SyncSpec

\* A mark is shown as confirmed only if the server did record it, on whatever device:
\* an answer to one mark never settles another made meanwhile, in whatever tab.
THEOREM ConfirmedMarksWereRecorded == SyncSpec => ConfirmedWasRecorded
<1>1. SyncInv /\ SyncInv' /\ [SyncNext]_vars =>
        [\A r \in Regs : storage'[r].confirmed \notin {None, storage[r].confirmed}
                            => storage'[r].confirmed \in recorded]_vars
  <2> SUFFICES ASSUME SyncInv, SyncInv', [SyncNext]_vars, NEW r \in Regs,
                      storage'[r].confirmed \notin {None, storage[r].confirmed}
               PROVE  storage'[r].confirmed \in recorded
    OBVIOUS
  <2>1. storage'[r].confirmed \in recorded'
    BY DEF SyncInv, Told, ToldSlot
  <2>2. UNCHANGED recorded \/ UNCHANGED storage
    BY DEF SyncNext, StoreStep, syncVars, storeVars, vars, Send, Serve, SettleSent, KeepSent,
           Unanswered, EndPass, ReloadPage, StartPass, ServeLate
  <2> QED
    BY <2>1, <2>2
<1> QED
  BY <1>1, SyncInvHolds, PTL DEF SyncSpec, ConfirmedWasRecorded

---------------------------------------------------------------------------
(* The order of the replay, while storage takes every write.               *)

\* A stored pending mark is the newest of its registration.
NewestStored ==
    \A r \in Regs : storage[r].pending # None =>
        \A n \in 1..Len(taps) : RegOf(n) = r => n <= storage[r].pending

\* A pass holds no mark older than one of its registration that was ever sent, or
\* that it holds too.
ToSend == IF flush = None THEN {} ELSE flush.todo \cup ({flush.sent} \ {None})

NewestHeld ==
    \A m \in ToSend, n \in recorded \cup OnTheWay : RegOf(n) = RegOf(m) => n <= m

OrderInv == refusable = {} => NewestStored /\ NewestHeld

\* While storage takes every write, no change of it brings back an older mark.
LEMMA NewestStaysStored ==
    ASSUME IInv, StoreMove, refusable = {}, NewestStored
    PROVE  NewestStored'
<1> USE DEF IInv
<1>1. /\ Len(taps) \in Nat /\ Len(taps') \in Nat /\ Len(taps) <= Len(taps')
      /\ \A m \in 1..Len(taps) : taps'[m] = taps[m] /\ RegOf(m)' = RegOf(m)
  BY TapsKept DEF RegOf
<1>2. CASE taps' = taps /\ (storage' = storage \/ storage' = NoEntries)
  <2>1. \A r \in Regs : NoEntries[r].pending = None
    BY DEF NoEntries, NoSlot
  <2> QED
    BY <1>2, <2>1 DEF NewestStored, RegOf
<1>3. ASSUME NEW t \in Tabs, NEW readable, NEW next, Edit(t, readable, next)
      PROVE  NewestStored'
  <2>1. Readable = {TRUE} /\ readable = TRUE
    BY <1>3 DEF Edit, Readable
  <2> DEFINE a == AfterRead(tab[t], TRUE)
  <2>2. PICK x : Outcome(t, a, readable, next, x)
    BY <1>3, <2>1, EditOutcome
  <2>3. storage' = next /\ next \in Document
    BY <1>3, <2>2 DEF Outcome, Edit
  <2>4. tab[t].overlay = NoOverrides /\ ~tab[t].detached
    BY DEF WholeInv, QuietInv, Quiet
  <2> SUFFICES ASSUME NEW r \in Regs, next[r].pending # None,
                      NEW n \in 1..Len(taps'), RegOf(n)' = r
               PROVE  n <= next[r].pending
    BY <2>3 DEF NewestStored
  <2>5. View(a)[r] = storage[r]
    <3>1. a.known = storage /\ ~a.detached /\ a.overlay[r] = None
      BY <2>4, ReadDoes DEF TypeOK, Survives, NoOverrides
    <3> HIDE DEF a
    <3> QED
      BY <3>1 DEF View
  <2>6. /\ next[r].pending \in {storage[r].pending, None} \cup NewMarks(r)
        /\ \A m \in NewMarks(r) : next[r].pending = m
    BY <1>3, <2>1, <2>5 DEF Edit, MadeFrom
  <2>7. CASE n \in NewMarks(r)
    BY <2>6, <2>7
  <2>8. CASE n \notin NewMarks(r)
    <3>1. n \in 1..Len(taps)
      BY <1>1, <2>8 DEF NewMarks, RegOf
    <3>2. CASE next[r].pending \in NewMarks(r)
      BY <1>1, <3>1, <3>2 DEF NewMarks
    <3>3. CASE next[r].pending = storage[r].pending
      BY <1>1, <3>1, <3>3 DEF NewestStored
    <3> QED
      BY <2>6, <3>2, <3>3
  <2> QED
    BY <2>7, <2>8
<1>4. ASSUME NEW t \in Tabs, ClearAll(t)
      PROVE  taps' = taps /\ storage' \in {storage, NoEntries}
  BY <1>4 DEF ClearAll
<1> QED
  BY <1>2, <1>3, <1>4 DEF StoreMove, RecordClear, Read, Reload, storeVars

\* A pass that starts takes the newest marks, and none comes before them meanwhile.
LEMMA OrderStep == SyncInv /\ OrderInv /\ [SyncNext]_vars => OrderInv'
<1> SUFFICES ASSUME SyncInv, OrderInv, [SyncNext]_vars, refusable' = {}
             PROVE  NewestStored' /\ NewestHeld'
  BY DEF OrderInv
<1> USE DEF SyncInv
<1>1. StoreMove /\ TypeOK /\ PassInv' /\ AllTapped'
  BY SyncMoves, PassStep DEF IInv
<1>2. refusable = {} /\ NewestStored /\ NewestHeld
  BY <1>1, TapsKept DEF OrderInv
<1>3. NewestStored'
  BY <1>1, <1>2, NewestStaysStored
<1>4. \A m \in recorded \cup OnTheWay : m \in 1..Len(taps) /\ RegOf(m)' = RegOf(m)
  BY <1>1, TapsKept DEF AllTapped, RegOf
<1>5. ToSend \subseteq OnTheWay
  BY DEF ToSend, OnTheWay
<1>6. ASSUME ToSend' \subseteq ToSend,
             (recorded \cup OnTheWay)' \subseteq recorded \cup OnTheWay
      PROVE  NewestHeld'
  BY <1>2, <1>4, <1>5, <1>6 DEF NewestHeld
<1>7. ASSUME ToSend' = {}
      PROVE  NewestHeld'
  BY <1>7 DEF NewestHeld
<1>8. ASSUME NEW t \in Tabs, NEW o \in Owners, StartPass(t, o)
      PROVE  NewestHeld'
  <2>1. /\ flush' = [tab |-> t, todo |-> PendingOf(t, o), sent |-> None, answer |-> None]
        /\ UNCHANGED <<late, recorded, taps>> /\ flush = None
    BY <1>8 DEF StartPass
  <2>2. flush' # None
    BY <1>1, <2>1, PassAssumption, MarkTypes DEF Pass, PendingOf, Entry
  <2>3. ToSend' = PendingOf(t, o) /\ (recorded \cup OnTheWay)' \subseteq 1..Len(taps)
    BY <1>1, <2>1, <2>2 DEF ToSend, AllTapped
  <2>4. ASSUME NEW m \in PendingOf(t, o)
        PROVE  /\ m \in 1..Len(taps) /\ RegOf(m) \in Regs /\ m # None
               /\ storage[RegOf(m)].pending = m
    <3>1. m \in 1..Len(taps) /\ Shown(t)[RegOf(m)].pending = m
      BY DEF PendingOf, IsPending
    <3>2. RegOf(m) \in Regs /\ m # None
      BY <1>1, <3>1, MarkTypes
    <3> DEFINE a == AfterRead(tab[t], TRUE)
    <3>3. tab[t].overlay = NoOverrides /\ ~tab[t].detached
      BY <1>2 DEF IInv, WholeInv, QuietInv, Quiet
    <3>4. a.known = storage /\ ~a.detached /\ a.overlay[RegOf(m)] = None
      BY <1>1, <3>2, <3>3, ReadDoes DEF TypeOK, Survives, NoOverrides
    <3>5. Shown(t) = View(a)
      BY DEF Shown
    <3> HIDE DEF a
    <3>6. View(a)[RegOf(m)] = storage[RegOf(m)]
      BY <3>2, <3>4 DEF View
    <3> QED
      BY <3>1, <3>2, <3>5, <3>6
  <2>5. \A m \in 1..Len(taps) : RegOf(m)' = RegOf(m)
    BY <2>1 DEF RegOf
  <2>6. ASSUME NEW m \in ToSend', NEW n \in (recorded \cup OnTheWay)', RegOf(n)' = RegOf(m)'
        PROVE  n <= m
    BY <1>2, <2>3, <2>4, <2>5, <2>6 DEF NewestStored
  <2> QED
    BY <2>6 DEF NewestHeld
<1>9. flush # None => flush \in Pass /\ flush.todo \subseteq Marks
  BY DEF PassInv, Pass
<1>10. ASSUME Send
       PROVE  NewestHeld'
  <2>1. PICK m \in flush.todo : flush' = [flush EXCEPT !.sent = m, !.todo = @ \ {m}]
    BY <1>10 DEF Send
  <2>2. flush # None /\ UNCHANGED <<late, recorded>>
    BY <1>10 DEF Send
  <2>3. flush'.sent = m /\ flush'.todo = flush.todo \ {m}
    BY <1>9, <2>1, <2>2 DEF Pass
  <2>4. ToSend' \subseteq ToSend
    BY <2>1, <2>2, <2>3 DEF ToSend
  <2>5. (recorded \cup OnTheWay)' \subseteq recorded \cup OnTheWay
    BY <2>1, <2>2, <2>3 DEF OnTheWay
  <2> QED
    BY <1>6, <2>4, <2>5
<1>11. ASSUME Serve
       PROVE  NewestHeld'
  <2>1. PICK answer \in Answers : flush' = [flush EXCEPT !.answer = answer]
    BY <1>11 DEF Serve
  <2>2. flush # None /\ flush.sent # None /\ UNCHANGED late
        /\ recorded' \subseteq recorded \cup {flush.sent}
    BY <1>11 DEF Serve, Record
  <2>3. flush'.sent = flush.sent /\ flush'.todo = flush.todo
    BY <1>9, <2>1, <2>2 DEF Pass
  <2>4. ToSend' \subseteq ToSend
    BY <2>2, <2>3 DEF ToSend
  <2>5. (recorded \cup OnTheWay)' \subseteq recorded \cup OnTheWay
    BY <2>2, <2>3 DEF OnTheWay
  <2> QED
    BY <1>6, <2>4, <2>5
<1>12. ASSUME flush # None, flush' = [flush EXCEPT !.sent = None, !.answer = None],
              UNCHANGED <<late, recorded>>
       PROVE  NewestHeld'
  <2>1. flush'.sent = None /\ flush'.todo = flush.todo
    BY <1>9, <1>12 DEF Pass
  <2>2. ToSend' \subseteq ToSend
    BY <1>12, <2>1 DEF ToSend
  <2>3. (recorded \cup OnTheWay)' \subseteq recorded \cup OnTheWay
    BY <1>12, <2>1 DEF OnTheWay
  <2> QED
    BY <1>6, <2>2, <2>3
<1>13. ASSUME flush' = None
       PROVE  NewestHeld'
  BY <1>7, <1>13 DEF ToSend
<1>14. ASSUME flush' = flush, late' \subseteq late, recorded' \subseteq recorded \cup late
       PROVE  NewestHeld'
  <2>1. ToSend' = ToSend
    BY <1>14 DEF ToSend
  <2>2. (recorded \cup OnTheWay)' \subseteq recorded \cup OnTheWay
    BY <1>14 DEF OnTheWay
  <2> QED
    BY <1>6, <2>1, <2>2
<1>15. ASSUME NEW t \in Tabs, ReloadPage(t)
       PROVE  NewestHeld'
  <2>1. CASE flush # None /\ flush.tab = t
    BY <1>13, <1>15, <2>1 DEF ReloadPage
  <2>2. CASE ~(flush # None /\ flush.tab = t)
    BY <1>14, <1>15, <2>2 DEF ReloadPage
  <2> QED
    BY <2>1, <2>2
<1>16. ASSUME NEW m \in Marks, ServeLate(m)
       PROVE  NewestHeld'
  BY <1>14, <1>16 DEF ServeLate, Record
<1>17. ASSUME StoreStep \/ UNCHANGED vars
       PROVE  NewestHeld'
  BY <1>14, <1>17 DEF StoreStep, syncVars, vars
<1>18. ASSUME SettleSent \/ KeepSent \/ Unanswered \/ EndPass
       PROVE  NewestHeld'
  BY <1>12, <1>13, <1>18 DEF SettleSent, KeepSent, Unanswered, EndPass
<1> QED
  BY <1>3, <1>8, <1>10, <1>11, <1>15, <1>16, <1>17, <1>18 DEF SyncNext

\* While storage takes every write, the server records the marks of a registration in
\* the order they were made, but for a request the page had given up on.
THEOREM MarksAreRecordedInOrder == SyncSpec => RecordedInOrder
<1>1. SyncInit => OrderInv
  BY DEF SyncInit, Init, OrderInv, NewestStored, NewestHeld, ToSend, NoEntries, NoSlot
<1>2. SyncSpec => []OrderInv
  BY <1>1, OrderStep, SyncInvHolds, PTL DEF SyncSpec
<1>3. SyncInv /\ OrderInv /\ [SyncNext]_vars =>
        [refusable = {} => \A r \in Regs :
            (server[r] # None /\ server'[r] # server[r])
                => server'[r] > server[r] \/ server'[r] \in late \ late']_vars
  <2> SUFFICES ASSUME SyncInv, OrderInv, [SyncNext]_vars, refusable = {}, NEW r \in Regs,
                      server[r] # None, server'[r] # server[r]
               PROVE  server'[r] > server[r] \/ server'[r] \in late \ late'
    OBVIOUS
  <2>1. server[r] \in recorded /\ RegOf(server[r]) = r /\ server \in [Regs -> Entry]
    BY DEF SyncInv, ServerInv, PassInv
  <2>2. CASE Serve
    <3>1. /\ flush # None /\ flush.sent # None
          /\ server' = [server EXCEPT ![RegOf(flush.sent)] = flush.sent]
      BY <2>2 DEF Serve, Record
    <3>2. RegOf(flush.sent) = r /\ server'[r] = flush.sent
      BY <2>1, <3>1
    <3>3. flush.sent \in ToSend
      BY <3>1 DEF ToSend
    <3>4. server[r] <= flush.sent
      BY <2>1, <3>2, <3>3 DEF OrderInv, NewestHeld
    <3>5. server[r] \in Nat /\ flush.sent \in Nat
      BY <2>1, <3>1 DEF SyncInv, AllTapped, OnTheWay
    <3> QED
      BY <3>2, <3>4, <3>5
  <2>3. ASSUME NEW m \in Marks, ServeLate(m)
        PROVE  server'[r] \in late \ late'
    BY <2>1, <2>3 DEF ServeLate, Record
  <2> QED
    BY <2>2, <2>3 DEF SyncNext, StoreStep, syncVars, vars, Send, SettleSent, KeepSent,
                      Unanswered, EndPass, ReloadPage, StartPass
<1> QED
  BY <1>2, <1>3, SyncInvHolds, PTL DEF SyncSpec, RecordedInOrder

\* A replay tells the server and the page what happened: the order, and the outcome.
THEOREM ReplaysAreTrue == SyncSpec => ReplayIsTrue
  BY ConfirmedMarksWereRecorded, MarksAreRecordedInOrder DEF ReplayIsTrue
=============================================================================
