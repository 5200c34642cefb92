--------------------------- MODULE AttendanceSync ---------------------------
(***************************************************************************)
(* Sending the marks of OutboxStore to the server (lib/attendance-sync.ts): *)
(* one flush at a time across the tabs, which reads the pending marks of    *)
(* its account once, sends them in the order they were made, and settles    *)
(* each by the answer.  A request that gets no answer ends the pass, and    *)
(* may still reach the server later.                                        *)
(***************************************************************************)
EXTENDS OutboxStore

CONSTANT LateRequests  \* whether a request nobody waits for may still land

VARIABLES
    flush,   \* the pass that holds the flush lock: its tab, the marks it still
             \* has to send, the one sent and its answer
    late,    \* marks sent by a request nobody waits for any more
    server,  \* per registration, the last mark the server recorded
    recorded \* history: the marks the server ever recorded

syncVars == <<flush, late, server, recorded>>
vars == <<storeVars, syncVars>>

\* How a request ends that is answered: for good, or not.
Answers == Outcomes \cup {"retry", "signed_out"}

Pass == [tab : Tabs, todo : SUBSET Marks, sent : Entry, answer : Answers \cup {None}]

ASSUME PassAssumption == None \notin Answers /\ None \notin Pass

SyncInit ==
    /\ Init
    /\ flush = None
    /\ late = {}
    /\ server = [r \in Regs |-> None]
    /\ recorded = {}

\* The operations of the store; the tab that flushes settles its own marks.
StoreStep ==
    /\ \/ RecordClear
       \/ \E t \in Tabs :
             \/ Read(t) \/ RetryWrite(t) \/ ClearAll(t)
             \/ \E r \in Regs : DismissRefused(t, r) \/ Tap(t, r)
             \/ \E o \in Owners : ClearOwned(t, o)
    /\ UNCHANGED syncVars

PendingOfCached(t, o) ==
    {m \in 1..Len(taps) : OwnerOf(m) = o /\ IsPending(View(tab[t]), m)}

PendingOf(t, o) ==
    {m \in 1..Len(taps) : OwnerOf(m) = o /\ IsPending(Shown(t), m)}

\* flushAttendance and the start of a pass: the marks are read once.
StartPass(t, o) ==
    /\ flush = None
    /\ PendingOf(t, o) # {}
    /\ flush' = [tab |-> t, todo |-> PendingOf(t, o),
                 sent |-> None, answer |-> None]
    /\ tab' = [tab EXCEPT ![t] = AfterRead(@, TRUE)]
    /\ UNCHANGED <<storage, taps, clearing, refusable, over, lost, late, server, recorded>>

\* The oldest first.
Send ==
    /\ flush # None
    /\ flush.sent = None
    /\ \E m \in flush.todo :
          /\ \A n \in flush.todo : m <= n
          /\ flush' = [flush EXCEPT !.sent = m, !.todo = @ \ {m}]
    /\ UNCHANGED <<storeVars, late, server, recorded>>

PassOver == flush # None /\ flush.sent = None /\ flush.todo = {}

EndPassLeaked == PassOver /\ UNCHANGED vars

EndPass ==
    /\ PassOver
    /\ flush' = None
    /\ UNCHANGED <<storeVars, late, server, recorded>>

\* The attendance PUT: the server records the mark, or answers without.
Record(m) ==
    /\ server' = [server EXCEPT ![RegOf(m)] = m]
    /\ recorded' = recorded \cup {m}

Serve ==
    /\ flush # None
    /\ flush.sent # None
    /\ flush.answer = None
    /\ \E answer \in Answers :
          /\ flush' = [flush EXCEPT !.answer = answer]
          /\ \/ /\ answer \in {"confirmed", "retry"}
                /\ Record(flush.sent)
             \/ /\ answer # "confirmed"
                /\ UNCHANGED <<server, recorded>>
    /\ UNCHANGED <<storeVars, late>>

\* A final answer settles the mark, if it is still the pending one.
SettleSent ==
    /\ flush # None
    /\ flush.answer \in Outcomes
    /\ Settle(flush.tab, flush.sent, flush.answer)
    /\ flush' = [flush EXCEPT !.sent = None, !.answer = None]
    /\ UNCHANGED <<late, server, recorded>>

\* Any other answer keeps the mark; a 401 ends the pass.
KeepSent ==
    /\ flush # None
    /\ \/ /\ flush.answer = "retry"
          /\ flush' = [flush EXCEPT !.sent = None, !.answer = None]
       \/ /\ flush.answer = "signed_out"
          /\ flush' = None
    /\ UNCHANGED <<storeVars, late, server, recorded>>

\* A request still on its way when its page stops waiting for it.
Abandoned ==
    IF LateRequests /\ flush # None /\ flush.sent # None /\ flush.answer = None
    THEN {flush.sent} ELSE {}

\* No answer within REQUEST_TIMEOUT_MS, or the request threw: the pass ends.
Unanswered ==
    /\ flush # None
    /\ flush.sent # None
    /\ \E landing \in SUBSET Abandoned : late' = late \cup landing
    /\ flush' = None
    /\ UNCHANGED <<storeVars, server, recorded>>

ServeLate(m) ==
    /\ m \in late
    /\ late' = late \ {m}
    /\ Record(m) \/ UNCHANGED <<server, recorded>>
    /\ UNCHANGED <<storeVars, flush>>

\* The page of a tab is reloaded or closed; a pass of its own dies with it.
ReloadPage(t) ==
    LET flushing == flush # None /\ flush.tab = t
    IN  /\ Reload(t)
        /\ \E landing \in SUBSET (IF flushing THEN Abandoned ELSE {}) : late' = late \cup landing
        /\ flush' = IF flushing THEN None ELSE flush
        /\ UNCHANGED <<server, recorded>>

SyncNext ==
    \/ StoreStep \/ Send \/ Serve \/ SettleSent \/ KeepSent \/ Unanswered \/ EndPass
    \/ \E t \in Tabs : ReloadPage(t) \/ \E o \in Owners : StartPass(t, o)
    \/ \E m \in Marks : ServeLate(m)

SyncSpec == SyncInit /\ [][SyncNext]_vars

\* The backoff and the other triggers start passes again and again; a mark sent
\* again and again is in the end answered for good, and settled.
SentForGood == Serve /\ flush'.answer \in Outcomes

FairSyncSpec ==
    /\ SyncSpec
    /\ WF_vars(RecordClear /\ UNCHANGED syncVars)
    /\ \A o \in Owners : SF_vars(\E t \in Tabs : StartPass(t, o))
    /\ SF_vars(Send) /\ WF_vars(EndPass) /\ WF_vars(KeepSent)
    /\ SF_vars(SentForGood) /\ SF_vars(SettleSent)

---------------------------------------------------------------------------
(* Properties *)

\* A mark is never overwritten by the replay of an older one: while storage takes
\* every write, the server records the marks of a registration in the order they
\* were made, but for a request the page had given up on.
RecordedInOrder ==
    [][refusable = {} => \A r \in Regs :
        (server[r] # None /\ server'[r] # server[r])
            => server'[r] > server[r] \/ server'[r] \in late \ late']_vars

\* A mark is reported as confirmed only if the server did record it: an answer
\* to one mark never settles another made meanwhile, in whatever tab.
ConfirmedWasRecorded ==
    [][\A r \in Regs :
        storage'[r].confirmed \notin {None, storage[r].confirmed}
            => storage'[r].confirmed \in recorded]_vars

\* A replay tells the server and the page what happened: the order, and the outcome.
ReplayIsTrue == RecordedInOrder /\ ConfirmedWasRecorded

\* Whatever fails, a mark that waits is in the end settled, replaced or cleared,
\* unless the tab that alone holds it goes.
Waiting(m) == m <= Len(taps) /\ \E t \in Tabs : IsPending(Shown(t), m)

MarksSettle == \A m \in Marks : Waiting(m) ~> ~Waiting(m)

=============================================================================
