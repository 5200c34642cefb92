-------------------------- MODULE ProcessorPayments --------------------------
(***************************************************************************)
(* One Payment and everything that moves money for it: the student's       *)
(* attempts to pay through Mollie, the syncs that apply what Mollie says   *)
(* about them, the teacher's refunds, and the marks made by hand.          *)
(*                                                                         *)
(* Every write of the payment, its attempts and its refunds is made under  *)
(* the Payment row's lock or by a compare-and-set, and is one action.      *)
(* Mollie is called outside of any transaction, so what Mollie answered    *)
(* may be old when it is applied: a job keeps its answer between the two.  *)
(* A job may end at any point (Lose): the process stops, Mollie or the     *)
(* database fails.  Mollie repeats a webhook that was not answered 200.    *)
(*                                                                         *)
(* pending and overdue are one status here, owed: no operation of this     *)
(* module tells them apart (PaymentDunning does).  Amounts are left out:   *)
(* an attempt is paid and refunded in full.  Mollie itself is external.    *)
(***************************************************************************)
EXTENDS Naturals, FiniteSets, SequencesExt

CONSTANTS
  Attempts,        \* the attempts to pay, rows of ProcessorPayment
  Intents,         \* the refunds asked for, rows of ProcessorRefund
  MollieRefunds,   \* the refunds that exist at Mollie
  Jobs,            \* requests in flight at the same time
  None,
  GrantMayEnd,     \* the teacher may disconnect, reconnect or lose the grant
  DisputeRefunded, \* a bank may take back a payment Mollie is refunding
  DashboardRefunds,\* the teacher may refund in Mollie's own dashboard
  SlowCalls        \* a call may outlive ADOPT_AFTER_MS

ASSUME NoneAssumption == None \notin Attempts \cup Intents \cup MollieRefunds
ASSUME NoneIsNoName == None \notin {"waived", "reopened", "manual", "mollie"}
ASSUME FiniteAssumption == /\ IsFiniteSet(Attempts) /\ IsFiniteSet(Intents)
                           /\ IsFiniteSet(MollieRefunds)
ASSUME SwitchAssumption ==
  /\ GrantMayEnd \in BOOLEAN /\ DisputeRefunded \in BOOLEAN
  /\ DashboardRefunds \in BOOLEAN /\ SlowCalls \in BOOLEAN

VARIABLES
  payment,   \* Payment: its status and method
  attempt,   \* ProcessorPayment: status, settledPayment, chargedBackAt
  refund,    \* ProcessorRefund: the attempt, Mollie's id, status, outcome
  grant,     \* the teacher's ProcessorConnection
  duplicate, \* the attempts the teacher was told were paid twice
  money,     \* at Mollie: the status of each attempt's payment
  disputed,  \* at Mollie: the payments a bank has taken back
  returned,  \* at Mollie: the refunds
  due,       \* the attempts Mollie owes a webhook for
  job        \* what each request in flight holds

rows   == <<payment, attempt, refund, duplicate>>
mollie == <<money, disputed, returned>>
vars   == <<rows, grant, mollie, due, job>>

(* --------------------------- what the rows hold ------------------------ *)

PaymentStatuses == {"owed", "paid", "not_charged"}
AttemptStatuses == {"none", "open", "ended", "paid"}

\* REFUND_STAGE, with "none" before the row is written and "gone" once the
\* intent is withdrawn: a later intent is another row.
RefundStages == {"none", "live", "refunded", "ended", "gone"}
Outcomes     == {"waived", "reopened", None}

Owed == [status |-> "owed", method |-> None]

NoRefund == [of |-> None, mid |-> None, status |-> "none",
             outcome |-> None, old |-> FALSE]
Idle == [do |-> "idle"]

Init ==
  /\ payment = Owed
  /\ attempt = [a \in Attempts |->
       [status |-> "none", settled |-> FALSE, chargedBack |-> FALSE]]
  /\ refund = [i \in Intents |-> NoRefund]
  /\ grant = "live"
  /\ duplicate = {}
  /\ money = [a \in Attempts |-> "none"]
  /\ disputed = {}
  /\ returned = [r \in MollieRefunds |->
       [of |-> None, status |-> "none", ours |-> FALSE]]
  /\ due = {}
  /\ job = [j \in Jobs |-> Idle]

\* canRefundThroughGrant; the connection is gone only with an erased teacher.
GrantHeld == grant # "revoked"

Awaiting(rfd, a) ==
  {i \in Intents : rfd[i].of = a /\ rfd[i].status = "live" /\ rfd[i].mid = None}

HeldBy(rfd, r) == {i \in Intents : rfd[i].mid = r}

Final(stage) == stage \in {"refunded", "ended"}

(* ------------------------------ the attempts --------------------------- *)

\* POST processor-attempt: Mollie has made a payment and nothing is stored.
AskCheckout(j, a) ==
  /\ job[j] = Idle
  /\ money[a] = "none"
  /\ payment.status = "owed"
  /\ grant = "live"
  /\ money' = [money EXCEPT ![a] = "open"]
  /\ job' = [job EXCEPT ![j] = [do |-> "checkout", attempt |-> a]]
  /\ UNCHANGED <<rows, grant, disputed, returned, due>>

\* createAttempt's transaction: checked again, and stored or given up.
StoreAttempt(j) ==
  /\ job[j].do = "checkout"
  /\ attempt' = IF payment.status = "owed" /\ grant = "live"
                THEN [attempt EXCEPT ![job[j].attempt].status = "open"]
                ELSE attempt
  /\ job' = [job EXCEPT ![j] = Idle]
  /\ UNCHANGED <<payment, refund, duplicate, grant, mollie, due>>

(* -------------------------------- Mollie ------------------------------- *)

\* The student pays, or the payment ends: only one whose checkout was shown.
MollieMoves(a, to) ==
  /\ money[a] = "open"
  /\ attempt[a].status # "none"
  /\ money' = [money EXCEPT ![a] = to]
  /\ due' = due \cup {a}
  /\ UNCHANGED <<rows, grant, disputed, returned, job>>

\* A bank takes a payment back.
MollieDisputes(a) ==
  /\ money[a] = "paid"
  /\ a \notin disputed
  /\ \/ DisputeRefunded
     \/ \A r \in MollieRefunds : returned[r].of = a => returned[r].status = "ended"
  /\ disputed' = disputed \cup {a}
  /\ due' = due \cup {a}
  /\ UNCHANGED <<rows, grant, money, returned, job>>

MollieRefundMoves(r, to) ==
  /\ returned[r].status = "live"
  /\ returned' = [returned EXCEPT ![r].status = to]
  /\ due' = due \cup {returned[r].of}
  /\ UNCHANGED <<rows, grant, money, disputed, job>>

\* Mollie refunds no more than was paid: not beside a refund under way.
DashboardRefund(r, a) ==
  /\ DashboardRefunds
  /\ money[a] = "paid"
  /\ a \notin disputed
  /\ returned[r].status = "none"
  /\ \A q \in MollieRefunds : returned[q].of = a => returned[q].status = "ended"
  /\ returned' = [returned EXCEPT ![r] =
       [of |-> a, status |-> "live", ours |-> FALSE]]
  /\ due' = due \cup {a}
  /\ UNCHANGED <<rows, grant, money, disputed, job>>

(* --------------------------- marks made by hand ------------------------ *)

MarkPaid ==
  /\ payment.status = "owed"
  /\ payment' = [status |-> "paid", method |-> "manual"]
  /\ UNCHANGED <<attempt, refund, duplicate, grant, mollie, due, job>>

MarkNotCharged ==
  /\ payment.status = "owed"
  /\ payment' = [status |-> "not_charged", method |-> None]
  /\ UNCHANGED <<attempt, refund, duplicate, grant, mollie, due, job>>

\* reopenWithin: refused while another attempt settles and can be refunded.
Reopens(p, att, except) ==
  /\ p.status \in {"paid", "not_charged"}
  /\ ~ \E a \in Attempts \ except : att[a].settled /\ GrantHeld

ReopenPayment ==
  /\ Reopens(payment, attempt, {})
  /\ payment' = Owed
  /\ UNCHANGED <<attempt, refund, duplicate, grant, mollie, due, job>>

(* ------------------------------ the grant ------------------------------ *)

Disconnect ==
  /\ GrantMayEnd
  /\ grant = "live"
  /\ grant' = "disconnected"
  /\ UNCHANGED <<rows, mollie, due, job>>

\* The revocation sweep past its cap, or a refresh Mollie answers invalid_grant.
GrantEnds ==
  /\ GrantMayEnd
  /\ GrantHeld
  /\ grant' = "revoked"
  /\ UNCHANGED <<rows, mollie, due, job>>

\* completeConnect rewrites the teacher's one row.
Reconnect ==
  /\ grant # "live"
  /\ grant' = "live"
  /\ UNCHANGED <<rows, mollie, due, job>>

(* -------------------------- completing a refund ------------------------ *)

\* A waive that leaves the attempt settling.
CompleteRefundUnreleased(st, a, outcome) ==
  IF outcome = "waived" /\ st.payment.status = "paid"
  THEN [st EXCEPT !.payment = [status |-> "not_charged", method |-> None]]
  ELSE st

\* What completeRefund leaves of the payment and the attempts.  st is the
\* state inside a transaction: its fields payment and attempt.
CompleteRefund(st, a, outcome) ==
  LET released == [st.attempt EXCEPT ![a].settled = FALSE]
  IN CASE outcome = "waived" /\ st.payment.status = "paid" ->
            [st EXCEPT !.payment = [status |-> "not_charged", method |-> None],
                       !.attempt = released]
       [] outcome = "reopened" /\ Reopens(st.payment, st.attempt, {a}) ->
            [st EXCEPT !.payment = Owed, !.attempt = released]
       [] OTHER -> st

(* ------------------------------- a sync -------------------------------- *)

\* syncAttempt, up to Mollie's answer: started by a webhook Mollie owes, or by
\* the student's return.  old: the intents already older than ADOPT_AFTER_MS.
SyncFetch(j, a, hook) ==
  /\ job[j] = Idle
  /\ attempt[a].status # "none"
  /\ GrantHeld
  /\ hook => a \in due
  /\ job' = [job EXCEPT ![j] =
       [do |-> "sync", attempt |-> a, hook |-> hook, link |-> "unread",
        paid |-> money[a], disputed |-> a \in disputed,
        returned |-> [r \in MollieRefunds |->
                        IF returned[r].of = a THEN returned[r].status ELSE "none"],
        old |-> {i \in Intents : refund[i].old}]]
  /\ due' = IF hook THEN due \ {a} ELSE due
  /\ UNCHANGED <<rows, grant, mollie>>

\* A webhook for a revoked grant is answered 200 ("unknown").
SyncUnknown(a) ==
  /\ a \in due
  /\ ~GrantHeld
  /\ due' = due \ {a}
  /\ UNCHANGED <<rows, grant, mollie, job>>

\* No adoption: a refund no row holds waits for its own call.
AdoptableNever(rfd, a, old) == {}

\* adoptionFor: the intent a refund no row holds is adopted into.
Adoptable(rfd, a, old) == Awaiting(rfd, a) \cap old

\* The row of a refund Mollie lists: the one that holds it, or the intent that
\* adopts it.
RowsFor(rfd, r, a, old) ==
  IF HeldBy(rfd, r) # {} THEN HeldBy(rfd, r) ELSE Adoptable(rfd, a, old)

\* Whether the sync takes the link lock, read before any lock.
SyncReadRows(j) ==
  /\ job[j].do = "sync"
  /\ job[j].link = "unread"
  /\ LET s == job[j]
         reopens == \E r \in MollieRefunds :
                    \E i \in RowsFor(refund, r, s.attempt, s.old) :
                      /\ s.returned[r] = "refunded"
                      /\ refund[i].outcome = "reopened"
                      /\ refund[i].status = "live"
     IN job' = [job EXCEPT ![j].link = IF reopens THEN "locked" ELSE "free"]
  /\ UNCHANGED <<rows, grant, mollie, due>>

\* A sync that settles whatever it stored of the attempt before.
DecideSyncAgain(st, s) ==
  IF s.paid = "paid" /\ st.payment.status = "owed"
  THEN [st EXCEPT !.payment = [status |-> "paid", method |-> "mollie"],
                  !.attempt[s.attempt].status = "paid",
                  !.attempt[s.attempt].settled = TRUE]
  ELSE [st EXCEPT !.attempt[s.attempt].status = s.paid]

\* decideSync, and the writes it asks for.
DecideSync(st, s) ==
  LET a == s.attempt
      here == st.attempt[a]
  IN IF s.paid = "paid" /\ s.disputed
     THEN IF here.chargedBack THEN st
          ELSE [st EXCEPT !.attempt[a] =
                  [status |-> "paid", settled |-> FALSE, chargedBack |-> TRUE]]
     ELSE IF here.status = "paid" \/ s.paid = here.status THEN st
     ELSE IF s.paid # "paid" THEN [st EXCEPT !.attempt[a].status = s.paid]
     ELSE IF st.payment.status = "owed"
     THEN [st EXCEPT !.payment = [status |-> "paid", method |-> "mollie"],
                     !.attempt[a].status = "paid", !.attempt[a].settled = TRUE]
     ELSE [st EXCEPT !.attempt[a].status = "paid", !.duplicate = @ \cup {a}]

\* A refund Mollie lists as refunded is completed on every sync.
ApplyRefundAgain(st, s, r) ==
  LET row   == RowsFor(st.refund, r, s.attempt, s.old)
      i     == CHOOSE x \in row : TRUE
      named == [st EXCEPT !.refund[i].mid = r]
      moved == [named EXCEPT !.refund[i].status = s.returned[r]]
  IN IF row = {}
     THEN IF Awaiting(st.refund, s.attempt) # {} THEN [st EXCEPT !.deferred = TRUE]
          ELSE [st EXCEPT !.dashboard = @ \/ s.returned[r] = "refunded"]
     ELSE IF s.returned[r] # "refunded" THEN moved
     ELSE IF st.refund[i].outcome = "reopened" /\ s.link = "free"
     THEN [st EXCEPT !.deferred = TRUE]
     ELSE CompleteRefund(moved, s.attempt, st.refund[i].outcome)

\* One refund Mollie lists, in the sync's transaction.
ApplyRefund(st, s, r) ==
  LET row   == RowsFor(st.refund, r, s.attempt, s.old)
      i     == CHOOSE x \in row : TRUE
      moves == ~Final(st.refund[i].status) /\ st.refund[i].status # s.returned[r]
      named == [st EXCEPT !.refund[i].mid = r]
      moved == [named EXCEPT !.refund[i].status = s.returned[r]]
  IN IF row = {}
     THEN IF Awaiting(st.refund, s.attempt) # {} THEN [st EXCEPT !.deferred = TRUE]
          ELSE [st EXCEPT !.dashboard = @ \/ s.returned[r] = "refunded"]
     ELSE IF ~moves THEN named
     ELSE IF s.returned[r] # "refunded" THEN moved
     ELSE IF st.refund[i].outcome = "reopened" /\ s.link = "free"
     THEN [st EXCEPT !.deferred = TRUE]
     ELSE CompleteRefund(moved, s.attempt, st.refund[i].outcome)

\* A release that also gives the attempt a status of its own.
ReleaseAsRefunded(st, a) ==
  IF st.dashboard
  THEN [st EXCEPT !.attempt[a].settled = FALSE, !.attempt[a].status = "refunded"]
  ELSE st

\* releaseAfterDashboardRefunds.
ReleaseAfterDashboardRefunds(st, a) ==
  IF st.dashboard THEN [st EXCEPT !.attempt[a].settled = FALSE] ELSE st

\* The sync's transaction, its refunds in the order Mollie lists them.
SyncTransaction(s, order) ==
  LET start == [payment |-> payment, attempt |-> attempt, refund |-> refund,
                duplicate |-> duplicate, deferred |-> FALSE, dashboard |-> FALSE]
      after[k \in 0 .. Len(order)] ==
        IF k = 0 THEN DecideSync(start, s) ELSE ApplyRefund(after[k - 1], s, order[k])
  IN ReleaseAfterDashboardRefunds(after[Len(order)], s.attempt)

\* ProcessorPayment_one_settling_per_payment, tested as the settle is written.
SettlesTwice(s) ==
  /\ s.attempt \notin {a \in Attempts : attempt[a].settled}
  /\ DecideSync([payment |-> payment, attempt |-> attempt,
                 duplicate |-> duplicate], s).attempt[s.attempt].settled
  /\ \E a \in Attempts : attempt[a].settled

\* A webhook answered 200 whatever became of it.
OwingNever(s) == {}

\* A sync that answers 503, or not at all, has its webhook repeated.
Owing(s) == IF s.hook THEN {s.attempt} ELSE {}

SyncApply(j) ==
  /\ job[j].do = "sync"
  /\ job[j].link # "unread"
  /\ LET s == job[j]
     IN /\ ~SettlesTwice(s)
        /\ \E order \in SetToSeqs({r \in MollieRefunds : s.returned[r] # "none"}) :
             LET st == SyncTransaction(s, order)
             IN /\ payment' = st.payment
                /\ attempt' = st.attempt
                /\ refund' = st.refund
                /\ duplicate' = st.duplicate
                /\ due' = IF st.deferred THEN due \cup Owing(s) ELSE due
  /\ job' = [job EXCEPT ![j] = Idle]
  /\ UNCHANGED <<grant, mollie>>

\* The transaction fails on the index and everything in it is rolled back.
SyncAborts(j) ==
  /\ job[j].do = "sync"
  /\ job[j].link # "unread"
  /\ SettlesTwice(job[j])
  /\ due' = due \cup Owing(job[j])
  /\ job' = [job EXCEPT ![j] = Idle]
  /\ UNCHANGED <<rows, grant, mollie>>

(* ---------------------------- a refund request ------------------------- *)

\* recordIntent's checks: an outcome is chosen exactly when the attempt
\* settled the payment.
RefundAllowed(a, outcome) ==
  /\ attempt[a].status = "paid"
  /\ ~attempt[a].chargedBack
  /\ ~ \E i \in Intents : refund[i].of = a /\ refund[i].status = "refunded"
  /\ GrantHeld
  /\ (outcome # None) = (attempt[a].settled /\ payment.status = "paid")

\* Without the unique index.
LiveRefundUnasked(a) == FALSE

\* ProcessorRefund_one_live_per_attempt.
LiveRefund(a) == \E i \in Intents : refund[i].of = a /\ refund[i].status = "live"

Asked(a, i, outcome, at, stale) ==
  [do |-> "refund", at |-> at, attempt |-> a, intent |-> i, outcome |-> outcome,
   stale |-> stale, list |-> <<>>, found |-> None, status |-> "none"]

Record(j, a, i, outcome) ==
  /\ RefundAllowed(a, outcome)
  /\ ~LiveRefund(a)
  /\ refund[i] = NoRefund
  /\ refund' = [refund EXCEPT ![i] = [of |-> a, mid |-> None, status |-> "live",
                                      outcome |-> outcome, old |-> FALSE]]
  /\ job' = [job EXCEPT ![j] = Asked(a, i, outcome, "call", FALSE)]

\* recordIntent, for a new request.
RecordIntent(j, a, i, outcome) ==
  /\ job[j] = Idle
  /\ Record(j, a, i, outcome)
  /\ UNCHANGED <<payment, attempt, duplicate, grant, mollie, due>>

\* recordIntent finding an intent old enough to be reconciled first.  wanted
\* is the request's own choice, kept for the intent it may record after that.
FindStale(j, a, i, wanted) ==
  /\ job[j] = Idle
  /\ RefundAllowed(a, wanted)
  /\ i \in Awaiting(refund, a)
  /\ refund[i].old
  /\ job' = [job EXCEPT ![j] = Asked(a, i, wanted, "unsure", TRUE)]
  /\ UNCHANGED <<rows, grant, mollie, due>>

\* createRefund at Mollie: r is the refund it makes, None if it makes none.
\* The answer may be lost either way, and a refusal is an answer.
CallMollie(j, r, answered) ==
  /\ job[j].do = "refund"
  /\ job[j].at = "call"
  /\ GrantHeld
  /\ LET a == job[j].attempt
     IN IF r = None
        THEN UNCHANGED <<returned, due>>
        ELSE /\ returned[r].status = "none"
             /\ DisputeRefunded \/ a \notin disputed
             /\ ~ \E q \in MollieRefunds :
                    /\ returned[q].of = a
                    /\ ~returned[q].ours
                    /\ returned[q].status # "ended"
             /\ returned' = [returned EXCEPT ![r] =
                  [of |-> a, status |-> "live", ours |-> TRUE]]
             /\ due' = due \cup {a}
  /\ job' = [job EXCEPT
       ![j].at = IF ~answered THEN "unsure" ELSE IF r = None THEN "withdraw" ELSE "answer",
       ![j].found = IF answered THEN r ELSE None,
       ![j].status = IF answered /\ r # None THEN "live" ELSE "none"]
  /\ UNCHANGED <<rows, grant, money, disputed>>

\* requestRefund without a configuration or a token.
NoToken(j) ==
  /\ job[j].do = "refund"
  /\ job[j].at = "call"
  /\ job' = [job EXCEPT ![j].at = "withdraw"]
  /\ UNCHANGED <<rows, grant, mollie, due>>

\* unheldRefund's question to Mollie.
ListRefunds(j) ==
  /\ job[j].do = "refund"
  /\ job[j].at = "unsure"
  /\ GrantHeld
  /\ job' = [job EXCEPT
       ![j].at = "listed",
       ![j].list = [r \in MollieRefunds |->
          IF returned[r].of = job[j].attempt THEN returned[r].status ELSE "none"]]
  /\ UNCHANGED <<rows, grant, mollie, due>>

\* unheldRefund's pick: one no row holds, rather one that has not ended.
Unheld(list) == {r \in DOMAIN list : list[r] # "none" /\ HeldBy(refund, r) = {}}

Picks(list) ==
  LET moving == {r \in Unheld(list) : list[r] # "ended"}
  IN IF moving # {} THEN moving ELSE Unheld(list)

MatchRefund(j) ==
  /\ job[j].do = "refund"
  /\ job[j].at = "listed"
  /\ \/ \E r \in Picks(job[j].list) :
          job' = [job EXCEPT ![j].at = "answer", ![j].found = r,
                             ![j].status = job[j].list[r], ![j].list = <<>>]
     \/ /\ Picks(job[j].list) = {}
        /\ job' = [job EXCEPT ![j].at = "withdraw", ![j].list = <<>>]
  /\ UNCHANGED <<rows, grant, mollie, due>>

\* A withdrawal that does not look for a Mollie id.
WithdrawnAnyway(i) ==
  [refund EXCEPT ![i] = [NoRefund EXCEPT !.status = "gone"]]

\* Deletes the intent, unless a sync has given it a Mollie id meanwhile.
Withdrawn(i) ==
  IF refund[i].mid = None /\ refund[i].status # "none"
  THEN [refund EXCEPT ![i] = [NoRefund EXCEPT !.status = "gone"]]
  ELSE refund

Withdraw(j) ==
  /\ job[j].do = "refund"
  /\ job[j].at = "withdraw"
  /\ refund' = Withdrawn(job[j].intent)
  /\ job' = [job EXCEPT ![j] =
       IF @.stale THEN [@ EXCEPT !.at = "again"] ELSE Idle]
  /\ UNCHANGED <<payment, attempt, duplicate, grant, mollie, due>>

\* refundAttempt's second recordIntent, once the stale intent is withdrawn.
RecordAgain(j, i) ==
  /\ job[j].do = "refund"
  /\ job[j].at = "again"
  /\ Record(j, job[j].attempt, i, job[j].outcome)
  /\ UNCHANGED <<payment, attempt, duplicate, grant, mollie, due>>

\* storeAnswer: the intent gone, given an id by a sync, or stored.  The outcome
\* is the one the intent was recorded with.
StoreAnswer(j) ==
  /\ job[j].do = "refund"
  /\ job[j].at = "answer"
  /\ LET i == job[j].intent
         open == refund[i].status = "live" /\ refund[i].mid = None
         stored == [payment |-> payment, attempt |-> attempt,
                    refund |-> [refund EXCEPT ![i].mid = job[j].found,
                                              ![i].status = job[j].status]]
         st == IF job[j].status = "refunded"
               THEN CompleteRefund(stored, job[j].attempt, refund[i].outcome)
               ELSE stored
     IN IF ~open
        THEN UNCHANGED <<payment, attempt, refund>>
        ELSE /\ HeldBy(refund, job[j].found) = {}
             /\ payment' = st.payment
             /\ attempt' = st.attempt
             /\ refund' = st.refund
  /\ job' = [job EXCEPT ![j] = Idle]
  /\ UNCHANGED <<duplicate, grant, mollie, due>>

\* An intent passes ADOPT_AFTER_MS: its own call has ended by then, unless
\* calls may be slow.
OwnCall(i) ==
  \E j \in Jobs : job[j].do = "refund" /\ job[j].intent = i /\ ~job[j].stale

IntentAges(i) ==
  /\ refund[i].status = "live"
  /\ refund[i].mid = None
  /\ ~refund[i].old
  /\ SlowCalls \/ ~OwnCall(i)
  /\ refund' = [refund EXCEPT ![i].old = TRUE]
  /\ UNCHANGED <<payment, attempt, duplicate, grant, mollie, due, job>>

\* A job ends where it is: a crash, a timeout, a refusal.
Lose(j) ==
  /\ job[j] # Idle
  /\ due' = IF job[j].do = "sync" THEN due \cup Owing(job[j]) ELSE due
  /\ job' = [job EXCEPT ![j] = Idle]
  /\ UNCHANGED <<rows, grant, mollie>>

(* --------------------------- the specification ------------------------- *)

ByHand == MarkPaid \/ MarkNotCharged \/ ReopenPayment

GrantStep == Disconnect \/ GrantEnds \/ Reconnect

MollieStep ==
  \/ \E a \in Attempts : MollieMoves(a, "paid") \/ MollieMoves(a, "ended")
  \/ \E a \in Attempts : MollieDisputes(a)
  \/ \E r \in MollieRefunds :
       MollieRefundMoves(r, "refunded") \/ MollieRefundMoves(r, "ended")
  \/ \E r \in MollieRefunds, a \in Attempts : DashboardRefund(r, a)

SyncStep(j) ==
  \/ \E a \in Attempts, hook \in BOOLEAN : SyncFetch(j, a, hook)
  \/ SyncReadRows(j)
  \/ SyncApply(j)
  \/ SyncAborts(j)

RefundStep(j) ==
  \/ \E a \in Attempts, i \in Intents, outcome \in Outcomes :
       RecordIntent(j, a, i, outcome) \/ FindStale(j, a, i, outcome)
  \/ \E r \in MollieRefunds \cup {None}, answered \in BOOLEAN :
       CallMollie(j, r, answered)
  \/ NoToken(j)
  \/ ListRefunds(j)
  \/ MatchRefund(j)
  \/ Withdraw(j)
  \/ \E i \in Intents : RecordAgain(j, i)
  \/ StoreAnswer(j)

Next ==
  \/ ByHand
  \/ GrantStep
  \/ MollieStep
  \/ \E j \in Jobs, a \in Attempts : AskCheckout(j, a)
  \/ \E j \in Jobs : StoreAttempt(j) \/ SyncStep(j) \/ RefundStep(j) \/ Lose(j)
  \/ \E a \in Attempts : SyncUnknown(a)
  \/ \E i \in Intents : IntentAges(i)

Spec == Init /\ [][Next]_vars

(* ------------------------------- fairness ------------------------------ *)

HookOf(j, a) == job[j].do = "sync" /\ job[j].attempt = a /\ job[j].hook

\* Mollie repeats a webhook until it is answered 200, and not every try of
\* the same webhook fails; no request hangs for ever; time passes.
HookFairness ==
  /\ \A a \in Attempts :
       /\ SF_vars(\E j \in Jobs : SyncFetch(j, a, TRUE))
       /\ SF_vars(\E j \in Jobs : HookOf(j, a) /\ SyncReadRows(j))
       /\ SF_vars(\E j \in Jobs : HookOf(j, a) /\ SyncApply(j))
  /\ \A j \in Jobs : WF_vars(Lose(j))
  /\ \A i \in Intents : WF_vars(IntentAges(i))

(* ------------------------------ properties ----------------------------- *)

RefundRow ==
  [of : Attempts \cup {None}, mid : MollieRefunds \cup {None},
   status : RefundStages, outcome : Outcomes, old : BOOLEAN]

JobType ==
  {Idle}
  \cup [do : {"checkout"}, attempt : Attempts]
  \cup [do : {"sync"}, attempt : Attempts, hook : BOOLEAN,
        link : {"unread", "locked", "free"}, paid : AttemptStatuses,
        disputed : BOOLEAN, returned : [MollieRefunds -> RefundStages],
        old : SUBSET Intents]
  \cup [do : {"refund"}, attempt : Attempts, intent : Intents,
        at : {"call", "unsure", "listed", "answer", "withdraw", "again"},
        outcome : Outcomes, stale : BOOLEAN,
        list : {<<>>} \cup [MollieRefunds -> RefundStages],
        found : MollieRefunds \cup {None}, status : RefundStages]

\* Every variable holds a value of its type.
TypeOK ==
  /\ payment \in [status : PaymentStatuses, method : {"manual", "mollie", None}]
  /\ attempt \in [Attempts ->
       [status : AttemptStatuses, settled : BOOLEAN, chargedBack : BOOLEAN]]
  /\ refund \in [Intents -> RefundRow]
  /\ grant \in {"live", "disconnected", "revoked"}
  /\ duplicate \subseteq Attempts
  /\ money \in [Attempts -> AttemptStatuses]
  /\ disputed \subseteq Attempts
  /\ returned \in [MollieRefunds ->
       [of : Attempts \cup {None}, status : RefundStages, ours : BOOLEAN]]
  /\ due \subseteq Attempts
  /\ job \in [Jobs -> JobType]

\* A payment is paid through Mollie for as long as an attempt settles it: no
\* mark by hand, late answer or refund of another attempt takes the one
\* without the other (markPaymentPaid, reopenWithin, completeRefund).
SettledMeansPaid ==
  \A a \in Attempts :
    attempt[a].settled => payment = [status |-> "paid", method |-> "mollie"]

\* fair.yoga never has two refunds of one attempt under way or done at
\* Mollie, though calls are lost, processes stop, and the teacher asks again
\* (recordIntent, reconcileStale, syncAttempt's adoption).
NeverRefundedTwice ==
  \A q, r \in MollieRefunds :
    (/\ returned[q].of = returned[r].of
     /\ returned[q].ours /\ returned[q].status \in {"live", "refunded"}
     /\ returned[r].ours /\ returned[r].status \in {"live", "refunded"})
    => q = r

\* Money fair.yoga sends back always has a row that knows it, or an intent
\* still waiting that will adopt it (withdraw, storeAnswer).
RefundHasRow ==
  \A r \in MollieRefunds :
    (returned[r].ours /\ returned[r].status \in {"live", "refunded"})
    => HeldBy(refund, r) # {} \/ Awaiting(refund, returned[r].of) # {}

\* What fair.yoga sends back it sends back once, and knows of.
RefundsAccounted == NeverRefundedTwice /\ RefundHasRow

\* The teacher's choice is applied with the refund: a payment whose settling
\* attempt was refunded through fair.yoga is no longer paid by it, whichever
\* of webhook, return page and request saw the refund first (completeRefund).
OutcomeApplied ==
  \A i \in Intents :
    (refund[i].status = "refunded" /\ refund[i].outcome # None)
    => ~attempt[refund[i].of].settled

\* What Mollie owes a webhook for is recorded, as long as the grant is held
\* (syncAttempt answers 503 when it cannot, and Mollie retries).
PaidIsRecorded ==
  \A a \in Attempts :
    []((a \in due /\ money[a] = "paid" /\ []GrantHeld)
       => <>(attempt[a].status = "paid"))

\* A refund of ours that went through is recorded in the end, also when the
\* process stopped between Mollie's answer and its row (adoptionFor).
RefundIsRecorded ==
  \A r \in MollieRefunds :
    (returned[r].ours /\ returned[r].status = "refunded")
    ~> (\E i \in Intents : refund[i].mid = r /\ refund[i].status = "refunded")

\* Each refund waives once: the payment stops being paid only in the step that
\* records a refund Mollie has made, of an intent recorded with that choice.  No
\* repeated webhook, late answer or second call waives what was paid after a
\* reopen (decideRefundSync, storeAnswer; docs/data-model.md: "A refund is the one
\* way paid becomes not_charged").
WaivedOncePerRefund ==
  [][payment.status = "paid" /\ payment'.status = "not_charged"
     => \E i \in Intents, r \in MollieRefunds :
          /\ refund[i].status = "live" /\ refund[i].outcome = "waived"
          /\ refund'[i].status = "refunded" /\ refund'[i].mid = r
          /\ returned[r].of = refund[i].of /\ returned[r].status = "refunded"]_vars
===============================================================================
