----------------------- MODULE ProcessorPayments_proofs -----------------------
(***************************************************************************)
(* Proofs about ProcessorPayments for any number of attempts, refunds and  *)
(* requests in flight: types, the ledger of MoneyLedger, what became of    *)
(* the refunds asked for, and what the payment and its rows agree on.      *)
(***************************************************************************)
EXTENDS MCProcessorPayments, FiniteSetTheorems, WellFoundedInduction, TLAPS

-------------------------------------------------------------------------------
(* A sync applies the refunds Mollie lists one after the other.            *)

\* A set of natural numbers has a least element.
LEMMA Least ==
  ASSUME NEW T \in SUBSET Nat, T # {}
  PROVE  \E m \in T : \A k \in T : ~ (k < m)
  <1> DEFINE R == OpToRel(<, Nat)
  <1>1. IsWellFoundedOn(R, Nat)
    BY NatLessThanWellFounded
  <1>2. \E m \in T : \A k \in T : ~ (<<k, m>> \in R)
    <2> HIDE DEF R
    <2> QED BY <1>1, WFMin, Zenon
  <1> QED BY <1>2 DEF OpToRel

\* What holds at first and from each number to the next holds at the last.
LEMMA UpTo ==
  ASSUME NEW n \in Nat, NEW S, 0 \in S, \A k \in 1 .. n : k - 1 \in S => k \in S
  PROVE  n \in S
  <1> SUFFICES ASSUME n \notin S PROVE FALSE
    OBVIOUS
  <1> DEFINE T == {k \in 0 .. n : k \notin S}
  <1>1. T \in SUBSET Nat /\ T # {}
    OBVIOUS
  <1>2. PICK m \in T : \A k \in T : ~ (k < m)
    BY <1>1, Least
  <1>3. m \in 1 .. n /\ m - 1 \in 0 .. n /\ m - 1 < m
    OBVIOUS
  <1> QED BY <1>2, <1>3

\* The states after the first refunds, as SyncTransaction defines them.
Runs(f, n, st, s, order) ==
  f = [k \in 0 .. n |-> IF k = 0 THEN st ELSE ApplyRefund(f[k - 1], s, order[k])]

LEMMA RunExists ==
  ASSUME NEW n \in Nat, NEW st, NEW s, NEW order
  PROVE  \E f : Runs(f, n, st, s, order)
  <1> DEFINE S == {m \in 0 .. n : \E f : Runs(f, m, st, s, order)}
  <1>1. 0 \in S
    <2>1. Runs([k \in 0 .. 0 |-> st], 0, st, s, order)
      BY DEF Runs
    <2> QED BY <2>1
  <1>2. ASSUME NEW m \in 1 .. n, m - 1 \in S PROVE m \in S
    <2>1. PICK f : Runs(f, m - 1, st, s, order)
      BY <1>2
    <2> DEFINE g == [k \in 0 .. m |-> IF k = m THEN ApplyRefund(f[m - 1], s, order[m]) ELSE f[k]]
    <2>2. \A k \in 0 .. (m - 1) : f[k] = IF k = 0 THEN st ELSE ApplyRefund(f[k - 1], s, order[k])
      BY <2>1 DEF Runs
    <2>3. \A k \in 0 .. m : g[k] = IF k = 0 THEN st ELSE ApplyRefund(g[k - 1], s, order[k])
      BY <2>2
    <2>4. Runs(g, m, st, s, order)
      <3>1. g = [k \in 0 .. m |-> g[k]]
        OBVIOUS
      <3> HIDE DEF g
      <3> QED BY <2>3, <3>1 DEF Runs
    <2> QED BY <2>4
  <1>3. n \in S
    <2> HIDE DEF S
    <2> QED BY <1>1, <1>2, UpTo
  <1> QED BY <1>3

Start == [payment |-> payment, attempt |-> attempt, refund |-> refund,
          duplicate |-> duplicate, deferred |-> FALSE, dashboard |-> FALSE]

\* What a sync decides of the attempt and no refund it applies takes away holds
\* of its transaction, up to the release at its end.
LEMMA SyncTransactionIn ==
  ASSUME NEW s, NEW order, Len(order) \in Nat, NEW G,
         DecideSync(Start, s) \in G,
         \A st \in G, k \in 1 .. Len(order) : ApplyRefund(st, s, order[k]) \in G
  PROVE  \E st \in G : SyncTransaction(s, order) = ReleaseAfterDashboardRefunds(st, s.attempt)
  <1> DEFINE n == Len(order)
             after == CHOOSE f : Runs(f, n, DecideSync(Start, s), s, order)
  <1>1. Runs(after, n, DecideSync(Start, s), s, order)
    BY RunExists
  <1>2. SyncTransaction(s, order) = ReleaseAfterDashboardRefunds(after[n], s.attempt)
    BY DEF SyncTransaction, Start, Runs
  <1>3. \A k \in 0 .. n : after[k] = IF k = 0 THEN DecideSync(Start, s)
                                     ELSE ApplyRefund(after[k - 1], s, order[k])
    <2> HIDE DEF after
    <2> QED BY <1>1 DEF Runs
  <1>4. after[n] \in G
    <2> HIDE DEF after
    <2> DEFINE S == {k \in 0 .. n : after[k] \in G}
    <2>1. 0 \in S
      BY <1>3
    <2>2. \A k \in 1 .. n : k - 1 \in S => k \in S
      BY <1>3
    <2>3. n \in S
      <3> HIDE DEF S
      <3> QED BY <2>1, <2>2, UpTo
    <2> QED BY <2>3
  <1> QED BY <1>2, <1>4

-------------------------------------------------------------------------------
(* What the rows, the requests and Mollie always agree on.                 *)

AttemptRow == [status : AttemptStatuses, settled : BOOLEAN, chargedBack : BOOLEAN]

MollieRefund == [of : Attempts \cup {None}, status : RefundStages, ours : BOOLEAN]

Payments ==
  {Owed, [status |-> "paid", method |-> "manual"], [status |-> "paid", method |-> "mollie"],
   [status |-> "not_charged", method |-> None]}

Written == {"live", "refunded", "ended"}

\* Money that counts, was told of as a duplicate or was taken back has been paid, and at
\* most one attempt's money settles the payment.
AttemptsAgree(att, dup, mon, dis) ==
  /\ \A a \in Attempts :
       /\ att[a].settled => att[a].status = "paid" /\ ~att[a].chargedBack /\ a \notin dup
       /\ att[a].chargedBack => att[a].status = "paid" /\ a \in dis
       /\ a \in dup => att[a].status = "paid"
       /\ att[a].status # "none" => mon[a] # "none"
  /\ \A a, b \in Attempts : att[a].settled /\ att[b].settled => a = b

\* A refund's row is of a paid attempt, and says of Mollie's refund nothing that is not so;
\* an attempt has one row that is live, and none once it has one that is refunded.
RowsAgree(att, rfd, ret) ==
  /\ \A i \in Intents :
       /\ rfd[i].status \in Written => rfd[i].of \in Attempts /\ att[rfd[i].of].status = "paid"
       /\ rfd[i].mid # None =>
            /\ rfd[i].status \in Written
            /\ ret[rfd[i].mid].of = rfd[i].of
            /\ Final(rfd[i].status) => ret[rfd[i].mid].status = rfd[i].status
  /\ \A i, k \in Intents :
       rfd[i].status = "live" /\ rfd[k].of = rfd[i].of /\ rfd[k].status \in {"live", "refunded"}
       => k = i

MollieAgrees(ret) ==
  \A r \in MollieRefunds : /\ ret[r].status \in Written \cup {"none"}
                           /\ ret[r].of = None <=> ret[r].status = "none"

\* What a job holds of Mollie's refunds was so once, and is so for good if it is final.
Snapshot(snap, a, ret) ==
  \A r \in MollieRefunds :
    snap[r] # "none" => /\ ret[r].of = a /\ snap[r] \in Written
                        /\ Final(snap[r]) => ret[r].status = snap[r]

SyncAgrees(s, mon, dis, ret) ==
  /\ mon[s.attempt] # "none"
  /\ s.disputed => s.attempt \in dis
  /\ Snapshot(s.returned, s.attempt, ret)

RefundAgrees(x, rfd, ret) ==
  /\ rfd[x.intent].status # "none"
  /\ rfd[x.intent].status \in Written => rfd[x.intent].of = x.attempt
  /\ x.at = "listed" => x.list \in [MollieRefunds -> RefundStages] /\ Snapshot(x.list, x.attempt, ret)
  /\ x.at = "answer" => /\ x.found \in MollieRefunds /\ ret[x.found].of = x.attempt
                        /\ x.status \in Written
                        /\ Final(x.status) => ret[x.found].status = x.status

JobAgrees(x, rfd, mon, dis, ret) ==
  /\ x.do = "checkout" => mon[x.attempt] # "none"
  /\ x.do = "sync" => SyncAgrees(x, mon, dis, ret)
  /\ x.do = "refund" => RefundAgrees(x, rfd, ret)

Agreed ==
  /\ TypeOK /\ payment \in Payments
  /\ AttemptsAgree(attempt, duplicate, money, disputed)
  /\ RowsAgree(attempt, refund, returned)
  /\ MollieAgrees(returned)
  /\ \A j \in Jobs : JobAgrees(job[j], refund, money, disputed, returned)

\* An attempt is stored by the one request that made it, and is synced only after that.
Checkouts ==
  /\ \A j \in Jobs : /\ job[j].do = "checkout" => attempt[job[j].attempt].status = "none"
                     /\ job[j].do = "sync" => attempt[job[j].attempt].status # "none" /\ job[j].paid # "none"
  /\ \A j, k \in Jobs :
       job[j].do = "checkout" /\ job[k].do = "checkout" /\ job[j].attempt = job[k].attempt => j = k

\* What a job holds, by what it does.
CheckoutJob == [do : {"checkout"}, attempt : Attempts]
SyncJob ==
  [do : {"sync"}, attempt : Attempts, hook : BOOLEAN,
   link : {"unread", "locked", "free"}, paid : AttemptStatuses,
   disputed : BOOLEAN, returned : [MollieRefunds -> RefundStages],
   old : SUBSET Intents]
RefundJob ==
  [do : {"refund"}, attempt : Attempts, intent : Intents,
   at : {"call", "unsure", "listed", "answer", "withdraw", "again"},
   outcome : Outcomes, stale : BOOLEAN,
   list : {<<>>} \cup [MollieRefunds -> RefundStages],
   found : MollieRefunds \cup {None}, status : RefundStages]

LEMMA JobKinds ==
  /\ JobType = {Idle} \cup CheckoutJob \cup SyncJob \cup RefundJob
  /\ \A x \in CheckoutJob : x.do = "checkout" /\ x.attempt \in Attempts
  /\ \A x \in SyncJob : x.do = "sync"
  /\ \A x \in RefundJob : x.do = "refund"
  /\ Idle.do = "idle"
  BY DEF JobType, CheckoutJob, SyncJob, RefundJob, Idle

LEMMA JobOf ==
  ASSUME NEW x \in JobType
  PROVE  /\ x.do = "checkout" => x \in CheckoutJob
         /\ x.do = "sync" => x \in SyncJob
         /\ x.do = "refund" => x \in RefundJob
  BY JobKinds

-------------------------------------------------------------------------------
(* Mollie's facts and the rows only move onward, so what a job holds of    *)
(* them stays true while it waits.                                         *)

MoneyOnward(mon, mon2) == \A a \in Attempts : mon[a] # "none" => mon2[a] # "none"

ReturnedOnward(ret, ret2) ==
  \A r \in MollieRefunds :
    ret[r].of # None => /\ ret2[r].of = ret[r].of /\ ret2[r].ours = ret[r].ours
                        /\ Final(ret[r].status) => ret2[r].status = ret[r].status

RowsOnward(rfd, rfd2) ==
  \A i \in Intents :
    rfd[i].status # "none" =>
      /\ rfd2[i].status # "none"
      /\ rfd2[i].status \in Written => rfd[i].status \in Written /\ rfd2[i].of = rfd[i].of

LEMMA JobOnward ==
  ASSUME NEW x \in JobType, NEW rfd, NEW mon, NEW dis, NEW ret,
         JobAgrees(x, rfd, mon, dis, ret),
         NEW rfd2, NEW mon2, NEW dis2, NEW ret2,
         RowsOnward(rfd, rfd2), MoneyOnward(mon, mon2), dis \subseteq dis2, ReturnedOnward(ret, ret2)
  PROVE  JobAgrees(x, rfd2, mon2, dis2, ret2)
  <1>1. CASE x.do = "checkout"
    BY <1>1, JobOf, JobKinds DEF JobAgrees, MoneyOnward
  <1>2. CASE x.do = "sync"
    <2>1. x \in SyncJob
      BY <1>2, JobOf
    <2>2. x.attempt \in Attempts /\ x.attempt # None
      BY <2>1, NoneAssumption DEF SyncJob
    <2> QED BY <1>2, <2>2 DEF JobAgrees, SyncAgrees, Snapshot, MoneyOnward, ReturnedOnward, Final
  <1>3. CASE x.do = "refund"
    <2>1. x \in RefundJob
      BY <1>3, JobOf
    <2>2. x.attempt \in Attempts /\ x.attempt # None /\ x.intent \in Intents
      BY <2>1, NoneAssumption DEF RefundJob
    <2> QED BY <1>3, <2>2 DEF JobAgrees, RefundAgrees, Snapshot, RowsOnward, ReturnedOnward, Final, Written
  <1> QED BY <1>1, <1>2, <1>3 DEF JobAgrees

LEMMA RowsStay ==
  ASSUME NEW rfd
  PROVE  RowsOnward(rfd, rfd)
  BY DEF RowsOnward

LEMMA AttemptsOnward ==
  ASSUME NEW att, NEW dup, NEW mon, NEW dis, AttemptsAgree(att, dup, mon, dis),
         NEW mon2, NEW dis2, MoneyOnward(mon, mon2), dis \subseteq dis2
  PROVE  AttemptsAgree(att, dup, mon2, dis2)
  BY DEF AttemptsAgree, MoneyOnward

LEMMA ReturnedKeepsRows ==
  ASSUME NEW att, NEW rfd \in [Intents -> RefundRow], NEW ret, RowsAgree(att, rfd, ret),
         NEW ret2, ReturnedOnward(ret, ret2)
  PROVE  RowsAgree(att, rfd, ret2)
  <1> SUFFICES ASSUME NEW i \in Intents, rfd[i].mid # None
               PROVE  /\ ret2[rfd[i].mid].of = rfd[i].of
                      /\ Final(rfd[i].status) => ret2[rfd[i].mid].status = rfd[i].status
    BY DEF RowsAgree
  <1>1. rfd[i].mid \in MollieRefunds
    BY DEF RefundRow
  <1>2. ret[rfd[i].mid].of = rfd[i].of /\ rfd[i].of # None
    BY NoneAssumption DEF RowsAgree
  <1> QED BY <1>1, <1>2 DEF RowsAgree, ReturnedOnward

-------------------------------------------------------------------------------
(* The pieces of a transaction.                                            *)

\* What a sync's transaction has written so far.
State ==
  [payment : Payments, attempt : [Attempts -> AttemptRow], refund : [Intents -> RefundRow],
   duplicate : SUBSET Attempts, deferred : BOOLEAN, dashboard : BOOLEAN]

\* completeRefund on a payment and its attempts.
Completed(p, att, p2, att2, a, outcome) ==
  LET released == [att EXCEPT ![a].settled = FALSE]
  IN \/ /\ outcome = "waived" /\ p.status = "paid"
        /\ p2 = [status |-> "not_charged", method |-> None] /\ att2 = released
     \/ /\ outcome = "reopened" /\ Reopens(p, att, {a})
        /\ p2 = Owed /\ att2 = released
     \/ /\ ~(outcome = "waived" /\ p.status = "paid")
        /\ ~(outcome = "reopened" /\ Reopens(p, att, {a}))
        /\ p2 = p /\ att2 = att

\* The row i of an attempt is told that its refund is r, and how it stands.
Reports(p, att, rfd, p2, att2, rfd2, a, i, r, stage, ret) ==
  /\ rfd[i].of = a /\ ret[r].of = a
  /\ \/ rfd[i].mid = r
     \/ rfd[i].mid = None /\ rfd[i].status = "live" /\ HeldBy(rfd, r) = {}
  /\ \/ rfd2 = [rfd EXCEPT ![i].mid = r] /\ p2 = p /\ att2 = att
     \/ /\ rfd[i].status = "live" /\ stage \in Written
        /\ Final(stage) => ret[r].status = stage
        /\ rfd2 = [rfd EXCEPT ![i].mid = r, ![i].status = stage]
        /\ IF stage = "refunded" THEN Completed(p, att, p2, att2, a, rfd[i].outcome)
                                 ELSE p2 = p /\ att2 = att

LEMMA CompleteState ==
  ASSUME NEW st \in State, NEW a \in Attempts, NEW outcome
  PROVE  LET n == CompleteRefund(st, a, outcome)
         IN /\ n \in State
            /\ Completed(st.payment, st.attempt, n.payment, n.attempt, a, outcome)
            /\ n.refund = st.refund /\ n.duplicate = st.duplicate /\ n.dashboard = st.dashboard
  BY DEF CompleteRefund, Completed, State, AttemptRow, Payments, Owed

LEMMA CompleteAnswer ==
  ASSUME NEW p, NEW att, NEW rfd, NEW a, NEW outcome
  PROVE  LET n == CompleteRefund([payment |-> p, attempt |-> att, refund |-> rfd], a, outcome)
         IN Completed(p, att, n.payment, n.attempt, a, outcome) /\ n.refund = rfd
  BY DEF CompleteRefund, Completed

\* The refund is none of ours to tell a row of, or a row is told of it.
LEMMA ApplyCases ==
  ASSUME NEW s \in SyncJob, NEW ret, Snapshot(s.returned, s.attempt, ret),
         NEW r \in MollieRefunds, s.returned[r] # "none",
         NEW st \in State, RowsAgree(st.attempt, st.refund, ret)
  PROVE  LET n == ApplyRefund(st, s, r)
         IN /\ n \in State /\ n.duplicate = st.duplicate
            /\ \/ /\ n.payment = st.payment /\ n.attempt = st.attempt /\ n.refund = st.refund
                  /\ n.dashboard => \/ st.dashboard
                                    \/ /\ s.returned[r] = "refunded" /\ HeldBy(st.refund, r) = {}
                                       /\ Awaiting(st.refund, s.attempt) = {}
               \/ \E i \in Intents :
                    /\ Reports(st.payment, st.attempt, st.refund, n.payment, n.attempt, n.refund,
                               s.attempt, i, r, s.returned[r], ret)
                    /\ n.dashboard = st.dashboard
                    /\ st.refund[i].mid = None => i \in s.old
  <1> DEFINE n == ApplyRefund(st, s, r)
             held == HeldBy(st.refund, r)
             row == RowsFor(st.refund, r, s.attempt, s.old)
             i == CHOOSE x \in row : TRUE
             moves == ~Final(st.refund[i].status) /\ st.refund[i].status # s.returned[r]
             named == [st EXCEPT !.refund[i].mid = r]
             moved == [named EXCEPT !.refund[i].status = s.returned[r]]
  <1>1. s.attempt \in Attempts /\ s.returned[r] \in RefundStages /\ s.attempt # None /\ r # None
    BY NoneAssumption DEF SyncJob
  <1>2. /\ ret[r].of = s.attempt /\ s.returned[r] \in Written
        /\ Final(s.returned[r]) => ret[r].status = s.returned[r]
    BY DEF Snapshot
  <1>3. row \subseteq Intents
    BY DEF RowsFor, HeldBy, Adoptable, Awaiting
  <1>4. CASE row = {}
    <2>1. held = {}
      BY <1>4 DEF RowsFor
    <2>2. \/ n = [st EXCEPT !.deferred = TRUE]
          \/ /\ n = [st EXCEPT !.dashboard = @ \/ s.returned[r] = "refunded"]
             /\ Awaiting(st.refund, s.attempt) = {}
      <3>1. CASE Awaiting(st.refund, s.attempt) # {}
        <4>1. n = [st EXCEPT !.deferred = TRUE]
          BY <1>4, <3>1 DEF ApplyRefund
        <4> QED BY <3>1, <4>1
      <3>2. CASE Awaiting(st.refund, s.attempt) = {}
        <4>1. n = [st EXCEPT !.dashboard = @ \/ s.returned[r] = "refunded"]
          BY <1>4, <3>2 DEF ApplyRefund
        <4> QED BY <3>2, <4>1
      <3> QED BY <3>1, <3>2
    <2> QED BY <2>1, <2>2 DEF State
  <1>5. CASE row # {}
    <2>1. i \in row /\ i \in Intents
      BY <1>3, <1>5
    <2> DEFINE told == \/ n = named
                       \/ /\ st.refund[i].status = "live"
                          /\ n = IF s.returned[r] = "refunded"
                                 THEN CompleteRefund(moved, s.attempt, st.refund[i].outcome) ELSE moved
               later == n = [st EXCEPT !.deferred = TRUE]
    <2>2. /\ st.refund[i] \in RefundRow
          /\ st.refund[i].of = s.attempt
          /\ \/ st.refund[i].mid = r
             \/ st.refund[i].mid = None /\ st.refund[i].status = "live" /\ HeldBy(st.refund, r) = {}
          /\ st.refund[i].mid = None => i \in s.old
          /\ st.refund[i].status \in Written
      <3>1. st.refund[i] \in RefundRow
        BY <2>1 DEF State
      <3>2. CASE held # {}
        BY <2>1, <3>1, <3>2, <1>1, <1>2 DEF RowsFor, HeldBy, RowsAgree
      <3>3. CASE held = {}
        BY <2>1, <3>1, <3>3 DEF RowsFor, Adoptable, Awaiting, Written
      <3> QED BY <3>2, <3>3
    <2>3. told \/ later
      <3>1. moves => st.refund[i].status = "live"
        BY <2>2 DEF Final, Written
      <3>2. CASE ~moves
        <4>1. n = named
          BY <1>5, <3>2 DEF ApplyRefund
        <4> QED BY <4>1
      <3>3. CASE moves /\ s.returned[r] # "refunded"
        BY <1>5, <3>1, <3>3 DEF ApplyRefund
      <3>4. CASE moves /\ s.returned[r] = "refunded"
        BY <1>5, <3>1, <3>4 DEF ApplyRefund
      <3> QED BY <3>2, <3>3, <3>4
    <2>4. CASE later
      BY <2>4 DEF State
    <2>5. CASE told
      <3> HIDE DEF i
      <3>0. st \in State /\ i \in Intents /\ r \in MollieRefunds
        BY <2>1
      <3>1. /\ named \in State /\ named.refund = [st.refund EXCEPT ![i].mid = r]
            /\ named.payment = st.payment /\ named.attempt = st.attempt
            /\ named.duplicate = st.duplicate /\ named.dashboard = st.dashboard
        BY <3>0, <1>1 DEF State, RefundRow
      <3>2. /\ moved \in State /\ moved.refund = [st.refund EXCEPT ![i].mid = r, ![i].status = s.returned[r]]
            /\ moved.payment = st.payment /\ moved.attempt = st.attempt
            /\ moved.duplicate = st.duplicate /\ moved.dashboard = st.dashboard
        <4> HIDE DEF named
        <4>1. moved.refund = [st.refund EXCEPT ![i].mid = r, ![i].status = s.returned[r]]
          BY <3>0, <3>1 DEF State
        <4>2. moved.refund \in [Intents -> RefundRow]
          BY <3>0, <3>1, <1>1 DEF State, RefundRow
        <4> QED BY <3>1, <4>1, <4>2 DEF State
      <3>6. n = ApplyRefund(st, s, r)
        OBVIOUS
      <3> HIDE DEF named, moved
      <3>3. CASE n = named
        BY <3>1, <3>3, <2>1, <2>2, <1>2 DEF Reports
      <3>4. CASE st.refund[i].status = "live" /\ n = moved /\ s.returned[r] # "refunded"
        BY <3>2, <3>4, <2>1, <2>2, <1>2 DEF Reports
      <3>5. CASE /\ st.refund[i].status = "live" /\ s.returned[r] = "refunded"
                 /\ n = CompleteRefund(moved, s.attempt, st.refund[i].outcome)
        <4> HIDE DEF n
        <4>1. /\ n \in State
              /\ Completed(moved.payment, moved.attempt, n.payment, n.attempt, s.attempt, st.refund[i].outcome)
              /\ n.refund = moved.refund /\ n.duplicate = moved.duplicate /\ n.dashboard = moved.dashboard
          BY <3>2, <3>5, <1>1, CompleteState
        <4>2. Reports(st.payment, st.attempt, st.refund, n.payment, n.attempt, n.refund,
                      s.attempt, i, r, s.returned[r], ret)
          BY <3>2, <3>5, <4>1, <2>2, <1>2 DEF Reports
        <4>3. n.dashboard = st.dashboard /\ n.duplicate = st.duplicate
          BY <3>2, <4>1
        <4> QED BY <4>1, <4>2, <4>3, <3>0, <3>6, <2>2
      <3> QED BY <2>5, <3>3, <3>4, <3>5
    <2> QED BY <2>3, <2>4, <2>5
  <1> QED BY <1>4, <1>5

\* What a report leaves of the rows.
Follows(rfd, rfd2, old) ==
  \A k \in Intents :
    /\ rfd2[k].of = rfd[k].of /\ rfd2[k].outcome = rfd[k].outcome /\ rfd2[k].old = rfd[k].old
    /\ rfd[k].status \notin Written => rfd2[k] = rfd[k]
    /\ rfd[k].status \in Written => rfd2[k].status \in Written
    /\ rfd[k].mid # None => rfd2[k].mid = rfd[k].mid
    /\ rfd[k].mid = None /\ k \notin old => rfd2[k] = rfd[k]
    /\ Final(rfd[k].status) => rfd2[k].status = rfd[k].status

LEMMA FollowsTwice ==
  ASSUME NEW x, NEW y, NEW z, NEW old, Follows(x, y, old), Follows(y, z, old)
  PROVE  Follows(x, z, old)
  BY DEF Follows

LEMMA ReportAttempts ==
  ASSUME NEW p, NEW att, NEW rfd, NEW p2, NEW att2, NEW rfd2, NEW a, NEW i, NEW r, NEW stage, NEW ret,
         Reports(p, att, rfd, p2, att2, rfd2, a, i, r, stage, ret)
  PROVE  /\ att2 = att \/ att2 = [att EXCEPT ![a].settled = FALSE]
         /\ p \in Payments => p2 \in Payments
  BY DEF Reports, Completed, Payments, Owed

LEMMA ReleasedAgree ==
  ASSUME NEW att \in [Attempts -> AttemptRow], NEW dup, NEW mon, NEW dis, AttemptsAgree(att, dup, mon, dis),
         NEW a \in Attempts
  PROVE  AttemptsAgree([att EXCEPT ![a].settled = FALSE], dup, mon, dis)
  BY DEF AttemptsAgree, AttemptRow

\* The row a report is about, before and after it.
ReportedRow(rfd, rfd2, a, i, r, ret) ==
  /\ rfd2 \in [Intents -> RefundRow]
  /\ \A k \in Intents : k # i => rfd2[k] = rfd[k]
  /\ rfd2[i].mid = r /\ rfd2[i].of = rfd[i].of
  /\ rfd2[i].outcome = rfd[i].outcome /\ rfd2[i].old = rfd[i].old
  /\ \/ rfd2[i].status = rfd[i].status
     \/ /\ rfd[i].status = "live" /\ rfd2[i].status \in Written
        /\ Final(rfd2[i].status) => ret[r].status = rfd2[i].status
  /\ rfd[i].status \in Written /\ rfd[i].of = a /\ ret[r].of = a
  /\ \/ rfd[i].mid = r
     \/ rfd[i].mid = None /\ rfd[i].status = "live" /\ HeldBy(rfd, r) = {}

LEMMA ReportRow ==
  ASSUME NEW p, NEW att, NEW rfd \in [Intents -> RefundRow], NEW p2, NEW att2, NEW rfd2, NEW ret,
         NEW a, NEW i \in Intents, NEW r \in MollieRefunds, NEW stage \in RefundStages,
         RowsAgree(att, rfd, ret), Reports(p, att, rfd, p2, att2, rfd2, a, i, r, stage, ret)
  PROVE  ReportedRow(rfd, rfd2, a, i, r, ret)
  <1>2. /\ rfd2 \in [Intents -> RefundRow]
        /\ \A k \in Intents : k # i => rfd2[k] = rfd[k]
        /\ rfd2[i].mid = r /\ rfd2[i].of = rfd[i].of
        /\ rfd2[i].outcome = rfd[i].outcome /\ rfd2[i].old = rfd[i].old
        /\ \/ rfd2[i].status = rfd[i].status
           \/ /\ rfd[i].status = "live" /\ rfd2[i].status = stage /\ stage \in Written
              /\ Final(stage) => ret[r].status = stage
    BY DEF Reports, RefundRow
  <1>3. /\ rfd[i].status \in Written /\ rfd[i].of = a /\ ret[r].of = a
        /\ \/ rfd[i].mid = r
           \/ rfd[i].mid = None /\ rfd[i].status = "live" /\ HeldBy(rfd, r) = {}
    <2>1. r # None
      BY NoneAssumption
    <2> QED BY <2>1 DEF Reports, RowsAgree, Written
  <1> QED BY <1>2, <1>3 DEF ReportedRow

LEMMA ReportedRowsAgree ==
  ASSUME NEW att, NEW rfd, NEW att2, NEW rfd2, NEW ret, NEW a, NEW i \in Intents, NEW r,
         RowsAgree(att, rfd, ret), ReportedRow(rfd, rfd2, a, i, r, ret),
         \A b \in Attempts : att2[b].status = att[b].status
  PROVE  RowsAgree(att2, rfd2, ret)
  <1>1. ASSUME NEW k \in Intents
        PROVE  /\ rfd2[k].status \in Written => rfd2[k].of \in Attempts /\ att2[rfd2[k].of].status = "paid"
               /\ rfd2[k].mid # None =>
                    /\ rfd2[k].status \in Written
                    /\ ret[rfd2[k].mid].of = rfd2[k].of
                    /\ Final(rfd2[k].status) => ret[rfd2[k].mid].status = rfd2[k].status
    <2>1. CASE k # i
      BY <2>1 DEF RowsAgree, ReportedRow
    <2>2. CASE k = i
      BY <2>2 DEF RowsAgree, ReportedRow, Final
    <2> QED BY <2>1, <2>2
  <1>2. ASSUME NEW k \in Intents, NEW h \in Intents, rfd2[k].status = "live", rfd2[h].of = rfd2[k].of,
               rfd2[h].status \in {"live", "refunded"}
        PROVE  h = k
    <2>1. rfd[k].status = "live" /\ rfd[h].of = rfd[k].of
      BY <1>2 DEF ReportedRow
    <2>2. rfd[h].status \in {"live", "refunded"}
      BY <1>2 DEF ReportedRow
    <2> QED BY <2>1, <2>2 DEF RowsAgree
  <1> QED BY <1>1, <1>2 DEF RowsAgree

LEMMA ReportedFollows ==
  ASSUME NEW rfd, NEW rfd2, NEW ret, NEW a, NEW i \in Intents, NEW r,
         ReportedRow(rfd, rfd2, a, i, r, ret), NEW old, rfd[i].mid = None => i \in old
  PROVE  Follows(rfd, rfd2, old)
  <1> SUFFICES ASSUME NEW k \in Intents
               PROVE  /\ rfd2[k].of = rfd[k].of /\ rfd2[k].outcome = rfd[k].outcome /\ rfd2[k].old = rfd[k].old
                      /\ rfd[k].status \notin Written => rfd2[k] = rfd[k]
                      /\ rfd[k].status \in Written => rfd2[k].status \in Written
                      /\ rfd[k].mid # None => rfd2[k].mid = rfd[k].mid
                      /\ rfd[k].mid = None /\ k \notin old => rfd2[k] = rfd[k]
                      /\ Final(rfd[k].status) => rfd2[k].status = rfd[k].status
    BY DEF Follows
  <1>1. CASE k # i
    BY <1>1 DEF ReportedRow
  <1>2. CASE k = i
    BY <1>2 DEF ReportedRow, Final
  <1> QED BY <1>1, <1>2

-------------------------------------------------------------------------------
(* A sync: what it decides, and what its refunds make of that.             *)

\* The ways decideSync leaves the payment and its attempts.
TakenBack(s) ==
  /\ s.disputed /\ ~attempt[s.attempt].chargedBack
  /\ DecideSync(Start, s).payment = payment /\ DecideSync(Start, s).duplicate = duplicate
  /\ DecideSync(Start, s).attempt =
       [attempt EXCEPT ![s.attempt] = [status |-> "paid", settled |-> FALSE, chargedBack |-> TRUE]]

NotYetPaid(s) ==
  /\ attempt[s.attempt].status # "paid" /\ s.paid # "paid"
  /\ DecideSync(Start, s).payment = payment /\ DecideSync(Start, s).duplicate = duplicate
  /\ DecideSync(Start, s).attempt = [attempt EXCEPT ![s.attempt].status = s.paid]

Settles(s) ==
  /\ attempt[s.attempt].status # "paid" /\ payment.status = "owed"
  /\ \A b \in Attempts : ~attempt[b].settled
  /\ DecideSync(Start, s).payment = [status |-> "paid", method |-> "mollie"]
  /\ DecideSync(Start, s).duplicate = duplicate
  /\ DecideSync(Start, s).attempt = [attempt EXCEPT ![s.attempt].status = "paid", ![s.attempt].settled = TRUE]

PaidTwice(s) ==
  /\ attempt[s.attempt].status # "paid" /\ payment.status # "owed"
  /\ DecideSync(Start, s).payment = payment
  /\ DecideSync(Start, s).duplicate = duplicate \cup {s.attempt}
  /\ DecideSync(Start, s).attempt = [attempt EXCEPT ![s.attempt].status = "paid"]

LEMMA DecideCases ==
  ASSUME Agreed, NEW s \in SyncJob, ~SettlesTwice(s)
  PROVE  /\ DecideSync(Start, s) \in State
         /\ DecideSync(Start, s).refund = refund /\ ~DecideSync(Start, s).dashboard
         /\ \/ /\ DecideSync(Start, s).payment = payment /\ DecideSync(Start, s).duplicate = duplicate
               /\ DecideSync(Start, s).attempt = attempt
            \/ TakenBack(s) \/ NotYetPaid(s) \/ Settles(s) \/ PaidTwice(s)
  <1> DEFINE a == s.attempt
             n == DecideSync(Start, s)
  <1>1. /\ a \in Attempts /\ s.paid \in AttemptStatuses
        /\ attempt \in [Attempts -> AttemptRow] /\ payment \in Payments
        /\ refund \in [Intents -> RefundRow] /\ duplicate \in SUBSET Attempts
    BY DEF Agreed, TypeOK, AttemptRow, SyncJob
  <1>2. Start \in State
    BY <1>1 DEF Start, State
  <1>3. CASE s.paid = "paid" /\ s.disputed
    BY <1>1, <1>3 DEF DecideSync, TakenBack, Start, State, AttemptRow, AttemptStatuses
  <1>4. CASE ~(s.paid = "paid" /\ s.disputed) /\ (attempt[a].status = "paid" \/ s.paid = attempt[a].status)
    BY <1>1, <1>4 DEF DecideSync, Start, State
  <1>5. CASE /\ ~(s.paid = "paid" /\ s.disputed)
             /\ ~(attempt[a].status = "paid" \/ s.paid = attempt[a].status)
    <2>1. CASE s.paid # "paid"
      BY <1>1, <1>5, <2>1 DEF DecideSync, NotYetPaid, Start, State, AttemptRow
    <2>2. CASE s.paid = "paid" /\ payment.status = "owed"
      <3>1. ~attempt[a].settled
        BY <1>1, <1>5 DEF Agreed, AttemptsAgree
      <3>2. DecideSync([payment |-> payment, attempt |-> attempt, duplicate |-> duplicate], s).attempt[a].settled
        BY <1>1, <1>5, <2>2 DEF DecideSync, AttemptRow
      <3>3. \A b \in Attempts : ~attempt[b].settled
        BY <1>1, <3>1, <3>2 DEF SettlesTwice
      <3>4. n = [Start EXCEPT !.payment = [status |-> "paid", method |-> "mollie"],
                              !.attempt[a].status = "paid", !.attempt[a].settled = TRUE]
        BY <1>5, <2>2 DEF DecideSync, Start
      <3>6. n.attempt = [attempt EXCEPT ![a].status = "paid", ![a].settled = TRUE]
        BY <1>1, <3>4 DEF Start, AttemptRow
      <3>5. n.attempt \in [Attempts -> AttemptRow]
        <4> HIDE DEF n
        <4> QED BY <1>1, <3>6 DEF AttemptRow, AttemptStatuses
      <3> QED BY <1>1, <1>5, <2>2, <3>3, <3>4, <3>5, <3>6 DEF Settles, Start, State, Payments
    <2>3. CASE s.paid = "paid" /\ payment.status # "owed"
      <3>1. n = [Start EXCEPT !.attempt[a].status = "paid", !.duplicate = @ \cup {a}]
        BY <1>5, <2>3 DEF DecideSync, Start
      <3>2. n.attempt = [attempt EXCEPT ![a].status = "paid"] /\ n.duplicate = duplicate \cup {a}
        BY <1>1, <3>1 DEF Start, AttemptRow
      <3>3. n.attempt \in [Attempts -> AttemptRow]
        <4> HIDE DEF n
        <4> QED BY <1>1, <3>2 DEF AttemptRow, AttemptStatuses
      <3> QED BY <1>1, <1>5, <2>3, <3>1, <3>2, <3>3 DEF PaidTwice, Start, State
    <2> QED BY <2>1, <2>2, <2>3
  <1> QED BY <1>3, <1>4, <1>5

LEMMA DecideAgrees ==
  ASSUME Agreed, NEW s \in SyncJob, SyncAgrees(s, money, disputed, returned), ~SettlesTwice(s)
  PROVE  /\ AttemptsAgree(DecideSync(Start, s).attempt, DecideSync(Start, s).duplicate, money, disputed)
         /\ RowsAgree(DecideSync(Start, s).attempt, refund, returned)
  <1> DEFINE n == DecideSync(Start, s)
  <1>1. /\ s.attempt \in Attempts /\ s.paid \in AttemptStatuses
        /\ attempt \in [Attempts -> AttemptRow]
        /\ AttemptsAgree(attempt, duplicate, money, disputed) /\ RowsAgree(attempt, refund, returned)
        /\ money[s.attempt] # "none" /\ (s.disputed => s.attempt \in disputed)
    BY DEF Agreed, TypeOK, AttemptRow, SyncJob, SyncAgrees
  <1>2. \/ /\ n.payment = payment /\ n.duplicate = duplicate /\ n.attempt = attempt
        \/ TakenBack(s) \/ NotYetPaid(s) \/ Settles(s) \/ PaidTwice(s)
    BY DecideCases
  <1> HIDE DEF n
  <1>3. AttemptsAgree(n.attempt, n.duplicate, money, disputed)
    <2>1. CASE n.payment = payment /\ n.duplicate = duplicate /\ n.attempt = attempt
      BY <1>1, <2>1
    <2>2. CASE TakenBack(s)
      BY <1>1, <2>2 DEF TakenBack, AttemptsAgree, AttemptRow, n
    <2>3. CASE NotYetPaid(s)
      BY <1>1, <2>3 DEF NotYetPaid, AttemptsAgree, AttemptRow, n
    <2>4. CASE Settles(s)
      BY <1>1, <2>4 DEF Settles, AttemptsAgree, AttemptRow, n
    <2>5. CASE PaidTwice(s)
      BY <1>1, <2>5 DEF PaidTwice, AttemptsAgree, AttemptRow, n
    <2> QED BY <1>2, <2>1, <2>2, <2>3, <2>4, <2>5
  <1>4. \A b \in Attempts : attempt[b].status = "paid" => n.attempt[b].status = "paid"
    <2>1. CASE n.attempt = attempt
      BY <2>1
    <2>2. CASE TakenBack(s)
      BY <1>1, <2>2 DEF TakenBack, AttemptRow, n
    <2>3. CASE NotYetPaid(s)
      BY <1>1, <2>3 DEF NotYetPaid, AttemptRow, n
    <2>4. CASE Settles(s)
      BY <1>1, <2>4 DEF Settles, AttemptRow, n
    <2>5. CASE PaidTwice(s)
      BY <1>1, <2>5 DEF PaidTwice, AttemptRow, n
    <2> QED BY <1>2, <2>1, <2>2, <2>3, <2>4, <2>5
  <1>5. RowsAgree(n.attempt, refund, returned)
    BY <1>1, <1>4 DEF RowsAgree
  <1> QED BY <1>3, <1>5 DEF n

\* A sync's transaction ends in what its refunds, one after the other, keep.
LEMMA SyncApplyIn ==
  ASSUME Agreed, NEW j \in Jobs, SyncApply(j), NEW G \in SUBSET State,
         DecideSync(Start, job[j]) \in G,
         \A st \in G, r \in MollieRefunds : job[j].returned[r] # "none" => ApplyRefund(st, job[j], r) \in G
  PROVE  \E st \in G :
           /\ payment' = st.payment /\ refund' = st.refund /\ duplicate' = st.duplicate
           /\ attempt' = IF st.dashboard THEN [st.attempt EXCEPT ![job[j].attempt].settled = FALSE]
                                         ELSE st.attempt
  <1> DEFINE s == job[j]
             L == {r \in MollieRefunds : s.returned[r] # "none"}
  <1>1. PICK order \in SetToSeqs(L) :
          LET st == SyncTransaction(s, order)
          IN payment' = st.payment /\ attempt' = st.attempt /\ refund' = st.refund /\ duplicate' = st.duplicate
    BY DEF SyncApply
  <1>2. Cardinality(L) \in Nat
    BY FiniteAssumption, FS_Subset, FS_CardinalityType, L \in SUBSET MollieRefunds
  <1>3. order \in [1 .. Cardinality(L) -> L]
    BY DEF SetToSeqs
  <1>4. Len(order) = Cardinality(L)
    <2> HIDE DEF L
    <2> QED BY <1>2, <1>3
  <1>5. \A st \in G, k \in 1 .. Len(order) : ApplyRefund(st, s, order[k]) \in G
    BY <1>3, <1>4
  <1>6. Len(order) \in Nat
    BY <1>2, <1>4
  <1>7. PICK st \in G : SyncTransaction(s, order) = ReleaseAfterDashboardRefunds(st, s.attempt)
    <2> HIDE DEF s
    <2>1. DecideSync(Start, s) \in G
      BY DEF s
    <2> QED BY <1>5, <1>6, <2>1, SyncTransactionIn
  <1>8. /\ payment' = ReleaseAfterDashboardRefunds(st, s.attempt).payment
        /\ attempt' = ReleaseAfterDashboardRefunds(st, s.attempt).attempt
        /\ refund' = ReleaseAfterDashboardRefunds(st, s.attempt).refund
        /\ duplicate' = ReleaseAfterDashboardRefunds(st, s.attempt).duplicate
    BY <1>1, <1>7
  <1>9. st \in State
    BY <1>7
  <1> QED BY <1>7, <1>8, <1>9 DEF ReleaseAfterDashboardRefunds, State

\* What holds of the rows at each point of a sync's transaction.
Transacted(s) ==
  {st \in State :
     /\ AttemptsAgree(st.attempt, st.duplicate, money, disputed)
     /\ RowsAgree(st.attempt, st.refund, returned)
     /\ Follows(refund, st.refund, s.old)
     /\ st.duplicate = DecideSync(Start, s).duplicate
     /\ \/ st.attempt = DecideSync(Start, s).attempt
        \/ st.attempt = [DecideSync(Start, s).attempt EXCEPT ![s.attempt].settled = FALSE]}

LEMMA DecidedTransacted ==
  ASSUME Agreed, NEW s \in SyncJob, SyncAgrees(s, money, disputed, returned), ~SettlesTwice(s)
  PROVE  DecideSync(Start, s) \in Transacted(s)
  <1>1. DecideSync(Start, s) \in State /\ DecideSync(Start, s).refund = refund
    BY DecideCases
  <1>2. Follows(refund, refund, s.old)
    BY DEF Follows
  <1>3. /\ AttemptsAgree(DecideSync(Start, s).attempt, DecideSync(Start, s).duplicate, money, disputed)
        /\ RowsAgree(DecideSync(Start, s).attempt, refund, returned)
    BY DecideAgrees
  <1> QED BY <1>1, <1>2, <1>3 DEF Transacted

\* A step of the transaction: nothing of the rows changes, or one row is told.
Unmoved(st, n, s, r) ==
  /\ n.payment = st.payment /\ n.attempt = st.attempt /\ n.refund = st.refund
  /\ n.dashboard => \/ st.dashboard
                    \/ /\ s.returned[r] = "refunded" /\ HeldBy(st.refund, r) = {}
                       /\ Awaiting(st.refund, s.attempt) = {}

Told(st, n, s, i, r) ==
  /\ Reports(st.payment, st.attempt, st.refund, n.payment, n.attempt, n.refund,
             s.attempt, i, r, s.returned[r], returned)
  /\ n.dashboard = st.dashboard
  /\ st.refund[i].mid = None => i \in s.old

LEMMA ApplyTransacted ==
  ASSUME NEW s \in SyncJob, SyncAgrees(s, money, disputed, returned),
         NEW st \in Transacted(s), NEW r \in MollieRefunds, s.returned[r] # "none"
  PROVE  LET n == ApplyRefund(st, s, r)
         IN /\ n \in Transacted(s)
            /\ Unmoved(st, n, s, r) \/ \E i \in Intents : Told(st, n, s, i, r)
            /\ Follows(st.refund, n.refund, s.old)
  <1> DEFINE n == ApplyRefund(st, s, r)
             D == DecideSync(Start, s)
  <1>1. /\ st \in State /\ AttemptsAgree(st.attempt, st.duplicate, money, disputed)
        /\ RowsAgree(st.attempt, st.refund, returned)
        /\ Follows(refund, st.refund, s.old) /\ st.duplicate = D.duplicate
        /\ st.attempt = D.attempt \/ st.attempt = [D.attempt EXCEPT ![s.attempt].settled = FALSE]
    BY DEF Transacted
  <1>2. /\ st.attempt \in [Attempts -> AttemptRow] /\ st.refund \in [Intents -> RefundRow]
        /\ s.attempt \in Attempts /\ s.returned[r] \in RefundStages
    BY <1>1 DEF State, SyncJob
  <1>3. /\ n \in State /\ n.duplicate = st.duplicate
        /\ Unmoved(st, n, s, r) \/ \E i \in Intents : Told(st, n, s, i, r)
    BY <1>1, ApplyCases DEF SyncAgrees, Unmoved, Told
  <1>4. CASE Unmoved(st, n, s, r)
    <2>1. Follows(st.refund, n.refund, s.old)
      BY <1>4 DEF Unmoved, Follows
    <2> QED BY <1>1, <1>3, <1>4, <2>1 DEF Transacted, Unmoved
  <1>5. ASSUME NEW i \in Intents, Told(st, n, s, i, r)
        PROVE  n \in Transacted(s) /\ Follows(st.refund, n.refund, s.old)
    <2> HIDE DEF n, D
    <2>0. Reports(st.payment, st.attempt, st.refund, n.payment, n.attempt, n.refund,
                  s.attempt, i, r, s.returned[r], returned)
      BY <1>5 DEF Told
    <2>5. n.attempt = st.attempt \/ n.attempt = [st.attempt EXCEPT ![s.attempt].settled = FALSE]
      BY <2>0, Zenon DEF Reports, Completed
    <2>6. ReportedRow(st.refund, n.refund, s.attempt, i, r, returned)
      BY <1>1, <1>2, <2>0, ReportRow
    <2>1. /\ AttemptsAgree(n.attempt, st.duplicate, money, disputed)
          /\ RowsAgree(n.attempt, n.refund, returned)
          /\ Follows(st.refund, n.refund, s.old)
      <3>1. AttemptsAgree(n.attempt, st.duplicate, money, disputed)
        BY <1>1, <1>2, <2>5, ReleasedAgree
      <3>2. \A b \in Attempts : n.attempt[b].status = st.attempt[b].status
        BY <1>2, <2>5 DEF AttemptRow
      <3>3. RowsAgree(n.attempt, n.refund, returned)
        BY <1>1, <2>6, <3>2, ReportedRowsAgree
      <3>4. Follows(st.refund, n.refund, s.old)
        BY <2>6, <1>5, ReportedFollows DEF Told
      <3> QED BY <3>1, <3>3, <3>4
    <2>2. Follows(refund, n.refund, s.old)
      BY <1>1, <2>1, FollowsTwice
    <2>3. n.attempt = D.attempt \/ n.attempt = [D.attempt EXCEPT ![s.attempt].settled = FALSE]
      BY <1>1, <1>2, <2>5 DEF AttemptRow
    <2> QED BY <1>1, <1>3, <2>1, <2>2, <2>3 DEF Transacted, D
  <1> QED BY <1>3, <1>4, <1>5

LEMMA SyncTransacted ==
  ASSUME Agreed, NEW j \in Jobs, SyncApply(j)
  PROVE  /\ job[j] \in SyncJob /\ SyncAgrees(job[j], money, disputed, returned) /\ ~SettlesTwice(job[j])
         /\ \E st \in Transacted(job[j]) :
              /\ payment' = st.payment /\ refund' = st.refund /\ duplicate' = st.duplicate
              /\ attempt' = IF st.dashboard THEN [st.attempt EXCEPT ![job[j].attempt].settled = FALSE]
                                            ELSE st.attempt
  <1>1. job[j] \in SyncJob /\ SyncAgrees(job[j], money, disputed, returned) /\ ~SettlesTwice(job[j])
    BY JobOf DEF Agreed, TypeOK, SyncApply, JobAgrees
  <1>2. DecideSync(Start, job[j]) \in Transacted(job[j])
    BY <1>1, DecidedTransacted
  <1>3. \A st \in Transacted(job[j]), r \in MollieRefunds :
          job[j].returned[r] # "none" => ApplyRefund(st, job[j], r) \in Transacted(job[j])
    BY <1>1, ApplyTransacted
  <1>4. Transacted(job[j]) \in SUBSET State
    BY DEF Transacted
  <1> QED BY <1>1, <1>2, <1>3, <1>4, SyncApplyIn

\* What a request does with Mollie's answer.
LEMMA AnswerReports ==
  ASSUME Agreed, NEW j \in Jobs, StoreAnswer(j)
  PROVE  \/ payment' = payment /\ attempt' = attempt /\ refund' = refund
         \/ /\ Reports(payment, attempt, refund, payment', attempt', refund', job[j].attempt,
                       job[j].intent, job[j].found, job[j].status, returned)
            /\ refund[job[j].intent].status = "live" /\ refund[job[j].intent].mid = None
            /\ HeldBy(refund, job[j].found) = {}
  <1> DEFINE x == job[j]
             i == x.intent
             told == [refund EXCEPT ![i].mid = x.found, ![i].status = x.status]
             n == CompleteRefund([payment |-> payment, attempt |-> attempt, refund |-> told],
                                 x.attempt, refund[i].outcome)
  <1>1. CASE ~(refund[i].status = "live" /\ refund[i].mid = None)
    BY <1>1 DEF StoreAnswer
  <1>2. CASE refund[i].status = "live" /\ refund[i].mid = None
    <2>1. x \in RefundJob /\ RefundAgrees(x, refund, returned) /\ x.at = "answer"
      BY JobOf DEF Agreed, TypeOK, StoreAnswer, JobAgrees
    <2>2. /\ refund[i].of = x.attempt /\ returned[x.found].of = x.attempt /\ x.status \in Written
          /\ Final(x.status) => returned[x.found].status = x.status
      BY <1>2, <2>1 DEF RefundAgrees, Written
    <2>3. /\ HeldBy(refund, x.found) = {}
          /\ IF x.status = "refunded"
             THEN payment' = n.payment /\ attempt' = n.attempt /\ refund' = n.refund
             ELSE payment' = payment /\ attempt' = attempt /\ refund' = told
      BY <1>2 DEF StoreAnswer
    <2>4. Completed(payment, attempt, n.payment, n.attempt, x.attempt, refund[i].outcome) /\ n.refund = told
      BY CompleteAnswer
    <2> HIDE DEF n
    <2>5. CASE x.status = "refunded"
      BY <1>2, <2>2, <2>3, <2>4, <2>5 DEF Reports
    <2>6. CASE x.status # "refunded"
      BY <1>2, <2>2, <2>3, <2>6 DEF Reports
    <2> QED BY <1>2, <2>3, <2>5, <2>6
  <1> QED BY <1>1, <1>2

-------------------------------------------------------------------------------
(* Every step keeps what the rows, the requests and Mollie agree on.       *)

LEMMA AgreedAtFirst ==
  ASSUME Init
  PROVE  Agreed
  BY NoneAssumption, JobKinds
     DEF Init, Agreed, TypeOK, Owed, NoRefund, Payments, PaymentStatuses, AttemptStatuses, RefundStages,
         RefundRow, Outcomes, AttemptsAgree, RowsAgree, MollieAgrees, Written, JobAgrees, Final

Onward ==
  /\ RowsOnward(refund, refund') /\ MoneyOnward(money, money')
  /\ disputed \subseteq disputed' /\ ReturnedOnward(returned, returned')

AllJobsAgree == \A j \in Jobs : JobAgrees(job[j], refund, money, disputed, returned)

LEMMA JobsKept ==
  ASSUME Agreed, Onward, job' = job
  PROVE  job' \in [Jobs -> JobType] /\ AllJobsAgree'
  <1>1. job \in [Jobs -> JobType]
    BY DEF Agreed, TypeOK
  <1>2. ASSUME NEW j \in Jobs PROVE JobAgrees(job[j], refund', money', disputed', returned')
    BY <1>1, JobOnward DEF Agreed, Onward
  <1> QED BY <1>1, <1>2 DEF AllJobsAgree

LEMMA JobsKeptBut ==
  ASSUME Agreed, Onward, NEW j \in Jobs, NEW x \in JobType, job' = [job EXCEPT ![j] = x],
         JobAgrees(x, refund', money', disputed', returned')
  PROVE  job' \in [Jobs -> JobType] /\ AllJobsAgree'
  <1>1. job \in [Jobs -> JobType]
    BY DEF Agreed, TypeOK
  <1>2. job' \in [Jobs -> JobType] /\ job'[j] = x /\ \A k \in Jobs : k # j => job'[k] = job[k]
    BY <1>1
  <1>3. ASSUME NEW k \in Jobs PROVE JobAgrees(job'[k], refund', money', disputed', returned')
    <2>1. CASE k = j
      BY <1>2, <2>1
    <2>2. CASE k # j
      <3>1. JobAgrees(job[k], refund', money', disputed', returned')
        BY <1>1, JobOnward DEF Agreed, Onward
      <3> QED BY <1>2, <2>2, <3>1
    <2> QED BY <2>1, <2>2
  <1> QED BY <1>2, <1>3 DEF AllJobsAgree

LEMMA IdleAgrees ==
  ASSUME NEW rfd, NEW mon, NEW dis, NEW ret
  PROVE  Idle \in JobType /\ JobAgrees(Idle, rfd, mon, dis, ret)
  BY JobKinds DEF JobAgrees

\* The types of the rows and of Mollie's facts, and what they agree on.
RowTypes ==
  /\ payment \in Payments
  /\ attempt \in [Attempts -> AttemptRow]
  /\ refund \in [Intents -> RefundRow]
  /\ duplicate \subseteq Attempts
  /\ AttemptsAgree(attempt, duplicate, money, disputed)
  /\ RowsAgree(attempt, refund, returned)

MollieTypes ==
  /\ grant \in {"live", "disconnected", "revoked"}
  /\ money \in [Attempts -> AttemptStatuses]
  /\ disputed \subseteq Attempts
  /\ returned \in [MollieRefunds -> MollieRefund]
  /\ MollieAgrees(returned)
  /\ due \subseteq Attempts

LEMMA AgreedParts ==
  Agreed <=> RowTypes /\ MollieTypes /\ job \in [Jobs -> JobType] /\ AllJobsAgree
  BY DEF Agreed, TypeOK, RowTypes, MollieTypes, AllJobsAgree, Payments, PaymentStatuses, Owed,
         AttemptRow, MollieRefund

LEMMA AgreedAfter ==
  RowTypes' /\ MollieTypes' /\ job' \in [Jobs -> JobType] /\ AllJobsAgree' => Agreed'
  BY DEF Agreed, TypeOK, RowTypes, MollieTypes, AllJobsAgree, Payments, PaymentStatuses, Owed,
         AttemptRow, MollieRefund

LEMMA OnwardStays ==
  ASSUME refund' = refund, money' = money, disputed' = disputed, returned' = returned
  PROVE  Onward
  BY DEF Onward, RowsOnward, MoneyOnward, ReturnedOnward

\* A step that changes a request, the grant or what Mollie owes a webhook for.
LEMMA RequestMoves ==
  ASSUME Agreed, UNCHANGED <<rows, mollie>>, grant' \in {"live", "disconnected", "revoked"},
         due' \subseteq Attempts,
         \/ job' = job
         \/ \E j \in Jobs, x \in JobType : /\ job' = [job EXCEPT ![j] = x]
                                           /\ JobAgrees(x, refund, money, disputed, returned)
  PROVE  Agreed'
  <1>1. Onward
    BY OnwardStays DEF rows, mollie
  <1>2. job' \in [Jobs -> JobType] /\ AllJobsAgree'
    <2>1. CASE job' = job
      BY <1>1, <2>1, JobsKept
    <2>2. ASSUME NEW j \in Jobs, NEW x \in JobType, job' = [job EXCEPT ![j] = x],
                 JobAgrees(x, refund, money, disputed, returned)
          PROVE  job' \in [Jobs -> JobType] /\ AllJobsAgree'
      <3>1. JobAgrees(x, refund', money', disputed', returned')
        BY <2>2 DEF rows, mollie
      <3> QED BY <1>1, <2>2, <3>1, JobsKeptBut
    <2> QED BY <2>1, <2>2
  <1>3. RowTypes' /\ MollieTypes'
    BY AgreedParts DEF RowTypes, MollieTypes, rows, mollie
  <1> QED BY <1>2, <1>3, AgreedAfter

LEMMA JobMovesAgree ==
  ASSUME Agreed, NEW j \in Jobs,
         \/ \E a \in Attempts, hook \in BOOLEAN : SyncFetch(j, a, hook)
         \/ SyncReadRows(j) \/ SyncAborts(j)
         \/ \E a \in Attempts, i \in Intents, outcome \in Outcomes : FindStale(j, a, i, outcome)
         \/ NoToken(j) \/ ListRefunds(j) \/ MatchRefund(j) \/ Lose(j)
  PROVE  Agreed'
  <1> DEFINE Good(x) == JobAgrees(x, refund, money, disputed, returned)
  <1>0. /\ RowTypes /\ MollieTypes /\ job \in [Jobs -> JobType] /\ Good(job[j]) /\ due \subseteq Attempts
        /\ Idle \in JobType /\ Good(Idle) /\ SyncJob \subseteq JobType /\ RefundJob \subseteq JobType
    BY AgreedParts, IdleAgrees, JobKinds DEF AllJobsAgree, MollieTypes
  <1>s. job[j].do = "sync" =>
          /\ job[j] \in SyncJob /\ SyncAgrees(job[j], money, disputed, returned)
          /\ Owing(job[j]) \subseteq Attempts
    BY <1>0, JobOf DEF JobAgrees, Owing, SyncJob
  <1>r. job[j].do = "refund" => job[j] \in RefundJob /\ RefundAgrees(job[j], refund, returned)
    BY <1>0, JobOf DEF JobAgrees
  <1>1. ASSUME NEW a \in Attempts, NEW hook \in BOOLEAN, SyncFetch(j, a, hook)
        PROVE  Agreed'
    <2> DEFINE x == [do |-> "sync", attempt |-> a, hook |-> hook, link |-> "unread",
                     paid |-> money[a], disputed |-> a \in disputed,
                     returned |-> [r \in MollieRefunds |->
                                     IF returned[r].of = a THEN returned[r].status ELSE "none"],
                     old |-> {i \in Intents : refund[i].old}]
    <2>1. x \in SyncJob
      BY <1>0 DEF SyncJob, MollieTypes, MollieRefund, RefundStages
    <2>2. SyncAgrees(x, money, disputed, returned)
      BY <1>0, <1>1, NoneAssumption
         DEF SyncFetch, SyncAgrees, Snapshot, RowTypes, MollieTypes, AttemptsAgree, MollieAgrees, Written, Final
    <2>3. Good(x)
      BY <2>2 DEF JobAgrees
    <2>4. job' = [job EXCEPT ![j] = x] /\ UNCHANGED <<rows, mollie, grant>> /\ due' \subseteq Attempts
      BY <1>0, <1>1 DEF SyncFetch
    <2> HIDE DEF x
    <2> QED BY <1>0, <2>1, <2>3, <2>4, RequestMoves DEF MollieTypes
  <1>2. CASE SyncReadRows(j)
    <2>1. PICK link \in {"locked", "free"} : job' = [job EXCEPT ![j].link = link]
      BY <1>2 DEF SyncReadRows
    <2> DEFINE x == [job[j] EXCEPT !.link = link]
    <2>2. x \in SyncJob /\ Good(x)
      BY <1>2, <1>s DEF SyncReadRows, SyncJob, JobAgrees, SyncAgrees
    <2>3. job' = [job EXCEPT ![j] = x] /\ UNCHANGED <<rows, mollie, grant, due>>
      BY <1>0, <1>2, <2>1 DEF SyncReadRows
    <2> HIDE DEF x
    <2> QED BY <1>0, <2>2, <2>3, RequestMoves DEF MollieTypes
  <1>3. CASE SyncAborts(j) \/ Lose(j)
    <2>1. job' = [job EXCEPT ![j] = Idle] /\ UNCHANGED <<rows, mollie, grant>> /\ due' \subseteq Attempts
      BY <1>0, <1>3, <1>s DEF SyncAborts, Lose
    <2> QED BY <1>0, <2>1, RequestMoves DEF MollieTypes
  <1>4. ASSUME NEW a \in Attempts, NEW i \in Intents, NEW outcome \in Outcomes, FindStale(j, a, i, outcome)
        PROVE  Agreed'
    <2> DEFINE x == Asked(a, i, outcome, "unsure", TRUE)
    <2>1. x \in RefundJob
      BY DEF RefundJob, Asked, RefundStages
    <2>2. Good(x)
      BY <1>4, NoneAssumption DEF FindStale, JobAgrees, RefundAgrees, Asked, Awaiting
    <2>3. job' = [job EXCEPT ![j] = x] /\ UNCHANGED <<rows, mollie, grant, due>>
      BY <1>4 DEF FindStale
    <2> HIDE DEF x
    <2> QED BY <1>0, <2>1, <2>2, <2>3, RequestMoves DEF MollieTypes
  <1>5. CASE NoToken(j)
    <2> DEFINE x == [job[j] EXCEPT !.at = "withdraw"]
    <2>1. x \in RefundJob /\ Good(x)
      BY <1>5, <1>r DEF NoToken, RefundJob, JobAgrees, RefundAgrees
    <2>2. job' = [job EXCEPT ![j] = x] /\ UNCHANGED <<rows, mollie, grant, due>>
      BY <1>0, <1>5 DEF NoToken
    <2> HIDE DEF x
    <2> QED BY <1>0, <2>1, <2>2, RequestMoves DEF MollieTypes
  <1>6. CASE ListRefunds(j)
    <2> DEFINE list == [r \in MollieRefunds |->
                          IF returned[r].of = job[j].attempt THEN returned[r].status ELSE "none"]
               x == [job[j] EXCEPT !.at = "listed", !.list = list]
    <2>1. list \in [MollieRefunds -> RefundStages] /\ Snapshot(list, job[j].attempt, returned)
      BY <1>0, <1>6, <1>r, NoneAssumption
         DEF MollieTypes, MollieRefund, RefundStages, Snapshot, MollieAgrees, Written, ListRefunds, RefundJob
    <2>2. job' = [job EXCEPT ![j] = x] /\ UNCHANGED <<rows, mollie, grant, due>>
      BY <1>0, <1>6 DEF ListRefunds
    <2> HIDE DEF list
    <2>3. x \in RefundJob /\ Good(x)
      BY <1>6, <1>r, <2>1 DEF ListRefunds, RefundJob, JobAgrees, RefundAgrees
    <2> HIDE DEF x
    <2> QED BY <1>0, <2>2, <2>3, RequestMoves DEF MollieTypes
  <1>7. CASE MatchRefund(j)
    <2>0. job[j] \in RefundJob /\ RefundAgrees(job[j], refund, returned) /\ job[j].at = "listed"
          /\ UNCHANGED <<rows, mollie, grant, due>>
      BY <1>7, <1>r DEF MatchRefund
    <2>1. ASSUME NEW r \in Picks(job[j].list),
                 job' = [job EXCEPT ![j].at = "answer", ![j].found = r,
                                    ![j].status = job[j].list[r], ![j].list = <<>>]
          PROVE  Agreed'
      <3> DEFINE x == [job[j] EXCEPT !.at = "answer", !.found = r, !.status = job[j].list[r], !.list = <<>>]
      <3>1. r \in MollieRefunds /\ job[j].list[r] # "none" /\ job[j].list \in [MollieRefunds -> RefundStages]
        BY <2>0 DEF Picks, Unheld, RefundAgrees
      <3>2. x \in RefundJob
        BY <2>0, <3>1 DEF RefundJob
      <3>3. Good(x)
        BY <2>0, <3>1 DEF RefundJob, JobAgrees, RefundAgrees, Snapshot
      <3>4. job' = [job EXCEPT ![j] = x]
        BY <1>0, <2>1
      <3> HIDE DEF x
      <3> QED BY <1>0, <2>0, <3>2, <3>3, <3>4, RequestMoves DEF MollieTypes
    <2>2. CASE job' = [job EXCEPT ![j].at = "withdraw", ![j].list = <<>>]
      <3> DEFINE x == [job[j] EXCEPT !.at = "withdraw", !.list = <<>>]
      <3>1. x \in RefundJob /\ Good(x)
        BY <2>0 DEF RefundJob, JobAgrees, RefundAgrees
      <3>2. job' = [job EXCEPT ![j] = x]
        BY <1>0, <2>2
      <3> HIDE DEF x
      <3> QED BY <1>0, <2>0, <3>1, <3>2, RequestMoves DEF MollieTypes
    <2> QED BY <1>7, <2>1, <2>2 DEF MatchRefund
  <1> QED BY <1>1, <1>2, <1>3, <1>4, <1>5, <1>6, <1>7

\* A step of Mollie's, on its own or asked for.
LEMMA MollieMovesAgree ==
  ASSUME Agreed,
         \/ MollieStep
         \/ \E j \in Jobs, a \in Attempts : AskCheckout(j, a)
         \/ \E j \in Jobs, r \in MollieRefunds \cup {None}, answered \in BOOLEAN : CallMollie(j, r, answered)
  PROVE  Agreed'
  <1>0. RowTypes /\ MollieTypes /\ job \in [Jobs -> JobType] /\ AllJobsAgree
    BY AgreedParts
  <1>k. ASSUME UNCHANGED rows, MoneyOnward(money, money'), disputed \subseteq disputed',
               ReturnedOnward(returned, returned')
        PROVE  RowTypes' /\ Onward
    <2>1. AttemptsAgree(attempt, duplicate, money', disputed')
      BY <1>0, <1>k, AttemptsOnward DEF RowTypes
    <2>2. RowsAgree(attempt, refund, returned')
      BY <1>0, <1>k, ReturnedKeepsRows DEF RowTypes
    <2>3. Onward
      BY <1>k, RowsStay DEF Onward, rows
    <2> QED BY <1>0, <1>k, <2>1, <2>2, <2>3 DEF RowTypes, rows
  <1>1. ASSUME NEW a \in Attempts, NEW to \in {"paid", "ended"}, MollieMoves(a, to)
        PROVE  Agreed'
    <2>1. MoneyOnward(money, money') /\ ReturnedOnward(returned, returned')
      BY <1>0, <1>1 DEF MollieMoves, MoneyOnward, ReturnedOnward, MollieTypes
    <2>2. MollieTypes'
      BY <1>0, <1>1 DEF MollieMoves, MollieTypes, AttemptStatuses
    <2>3. RowTypes' /\ Onward
      BY <1>1, <2>1, <1>k DEF MollieMoves
    <2> QED BY <1>1, <2>2, <2>3, JobsKept, AgreedAfter DEF MollieMoves
  <1>2. ASSUME NEW a \in Attempts, MollieDisputes(a)
        PROVE  Agreed'
    <2>1. MoneyOnward(money, money') /\ ReturnedOnward(returned, returned')
      BY <1>2 DEF MollieDisputes, MoneyOnward, ReturnedOnward
    <2>2. MollieTypes' /\ disputed \subseteq disputed'
      BY <1>0, <1>2 DEF MollieDisputes, MollieTypes
    <2>3. RowTypes' /\ Onward
      BY <1>2, <2>1, <2>2, <1>k DEF MollieDisputes
    <2> QED BY <1>2, <2>2, <2>3, JobsKept, AgreedAfter DEF MollieDisputes
  <1>3. ASSUME NEW r \in MollieRefunds, NEW to \in {"refunded", "ended"}, MollieRefundMoves(r, to)
        PROVE  Agreed'
    <2>1. MoneyOnward(money, money') /\ ReturnedOnward(returned, returned')
      BY <1>0, <1>3 DEF MollieRefundMoves, MoneyOnward, ReturnedOnward, MollieTypes, MollieRefund, Final
    <2>2. returned[r].of \in Attempts
      BY <1>0, <1>3 DEF MollieRefundMoves, MollieTypes, MollieRefund, MollieAgrees
    <2>3. MollieTypes'
      BY <1>0, <1>3, <2>2 DEF MollieRefundMoves, MollieTypes, MollieRefund, RefundStages, MollieAgrees, Written
    <2>4. RowTypes' /\ Onward
      BY <1>3, <2>1, <1>k DEF MollieRefundMoves
    <2> QED BY <1>3, <2>3, <2>4, JobsKept, AgreedAfter DEF MollieRefundMoves
  <1>4. ASSUME NEW r \in MollieRefunds, NEW a \in Attempts, NEW ours \in BOOLEAN, returned[r].status = "none",
               returned' = [returned EXCEPT ![r] = [of |-> a, status |-> "live", ours |-> ours]]
        PROVE  /\ ReturnedOnward(returned, returned')
               /\ returned' \in [MollieRefunds -> MollieRefund] /\ MollieAgrees(returned')
    <2>1. returned[r].of = None
      BY <1>0, <1>4 DEF MollieTypes, MollieAgrees
    <2> QED BY <1>0, <1>4, <2>1, NoneAssumption
            DEF ReturnedOnward, MollieTypes, MollieRefund, MollieAgrees, Written, RefundStages
  <1>5. ASSUME NEW r \in MollieRefunds, NEW a \in Attempts, DashboardRefund(r, a)
        PROVE  Agreed'
    <2>1. /\ ReturnedOnward(returned, returned') /\ MoneyOnward(money, money')
          /\ returned' \in [MollieRefunds -> MollieRefund] /\ MollieAgrees(returned')
      BY <1>4, <1>5 DEF DashboardRefund, MoneyOnward
    <2>2. MollieTypes'
      BY <1>0, <1>5, <2>1 DEF DashboardRefund, MollieTypes
    <2>3. RowTypes' /\ Onward
      BY <1>5, <2>1, <1>k DEF DashboardRefund
    <2> QED BY <1>5, <2>2, <2>3, JobsKept, AgreedAfter DEF DashboardRefund
  <1>6. ASSUME NEW j \in Jobs, NEW a \in Attempts, AskCheckout(j, a)
        PROVE  Agreed'
    <2> DEFINE x == [do |-> "checkout", attempt |-> a]
    <2>1. MoneyOnward(money, money') /\ ReturnedOnward(returned, returned')
      BY <1>0, <1>6 DEF AskCheckout, MoneyOnward, ReturnedOnward, MollieTypes
    <2>2. MollieTypes'
      BY <1>0, <1>6 DEF AskCheckout, MollieTypes, AttemptStatuses
    <2>3. RowTypes' /\ Onward
      BY <1>6, <2>1, <1>k DEF AskCheckout
    <2>4. x \in JobType /\ JobAgrees(x, refund', money', disputed', returned')
      BY <1>0, <1>6, JobKinds DEF AskCheckout, JobAgrees, CheckoutJob, MollieTypes
    <2>5. job' = [job EXCEPT ![j] = x]
      BY <1>6 DEF AskCheckout
    <2> HIDE DEF x
    <2> QED BY <2>2, <2>3, <2>4, <2>5, JobsKeptBut, AgreedAfter
  <1>7. ASSUME NEW j \in Jobs, NEW r \in MollieRefunds \cup {None}, NEW answered \in BOOLEAN,
               CallMollie(j, r, answered)
        PROVE  Agreed'
    <2> DEFINE x == [job[j] EXCEPT
                       !.at = IF ~answered THEN "unsure" ELSE IF r = None THEN "withdraw" ELSE "answer",
                       !.found = IF answered THEN r ELSE None,
                       !.status = IF answered /\ r # None THEN "live" ELSE "none"]
    <2>0. job[j] \in RefundJob /\ RefundAgrees(job[j], refund, returned) /\ job[j].attempt \in Attempts
      <3>1. job[j].do = "refund" /\ job[j] \in JobType /\ JobAgrees(job[j], refund, money, disputed, returned)
        BY <1>0, <1>7 DEF CallMollie, AllJobsAgree
      <3>2. job[j] \in RefundJob /\ RefundAgrees(job[j], refund, returned)
        BY <3>1, JobOf DEF JobAgrees
      <3> QED BY <3>2 DEF RefundJob
    <2>1. /\ ReturnedOnward(returned, returned') /\ MoneyOnward(money, money')
          /\ returned' \in [MollieRefunds -> MollieRefund] /\ MollieAgrees(returned')
          /\ due' \subseteq Attempts
          /\ r # None => r \in MollieRefunds /\ returned'[r].of = job[j].attempt
      <3>1. CASE r = None
        BY <1>0, <1>7, <3>1 DEF CallMollie, MoneyOnward, ReturnedOnward, MollieTypes
      <3>2. CASE r # None
        <4>1. /\ r \in MollieRefunds /\ returned[r].status = "none" /\ due' = due \cup {job[j].attempt}
              /\ returned' = [returned EXCEPT ![r] = [of |-> job[j].attempt, status |-> "live", ours |-> TRUE]]
              /\ UNCHANGED money
          BY <1>7, <3>2 DEF CallMollie
        <4> QED BY <1>0, <1>4, <2>0, <4>1 DEF MoneyOnward, MollieTypes
      <3> QED BY <3>1, <3>2
    <2>2. MollieTypes'
      BY <1>0, <1>7, <2>1 DEF CallMollie, MollieTypes
    <2>3. RowTypes' /\ Onward
      BY <1>7, <2>1, <1>k DEF CallMollie
    <2>4. job' = [job EXCEPT ![j] = x] /\ refund' = refund
      BY <1>0, <1>7 DEF CallMollie, rows
    <2>5. x \in RefundJob
      BY <2>0 DEF RefundJob, RefundStages
    <2>6. JobAgrees(x, refund', money', disputed', returned')
      BY <2>0, <2>1, <2>4 DEF JobAgrees, RefundAgrees, RefundJob, Written, Final
    <2>7. x \in JobType
      BY <2>5, JobKinds
    <2> HIDE DEF x
    <2> QED BY <2>2, <2>3, <2>4, <2>6, <2>7, JobsKeptBut, AgreedAfter
  <1> QED BY <1>1, <1>2, <1>3, <1>5, <1>6, <1>7 DEF MollieStep

\* A step that writes the payment, its attempts or its refunds, and changes a request at
\* most: what is left to show is what the rows agree on.
LEMMA WritesAgree ==
  ASSUME Agreed, UNCHANGED <<grant, mollie>>, RowTypes', RowsOnward(refund, refund'), due' \subseteq Attempts,
         \/ job' = job
         \/ \E j \in Jobs, x \in JobType : /\ job' = [job EXCEPT ![j] = x]
                                           /\ JobAgrees(x, refund', money, disputed, returned)
  PROVE  Agreed'
  <1>1. Onward
    BY DEF Onward, mollie, MoneyOnward, ReturnedOnward
  <1>2. job' \in [Jobs -> JobType] /\ AllJobsAgree'
    <2>1. CASE job' = job
      BY <1>1, <2>1, JobsKept
    <2>2. ASSUME NEW j \in Jobs, NEW x \in JobType, job' = [job EXCEPT ![j] = x],
                 JobAgrees(x, refund', money, disputed, returned)
          PROVE  job' \in [Jobs -> JobType] /\ AllJobsAgree'
      <3>1. JobAgrees(x, refund', money', disputed', returned')
        BY <2>2 DEF mollie
      <3> QED BY <1>1, <2>2, <3>1, JobsKeptBut
    <2> QED BY <2>1, <2>2
  <1>3. MollieTypes'
    BY AgreedParts DEF MollieTypes, mollie
  <1> QED BY <1>2, <1>3, AgreedAfter

LEMMA HandMovesAgree ==
  ASSUME Agreed, ByHand
  PROVE  Agreed'
  <1>1. RowTypes /\ MollieTypes
    BY AgreedParts
  <1>2. /\ payment' \in Payments /\ UNCHANGED <<attempt, refund, duplicate, grant, mollie, due, job>>
    BY DEF ByHand, MarkPaid, MarkNotCharged, ReopenPayment, Payments
  <1>3. RowTypes'
    BY <1>1, <1>2 DEF RowTypes, mollie
  <1>4. RowsOnward(refund, refund')
    BY <1>2, RowsStay
  <1> QED BY <1>1, <1>2, <1>3, <1>4, WritesAgree DEF MollieTypes

\* The rows and the request after an intent is recorded.
LEMMA RecordAgrees ==
  ASSUME Agreed, NEW j \in Jobs, NEW a \in Attempts, NEW i \in Intents, NEW outcome \in Outcomes,
         Record(j, a, i, outcome), UNCHANGED <<payment, attempt, duplicate, grant, mollie, due>>
  PROVE  Agreed'
  <1>0. RowTypes /\ MollieTypes
    BY AgreedParts
  <1> DEFINE row == [of |-> a, mid |-> None, status |-> "live", outcome |-> outcome, old |-> FALSE]
             x == Asked(a, i, outcome, "call", FALSE)
  <1>1. /\ refund' = [refund EXCEPT ![i] = row] /\ job' = [job EXCEPT ![j] = x]
        /\ refund[i].status = "none" /\ attempt[a].status = "paid"
        /\ \A k \in Intents : refund[k].of = a => refund[k].status \notin {"live", "refunded"}
    BY DEF Record, RefundAllowed, LiveRefund, NoRefund
  <1>2. row \in RefundRow
    BY DEF RefundRow, RefundStages
  <1>3. refund' \in [Intents -> RefundRow] /\ refund'[i] = row /\ \A k \in Intents : k # i => refund'[k] = refund[k]
    BY <1>0, <1>1, <1>2 DEF RowTypes
  <1>4. RowsOnward(refund, refund')
    BY <1>1, <1>3 DEF RowsOnward
  <1>5. RowsAgree(attempt, refund', returned)
    <2>1. ASSUME NEW k \in Intents
          PROVE  /\ refund'[k].status \in Written =>
                      refund'[k].of \in Attempts /\ attempt[refund'[k].of].status = "paid"
                 /\ refund'[k].mid # None =>
                      /\ refund'[k].status \in Written
                      /\ returned[refund'[k].mid].of = refund'[k].of
                      /\ Final(refund'[k].status) => returned[refund'[k].mid].status = refund'[k].status
      BY <1>0, <1>1, <1>3 DEF RowTypes, RowsAgree
    <2>2. ASSUME NEW k \in Intents, NEW h \in Intents, refund'[k].status = "live",
                 refund'[h].of = refund'[k].of, refund'[h].status \in {"live", "refunded"}
          PROVE  h = k
      BY <1>0, <1>1, <1>3, <2>2 DEF RowTypes, RowsAgree
    <2> QED BY <2>1, <2>2 DEF RowsAgree
  <1>6. x \in RefundJob /\ JobAgrees(x, refund', money, disputed, returned)
    BY <1>3 DEF RefundJob, Asked, RefundStages, JobAgrees, RefundAgrees, Written
  <1>7. RowTypes'
    BY <1>0, <1>3, <1>5 DEF RowTypes, mollie
  <1> HIDE DEF x
  <1> QED BY <1>0, <1>1, <1>4, <1>6, <1>7, JobKinds, WritesAgree DEF MollieTypes


LEMMA RowMovesAgree ==
  ASSUME Agreed, Checkouts,
         \/ \E j \in Jobs : StoreAttempt(j) \/ Withdraw(j) \/ StoreAnswer(j) \/ SyncApply(j)
         \/ \E i \in Intents : IntentAges(i)
         \/ \E j \in Jobs, a \in Attempts, i \in Intents, outcome \in Outcomes : RecordIntent(j, a, i, outcome)
         \/ \E j \in Jobs, i \in Intents : RecordAgain(j, i)
  PROVE  Agreed'
  <1>0. RowTypes /\ MollieTypes /\ job \in [Jobs -> JobType] /\ AllJobsAgree
    BY AgreedParts
  <1>j. \A j \in Jobs : /\ job[j] \in JobType /\ JobAgrees(job[j], refund, money, disputed, returned)
                        /\ job[j].do = "checkout" => job[j] \in CheckoutJob
                        /\ job[j].do = "sync" => job[j] \in SyncJob
                        /\ job[j].do = "refund" => job[j] \in RefundJob
    BY <1>0, JobOf DEF AllJobsAgree
  <1>i. Idle \in JobType /\ \A rfd : JobAgrees(Idle, rfd, money, disputed, returned)
    BY IdleAgrees
  <1>1. ASSUME NEW j \in Jobs, StoreAttempt(j)
        PROVE  Agreed'
    <2> DEFINE a == job[j].attempt
    <2>1. a \in Attempts /\ money[a] # "none" /\ attempt[a].status = "none"
      BY <1>1, <1>j, JobKinds DEF StoreAttempt, JobAgrees, Checkouts
    <2>2. attempt' = attempt \/ attempt' = [attempt EXCEPT ![a].status = "open"]
      BY <1>1 DEF StoreAttempt
    <2>3. UNCHANGED <<payment, refund, duplicate, grant, mollie, due>> /\ job' = [job EXCEPT ![j] = Idle]
      BY <1>1 DEF StoreAttempt
    <2>4. attempt' \in [Attempts -> AttemptRow] /\ AttemptsAgree(attempt', duplicate, money, disputed)
      BY <1>0, <2>1, <2>2 DEF RowTypes, AttemptsAgree, AttemptRow, AttemptStatuses
    <2>5. \A b \in Attempts : attempt[b].status = "paid" => attempt'[b].status = "paid"
      BY <1>0, <2>1, <2>2 DEF RowTypes, AttemptRow
    <2>6. RowsAgree(attempt', refund, returned)
      BY <1>0, <2>5 DEF RowTypes, RowsAgree
    <2>7. RowTypes' /\ RowsOnward(refund, refund')
      BY <1>0, <2>3, <2>4, <2>6, RowsStay DEF RowTypes, mollie
    <2> QED BY <1>0, <1>i, <2>3, <2>7, WritesAgree DEF MollieTypes
  <1>2. ASSUME NEW j \in Jobs, Withdraw(j)
        PROVE  Agreed'
    <2> DEFINE i == job[j].intent
               x == IF job[j].stale THEN [job[j] EXCEPT !.at = "again"] ELSE Idle
               gone == [NoRefund EXCEPT !.status = "gone"]
    <2>1. job[j] \in RefundJob /\ RefundAgrees(job[j], refund, returned) /\ i \in Intents
      BY <1>2, <1>j DEF Withdraw, JobAgrees, RefundJob
    <2>2. gone \in RefundRow /\ gone.status = "gone" /\ gone.mid = None
      BY DEF NoRefund, RefundRow, RefundStages, Outcomes
    <2>3. refund' = refund \/ refund' = [refund EXCEPT ![i] = gone]
      BY <1>2 DEF Withdraw, Withdrawn
    <2> HIDE DEF gone
    <2>4. /\ refund' \in [Intents -> RefundRow]
          /\ \A k \in Intents : refund'[k] = refund[k] \/ refund'[k] = gone
      BY <1>0, <2>1, <2>2, <2>3 DEF RowTypes
    <2>5. refund[i].status # "none"
      BY <2>1 DEF RefundAgrees
    <2>6. RowsOnward(refund, refund') /\ refund'[i].status # "none"
      BY <1>0, <2>1, <2>2, <2>3, <2>5 DEF RowTypes, RowsOnward, Written
    <2>7. RowsAgree(attempt, refund', returned)
      <3>1. ASSUME NEW k \in Intents
            PROVE  /\ refund'[k].status \in Written =>
                        refund'[k].of \in Attempts /\ attempt[refund'[k].of].status = "paid"
                   /\ refund'[k].mid # None =>
                        /\ refund'[k].status \in Written
                        /\ returned[refund'[k].mid].of = refund'[k].of
                        /\ Final(refund'[k].status) => returned[refund'[k].mid].status = refund'[k].status
        BY <1>0, <2>2, <2>4 DEF RowTypes, RowsAgree, Written
      <3>2. ASSUME NEW k \in Intents, NEW h \in Intents, refund'[k].status = "live",
                   refund'[h].of = refund'[k].of, refund'[h].status \in {"live", "refunded"}
            PROVE  h = k
        <4>1. refund'[k] = refund[k] /\ refund'[h] = refund[h]
          BY <2>2, <2>4, <3>2
        <4> QED BY <1>0, <3>2, <4>1 DEF RowTypes, RowsAgree
      <3> QED BY <3>1, <3>2 DEF RowsAgree
    <2>8. /\ UNCHANGED <<payment, attempt, duplicate, grant, mollie, due>>
          /\ job' = [job EXCEPT ![j] = x]
      BY <1>0, <1>2 DEF Withdraw
    <2>9. RowTypes'
      BY <1>0, <2>4, <2>7, <2>8 DEF RowTypes, mollie
    <2>10. x \in JobType /\ JobAgrees(x, refund', money, disputed, returned)
      <3>1. CASE ~job[j].stale
        BY <1>i, <3>1
      <3>2. CASE job[j].stale
        <4>1. x \in RefundJob /\ x.intent = i /\ x.attempt = job[j].attempt /\ x.at = "again"
          BY <2>1, <3>2 DEF RefundJob
        <4>2. refund'[i].status \in Written => refund'[i].of = job[j].attempt
          BY <2>1, <2>5, <2>6 DEF RefundAgrees, RowsOnward
        <4> HIDE DEF x
        <4> QED BY <2>6, <4>1, <4>2, JobKinds DEF JobAgrees, RefundAgrees
      <3> QED BY <3>1, <3>2
    <2> HIDE DEF x
    <2> QED BY <1>0, <2>6, <2>8, <2>9, <2>10, WritesAgree DEF MollieTypes
  <1>3. ASSUME NEW j \in Jobs, StoreAnswer(j)
        PROVE  Agreed'
    <2> DEFINE x == job[j]
    <2>1. /\ x \in RefundJob /\ RefundAgrees(x, refund, returned) /\ x.at = "answer"
          /\ x.intent \in Intents /\ x.found \in MollieRefunds /\ x.attempt \in Attempts /\ x.status \in RefundStages
      BY <1>3, <1>j DEF StoreAnswer, JobAgrees, RefundJob, RefundAgrees
    <2>2. UNCHANGED <<duplicate, grant, mollie, due>> /\ job' = [job EXCEPT ![j] = Idle]
      BY <1>3 DEF StoreAnswer
    <2>3. RowTypes' /\ RowsOnward(refund, refund')
      <3>1. CASE payment' = payment /\ attempt' = attempt /\ refund' = refund
        BY <1>0, <2>2, <3>1, RowsStay DEF RowTypes, mollie
      <3>2. CASE Reports(payment, attempt, refund, payment', attempt', refund', x.attempt,
                         x.intent, x.found, x.status, returned)
        <4> HIDE DEF x
        <4>1. /\ attempt' = attempt \/ attempt' = [attempt EXCEPT ![x.attempt].settled = FALSE]
              /\ payment' \in Payments
          BY <1>0, <3>2 DEF Reports, Completed, RowTypes, Payments, Owed
        <4>2. ReportedRow(refund, refund', x.attempt, x.intent, x.found, returned)
          BY <1>0, <2>1, <3>2, ReportRow DEF RowTypes
        <4>3. attempt' \in [Attempts -> AttemptRow] /\ \A b \in Attempts : attempt'[b].status = attempt[b].status
          <5>1. CASE attempt' = attempt
            BY <1>0, <5>1 DEF RowTypes
          <5>2. CASE attempt' = [attempt EXCEPT ![x.attempt].settled = FALSE]
            BY <1>0, <5>2 DEF RowTypes, AttemptRow
          <5> QED BY <4>1, <5>1, <5>2
        <4>4. AttemptsAgree(attempt', duplicate, money, disputed)
          BY <1>0, <2>1, <4>1, ReleasedAgree DEF RowTypes
        <4>5. RowsAgree(attempt', refund', returned)
          BY <1>0, <2>1, <4>2, <4>3, ReportedRowsAgree DEF RowTypes
        <4>6. RowsOnward(refund, refund')
          BY <4>2 DEF ReportedRow, RowsOnward, Written
        <4> QED BY <1>0, <2>2, <4>1, <4>2, <4>3, <4>4, <4>5, <4>6 DEF RowTypes, ReportedRow, mollie
      <3> QED BY <1>3, <3>1, <3>2, AnswerReports
    <2> QED BY <1>0, <1>i, <2>2, <2>3, WritesAgree DEF MollieTypes
  <1>4. ASSUME NEW j \in Jobs, SyncApply(j)
        PROVE  Agreed'
    <2> DEFINE s == job[j]
    <2>1. PICK st \in Transacted(s) :
            /\ payment' = st.payment /\ refund' = st.refund /\ duplicate' = st.duplicate
            /\ attempt' = IF st.dashboard THEN [st.attempt EXCEPT ![s.attempt].settled = FALSE]
                                          ELSE st.attempt
      BY <1>4, SyncTransacted
    <2>2. s \in SyncJob /\ s.attempt \in Attempts
      BY <1>4, SyncTransacted DEF SyncJob
    <2>3. UNCHANGED <<grant, mollie>> /\ job' = [job EXCEPT ![j] = Idle] /\ due' \subseteq Attempts
      BY <1>0, <1>4, <2>2 DEF SyncApply, Owing, MollieTypes
    <2> HIDE DEF s
    <2>4. /\ st \in State /\ AttemptsAgree(st.attempt, st.duplicate, money, disputed)
          /\ RowsAgree(st.attempt, st.refund, returned) /\ Follows(refund, st.refund, s.old)
      BY <2>1 DEF Transacted
    <2>5. /\ payment' \in Payments /\ refund' \in [Intents -> RefundRow] /\ duplicate' \subseteq Attempts
          /\ attempt' \in [Attempts -> AttemptRow]
          /\ \A b \in Attempts : attempt'[b].status = st.attempt[b].status
      BY <2>1, <2>4 DEF State, AttemptRow
    <2>6. AttemptsAgree(attempt', duplicate', money, disputed)
      BY <2>1, <2>2, <2>4, ReleasedAgree DEF State
    <2>7. RowsAgree(attempt', refund', returned)
      BY <2>1, <2>4, <2>5 DEF RowsAgree
    <2>8. RowTypes'
      BY <2>3, <2>5, <2>6, <2>7 DEF RowTypes, mollie
    <2>9. RowsOnward(refund, refund')
      BY <2>1, <2>4 DEF RowsOnward, Follows, Written
    <2> QED BY <1>i, <2>3, <2>8, <2>9, WritesAgree
  <1>5. ASSUME NEW i \in Intents, IntentAges(i)
        PROVE  Agreed'
    <2>1. /\ UNCHANGED <<payment, attempt, duplicate, grant, mollie, due, job>>
          /\ refund' \in [Intents -> RefundRow]
          /\ \A k \in Intents : /\ refund'[k].of = refund[k].of /\ refund'[k].mid = refund[k].mid
                                /\ refund'[k].status = refund[k].status
      BY <1>0, <1>5 DEF IntentAges, RowTypes, RefundRow
    <2>2. RowsAgree(attempt, refund', returned) /\ RowsOnward(refund, refund')
      BY <1>0, <2>1 DEF RowTypes, RowsAgree, RowsOnward
    <2>3. RowTypes'
      BY <1>0, <2>1, <2>2 DEF RowTypes, mollie
    <2> QED BY <1>0, <2>1, <2>2, <2>3, WritesAgree DEF MollieTypes
  <1>6. ASSUME NEW j \in Jobs, NEW a \in Attempts, NEW i \in Intents, NEW outcome \in Outcomes,
               RecordIntent(j, a, i, outcome)
        PROVE  Agreed'
    BY <1>6, RecordAgrees DEF RecordIntent
  <1>7. ASSUME NEW j \in Jobs, NEW i \in Intents, RecordAgain(j, i)
        PROVE  Agreed'
    <2>1. job[j].attempt \in Attempts /\ job[j].outcome \in Outcomes
      BY <1>7, <1>j DEF RecordAgain, RefundJob
    <2> QED BY <1>7, <2>1, RecordAgrees DEF RecordAgain
  <1> QED BY <1>1, <1>2, <1>3, <1>4, <1>5, <1>6, <1>7

LEMMA AgreedStep ==
  ASSUME Agreed, Checkouts, [Next]_vars
  PROVE  Agreed'
  <1>0. RowTypes /\ MollieTypes
    BY AgreedParts
  <1>1. CASE UNCHANGED vars
    BY <1>0, <1>1, RequestMoves DEF vars, rows, mollie, MollieTypes
  <1>2. CASE ByHand
    BY <1>2, HandMovesAgree
  <1>3. CASE GrantStep
    BY <1>0, <1>3, RequestMoves DEF GrantStep, Disconnect, GrantEnds, Reconnect, MollieTypes
  <1>4. CASE MollieStep \/ \E j \in Jobs, a \in Attempts : AskCheckout(j, a)
    BY <1>4, MollieMovesAgree
  <1>5. CASE \E a \in Attempts : SyncUnknown(a)
    BY <1>0, <1>5, RequestMoves DEF SyncUnknown, MollieTypes
  <1>6. CASE \E i \in Intents : IntentAges(i)
    BY <1>6, RowMovesAgree
  <1>7. ASSUME NEW j \in Jobs, StoreAttempt(j) \/ Lose(j)
        PROVE  Agreed'
    BY <1>7, RowMovesAgree, JobMovesAgree
  <1>8. ASSUME NEW j \in Jobs, SyncStep(j)
        PROVE  Agreed'
    BY <1>8, RowMovesAgree, JobMovesAgree DEF SyncStep
  <1>9. ASSUME NEW j \in Jobs, RefundStep(j)
        PROVE  Agreed'
    BY <1>9, RowMovesAgree, JobMovesAgree, MollieMovesAgree DEF RefundStep
  <1> QED BY <1>1, <1>2, <1>3, <1>4, <1>5, <1>6, <1>7, <1>8, <1>9 DEF Next

\* A step that stores no attempt and begins no checkout or sync.
LEMMA CheckoutsKept ==
  ASSUME Checkouts, job \in [Jobs -> JobType],
         \A a \in Attempts : attempt'[a].status = "none" <=> attempt[a].status = "none",
         \A j \in Jobs : job'[j].do \in {"checkout", "sync"} =>
           /\ job[j].do = job'[j].do /\ job[j].attempt = job'[j].attempt
           /\ job[j].do = "sync" => job[j].paid = job'[j].paid
  PROVE  Checkouts'
  <1>1. \A j \in Jobs : job[j].do \in {"checkout", "sync"} => job[j].attempt \in Attempts
    BY JobOf DEF CheckoutJob, SyncJob
  <1>2. ASSUME NEW j \in Jobs
        PROVE  /\ job'[j].do = "checkout" => attempt'[job'[j].attempt].status = "none"
               /\ job'[j].do = "sync" => attempt'[job'[j].attempt].status # "none" /\ job'[j].paid # "none"
    BY <1>1 DEF Checkouts
  <1>3. ASSUME NEW j \in Jobs, NEW k \in Jobs, job'[j].do = "checkout", job'[k].do = "checkout",
               job'[j].attempt = job'[k].attempt
        PROVE  j = k
    BY <1>3 DEF Checkouts
  <1> QED BY <1>2, <1>3 DEF Checkouts

LEMMA CheckoutsStep ==
  ASSUME Agreed, Checkouts, [Next]_vars
  PROVE  Checkouts'
  <1>0. RowTypes /\ MollieTypes /\ job \in [Jobs -> JobType] /\ AllJobsAgree
    BY AgreedParts
  <1>j. \A j \in Jobs : /\ job[j] \in JobType /\ JobAgrees(job[j], refund, money, disputed, returned)
                        /\ job[j].do = "checkout" => job[j] \in CheckoutJob
                        /\ job[j].do = "sync" => job[j] \in SyncJob
                        /\ job[j].do = "refund" => job[j] \in RefundJob
    BY <1>0, JobOf DEF AllJobsAgree
  <1>1. CASE UNCHANGED <<attempt, job>>
    BY <1>0, <1>1, CheckoutsKept
  <1>2. ASSUME NEW j \in Jobs, NEW a \in Attempts, AskCheckout(j, a)
        PROVE  Checkouts'
    <2>1. attempt[a].status = "none" /\ money[a] = "none" /\ attempt' = attempt
      BY <1>0, <1>2 DEF AskCheckout, RowTypes, AttemptsAgree, rows
    <2>2. job' = [job EXCEPT ![j] = [do |-> "checkout", attempt |-> a]]
      BY <1>2 DEF AskCheckout
    <2>3. \A k \in Jobs : job[k].do = "checkout" => job[k].attempt # a
      BY <1>j, <2>1 DEF JobAgrees
    <2> QED BY <1>0, <2>1, <2>2, <2>3 DEF Checkouts
  <1>3. ASSUME NEW j \in Jobs, StoreAttempt(j)
        PROVE  Checkouts'
    <2> DEFINE a == job[j].attempt
    <2>1. a \in Attempts /\ job[j].do = "checkout"
      BY <1>3, <1>j, JobKinds DEF StoreAttempt
    <2>2. attempt' = attempt \/ attempt' = [attempt EXCEPT ![a].status = "open"]
      BY <1>3 DEF StoreAttempt
    <2>3. job' = [job EXCEPT ![j] = Idle] /\ Idle.do = "idle"
      BY <1>3, JobKinds DEF StoreAttempt
    <2>4. \A b \in Attempts : /\ b # a => attempt'[b] = attempt[b]
                              /\ attempt[b].status # "none" => attempt'[b].status # "none"
      <3>1. CASE attempt' = attempt
        BY <3>1
      <3>2. CASE attempt' = [attempt EXCEPT ![a].status = "open"]
        BY <1>0, <3>2 DEF RowTypes, AttemptRow
      <3> QED BY <2>2, <3>1, <3>2
    <2>5. \A k \in Jobs : job[k].do \in {"checkout", "sync"} => job[k].attempt \in Attempts
      BY <1>j DEF CheckoutJob, SyncJob
    <2>6. \A k \in Jobs : k # j /\ job[k].do = "checkout" => job[k].attempt # a
      BY <2>1 DEF Checkouts
    <2>7. \A k \in Jobs : /\ job'[k].do \in {"checkout", "sync"} => job'[k] = job[k] /\ k # j
      BY <1>0, <2>3
    <2>8. ASSUME NEW k \in Jobs
          PROVE  /\ job'[k].do = "checkout" => attempt'[job'[k].attempt].status = "none"
                 /\ job'[k].do = "sync" => attempt'[job'[k].attempt].status # "none" /\ job'[k].paid # "none"
      BY <2>4, <2>5, <2>6, <2>7 DEF Checkouts
    <2> QED BY <2>7, <2>8 DEF Checkouts
  <1>4. ASSUME NEW j \in Jobs, NEW a \in Attempts, NEW hook \in BOOLEAN, SyncFetch(j, a, hook)
        PROVE  Checkouts'
    <2>1. attempt[a].status # "none" /\ money[a] # "none" /\ attempt' = attempt
      BY <1>0, <1>4 DEF SyncFetch, RowTypes, AttemptsAgree, rows
    <2>2. /\ job'[j].do = "sync" /\ job'[j].attempt = a /\ job'[j].paid = money[a]
          /\ \A k \in Jobs : k # j => job'[k] = job[k]
      BY <1>0, <1>4 DEF SyncFetch
    <2> QED BY <2>1, <2>2 DEF Checkouts
  <1>5. ASSUME NEW j \in Jobs, SyncApply(j)
        PROVE  Checkouts'
    <2> DEFINE s == job[j]
               D == DecideSync(Start, s)
    <2>1. PICK st \in Transacted(s) :
            attempt' = IF st.dashboard THEN [st.attempt EXCEPT ![s.attempt].settled = FALSE] ELSE st.attempt
      BY <1>5, SyncTransacted
    <2>2. s \in SyncJob /\ s.attempt \in Attempts /\ ~SettlesTwice(s) /\ attempt[s.attempt].status # "none"
          /\ s.paid # "none"
      BY <1>5, SyncTransacted DEF SyncJob, SyncApply, Checkouts
    <2>3. \/ D.attempt = attempt
          \/ TakenBack(s) \/ NotYetPaid(s) \/ Settles(s) \/ PaidTwice(s)
      BY <2>2, DecideCases
    <2>6. D.attempt \in [Attempts -> AttemptRow]
      BY <2>2, DecideCases DEF State
    <2> HIDE DEF s, D
    <2>4. \A a \in Attempts : D.attempt[a].status = "none" <=> attempt[a].status = "none"
      <3>1. CASE D.attempt = attempt
        BY <3>1
      <3>2. CASE TakenBack(s)
        BY <1>0, <2>2, <3>2 DEF TakenBack, RowTypes, AttemptRow, D
      <3>3. CASE NotYetPaid(s)
        BY <1>0, <2>2, <3>3 DEF NotYetPaid, RowTypes, AttemptRow, D
      <3>4. CASE Settles(s)
        BY <1>0, <2>2, <3>4 DEF Settles, RowTypes, AttemptRow, D
      <3>5. CASE PaidTwice(s)
        BY <1>0, <2>2, <3>5 DEF PaidTwice, RowTypes, AttemptRow, D
      <3> QED BY <2>3, <3>1, <3>2, <3>3, <3>4, <3>5
    <2>5. \A a \in Attempts : attempt'[a].status = D.attempt[a].status
      <3>1. st.attempt = D.attempt \/ st.attempt = [D.attempt EXCEPT ![s.attempt].settled = FALSE]
        BY <2>1 DEF Transacted, D
      <3>2. st.attempt \in [Attempts -> AttemptRow] /\ \A a \in Attempts : st.attempt[a].status = D.attempt[a].status
        <4>1. CASE st.attempt = D.attempt
          BY <2>6, <4>1
        <4>2. CASE st.attempt = [D.attempt EXCEPT ![s.attempt].settled = FALSE]
          <5>1. st.attempt \in [Attempts -> AttemptRow]
            BY <2>2, <2>6, <4>2 DEF AttemptRow
          <5>2. ASSUME NEW a \in Attempts PROVE st.attempt[a].status = D.attempt[a].status
            BY <2>2, <2>6, <4>2 DEF AttemptRow
          <5> QED BY <5>1, <5>2
        <4> QED BY <3>1, <4>1, <4>2
      <3> QED BY <2>1, <3>2 DEF AttemptRow
    <2>7. job' = [job EXCEPT ![j] = Idle] /\ Idle.do = "idle"
      BY <1>5, JobKinds DEF SyncApply
    <2>8. \A k \in Jobs : job'[k].do \in {"checkout", "sync"} => job'[k] = job[k]
      BY <1>0, <2>7
    <2> QED BY <1>0, <2>4, <2>5, <2>8, CheckoutsKept
  <1>6. ASSUME NEW j \in Jobs, StoreAnswer(j)
        PROVE  Checkouts'
    <2>1. attempt' = attempt \/ attempt' = [attempt EXCEPT ![job[j].attempt].settled = FALSE]
      BY <1>6, AnswerReports DEF Reports, Completed
    <2>2. \A a \in Attempts : attempt'[a].status = attempt[a].status
      <3>1. CASE attempt' = attempt
        BY <3>1
      <3>2. CASE attempt' = [attempt EXCEPT ![job[j].attempt].settled = FALSE]
        BY <1>0, <3>2 DEF RowTypes, AttemptRow
      <3> QED BY <2>1, <3>1, <3>2
    <2>3. job' = [job EXCEPT ![j] = Idle] /\ Idle.do = "idle"
      BY <1>6, JobKinds DEF StoreAnswer
    <2>4. \A k \in Jobs : job'[k].do \in {"checkout", "sync"} => job'[k] = job[k]
      BY <1>0, <2>3
    <2> QED BY <1>0, <2>2, <2>4, CheckoutsKept
  <1>7. ASSUME attempt' = attempt, NEW j \in Jobs, NEW x, job' = [job EXCEPT ![j] = x],
               x.do \in {"checkout", "sync"} => /\ job[j].do = x.do /\ job[j].attempt = x.attempt
                                                /\ job[j].do = "sync" => job[j].paid = x.paid
        PROVE  Checkouts'
    <2>1. \A k \in Jobs : job'[k] = IF k = j THEN x ELSE job[k]
      BY <1>0, <1>7
    <2> HIDE <1>7
    <2> QED BY <1>0, <1>7, <2>1, CheckoutsKept
  <1>8. ASSUME NEW j \in Jobs, SyncReadRows(j)
        PROVE  Checkouts'
    <2>1. PICK link \in {"locked", "free"} : job' = [job EXCEPT ![j].link = link]
      BY <1>8 DEF SyncReadRows
    <2>2. job' = [job EXCEPT ![j] = [job[j] EXCEPT !.link = link]] /\ attempt' = attempt /\ job[j] \in SyncJob
      BY <1>0, <1>8, <1>j, <2>1 DEF SyncReadRows, rows
    <2> DEFINE x == [job[j] EXCEPT !.link = link]
    <2>3. x.do = job[j].do /\ x.attempt = job[j].attempt /\ x.paid = job[j].paid
      BY <2>2 DEF SyncJob
    <2>4. job' = [job EXCEPT ![j] = x]
      BY <2>2
    <2> HIDE DEF x
    <2> QED BY <1>7, <2>2, <2>3, <2>4
  <1>9. ASSUME NEW j \in Jobs, SyncAborts(j) \/ Lose(j)
        PROVE  Checkouts'
    BY <1>7, <1>9, JobKinds DEF SyncAborts, Lose, rows
  <1>10. ASSUME NEW j \in Jobs, NEW i \in Intents, NEW outcome,
                \E a \in Attempts : RecordIntent(j, a, i, outcome) \/ FindStale(j, a, i, outcome)
         PROVE  Checkouts'
    <2>1. PICK a \in Attempts : RecordIntent(j, a, i, outcome) \/ FindStale(j, a, i, outcome)
      BY <1>10
    <2> DEFINE x == IF RecordIntent(j, a, i, outcome) THEN Asked(a, i, outcome, "call", FALSE)
                    ELSE Asked(a, i, outcome, "unsure", TRUE)
    <2>2. attempt' = attempt /\ job' = [job EXCEPT ![j] = x]
      BY <2>1 DEF RecordIntent, FindStale, Record, rows
    <2>3. x.do = "refund"
      BY DEF Asked
    <2> HIDE DEF x
    <2> QED BY <1>7, <2>2, <2>3
  <1>11. ASSUME NEW j \in Jobs, NEW i \in Intents, RecordAgain(j, i)
         PROVE  Checkouts'
    <2> DEFINE x == Asked(job[j].attempt, i, job[j].outcome, "call", FALSE)
    <2>1. attempt' = attempt /\ job' = [job EXCEPT ![j] = x] /\ x.do = "refund"
      BY <1>11 DEF RecordAgain, Record, Asked
    <2> HIDE DEF x
    <2> QED BY <1>7, <2>1
  <1>12. ASSUME NEW j \in Jobs,
                \/ \E r \in MollieRefunds \cup {None}, answered \in BOOLEAN : CallMollie(j, r, answered)
                \/ NoToken(j) \/ ListRefunds(j) \/ MatchRefund(j) \/ Withdraw(j)
         PROVE  Checkouts'
    <2>1. attempt' = attempt /\ job[j] \in RefundJob
      BY <1>12, <1>j DEF CallMollie, NoToken, ListRefunds, MatchRefund, Withdraw, rows
    <2>2. \E x : x.do \notin {"checkout", "sync"} /\ job' = [job EXCEPT ![j] = x]
      <3>1. ASSUME NEW r \in MollieRefunds \cup {None}, NEW answered \in BOOLEAN, CallMollie(j, r, answered)
            PROVE  \E x : x.do \notin {"checkout", "sync"} /\ job' = [job EXCEPT ![j] = x]
        <4> DEFINE x == [job[j] EXCEPT
                           !.at = IF ~answered THEN "unsure" ELSE IF r = None THEN "withdraw" ELSE "answer",
                           !.found = IF answered THEN r ELSE None,
                           !.status = IF answered /\ r # None THEN "live" ELSE "none"]
        <4>1. x.do = "refund"
          BY <2>1 DEF RefundJob
        <4>2. job' = [job EXCEPT ![j] = x]
          BY <1>0, <3>1 DEF CallMollie
        <4> QED BY <4>1, <4>2
      <3>2. CASE NoToken(j)
        <4> DEFINE x == [job[j] EXCEPT !.at = "withdraw"]
        <4>1. x.do = "refund" /\ job' = [job EXCEPT ![j] = x]
          BY <1>0, <2>1, <3>2 DEF RefundJob, NoToken
        <4> QED BY <4>1
      <3>3. CASE ListRefunds(j)
        <4> DEFINE list == [r \in MollieRefunds |->
                              IF returned[r].of = job[j].attempt THEN returned[r].status ELSE "none"]
                   x == [job[j] EXCEPT !.at = "listed", !.list = list]
        <4>1. job' = [job EXCEPT ![j] = x]
          BY <1>0, <3>3 DEF ListRefunds
        <4> HIDE DEF list
        <4>2. x.do = "refund"
          BY <2>1 DEF RefundJob
        <4> QED BY <4>1, <4>2
      <3>4. CASE MatchRefund(j)
        <4>1. ASSUME NEW r, job' = [job EXCEPT ![j].at = "answer", ![j].found = r,
                                              ![j].status = job[j].list[r], ![j].list = <<>>]
              PROVE  \E x : x.do \notin {"checkout", "sync"} /\ job' = [job EXCEPT ![j] = x]
          <5> DEFINE x == [job[j] EXCEPT !.at = "answer", !.found = r, !.status = job[j].list[r], !.list = <<>>]
          <5>1. x.do = "refund" /\ job' = [job EXCEPT ![j] = x]
            BY <1>0, <2>1, <4>1 DEF RefundJob
          <5> QED BY <5>1
        <4>2. CASE job' = [job EXCEPT ![j].at = "withdraw", ![j].list = <<>>]
          <5> DEFINE x == [job[j] EXCEPT !.at = "withdraw", !.list = <<>>]
          <5>1. x.do = "refund" /\ job' = [job EXCEPT ![j] = x]
            BY <1>0, <2>1, <4>2 DEF RefundJob
          <5> QED BY <5>1
        <4> QED BY <3>4, <4>1, <4>2 DEF MatchRefund
      <3>5. CASE Withdraw(j)
        <4> DEFINE x == IF job[j].stale THEN [job[j] EXCEPT !.at = "again"] ELSE Idle
        <4>1. x.do \notin {"checkout", "sync"}
          BY <2>1, JobKinds DEF RefundJob
        <4>2. job' = [job EXCEPT ![j] = x]
          BY <1>0, <3>5 DEF Withdraw
        <4> QED BY <4>1, <4>2
      <3> QED BY <1>12, <3>1, <3>2, <3>3, <3>4, <3>5
    <2> QED BY <1>7, <2>1, <2>2
  <1>13. ASSUME NEW j \in Jobs, SyncStep(j)
         PROVE  Checkouts'
    BY <1>4, <1>5, <1>8, <1>9, <1>13 DEF SyncStep
  <1>14. ASSUME NEW j \in Jobs, RefundStep(j)
         PROVE  Checkouts'
    BY <1>6, <1>10, <1>11, <1>12, <1>14 DEF RefundStep
  <1>15. CASE \/ UNCHANGED vars \/ ByHand \/ GrantStep \/ MollieStep
              \/ \E a \in Attempts : SyncUnknown(a)
              \/ \E i \in Intents : IntentAges(i)
    BY <1>1, <1>15
       DEF vars, rows, ByHand, MarkPaid, MarkNotCharged, ReopenPayment, GrantStep, Disconnect, GrantEnds, Reconnect,
           MollieStep, MollieMoves, MollieDisputes, MollieRefundMoves, DashboardRefund, SyncUnknown, IntentAges
  <1> QED BY <1>2, <1>3, <1>9, <1>13, <1>14, <1>15 DEF Next

\* Every variable holds a value of its type, and the rows, the requests and Mollie agree,
\* whatever is lost, late or repeated.
THEOREM RowsAlwaysAgree == Spec => [](Agreed /\ Checkouts)
  <1>1. Init => Agreed /\ Checkouts
    BY AgreedAtFirst, JobKinds DEF Init, Checkouts
  <1>2. Agreed /\ Checkouts /\ [Next]_vars => (Agreed /\ Checkouts)'
    BY AgreedStep, CheckoutsStep
  <1> QED BY <1>1, <1>2, PTL DEF Spec

THEOREM TypeCorrect == Spec => []TypeOK
  <1>1. Agreed => TypeOK
    BY DEF Agreed
  <1> QED BY <1>1, RowsAlwaysAgree, PTL

-------------------------------------------------------------------------------
(* The ledger.                                                             *)

LEMMA ShareMoves ==
  ASSUME NEW a \in Attempts, \A b \in Attempts \ {a} : Share'[b] = Share[b]
  PROVE  Share' = [Share EXCEPT ![a] = Share'[a]]
  <1>1. Share = [b \in Attempts |-> Share[b]] /\ Share' = [b \in Attempts |-> Share'[b]]
    BY DEF Share
  <1> HIDE DEF Share
  <1> QED BY <1>1

\* One attempt's row changes, and what its money counts as moves the ledger's way.
LEMMA ShareMovesOn ==
  ASSUME NEW a \in Attempts, \A b \in Attempts \ {a} : Share'[b] = Share[b],
         \/ Share'[a] = Share[a]
         \/ Share[a] = "unpaid" /\ Share'[a] = "settles" /\ \A b \in Attempts : Share[b] # "settles"
         \/ Share[a] = "unpaid" /\ Share'[a] = "duplicate"
         \/ Share[a] # "returned" /\ Share'[a] = "returned"
  PROVE  [Ledger!Next]_Share
  <1>1. Share' = [Share EXCEPT ![a] = Share'[a]]
    BY ShareMoves
  <1>2. Share = [b \in Attempts |-> Share[b]]
    BY DEF Share
  <1> HIDE DEF Share
  <1>3. CASE Share'[a] = Share[a]
    BY <1>1, <1>2, <1>3
  <1>4. CASE Share[a] = "unpaid" /\ Share'[a] = "settles" /\ \A b \in Attempts : Share[b] # "settles"
    BY <1>1, <1>4 DEF Ledger!Next, Ledger!Settle
  <1>5. CASE Share[a] = "unpaid" /\ Share'[a] = "duplicate"
    BY <1>1, <1>5 DEF Ledger!Next, Ledger!Duplicate
  <1>6. CASE Share[a] # "returned" /\ Share'[a] = "returned"
    BY <1>1, <1>6 DEF Ledger!Next, Ledger!Return
  <1> QED BY <1>3, <1>4, <1>5, <1>6

LEMMA ReleaseShare ==
  ASSUME Agreed, NEW a \in Attempts, UNCHANGED duplicate,
         attempt' = attempt \/ attempt' = [attempt EXCEPT ![a].settled = FALSE]
  PROVE  [Ledger!Next]_Share
  <1>1. attempt \in [Attempts -> AttemptRow] /\ AttemptsAgree(attempt, duplicate, money, disputed)
    BY DEF Agreed, TypeOK, AttemptRow
  <1>2. CASE attempt' = attempt
    BY <1>2 DEF Share
  <1>3. CASE attempt' = [attempt EXCEPT ![a].settled = FALSE]
    <2>1. \A b \in Attempts \ {a} : Share'[b] = Share[b]
      BY <1>1, <1>3 DEF Share
    <2>2. Share'[a] = Share[a] \/ (Share[a] # "returned" /\ Share'[a] = "returned")
      BY <1>1, <1>3 DEF Share, AttemptsAgree, AttemptRow
    <2> QED BY <2>1, <2>2, ShareMovesOn
  <1> QED BY <1>2, <1>3

LEMMA SyncShare ==
  ASSUME Agreed, NEW j \in Jobs, SyncApply(j)
  PROVE  [Ledger!Next]_Share
  <1> DEFINE s == job[j]
             a == s.attempt
             D == DecideSync(Start, s)
  <1>1. attempt \in [Attempts -> AttemptRow] /\ AttemptsAgree(attempt, duplicate, money, disputed)
    BY DEF Agreed, TypeOK, AttemptRow
  <1>2. PICK st \in Transacted(s) :
          /\ duplicate' = st.duplicate
          /\ attempt' = IF st.dashboard THEN [st.attempt EXCEPT ![a].settled = FALSE] ELSE st.attempt
    BY SyncTransacted
  <1>3. s \in SyncJob /\ a \in Attempts /\ ~SettlesTwice(s)
    BY SyncTransacted DEF SyncJob
  <1>4. /\ D \in State
        /\ \/ D.attempt = attempt /\ D.duplicate = duplicate
           \/ TakenBack(s) \/ NotYetPaid(s) \/ Settles(s) \/ PaidTwice(s)
    BY <1>3, DecideCases
  <1> HIDE DEF s, a, D
  <1>5. /\ D.attempt \in [Attempts -> AttemptRow] /\ duplicate' = D.duplicate
        /\ attempt' = D.attempt \/ attempt' = [D.attempt EXCEPT ![a].settled = FALSE]
    <2>1. D.attempt \in [Attempts -> AttemptRow] /\ duplicate' = D.duplicate
      BY <1>2, <1>4 DEF State, Transacted, D
    <2>2. CASE st.attempt = D.attempt
      BY <1>2, <2>1, <2>2
    <2>3. CASE st.attempt = [D.attempt EXCEPT ![a].settled = FALSE]
      BY <1>2, <1>3, <2>1, <2>3 DEF AttemptRow
    <2> QED BY <1>2, <2>1, <2>2, <2>3 DEF Transacted, D, a
  <1>6. /\ attempt' \in [Attempts -> AttemptRow]
        /\ \A b \in Attempts \ {a} : attempt'[b] = D.attempt[b]
        /\ attempt'[a].status = D.attempt[a].status /\ attempt'[a].chargedBack = D.attempt[a].chargedBack
        /\ attempt'[a].settled => D.attempt[a].settled
        /\ attempt'[a] = D.attempt[a] \/ ~attempt'[a].settled
    <2>1. CASE attempt' = D.attempt
      BY <1>5, <2>1
    <2>2. CASE attempt' = [D.attempt EXCEPT ![a].settled = FALSE]
      BY <1>3, <1>5, <2>2 DEF AttemptRow
    <2> QED BY <1>5, <2>1, <2>2
  <1>7. CASE D.attempt = attempt /\ D.duplicate = duplicate
    BY <1>3, <1>5, <1>7, ReleaseShare
  <1>8. CASE TakenBack(s)
    <2>1. /\ D.attempt = [attempt EXCEPT ![a] = [status |-> "paid", settled |-> FALSE, chargedBack |-> TRUE]]
          /\ D.duplicate = duplicate
      BY <1>8 DEF TakenBack, a, D
    <2>2. \A b \in Attempts \ {a} : Share'[b] = Share[b]
      BY <1>1, <1>5, <1>6, <2>1 DEF Share
    <2>3. Share'[a] = "returned"
      BY <1>1, <1>3, <1>5, <1>6, <2>1 DEF Share
    <2> QED BY <1>3, <2>2, <2>3, ShareMovesOn
  <1>9. CASE NotYetPaid(s)
    <2>1. /\ D.attempt = [attempt EXCEPT ![a].status = s.paid] /\ D.duplicate = duplicate
          /\ attempt[a].status # "paid" /\ s.paid # "paid"
      BY <1>9 DEF NotYetPaid, a, D
    <2>2. \A b \in Attempts \ {a} : Share'[b] = Share[b]
      BY <1>1, <1>5, <1>6, <2>1 DEF Share
    <2>3. Share'[a] = Share[a]
      BY <1>1, <1>3, <1>5, <1>6, <2>1 DEF Share, AttemptRow
    <2> QED BY <1>3, <2>2, <2>3, ShareMovesOn
  <1>10. CASE Settles(s)
    <2>1. /\ D.attempt = [attempt EXCEPT ![a].status = "paid", ![a].settled = TRUE] /\ D.duplicate = duplicate
          /\ attempt[a].status # "paid" /\ \A b \in Attempts : ~attempt[b].settled
      BY <1>10 DEF Settles, a, D
    <2>2. \A b \in Attempts \ {a} : Share'[b] = Share[b]
      BY <1>1, <1>5, <1>6, <2>1 DEF Share
    <2>3. Share[a] = "unpaid" /\ Share'[a] \in {"settles", "returned"}
      BY <1>1, <1>3, <1>5, <1>6, <2>1 DEF Share, AttemptRow, AttemptsAgree
    <2>4. \A b \in Attempts : Share[b] # "settles"
      BY <2>1 DEF Share
    <2> QED BY <1>3, <2>2, <2>3, <2>4, ShareMovesOn
  <1>11. CASE PaidTwice(s)
    <2>1. /\ D.attempt = [attempt EXCEPT ![a].status = "paid"] /\ D.duplicate = duplicate \cup {a}
          /\ attempt[a].status # "paid"
      BY <1>11 DEF PaidTwice, a, D
    <2>2. \A b \in Attempts \ {a} : Share'[b] = Share[b]
      BY <1>1, <1>5, <1>6, <2>1 DEF Share
    <2>3. Share[a] = "unpaid" /\ Share'[a] = "duplicate"
      BY <1>1, <1>3, <1>5, <1>6, <2>1 DEF Share, AttemptRow, AttemptsAgree
    <2> QED BY <1>3, <2>2, <2>3, ShareMovesOn
  <1> QED BY <1>4, <1>7, <1>8, <1>9, <1>10, <1>11

\* Every step is a step of the ledger, or changes nothing it shows.
LEMMA LedgerStep ==
  ASSUME Agreed, Checkouts, [Next]_vars
  PROVE  [Ledger!Next]_Share
  <1>1. CASE UNCHANGED <<attempt, duplicate>>
    BY <1>1 DEF Share
  <1>2. ASSUME NEW j \in Jobs, StoreAttempt(j)
        PROVE  [Ledger!Next]_Share
    <2>1. job[j].attempt \in Attempts /\ attempt[job[j].attempt].status = "none"
      BY <1>2, JobOf, JobKinds DEF StoreAttempt, Checkouts, Agreed, TypeOK
    <2>2. /\ attempt' = attempt \/ attempt' = [attempt EXCEPT ![job[j].attempt].status = "open"]
          /\ UNCHANGED duplicate
      BY <1>2 DEF StoreAttempt
    <2>3. attempt \in [Attempts -> AttemptRow]
      BY DEF Agreed, TypeOK, AttemptRow
    <2>4. CASE attempt' = attempt
      BY <1>1, <2>2, <2>4
    <2>5. CASE attempt' = [attempt EXCEPT ![job[j].attempt].status = "open"]
      <3>1. \A b \in Attempts : Share'[b] = Share[b]
        BY <2>1, <2>2, <2>3, <2>5 DEF Share, AttemptRow
      <3> QED BY <2>1, <3>1, ShareMovesOn
    <2> QED BY <2>2, <2>4, <2>5
  <1>3. ASSUME NEW j \in Jobs, StoreAnswer(j)
        PROVE  [Ledger!Next]_Share
    <2>1. attempt' = attempt \/ attempt' = [attempt EXCEPT ![job[j].attempt].settled = FALSE]
      BY <1>3, AnswerReports DEF Reports, Completed
    <2>2. job[j].attempt \in Attempts /\ UNCHANGED duplicate
      BY <1>3, JobOf DEF StoreAnswer, Agreed, TypeOK, RefundJob
    <2> QED BY <2>1, <2>2, ReleaseShare
  <1>4. ASSUME NEW j \in Jobs, SyncStep(j)
        PROVE  [Ledger!Next]_Share
    <2>1. CASE SyncApply(j)
      BY <2>1, SyncShare
    <2>2. CASE ~SyncApply(j)
      BY <1>1, <1>4, <2>2 DEF SyncStep, SyncFetch, SyncReadRows, SyncAborts, rows
    <2> QED BY <2>1, <2>2
  <1>5. ASSUME NEW j \in Jobs, RefundStep(j)
        PROVE  [Ledger!Next]_Share
    <2>1. CASE StoreAnswer(j)
      BY <1>3, <2>1
    <2>2. CASE ~StoreAnswer(j)
      BY <1>1, <1>5, <2>2
         DEF RefundStep, RecordIntent, FindStale, CallMollie, NoToken, ListRefunds, MatchRefund, Withdraw, RecordAgain, rows
    <2> QED BY <2>1, <2>2
  <1>6. CASE \/ UNCHANGED vars \/ ByHand \/ GrantStep \/ MollieStep
             \/ \E j \in Jobs, a \in Attempts : AskCheckout(j, a)
             \/ \E j \in Jobs : Lose(j)
             \/ \E a \in Attempts : SyncUnknown(a)
             \/ \E i \in Intents : IntentAges(i)
    BY <1>1, <1>6
       DEF vars, rows, ByHand, MarkPaid, MarkNotCharged, ReopenPayment, GrantStep, Disconnect, GrantEnds, Reconnect,
           MollieStep, MollieMoves, MollieDisputes, MollieRefundMoves, DashboardRefund, AskCheckout, Lose, SyncUnknown,
           IntentAges
  <1> QED BY <1>2, <1>4, <1>5, <1>6 DEF Next

\* A behaviour in one setting is a behaviour of the system.
LEMMA MCStep == [MCNext]_mcVars => [Next]_vars
  BY DEF MCNext, mcVars, vars

\* The payment, its attempts, syncs and refunds implement the ledger: an attempt's money
\* settles at most once and beside no other's, and never counts again once given back.
THEOREM LedgerImplemented == MCSpec => ImplementsLedger
  <1>1. MCInit => Init /\ Ledger!Init
    BY DEF MCInit, Init, Ledger!Init, Share
  <1>2. Init => Agreed /\ Checkouts
    BY AgreedAtFirst, JobKinds DEF Init, Checkouts
  <1>3. Agreed /\ Checkouts /\ [MCNext]_mcVars => (Agreed /\ Checkouts)'
    BY MCStep, AgreedStep, CheckoutsStep
  <1>4. Agreed /\ Checkouts /\ [MCNext]_mcVars => [Ledger!Next]_Share
    BY MCStep, LedgerStep
  <1> QED BY <1>1, <1>2, <1>3, <1>4, PTL DEF MCSpec, ImplementsLedger, Ledger!Spec

-------------------------------------------------------------------------------
(* What becomes of the refunds asked for, when no call outlives the age at *)
(* which its intent may be adopted.                                        *)

\* A refund made in Mollie's dashboard that has ended stands alone: fair.yoga has made no
\* refund of the same payment.  A sync may adopt such a refund into the intent whose own refund it has
\* no answer about, and then ignores the other one (adoptionFor).
DashboardEndedAlone ==
  \A q, r \in MollieRefunds :
    (/\ returned[q].of = returned[r].of
     /\ ~returned[q].ours /\ returned[q].status = "ended")
    => ~returned[r].ours

Own(x) == x.do = "refund" /\ ~x.stale

Pending(rfd, i) == rfd[i].status = "live" /\ rfd[i].mid = None

Aged(rfd, i) == rfd[i].old \/ rfd[i].status = "gone"

OwnAgrees(x, rfd) ==
  /\ x.do = "refund" /\ ~x.stale => Pending(rfd, x.intent) /\ ~rfd[x.intent].old /\ x.at # "again"
  /\ x.do = "refund" /\ x.stale => Aged(rfd, x.intent) /\ x.at # "call"
  /\ x.do = "sync" => \A i \in x.old : Aged(rfd, i)

\* The request that recorded an intent is alone with it: no sync may adopt into it and no
\* other request reconciles it.
OwnsIntent ==
  /\ \A j \in Jobs : OwnAgrees(job[j], refund)
  /\ \A j, k \in Jobs : Own(job[j]) /\ Own(job[k]) /\ job[j].intent = job[k].intent => j = k

\* What a request does with Mollie's answer or with its list.
LEMMA RequestTurns ==
  ASSUME Agreed, NEW j \in Jobs,
         \/ \E r \in MollieRefunds \cup {None}, answered \in BOOLEAN : CallMollie(j, r, answered)
         \/ NoToken(j) \/ ListRefunds(j) \/ MatchRefund(j)
  PROVE  /\ job[j] \in RefundJob /\ RefundAgrees(job[j], refund, returned)
         /\ job'[j].do = "refund" /\ job'[j].attempt = job[j].attempt /\ job'[j].intent = job[j].intent
         /\ job'[j].stale = job[j].stale /\ job'[j].at \notin {"call", "again"}
         /\ \A k \in Jobs : k # j => job'[k] = job[k]
         /\ UNCHANGED rows
         /\ job'[j].at = "withdraw" =>
              \/ job[j].at = "call" /\ returned' = returned
              \/ job[j].at = "listed" /\ Picks(job[j].list) = {} /\ returned' = returned
         /\ job'[j].at = "listed" =>
              /\ returned' = returned
              /\ \A r \in MollieRefunds : returned[r].of = job[j].attempt => job'[j].list[r] = returned[r].status
  <1>0. job \in [Jobs -> JobType] /\ JobAgrees(job[j], refund, money, disputed, returned)
    BY AgreedParts DEF AllJobsAgree
  <1>1. job[j].do = "refund" /\ UNCHANGED rows
    BY DEF CallMollie, NoToken, ListRefunds, MatchRefund
  <1>2. job[j] \in RefundJob /\ RefundAgrees(job[j], refund, returned)
    BY <1>0, <1>1, JobOf DEF JobAgrees
  <1>3. ASSUME NEW r \in MollieRefunds \cup {None}, NEW answered \in BOOLEAN, CallMollie(j, r, answered)
        PROVE  /\ job'[j].do = "refund" /\ job'[j].attempt = job[j].attempt /\ job'[j].intent = job[j].intent
               /\ job'[j].stale = job[j].stale /\ \A k \in Jobs : k # j => job'[k] = job[k]
               /\ job'[j].at \in {"unsure", "withdraw", "answer"}
               /\ job'[j].at = "withdraw" => job[j].at = "call" /\ returned' = returned
    BY <1>0, <1>2, <1>3 DEF CallMollie, RefundJob
  <1>4. CASE NoToken(j)
    BY <1>0, <1>1, <1>2, <1>4 DEF NoToken, RefundJob, mollie
  <1>5. CASE ListRefunds(j)
    BY <1>0, <1>1, <1>2, <1>5 DEF ListRefunds, RefundJob, mollie
  <1>6. CASE MatchRefund(j)
    <2>1. ASSUME NEW r, job' = [job EXCEPT ![j].at = "answer", ![j].found = r,
                                          ![j].status = job[j].list[r], ![j].list = <<>>]
          PROVE  /\ job'[j].do = "refund" /\ job'[j].attempt = job[j].attempt /\ job'[j].intent = job[j].intent
                 /\ job'[j].stale = job[j].stale /\ \A k \in Jobs : k # j => job'[k] = job[k]
                 /\ job'[j].at = "answer"
      BY <1>0, <1>2, <2>1 DEF RefundJob
    <2>2. ASSUME job' = [job EXCEPT ![j].at = "withdraw", ![j].list = <<>>]
          PROVE  /\ job'[j].do = "refund" /\ job'[j].attempt = job[j].attempt /\ job'[j].intent = job[j].intent
                 /\ job'[j].stale = job[j].stale /\ \A k \in Jobs : k # j => job'[k] = job[k]
                 /\ job'[j].at = "withdraw"
      BY <1>0, <1>2, <2>2 DEF RefundJob
    <2>3. \/ \E r \in Picks(job[j].list) : job' = [job EXCEPT ![j].at = "answer", ![j].found = r,
                                                         ![j].status = job[j].list[r], ![j].list = <<>>]
          \/ Picks(job[j].list) = {} /\ job' = [job EXCEPT ![j].at = "withdraw", ![j].list = <<>>]
      BY <1>6 DEF MatchRefund
    <2>4. job[j].at = "listed" /\ returned' = returned
      BY <1>6 DEF MatchRefund, mollie
    <2> QED BY <1>1, <1>2, <2>1, <2>2, <2>3, <2>4
  <1> QED BY <1>1, <1>2, <1>3, <1>4, <1>5, <1>6

\* A step that leaves the other requests' intents alone, and changes one request at most.
LEMMA OwnsKept ==
  ASSUME Agreed, OwnsIntent,
         \A i \in Intents : Aged(refund, i) => Aged(refund', i),
         NEW S \in SUBSET Jobs,
         \A k \in Jobs \ S : job'[k] = job[k] /\ (Own(job[k]) => refund'[job[k].intent] = refund[job[k].intent]),
         \A j \in S : /\ OwnAgrees(job'[j], refund')
                      /\ \A k \in Jobs : Own(job'[j]) /\ Own(job'[k]) /\ job'[j].intent = job'[k].intent => j = k
  PROVE  OwnsIntent'
  <1>1. ASSUME NEW k \in Jobs PROVE OwnAgrees(job'[k], refund')
    <2>1. CASE k \in S
      BY <2>1
    <2>2. CASE k \notin S
      <3>1. job'[k] = job[k] /\ OwnAgrees(job[k], refund)
        BY <2>2 DEF OwnsIntent
      <3>2. /\ job[k].do = "refund" => job[k].intent \in Intents
            /\ job[k].do = "sync" => job[k].old \subseteq Intents
        BY JobOf DEF Agreed, TypeOK, RefundJob, SyncJob
      <3> QED BY <2>2, <3>1, <3>2 DEF OwnAgrees, Own, Pending
    <2> QED BY <2>1, <2>2
  <1>2. ASSUME NEW j \in Jobs, NEW k \in Jobs, Own(job'[j]), Own(job'[k]), job'[j].intent = job'[k].intent
        PROVE  j = k
    <2>1. CASE j \in S \/ k \in S
      BY <1>2, <2>1
    <2>2. CASE j \notin S /\ k \notin S
      BY <1>2, <2>2 DEF OwnsIntent
    <2> QED BY <2>1, <2>2
  <1> QED BY <1>1, <1>2 DEF OwnsIntent

LEMMA OwnsStep ==
  ASSUME Agreed, OwnsIntent, ~SlowCalls, [Next]_vars
  PROVE  OwnsIntent'
  <1>0. RowTypes /\ MollieTypes /\ job \in [Jobs -> JobType] /\ AllJobsAgree
    BY AgreedParts
  <1>j. \A j \in Jobs : /\ job[j] \in JobType /\ JobAgrees(job[j], refund, money, disputed, returned)
                        /\ job[j].do = "sync" => job[j] \in SyncJob
                        /\ job[j].do = "refund" => job[j] \in RefundJob
    BY <1>0, JobOf DEF AllJobsAgree
  <1>i. Idle.do = "idle"
    BY JobKinds
  <1>1. CASE UNCHANGED <<refund, job>>
    BY <1>1 DEF OwnsIntent
  <1>2. ASSUME NEW j \in Jobs, UNCHANGED refund,
               \A k \in Jobs : k # j => job'[k] = job[k],
               OwnAgrees(job'[j], refund),
               Own(job'[j]) => Own(job[j]) /\ job'[j].intent = job[j].intent
        PROVE  OwnsIntent'
    <2>1. \A k \in Jobs : Own(job'[j]) /\ Own(job'[k]) /\ job'[j].intent = job'[k].intent => j = k
      BY <1>2 DEF OwnsIntent
    <2> DEFINE S == {j}
    <2>2. S \in SUBSET Jobs /\ \A k \in S : k = j
      OBVIOUS
    <2> HIDE DEF S
    <2>3. \A k \in Jobs \ S : job'[k] = job[k]
      <3>1. j \in S
        BY DEF S
      <3> QED BY <1>2, <3>1
    <2> QED BY <1>2, <2>1, <2>2, <2>3, OwnsKept
  <1>3. ASSUME NEW j \in Jobs, job' = [job EXCEPT ![j] = Idle], UNCHANGED refund
        PROVE  OwnsIntent'
    BY <1>0, <1>2, <1>3, <1>i DEF OwnAgrees, Own
  <1>4. ASSUME NEW j \in Jobs, NEW a \in Attempts, AskCheckout(j, a)
        PROVE  OwnsIntent'
    <2>1. job'[j].do = "checkout" /\ UNCHANGED refund /\ \A k \in Jobs : k # j => job'[k] = job[k]
      BY <1>0, <1>4 DEF AskCheckout, rows
    <2> QED BY <1>2, <2>1 DEF OwnAgrees, Own
  <1>5. ASSUME NEW j \in Jobs, NEW a \in Attempts, NEW hook \in BOOLEAN, SyncFetch(j, a, hook)
        PROVE  OwnsIntent'
    <2>1. /\ job'[j].do = "sync" /\ UNCHANGED refund /\ \A k \in Jobs : k # j => job'[k] = job[k]
          /\ job'[j].old = {i \in Intents : refund[i].old}
      BY <1>0, <1>5 DEF SyncFetch, rows
    <2> QED BY <1>2, <2>1 DEF OwnAgrees, Own, Aged
  <1>6. ASSUME NEW j \in Jobs, SyncReadRows(j)
        PROVE  OwnsIntent'
    <2>1. PICK link \in {"locked", "free"} : job' = [job EXCEPT ![j].link = link]
      BY <1>6 DEF SyncReadRows
    <2>2. /\ job'[j].do = "sync" /\ job[j].do = "sync" /\ UNCHANGED refund /\ job'[j].old = job[j].old
          /\ \A k \in Jobs : k # j => job'[k] = job[k]
      BY <1>0, <1>6, <1>j, <2>1 DEF SyncReadRows, rows, SyncJob
    <2> QED BY <1>2, <2>2 DEF OwnAgrees, Own, OwnsIntent
  <1>7. ASSUME NEW j \in Jobs,
               \/ \E r \in MollieRefunds \cup {None}, answered \in BOOLEAN : CallMollie(j, r, answered)
               \/ NoToken(j) \/ ListRefunds(j) \/ MatchRefund(j)
        PROVE  OwnsIntent'
    <2>1. /\ job[j].do = "refund" /\ job'[j].do = "refund" /\ job'[j].intent = job[j].intent
          /\ job'[j].stale = job[j].stale /\ job'[j].at \notin {"call", "again"}
          /\ \A k \in Jobs : k # j => job'[k] = job[k]
          /\ UNCHANGED refund
      BY <1>7, RequestTurns, JobKinds DEF rows
    <2> QED BY <1>2, <2>1 DEF OwnAgrees, Own, OwnsIntent
  <1>8. ASSUME NEW j \in Jobs, NEW a \in Attempts, NEW i \in Intents, NEW outcome \in Outcomes,
               FindStale(j, a, i, outcome)
        PROVE  OwnsIntent'
    <2>1. /\ job'[j].do = "refund" /\ job'[j].stale /\ job'[j].intent = i /\ job'[j].at = "unsure"
          /\ UNCHANGED refund /\ \A k \in Jobs : k # j => job'[k] = job[k]
          /\ refund[i].old
      BY <1>0, <1>8 DEF FindStale, rows, Asked
    <2> QED BY <1>2, <2>1 DEF OwnAgrees, Own, Aged
  <1>9. ASSUME NEW j \in Jobs, NEW a \in Attempts, NEW i \in Intents, NEW outcome,
               Record(j, a, i, outcome)
        PROVE  OwnsIntent'
    <2>1. /\ job'[j].do = "refund" /\ ~job'[j].stale /\ job'[j].intent = i /\ job'[j].at = "call"
          /\ \A k \in Jobs : k # j => job'[k] = job[k]
          /\ refund'[i].status = "live" /\ refund'[i].mid = None /\ ~refund'[i].old
          /\ \A k \in Intents : k # i => refund'[k] = refund[k]
          /\ refund[i].status = "none" /\ ~refund[i].old
      BY <1>0, <1>9 DEF Record, Asked, NoRefund, RowTypes
    <2>2. \A k \in Jobs : job[k].do = "refund" => job[k].intent # i
      BY <1>j, <2>1 DEF JobAgrees, RefundAgrees
    <2>3. \A k \in Intents : Aged(refund, k) => Aged(refund', k)
      BY <2>1 DEF Aged
    <2>4. \A k \in Jobs : job[k].do = "refund" => job[k].intent \in Intents
      BY <1>j DEF RefundJob
    <2>5. OwnAgrees(job'[j], refund')
      BY <2>1 DEF OwnAgrees, Pending
    <2> DEFINE S == {j}
    <2>6. S \in SUBSET Jobs /\ (\A k \in S : k = j) /\ j \in S
      OBVIOUS
    <2> HIDE DEF S
    <2>7. \A k \in Jobs \ S : job'[k] = job[k] /\ (Own(job[k]) => refund'[job[k].intent] = refund[job[k].intent])
      BY <2>1, <2>2, <2>4, <2>6 DEF Own
    <2>8. \A k \in Jobs : Own(job'[k]) /\ job'[j].intent = job'[k].intent => j = k
      BY <2>1, <2>2 DEF Own
    <2> QED BY <2>3, <2>5, <2>6, <2>7, <2>8, OwnsKept
  <1>10. ASSUME NEW j \in Jobs, Withdraw(j)
         PROVE  OwnsIntent'
    <2> DEFINE i == job[j].intent
    <2>1. /\ job[j] \in RefundJob /\ RefundAgrees(job[j], refund, returned) /\ job[j].do = "refund"
          /\ job[j].at = "withdraw" /\ i \in Intents
      BY <1>10, <1>j DEF Withdraw, JobAgrees, RefundJob
    <2>2. /\ \A k \in Jobs : k # j => job'[k] = job[k]
          /\ ~job[j].stale => job'[j] = Idle
          /\ job[j].stale => /\ job'[j].do = "refund" /\ job'[j].stale /\ job'[j].intent = i
                             /\ job'[j].at = "again"
      BY <1>0, <1>10, <2>1 DEF Withdraw, RefundJob
    <2>3. /\ \A k \in Intents : k # i => refund'[k] = refund[k]
          /\ refund'[i] = refund[i] \/ refund'[i].status = "gone"
      BY <1>0, <1>10, <2>1 DEF Withdraw, Withdrawn, RowTypes, NoRefund
    <2>4. \A k \in Intents : Aged(refund, k) => Aged(refund', k)
      BY <2>3 DEF Aged
    <2>5. \A k \in Jobs : k # j /\ Own(job[k]) => job[k].intent # i /\ job[k].intent \in Intents
      <3> SUFFICES ASSUME NEW k \in Jobs, k # j, Own(job[k]) PROVE job[k].intent # i /\ job[k].intent \in Intents
        OBVIOUS
      <3>1. job[k].intent \in Intents
        BY <1>j DEF Own, RefundJob
      <3>2. OwnAgrees(job[k], refund) /\ OwnAgrees(job[j], refund)
        BY DEF OwnsIntent
      <3>3. ~(job[k].intent = i /\ ~job[j].stale)
        BY <2>1 DEF OwnsIntent, Own
      <3>4. ~(job[k].intent = i /\ job[j].stale)
        BY <2>1, <3>2 DEF OwnAgrees, Own, Aged, Pending
      <3> QED BY <3>1, <3>3, <3>4
    <2>6. OwnAgrees(job'[j], refund') /\ ~Own(job'[j])
      <3>1. OwnAgrees(job[j], refund)
        BY DEF OwnsIntent
      <3> QED BY <1>i, <2>1, <2>2, <2>4, <3>1 DEF OwnAgrees, Own
    <2> DEFINE S == {j}
    <2>7. S \in SUBSET Jobs /\ (\A k \in S : k = j) /\ j \in S
      OBVIOUS
    <2> HIDE DEF S, i
    <2>8. \A k \in Jobs \ S : job'[k] = job[k] /\ (Own(job[k]) => refund'[job[k].intent] = refund[job[k].intent])
      BY <2>2, <2>3, <2>5, <2>7
    <2> QED BY <2>4, <2>6, <2>7, <2>8, OwnsKept
  <1>11. ASSUME NEW j \in Jobs, StoreAnswer(j)
         PROVE  OwnsIntent'
    <2> DEFINE i == job[j].intent
    <2>1. /\ job[j].do = "refund" /\ i \in Intents
          /\ job' = [job EXCEPT ![j] = Idle]
      BY <1>11, <1>j DEF StoreAnswer, RefundJob
    <2>2. \A k \in Intents : /\ refund'[k].old = refund[k].old
                             /\ refund[k].status = "gone" => refund'[k] = refund[k]
                             /\ k # i => refund'[k] = refund[k]
      <3>1. CASE refund' = refund
        BY <3>1
      <3>2. CASE Reports(payment, attempt, refund, payment', attempt', refund', job[j].attempt,
                         i, job[j].found, job[j].status, returned) /\ refund[i].status = "live"
        BY <1>0, <2>1, <3>2 DEF Reports, RowTypes, RefundRow
      <3> QED BY <1>11, <3>1, <3>2, AnswerReports
    <2>3. \A k \in Intents : Aged(refund, k) => Aged(refund', k)
      BY <2>2 DEF Aged
    <2>5. \A k \in Jobs : k # j /\ Own(job[k]) => job[k].intent # i /\ job[k].intent \in Intents
      <3> SUFFICES ASSUME NEW k \in Jobs, k # j, Own(job[k]) PROVE job[k].intent # i /\ job[k].intent \in Intents
        OBVIOUS
      <3>1. job[k].intent \in Intents
        BY <1>j DEF Own, RefundJob
      <3>2. OwnAgrees(job[k], refund) /\ OwnAgrees(job[j], refund)
        BY DEF OwnsIntent
      <3>3. ~(job[k].intent = i /\ ~job[j].stale)
        BY <2>1 DEF OwnsIntent, Own
      <3>4. ~(job[k].intent = i /\ job[j].stale)
        BY <2>1, <3>2 DEF OwnAgrees, Own, Aged, Pending
      <3> QED BY <3>1, <3>3, <3>4
    <2>6. job'[j] = Idle /\ \A k \in Jobs : k # j => job'[k] = job[k]
      BY <1>0, <2>1
    <2> DEFINE S == {j}
    <2>7. S \in SUBSET Jobs /\ (\A k \in S : k = j) /\ j \in S
      OBVIOUS
    <2> HIDE DEF S, i
    <2>8. \A k \in Jobs \ S : job'[k] = job[k] /\ (Own(job[k]) => refund'[job[k].intent] = refund[job[k].intent])
      BY <2>2, <2>5, <2>6, <2>7
    <2>9. OwnAgrees(job'[j], refund') /\ ~Own(job'[j])
      BY <1>i, <2>6 DEF OwnAgrees, Own
    <2> QED BY <2>3, <2>7, <2>8, <2>9, OwnsKept
  <1>12. ASSUME NEW j \in Jobs, SyncApply(j)
         PROVE  OwnsIntent'
    <2>1. job[j].do = "sync" /\ job'[j] = Idle /\ \A k \in Jobs : k # j => job'[k] = job[k]
      BY <1>0, <1>12 DEF SyncApply
    <2>2. Follows(refund, refund', job[j].old)
      BY <1>12, SyncTransacted DEF Transacted
    <2>3. \A k \in Intents : Aged(refund, k) => Aged(refund', k)
      BY <2>2 DEF Aged, Follows, Written
    <2>4. \A k \in Jobs : Own(job[k]) => refund'[job[k].intent] = refund[job[k].intent]
      <3> SUFFICES ASSUME NEW k \in Jobs, Own(job[k]) PROVE refund'[job[k].intent] = refund[job[k].intent]
        OBVIOUS
      <3>1. job[k].intent \in Intents
        BY <1>j DEF Own, RefundJob
      <3>2. Pending(refund, job[k].intent) /\ ~Aged(refund, job[k].intent)
        BY DEF OwnsIntent, OwnAgrees, Own, Aged, Pending
      <3>3. job[k].intent \notin job[j].old
        BY <2>1, <3>2 DEF OwnsIntent, OwnAgrees
      <3> QED BY <2>2, <3>1, <3>2, <3>3 DEF Follows, Pending
    <2> DEFINE S == {j}
    <2>5. S \in SUBSET Jobs /\ (\A k \in S : k = j) /\ j \in S
      OBVIOUS
    <2> HIDE DEF S
    <2>6. \A k \in Jobs \ S : job'[k] = job[k] /\ (Own(job[k]) => refund'[job[k].intent] = refund[job[k].intent])
      BY <2>1, <2>4, <2>5
    <2>7. OwnAgrees(job'[j], refund') /\ ~Own(job'[j])
      BY <1>i, <2>1 DEF OwnAgrees, Own
    <2> QED BY <2>3, <2>5, <2>6, <2>7, OwnsKept
  <1>13. ASSUME NEW i \in Intents, IntentAges(i)
         PROVE  OwnsIntent'
    <2>1. \A k \in Jobs : Own(job[k]) => job[k].intent # i /\ job[k].intent \in Intents
      BY <1>13, <1>j DEF IntentAges, OwnCall, Own, RefundJob
    <2>2. /\ \A k \in Intents : k # i => refund'[k] = refund[k]
          /\ refund'[i].old /\ job' = job
      BY <1>0, <1>13 DEF IntentAges, RowTypes, RefundRow
    <2>3. \A k \in Intents : Aged(refund, k) => Aged(refund', k)
      BY <2>2 DEF Aged
    <2> DEFINE S == {}
    <2>4. S \in SUBSET Jobs /\ \A k \in S : FALSE
      OBVIOUS
    <2> HIDE DEF S
    <2>5. \A k \in Jobs \ S : job'[k] = job[k] /\ (Own(job[k]) => refund'[job[k].intent] = refund[job[k].intent])
      BY <2>1, <2>2
    <2> QED BY <2>3, <2>4, <2>5, OwnsKept
  <1>14. ASSUME NEW j \in Jobs, StoreAttempt(j) \/ Lose(j)
         PROVE  OwnsIntent'
    BY <1>3, <1>14 DEF StoreAttempt, Lose, rows
  <1>15. ASSUME NEW j \in Jobs, SyncStep(j)
         PROVE  OwnsIntent'
    BY <1>3, <1>5, <1>6, <1>12, <1>15 DEF SyncStep, SyncAborts, rows
  <1>16. ASSUME NEW j \in Jobs, RefundStep(j)
         PROVE  OwnsIntent'
    <2>1. ASSUME NEW i \in Intents, RecordAgain(j, i)
          PROVE  OwnsIntent'
      <3>1. job[j].attempt \in Attempts
        BY <1>j, <2>1 DEF RecordAgain, RefundJob
      <3> QED BY <1>9, <2>1, <3>1 DEF RecordAgain
    <2>2. ASSUME NEW a \in Attempts, NEW i \in Intents, NEW outcome \in Outcomes, RecordIntent(j, a, i, outcome)
          PROVE  OwnsIntent'
      BY <1>9, <2>2 DEF RecordIntent
    <2> QED BY <1>7, <1>8, <1>10, <1>11, <1>16, <2>1, <2>2 DEF RefundStep
  <1>17. CASE \/ UNCHANGED vars \/ ByHand \/ GrantStep \/ MollieStep
              \/ \E a \in Attempts : SyncUnknown(a)
    BY <1>1, <1>17
       DEF vars, rows, ByHand, MarkPaid, MarkNotCharged, ReopenPayment, GrantStep, Disconnect, GrantEnds, Reconnect,
           MollieStep, MollieMoves, MollieDisputes, MollieRefundMoves, DashboardRefund, SyncUnknown
  <1> QED BY <1>4, <1>13, <1>14, <1>15, <1>16, <1>17 DEF Next

-------------------------------------------------------------------------------
\* An attempt has one refund at Mollie that is under way or done.
OneUnderWay(ret) ==
  \A q, r \in MollieRefunds :
    /\ ret[q].of # None /\ ret[q].of = ret[r].of
    /\ ret[q].status # "ended" /\ ret[r].status # "ended"
    => q = r

Foreign(a, ret) == \E f \in MollieRefunds : ret[f].of = a /\ ~ret[f].ours

\* The refunds of fair.yoga's that no row holds.
Unknown(rfd, a, ret) == {r \in MollieRefunds : ret[r].of = a /\ ret[r].ours /\ HeldBy(rfd, r) = {}}

\* Of an attempt nobody refunded in the dashboard, at most one refund of fair.yoga's has no
\* row, and then an intent waits for it.
UnknownAwaited(rfd, ret) ==
  \A a \in Attempts : Foreign(a, ret) \/
    /\ Unknown(rfd, a, ret) # {} => Awaiting(rfd, a) # {}
    /\ \A q, r \in Unknown(rfd, a, ret) : q = r

\* A request gives its intent up only if no refund of fair.yoga's could be it, and has seen
\* every one when it looks for it.
WithdrawOk(x, rfd, ret) ==
  x.do = "refund" /\ Pending(rfd, x.intent) =>
    /\ x.at \in {"call", "withdraw"} => Foreign(x.attempt, ret) \/ Unknown(rfd, x.attempt, ret) = {}
    /\ x.at = "listed" =>
         \A r \in MollieRefunds : ret[r].of = x.attempt /\ ret[r].ours => x.list[r] # "none"

Accounted ==
  /\ OwnsIntent /\ OneUnderWay(returned) /\ UnknownAwaited(refund, returned)
  /\ \A j \in Jobs : WithdrawOk(job[j], refund, returned)

LEMMA ReportKeepsUnknown ==
  ASSUME NEW rfd \in [Intents -> RefundRow], NEW rfd2, NEW ret, NEW a \in Attempts, NEW i \in Intents,
         NEW r \in MollieRefunds,
         ReportedRow(rfd, rfd2, a, i, r, ret), UnknownAwaited(rfd, ret)
  PROVE  /\ UnknownAwaited(rfd2, ret)
         /\ \A b \in Attempts : Unknown(rfd2, b, ret) \subseteq Unknown(rfd, b, ret)
         /\ \A k \in Intents : Pending(rfd2, k) => Pending(rfd, k)
  <1>0. r # None
    BY NoneAssumption
  <1>1. \A q \in MollieRefunds : HeldBy(rfd, q) \subseteq HeldBy(rfd2, q)
    BY NoneAssumption DEF ReportedRow, HeldBy
  <1>2. r \notin {q \in MollieRefunds : HeldBy(rfd2, q) = {}}
    BY DEF ReportedRow, HeldBy
  <1>3. \A b \in Attempts : Unknown(rfd2, b, ret) \subseteq Unknown(rfd, b, ret) \ {r}
    BY <1>1, <1>2 DEF Unknown
  <1>4. \A k \in Intents : Pending(rfd2, k) => Pending(rfd, k)
    BY <1>0 DEF ReportedRow, Pending
  <1>5. ASSUME NEW b \in Attempts, ~Foreign(b, ret)
        PROVE  /\ Unknown(rfd2, b, ret) # {} => Awaiting(rfd2, b) # {}
               /\ \A p, q \in Unknown(rfd2, b, ret) : p = q
    <2>1. \A p, q \in Unknown(rfd2, b, ret) : p = q
      BY <1>3, <1>5 DEF UnknownAwaited
    <2>2. ASSUME Unknown(rfd2, b, ret) # {} PROVE Awaiting(rfd2, b) # {}
      <3>1. PICK q \in Unknown(rfd, b, ret) : q # r
        BY <1>3, <2>2
      <3>2. PICK k \in Intents : rfd[k].of = b /\ Pending(rfd, k)
        BY <1>5, <3>1 DEF UnknownAwaited, Awaiting, Pending
      <3>3. CASE k # i
        BY <3>2, <3>3 DEF ReportedRow, Awaiting, Pending
      <3>4. CASE k = i
        <4>1. b = a /\ ret[r].of = a /\ HeldBy(rfd, r) = {}
          BY <1>0, <3>2, <3>4 DEF ReportedRow, Pending
        <4>2. ret[r].ours
          BY <1>5, <4>1 DEF Foreign
        <4>3. r \in Unknown(rfd, b, ret)
          BY <4>1, <4>2 DEF Unknown
        <4> QED BY <1>5, <3>1, <4>3 DEF UnknownAwaited
      <3> QED BY <3>3, <3>4
    <2> QED BY <2>1, <2>2
  <1> QED BY <1>3, <1>4, <1>5 DEF UnknownAwaited

\* What keeps a request's claim about the refunds of its attempt.
LEMMA WithdrawOnward ==
  ASSUME NEW x, NEW rfd, NEW ret, NEW rfd2, NEW ret2, WithdrawOk(x, rfd, ret),
         Pending(rfd2, x.intent) => Pending(rfd, x.intent),
         Unknown(rfd2, x.attempt, ret2) \subseteq Unknown(rfd, x.attempt, ret),
         Foreign(x.attempt, ret) => Foreign(x.attempt, ret2),
         \A r \in MollieRefunds : ret2[r].of = x.attempt /\ ret2[r].ours => ret[r].of = x.attempt /\ ret[r].ours
  PROVE  WithdrawOk(x, rfd2, ret2)
  BY DEF WithdrawOk

\* What a sync keeps of it: its refunds are told of one after the other.
LEMMA SyncAccounts ==
  ASSUME Agreed, UnknownAwaited(refund, returned), NEW j \in Jobs, SyncApply(j)
  PROVE  /\ UnknownAwaited(refund', returned)
         /\ \A b \in Attempts : Unknown(refund', b, returned) \subseteq Unknown(refund, b, returned)
         /\ \A k \in Intents : Pending(refund', k) => Pending(refund, k)
  <1> DEFINE s == job[j]
             G == {st \in Transacted(s) :
                     /\ UnknownAwaited(st.refund, returned)
                     /\ \A b \in Attempts : Unknown(st.refund, b, returned) \subseteq Unknown(refund, b, returned)
                     /\ \A k \in Intents : Pending(st.refund, k) => Pending(refund, k)}
  <1>1. s \in SyncJob /\ SyncAgrees(s, money, disputed, returned) /\ ~SettlesTwice(s)
    BY SyncTransacted
  <1>2. DecideSync(Start, s) \in Transacted(s) /\ DecideSync(Start, s).refund = refund
    BY <1>1, DecidedTransacted, DecideCases
  <1>3. ASSUME NEW st \in G, NEW r \in MollieRefunds, s.returned[r] # "none"
        PROVE  ApplyRefund(st, s, r) \in G
    <2> DEFINE n == ApplyRefund(st, s, r)
    <2>1. /\ n \in Transacted(s)
          /\ Unmoved(st, n, s, r) \/ \E i \in Intents : Told(st, n, s, i, r)
      BY <1>1, <1>3, ApplyTransacted
    <2>2. /\ st \in Transacted(s) /\ UnknownAwaited(st.refund, returned)
          /\ \A b \in Attempts : Unknown(st.refund, b, returned) \subseteq Unknown(refund, b, returned)
          /\ \A k \in Intents : Pending(st.refund, k) => Pending(refund, k)
      OBVIOUS
    <2> HIDE DEF n
    <2>3. CASE Unmoved(st, n, s, r)
      BY <2>1, <2>2, <2>3 DEF Unmoved, n
    <2>4. ASSUME NEW i \in Intents, Told(st, n, s, i, r)
          PROVE  n \in G
      <3>1. /\ st.refund \in [Intents -> RefundRow] /\ RowsAgree(st.attempt, st.refund, returned)
            /\ s.attempt \in Attempts /\ s.returned[r] \in RefundStages
        BY <1>1, <2>2 DEF Transacted, State, SyncJob
      <3>2. Reports(st.payment, st.attempt, st.refund, n.payment, n.attempt, n.refund,
                    s.attempt, i, r, s.returned[r], returned)
        BY <2>4 DEF Told
      <3>3. ReportedRow(st.refund, n.refund, s.attempt, i, r, returned)
        BY <3>1, <3>2, ReportRow
      <3>4. /\ UnknownAwaited(n.refund, returned)
            /\ \A b \in Attempts : Unknown(n.refund, b, returned) \subseteq Unknown(st.refund, b, returned)
            /\ \A k \in Intents : Pending(n.refund, k) => Pending(st.refund, k)
        BY <2>2, <3>1, <3>3, ReportKeepsUnknown
      <3> QED BY <2>1, <2>2, <3>4
    <2> QED BY <2>1, <2>3, <2>4 DEF n
  <1>4. DecideSync(Start, s) \in G
    BY <1>2
  <1>5. G \in SUBSET State
    BY DEF Transacted
  <1> HIDE DEF G
  <1>6. PICK st \in G : refund' = st.refund
    BY <1>3, <1>4, <1>5, SyncApplyIn
  <1> QED BY <1>6 DEF G

LEMMA AnswerAccounts ==
  ASSUME Agreed, UnknownAwaited(refund, returned), NEW j \in Jobs, StoreAnswer(j)
  PROVE  /\ UnknownAwaited(refund', returned)
         /\ \A b \in Attempts : Unknown(refund', b, returned) \subseteq Unknown(refund, b, returned)
         /\ \A k \in Intents : Pending(refund', k) => Pending(refund, k)
  <1> DEFINE x == job[j]
  <1>1. /\ RefundAgrees(x, refund, returned) /\ x.at = "answer" /\ x \in RefundJob
        /\ refund \in [Intents -> RefundRow] /\ RowsAgree(attempt, refund, returned)
    BY JobOf DEF Agreed, TypeOK, StoreAnswer, JobAgrees
  <1>2. x.intent \in Intents /\ x.found \in MollieRefunds /\ x.attempt \in Attempts /\ x.status \in RefundStages
    BY <1>1 DEF RefundAgrees, RefundJob
  <1> HIDE DEF x
  <1>3. CASE refund' = refund
    BY <1>3
  <1>4. CASE Reports(payment, attempt, refund, payment', attempt', refund', x.attempt,
                     x.intent, x.found, x.status, returned)
    <2>1. ReportedRow(refund, refund', x.attempt, x.intent, x.found, returned)
      BY <1>1, <1>2, <1>4, ReportRow
    <2> QED BY <1>1, <1>2, <2>1, ReportKeepsUnknown
  <1> QED BY <1>3, <1>4, AnswerReports DEF x

LEMMA WithdrawAccounts ==
  ASSUME Agreed, UnknownAwaited(refund, returned), NEW j \in Jobs, WithdrawOk(job[j], refund, returned), Withdraw(j)
  PROVE  /\ UnknownAwaited(refund', returned)
         /\ \A b \in Attempts : Unknown(refund', b, returned) \subseteq Unknown(refund, b, returned)
         /\ \A k \in Intents : Pending(refund', k) => Pending(refund, k)
  <1> DEFINE x == job[j]
             i == x.intent
  <1>1. /\ RefundAgrees(x, refund, returned) /\ x.at = "withdraw" /\ x.do = "refund" /\ x \in RefundJob
        /\ refund \in [Intents -> RefundRow]
    BY JobOf DEF Agreed, TypeOK, Withdraw, JobAgrees
  <1>2. i \in Intents
    BY <1>1 DEF RefundJob
  <1> HIDE DEF x, i
  <1>3. CASE refund' = refund
    BY <1>3
  <1>4. CASE refund[i].mid = None /\ refund' = [refund EXCEPT ![i] = [NoRefund EXCEPT !.status = "gone"]]
    <2>1. /\ \A k \in Intents : k # i => refund'[k] = refund[k]
          /\ refund'[i].mid = None /\ refund'[i].status = "gone"
      BY <1>1, <1>2, <1>4 DEF NoRefund
    <2>2. \A r \in MollieRefunds : HeldBy(refund', r) = HeldBy(refund, r)
      BY <1>4, <2>1 DEF HeldBy
    <2>3. \A b \in Attempts : Unknown(refund', b, returned) = Unknown(refund, b, returned)
      BY <2>2 DEF Unknown
    <2>4. \A k \in Intents : Pending(refund', k) => Pending(refund, k)
      BY <2>1 DEF Pending
    <2>5. ASSUME NEW b \in Attempts, ~Foreign(b, returned), Unknown(refund, b, returned) # {}
          PROVE  Awaiting(refund', b) # {}
      <3>1. PICK k \in Intents : refund[k].of = b /\ Pending(refund, k)
        BY <2>5 DEF UnknownAwaited, Awaiting, Pending
      <3>2. k # i
        <4> SUFFICES ASSUME k = i PROVE FALSE
          OBVIOUS
        <4>1. Pending(refund, x.intent) /\ x.attempt = b
          BY <1>1, <3>1 DEF RefundAgrees, Written, Pending, i
        <4>2. Foreign(x.attempt, returned) \/ Unknown(refund, x.attempt, returned) = {}
          BY <1>1, <4>1 DEF WithdrawOk, x
        <4> QED BY <2>5, <4>1, <4>2
      <3> QED BY <2>1, <3>1, <3>2 DEF Awaiting, Pending
    <2>6. UnknownAwaited(refund', returned)
      BY <2>3, <2>5 DEF UnknownAwaited
    <2> QED BY <2>3, <2>4, <2>6
  <1> QED BY <1>3, <1>4 DEF Withdraw, Withdrawn, i, x

\* The request that asks Mollie for a refund is the only one with an intent that waits, and
\* no other refund of its attempt is under way or done.
LEMMA CallIsAlone ==
  ASSUME Agreed, Accounted, DashboardEndedAlone, NEW j \in Jobs, NEW r \in MollieRefunds,
         NEW answered \in BOOLEAN, CallMollie(j, r, answered)
  PROVE  LET a == job[j].attempt
         IN /\ a \in Attempts /\ Awaiting(refund, a) # {}
            /\ \A k \in Jobs : job[k].do = "refund" /\ Pending(refund, job[k].intent) /\ job[k].attempt = a => k = j
            /\ \A q \in MollieRefunds : returned[q].of = a => returned[q].status = "ended"
            /\ Foreign(a, returned) \/ Unknown(refund, a, returned) = {}
            /\ returned' = [returned EXCEPT ![r] = [of |-> a, status |-> "live", ours |-> TRUE]]
            /\ returned[r].of = None
  <1> DEFINE a == job[j].attempt
             i == job[j].intent
  <1>0. RowTypes /\ MollieTypes
    BY AgreedParts
  <1>1. /\ job[j].do = "refund" /\ job[j].at = "call" /\ job[j] \in RefundJob
        /\ RefundAgrees(job[j], refund, returned)
    BY JobOf DEF Agreed, TypeOK, CallMollie, JobAgrees
  <1>2. a \in Attempts /\ i \in Intents
    BY <1>1 DEF RefundJob
  <1>3. Own(job[j]) /\ Pending(refund, i) /\ ~refund[i].old
    BY <1>1 DEF Accounted, OwnsIntent, OwnAgrees, Own
  <1>4. refund[i].of = a
    BY <1>1, <1>3 DEF RefundAgrees, Pending, Written
  <1>5. ASSUME NEW k \in Jobs, job[k].do = "refund", Pending(refund, job[k].intent), job[k].attempt = a
        PROVE  k = j
    <2>1. job[k] \in RefundJob /\ RefundAgrees(job[k], refund, returned)
      BY <1>5, JobOf DEF Agreed, TypeOK, JobAgrees
    <2>2. job[k].intent \in Intents /\ refund[job[k].intent].of = a
      BY <1>5, <2>1 DEF RefundAgrees, Pending, Written, RefundJob
    <2>3. job[k].intent = i
      BY <1>0, <1>2, <1>3, <1>4, <1>5, <2>2 DEF RowTypes, RowsAgree, Pending
    <2>4. OwnAgrees(job[k], refund)
      BY DEF Accounted, OwnsIntent
    <2>5. Own(job[k])
      BY <1>3, <1>5, <2>3, <2>4 DEF OwnAgrees, Own, Aged, Pending
    <2> QED BY <1>3, <2>3, <2>5 DEF Accounted, OwnsIntent
  <1>6. Foreign(a, returned) \/ Unknown(refund, a, returned) = {}
    BY <1>1, <1>3 DEF Accounted, WithdrawOk
  <1>7. r # None
    BY NoneAssumption
  <1>8. /\ returned[r].status = "none"
        /\ ~ \E q \in MollieRefunds : returned[q].of = a /\ ~returned[q].ours /\ returned[q].status # "ended"
        /\ returned' = [returned EXCEPT ![r] = [of |-> a, status |-> "live", ours |-> TRUE]]
    BY <1>7 DEF CallMollie
  <1>9. returned[r].of = None
    BY <1>0, <1>8 DEF MollieTypes, MollieAgrees
  <1>10. ASSUME NEW q \in MollieRefunds, returned[q].of = a, returned[q].status # "ended"
         PROVE  FALSE
    <2>1. returned[q].ours
      BY <1>8, <1>10
    <2>2. CASE HeldBy(refund, q) = {}
      <3>1. q \in Unknown(refund, a, returned)
        BY <1>10, <2>1, <2>2 DEF Unknown
      <3>2. PICK f \in MollieRefunds : returned[f].of = a /\ ~returned[f].ours
        BY <1>6, <3>1 DEF Foreign
      <3>3. returned[f].status = "ended"
        BY <1>8, <3>2
      <3> QED BY <1>10, <2>1, <3>2, <3>3 DEF DashboardEndedAlone
    <2>3. CASE HeldBy(refund, q) # {}
      <3>1. PICK k \in Intents : refund[k].mid = q
        BY <2>3 DEF HeldBy
      <3>2. q # None
        BY NoneAssumption
      <3>3. /\ refund[k].status \in Written /\ refund[k].of = a
            /\ Final(refund[k].status) => returned[q].status = refund[k].status
        BY <1>0, <1>10, <3>1, <3>2 DEF RowTypes, RowsAgree
      <3>4. refund[k].status \in {"live", "refunded"}
        BY <1>10, <3>3 DEF Written, Final
      <3>5. k = i
        BY <1>0, <1>2, <1>3, <1>4, <3>3, <3>4 DEF RowTypes, RowsAgree, Pending
      <3> QED BY <1>3, <3>1, <3>2, <3>5 DEF Pending
    <2> QED BY <2>2, <2>3
  <1>11. Awaiting(refund, a) # {}
    BY <1>2, <1>3, <1>4 DEF Awaiting, Pending
  <1> QED BY <1>2, <1>5, <1>6, <1>8, <1>9, <1>10, <1>11

LEMMA CallAccounts ==
  ASSUME Agreed, Accounted, DashboardEndedAlone, NEW j \in Jobs, NEW r \in MollieRefunds,
         NEW answered \in BOOLEAN, CallMollie(j, r, answered)
  PROVE  /\ OneUnderWay(returned') /\ UnknownAwaited(refund', returned')
         /\ \A k \in Jobs : WithdrawOk(job'[k], refund', returned')
  <1> DEFINE a == job[j].attempt
  <1>0. MollieTypes
    BY AgreedParts
  <1>1. /\ a \in Attempts /\ Awaiting(refund, a) # {}
        /\ \A k \in Jobs : job[k].do = "refund" /\ Pending(refund, job[k].intent) /\ job[k].attempt = a => k = j
        /\ \A q \in MollieRefunds : returned[q].of = a => returned[q].status = "ended"
        /\ Foreign(a, returned) \/ Unknown(refund, a, returned) = {}
        /\ returned' = [returned EXCEPT ![r] = [of |-> a, status |-> "live", ours |-> TRUE]]
        /\ returned[r].of = None
    BY CallIsAlone
  <1>2. /\ job'[j].do = "refund" /\ job'[j].attempt = a /\ job'[j].intent = job[j].intent
        /\ job'[j].at \notin {"withdraw", "call", "listed"}
        /\ \A k \in Jobs : k # j => job'[k] = job[k]
        /\ UNCHANGED rows
    <2>1. r # None
      BY NoneAssumption
    <2>2. job \in [Jobs -> JobType] /\ job[j] \in RefundJob
      BY JobOf DEF Agreed, TypeOK, CallMollie
    <2> QED BY <2>1, <2>2 DEF CallMollie, RefundJob
  <1> HIDE DEF a
  <1>3. /\ refund' = refund /\ returned'[r].of = a /\ returned'[r].ours
        /\ \A q \in MollieRefunds : q # r => returned'[q] = returned[q]
        /\ a # None
    BY <1>0, <1>1, <1>2, NoneAssumption DEF MollieTypes, rows
  <1>4. OneUnderWay(returned')
    BY <1>1, <1>3 DEF Accounted, OneUnderWay
  <1>5. \A b \in Attempts : Foreign(b, returned) => Foreign(b, returned')
    BY <1>1, <1>3, NoneAssumption DEF Foreign
  <1>6. \A b \in Attempts : Unknown(refund, b, returned') \subseteq Unknown(refund, b, returned) \cup (IF b = a THEN {r} ELSE {})
    BY <1>1, <1>3 DEF Unknown
  <1>7. UnknownAwaited(refund', returned')
    <2>1. ASSUME NEW b \in Attempts, ~Foreign(b, returned')
          PROVE  /\ Unknown(refund, b, returned') # {} => Awaiting(refund, b) # {}
                 /\ \A p, q \in Unknown(refund, b, returned') : p = q
      <3>1. ~Foreign(b, returned)
        BY <1>5, <2>1
      <3>2. CASE b = a
        BY <1>1, <1>6, <3>1, <3>2
      <3>3. CASE b # a
        BY <1>6, <3>1, <3>3 DEF Accounted, UnknownAwaited
      <3> QED BY <3>2, <3>3
    <2> QED BY <1>3, <2>1 DEF UnknownAwaited
  <1>8. ASSUME NEW k \in Jobs PROVE WithdrawOk(job'[k], refund', returned')
    <2>1. CASE k = j
      BY <1>2, <2>1 DEF WithdrawOk
    <2>2. CASE k # j /\ (job[k].do # "refund" \/ ~Pending(refund, job[k].intent))
      BY <1>2, <1>3, <2>2 DEF WithdrawOk
    <2>3. CASE k # j /\ job[k].do = "refund" /\ Pending(refund, job[k].intent)
      <3>1. job[k].attempt # a /\ job[k].attempt \in Attempts
        BY <1>1, <2>3, JobOf DEF Agreed, TypeOK, RefundJob
      <3>2. WithdrawOk(job[k], refund, returned)
        BY DEF Accounted
      <3>3. Unknown(refund, job[k].attempt, returned') \subseteq Unknown(refund, job[k].attempt, returned)
        BY <1>6, <3>1
      <3>4. \A q \in MollieRefunds : returned'[q].of = job[k].attempt /\ returned'[q].ours
                                     => returned[q].of = job[k].attempt /\ returned[q].ours
        BY <1>3, <3>1
      <3>5. WithdrawOk(job[k], refund, returned')
        BY <1>5, <3>1, <3>2, <3>3, <3>4, WithdrawOnward
      <3> QED BY <1>2, <1>3, <2>3, <3>5
    <2> QED BY <2>1, <2>2, <2>3
  <1> QED BY <1>4, <1>7, <1>8

\* What Mollie does leaves of it: the same requests and rows.
LEMMA MollieAccounts ==
  ASSUME Agreed, Accounted, MollieStep
  PROVE  /\ OneUnderWay(returned') /\ UnknownAwaited(refund', returned')
         /\ \A k \in Jobs : WithdrawOk(job'[k], refund', returned')
  <1>0. MollieTypes /\ refund' = refund /\ job' = job
    BY AgreedParts
       DEF MollieStep, MollieMoves, MollieDisputes, MollieRefundMoves, DashboardRefund, rows
  <1>1. CASE returned' = returned
    BY <1>0, <1>1 DEF Accounted
  <1>2. ASSUME NEW r \in MollieRefunds, NEW to \in {"refunded", "ended"}, MollieRefundMoves(r, to)
        PROVE  /\ OneUnderWay(returned') /\ UnknownAwaited(refund', returned')
               /\ \A k \in Jobs : WithdrawOk(job'[k], refund', returned')
    <2>1. \A q \in MollieRefunds :
            /\ returned'[q].of = returned[q].of /\ returned'[q].ours = returned[q].ours
            /\ returned'[q].status # "ended" => returned[q].status # "ended"
      BY <1>0, <1>2 DEF MollieRefundMoves, MollieTypes, MollieRefund
    <2>2. \A a \in Attempts : /\ Foreign(a, returned') <=> Foreign(a, returned)
                              /\ Unknown(refund, a, returned') = Unknown(refund, a, returned)
      BY <2>1 DEF Foreign, Unknown
    <2>3. OneUnderWay(returned')
      BY <2>1 DEF OneUnderWay, Accounted
    <2>4. UnknownAwaited(refund', returned')
      BY <1>0, <2>2 DEF UnknownAwaited, Accounted
    <2>5. ASSUME NEW k \in Jobs, job[k].do = "refund" PROVE WithdrawOk(job[k], refund, returned')
      <3>1. job[k].attempt \in Attempts
        BY <2>5, JobOf DEF Agreed, TypeOK, RefundJob
      <3>2. WithdrawOk(job[k], refund, returned)
        BY DEF Accounted
      <3> QED BY <2>1, <2>2, <3>1, <3>2, WithdrawOnward
    <2> QED BY <1>0, <2>3, <2>4, <2>5 DEF WithdrawOk
  <1>3. ASSUME NEW r \in MollieRefunds, NEW a \in Attempts, DashboardRefund(r, a)
        PROVE  /\ OneUnderWay(returned') /\ UnknownAwaited(refund', returned')
               /\ \A k \in Jobs : WithdrawOk(job'[k], refund', returned')
    <2>0. a # None
      BY NoneAssumption
    <2>1. /\ returned'[r].of = a /\ ~returned'[r].ours /\ returned[r].of = None
          /\ \A q \in MollieRefunds : q # r => returned'[q] = returned[q]
          /\ \A q \in MollieRefunds : returned[q].of = a => returned[q].status = "ended"
      BY <1>0, <1>3 DEF DashboardRefund, MollieTypes, MollieAgrees
    <2>2. \A b \in Attempts : /\ Foreign(b, returned) => Foreign(b, returned')
                              /\ Unknown(refund, b, returned') \subseteq Unknown(refund, b, returned)
      BY <2>1, NoneAssumption DEF Foreign, Unknown
    <2>3. OneUnderWay(returned')
      BY <2>1 DEF OneUnderWay, Accounted
    <2>4. UnknownAwaited(refund', returned')
      <3>1. UnknownAwaited(refund, returned)
        BY DEF Accounted
      <3>2. ASSUME NEW b \in Attempts, ~Foreign(b, returned')
            PROVE  /\ Unknown(refund, b, returned') # {} => Awaiting(refund, b) # {}
                   /\ \A p, q \in Unknown(refund, b, returned') : p = q
        <4>1. /\ Unknown(refund, b, returned) # {} => Awaiting(refund, b) # {}
              /\ \A p, q \in Unknown(refund, b, returned) : p = q
          BY <2>2, <3>1, <3>2 DEF UnknownAwaited
        <4> QED BY <2>2, <4>1
      <3> QED BY <1>0, <3>2 DEF UnknownAwaited
    <2>5. ASSUME NEW k \in Jobs, job[k].do = "refund" PROVE WithdrawOk(job[k], refund, returned')
      <3>1. job[k].attempt \in Attempts
        BY <2>5, JobOf DEF Agreed, TypeOK, RefundJob
      <3>2. WithdrawOk(job[k], refund, returned)
        BY DEF Accounted
      <3>3. \A q \in MollieRefunds : returned'[q].of = job[k].attempt /\ returned'[q].ours
                                     => returned[q].of = job[k].attempt /\ returned[q].ours
        BY <2>1
      <3> QED BY <2>2, <3>1, <3>2, <3>3, WithdrawOnward
    <2> QED BY <1>0, <2>3, <2>4, <2>5 DEF WithdrawOk
  <1> QED BY <1>1, <1>2, <1>3 DEF MollieStep, MollieMoves, MollieDisputes

\* A new intent waits alone, and no refund of fair.yoga's is without a row.
LEMMA RecordAccounts ==
  ASSUME Agreed, Accounted, NEW j \in Jobs, NEW a \in Attempts, NEW i \in Intents, NEW outcome,
         Record(j, a, i, outcome), returned' = returned
  PROVE  /\ UnknownAwaited(refund', returned')
         /\ \A k \in Jobs : WithdrawOk(job'[k], refund', returned')
  <1>0. RowTypes /\ job \in [Jobs -> JobType] /\ AllJobsAgree
    BY AgreedParts
  <1>1. /\ job'[j].do = "refund" /\ job'[j].attempt = a /\ job'[j].intent = i /\ job'[j].at = "call"
        /\ \A k \in Jobs : k # j => job'[k] = job[k]
        /\ refund'[i].status = "live" /\ refund'[i].mid = None /\ refund'[i].of = a
        /\ \A k \in Intents : k # i => refund'[k] = refund[k]
        /\ refund[i].status = "none" /\ refund[i].mid = None
        /\ ~LiveRefund(a)
    BY <1>0 DEF Record, Asked, NoRefund, RowTypes
  <1>2. \A r \in MollieRefunds : HeldBy(refund', r) = HeldBy(refund, r)
    BY <1>1 DEF HeldBy
  <1>3. \A b \in Attempts : Unknown(refund', b, returned) = Unknown(refund, b, returned)
    BY <1>2 DEF Unknown
  <1>4. Awaiting(refund, a) = {}
    BY <1>1 DEF LiveRefund, Awaiting
  <1>5. Foreign(a, returned) \/ Unknown(refund, a, returned) = {}
    BY <1>4 DEF Accounted, UnknownAwaited
  <1>6. \A b \in Attempts : Awaiting(refund, b) \subseteq Awaiting(refund', b)
    BY <1>1 DEF Awaiting
  <1>7. UnknownAwaited(refund', returned)
    <2>1. UnknownAwaited(refund, returned)
      BY DEF Accounted
    <2>2. ASSUME NEW b \in Attempts, ~Foreign(b, returned)
          PROVE  /\ Unknown(refund', b, returned) # {} => Awaiting(refund', b) # {}
                 /\ \A p, q \in Unknown(refund', b, returned) : p = q
      <3>1. /\ Unknown(refund, b, returned) # {} => Awaiting(refund, b) # {}
            /\ \A p, q \in Unknown(refund, b, returned) : p = q
        BY <2>1, <2>2 DEF UnknownAwaited
      <3> QED BY <1>3, <1>6, <3>1
    <2> QED BY <2>2 DEF UnknownAwaited
  <1>8. ASSUME NEW k \in Jobs PROVE WithdrawOk(job'[k], refund', returned)
    <2>1. CASE k = j
      BY <1>1, <1>3, <1>5, <2>1 DEF WithdrawOk
    <2>2. CASE k # j /\ job[k].do # "refund"
      BY <1>1, <2>2 DEF WithdrawOk
    <2>3. CASE k # j /\ job[k].do = "refund"
      <3>1. job[k] \in RefundJob /\ RefundAgrees(job[k], refund, returned)
        BY <1>0, <2>3, JobOf DEF AllJobsAgree, JobAgrees
      <3>2. job[k].intent \in Intents /\ job[k].intent # i /\ job[k].attempt \in Attempts
        BY <1>1, <3>1 DEF RefundAgrees, RefundJob
      <3>3. Pending(refund', job[k].intent) => Pending(refund, job[k].intent)
        BY <1>1, <3>2 DEF Pending
      <3>4. WithdrawOk(job[k], refund, returned)
        BY DEF Accounted
      <3>5. Unknown(refund', job[k].attempt, returned) \subseteq Unknown(refund, job[k].attempt, returned)
        BY <1>3, <3>2
      <3>6. WithdrawOk(job[k], refund', returned)
        BY <3>3, <3>4, <3>5, WithdrawOnward
      <3> QED BY <1>1, <2>3, <3>6
    <2> QED BY <2>1, <2>2, <2>3
  <1> QED BY <1>7, <1>8

\* A request that goes on without Mollie making a refund.
LEMMA TurnAccounts ==
  ASSUME Agreed, Accounted, NEW j \in Jobs, returned' = returned,
         \/ \E r \in MollieRefunds \cup {None}, answered \in BOOLEAN : CallMollie(j, r, answered)
         \/ NoToken(j) \/ ListRefunds(j) \/ MatchRefund(j)
  PROVE  WithdrawOk(job'[j], refund, returned)
  <1>0. MollieAgrees(returned)
    BY DEF Agreed
  <1>1. /\ job[j] \in RefundJob
        /\ job'[j].do = "refund" /\ job'[j].attempt = job[j].attempt /\ job'[j].intent = job[j].intent
        /\ job'[j].at # "call"
        /\ job'[j].at = "withdraw" =>
             \/ job[j].at = "call"
             \/ job[j].at = "listed" /\ Picks(job[j].list) = {}
        /\ job'[j].at = "listed" =>
             \A r \in MollieRefunds : returned[r].of = job[j].attempt => job'[j].list[r] = returned[r].status
    BY RequestTurns
  <1>2. WithdrawOk(job[j], refund, returned) /\ job[j].do = "refund" /\ job[j].attempt \in Attempts
    BY <1>1 DEF Accounted, RefundJob
  <1> SUFFICES ASSUME Pending(refund, job[j].intent)
               PROVE  /\ job'[j].at = "withdraw" =>
                           Foreign(job[j].attempt, returned) \/ Unknown(refund, job[j].attempt, returned) = {}
                      /\ job'[j].at = "listed" =>
                           \A r \in MollieRefunds :
                             returned[r].of = job[j].attempt /\ returned[r].ours => job'[j].list[r] # "none"
    BY <1>1 DEF WithdrawOk
  <1>3. CASE job[j].at = "call"
    BY <1>0, <1>1, <1>2, <1>3, NoneAssumption DEF WithdrawOk, MollieAgrees
  <1>4. CASE job'[j].at = "listed"
    BY <1>0, <1>1, <1>2, <1>4, NoneAssumption DEF MollieAgrees
  <1>5. CASE job'[j].at = "withdraw" /\ job[j].at = "listed" /\ Picks(job[j].list) = {}
    <2>1. \A r \in MollieRefunds :
            returned[r].of = job[j].attempt /\ returned[r].ours => job[j].list[r] # "none"
      BY <1>2, <1>5 DEF WithdrawOk
    <2>2. Unheld(job[j].list) = {}
      BY <1>5 DEF Picks
    <2>3. DOMAIN job[j].list = MollieRefunds
      BY <1>1, <1>5, JobOf DEF Agreed, JobAgrees, RefundAgrees, RefundJob
    <2>4. Unknown(refund, job[j].attempt, returned) = {}
      BY <2>1, <2>2, <2>3 DEF Unknown, Unheld
    <2> QED BY <1>5, <2>4
  <1> QED BY <1>1, <1>3, <1>4, <1>5

LEMMA AccountedStep ==
  ASSUME Agreed, Accounted, DashboardEndedAlone, ~SlowCalls, [Next]_vars
  PROVE  Accounted'
  <1>0. RowTypes /\ job \in [Jobs -> JobType] /\ Idle.do = "idle"
    BY AgreedParts, JobKinds
  <1>j. /\ OwnsIntent' /\ OneUnderWay(returned) /\ UnknownAwaited(refund, returned)
        /\ \A k \in Jobs : /\ WithdrawOk(job[k], refund, returned)
                           /\ job[k].do = "refund" => job[k] \in RefundJob /\ job[k].attempt \in Attempts
    BY <1>0, OwnsStep, JobOf DEF Accounted, RefundJob
  <1>1. ASSUME returned' = returned, UnknownAwaited(refund', returned),
               \A b \in Attempts : Unknown(refund', b, returned) \subseteq Unknown(refund, b, returned),
               \A i \in Intents : Pending(refund', i) => Pending(refund, i),
               NEW k \in Jobs, job'[k] = job[k]
        PROVE  WithdrawOk(job'[k], refund', returned')
    <2>1. CASE job[k].do = "refund"
      <3>1. job[k].intent \in Intents /\ job[k].attempt \in Attempts /\ WithdrawOk(job[k], refund, returned)
        BY <1>j, <2>1 DEF RefundJob
      <3>2. WithdrawOk(job[k], refund', returned)
        BY <1>1, <3>1, WithdrawOnward
      <3> QED BY <1>1, <3>2
    <2>2. CASE job[k].do # "refund"
      BY <1>1, <2>2 DEF WithdrawOk
    <2> QED BY <2>1, <2>2
  <1>2. ASSUME returned' = returned, UnknownAwaited(refund', returned),
               \A b \in Attempts : Unknown(refund', b, returned) \subseteq Unknown(refund, b, returned),
               \A i \in Intents : Pending(refund', i) => Pending(refund, i),
               \A k \in Jobs : job'[k] = job[k] \/ WithdrawOk(job'[k], refund', returned)
        PROVE  Accounted'
    <2>1. \A k \in Jobs : WithdrawOk(job'[k], refund', returned')
      BY <1>1, <1>2
    <2> QED BY <1>j, <1>2, <2>1 DEF Accounted
  <1>3. ASSUME returned' = returned, refund' = refund,
               \A k \in Jobs : job'[k] = job[k] \/ WithdrawOk(job'[k], refund, returned)
        PROVE  Accounted'
    BY <1>j, <1>2, <1>3
  <1>4. ASSUME NEW j \in Jobs, returned' = returned, refund' = refund, job' = [job EXCEPT ![j] = Idle]
        PROVE  Accounted'
    BY <1>0, <1>3, <1>4 DEF WithdrawOk
  <1>5. CASE UNCHANGED vars \/ ByHand \/ GrantStep \/ \E a \in Attempts : SyncUnknown(a)
    BY <1>3, <1>5
       DEF vars, rows, mollie, ByHand, MarkPaid, MarkNotCharged, ReopenPayment, GrantStep, Disconnect, GrantEnds,
           Reconnect, SyncUnknown
  <1>6. CASE MollieStep
    BY <1>j, <1>6, MollieAccounts DEF Accounted
  <1>7. ASSUME NEW j \in Jobs, NEW a \in Attempts, AskCheckout(j, a)
        PROVE  Accounted'
    BY <1>0, <1>3, <1>7 DEF AskCheckout, rows, WithdrawOk
  <1>8. ASSUME NEW j \in Jobs, StoreAttempt(j) \/ Lose(j) \/ SyncAborts(j)
        PROVE  Accounted'
    BY <1>4, <1>8 DEF StoreAttempt, Lose, SyncAborts, rows, mollie
  <1>9. ASSUME NEW i \in Intents, IntentAges(i)
        PROVE  Accounted'
    <2>1. \A k \in Intents : /\ refund'[k].of = refund[k].of /\ refund'[k].mid = refund[k].mid
                             /\ refund'[k].status = refund[k].status
      BY <1>0, <1>9 DEF IntentAges, RowTypes, RefundRow
    <2>2. (\A r \in MollieRefunds : HeldBy(refund', r) = HeldBy(refund, r))
          /\ (\A b \in Attempts : Awaiting(refund', b) = Awaiting(refund, b))
      BY <2>1 DEF HeldBy, Awaiting
    <2>3. \A b \in Attempts : Unknown(refund', b, returned) = Unknown(refund, b, returned)
      BY <2>2 DEF Unknown
    <2>4. UnknownAwaited(refund', returned)
      BY <1>j, <2>2, <2>3 DEF UnknownAwaited
    <2> QED BY <1>2, <1>9, <2>1, <2>3, <2>4 DEF IntentAges, mollie, Pending
  <1>10. ASSUME NEW j \in Jobs, NEW a \in Attempts, NEW hook \in BOOLEAN, SyncFetch(j, a, hook)
         PROVE  Accounted'
    BY <1>0, <1>3, <1>10 DEF SyncFetch, rows, mollie, WithdrawOk
  <1>11. ASSUME NEW j \in Jobs, SyncReadRows(j)
         PROVE  Accounted'
    <2>1. PICK link \in {"locked", "free"} : job' = [job EXCEPT ![j].link = link]
      BY <1>11 DEF SyncReadRows
    <2>2. job[j] \in SyncJob
      BY <1>0, <1>11, JobOf DEF SyncReadRows
    <2>3. job'[j].do = "sync" /\ \A k \in Jobs : k # j => job'[k] = job[k]
      BY <1>0, <2>1, <2>2 DEF SyncJob
    <2> QED BY <1>3, <1>11, <2>3 DEF SyncReadRows, rows, mollie, WithdrawOk
  <1>12. ASSUME NEW j \in Jobs, SyncApply(j)
         PROVE  Accounted'
    <2>1. returned' = returned /\ job'[j] = Idle /\ \A k \in Jobs : k # j => job'[k] = job[k]
      BY <1>0, <1>12 DEF SyncApply, mollie
    <2>2. \A k \in Jobs : job'[k] = job[k] \/ WithdrawOk(job'[k], refund', returned)
      BY <1>0, <2>1 DEF WithdrawOk
    <2> QED BY <1>j, <1>2, <1>12, <2>1, <2>2, SyncAccounts
  <1>13. ASSUME NEW j \in Jobs, StoreAnswer(j)
         PROVE  Accounted'
    <2>1. returned' = returned /\ job'[j] = Idle /\ \A k \in Jobs : k # j => job'[k] = job[k]
      BY <1>0, <1>13 DEF StoreAnswer, mollie
    <2>2. \A k \in Jobs : job'[k] = job[k] \/ WithdrawOk(job'[k], refund', returned)
      BY <1>0, <2>1 DEF WithdrawOk
    <2> QED BY <1>j, <1>2, <1>13, <2>1, <2>2, AnswerAccounts
  <1>14. ASSUME NEW j \in Jobs, Withdraw(j)
         PROVE  Accounted'
    <2>1. returned' = returned /\ \A k \in Jobs : k # j => job'[k] = job[k]
      BY <1>0, <1>14 DEF Withdraw, mollie
    <2>2. job'[j] = Idle \/ job'[j].at = "again"
      BY <1>0, <1>j, <1>14 DEF Withdraw, RefundJob
    <2>3. \A k \in Jobs : job'[k] = job[k] \/ WithdrawOk(job'[k], refund', returned)
      BY <1>0, <2>1, <2>2 DEF WithdrawOk
    <2> QED BY <1>j, <1>2, <1>14, <2>1, <2>3, WithdrawAccounts
  <1>15. ASSUME NEW j \in Jobs, NEW a \in Attempts, NEW i \in Intents, NEW outcome \in Outcomes,
                FindStale(j, a, i, outcome)
         PROVE  Accounted'
    <2>1. job'[j].at = "unsure" /\ \A k \in Jobs : k # j => job'[k] = job[k]
      BY <1>0, <1>15 DEF FindStale, Asked
    <2> QED BY <1>3, <1>15, <2>1 DEF FindStale, rows, mollie, WithdrawOk
  <1>16. ASSUME NEW j \in Jobs, NEW a \in Attempts, NEW i \in Intents, NEW outcome,
                Record(j, a, i, outcome), returned' = returned
         PROVE  Accounted'
    BY <1>j, <1>16, RecordAccounts DEF Accounted
  <1>17. ASSUME NEW j \in Jobs,
                \/ \E r \in MollieRefunds \cup {None}, answered \in BOOLEAN : CallMollie(j, r, answered)
                \/ NoToken(j) \/ ListRefunds(j) \/ MatchRefund(j)
         PROVE  Accounted'
    <2>1. CASE returned' = returned
      <3>1. WithdrawOk(job'[j], refund, returned)
        BY <1>17, <2>1, TurnAccounts
      <3>2. refund' = refund /\ \A k \in Jobs : k # j => job'[k] = job[k]
        BY <1>17, RequestTurns DEF rows
      <3> QED BY <1>3, <2>1, <3>1, <3>2
    <2>2. CASE returned' # returned
      <3>1. PICK r \in MollieRefunds \cup {None}, answered \in BOOLEAN : CallMollie(j, r, answered)
        BY <1>17, <2>2 DEF NoToken, ListRefunds, MatchRefund, mollie
      <3>2. r \in MollieRefunds
        BY <2>2, <3>1 DEF CallMollie
      <3> QED BY <1>j, <3>1, <3>2, CallAccounts DEF Accounted
    <2> QED BY <2>1, <2>2
  <1>18. ASSUME NEW j \in Jobs, RefundStep(j)
         PROVE  Accounted'
    <2>1. ASSUME NEW i \in Intents, RecordAgain(j, i)
          PROVE  Accounted'
      <3>1. job[j].attempt \in Attempts
        BY <1>j, <2>1 DEF RecordAgain
      <3> QED BY <1>16, <2>1, <3>1 DEF RecordAgain, mollie
    <2>2. ASSUME NEW a \in Attempts, NEW i \in Intents, NEW outcome \in Outcomes, RecordIntent(j, a, i, outcome)
          PROVE  Accounted'
      BY <1>16, <2>2 DEF RecordIntent, mollie
    <2> QED BY <1>13, <1>14, <1>15, <1>17, <1>18, <2>1, <2>2 DEF RefundStep
  <1>19. ASSUME NEW j \in Jobs, SyncStep(j)
         PROVE  Accounted'
    BY <1>8, <1>10, <1>11, <1>12, <1>19 DEF SyncStep
  <1> QED BY <1>5, <1>6, <1>7, <1>8, <1>9, <1>18, <1>19 DEF Next

\* What fair.yoga sends back it sends back once and has a row or an intent for, whatever
\* calls are lost, as long as no call outlives ADOPT_AFTER_MS.
LEMMA AccountedRefunds ==
  ASSUME Agreed, Accounted, DashboardEndedAlone
  PROVE  RefundsAccounted
  <1>0. MollieTypes
    BY AgreedParts
  <1>1. NeverRefundedTwice
    <2>1. \A r \in MollieRefunds : returned[r].status \in {"live", "refunded"} => returned[r].of # None
      BY <1>0 DEF MollieTypes, MollieAgrees
    <2> QED BY <2>1 DEF NeverRefundedTwice, Accounted, OneUnderWay
  <1>2. ASSUME NEW r \in MollieRefunds, returned[r].ours, returned[r].status \in {"live", "refunded"}
        PROVE  HeldBy(refund, r) # {} \/ Awaiting(refund, returned[r].of) # {}
    <2> DEFINE a == returned[r].of
    <2>1. a \in Attempts /\ a # None
      BY <1>0, <1>2 DEF MollieTypes, MollieAgrees, MollieRefund
    <2>2. ~Foreign(a, returned)
      <3> SUFFICES ASSUME NEW f \in MollieRefunds, returned[f].of = a, ~returned[f].ours PROVE FALSE
        BY DEF Foreign
      <3>1. returned[f].status = "ended"
        BY <1>2, <2>1 DEF Accounted, OneUnderWay
      <3> QED BY <1>2, <3>1 DEF DashboardEndedAlone
    <2>3. HeldBy(refund, r) = {} => r \in Unknown(refund, a, returned)
      BY <1>2 DEF Unknown
    <2> QED BY <2>1, <2>2, <2>3 DEF Accounted, UnknownAwaited
  <1> QED BY <1>1, <1>2 DEF RefundsAccounted, RefundHasRow

LEMMA AccountedAtFirst ==
  ASSUME Init
  PROVE  Accounted
  <1>1. \A j \in Jobs : job[j].do = "idle"
    BY JobKinds DEF Init
  <1>2. \A r \in MollieRefunds : returned[r].of = None
    BY DEF Init
  <1>3. OwnsIntent
    BY <1>1 DEF OwnsIntent, OwnAgrees, Own
  <1>4. \A a \in Attempts : Unknown(refund, a, returned) = {}
    BY <1>2, NoneAssumption DEF Unknown
  <1>5. \A j \in Jobs : WithdrawOk(job[j], refund, returned)
    BY <1>1 DEF WithdrawOk
  <1> QED BY <1>2, <1>3, <1>4, <1>5 DEF Accounted, OneUnderWay, UnknownAwaited

THEOREM RefundsAreAccounted ==
  ASSUME ~SlowCalls
  PROVE  Spec /\ []DashboardEndedAlone => []RefundsAccounted
  <1>1. Init => Accounted
    BY AccountedAtFirst
  <1>2. Agreed /\ Accounted /\ DashboardEndedAlone /\ [Next]_vars => Accounted'
    BY AccountedStep
  <1>3. Agreed /\ Accounted /\ DashboardEndedAlone => RefundsAccounted
    BY AccountedRefunds
  <1>4. Spec => []Agreed
    BY RowsAlwaysAgree, PTL
  <1> QED BY <1>1, <1>2, <1>3, <1>4, PTL DEF Spec

-------------------------------------------------------------------------------
(* What the payment, its attempts and its refunds agree on until the grant *)
(* is revoked, as long as no bank takes back what is being refunded.       *)

\* A payment whose refund is under way or done is not disputed while another attempt may
\* settle, and the dashboard refunds that ended stand alone.
Undisturbed == (NoDispute \/ OneAttempt) /\ DashboardEndedAlone

SettledPaid(p, att) ==
  \A a \in Attempts : att[a].settled => p = [status |-> "paid", method |-> "mollie"]

OutcomesApply(att, rfd) ==
  \A i \in Intents : rfd[i].status = "refunded" /\ rfd[i].outcome # None => ~att[rfd[i].of].settled

\* A refund with an outcome that may still go through is of the attempt that settles.
OutcomesWait(att, rfd, ret) ==
  \A i \in Intents :
    rfd[i].status = "live" /\ rfd[i].outcome # None =>
      \/ att[rfd[i].of].settled
      \/ att[rfd[i].of].chargedBack
      \/ rfd[i].mid # None /\ ret[rfd[i].mid].status = "ended"

Applied ==
  /\ SettledPaid(payment, attempt) /\ OutcomesApply(attempt, refund)
  /\ OutcomesWait(attempt, refund, returned)

\* The same at any point of a transaction.
Standing(p, att, dup, rfd) ==
  /\ p \in Payments /\ att \in [Attempts -> AttemptRow] /\ rfd \in [Intents -> RefundRow]
  /\ AttemptsAgree(att, dup, money, disputed) /\ RowsAgree(att, rfd, returned)
  /\ SettledPaid(p, att) /\ OutcomesApply(att, rfd) /\ OutcomesWait(att, rfd, returned)

\* What the payment, the attempts and the refunds are after a row is told how its refund
\* stands.
LEMMA ReportApplies ==
  ASSUME Undisturbed,
         NEW p, NEW att, NEW dup, NEW rfd, Standing(p, att, dup, rfd),
         NEW p2, NEW att2, NEW rfd2, NEW a \in Attempts, NEW i \in Intents, NEW r \in MollieRefunds,
         NEW stage \in RefundStages,
         Reports(p, att, rfd, p2, att2, rfd2, a, i, r, stage, returned)
  PROVE  SettledPaid(p2, att2) /\ OutcomesApply(att2, rfd2) /\ OutcomesWait(att2, rfd2, returned)
  <1>0. r # None
    BY NoneAssumption
  <1>s. /\ p \in Payments /\ att \in [Attempts -> AttemptRow] /\ rfd \in [Intents -> RefundRow]
        /\ AttemptsAgree(att, dup, money, disputed) /\ RowsAgree(att, rfd, returned)
        /\ SettledPaid(p, att) /\ OutcomesApply(att, rfd) /\ OutcomesWait(att, rfd, returned)
    BY DEF Standing
  <1> USE <1>s
  <1>1. /\ \A k \in Intents : k # i => rfd2[k] = rfd[k]
        /\ rfd2[i].mid = r /\ rfd2[i].of = rfd[i].of /\ rfd2[i].outcome = rfd[i].outcome
        /\ rfd[i].of = a
        /\ rfd[i].mid = r \/ (rfd[i].mid = None /\ rfd[i].status = "live")
    <2>1. ReportedRow(rfd, rfd2, a, i, r, returned)
      BY ReportRow
    <2> QED BY <2>1 DEF ReportedRow
  <1>2. CASE /\ p2 = p /\ att2 = att /\ (rfd2[i].status = "refunded" => rfd[i].status = "refunded")
             /\ (rfd2[i].status = "live" => rfd[i].status = "live")
    <2>1. SettledPaid(p2, att2)
      BY <1>2
    <2>2. OutcomesApply(att2, rfd2)
      <3> SUFFICES ASSUME NEW k \in Intents, rfd2[k].status = "refunded", rfd2[k].outcome # None
                   PROVE  ~att2[rfd2[k].of].settled
        BY DEF OutcomesApply
      <3>1. rfd[k].status = "refunded" /\ rfd[k].outcome = rfd2[k].outcome /\ rfd[k].of = rfd2[k].of
        BY <1>1, <1>2
      <3> QED BY <1>2, <3>1 DEF OutcomesApply
    <2>3. OutcomesWait(att2, rfd2, returned)
      <3> SUFFICES ASSUME NEW k \in Intents, rfd2[k].status = "live", rfd2[k].outcome # None
                   PROVE  \/ att2[rfd2[k].of].settled \/ att2[rfd2[k].of].chargedBack
                          \/ rfd2[k].mid # None /\ returned[rfd2[k].mid].status = "ended"
        BY DEF OutcomesWait
      <3>1. /\ rfd[k].status = "live" /\ rfd[k].outcome = rfd2[k].outcome /\ rfd[k].of = rfd2[k].of
            /\ rfd[k].mid # None => rfd[k].mid = rfd2[k].mid
        BY <1>1, <1>2
      <3> QED BY <1>2, <3>1 DEF OutcomesWait
    <2> QED BY <1>2, <2>1, <2>2, <2>3
  <1>3. CASE /\ rfd[i].status = "live" /\ rfd2[i].status = "refunded" /\ returned[r].status = "refunded"
             /\ Completed(p, att, p2, att2, a, rfd[i].outcome)
    <2>1. returned[r].of = a
      BY DEF Reports
    <2>2. rfd[i].outcome # None => att[a].settled \/ att[a].chargedBack
      BY <1>0, <1>1, <1>3 DEF OutcomesWait
    <2>3. att2 = att \/ att2 = [att EXCEPT ![a].settled = FALSE]
      BY <1>3 DEF Completed
    <2>4. \A b \in Attempts : /\ att2[b].settled => att[b].settled
                              /\ att2[b].chargedBack = att[b].chargedBack
                              /\ b # a => att2[b].settled = att[b].settled
      BY <2>3 DEF AttemptRow
    <2>5. ASSUME rfd[i].outcome # None, NEW b \in Attempts, b # a PROVE ~att[b].settled
      <3>1. CASE att[a].settled
        BY <2>5, <3>1 DEF AttemptsAgree
      <3>2. CASE att[a].chargedBack
        <4>1. a \in disputed /\ money[a] # "none" /\ (att[b].settled => money[b] # "none")
          BY <3>2 DEF AttemptsAgree
        <4>2. ~NoDispute
          BY <1>3, <2>1, <4>1 DEF NoDispute
        <4>3. OneAttempt
          BY <4>2 DEF Undisturbed
        <4> QED BY <2>5, <4>1, <4>3 DEF OneAttempt
      <3> QED BY <2>2, <2>5, <3>1, <3>2
    <2>6. \/ /\ rfd[i].outcome # None /\ ~att2[a].settled
          \/ p2 = p /\ att2 = att
      BY <1>3, NoneIsNoName DEF Completed, AttemptRow
    <2>7. SettledPaid(p2, att2)
      BY <2>4, <2>5, <2>6 DEF SettledPaid
    <2>8. rfd[i].outcome # None => ~att2[a].settled
      <3> SUFFICES ASSUME rfd[i].outcome # None, p2 = p, att2 = att, att[a].settled PROVE FALSE
        BY <2>6
      <3>1. p.status = "paid"
        BY DEF SettledPaid
      <3>2. rfd[i].outcome \in {"waived", "reopened"}
        BY DEF RefundRow, Outcomes
      <3>3. Reopens(p, att, {a})
        BY <2>5, <3>1 DEF Reopens
      <3>4. att2 = [att EXCEPT ![a].settled = FALSE]
        BY <1>3, <3>1, <3>2, <3>3 DEF Completed
      <3> QED BY <3>4 DEF AttemptRow
    <2>9. OutcomesApply(att2, rfd2)
      <3> SUFFICES ASSUME NEW k \in Intents, rfd2[k].status = "refunded", rfd2[k].outcome # None
                   PROVE  ~att2[rfd2[k].of].settled
        BY DEF OutcomesApply
      <3>1. CASE k = i
        BY <1>1, <2>8, <3>1
      <3>2. CASE k # i
        <4>1. rfd2[k] = rfd[k] /\ rfd[k].of \in Attempts
          BY <1>1, <3>2 DEF RowsAgree, Written
        <4> QED BY <2>4, <4>1 DEF OutcomesApply
      <3> QED BY <3>1, <3>2
    <2>10. OutcomesWait(att2, rfd2, returned)
      <3> SUFFICES ASSUME NEW k \in Intents, rfd2[k].status = "live", rfd2[k].outcome # None
                   PROVE  \/ att2[rfd2[k].of].settled \/ att2[rfd2[k].of].chargedBack
                          \/ rfd2[k].mid # None /\ returned[rfd2[k].mid].status = "ended"
        BY DEF OutcomesWait
      <3>1. k # i /\ rfd2[k] = rfd[k]
        BY <1>1, <1>3
      <3>2. rfd[k].of \in Attempts /\ rfd[k].of # a
        BY <1>1, <1>3, <3>1 DEF RowsAgree, Written
      <3> QED BY <2>4, <3>1, <3>2 DEF OutcomesWait
    <2> QED BY <2>7, <2>9, <2>10
  <1>4. \/ /\ p2 = p /\ att2 = att /\ (rfd2[i].status = "refunded" => rfd[i].status = "refunded")
           /\ (rfd2[i].status = "live" => rfd[i].status = "live")
        \/ /\ rfd[i].status = "live" /\ rfd2[i].status = "refunded" /\ returned[r].status = "refunded"
           /\ Completed(p, att, p2, att2, a, rfd[i].outcome)
    <2>1. CASE rfd2 = [rfd EXCEPT ![i].mid = r] /\ p2 = p /\ att2 = att
      BY <2>1 DEF RefundRow
    <2>2. CASE /\ rfd[i].status = "live" /\ stage \in Written
               /\ Final(stage) => returned[r].status = stage
               /\ rfd2 = [rfd EXCEPT ![i].mid = r, ![i].status = stage]
               /\ IF stage = "refunded" THEN Completed(p, att, p2, att2, a, rfd[i].outcome)
                                        ELSE p2 = p /\ att2 = att
      <3>1. rfd2[i].status = stage
        BY <2>2 DEF RefundRow
      <3> QED BY <2>2, <3>1 DEF Final
    <2> QED BY <2>1, <2>2 DEF Reports
  <1> QED BY <1>2, <1>3, <1>4

\* A refund made in the dashboard of which the sync saw that it went through, and which no
\* row holds or waits for.
Released(att, rfd, a) ==
  \E r \in MollieRefunds : /\ returned[r].of = a /\ returned[r].status = "refunded"
                           /\ HeldBy(rfd, r) = {} /\ Awaiting(rfd, a) = {}

LEMMA ReleaseApplies ==
  ASSUME NEW p, NEW att \in [Attempts -> AttemptRow], NEW rfd \in [Intents -> RefundRow], NEW a \in Attempts,
         OneUnderWay(returned), RowsAgree(att, rfd, returned), Released(att, rfd, a),
         SettledPaid(p, att), OutcomesApply(att, rfd), OutcomesWait(att, rfd, returned)
  PROVE  LET att2 == [att EXCEPT ![a].settled = FALSE]
         IN SettledPaid(p, att2) /\ OutcomesApply(att2, rfd) /\ OutcomesWait(att2, rfd, returned)
  <1> DEFINE att2 == [att EXCEPT ![a].settled = FALSE]
  <1>1. \A b \in Attempts : /\ att2[b].settled => att[b].settled
                            /\ att2[b].chargedBack = att[b].chargedBack
                            /\ b # a => att2[b].settled = att[b].settled
    BY DEF AttemptRow
  <1> HIDE DEF att2
  <1>2. SettledPaid(p, att2)
    BY <1>1 DEF SettledPaid
  <1>3. OutcomesApply(att2, rfd)
    BY <1>1 DEF OutcomesApply, RowsAgree, Written
  <1>4. OutcomesWait(att2, rfd, returned)
    <2> SUFFICES ASSUME NEW k \in Intents, rfd[k].status = "live", rfd[k].outcome # None
                 PROVE  \/ att2[rfd[k].of].settled \/ att2[rfd[k].of].chargedBack
                        \/ rfd[k].mid # None /\ returned[rfd[k].mid].status = "ended"
      BY DEF OutcomesWait
    <2>1. rfd[k].of \in Attempts
      BY DEF RowsAgree, Written
    <2>2. CASE rfd[k].of # a
      BY <1>1, <2>1, <2>2 DEF OutcomesWait
    <2>3. CASE rfd[k].of = a
      <3>1. PICK r \in MollieRefunds : /\ returned[r].of = a /\ returned[r].status = "refunded"
                                       /\ HeldBy(rfd, r) = {} /\ Awaiting(rfd, a) = {}
        BY DEF Released
      <3>2. rfd[k].mid # None
        BY <2>3, <3>1 DEF Awaiting
      <3>3. rfd[k].mid \in MollieRefunds /\ rfd[k].mid # r
        BY <3>1, <3>2 DEF HeldBy, RefundRow
      <3>4. returned[rfd[k].mid].of = a
        BY <2>3, <3>2 DEF RowsAgree
      <3>5. a # None
        BY NoneAssumption
      <3>6. returned[rfd[k].mid].status = "ended"
        BY <3>1, <3>3, <3>4, <3>5 DEF OneUnderWay
      <3> QED BY <3>2, <3>6
    <2> QED BY <2>2, <2>3
  <1> QED BY <1>2, <1>3, <1>4 DEF att2

LEMMA DecidedApplies ==
  ASSUME Agreed, Applied, NEW s \in SyncJob, SyncAgrees(s, money, disputed, returned), ~SettlesTwice(s)
  PROVE  LET n == DecideSync(Start, s)
         IN /\ SettledPaid(n.payment, n.attempt) /\ OutcomesApply(n.attempt, refund)
            /\ OutcomesWait(n.attempt, refund, returned)
  <1> DEFINE n == DecideSync(Start, s)
  <1>0. /\ attempt \in [Attempts -> AttemptRow] /\ s.attempt \in Attempts /\ payment \in Payments
        /\ RowsAgree(attempt, refund, returned)
        /\ \A i \in Intents : refund[i].status \in Written => refund[i].of \in Attempts
    BY DEF Agreed, TypeOK, AttemptRow, SyncJob, RowsAgree
  <1>1. \/ /\ n.payment = payment /\ n.duplicate = duplicate /\ n.attempt = attempt
        \/ TakenBack(s) \/ NotYetPaid(s) \/ Settles(s) \/ PaidTwice(s)
    BY DecideCases
  <1> HIDE DEF n
  <1>2. /\ \A b \in Attempts : n.attempt[b].settled => n.payment = [status |-> "paid", method |-> "mollie"]
        /\ \A b \in Attempts : /\ n.attempt[b].settled => attempt[b].settled \/ attempt[b].status # "paid"
                               /\ attempt[b].settled => n.attempt[b].settled \/ n.attempt[b].chargedBack
                               /\ attempt[b].chargedBack => n.attempt[b].chargedBack
    <2>1. CASE n.payment = payment /\ n.duplicate = duplicate /\ n.attempt = attempt
      BY <2>1 DEF Applied, SettledPaid
    <2>2. CASE TakenBack(s)
      BY <1>0, <2>2 DEF TakenBack, Applied, SettledPaid, AttemptRow, n
    <2>3. CASE NotYetPaid(s)
      BY <1>0, <2>3 DEF NotYetPaid, Applied, SettledPaid, AttemptRow, n
    <2>4. CASE Settles(s)
      BY <1>0, <2>4, NoneIsNoName DEF Settles, AttemptRow, Payments, Owed, n
    <2>5. CASE PaidTwice(s)
      BY <1>0, <2>5 DEF PaidTwice, Applied, SettledPaid, AttemptRow, n
    <2> QED BY <1>1, <2>1, <2>2, <2>3, <2>4, <2>5
  <1>3. OutcomesApply(n.attempt, refund)
    BY <1>0, <1>2 DEF OutcomesApply, RowsAgree, Applied, Written
  <1>4. OutcomesWait(n.attempt, refund, returned)
    BY <1>0, <1>2 DEF OutcomesWait, Applied, Written
  <1> QED BY <1>2, <1>3, <1>4 DEF SettledPaid, n

LEMMA SyncApplies ==
  ASSUME Agreed, Accounted, Applied, Undisturbed, NEW j \in Jobs, SyncApply(j)
  PROVE  /\ SettledPaid(payment', attempt') /\ OutcomesApply(attempt', refund')
         /\ OutcomesWait(attempt', refund', returned)
  <1> DEFINE s == job[j]
             G == {st \in Transacted(s) :
                     /\ SettledPaid(st.payment, st.attempt) /\ OutcomesApply(st.attempt, st.refund)
                     /\ OutcomesWait(st.attempt, st.refund, returned)
                     /\ st.dashboard => Released(st.attempt, st.refund, s.attempt)}
  <1>1. s \in SyncJob /\ SyncAgrees(s, money, disputed, returned) /\ ~SettlesTwice(s)
    BY SyncTransacted
  <1>2. DecideSync(Start, s) \in G
    <2>1. /\ DecideSync(Start, s) \in Transacted(s) /\ DecideSync(Start, s).refund = refund
          /\ ~DecideSync(Start, s).dashboard
      BY <1>1, DecidedTransacted, DecideCases
    <2> HIDE DEF s
    <2> QED BY <1>1, <2>1, DecidedApplies
  <1>3. ASSUME NEW st \in G, NEW r \in MollieRefunds, s.returned[r] # "none"
        PROVE  ApplyRefund(st, s, r) \in G
    <2> DEFINE n == ApplyRefund(st, s, r)
    <2>1. /\ n \in Transacted(s)
          /\ Unmoved(st, n, s, r) \/ \E i \in Intents : Told(st, n, s, i, r)
      BY <1>1, <1>3, ApplyTransacted
    <2>2. /\ st \in Transacted(s)
          /\ SettledPaid(st.payment, st.attempt) /\ OutcomesApply(st.attempt, st.refund)
          /\ OutcomesWait(st.attempt, st.refund, returned)
          /\ st.dashboard => Released(st.attempt, st.refund, s.attempt)
      OBVIOUS
    <2>3. /\ st.payment \in Payments /\ st.attempt \in [Attempts -> AttemptRow]
          /\ st.refund \in [Intents -> RefundRow] /\ RowsAgree(st.attempt, st.refund, returned)
          /\ AttemptsAgree(st.attempt, st.duplicate, money, disputed)
          /\ s.attempt \in Attempts /\ s.returned[r] \in RefundStages
      BY <1>1, <2>2 DEF Transacted, State, SyncJob
    <2> HIDE DEF n
    <2>4. CASE Unmoved(st, n, s, r)
      <3>1. returned[r].of = s.attempt /\ (s.returned[r] = "refunded" => returned[r].status = "refunded")
        BY <1>1, <1>3 DEF SyncAgrees, Snapshot, Final
      <3>2. n.dashboard => Released(n.attempt, n.refund, s.attempt)
        BY <2>2, <2>4, <3>1 DEF Unmoved, Released
      <3> QED BY <2>1, <2>2, <2>4, <3>2 DEF Unmoved, n
    <2>5. ASSUME NEW i \in Intents, Told(st, n, s, i, r)
          PROVE  n \in G
      <3>1. Reports(st.payment, st.attempt, st.refund, n.payment, n.attempt, n.refund,
                    s.attempt, i, r, s.returned[r], returned)
        BY <2>5 DEF Told
      <3>2. /\ SettledPaid(n.payment, n.attempt) /\ OutcomesApply(n.attempt, n.refund)
            /\ OutcomesWait(n.attempt, n.refund, returned)
        <4>1. Standing(st.payment, st.attempt, st.duplicate, st.refund)
          BY <2>2, <2>3 DEF Standing
        <4> HIDE DEF s, G
        <4> QED BY <2>3, <3>1, <4>1, ReportApplies
      <3>3. ReportedRow(st.refund, n.refund, s.attempt, i, r, returned)
        BY <2>3, <3>1, ReportRow
      <3>4. ASSUME n.dashboard PROVE Released(n.attempt, n.refund, s.attempt)
        <4>1. PICK q \in MollieRefunds :
                /\ returned[q].of = s.attempt /\ returned[q].status = "refunded"
                /\ HeldBy(st.refund, q) = {} /\ Awaiting(st.refund, s.attempt) = {}
          BY <2>2, <2>5, <3>4 DEF Told, Released
        <4>2. st.refund[i].mid = r
          BY <3>3, <4>1 DEF ReportedRow, Awaiting
        <4>3. \A k \in Intents : n.refund[k].mid = st.refund[k].mid
          BY <3>3, <4>2 DEF ReportedRow
        <4>4. HeldBy(n.refund, q) = {}
          BY <4>1, <4>3 DEF HeldBy
        <4>5. Awaiting(n.refund, s.attempt) = {}
          <5>1. r # None
            BY NoneAssumption
          <5>2. \A k \in Intents : n.refund[k].mid = None => n.refund[k] = st.refund[k]
            BY <3>3, <5>1 DEF ReportedRow
          <5> QED BY <4>1, <5>2 DEF Awaiting
        <4> QED BY <4>1, <4>4, <4>5 DEF Released
      <3> QED BY <2>1, <2>2, <3>2, <3>4
    <2> QED BY <2>1, <2>4, <2>5 DEF n
  <1>4. G \in SUBSET State
    BY DEF Transacted
  <1>5. PICK st \in G :
          /\ payment' = st.payment /\ refund' = st.refund
          /\ attempt' = IF st.dashboard THEN [st.attempt EXCEPT ![s.attempt].settled = FALSE] ELSE st.attempt
    <2> HIDE DEF G
    <2> QED BY <1>2, <1>3, <1>4, SyncApplyIn
  <1>6. /\ st.attempt \in [Attempts -> AttemptRow] /\ st.refund \in [Intents -> RefundRow]
        /\ RowsAgree(st.attempt, st.refund, returned) /\ s.attempt \in Attempts /\ OneUnderWay(returned)
    BY <1>1 DEF Transacted, State, SyncJob, Accounted
  <1>7. CASE st.dashboard
    <2>1. Released(st.attempt, st.refund, s.attempt)
      BY <1>7
    <2>2. /\ SettledPaid(st.payment, st.attempt) /\ OutcomesApply(st.attempt, st.refund)
          /\ OutcomesWait(st.attempt, st.refund, returned)
      OBVIOUS
    <2> HIDE DEF s, G
    <2> QED BY <1>5, <1>6, <1>7, <2>1, <2>2, ReleaseApplies
  <1>8. CASE ~st.dashboard
    BY <1>5, <1>8
  <1> QED BY <1>7, <1>8

LEMMA AnswerApplies ==
  ASSUME Agreed, Applied, Undisturbed, NEW j \in Jobs, StoreAnswer(j)
  PROVE  /\ SettledPaid(payment', attempt') /\ OutcomesApply(attempt', refund')
         /\ OutcomesWait(attempt', refund', returned)
  <1> DEFINE x == job[j]
  <1>1. /\ RefundAgrees(x, refund, returned) /\ x.at = "answer" /\ x \in RefundJob
        /\ payment \in Payments /\ attempt \in [Attempts -> AttemptRow]
        /\ refund \in [Intents -> RefundRow] /\ RowsAgree(attempt, refund, returned)
        /\ AttemptsAgree(attempt, duplicate, money, disputed)
    BY JobOf DEF Agreed, TypeOK, StoreAnswer, JobAgrees, AttemptRow
  <1>2. x.intent \in Intents /\ x.found \in MollieRefunds /\ x.attempt \in Attempts /\ x.status \in RefundStages
    BY <1>1 DEF RefundAgrees, RefundJob
  <1> HIDE DEF x
  <1>3. CASE payment' = payment /\ attempt' = attempt /\ refund' = refund
    BY <1>3 DEF Applied
  <1>4. CASE Reports(payment, attempt, refund, payment', attempt', refund', x.attempt,
                     x.intent, x.found, x.status, returned)
    <2>1. Standing(payment, attempt, duplicate, refund)
      BY <1>1 DEF Standing, Applied
    <2> QED BY <1>2, <1>4, <2>1, ReportApplies
  <1> QED BY <1>3, <1>4, AnswerReports DEF x

\* Mollie takes no refund back that ended, and the rows are as they were.
LEMMA MollieApplies ==
  ASSUME Agreed, Applied, UNCHANGED rows,
         \A r \in MollieRefunds : returned[r].status = "ended" => returned'[r].status = "ended"
  PROVE  Applied'
  <1>1. \A i \in Intents : refund[i].mid \in MollieRefunds \cup {None}
    BY DEF Agreed, TypeOK, RefundRow
  <1>2. OutcomesWait(attempt, refund, returned')
    BY <1>1 DEF Applied, OutcomesWait
  <1> QED BY <1>2 DEF Applied, rows

LEMMA AppliedStep ==
  ASSUME Agreed, Checkouts, Accounted, Applied, Undisturbed, GrantHeld, [Next]_vars
  PROVE  Applied'
  <1>0. /\ RowTypes /\ MollieTypes /\ job \in [Jobs -> JobType]
        /\ \A i \in Intents : refund[i].status \in Written => refund[i].of \in Attempts
    BY AgreedParts DEF RowTypes, RowsAgree
  <1>m. payment.status = "owed" => payment = Owed
    BY <1>0, NoneIsNoName DEF RowTypes, Payments, Owed
  <1>1. ASSUME UNCHANGED rows,
               \A r \in MollieRefunds : returned[r].status = "ended" => returned'[r].status = "ended"
        PROVE  Applied'
    BY <1>1, MollieApplies DEF rows
  <1>2. CASE UNCHANGED vars \/ GrantStep \/ (\E a \in Attempts : SyncUnknown(a))
             \/ (\E j \in Jobs, a \in Attempts : AskCheckout(j, a)) \/ (\E j \in Jobs : Lose(j))
    <2>1. UNCHANGED rows /\ returned' = returned
      BY <1>2 DEF vars, mollie, GrantStep, Disconnect, GrantEnds, Reconnect, SyncUnknown, AskCheckout, Lose
    <2> QED BY <1>1, <2>1
  <1>3. CASE MollieStep
    <2>1. UNCHANGED rows
      BY <1>3 DEF MollieStep, MollieMoves, MollieDisputes, MollieRefundMoves, DashboardRefund
    <2>2. \A r \in MollieRefunds : returned[r].status = "ended" => returned'[r].status = "ended"
      BY <1>0, <1>3
         DEF MollieStep, MollieMoves, MollieDisputes, MollieRefundMoves, DashboardRefund, MollieTypes, MollieRefund
    <2> QED BY <1>1, <2>1, <2>2
  <1>4. CASE ByHand
    <2>1. \A a \in Attempts : ~attempt[a].settled
      <3>1. CASE payment.status = "owed"
        BY <1>m, <3>1 DEF Applied, SettledPaid, Owed
      <3>2. CASE ReopenPayment
        BY <3>2 DEF ReopenPayment, Reopens
      <3> QED BY <1>4, <3>1, <3>2 DEF ByHand, MarkPaid, MarkNotCharged
    <2>2. UNCHANGED <<attempt, refund, returned>>
      BY <1>4 DEF ByHand, MarkPaid, MarkNotCharged, ReopenPayment, mollie
    <2> QED BY <2>1, <2>2 DEF Applied, SettledPaid
  <1>5. ASSUME NEW j \in Jobs, StoreAttempt(j)
        PROVE  Applied'
    <2>1. job[j].attempt \in Attempts
      BY <1>5, JobOf, JobKinds DEF StoreAttempt, Agreed, TypeOK
    <2>2. UNCHANGED <<payment, refund, returned>>
      BY <1>5 DEF StoreAttempt, mollie
    <2>3. \A a \in Attempts : attempt'[a].settled = attempt[a].settled /\ attempt'[a].chargedBack = attempt[a].chargedBack
      BY <1>0, <1>5, <2>1 DEF StoreAttempt, RowTypes, AttemptRow
    <2> QED BY <1>0, <2>2, <2>3 DEF Applied, SettledPaid, OutcomesApply, OutcomesWait, Written
  <1>6. ASSUME NEW j \in Jobs, SyncStep(j)
        PROVE  Applied'
    <2>1. CASE SyncApply(j)
      <3>1. returned' = returned
        BY <2>1 DEF SyncApply, mollie
      <3> QED BY <2>1, <3>1, SyncApplies DEF Applied
    <2>2. CASE ~SyncApply(j)
      <3>1. UNCHANGED rows /\ returned' = returned
        BY <1>6, <2>2 DEF SyncStep, SyncFetch, SyncReadRows, SyncAborts, mollie
      <3> QED BY <1>1, <3>1
    <2> QED BY <2>1, <2>2
  <1>7. ASSUME NEW i \in Intents, UNCHANGED <<payment, attempt, returned>>,
               \A k \in Intents : k # i => refund'[k] = refund[k],
               \/ refund'[i].status \notin {"live", "refunded"}
               \/ refund'[i].status = "live" /\ refund'[i].outcome # None => attempt[refund'[i].of].settled
               \/ /\ refund'[i].status = refund[i].status /\ refund'[i].of = refund[i].of
                  /\ refund'[i].mid = refund[i].mid /\ refund'[i].outcome = refund[i].outcome,
               refund'[i].status = "refunded" => /\ refund[i].status = "refunded" /\ refund'[i].of = refund[i].of
                                                 /\ refund'[i].outcome = refund[i].outcome
        PROVE  Applied'
    <2>1. OutcomesApply(attempt, refund')
      <3> SUFFICES ASSUME NEW k \in Intents, refund'[k].status = "refunded", refund'[k].outcome # None
                   PROVE  ~attempt[refund'[k].of].settled
        BY DEF OutcomesApply
      <3>1. refund[k].status = "refunded" /\ refund'[k].of = refund[k].of /\ refund'[k].outcome = refund[k].outcome
        BY <1>7
      <3> QED BY <3>1 DEF OutcomesApply, Applied
    <2>2. OutcomesWait(attempt, refund', returned)
      <3> SUFFICES ASSUME NEW k \in Intents, refund'[k].status = "live", refund'[k].outcome # None
                   PROVE  \/ attempt[refund'[k].of].settled \/ attempt[refund'[k].of].chargedBack
                          \/ refund'[k].mid # None /\ returned[refund'[k].mid].status = "ended"
        BY DEF OutcomesWait
      <3>1. CASE k # i
        <4>1. refund'[k] = refund[k]
          BY <1>7, <3>1
        <4> QED BY <4>1 DEF OutcomesWait, Applied
      <3>2. CASE k = i
        BY <1>7, <3>2 DEF OutcomesWait, Applied
      <3> QED BY <3>1, <3>2
    <2> QED BY <1>7, <2>1, <2>2 DEF Applied
  <1>8. ASSUME NEW j \in Jobs, NEW a \in Attempts, NEW i \in Intents, NEW outcome, Record(j, a, i, outcome),
               UNCHANGED <<payment, attempt, returned>>
        PROVE  Applied'
    <2>1. /\ \A k \in Intents : k # i => refund'[k] = refund[k]
          /\ refund'[i].status = "live" /\ refund'[i].of = a /\ refund'[i].outcome = outcome
      BY <1>0, <1>8 DEF Record, RowTypes
    <2>2. outcome # None => attempt[a].settled
      BY <1>8 DEF Record, RefundAllowed
    <2> QED BY <1>7, <1>8, <2>1, <2>2
  <1>9. ASSUME NEW j \in Jobs, RefundStep(j)
        PROVE  Applied'
    <2>1. CASE StoreAnswer(j)
      <3>1. returned' = returned
        BY <2>1 DEF StoreAnswer, mollie
      <3> QED BY <2>1, <3>1, AnswerApplies DEF Applied
    <2>2. CASE Withdraw(j)
      <3>1. job[j].intent \in Intents /\ UNCHANGED <<payment, attempt, returned>>
        BY <2>2, JobOf DEF Withdraw, mollie, Agreed, TypeOK, RefundJob
      <3>2. CASE refund' = refund
        BY <3>1, <3>2 DEF Applied
      <3>3. CASE refund' = [refund EXCEPT ![job[j].intent] = [NoRefund EXCEPT !.status = "gone"]]
        <4>1. /\ \A k \in Intents : k # job[j].intent => refund'[k] = refund[k]
              /\ refund'[job[j].intent].status = "gone"
          BY <1>0, <3>1, <3>3 DEF RowTypes, NoRefund
        <4> QED BY <1>7, <3>1, <4>1
      <3> QED BY <2>2, <3>2, <3>3 DEF Withdraw, Withdrawn
    <2>3. ASSUME NEW i \in Intents, RecordAgain(j, i)
          PROVE  Applied'
      <3>1. job[j].attempt \in Attempts
        BY <2>3, JobOf DEF RecordAgain, Agreed, TypeOK, RefundJob
      <3> QED BY <1>8, <2>3, <3>1 DEF RecordAgain, mollie
    <2>4. ASSUME NEW a \in Attempts, NEW i \in Intents, NEW outcome \in Outcomes, RecordIntent(j, a, i, outcome)
          PROVE  Applied'
      BY <1>8, <2>4 DEF RecordIntent, mollie
    <2>5. ASSUME NEW a \in Attempts, NEW i \in Intents, NEW outcome \in Outcomes, FindStale(j, a, i, outcome)
          PROVE  Applied'
      BY <1>1, <2>5 DEF FindStale, mollie
    <2>6. CASE NoToken(j) \/ ListRefunds(j) \/ MatchRefund(j)
      BY <1>1, <2>6 DEF NoToken, ListRefunds, MatchRefund, mollie
    <2>7. ASSUME NEW r \in MollieRefunds \cup {None}, NEW answered \in BOOLEAN, CallMollie(j, r, answered)
          PROVE  Applied'
      <3>1. UNCHANGED rows
        BY <2>7 DEF CallMollie
      <3>2. \A q \in MollieRefunds : returned[q].status = "ended" => returned'[q].status = "ended"
        BY <1>0, <2>7 DEF CallMollie, MollieTypes, MollieRefund
      <3> QED BY <1>1, <3>1, <3>2
    <2> QED BY <1>9, <2>1, <2>2, <2>3, <2>4, <2>5, <2>6, <2>7 DEF RefundStep
  <1>10. ASSUME NEW i \in Intents, IntentAges(i)
         PROVE  Applied'
    <2>1. /\ \A k \in Intents : k # i => refund'[k] = refund[k]
          /\ refund'[i].status = refund[i].status /\ refund'[i].of = refund[i].of
          /\ refund'[i].mid = refund[i].mid /\ refund'[i].outcome = refund[i].outcome
      BY <1>0, <1>10 DEF IntentAges, RowTypes, RefundRow
    <2>2. UNCHANGED <<payment, attempt, returned>>
      BY <1>10 DEF IntentAges, mollie
    <2> QED BY <1>7, <2>1, <2>2
  <1> QED BY <1>2, <1>3, <1>4, <1>5, <1>6, <1>9, <1>10 DEF Next

LEMMA AppliedAtFirst ==
  ASSUME Init
  PROVE  Applied
  BY DEF Init, Applied, SettledPaid, OutcomesApply, OutcomesWait, NoRefund

\* A lapse is remembered from the step on in which the grant ends.
Lapses == lapsed \/ (GrantHeld /\ Applied)

LEMMA LapsesStep ==
  ASSUME Agreed, Checkouts, Accounted, Lapses, Undisturbed, [MCNext]_mcVars
  PROVE  Lapses'
  <1>1. [Next]_vars
    BY MCStep
  <1>2. CASE lapsed'
    BY <1>2 DEF Lapses
  <1>3. CASE ~lapsed'
    <2>1. ~lapsed /\ (GrantHeld' \/ UNCHANGED mcVars)
      <3>1. CASE MCNext
        <4>1. lapsed' = (lapsed \/ ~GrantHeld')
          BY <3>1 DEF MCNext
        <4> QED BY <1>3, <4>1, Zenon
      <3>2. CASE UNCHANGED mcVars
        <4>1. lapsed' = lapsed
          BY <3>2 DEF mcVars
        <4> QED BY <1>3, <3>2, <4>1
      <3> QED BY <3>1, <3>2
    <2>2. GrantHeld /\ Applied
      BY <2>1 DEF Lapses
    <2>3. GrantHeld'
      BY <2>1, <2>2 DEF mcVars, vars, GrantHeld
    <2> QED BY <1>1, <2>2, <2>3, AppliedStep DEF Lapses
  <1> QED BY <1>2, <1>3

LEMMA LapsesAtFirst ==
  ASSUME MCInit
  PROVE  Agreed /\ Checkouts /\ Accounted /\ Lapses
  <1>1. GrantHeld
    BY DEF MCInit, Init, GrantHeld
  <1> QED BY <1>1, AgreedAtFirst, AccountedAtFirst, AppliedAtFirst, JobKinds DEF MCInit, Init, Checkouts, Lapses

LEMMA LapsesConsistent ==
  ASSUME Agreed, Lapses
  PROVE  Consistent
  BY DEF Agreed, Lapses, Applied, Consistent, OutcomesApply, SettledPaid, OutcomeApplied, SettledMeansPaid

\* The payment, its attempts and its refunds agree whichever of webhook, return page, request
\* and mark by hand wrote last, until the grant is revoked, as long as nothing of what
\* Undisturbed names happens.
THEOREM PaymentConsistent ==
  ASSUME ~SlowCalls
  PROVE  MCSpec /\ []Undisturbed => []Consistent
  <1> DEFINE Inv == Agreed /\ Checkouts /\ Accounted /\ Lapses
  <1>1. MCInit => Inv
    BY LapsesAtFirst
  <1>2. Inv /\ Undisturbed /\ [MCNext]_mcVars => Inv'
    BY MCStep, AgreedStep, CheckoutsStep, AccountedStep, LapsesStep DEF Undisturbed
  <1>3. Inv => Consistent
    BY LapsesConsistent
  <1> HIDE DEF Inv
  <1> QED BY <1>1, <1>2, <1>3, PTL DEF MCSpec

-------------------------------------------------------------------------------
(* A refund waives once.                                                   *)

\* A refund that Mollie has made is recorded, of an intent recorded with a waive.
Waives(rfd, rfd2, ret) ==
  \E i \in Intents, r \in MollieRefunds :
    /\ rfd[i].status = "live" /\ rfd[i].outcome = "waived"
    /\ rfd2[i].status = "refunded" /\ rfd2[i].mid = r
    /\ ret[r].of = rfd[i].of /\ ret[r].status = "refunded"

\* A row that is told how its refund stands waives the payment only as it is told that the
\* refund went through.
LEMMA ReportWaives ==
  ASSUME NEW p, NEW att, NEW rfd \in [Intents -> RefundRow], NEW p2, NEW att2, NEW rfd2, NEW ret,
         NEW a, NEW i \in Intents, NEW r \in MollieRefunds, NEW stage,
         Reports(p, att, rfd, p2, att2, rfd2, a, i, r, stage, ret)
  PROVE  \/ p2 = p
         \/ p2 = Owed
         \/ Waives(rfd, rfd2, ret)
  <1>1. CASE rfd2 = [rfd EXCEPT ![i].mid = r] /\ p2 = p /\ att2 = att
    BY <1>1
  <1>2. CASE /\ rfd[i].status = "live" /\ stage \in Written
             /\ Final(stage) => ret[r].status = stage
             /\ rfd2 = [rfd EXCEPT ![i].mid = r, ![i].status = stage]
             /\ IF stage = "refunded" THEN Completed(p, att, p2, att2, a, rfd[i].outcome)
                                      ELSE p2 = p /\ att2 = att
    <2>1. CASE stage # "refunded"
      BY <1>2, <2>1
    <2>2. CASE stage = "refunded" /\ rfd[i].outcome # "waived"
      BY <1>2, <2>2 DEF Completed
    <2>3. CASE stage = "refunded" /\ rfd[i].outcome = "waived"
      <3>1. rfd2[i].status = "refunded" /\ rfd2[i].mid = r
        BY <1>2, <2>3 DEF RefundRow
      <3>2. ret[r].of = rfd[i].of /\ ret[r].status = "refunded"
        BY <1>2, <2>3 DEF Reports, Final
      <3> QED BY <1>2, <2>3, <3>1, <3>2 DEF Waives
    <2> QED BY <2>1, <2>2, <2>3
  <1> QED BY <1>1, <1>2 DEF Reports

\* In a transaction of several refunds it is the row as it was before the transaction.
LEMMA WaivesOnward ==
  ASSUME NEW rfd, NEW rfd2, NEW rfd3, NEW old, NEW ret,
         Follows(rfd, rfd2, old), Follows(rfd2, rfd3, old)
  PROVE  /\ Waives(rfd, rfd2, ret) => Waives(rfd, rfd3, ret)
         /\ Waives(rfd2, rfd3, ret) => Waives(rfd, rfd3, ret)
  <1>1. ASSUME NEW i \in Intents, NEW r \in MollieRefunds,
               rfd[i].status = "live", rfd[i].outcome = "waived",
               rfd2[i].status = "refunded", rfd2[i].mid = r,
               ret[r].of = rfd[i].of, ret[r].status = "refunded"
        PROVE  Waives(rfd, rfd3, ret)
    <2>1. r # None
      BY NoneAssumption
    <2>2. rfd3[i].status = "refunded" /\ rfd3[i].mid = r
      BY <1>1, <2>1 DEF Follows, Final
    <2> QED BY <1>1, <2>2 DEF Waives
  <1>2. ASSUME NEW i \in Intents, NEW r \in MollieRefunds,
               rfd2[i].status = "live", rfd2[i].outcome = "waived",
               rfd3[i].status = "refunded", rfd3[i].mid = r,
               ret[r].of = rfd2[i].of, ret[r].status = "refunded"
        PROVE  Waives(rfd, rfd3, ret)
    <2>1. rfd[i].status = "live"
      BY <1>2 DEF Follows, Written, Final
    <2>2. rfd[i].outcome = "waived" /\ ret[r].of = rfd[i].of
      BY <1>2 DEF Follows
    <2> QED BY <1>2, <2>1, <2>2 DEF Waives
  <1> QED BY <1>1, <1>2 DEF Waives

LEMMA SyncWaives ==
  ASSUME Agreed, NEW j \in Jobs, SyncApply(j), payment.status = "paid"
  PROVE  payment' = payment \/ payment' = Owed \/ Waives(refund, refund', returned)
  <1> DEFINE s == job[j]
             G == {st \in Transacted(s) : \/ st.payment = payment \/ st.payment = Owed
                                          \/ Waives(refund, st.refund, returned)}
  <1>1. s \in SyncJob /\ SyncAgrees(s, money, disputed, returned) /\ ~SettlesTwice(s)
    BY SyncTransacted
  <1>2. DecideSync(Start, s) \in G
    <2>1. DecideSync(Start, s) \in Transacted(s) /\ DecideSync(Start, s).payment = payment
      BY <1>1, DecidedTransacted, DecideCases DEF TakenBack, NotYetPaid, Settles, PaidTwice
    <2> QED BY <2>1
  <1>3. ASSUME NEW st \in G, NEW r \in MollieRefunds, s.returned[r] # "none"
        PROVE  ApplyRefund(st, s, r) \in G
    <2> DEFINE n == ApplyRefund(st, s, r)
    <2>1. /\ n \in Transacted(s) /\ Follows(st.refund, n.refund, s.old)
          /\ Unmoved(st, n, s, r) \/ \E i \in Intents : Told(st, n, s, i, r)
      BY <1>1, <1>3, ApplyTransacted
    <2>2. /\ Follows(refund, st.refund, s.old) /\ st.refund \in [Intents -> RefundRow]
          /\ \/ st.payment = payment \/ st.payment = Owed \/ Waives(refund, st.refund, returned)
      BY DEF Transacted, State
    <2> HIDE DEF n
    <2>3. n.payment = st.payment \/ n.payment = Owed \/ Waives(st.refund, n.refund, returned)
      <3>1. CASE Unmoved(st, n, s, r)
        BY <3>1 DEF Unmoved
      <3>2. ASSUME NEW i \in Intents, Told(st, n, s, i, r)
            PROVE  n.payment = st.payment \/ n.payment = Owed \/ Waives(st.refund, n.refund, returned)
        <4>1. Reports(st.payment, st.attempt, st.refund, n.payment, n.attempt, n.refund,
                      s.attempt, i, r, s.returned[r], returned)
          BY <3>2 DEF Told
        <4> HIDE DEF s, G
        <4> QED BY <2>2, <4>1, ReportWaives
      <3> QED BY <2>1, <3>1, <3>2
    <2>4. n.payment = payment \/ n.payment = Owed \/ Waives(refund, n.refund, returned)
      <3> HIDE DEF s, G
      <3> QED BY <2>1, <2>2, <2>3, WaivesOnward
    <2> QED BY <2>1, <2>4 DEF n
  <1>4. G \in SUBSET State
    BY DEF Transacted
  <1>5. PICK st \in G : payment' = st.payment /\ refund' = st.refund
    <2> HIDE DEF G
    <2> QED BY <1>2, <1>3, <1>4, SyncApplyIn
  <1> QED BY <1>5

LEMMA WaivesStep ==
  ASSUME Agreed, [Next]_vars, payment.status = "paid", payment'.status = "not_charged"
  PROVE  Waives(refund, refund', returned)
  <1>0. payment' # payment /\ payment' # Owed
    BY DEF Owed
  <1>1. CASE UNCHANGED vars
    BY <1>0, <1>1 DEF vars, rows
  <1>2. CASE ByHand
    BY <1>0, <1>2 DEF ByHand, MarkPaid, MarkNotCharged, ReopenPayment
  <1>3. CASE GrantStep \/ MollieStep \/ (\E a \in Attempts : SyncUnknown(a)) \/ (\E i \in Intents : IntentAges(i))
             \/ (\E j \in Jobs, a \in Attempts : AskCheckout(j, a)) \/ (\E j \in Jobs : StoreAttempt(j) \/ Lose(j))
    BY <1>0, <1>3
       DEF GrantStep, Disconnect, GrantEnds, Reconnect, MollieStep, MollieMoves, MollieDisputes, MollieRefundMoves,
           DashboardRefund, SyncUnknown, IntentAges, AskCheckout, StoreAttempt, Lose, rows
  <1>4. ASSUME NEW j \in Jobs, SyncStep(j) PROVE Waives(refund, refund', returned)
    <2>1. CASE SyncApply(j)
      BY <1>0, <2>1, SyncWaives
    <2>2. CASE ~SyncApply(j)
      BY <1>0, <1>4, <2>2 DEF SyncStep, SyncFetch, SyncReadRows, SyncAborts, rows
    <2> QED BY <2>1, <2>2
  <1>5. ASSUME NEW j \in Jobs, RefundStep(j) PROVE Waives(refund, refund', returned)
    <2>1. CASE StoreAnswer(j)
      <3> DEFINE x == job[j]
      <3>1. Reports(payment, attempt, refund, payment', attempt', refund', x.attempt,
                    x.intent, x.found, x.status, returned)
        BY <1>0, <2>1, AnswerReports
      <3>2. /\ x \in RefundJob /\ RefundAgrees(x, refund, returned) /\ x.at = "answer"
            /\ refund \in [Intents -> RefundRow]
        BY <2>1, JobOf DEF Agreed, TypeOK, StoreAnswer, JobAgrees
      <3>3. x.intent \in Intents /\ x.found \in MollieRefunds
        BY <3>2 DEF RefundAgrees, RefundJob
      <3> HIDE DEF x
      <3> QED BY <1>0, <3>1, <3>2, <3>3, ReportWaives
    <2>2. CASE ~StoreAnswer(j)
      <3>1. payment' = payment
        BY <1>5, <2>2
           DEF RefundStep, RecordIntent, FindStale, CallMollie, NoToken, ListRefunds, MatchRefund, Withdraw,
               RecordAgain, rows
      <3> QED BY <1>0, <3>1
    <2> QED BY <2>1, <2>2
  <1> QED BY <1>1, <1>2, <1>3, <1>4, <1>5 DEF Next

\* Whatever becomes of the grant, of disputes and of the dashboard: a payment stops being paid
\* only with the one refund whose waive takes it, as that refund is recorded.
THEOREM WaivesOnce == Spec => WaivedOncePerRefund
  <1>1. Spec => []Agreed
    BY RowsAlwaysAgree, PTL
  <1>2. Agreed /\ [Next]_vars
        => [payment.status = "paid" /\ payment'.status = "not_charged"
            => \E i \in Intents, r \in MollieRefunds :
                 /\ refund[i].status = "live" /\ refund[i].outcome = "waived"
                 /\ refund'[i].status = "refunded" /\ refund'[i].mid = r
                 /\ returned[r].of = refund[i].of /\ returned[r].status = "refunded"]_vars
    BY WaivesStep DEF Waives
  <1> QED BY <1>1, <1>2, PTL DEF Spec, WaivedOncePerRefund

-------------------------------------------------------------------------------
(* The settings in which TLC looks at refunds disturb nothing.             *)

LEMMA AtMostOneMade ==
  ASSUME RefundsMade(1), NEW q \in MollieRefunds, NEW r \in MollieRefunds,
         returned[q].of # None, returned[r].of # None
  PROVE  q = r
  <1> DEFINE S == {x \in MollieRefunds : returned[x].of # None}
  <1>1. S \in SUBSET MollieRefunds /\ q \in S /\ r \in S
    OBVIOUS
  <1>2. IsFiniteSet(S) /\ Cardinality(S) <= 1
    <2> HIDE DEF S
    <2>1. IsFiniteSet(S)
      BY <1>1, FiniteAssumption, FS_Subset
    <2> QED BY <2>1 DEF RefundsMade, S
  <1> HIDE DEF S
  <1>3. Cardinality(S) \in Nat /\ Cardinality(S) # 0
    BY <1>1, <1>2, FS_CardinalityType, FS_EmptySet
  <1>4. Cardinality(S) = 1
    BY <1>2, <1>3
  <1>5. PICK x : S = {x}
    BY <1>2, <1>4, FS_Singleton
  <1> QED BY <1>1, <1>5

LEMMA NoneOf ==
  ASSUME NEW S, IsFiniteSet(S), Cardinality(S) <= 0
  PROVE  S = {}
  BY FS_CardinalityType, FS_EmptySet

LEMMA SettingUndisturbed ==
  ASSUME Agreed, InSetting, setting \in {"paid", "dashboard", "refund", "both", "regranted"}
  PROVE  Undisturbed
  <1>0. MollieTypes
    BY AgreedParts
  <1>1. \A r \in MollieRefunds : returned[r].status = "ended" => returned[r].of # None
    BY <1>0 DEF MollieTypes, MollieAgrees
  <1>2. CASE OneAttempt /\ NoDashboard
    BY <1>1, <1>2 DEF Undisturbed, DashboardEndedAlone, NoDashboard
  <1>3. CASE RefundsMade(1) /\ NoDispute
    <2>1. ASSUME NEW q \in MollieRefunds, NEW r \in MollieRefunds, returned[q].of = returned[r].of,
                 ~returned[q].ours, returned[q].status = "ended"
          PROVE  ~returned[r].ours
      BY <1>1, <1>3, <2>1, AtMostOneMade
    <2> QED BY <1>3, <2>1 DEF Undisturbed, DashboardEndedAlone
  <1>4. CASE RefundsMade(0)
    <2> DEFINE made == {r \in MollieRefunds : returned[r].of # None}
    <2>1. made \in SUBSET MollieRefunds /\ Cardinality(made) <= 0
      BY <1>4 DEF RefundsMade
    <2>2. made = {}
      <3> HIDE DEF made
      <3>1. IsFiniteSet(made)
        BY <2>1, FiniteAssumption, FS_Subset
      <3> QED BY <2>1, <3>1, NoneOf
    <2>3. NoDispute
      BY <1>0, <2>2, NoneAssumption DEF NoDispute, MollieTypes
    <2> QED BY <1>1, <2>2, <2>3 DEF Undisturbed, DashboardEndedAlone
  <1> QED BY <1>2, <1>3, <1>4 DEF InSetting

\* In each setting of the run ProcessorSafety, whatever the numbers of attempts, refunds and
\* requests: payment, attempts and refunds agree, and every refund is accounted for.
THEOREM ConsistentInSettings ==
  ASSUME ~SlowCalls, Settings \subseteq {"paid", "dashboard", "refund", "both", "regranted"}
  PROVE  MCSpec => []Consistent /\ []RefundsAccounted
  <1>1. MCInit => InSetting
    <2> SUFFICES ASSUME Init, setting \in Settings PROVE InSetting
      BY DEF MCInit
    <2>1. /\ {i \in Intents : refund[i].status # "none"} = {}
          /\ {r \in MollieRefunds : returned[r].of # None} = {}
          /\ {j \in Jobs : job[j] # Idle} = {}
      BY DEF Init, NoRefund
    <2>2. RefundsAsked(0) /\ RefundsAsked(1) /\ RefundsMade(0) /\ RefundsMade(1) /\ OneJob
      <3>1. Cardinality({}) = 0
        BY FS_EmptySet
      <3>2. /\ Cardinality({i \in Intents : refund[i].status # "none"}) = 0
            /\ Cardinality({r \in MollieRefunds : returned[r].of # None}) = 0
            /\ Cardinality({j \in Jobs : job[j] # Idle}) = 0
        BY <2>1, <3>1, Zenon
      <3> QED BY <3>2 DEF RefundsAsked, RefundsMade, OneJob
    <2>3. OneAttempt /\ NoDashboard /\ NoDispute /\ grant = "live"
      BY DEF Init, OneAttempt, NoDashboard, NoDispute
    <2> QED BY <2>2, <2>3 DEF InSetting
  <1> DEFINE Stays == InSetting /\ setting \in Settings
             Inv == Agreed /\ Checkouts /\ Accounted /\ Lapses
  <1>2. MCInit => Stays /\ Inv
    BY <1>1, LapsesAtFirst DEF MCInit
  <1>3. Stays /\ [MCNext]_mcVars => Stays'
    <2>1. CASE MCNext
      BY <2>1 DEF MCNext
    <2>2. CASE UNCHANGED mcVars
      BY <2>2 DEF mcVars, vars, rows, mollie, InSetting, RefundsAsked, RefundsMade, OneJob, OneAttempt,
                  NoDashboard, NoDispute
    <2> QED BY <2>1, <2>2
  <1>4. Stays /\ Inv => Undisturbed
    BY SettingUndisturbed
  <1>5. Stays /\ Inv /\ [MCNext]_mcVars => Inv'
    BY <1>4, MCStep, AgreedStep, CheckoutsStep, AccountedStep, LapsesStep DEF Undisturbed
  <1>6. Stays /\ Inv => Consistent /\ RefundsAccounted
    BY <1>4, LapsesConsistent, AccountedRefunds DEF Undisturbed
  <1> HIDE DEF Stays, Inv
  <1> QED BY <1>2, <1>3, <1>5, <1>6, PTL DEF MCSpec
===============================================================================
