------------------------- MODULE MCProcessorPayments -------------------------
(***************************************************************************)
(* ProcessorPayments in the settings TLC checks it in, and the ledger it   *)
(* implements.  A behaviour is about one setting and stays in it:          *)
(*                                                                         *)
(*   "paid"       two attempts and a grant that may end                   *)
(*   "dashboard"  two attempts and a refund made in Mollie's dashboard     *)
(*   "refund"     one attempt, two refunds asked for, and a bank that may  *)
(*                dispute a payment Mollie is refunding, a job at a time   *)
(*                while it does                                            *)
(*   "both"       two attempts, one refund, asked for or in the dashboard, *)
(*                a job at a time                                          *)
(*   "regranted"  a grant that ends and comes back at any point, beside    *)
(*                two refunds asked for of one attempt, or two attempts    *)
(*                and a refund in the dashboard; a job at a time           *)
(*   "retries"    what the constants allow                                 *)
(***************************************************************************)
EXTENDS ProcessorPayments

CONSTANT Settings

VARIABLES
  setting,
  lapsed     \* the grant has been revoked at some time

mcVars == <<vars, setting, lapsed>>

\* What an attempt's money counts as, read off its row.
Share ==
  [a \in Attempts |->
    IF attempt[a].status # "paid" THEN "unpaid"
    ELSE IF attempt[a].settled THEN "settles"
    ELSE IF a \in duplicate /\ ~attempt[a].chargedBack THEN "duplicate"
    ELSE "returned"]

Ledger == INSTANCE MoneyLedger WITH share <- Share

\* An attempt's money settles the payment at most once and beside no other
\* attempt's, a second payment is told as a duplicate, and what was given back
\* never counts again, however late or often Mollie's answers come.
ImplementsLedger == Ledger!Spec

Symmetry == Permutations(Attempts) \cup Permutations(Intents)
            \cup Permutations(MollieRefunds) \cup Permutations(Jobs)

OneAttempt == \A a, b \in Attempts : money[a] # "none" /\ money[b] # "none" => a = b
RefundsAsked(n) == Cardinality({i \in Intents : refund[i].status # "none"}) <= n
RefundsMade(n) == Cardinality({r \in MollieRefunds : returned[r].of # None}) <= n
OneJob == Cardinality({j \in Jobs : job[j] # Idle}) <= 1

NoDashboard == \A r \in MollieRefunds : returned[r].of # None => returned[r].ours
NoDispute ==
  \A r \in MollieRefunds :
    returned[r].of \in disputed => returned[r].status = "ended"

InSetting ==
  CASE setting = "paid"      -> RefundsAsked(0) /\ RefundsMade(0)
    [] setting = "dashboard" -> RefundsAsked(0) /\ RefundsMade(1) /\ NoDispute /\ grant = "live"
    [] setting = "refund"    -> OneAttempt /\ NoDashboard /\ grant = "live" /\ (NoDispute \/ OneJob)
    [] setting = "both"      -> /\ OneJob /\ RefundsAsked(1) /\ RefundsMade(1)
                                /\ NoDispute /\ grant = "live"
    [] setting = "regranted" -> /\ OneJob
                                /\ \/ OneAttempt /\ NoDashboard
                                   \/ RefundsAsked(0) /\ RefundsMade(1) /\ NoDispute
    [] setting = "retries"   -> TRUE

MCInit == Init /\ setting \in Settings /\ lapsed = FALSE
MCNext == /\ Next
          /\ UNCHANGED setting
          /\ lapsed' = (lapsed \/ ~GrantHeld')
          /\ InSetting'
MCSpec == MCInit /\ [][MCNext]_mcVars
FairMCSpec == MCSpec /\ HookFairness

\* The payment, its attempts and its refunds agree, whichever of webhook, return page,
\* request and mark by hand wrote last, until the grant is revoked: a payment may then be
\* reopened under an attempt that settles it, which SettleBlocked is about.
Consistent == TypeOK /\ (~lapsed => OutcomeApplied /\ SettledMeansPaid)
===============================================================================
