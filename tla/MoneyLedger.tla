------------------------------ MODULE MoneyLedger ------------------------------
(***************************************************************************)
(* What each attempt's money counts as, without saying how that is         *)
(* learned: it settles the payment if it is the first to arrive, it is a   *)
(* duplicate the teacher is told of, and once it was given back it never   *)
(* counts again.                                                           *)
(***************************************************************************)
CONSTANT Attempts

VARIABLE share   \* what the money of each attempt counts as

Init == share = [a \in Attempts |-> "unpaid"]

Settle(a) ==
  /\ share[a] = "unpaid"
  /\ \A b \in Attempts : share[b] # "settles"
  /\ share' = [share EXCEPT ![a] = "settles"]

Duplicate(a) ==
  /\ share[a] = "unpaid"
  /\ share' = [share EXCEPT ![a] = "duplicate"]

\* Given back by a refund, in the dashboard or here, or taken back by a bank.
Return(a) ==
  /\ share[a] # "returned"
  /\ share' = [share EXCEPT ![a] = "returned"]

Next == \E a \in Attempts : Settle(a) \/ Duplicate(a) \/ Return(a)

Spec == Init /\ [][Next]_share
===============================================================================
