-------------------------- MODULE MCRosterConsent --------------------------
(***************************************************************************)
(* The scopes of RosterConsent TLC checks: which requests meet, how many   *)
(* of them at once, on how many classes and invitations.                   *)
(***************************************************************************)
EXTENDS RosterConsent, TLC

Scope(does, n, classes, invitations) ==
  [does |-> does, atOnce |-> n, classes |-> classes, invitations |-> invitations]

(* A refusal and what may undo it.                                         *)
Consenting ==
  Scope({"Invite", "Remove", "Accept", "Decline", "Unlink", "Book", "WalkIn"}, 2, {1}, {1})

(* A declined invitation among the teacher's others.                       *)
Filing == Scope({"Invite", "Edit", "Remove", "Resend", "Decline"}, 2, {1}, {1, 2})

(* The archive, bookings and payments.                                     *)
Archiving ==
  Scope({"Archive", "Unarchive", "Book", "RosterAdd", "Cancel", "Complete", "Pay", "Waive",
         "Reopen"}, 2, {1, 2}, {})

(* The erasure and what may be under way when it comes.                    *)
Erasing ==
  Scope({"Erase", "Book", "Join", "Promote", "Accept", "Decline", "SetPrivacy", "Invite"},
        2, {1}, {1})

(* The requests that lock several classes, or a class and the link.        *)
Queueing == Scope({"Join", "Unlink", "Erase", "Archive"}, 2, {1, 2}, {})

(* Three at a time that take the rows they share in different orders.      *)
Contending == Scope({"Unlink", "Join", "WalkIn", "Erase"}, 3, {1}, {1})

MCScopes == {Consenting, Filing, Archiving, Erasing, Queueing, Contending}
TwoClasses == {1, 2}

Interchangeable == Permutations(Worker)
=============================================================================
