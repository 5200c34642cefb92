------------------------------ MODULE ClassTerms ------------------------------
(***************************************************************************)
(* The vocabulary one class is told in: its lifecycle statuses, the        *)
(* statuses a booking and a waitlist entry can have, and the instants      *)
(* around the start of the class that its handlers compare "now" with.     *)
(*                                                                         *)
(* Time.  Every time rule of the code compares an instant with one that is *)
(* a fixed distance from the start of the class, so "now" is kept as the   *)
(* last of these instants that has passed.  The order is the code's own:   *)
(* the cancel deadline is at least six hours before the start              *)
(* (DEADLINE_HOURS), the auto-cancel check four, two or one                *)
(* (CANCEL_CHECK_HOURS), the claim window one hour (CLAIM_WINDOW_MINUTES), *)
(* check-in, walk-ins and a manual start fifteen minutes                   *)
(* (CHECKIN_OPENS_MINUTES, WALK_IN_WINDOW_MINUTES); a teacher may finish   *)
(* the class from fifteen minutes before its end, the sweep does so        *)
(* fifteen minutes after it (FINISH_GRACE_MINUTES).                        *)
(***************************************************************************)
EXTENDS Integers

BeforeDeadline == 0  \* booking and cancelling are free
PastDeadline   == 1  \* the cancel deadline has passed
PastCheck      == 2  \* the auto-cancel check of a four- or two-hour class
ClaimWindow    == 3  \* the last hour: freed seats are claimed, not promoted
DoorsOpen      == 4  \* the last quarter: walk-ins, check-in, manual start
Started        == 5
FinishOpens    == 6  \* the teacher may finish the class
AutoFinish     == 7  \* the sweep finishes it

Phases == BeforeDeadline .. AutoFinish

\* getWaitlistWindow: which promotion rule holds at an instant.
WaitlistWindow(at) ==
  IF at >= Started THEN "frozen"
  ELSE IF at >= ClaimWindow THEN "first_come_first_claimed"
  ELSE "auto_promote"

ClassStatuses == {"draft", "open", "in_progress", "completed"}

\* VALID_TRANSITIONS: the statuses a class may move to from each status.
ValidTransitions(from) ==
  CASE from = "draft"       -> {"open"}
    [] from = "open"        -> {"in_progress"}
    [] from = "in_progress" -> {"completed"}
    [] from = "completed"   -> {}

\* A booking is "none" until the student's Registration row exists.
BookingStatuses == {"none", "registered", "attended", "no_show",
                    "late_cancel", "cancelled"}

ActiveStatuses  == {"registered", "attended", "no_show"}
ChargedStatuses == ActiveStatuses \cup {"late_cancel"}

\* A waitlist entry is "none" until the student's WaitlistEntry row exists.
EntryStatuses == {"none", "waiting", "promoted", "claimed", "expired",
                  "removed"}

ClaimableExpired == {"expired"}

\* The entries a direct booking by their student resolves.
ClaimableStatuses == {"waiting", "expired"}
===============================================================================
