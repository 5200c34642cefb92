--------------------------- MODULE DocumentedClaims ---------------------------
(***************************************************************************)
(* What the repository's comments say of one class and what the code does  *)
(* not keep to.                                                            *)
(***************************************************************************)
EXTENDS ClassBooking

\* The class as long as the start sweep has not come round to it: a behaviour of
\* Spec in which an open class is open until it is completed or called off.
MissedStartSpec == Init /\ [][Next /\ status' # "in_progress"]_vars

\* src/lib/payment-request-copy.ts:67 'A cancelled registration is not charged
\* and gets no payment request.', and writeCancel's reason for refusing a
\* cancel after completion, src/app/api/registrations/[id]/route.ts:619-620 "a
\* cancel written after completion would leave a payment attached to a cancelled
\* booking".  A student's erasure cancels the upcoming bookings of classes whose
\* lock it does not hold, and one that completes meanwhile has billed them.
PaymentOnlyOnChargedBooking == payments \subseteq Charged
===============================================================================
