--------------------------- MODULE ClassRefinesQueue ---------------------------
(***************************************************************************)
(* ClassBooking implements PromotionQueue: its positions are the order of  *)
(* the line.                                                               *)
(***************************************************************************)
EXTENDS ClassBooking

Ahead == {p \in Waiting \X Waiting : position[p[1]] < position[p[2]]}

Promoted == {s \in Students : entry[s] = "promoted"}

Abstract == INSTANCE PromotionQueue
  WITH line <- Waiting, ahead <- Ahead, seated <- Active, promoted <- Promoted,
       seats <- maxStudents

\* Whatever joins, leaves, books, is promoted, erased or cancelled, and in
\* whichever order, the positions stored behave as one first-come queue, and the
\* hook's promotions come from its head.
ImplementsPromotionQueue == Abstract!Spec
================================================================================
