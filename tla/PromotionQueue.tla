---------------------------- MODULE PromotionQueue ----------------------------
(***************************************************************************)
(* What a waitlist promises, without saying how it is stored: a line in    *)
(* the order its members joined, which a student is marked "promoted" out  *)
(* of only from its head and only into a free seat, and which a student    *)
(* joins only at its end, only while there is none.                        *)
(***************************************************************************)
EXTENDS Naturals, FiniteSets

CONSTANT Students

VARIABLES
  line,      \* the waiting students
  ahead,     \* the pairs of them of which the first stands ahead of the second
  seated,    \* the students who hold a seat
  promoted,  \* the students whose place in the line was turned into a seat
  seats      \* the number of seats

vars == <<line, ahead, seated, promoted, seats>>

Init ==
  /\ line = {}
  /\ ahead = {}
  /\ seated = {}
  /\ promoted = {}
  /\ seats \in Nat

SeatFree == Cardinality(seated) < seats

\* The others keep their order.
LeaveLine(s) ==
  /\ line' = line \ {s}
  /\ ahead' = {p \in ahead : s \notin {p[1], p[2]}}

Join(s) ==
  /\ ~SeatFree
  /\ s \notin seated \cup line
  /\ line' = line \cup {s}
  /\ ahead' = ahead \cup (line \X {s})
  /\ promoted' = promoted \ {s}
  /\ UNCHANGED <<seated, seats>>

Promote(s) ==
  /\ s \in line
  /\ \A t \in line : <<t, s>> \notin ahead
  /\ SeatFree
  /\ LeaveLine(s)
  /\ seated' = seated \cup {s}
  /\ promoted' = promoted \cup {s}
  /\ UNCHANGED seats

\* A student books or claims a seat, from the line or past it.
TakeSeat(s) ==
  /\ s \notin seated
  /\ seated' = seated \cup {s}
  /\ LeaveLine(s)
  /\ UNCHANGED <<promoted, seats>>

GiveUpSeat(s) ==
  /\ s \in seated
  /\ seated' = seated \ {s}
  /\ UNCHANGED <<line, ahead, promoted, seats>>

Leave(s) ==
  /\ s \in line
  /\ LeaveLine(s)
  /\ UNCHANGED <<seated, promoted, seats>>

\* An erased student leaves the line and the seat in one step.
Erase(s) ==
  /\ LeaveLine(s)
  /\ seated' \in {seated, seated \ {s}}
  /\ promoted' = promoted \ {s}
  /\ UNCHANGED seats

Close ==
  /\ line' = {}
  /\ ahead' = {}
  /\ UNCHANGED <<seated, promoted, seats>>

\* The number of seats is fixed by the first to take one.
ChangeSeats ==
  /\ seated = {}
  /\ line = {}
  /\ seats' \in Nat
  /\ UNCHANGED <<line, ahead, seated, promoted>>

Next ==
  \/ \E s \in Students :
       \/ Join(s) \/ Promote(s) \/ TakeSeat(s)
       \/ GiveUpSeat(s) \/ Leave(s) \/ Erase(s)
  \/ Close
  \/ ChangeSeats

Spec == Init /\ [][Next]_vars

\* The line is one: no two of its students are both ahead of each other or
\* neither, and nobody gets between two of them.
InLine ==
  /\ ahead \subseteq line \X line
  /\ \A s, t \in line : s # t => (<<s, t>> \in ahead <=> <<t, s>> \notin ahead)
  /\ \A s \in line : <<s, s>> \notin ahead
  /\ \A s, t, u \in line :
       <<s, t>> \in ahead /\ <<t, u>> \in ahead => <<s, u>> \in ahead
===============================================================================
