---------------------------- MODULE MCOutboxStore ----------------------------
(* Model values for OutboxStore: the tabs are interchangeable, and each account      *)
(* teaches some of the registrations.                                        *)
EXTENDS OutboxStore, TLC

CONSTANTS r1, r2, o1, o2

TeacherOf(r) == IF r = r2 THEN o2 ELSE o1

Symmetry == Permutations(Tabs)

\* What a device may refuse: nothing; writes, as a full or private storage does,
\* and the record of a clear; reads as well; the removal as well.
MCRefusals == {{}} \cup {{"write", "smaller", "record"} \cup more :
                          more \in {{}, {"read"}, {"removal"}}}

\* One account marks one registration.
OneAccount ==
    /\ \A m \in 1..Len(taps) : RegOf(m) = r1
    /\ clearing # None => clearing.what # o2

\* The bounds: three marks, on two registrations where nothing is refused; two
\* where reads or removals may be.
Bounded ==
    /\ refusable \cap {"read", "removal"} # {} => Len(taps) <= 2
    /\ refusable # {} /\ "read" \notin refusable => OneAccount

MCNext == Next /\ Bounded'

MCSpec == Init /\ [][MCNext]_storeVars
=============================================================================
