-------------------------- MODULE MCAttendanceSync --------------------------
(* Model values for AttendanceSync: the tabs are interchangeable, and each account      *)
(* teaches some of the registrations.                                        *)
EXTENDS AttendanceSync, TLC

CONSTANTS r1, r2, o1, o2

TeacherOf(r) == IF r = r2 THEN o2 ELSE o1

Symmetry == Permutations(Tabs)
=============================================================================
