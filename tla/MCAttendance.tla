----------------------------- MODULE MCAttendance -----------------------------
(* Employees on one date.                                                  *)
EXTENDS Attendance, TLC

CONSTANTS d1, d2, r1, r2, r3, r4

Symmetry == Permutations(Days) \cup Permutations(Ids)

SameDate == [d \in Days |-> 1]
=============================================================================
