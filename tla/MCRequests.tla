------------------------------ MODULE MCRequests ------------------------------
(* A leave of a manager and an HR officer of different departments, two    *)
(* receipts, and three cars' requests of which the second clashes with     *)
(* both others, with two requests to the server at once.                   *)
EXTENDS Requests, TLC

CONSTANTS m1, hr, ops, admin, r1, r2, r3

MCManagers == {m1}
MCHr == {hr}
MCDepartments == {ops, admin}

OtherDept == (m1 :> admin) @@ (hr :> ops)

MCClashes == {<<r1, r2>>, <<r2, r1>>, <<r2, r3>>, <<r3, r2>>}
MCClaimed == r1 :> 1 @@ r2 :> 1

Symmetry == Permutations(Handlers)
=============================================================================
