-------------------------- MODULE TwoLevelApproval --------------------------
(***************************************************************************)
(* What the leave-approval component promises, without its statuses, its   *)
(* database or its request handlers: a leave is granted only once a        *)
(* manager and an HR officer have both consented, and HR is never asked    *)
(* before a manager has consented.  A grant may be lost again (withdrawn,  *)
(* sent back, overtaken by a later decision); a consent is never erased.   *)
(***************************************************************************)
CONSTANT Leaves

VARIABLES consents,   \* consents[l]: which of the two levels consented
          granted     \* granted[l]: the leave counts as approved

vars == <<consents, granted>>

Levels == {"manager", "hr"}

Init == /\ consents = [l \in Leaves |-> {}]
        /\ granted = [l \in Leaves |-> FALSE]

ManagerConsents(l) ==
  /\ consents' = [consents EXCEPT ![l] = @ \cup {"manager"}]
  /\ UNCHANGED granted

HrConsents(l) ==
  /\ "manager" \in consents[l]
  /\ consents' = [consents EXCEPT ![l] = @ \cup {"hr"}]
  /\ UNCHANGED granted

Grant(l) ==
  /\ consents[l] = Levels
  /\ granted' = [granted EXCEPT ![l] = TRUE]
  /\ UNCHANGED consents

Revoke(l) ==
  /\ granted' = [granted EXCEPT ![l] = FALSE]
  /\ UNCHANGED consents

Next == \E l \in Leaves :
          ManagerConsents(l) \/ HrConsents(l) \/ Grant(l) \/ Revoke(l)

Spec == Init /\ [][Next]_vars
=============================================================================
