------------------------- MODULE LeaveRequestProofs -------------------------
(***************************************************************************)
(* The safety properties of LeaveRequest for any number of leaves, users   *)
(* and concurrent handlers, and its refinement of TwoLevelApproval; and    *)
(* those of CarReservation, CashAdvance and Reimbursement, with the same   *)
(* generality.                                                             *)
(***************************************************************************)
EXTENDS Requests, TLAPS

(* Init establishes the invariant.                                         *)
LEMMA InitIInv == Init => IInv
BY DEF Init, IInv, TypeOK, HrActsAfterManager, StatusBackedByTrail,
       HandlerBacked, Backed, ReportSeen, ReportCountsOnce, Has, Idle, Status,
       ReportPhases

(* The row an action adds to the trail is well-typed.                      *)
LEMMA ActionOfType ==
  ASSUME NEW r, r.leave \in Leaves, r.by \in Users, r.status \in Decisions,
         NEW level \in {"manager", "hr"}
  PROVE  /\ ActionOf(r, level) \in AdminAction
         /\ ActionOf(r, level).leave = r.leave
         /\ ActionOf(r, level).via = level
         /\ ActionOf(r, level).status = r.status
BY DeptAssumption DEF ActionOf, AdminAction, Users

(* A row once in the trail stays there: every decision shown remains so.   *)
LEMMA HasMonotone ==
  ASSUME trail \subseteq trail', NEW l, NEW level, NEW d, Has(l, level, d)
  PROVE  Has(l, level, d)'
BY DEF Has

(* What the local variables of a busy handler are.                         *)
LEMMA HandlerFields ==
  ASSUME TypeOK, NEW h \in Handlers
  PROVE  /\ handler[h].pc \in {"pm_count", "pm_create", "pm_write"} =>
              handler[h] \in [pc: {"pm_count", "pm_create", "pm_write"},
                leave: Leaves, by: Managers, status: Decisions]
         /\ handler[h].pc \in {"hr_create", "hr_write"} =>
              handler[h] \in [pc: {"hr_create", "hr_write"}, leave: Leaves,
                by: HrOfficers, status: Decisions, paid: BOOLEAN]
         /\ handler[h].pc \in {"withdraw_write", "submit_write"} =>
              handler[h] \in Writing
BY DEF TypeOK, Idle, Deciding, Writing

-----------------------------------------------------------------------------
(* Types: one step per action.                                             *)

LEMMA NextTypeOK == TypeOK /\ [Next]_vars => TypeOK'
<1> SUFFICES ASSUME TypeOK, [Next]_vars PROVE TypeOK'
  OBVIOUS
<1>1. CASE \E l \in Leaves, p \in BOOLEAN : Create(l, p)
  BY <1>1 DEF TypeOK, Create, Status
<1>2. ASSUME NEW h \in Handlers, ManagerStep(h) PROVE TypeOK'
  <2>1. ASSUME NEW l \in Leaves, NEW m \in Managers, NEW d \in Decisions,
               PmRead(h, l, m, d)
        PROVE  TypeOK'
    BY <2>1 DEF TypeOK, PmRead, Deciding
  <2>2. CASE PmCountPasses(h)
    BY <2>2, HandlerFields DEF TypeOK, PmCountPasses, Deciding
  <2>3. CASE PmCountThrows(h)
    BY <2>3 DEF TypeOK, PmCountThrows
  <2>4. CASE PmCreateAction(h)
    <3>1. ActionOf(handler[h], "manager") \in AdminAction
      BY <2>4, HandlerFields, ActionOfType DEF PmCreateAction, Users
    <3>2. handler' \in [Handlers -> {Idle} \cup Deciding \cup Writing]
      BY <2>4, HandlerFields DEF TypeOK, PmCreateAction, Deciding
    <3> QED
      BY <2>4, <3>1, <3>2 DEF TypeOK, PmCreateAction
  <2>5. CASE PmWrite(h)
    BY <2>5, HandlerFields DEF TypeOK, PmWrite, Status, Decisions
  <2> QED
    BY <1>2, <2>1, <2>2, <2>3, <2>4, <2>5 DEF ManagerStep
<1>3. ASSUME NEW h \in Handlers, HrStep(h) PROVE TypeOK'
  <2>1. ASSUME NEW l \in Leaves, NEW u \in HrOfficers, NEW d \in Decisions,
               NEW p \in BOOLEAN, HrRead(h, l, u, d, p)
        PROVE  TypeOK'
    BY <2>1 DEF TypeOK, HrRead, Deciding
  <2>2. CASE HrCreateAction(h)
    <3>1. ActionOf(handler[h], "hr") \in AdminAction
      BY <2>2, HandlerFields, ActionOfType DEF HrCreateAction, Users
    <3>2. handler' \in [Handlers -> {Idle} \cup Deciding \cup Writing]
      BY <2>2, HandlerFields DEF TypeOK, HrCreateAction, Deciding
    <3> QED
      BY <2>2, <3>1, <3>2 DEF TypeOK, HrCreateAction
  <2>3. CASE HrWrite(h)
    BY <2>3, HandlerFields DEF TypeOK, HrWrite, Status, Decisions
  <2> QED
    BY <1>3, <2>1, <2>2, <2>3 DEF HrStep
<1>4. ASSUME NEW h \in Handlers, EmployeeStep(h) PROVE TypeOK'
  <2>1. ASSUME NEW l \in Leaves, SubmitRead(h, l) \/ WithdrawRead(h, l)
        PROVE  TypeOK'
    BY <2>1 DEF TypeOK, SubmitRead, WithdrawRead, Writing
  <2>2. CASE SubmitWrite(h) \/ WithdrawWrite(h)
    BY <2>2, HandlerFields
       DEF TypeOK, SubmitWrite, WithdrawWrite, Status, Writing
  <2> QED
    BY <1>4, <2>1, <2>2 DEF EmployeeStep
<1>5. ASSUME NEW h \in Handlers, Fail(h) PROVE TypeOK'
  BY <1>5 DEF TypeOK, Fail
<1>6. CASE ReportPaid \/ ReportUnpaid \/ ReportReturn
  BY <1>6 DEF TypeOK, ReportPaid, ReportUnpaid, ReportReturn, ReportPhases,
              ApprovedPaid, ApprovedUnpaid
<1>7. CASE UNCHANGED vars
  BY <1>7 DEF TypeOK, vars
<1> QED
  BY <1>1, <1>2, <1>3, <1>4, <1>5, <1>6, <1>7 DEF Next

(* Every variable of the component always has its type.                    *)
THEOREM TypeCorrect == Spec => []TypeOK
<1>1. Init => TypeOK
  BY InitIInv DEF IInv
<1> QED
  BY <1>1, NextTypeOK, PTL DEF Spec

-----------------------------------------------------------------------------
(* Safety: the steps that touch the trail or a status, one by one; the     *)
(* others only move local variables.                                       *)

(* The steps of a manager's handler keep what the trail justifies.         *)
LEMMA ManagerKeeps ==
  ASSUME IInv, TypeOK', NEW h \in Handlers, ManagerStep(h)
  PROVE  HrActsAfterManager' /\ StatusBackedByTrail' /\ HandlerBacked'
<1>1. ASSUME NEW l \in Leaves, NEW m \in Managers, NEW d \in Decisions,
             PmRead(h, l, m, d)
      PROVE  HrActsAfterManager' /\ StatusBackedByTrail' /\ HandlerBacked'
  BY <1>1 DEF IInv, TypeOK, PmRead, HrActsAfterManager, StatusBackedByTrail,
              HandlerBacked, Backed, Has
<1>2. CASE PmCountPasses(h) \/ PmCountThrows(h)
  BY <1>2, HandlerFields
     DEF IInv, TypeOK, PmCountPasses, PmCountThrows, HrActsAfterManager,
         StatusBackedByTrail, HandlerBacked, Backed, Has, Idle
<1>3. CASE PmCreateAction(h)
  <2> DEFINE a == ActionOf(handler[h], "manager")
  <2>1. /\ handler[h].leave \in Leaves
        /\ a \in trail' /\ trail \subseteq trail' /\ status' = status
        /\ \A b \in trail' : b = a \/ b \in trail
    BY <1>3, HandlerFields DEF IInv, PmCreateAction
  <2>2. /\ a.leave = handler[h].leave /\ a.via = "manager"
        /\ a.status = handler[h].status
    BY <1>3, HandlerFields, ActionOfType DEF IInv, PmCreateAction, Users
  <2>3. HrActsAfterManager'
    BY <2>1, <2>2, HasMonotone DEF IInv, HrActsAfterManager
  <2>4. StatusBackedByTrail'
    BY <2>1, HasMonotone DEF IInv, StatusBackedByTrail
  <2>5. HandlerBacked'
    <3>1. ASSUME NEW g \in Handlers, g # h PROVE Backed(handler[g])'
      <4>1. handler'[g] = handler[g] /\ Backed(handler[g])
        BY <1>3, <3>1 DEF PmCreateAction, IInv, TypeOK, HandlerBacked
      <4> QED
        BY <4>1, <2>1 DEF Backed, Has
    <3>2. Backed(handler[h])'
      <4>1. handler'[h].pc = "pm_write"
            /\ handler'[h].leave = handler[h].leave
            /\ handler'[h].status = handler[h].status
        BY <1>3, HandlerFields DEF PmCreateAction, IInv, TypeOK
      <4> QED
        BY <4>1, <2>1, <2>2 DEF Backed, Has
    <3> QED
      BY <3>1, <3>2 DEF HandlerBacked
  <2> QED
    BY <2>3, <2>4, <2>5
<1>4. CASE PmWrite(h)
  <2>1. HrActsAfterManager'
    BY <1>4 DEF IInv, PmWrite, HrActsAfterManager, Has
  <2>2. StatusBackedByTrail'
    BY <1>4, HandlerFields
       DEF IInv, TypeOK, PmWrite, StatusBackedByTrail, HandlerBacked, Backed, Has,
           Decisions
  <2>3. HandlerBacked'
    BY <1>4 DEF IInv, TypeOK, PmWrite, HandlerBacked, Backed, Has, Idle
  <2> QED
    BY <2>1, <2>2, <2>3
<1> QED
  BY <1>1, <1>2, <1>3, <1>4 DEF ManagerStep

(* The steps of an HR officer's handler: the row was read in_progress, so  *)
(* a manager's approval was in the trail, and it is still there.           *)
LEMMA HrKeeps ==
  ASSUME IInv, TypeOK', NEW h \in Handlers, HrStep(h)
  PROVE  HrActsAfterManager' /\ StatusBackedByTrail' /\ HandlerBacked'
<1>1. ASSUME NEW l \in Leaves, NEW u \in HrOfficers, NEW d \in Decisions,
             NEW p \in BOOLEAN, HrRead(h, l, u, d, p)
      PROVE  HrActsAfterManager' /\ StatusBackedByTrail' /\ HandlerBacked'
  BY <1>1 DEF IInv, TypeOK, HrRead, HrActsAfterManager, StatusBackedByTrail,
              HandlerBacked, Backed, Has
<1>2. CASE HrCreateAction(h)
  <2> DEFINE a == ActionOf(handler[h], "hr")
  <2>1. /\ handler[h].leave \in Leaves
        /\ Has(handler[h].leave, "manager", "approved")
        /\ a \in trail' /\ trail \subseteq trail' /\ status' = status
        /\ \A b \in trail' : b = a \/ b \in trail
    BY <1>2, HandlerFields DEF IInv, HrCreateAction, HandlerBacked, Backed
  <2>2. /\ a.leave = handler[h].leave /\ a.via = "hr"
        /\ a.status = handler[h].status
    BY <1>2, HandlerFields, ActionOfType DEF IInv, HrCreateAction, Users
  <2>3. HrActsAfterManager'
    BY <2>1, <2>2, HasMonotone DEF IInv, HrActsAfterManager
  <2>4. StatusBackedByTrail'
    BY <2>1, HasMonotone DEF IInv, StatusBackedByTrail
  <2>5. HandlerBacked'
    <3>1. ASSUME NEW g \in Handlers, g # h PROVE Backed(handler[g])'
      <4>1. handler'[g] = handler[g] /\ Backed(handler[g])
        BY <1>2, <3>1 DEF HrCreateAction, IInv, TypeOK, HandlerBacked
      <4> QED
        BY <4>1, <2>1 DEF Backed, Has
    <3>2. Backed(handler[h])'
      <4>1. handler'[h].pc = "hr_write"
            /\ handler'[h].leave = handler[h].leave
            /\ handler'[h].status = handler[h].status
        BY <1>2, HandlerFields DEF HrCreateAction, IInv, TypeOK
      <4> QED
        BY <4>1, <2>1, <2>2 DEF Backed, Has
    <3> QED
      BY <3>1, <3>2 DEF HandlerBacked
  <2> QED
    BY <2>3, <2>4, <2>5
<1>3. CASE HrWrite(h)
  <2>1. HrActsAfterManager'
    BY <1>3 DEF IInv, HrWrite, HrActsAfterManager, Has
  <2>2. StatusBackedByTrail'
    BY <1>3, HandlerFields
       DEF IInv, TypeOK, HrWrite, StatusBackedByTrail, HandlerBacked, Backed,
           Has, Decisions
  <2>3. HandlerBacked'
    BY <1>3 DEF IInv, TypeOK, HrWrite, HandlerBacked, Backed, Has, Idle
  <2> QED
    BY <2>1, <2>2, <2>3
<1> QED
  BY <1>1, <1>2, <1>3 DEF HrStep

(* The employee's handlers write only statuses that claim no decision.     *)
LEMMA EmployeeKeeps ==
  ASSUME IInv, TypeOK', NEW h \in Handlers, EmployeeStep(h) \/ Fail(h)
  PROVE  HrActsAfterManager' /\ StatusBackedByTrail' /\ HandlerBacked'
<1>1. trail' = trail
  BY DEF EmployeeStep, SubmitRead, WithdrawRead, SubmitWrite, WithdrawWrite,
         Fail
<1>2. HrActsAfterManager'
  BY <1>1 DEF IInv, HrActsAfterManager, Has
<1>3. StatusBackedByTrail'
  BY <1>1 DEF IInv, TypeOK, EmployeeStep, SubmitRead, WithdrawRead,
              SubmitWrite, WithdrawWrite, Fail, StatusBackedByTrail, Has
<1>4. HandlerBacked'
  <2>1. \A g \in Handlers :
          handler'[g] = handler[g]
          \/ handler'[g].pc \in {"idle", "submit_write", "withdraw_write"}
    BY DEF IInv, TypeOK, EmployeeStep, SubmitRead, WithdrawRead, SubmitWrite,
           WithdrawWrite, Fail, Idle
  <2> QED
    BY <1>1, <2>1 DEF IInv, HandlerBacked, Backed, Has
<1> QED
  BY <1>2, <1>3, <1>4

(* Creating a leave and reading the report touch neither trail nor any     *)
(* status of an existing leave.                                            *)
LEMMA OthersKeep ==
  ASSUME IInv, \/ \E l \in Leaves, p \in BOOLEAN : Create(l, p)
               \/ ReportPaid \/ ReportUnpaid \/ ReportReturn
               \/ UNCHANGED vars
  PROVE  HrActsAfterManager' /\ StatusBackedByTrail' /\ HandlerBacked'
<1>1. trail' = trail /\ handler' = handler
  BY DEF Create, ReportPaid, ReportUnpaid, ReportReturn, vars
<1>2. \A l \in Leaves : status'[l] = status[l] \/ status'[l] = "new"
  BY DEF IInv, TypeOK, Create, ReportPaid, ReportUnpaid, ReportReturn, vars
<1> QED
  BY <1>1, <1>2 DEF IInv, HrActsAfterManager, StatusBackedByTrail,
                    HandlerBacked, Backed, Has

(* isPaid of an existing leave is never taken back, so the leaves already  *)
(* counted as paid stay out of the unpaid query.                           *)
LEMMA ReportKeeps ==
  ASSUME IInv, TypeOK', [Next]_vars
  PROVE  ReportSeen' /\ ReportCountsOnce'
<1>1. \A l \in Leaves : isPaid[l] /\ Exists(l) => isPaid'[l] /\ Exists(l)'
  <2>1. CASE \E l \in Leaves, p \in BOOLEAN : Create(l, p)
    BY <2>1 DEF IInv, TypeOK, Create, Exists
  <2>2. CASE \E h \in Handlers : HrWrite(h)
    BY <2>2, HandlerFields DEF IInv, TypeOK, HrWrite, Exists, Decisions
  <2>3. CASE \E h \in Handlers : PmWrite(h) \/ SubmitWrite(h) \/ WithdrawWrite(h)
    BY <2>3, HandlerFields
       DEF IInv, TypeOK, PmWrite, SubmitWrite, WithdrawWrite, Exists,
           Decisions
  <2>4. CASE isPaid' = isPaid /\ status' = status
    BY <2>4 DEF Exists
  <2> QED
    BY <2>1, <2>2, <2>3, <2>4
       DEF Next, ManagerStep, HrStep, EmployeeStep, PmRead, PmCountPasses,
           PmCountThrows, PmCreateAction, HrRead, HrCreateAction, SubmitRead,
           WithdrawRead, Fail, ReportPaid, ReportUnpaid, ReportReturn, vars
<1>2. \A l \in ApprovedPaid : l \in Leaves /\ isPaid[l] /\ Exists(l)
  BY DEF ApprovedPaid, Exists
<1>3. \A l \in ApprovedUnpaid : ~ isPaid[l]
  BY DEF ApprovedUnpaid
<1>5. report.paid \subseteq Leaves
  BY DEF IInv, TypeOK
<1>6. CASE ReportPaid
  <2>1. report'.paid = ApprovedPaid /\ report'.unpaid = {}
    BY <1>6 DEF ReportPaid
  <2>2. isPaid' = isPaid /\ status' = status
    BY <1>6 DEF ReportPaid
  <2> QED
    BY <2>1, <2>2, <1>2 DEF ReportSeen, ReportCountsOnce, Exists
<1>7. CASE ReportUnpaid
  <2>1. report'.paid = report.paid /\ report'.unpaid = ApprovedUnpaid
    BY <1>7 DEF ReportUnpaid
  <2>2. isPaid' = isPaid /\ status' = status
    BY <1>7 DEF ReportUnpaid
  <2> QED
    BY <2>1, <2>2, <1>3, <1>5 DEF IInv, ReportSeen, ReportCountsOnce, Exists
<1>8. CASE ReportReturn
  BY <1>8 DEF ReportReturn, ReportSeen, ReportCountsOnce
<1>9. CASE report' = report
  BY <1>1, <1>5, <1>9 DEF IInv, ReportSeen, ReportCountsOnce
<1> QED
  BY <1>6, <1>7, <1>8, <1>9
     DEF Next, ManagerStep, HrStep, EmployeeStep, PmRead, PmCountPasses,
         PmCountThrows, PmCreateAction, PmWrite, HrRead, HrCreateAction,
         HrWrite, SubmitRead, SubmitWrite, WithdrawRead, WithdrawWrite, Fail,
         Create, vars

LEMMA NextIInv == IInv /\ [Next]_vars => IInv'
<1> SUFFICES ASSUME IInv, [Next]_vars PROVE IInv'
  OBVIOUS
<1>1. TypeOK'
  BY NextTypeOK DEF IInv
<1>2. ReportSeen' /\ ReportCountsOnce'
  BY <1>1, ReportKeeps
<1>3. HrActsAfterManager' /\ StatusBackedByTrail' /\ HandlerBacked'
  BY <1>1, ManagerKeeps, HrKeeps, EmployeeKeeps, OthersKeep DEF Next
<1> QED
  BY <1>1, <1>2, <1>3 DEF IInv

(* The inductive invariant holds in every reachable state.                 *)
THEOREM Invariant == Spec => []IInv
BY InitIInv, NextIInv, PTL DEF Spec

(* HR never acts on a leave no manager approved.                           *)
THEOREM HrAfterManager == Spec => []HrActsAfterManager
<1>1. IInv => HrActsAfterManager
  BY DEF IInv
<1> QED
  BY <1>1, Invariant, PTL

(* No status claims a decision the audit trail does not show.              *)
THEOREM StatusBacked == Spec => []StatusBackedByTrail
<1>1. IInv => StatusBackedByTrail
  BY DEF IInv
<1> QED
  BY <1>1, Invariant, PTL

(* No leave is counted both as paid and as unpaid by one report.           *)
THEOREM ReportOnce == Spec => []ReportCountsOnce
<1>1. IInv => ReportCountsOnce
  BY DEF IInv
<1> QED
  BY <1>1, Invariant, PTL

-----------------------------------------------------------------------------
(* Refinement of TwoLevelApproval.                                         *)

AbsConsents == [l \in Leaves |-> Consents(l)]
AbsGranted == [l \in Leaves |-> status[l] = "approved"]

LEMMA InitRefines == Init => Promise!Init
<1> SUFFICES ASSUME Init PROVE Promise!Init
  OBVIOUS
<1>1. \A l \in Leaves : Consents(l) = {}
  BY DEF Init, Consents, Has
<1>2. \A l \in Leaves : (status[l] = "approved") = FALSE
  BY DEF Init
<1> QED
  BY <1>1, <1>2 DEF Promise!Init

(* Writing a status other than approved revokes the grant of that leave.   *)
LEMMA WriteRevokes ==
  ASSUME TypeOK, NEW l \in Leaves, NEW s, s # "approved",
         status' = [status EXCEPT ![l] = s], trail' = trail
  PROVE  Promise!Revoke(l)
<1>1. AbsConsents' = AbsConsents
  BY DEF AbsConsents, Consents, Has
<1>2. \A k \in Leaves : (status'[k] = "approved")
                          = (IF k = l THEN FALSE ELSE status[k] = "approved")
  BY DEF TypeOK
<1>3. AbsGranted' = [AbsGranted EXCEPT ![l] = FALSE]
  BY <1>2 DEF AbsGranted
<1> QED
  BY <1>1, <1>3 DEF Promise!Revoke, AbsConsents, AbsGranted

(* Adding one row to the trail adds its consent to its leave, if it is an  *)
(* approval, and no other.                                                 *)
LEMMA ConsentsAfter ==
  ASSUME NEW a \in AdminAction, trail' = trail \cup {a}
  PROVE  AbsConsents' = IF a.status = "approved"
                          THEN [AbsConsents EXCEPT ![a.leave] = @ \cup {a.via}]
                          ELSE AbsConsents
<1>1. a.leave \in Leaves /\ a.via \in {"manager", "hr"}
  BY DEF AdminAction
<1>2. \A l \in Leaves :
        Consents(l)' = IF a.status = "approved" /\ l = a.leave
                         THEN Consents(l) \cup {a.via} ELSE Consents(l)
  BY <1>1 DEF Consents, Has
<1> QED
  BY <1>1, <1>2 DEF AbsConsents

LEMMA ManagerActionRefines ==
  ASSUME IInv, NEW h \in Handlers, PmCreateAction(h)
  PROVE  Promise!Next \/ UNCHANGED Promise!vars
<1> DEFINE a == ActionOf(handler[h], "manager")
<1>1. /\ a \in AdminAction /\ a.leave = handler[h].leave /\ a.via = "manager"
      /\ trail' = trail \cup {a} /\ status' = status
  BY HandlerFields, ActionOfType DEF IInv, PmCreateAction, Users
<1>2. AbsGranted' = AbsGranted
  BY <1>1 DEF AbsGranted
<1>3. PICK l \in Leaves : l = handler[h].leave
  BY HandlerFields DEF IInv, PmCreateAction
<1>4. AbsConsents' = AbsConsents
      \/ AbsConsents' = [AbsConsents EXCEPT ![l] = @ \cup {"manager"}]
  BY <1>1, <1>3, ConsentsAfter
<1>5. Promise!ManagerConsents(l) \/ UNCHANGED Promise!vars
  BY <1>2, <1>4
     DEF Promise!ManagerConsents, Promise!vars, AbsConsents, AbsGranted
<1> QED
  BY <1>5 DEF Promise!Next

LEMMA HrActionRefines ==
  ASSUME IInv, NEW h \in Handlers, HrCreateAction(h)
  PROVE  Promise!Next \/ UNCHANGED Promise!vars
<1> DEFINE a == ActionOf(handler[h], "hr")
<1>1. /\ a \in AdminAction /\ a.leave = handler[h].leave /\ a.via = "hr"
      /\ trail' = trail \cup {a} /\ status' = status
  BY HandlerFields, ActionOfType DEF IInv, HrCreateAction, Users
<1>2. AbsGranted' = AbsGranted
  BY <1>1 DEF AbsGranted
<1>3. handler[h].leave \in Leaves /\ Has(handler[h].leave, "manager", "approved")
  BY HandlerFields DEF IInv, HrCreateAction, HandlerBacked, Backed
<1>4. "manager" \in AbsConsents[handler[h].leave]
  BY <1>3 DEF AbsConsents, Consents
<1> HIDE DEF a
<1> QED
  BY <1>1, <1>2, <1>4, ConsentsAfter
     DEF Promise!Next, Promise!HrConsents, Promise!vars, AbsConsents, AbsGranted

LEMMA HrWriteRefines ==
  ASSUME IInv, NEW h \in Handlers, HrWrite(h)
  PROVE  Promise!Next
<1>0. PICK l \in Leaves, s \in Decisions :
        l = handler[h].leave /\ s = handler[h].status
  BY HandlerFields DEF IInv, HrWrite
<1>1. trail' = trail /\ status' = [status EXCEPT ![l] = s]
  BY <1>0 DEF HrWrite
<1>2. CASE s # "approved"
  <2>1. Promise!Revoke(l)
    BY <1>1, <1>2, WriteRevokes DEF IInv
  <2> QED
    BY <2>1 DEF Promise!Next
<1>3. CASE s = "approved"
  <2>1. AbsConsents' = AbsConsents
    BY <1>1 DEF AbsConsents, Consents, Has
  <2>2. AbsConsents[l] = Promise!Levels
    BY <1>0, <1>3 DEF IInv, HrWrite, HandlerBacked, Backed, AbsConsents,
                      Consents, Promise!Levels
  <2>3. \A k \in Leaves : (status'[k] = "approved")
                          = (IF k = l THEN TRUE ELSE status[k] = "approved")
    BY <1>1, <1>3 DEF IInv, TypeOK
  <2>4. AbsGranted' = [AbsGranted EXCEPT ![l] = TRUE]
    BY <1>1, <2>3 DEF AbsGranted
  <2> QED
    BY <2>1, <2>2, <2>4 DEF Promise!Next, Promise!Grant, AbsConsents, AbsGranted
<1> QED
  BY <1>2, <1>3

(* Every step of the component is a step of the promise or none.           *)
LEMMA NextRefines ==
  ASSUME IInv, [Next]_vars
  PROVE  [Promise!Next]_(Promise!vars)
<1>1. ASSUME NEW l \in Leaves, NEW s, s # "approved",
             status' = [status EXCEPT ![l] = s], trail' = trail
      PROVE  Promise!Next
  BY <1>1, WriteRevokes DEF IInv, Promise!Next
<1>2. CASE status' = status /\ trail' = trail
  BY <1>2 DEF Promise!vars, Consents, Has
<1>3. ASSUME NEW l \in Leaves, NEW p \in BOOLEAN, Create(l, p)
      PROVE  Promise!Next
  BY <1>1, <1>3 DEF Create
<1>4. ASSUME NEW h \in Handlers, SubmitWrite(h) \/ WithdrawWrite(h) \/ PmWrite(h)
      PROVE  Promise!Next
  <2>1. handler[h].leave \in Leaves
    BY <1>4, HandlerFields
       DEF IInv, SubmitWrite, WithdrawWrite, PmWrite, Writing
  <2> QED
    BY <1>1, <1>4, <2>1 DEF SubmitWrite, WithdrawWrite, PmWrite
<1>5. ASSUME NEW h \in Handlers, PmCreateAction(h) \/ HrCreateAction(h) \/ HrWrite(h)
      PROVE  [Promise!Next]_(Promise!vars)
  BY <1>5, ManagerActionRefines, HrActionRefines, HrWriteRefines
<1> QED
  BY <1>2, <1>3, <1>4, <1>5
     DEF Next, ManagerStep, HrStep, EmployeeStep, PmRead, PmCountPasses,
         PmCountThrows, HrRead, SubmitRead, WithdrawRead, Fail, ReportPaid,
         ReportUnpaid, ReportReturn, vars

(* The workflow implements the two-level approval: a leave is approved     *)
(* only in a step where a manager and HR have both consented.              *)
THEOREM ImplementsTwoLevelApproval == Spec => ImplementsPromise
<1>1. Init => Promise!Init
  BY InitRefines
<1>2. IInv /\ [Next]_vars => [Promise!Next]_(Promise!vars)
  BY NextRefines
<1> QED
  BY <1>1, <1>2, Invariant, PTL DEF Spec, ImplementsPromise, Promise!Spec

-----------------------------------------------------------------------------
(* The reservations of cars.                                               *)

(* Whatever overlaps with a request that is going to be approved, and has  *)
(* its car, was approved after the check.                                  *)
Misses(h) ==
  cHandler[h].to = "approved" =>
    \A s \in Requests :
      <<cHandler[h].request, s>> \in Clashes /\ cStatus[s] = "approved" /\ car[s] = cHandler[h].car
        => s \in cHandler[h].missed

Booked(h) ==
  /\ cHandler[h].pc \in {"read", "trail", "write", "withdraw"} => cHandler[h].request \in Requests
  /\ cHandler[h].pc \in {"read", "trail", "write"} /\ cHandler[h].to = "approved" =>
       cHandler[h].car \in Cars
  /\ Misses(h)

CInv ==
  /\ Car!TypeOK
  /\ \A h \in Handlers : Booked(h)
  /\ Car!NoDoubleBooking

LEMMA IdleCar == Car!Idle \in Car!Handler /\ Car!Idle.pc = "idle" /\ Car!Idle.to = "submitted"
BY DEF Car!Idle, Car!Handler, Car!Status

LEMMA InitCar ==
  ASSUME CarAssumption, Car!Init
  PROVE  CInv
<1>1. Car!TypeOK
  BY IdleCar DEF Car!Init, Car!TypeOK, Car!Status, CarAssumption
<1>2. \A h \in Handlers : Booked(h)
  BY IdleCar DEF Car!Init, Booked, Misses
<1>3. Car!NoDoubleBooking
  BY DEF Car!Init, Car!NoDoubleBooking
<1> QED
  BY <1>1, <1>2, <1>3 DEF CInv

(* A step of a handler to a row that knows what it missed, while no other  *)
(* request is approved.                                                    *)
LEMMA CarStep ==
  ASSUME CInv, Car!TypeOK', NEW h \in Handlers,
         \A g \in Handlers \ {h} : cHandler'[g] = cHandler[g],
         \A s \in Requests : cStatus'[s] = "approved" => cStatus[s] = "approved",
         UNCHANGED <<car, unseen>>,
         Booked(h)'
  PROVE  CInv'
<1>1. \A g \in Handlers : Booked(g)'
  BY DEF CInv, Booked, Misses
<1>2. Car!NoDoubleBooking'
  BY DEF CInv, Car!NoDoubleBooking
<1> QED
  BY <1>1, <1>2 DEF CInv

LEMMA CarStarts ==
  ASSUME CarAssumption, CInv, NEW h \in Handlers, NEW new \in Car!Handler, Car!Starts(h, new)
  PROVE  /\ cHandler' \in [Handlers -> Car!Handler] /\ cHandler'[h] = new
         /\ \A g \in Handlers \ {h} : cHandler'[g] = cHandler[g]
         /\ cActions' \in 0..MaxActions
BY DEF CInv, Car!Starts, Car!TypeOK, CarAssumption

LEMMA CarEnds ==
  ASSUME CInv, NEW h \in Handlers, Car!Ends(h)
  PROVE  cHandler' \in [Handlers -> Car!Handler] /\ cHandler'[h] = Car!Idle
         /\ (\A g \in Handlers \ {h} : cHandler'[g] = cHandler[g])
         /\ Booked(h)'
<1>1. cHandler' \in [Handlers -> Car!Handler] /\ cHandler'[h] = Car!Idle
      /\ \A g \in Handlers \ {h} : cHandler'[g] = cHandler[g]
  BY IdleCar DEF CInv, Car!Ends, Car!TypeOK
<1>2. Booked(h)'
  BY <1>1, IdleCar DEF Booked, Misses
<1> QED
  BY <1>1, <1>2

LEMMA CarGoes ==
  ASSUME CInv, NEW h \in Handlers, NEW pc \in {"trail", "write"}, Car!Goes(h, pc)
  PROVE  /\ cHandler' \in [Handlers -> Car!Handler]
         /\ cHandler'[h].pc = pc /\ cHandler'[h].request = cHandler[h].request
         /\ cHandler'[h].to = cHandler[h].to /\ cHandler'[h].car = cHandler[h].car
         /\ cHandler'[h].missed = cHandler[h].missed
         /\ \A g \in Handlers \ {h} : cHandler'[g] = cHandler[g]
BY DEF CInv, Car!Goes, Car!TypeOK, Car!Handler

LEMMA ApproveStep ==
  ASSUME CarAssumption, CInv, NEW h \in Handlers, NEW r \in Requests, NEW c \in Cars, Car!Approve(h, r, c)
  PROVE  CInv'
<1> DEFINE new == [pc |-> "read", request |-> r, to |-> "approved", car |-> c, missed |-> {}]
<1>1. new \in Car!Handler
  BY DEF Car!Handler, Car!Status
<1>2. new.pc = "read" /\ new.request = r /\ new.to = "approved" /\ new.car = c
  OBVIOUS
<1>3. Car!Starts(h, new) /\ Car!Free(c, r)
      /\ UNCHANGED <<cStatus, car, cTrail, unseen, cFailures>>
  BY DEF Car!Approve
<1> HIDE DEF new
<1>4. cHandler' \in [Handlers -> Car!Handler] /\ cHandler'[h] = new
      /\ (\A g \in Handlers \ {h} : cHandler'[g] = cHandler[g])
      /\ cActions' \in 0..MaxActions
  BY <1>1, <1>3, CarStarts
<1>5. Car!TypeOK'
  BY <1>3, <1>4 DEF CInv, Car!TypeOK
<1>6. Booked(h)'
  BY <1>2, <1>3, <1>4 DEF Booked, Misses, Car!Free
<1> QED
  BY <1>3, <1>4, <1>5, <1>6, CarStep

LEMMA StartStep ==
  ASSUME CarAssumption, CInv, NEW h \in Handlers, NEW r \in Requests,
         Car!Reject(h, r) \/ Car!WithdrawRead(h, r)
  PROVE  CInv'
<1>1. PICK new : /\ new \in Car!Handler /\ new.pc \in {"read", "withdraw"}
                 /\ new.request = r /\ new.to # "approved"
                 /\ Car!Starts(h, new)
  <2>1. CASE Car!Reject(h, r)
    <3> DEFINE new == [Car!Idle EXCEPT !.pc = "read", !.request = r, !.to = "rejected"]
    <3>1. new \in Car!Handler /\ new.pc = "read" /\ new.request = r /\ new.to = "rejected"
      BY DEF Car!Idle, Car!Handler, Car!Status
    <3>2. Car!Starts(h, new)
      BY <2>1 DEF Car!Reject
    <3> HIDE DEF new
    <3> QED
      BY <3>1, <3>2
  <2>2. CASE Car!WithdrawRead(h, r)
    <3> DEFINE new == [Car!Idle EXCEPT !.pc = "withdraw", !.request = r]
    <3>1. new \in Car!Handler /\ new.pc = "withdraw" /\ new.request = r /\ new.to = "submitted"
      BY DEF Car!Idle, Car!Handler, Car!Status
    <3>2. Car!Starts(h, new)
      BY <2>2 DEF Car!WithdrawRead
    <3> HIDE DEF new
    <3> QED
      BY <3>1, <3>2
  <2> QED
    BY <2>1, <2>2
<1>2. UNCHANGED <<cStatus, car, cTrail, unseen, cFailures>>
  BY DEF Car!Reject, Car!WithdrawRead
<1>3. cHandler' \in [Handlers -> Car!Handler] /\ cHandler'[h] = new
      /\ (\A g \in Handlers \ {h} : cHandler'[g] = cHandler[g])
      /\ cActions' \in 0..MaxActions
  BY <1>1, CarStarts
<1>4. Car!TypeOK'
  BY <1>2, <1>3 DEF CInv, Car!TypeOK
<1>5. Booked(h)'
  BY <1>1, <1>3 DEF Booked, Misses
<1> QED
  BY <1>2, <1>3, <1>4, <1>5, CarStep

LEMMA GoOnStep ==
  ASSUME CInv, NEW h \in Handlers, Car!HrRead(h) \/ Car!HrTrail(h)
  PROVE  CInv'
<1>1. CASE Car!Ends(h) /\ Car!HrRead(h)
  <2>1. Car!TypeOK'
    BY <1>1, CarEnds DEF Car!HrRead, CInv, Car!TypeOK
  <2> QED
    BY <1>1, <2>1, CarEnds, CarStep DEF Car!HrRead
<1>2. CASE Car!Goes(h, "trail") /\ Car!HrRead(h)
  <2>1. Car!TypeOK'
    BY <1>2, CarGoes DEF Car!HrRead, CInv, Car!TypeOK
  <2>2. Booked(h)'
    BY <1>2, CarGoes DEF Car!HrRead, CInv, Booked, Misses
  <2> QED
    BY <1>2, <2>1, <2>2, CarGoes, CarStep DEF Car!HrRead
<1>3. CASE Car!HrTrail(h)
  <2>1. Car!Goes(h, "write") /\ UNCHANGED <<cStatus, car, unseen, cActions, cFailures>>
        /\ cHandler[h].pc = "trail"
    BY <1>3 DEF Car!HrTrail
  <2>2. cTrail' \subseteq Requests
    BY <1>3, <2>1 DEF Car!HrTrail, CInv, Booked, Car!TypeOK
  <2>3. Car!TypeOK'
    BY <2>1, <2>2, CarGoes DEF CInv, Car!TypeOK
  <2>4. Booked(h)'
    BY <2>1, CarGoes DEF CInv, Booked, Misses
  <2> QED
    BY <2>1, <2>3, <2>4, CarGoes, CarStep
<1> QED
  BY <1>1, <1>2, <1>3 DEF Car!HrRead

(* A booking is missed by every request that is on its way.                *)
LEMMA BookStep ==
  ASSUME CarAssumption, CInv, NEW h \in Handlers, Car!HrWrite(h), cHandler[h].to = "approved"
  PROVE  CInv'
<1>1. PICK r \in Requests, c \in Cars, missed \in SUBSET Requests :
        r = cHandler[h].request /\ c = cHandler[h].car /\ missed = cHandler[h].missed
  BY DEF CInv, Booked, Car!HrWrite, Car!TypeOK, Car!Handler
<1>2. /\ cStatus' = [cStatus EXCEPT ![r] = "approved"]
      /\ car' = [car EXCEPT ![r] = c]
      /\ unseen' = [unseen EXCEPT ![r] = missed]
      /\ cHandler' = [g \in Handlers |->
           IF g = h THEN Car!Idle ELSE [cHandler[g] EXCEPT !.missed = @ \cup {r}]]
      /\ UNCHANGED <<cTrail, cActions, cFailures>>
  BY <1>1 DEF Car!HrWrite
<1>3. ASSUME NEW g \in Handlers \ {h}
      PROVE  /\ cHandler'[g] \in Car!Handler
             /\ cHandler'[g].pc = cHandler[g].pc /\ cHandler'[g].request = cHandler[g].request
             /\ cHandler'[g].to = cHandler[g].to /\ cHandler'[g].car = cHandler[g].car
             /\ cHandler'[g].missed = cHandler[g].missed \cup {r}
  <2> DEFINE row == [cHandler[g] EXCEPT !.missed = @ \cup {r}]
  <2>1. cHandler[g] \in Car!Handler
    BY DEF CInv, Car!TypeOK
  <2>2. /\ row \in Car!Handler /\ row.pc = cHandler[g].pc
        /\ row.request = cHandler[g].request /\ row.to = cHandler[g].to
        /\ row.car = cHandler[g].car /\ row.missed = cHandler[g].missed \cup {r}
    BY <2>1 DEF Car!Handler
  <2>3. cHandler'[g] = row
    BY <1>2
  <2> HIDE DEF row
  <2> QED
    BY <2>2, <2>3
<1>4. cHandler'[h] = Car!Idle
  BY <1>2
<1>5. Car!TypeOK'
  <2>1. cHandler' \in [Handlers -> Car!Handler]
    <3>1. \A g \in Handlers : cHandler'[g] \in Car!Handler
      BY <1>3, <1>4, IdleCar
    <3>2. cHandler' = [g \in Handlers |-> cHandler'[g]]
      BY <1>2
    <3> QED
      BY <3>1, <3>2
  <2> QED
    BY <1>2, <2>1 DEF CInv, Car!TypeOK, Car!Status
<1>6. /\ \A s \in Requests : cStatus'[s] = IF s = r THEN "approved" ELSE cStatus[s]
      /\ \A s \in Requests : car'[s] = IF s = r THEN c ELSE car[s]
      /\ \A s \in Requests : unseen'[s] = IF s = r THEN missed ELSE unseen[s]
  BY <1>2 DEF CInv, Car!TypeOK
<1>7. ASSUME NEW g \in Handlers
      PROVE  Booked(g)'
  <2>1. CASE g = h
    BY <1>4, <2>1, IdleCar DEF Booked, Misses
  <2>2. CASE g # h
    BY <1>3, <1>6, <2>2 DEF CInv, Booked, Misses
  <2> QED
    BY <2>1, <2>2
<1>8. Car!NoDoubleBooking'
  <2> SUFFICES ASSUME NEW a \in Requests, NEW b \in Requests, <<a, b>> \in Clashes,
                      cStatus'[a] = "approved", cStatus'[b] = "approved", car'[a] = car'[b]
               PROVE  b \in unseen'[a] \/ a \in unseen'[b]
    BY DEF Car!NoDoubleBooking
  <2>1. Misses(h) /\ a # b /\ <<b, a>> \in Clashes
    BY DEF CInv, Booked, CarAssumption
  <2>2. CASE a = r
    BY <1>1, <1>6, <2>1, <2>2 DEF Misses
  <2>3. CASE b = r
    BY <1>1, <1>6, <2>1, <2>3 DEF Misses
  <2>4. CASE a # r /\ b # r
    BY <1>6, <2>4 DEF CInv, Car!NoDoubleBooking
  <2> QED
    BY <2>2, <2>3, <2>4
<1> QED
  BY <1>5, <1>7, <1>8 DEF CInv

(* The writes that book nothing.                                           *)
LEMMA UnbookStep ==
  ASSUME CInv, NEW h \in Handlers,
         \/ Car!HrWrite(h) /\ cHandler[h].to # "approved"
         \/ Car!WithdrawWrite(h)
  PROVE  CInv'
<1>1. PICK r \in Requests, to \in Car!Status \ {"approved"} :
        cStatus' = [cStatus EXCEPT ![r] = to]
  <2>1. cHandler[h].request \in Requests /\ cHandler[h].to \in Car!Status
    BY DEF CInv, Booked, Car!HrWrite, Car!WithdrawWrite, Car!TypeOK, Car!Handler
  <2> QED
    BY <2>1 DEF Car!HrWrite, Car!WithdrawWrite, Car!Status
<1>2. Car!Ends(h) /\ UNCHANGED <<car, unseen, cTrail, cActions, cFailures>>
  BY DEF Car!HrWrite, Car!WithdrawWrite
<1>3. cStatus' \in [Requests -> Car!Status]
      /\ \A s \in Requests : cStatus'[s] = "approved" => cStatus[s] = "approved"
  BY <1>1 DEF CInv, Car!TypeOK
<1>4. Car!TypeOK'
  BY <1>2, <1>3, CarEnds DEF CInv, Car!TypeOK
<1> QED
  BY <1>2, <1>3, <1>4, CarEnds, CarStep

LEMMA SubmitStep ==
  ASSUME CarAssumption, CInv, NEW r \in Requests, Car!SubmitRequest(r)
  PROVE  CInv'
<1>1. /\ cStatus' = [cStatus EXCEPT ![r] = "submitted"]
      /\ cActions < MaxActions /\ cActions' = cActions + 1
      /\ UNCHANGED <<car, cTrail, cHandler, unseen, cFailures>>
  BY DEF Car!SubmitRequest
<1>2. cActions' \in 0..MaxActions
  BY <1>1 DEF CInv, Car!TypeOK, CarAssumption
<1>3. Car!TypeOK'
  BY <1>1, <1>2 DEF CInv, Car!TypeOK, Car!Status
<1>4. \A s \in Requests : cStatus'[s] = "approved" => cStatus[s] = "approved"
  BY <1>1 DEF CInv, Car!TypeOK
<1>5. \A h \in Handlers : Booked(h)'
  BY <1>1, <1>4 DEF CInv, Booked, Misses
<1>6. Car!NoDoubleBooking'
  BY <1>1, <1>4 DEF CInv, Car!NoDoubleBooking
<1> QED
  BY <1>3, <1>5, <1>6 DEF CInv

LEMMA FailStep ==
  ASSUME CarAssumption, CInv, NEW h \in Handlers, Car!QueryFails(h)
  PROVE  CInv'
<1>1. Car!Ends(h) /\ UNCHANGED <<cStatus, car, cTrail, unseen, cActions>>
  BY DEF Car!QueryFails
<1>2. cFailures' \in 0..MaxFailures
  BY DEF Car!QueryFails, CInv, Car!TypeOK, CarAssumption
<1>3. Car!TypeOK'
  BY <1>1, <1>2, CarEnds DEF CInv, Car!TypeOK
<1> QED
  BY <1>1, <1>3, CarEnds, CarStep

LEMMA CarNext == CarAssumption /\ CInv /\ [Car!Next]_(Car!vars) => CInv'
<1> SUFFICES ASSUME CarAssumption, CInv, [Car!Next]_(Car!vars) PROVE CInv'
  OBVIOUS
<1>1. CASE UNCHANGED Car!vars
  BY <1>1 DEF Car!vars, CInv, Car!TypeOK, Booked, Misses, Car!NoDoubleBooking
<1>2. ASSUME NEW h \in Handlers, NEW r \in Requests,
             \/ \E c \in Cars : Car!Approve(h, r, c)
             \/ Car!Reject(h, r) \/ Car!WithdrawRead(h, r)
      PROVE  CInv'
  BY <1>2, ApproveStep, StartStep
<1>3. ASSUME NEW h \in Handlers,
             Car!HrRead(h) \/ Car!HrTrail(h) \/ Car!HrWrite(h) \/ Car!WithdrawWrite(h)
               \/ Car!QueryFails(h)
      PROVE  CInv'
  BY <1>3, GoOnStep, BookStep, UnbookStep, FailStep
<1>4. ASSUME NEW r \in Requests, Car!SubmitRequest(r)
      PROVE  CInv'
  BY <1>4, SubmitStep
<1> QED
  BY <1>1, <1>2, <1>3, <1>4 DEF Car!Next

(* For any cars, requests and handlers: a car is booked twice for the same *)
(* time only if one approval was written between the check of the other    *)
(* (car-reservation.controller.ts:164) and its write.                      *)
THEOREM CarBookedOnce == CarAssumption => (Car!Spec => []Car!NoDoubleBooking)
<1> SUFFICES ASSUME CarAssumption PROVE Car!Spec => []Car!NoDoubleBooking
  OBVIOUS
<1>1. Car!Init => CInv
  BY InitCar
<1>2. CInv /\ [Car!Next]_(Car!vars) => CInv'
  BY CarNext
<1>3. CInv => Car!NoDoubleBooking
  BY DEF CInv
<1> QED
  BY <1>1, <1>2, <1>3, PTL DEF Car!Spec

-----------------------------------------------------------------------------
(* Cash advances.                                                          *)

(* HR's approval is on the trail, on its way there, or was lost.           *)
Backing(h) ==
  aHandler[h].dept = "hr" /\ aHandler[h].to \in Cash!Granted /\ "trail" \in aHandler[h].todo

HrGranted ==
  \/ aTrail[<<"hr", "Approved">>] > 0
  \/ "hr" \in lost
  \/ \E h \in Handlers : Backing(h)

(* Whoever is about to grant or to pay goes on HR's approval.              *)
GrantsRest ==
  /\ (aStatus \in Cash!Granted \cup {"paid_and_closed"} \/ payments > 0) => HrGranted
  /\ \A h \in Handlers :
       /\ aHandler[h].dept \in {"manager", "finance"} => HrGranted
       /\ aHandler[h].dept = "hr" /\ aHandler[h].to \in Cash!Granted => HrGranted
       /\ aHandler[h].to = "paid_and_closed" => aHandler[h].dept = "finance"
       /\ aHandler[h].to \in Cash!Granted => aHandler[h].dept \in {"hr", "manager"}
       /\ aHandler[h].dept = "owner" => "trail" \notin aHandler[h].todo
       /\ aHandler[h].dept = "none" => aHandler[h] = Cash!Idle

(* Nobody decides on an advance that was paid, as far as he has seen.      *)
SeenUnpaid ==
  /\ \A h \in Handlers : aHandler[h].dept # "none" => aHandler[h].seen # "paid_and_closed"
  /\ \/ stale
     \/ payments = 0
     \/ payments = 1 /\ aStatus = "paid_and_closed"

AInv == Cash!TypeOK /\ GrantsRest /\ SeenUnpaid

LEMMA CashIdle ==
  /\ Cash!Idle \in Cash!Handler /\ Cash!Idle.dept = "none" /\ Cash!Idle.to = "submitted"
  /\ Cash!Idle.todo = {}
BY DEF Cash!Idle, Cash!Handler, Cash!Status, Cash!Depts

LEMMA CashInit == CashAssumption /\ Cash!Init => AInv
<1> SUFFICES ASSUME CashAssumption, Cash!Init PROVE AInv
  OBVIOUS
<1>1. /\ aStatus = "submitted" /\ \A h \in Handlers : aHandler[h] = Cash!Idle
      /\ payments = 0 /\ lost = {} /\ stale = FALSE /\ aActions = 0 /\ aFailures = 0
  BY DEF Cash!Init
<1>2. Cash!TypeOK
  <2>1. aTrail \in [Cash!Depts \X {"Approved", "Rejected"} -> Nat]
    BY DEF Cash!Init
  <2>2. aHandler \in [Handlers -> Cash!Handler]
    BY CashIdle DEF Cash!Init
  <2>3. aStatus \in Cash!Status
    BY <1>1 DEF Cash!Status
  <2>4. aActions \in 0..MaxDecisions /\ aFailures \in 0..MaxLost
    BY <1>1 DEF CashAssumption
  <2> QED
    BY <1>1, <2>1, <2>2, <2>3, <2>4 DEF Cash!TypeOK
<1>3. GrantsRest /\ SeenUnpaid
  BY <1>1, CashIdle DEF GrantsRest, SeenUnpaid, Cash!Granted
<1> QED
  BY <1>2, <1>3 DEF AInv

(* What backs an approval still does when a new decision begins.           *)
LEMMA DecideStep ==
  ASSUME CashAssumption, AInv, NEW h \in Handlers, NEW dept \in {"hr", "manager", "finance", "owner"},
         NEW to \in Cash!Status, NEW todo \in SUBSET {"status", "trail"},
         Cash!Decide(h, dept, to, todo), aStatus # "paid_and_closed",
         dept \in {"manager", "finance"} => aStatus \in Cash!Granted,
         to = "paid_and_closed" => dept = "finance",
         to \in Cash!Granted => dept \in {"hr", "manager"},
         dept = "hr" => "trail" \in todo, dept = "owner" => "trail" \notin todo
  PROVE  AInv'
<1> DEFINE new == [dept |-> dept, seen |-> aStatus, to |-> to, todo |-> todo]
<1>1. /\ aHandler[h].dept = "none" /\ aActions < MaxDecisions /\ aActions' = aActions + 1
      /\ aHandler' = [aHandler EXCEPT ![h] = new]
      /\ UNCHANGED <<aStatus, aTrail, payments, lost, stale, aFailures>>
  BY DEF Cash!Decide
<1>2. new \in Cash!Handler /\ new.dept = dept /\ new.seen = aStatus /\ new.to = to /\ new.todo = todo
  BY DEF AInv, Cash!TypeOK, Cash!Handler, Cash!Depts
<1> HIDE DEF new
<1>3. /\ aHandler'[h] = new /\ \A g \in Handlers \ {h} : aHandler'[g] = aHandler[g]
      /\ aHandler' \in [Handlers -> Cash!Handler]
  BY <1>1, <1>2 DEF AInv, Cash!TypeOK
<1>4. aActions' \in 0..MaxDecisions
  BY <1>1 DEF AInv, Cash!TypeOK, CashAssumption
<1>5. Cash!TypeOK'
  BY <1>1, <1>3, <1>4 DEF AInv, Cash!TypeOK
<1>6. aHandler[h].to = "submitted" /\ aHandler[h].todo = {}
  BY <1>1, CashIdle DEF AInv, GrantsRest
<1>7. HrGranted => HrGranted'
  BY <1>1, <1>3, <1>6 DEF HrGranted, Backing
<1>8. dept = "hr" /\ to \in Cash!Granted => HrGranted'
  BY <1>2, <1>3 DEF HrGranted, Backing
<1>9. GrantsRest'
  BY <1>1, <1>2, <1>3, <1>7, <1>8 DEF AInv, GrantsRest
<1>10. SeenUnpaid'
  BY <1>1, <1>2, <1>3 DEF AInv, SeenUnpaid
<1> QED
  BY <1>5, <1>9, <1>10 DEF AInv

LEMMA DecisionStep ==
  ASSUME CashAssumption, AInv, NEW h \in Handlers,
         Cash!HrUpdate(h) \/ Cash!ManagerUpdate(h) \/ Cash!FinanceUpdate(h) \/ Cash!Withdraw(h)
  PROVE  AInv'
<1> USE DEF Cash!Granted, Cash!Status
<1>1. CASE Cash!HrUpdate(h)
  BY <1>1, DecideStep DEF Cash!HrUpdate
<1>2. CASE Cash!ManagerUpdate(h)
  BY <1>2, DecideStep DEF Cash!ManagerUpdate
<1>3. CASE Cash!FinanceUpdate(h)
  BY <1>3, DecideStep DEF Cash!FinanceUpdate
<1>4. CASE Cash!Withdraw(h)
  BY <1>4, DecideStep DEF Cash!Withdraw
<1> QED
  BY <1>1, <1>2, <1>3, <1>4

(* The handler after one of its writes has come back.                      *)
LEMMA DoneRow ==
  ASSUME AInv, NEW h \in Handlers, NEW w \in {"status", "trail"}, w \in aHandler[h].todo,
         Cash!Done(h, w)
  PROVE  /\ aHandler' \in [Handlers -> Cash!Handler]
         /\ \A g \in Handlers \ {h} : aHandler'[g] = aHandler[g]
         /\ \/ aHandler'[h] = Cash!Idle /\ aHandler[h].todo = {w}
            \/ /\ aHandler'[h].dept = aHandler[h].dept /\ aHandler'[h].to = aHandler[h].to
               /\ aHandler'[h].seen = aHandler[h].seen
               /\ aHandler'[h].todo = aHandler[h].todo \ {w}
<1> DEFINE row == [aHandler[h] EXCEPT !.todo = aHandler[h].todo \ {w}]
<1>1. aHandler[h] \in Cash!Handler /\ aHandler \in [Handlers -> Cash!Handler]
  BY DEF AInv, Cash!TypeOK
<1>2. /\ row \in Cash!Handler /\ row.dept = aHandler[h].dept /\ row.to = aHandler[h].to
      /\ row.seen = aHandler[h].seen /\ row.todo = aHandler[h].todo \ {w}
  BY <1>1 DEF Cash!Handler
<1>3. aHandler' = [aHandler EXCEPT ![h] = IF aHandler[h].todo = {w} THEN Cash!Idle ELSE row]
  BY <1>1, Zenon DEF Cash!Done
<1> HIDE DEF row
<1> QED
  BY <1>1, <1>2, <1>3, CashIdle

(* A write of h keeps the rest when it keeps HR's approval and the status  *)
(* it leaves rests on it.                                                  *)
LEMMA CashWrite ==
  ASSUME AInv, NEW h \in Handlers, NEW w \in {"status", "trail"}, w \in aHandler[h].todo,
         Cash!Done(h, w), Cash!TypeOK', HrGranted => HrGranted',
         (aStatus' \in Cash!Granted \cup {"paid_and_closed"} \/ payments' > 0) => HrGranted',
         stale' \/ payments' = 0 \/ (payments' = 1 /\ aStatus' = "paid_and_closed")
  PROVE  AInv'
<1>1. /\ \A g \in Handlers \ {h} : aHandler'[g] = aHandler[g]
      /\ \/ aHandler'[h] = Cash!Idle
         \/ /\ aHandler'[h].dept = aHandler[h].dept /\ aHandler'[h].to = aHandler[h].to
            /\ aHandler'[h].seen = aHandler[h].seen
            /\ aHandler'[h].todo = aHandler[h].todo \ {w}
  BY DoneRow
<1>2. aHandler[h].dept # "none"
  BY CashIdle DEF AInv, GrantsRest
<1>3. GrantsRest'
  BY <1>1, <1>2, CashIdle DEF AInv, GrantsRest, Cash!Granted
<1>4. SeenUnpaid'
  BY <1>1, <1>2, CashIdle DEF AInv, SeenUnpaid
<1> QED
  BY <1>3, <1>4 DEF AInv

LEMMA WriteStatusStep ==
  ASSUME AInv, NEW h \in Handlers, Cash!WriteStatus(h)
  PROVE  AInv'
<1>1. /\ "status" \in aHandler[h].todo /\ aStatus' = aHandler[h].to
      /\ payments' = IF aHandler[h].to = "paid_and_closed" THEN payments + 1 ELSE payments
      /\ stale' = (stale \/ aStatus # aHandler[h].seen)
      /\ Cash!Done(h, "status")
      /\ UNCHANGED <<aTrail, lost, aActions, aFailures>>
  BY DEF Cash!WriteStatus
<1>2. /\ aHandler' \in [Handlers -> Cash!Handler]
      /\ \A g \in Handlers \ {h} : aHandler'[g] = aHandler[g]
      /\ \/ aHandler'[h] = Cash!Idle /\ aHandler[h].todo = {"status"}
         \/ /\ aHandler'[h].dept = aHandler[h].dept /\ aHandler'[h].to = aHandler[h].to
            /\ aHandler'[h].seen = aHandler[h].seen
            /\ aHandler'[h].todo = aHandler[h].todo \ {"status"}
  BY <1>1, DoneRow
<1>3. aHandler[h] \in Cash!Handler /\ payments \in Nat
  BY DEF AInv, Cash!TypeOK
<1>4. stale' \in BOOLEAN
  BY <1>1
<1>5. payments' \in Nat /\ aStatus' \in Cash!Status
  BY <1>1, <1>3 DEF Cash!Handler
<1>6. Cash!TypeOK'
  BY <1>1, <1>2, <1>4, <1>5 DEF AInv, Cash!TypeOK
<1>7. HrGranted => HrGranted'
  BY <1>1, <1>2 DEF HrGranted, Backing
<1>8. aHandler[h].dept # "none"
  BY <1>1, CashIdle DEF AInv, GrantsRest
<1>9. (aStatus' \in Cash!Granted \cup {"paid_and_closed"} \/ payments' > 0) => HrGranted'
  BY <1>1, <1>3, <1>7 DEF AInv, GrantsRest, Cash!Granted
<1>10. stale' \/ payments' = 0 \/ (payments' = 1 /\ aStatus' = "paid_and_closed")
  <2>1. CASE stale \/ aStatus # aHandler[h].seen
    BY <1>1, <2>1, Zenon
  <2>2. CASE ~stale /\ aStatus = aHandler[h].seen
    BY <1>1, <1>3, <1>8, <2>2 DEF AInv, SeenUnpaid
  <2> QED
    BY <2>1, <2>2
<1> QED
  BY <1>1, <1>6, <1>7, <1>9, <1>10, CashWrite

LEMMA EntryIs ==
  ASSUME AInv, NEW h \in Handlers, "trail" \in aHandler[h].todo
  PROVE  Backing(h) => Cash!Entry(h) = <<"hr", "Approved">>
BY DEF Cash!Entry, Backing

LEMMA EntryTyped ==
  ASSUME AInv, NEW h \in Handlers, "trail" \in aHandler[h].todo
  PROVE  Cash!Entry(h) \in Cash!Depts \X {"Approved", "Rejected"}
<1>1. aHandler[h] \in Cash!Handler /\ aHandler[h].dept \notin {"owner", "none"}
  BY CashIdle DEF AInv, Cash!TypeOK, GrantsRest
<1>2. aHandler[h].dept \in Cash!Depts
  BY <1>1 DEF Cash!Handler
<1>3. \E b \in BOOLEAN : Cash!Entry(h) = <<aHandler[h].dept, IF b THEN "Approved" ELSE "Rejected">>
  BY DEF Cash!Entry
<1> QED
  BY <1>2, <1>3

(* The trail takes HR's entry over from whoever writes it.                 *)
LEMMA WriteTrailStep ==
  ASSUME AInv, NEW h \in Handlers, Cash!WriteTrail(h)
  PROVE  AInv'
<1>1. /\ "trail" \in aHandler[h].todo
      /\ aTrail' = [aTrail EXCEPT ![Cash!Entry(h)] = aTrail[Cash!Entry(h)] + 1]
      /\ Cash!Done(h, "trail")
      /\ UNCHANGED <<aStatus, payments, lost, stale, aActions, aFailures>>
  BY DEF Cash!WriteTrail
<1>2. /\ aHandler' \in [Handlers -> Cash!Handler]
      /\ \A g \in Handlers \ {h} : aHandler'[g] = aHandler[g]
  BY <1>1, DoneRow
<1>3. PICK e \in Cash!Depts \X {"Approved", "Rejected"} :
        e = Cash!Entry(h) /\ (Backing(h) => e = <<"hr", "Approved">>)
  BY <1>1, EntryTyped, EntryIs
<1>4. aTrail \in [Cash!Depts \X {"Approved", "Rejected"} -> Nat]
  BY DEF AInv, Cash!TypeOK
<1>5. aTrail' = [aTrail EXCEPT ![e] = aTrail[e] + 1]
  BY <1>1, <1>3
<1>6. /\ aTrail' \in [Cash!Depts \X {"Approved", "Rejected"} -> Nat]
      /\ aTrail'[e] > 0
      /\ \A f \in Cash!Depts \X {"Approved", "Rejected"} : aTrail'[f] >= aTrail[f]
  BY <1>4, <1>5
<1>7. Cash!TypeOK'
  BY <1>1, <1>2, <1>6 DEF AInv, Cash!TypeOK
<1>8. HrGranted => HrGranted'
  <2>1. <<"hr", "Approved">> \in Cash!Depts \X {"Approved", "Rejected"}
    BY DEF Cash!Depts
  <2>2. CASE aTrail[<<"hr", "Approved">>] > 0
    BY <2>1, <2>2, <1>4, <1>6 DEF HrGranted
  <2>3. CASE "hr" \in lost
    BY <2>3, <1>1 DEF HrGranted
  <2>4. CASE Backing(h)
    BY <2>4, <1>3, <1>6 DEF HrGranted
  <2>5. CASE \E g \in Handlers \ {h} : Backing(g)
    BY <2>5, <1>2 DEF HrGranted, Backing
  <2> QED
    BY <2>2, <2>3, <2>4, <2>5 DEF HrGranted
<1>9. (aStatus' \in Cash!Granted \cup {"paid_and_closed"} \/ payments' > 0) => HrGranted'
  BY <1>1, <1>8 DEF AInv, GrantsRest
<1>10. stale' \/ payments' = 0 \/ (payments' = 1 /\ aStatus' = "paid_and_closed")
  BY <1>1 DEF AInv, SeenUnpaid
<1> QED
  BY <1>1, <1>7, <1>8, <1>9, <1>10, CashWrite

(* A row of the trail that is not written is remembered as lost.           *)
LEMMA WriteFailsAt ==
  ASSUME CashAssumption, AInv, NEW h \in Handlers, NEW w \in {"status", "trail"},
         Cash!WriteFails(h, w)
  PROVE  AInv'
<1>1. /\ w \in aHandler[h].todo /\ aFailures < MaxLost /\ aFailures' = aFailures + 1
      /\ lost' = IF w = "trail" THEN lost \cup {aHandler[h].dept} ELSE lost
      /\ Cash!Done(h, w)
      /\ UNCHANGED <<aStatus, aTrail, payments, stale, aActions>>
  BY DEF Cash!WriteFails
<1>2. /\ aHandler' \in [Handlers -> Cash!Handler]
      /\ \A g \in Handlers \ {h} : aHandler'[g] = aHandler[g]
      /\ \/ aHandler'[h] = Cash!Idle /\ aHandler[h].todo = {w}
         \/ /\ aHandler'[h].dept = aHandler[h].dept /\ aHandler'[h].to = aHandler[h].to
            /\ aHandler'[h].seen = aHandler[h].seen
            /\ aHandler'[h].todo = aHandler[h].todo \ {w}
  BY <1>1, DoneRow
<1>3. w = "trail" => aHandler[h].dept \in Cash!Depts
  <2>1. aHandler[h] \in Cash!Handler
    BY DEF AInv, Cash!TypeOK
  <2>2. w = "trail" => aHandler[h].dept \notin {"owner", "none"}
    BY <1>1, CashIdle DEF AInv, GrantsRest
  <2> QED
    BY <2>1, <2>2 DEF Cash!Handler
<1>4. lost' \subseteq Cash!Depts /\ lost \subseteq lost'
  BY <1>1, <1>3 DEF AInv, Cash!TypeOK
<1>5. aFailures' \in 0..MaxLost
  BY <1>1 DEF AInv, Cash!TypeOK, CashAssumption
<1>6. Cash!TypeOK'
  BY <1>1, <1>2, <1>4, <1>5 DEF AInv, Cash!TypeOK
<1>7. HrGranted => HrGranted'
  <2>1. CASE Backing(h)
    BY <2>1, <1>1, <1>2, CashIdle DEF HrGranted, Backing
  <2>2. CASE ~Backing(h)
    BY <2>2, <1>1, <1>2, <1>4 DEF HrGranted, Backing
  <2> QED
    BY <2>1, <2>2
<1>8. (aStatus' \in Cash!Granted \cup {"paid_and_closed"} \/ payments' > 0) => HrGranted'
  BY <1>1, <1>7 DEF AInv, GrantsRest
<1>9. stale' \/ payments' = 0 \/ (payments' = 1 /\ aStatus' = "paid_and_closed")
  BY <1>1 DEF AInv, SeenUnpaid
<1> QED
  BY <1>1, <1>6, <1>7, <1>8, <1>9, CashWrite

LEMMA CashNext == CashAssumption /\ AInv /\ [Cash!Next]_(Cash!vars) => AInv'
<1> SUFFICES ASSUME CashAssumption, AInv, [Cash!Next]_(Cash!vars) PROVE AInv'
  OBVIOUS
<1>1. CASE UNCHANGED Cash!vars
  BY <1>1 DEF Cash!vars, AInv, Cash!TypeOK, GrantsRest, HrGranted, Backing, SeenUnpaid
<1>2. ASSUME NEW h \in Handlers,
             \/ Cash!HrUpdate(h) \/ Cash!ManagerUpdate(h)
             \/ Cash!FinanceUpdate(h) \/ Cash!Withdraw(h)
      PROVE  AInv'
  BY <1>2, DecisionStep
<1>3. ASSUME NEW h \in Handlers, Cash!WriteStatus(h) PROVE AInv'
  BY <1>3, WriteStatusStep
<1>4. ASSUME NEW h \in Handlers, Cash!WriteTrail(h) PROVE AInv'
  BY <1>4, WriteTrailStep
<1>5. ASSUME NEW h \in Handlers, NEW w \in {"status", "trail"}, Cash!WriteFails(h, w) PROVE AInv'
  BY <1>5, WriteFailsAt
<1> QED
  BY <1>1, <1>2, <1>3, <1>4, <1>5 DEF Cash!Next

(* Nobody is paid an advance that HR has not granted, and nobody is paid   *)
(* twice unless a decision replaced one it had not seen: whatever the      *)
(* order in which hrUpdate, managerUpdate, financeUpdate and withdraw      *)
(* write the status and the trail, and whichever of the writes fails, for  *)
(* any number of requests and failures.                                    *)
THEOREM AdvanceIsGranted ==
  CashAssumption => (Cash!Spec => [](Cash!PaidWasGranted /\ Cash!PaidOnce))
<1> SUFFICES ASSUME CashAssumption PROVE Cash!Spec => [](Cash!PaidWasGranted /\ Cash!PaidOnce)
  OBVIOUS
<1>1. AInv => Cash!PaidWasGranted /\ Cash!PaidOnce
  <2> SUFFICES ASSUME AInv PROVE Cash!PaidWasGranted /\ Cash!PaidOnce
    OBVIOUS
  <2>1. HrGranted => Cash!OnTrail("hr")
    BY DEF HrGranted, Backing, Cash!OnTrail
  <2>2. Cash!PaidWasGranted
    BY <2>1 DEF AInv, GrantsRest, Cash!PaidWasGranted
  <2>3. Cash!PaidOnce
    BY DEF AInv, SeenUnpaid, Cash!PaidOnce
  <2> QED
    BY <2>2, <2>3
<1>2. Cash!Init => AInv
  BY CashInit
<1>3. AInv /\ [Cash!Next]_(Cash!vars) => AInv'
  BY CashNext
<1> QED
  BY <1>1, <1>2, <1>3, PTL DEF Cash!Spec

-----------------------------------------------------------------------------
(* A reimbursement, with any receipts, amounts and requests.               *)

Totals == {Reimb!Total(f) : f \in [Receipts -> Int]} \cup {0}

Decision ==
  [dept: {"hr", "finance", "owner", "none"}, seen: Reimb!Status, to: Reimb!Status,
   grant: [Receipts -> Amounts \cup {0}], total: Totals,
   todo: SUBSET (Receipts \cup {"row", "trail"})]

ReimbTyped ==
  /\ rStatus \in Reimb!Status /\ rPayments \in Nat
  /\ receipt \in [Receipts -> Amounts \cup {0, None}]
  /\ rHandler \in [Payers -> Decision]

\* Nobody who writes has seen the reimbursement paid, only HR grants, and never nothing.
Sees(row) ==
  /\ row.seen # "paid_and_closed"
  /\ row.to \in Reimb!Granted => row.dept = "hr" /\ row.total # 0
  /\ row.dept # "hr" => row.todo \cap Receipts = {}

\* What HR has written of its decision.
Decided(row) ==
  /\ row.total = Reimb!Total(row.grant) /\ row.grant \in [Receipts -> Amounts]
  /\ \A r \in Receipts \ row.todo : receipt[r] = row.grant[r]
  /\ "row" \notin row.todo => approved = row.total

AddsUp ==
  (\A h \in Payers : rHandler[h].dept # "hr") /\ approved # None =>
    (\A r \in Receipts : receipt[r] # None) /\ approved = Reimb!Total(receipt)

ReimbInv ==
  /\ ReimbTyped
  /\ \A h \in Payers : Sees(rHandler[h])
  /\ ~rStale => rPayments = 0 \/ (rPayments = 1 /\ rStatus = "paid_and_closed")
  /\ rStatus \in Reimb!Granted => approved # 0
  /\ ~torn =>
       /\ \A g, h \in Payers :
            rHandler[g].dept = "hr" /\ rHandler[h].dept = "hr" => g = h
       /\ \A h \in Payers : rHandler[h].dept = "hr" => Decided(rHandler[h])
       /\ AddsUp

LEMMA ReimbInit == ReimbAssumption /\ Reimb!Init => ReimbInv
<1> SUFFICES ASSUME ReimbAssumption, Reimb!Init PROVE ReimbInv
  OBVIOUS
<1>1. Reimb!Nothing \in [Receipts -> Amounts \cup {0}] /\ 0 \in Totals
  BY DEF Reimb!Nothing, Totals
<1>2. Reimb!Idle \in Decision /\ Reimb!Idle.dept = "none" /\ Sees(Reimb!Idle)
  BY <1>1 DEF Reimb!Idle, Decision, Reimb!Status, Reimb!Granted, Sees
<1>3. /\ rHandler = [h \in Payers |-> Reimb!Idle] /\ rStatus = "submitted"
      /\ rPayments = 0 /\ approved = None /\ receipt = [r \in Receipts |-> None]
  BY DEF Reimb!Init
<1> QED
  BY <1>2, <1>3 DEF ReimbInv, ReimbTyped, Reimb!Status, Reimb!Granted, AddsUp

(* What is left of a decision after one of its writes.                     *)
LEMMA DecisionGoes ==
  ASSUME ReimbAssumption, ReimbInv, NEW h \in Payers, NEW w \in rHandler[h].todo,
         Reimb!Goes(h, w)
  PROVE  /\ rHandler' \in [Payers -> Decision] /\ Sees(rHandler'[h])
         /\ \A g \in Payers \ {h} : rHandler'[g] = rHandler[g]
         /\ \/ rHandler[h].todo = {w} /\ rHandler'[h].dept = "none"
            \/ /\ rHandler'[h].todo = rHandler[h].todo \ {w}
               /\ rHandler'[h].dept = rHandler[h].dept
               /\ rHandler'[h].total = rHandler[h].total
               /\ rHandler'[h].grant = rHandler[h].grant
<1>1. PICK row \in Decision : row = rHandler[h] /\ Sees(row)
  BY DEF ReimbInv, ReimbTyped
<1>2. Reimb!Idle \in Decision /\ Reimb!Idle.dept = "none" /\ Sees(Reimb!Idle)
  <2>1. Reimb!Nothing \in [Receipts -> Amounts \cup {0}] /\ 0 \in Totals
    BY DEF Reimb!Nothing, Totals
  <2> QED
    BY <2>1 DEF Reimb!Idle, Decision, Reimb!Status, Reimb!Granted, Sees
<1>3. PICK next : next = [row EXCEPT !.todo = row.todo \ {w}]
  OBVIOUS
<1>4. /\ next \in Decision /\ next.todo = row.todo \ {w} /\ next.dept = row.dept
      /\ next.total = row.total /\ next.grant = row.grant /\ next.to = row.to
      /\ next.seen = row.seen
  BY <1>3 DEF Decision
<1>5. Sees(next)
  BY <1>1, <1>4 DEF Sees
<1>6. rHandler' = [rHandler EXCEPT ![h] = IF row.todo = {w} THEN Reimb!Idle ELSE next]
  BY <1>1, <1>3 DEF Reimb!Goes
<1>7. /\ rHandler' \in [Payers -> Decision]
      /\ rHandler'[h] = IF row.todo = {w} THEN Reimb!Idle ELSE next
      /\ \A g \in Payers \ {h} : rHandler'[g] = rHandler[g]
  BY <1>2, <1>4, <1>6 DEF ReimbInv, ReimbTyped
<1> QED
  BY <1>1, <1>2, <1>4, <1>5, <1>7

(* HR's decision begins.                                                   *)
LEMMA ReimbHr ==
  ASSUME ReimbAssumption, ReimbInv, NEW h \in Payers, NEW grant \in [Receipts -> Amounts],
         NEW twice \in SUBSET Receipts, Reimb!HrUpdate(h, grant, twice)
  PROVE  ReimbInv'
<1>1. PICK counted : counted = [r \in Receipts |-> IF r \in twice THEN 2 * grant[r] ELSE grant[r]]
  OBVIOUS
<1>2. counted \in [Receipts -> Int]
  <2>1. \A r \in Receipts : grant[r] \in Int
    BY DEF ReimbAssumption
  <2>2. \A n \in Int : 2 * n \in Int
    OBVIOUS
  <2> QED
    BY <1>1, <2>1, <2>2
<1>3. PICK total \in Totals : total = Reimb!Total(counted)
  BY <1>2 DEF Totals
<1>4. PICK row :
        row = [dept |-> "hr", seen |-> rStatus, grant |-> grant, total |-> total,
               to |-> IF total = 0 THEN "rejected"
                      ELSE IF total = Reimb!Total(Claimed) THEN "approved"
                           ELSE "partially_approved",
               todo |-> Receipts \cup {"row", "trail"}]
  OBVIOUS
<1>5. /\ rStatus = "submitted"
      /\ rHandler' = [rHandler EXCEPT ![h] = row]
      /\ torn' = (torn \/ Reimb!Deciding # {} \/ twice # {})
      /\ UNCHANGED <<rStatus, approved, receipt, rPayments, rStale>>
  BY <1>1, <1>3, <1>4 DEF Reimb!HrUpdate, Reimb!Starts
<1>6. grant \in [Receipts -> Amounts \cup {0}]
  OBVIOUS
<1>7. /\ row \in Decision /\ row.dept = "hr" /\ row.seen = "submitted" /\ row.grant = grant
      /\ row.total = total /\ row.todo = Receipts \cup {"row", "trail"}
      /\ row.to \in Reimb!Granted => total # 0
  BY <1>4, <1>5, <1>6 DEF Decision, Reimb!Status, Reimb!Granted
<1>8. /\ rHandler' \in [Payers -> Decision] /\ rHandler'[h] = row
      /\ \A g \in Payers \ {h} : rHandler'[g] = rHandler[g]
  BY <1>5, <1>7 DEF ReimbInv, ReimbTyped
<1>9. ReimbTyped' /\ \A g \in Payers : Sees(rHandler'[g])
  BY <1>5, <1>7, <1>8 DEF ReimbInv, ReimbTyped, Sees
<1>10. ASSUME ~torn'
       PROVE  /\ \A f, g \in Payers :
                   rHandler'[f].dept = "hr" /\ rHandler'[g].dept = "hr" => f = g
              /\ \A g \in Payers : rHandler'[g].dept = "hr" => Decided(rHandler[g])'
              /\ AddsUp'
  <2>1. ~torn /\ Reimb!Deciding = {} /\ twice = {}
    BY <1>5, <1>10
  <2>2. counted = grant
    BY <1>1, <2>1
  <2>3. \A g \in Payers \ {h} : rHandler'[g].dept # "hr"
    BY <1>8, <2>1 DEF Reimb!Deciding
  <2>4. Decided(row)'
    BY <1>3, <1>7, <2>2 DEF Decided
  <2>5. Decided(rHandler[h])'
    BY <1>8, <2>4
  <2> QED
    BY <1>7, <1>8, <2>3, <2>5 DEF AddsUp
<1> QED
  BY <1>5, <1>9, <1>10 DEF ReimbInv

(* Someone else than HR begins or writes: HR's decision is as it was.      *)
LEMMA OtherThanHr ==
  ASSUME ReimbInv, ~torn, NEW h \in Payers, rHandler[h].dept # "hr", rHandler'[h].dept # "hr",
         \A g \in Payers \ {h} : rHandler'[g] = rHandler[g], UNCHANGED <<approved, receipt>>
  PROVE  /\ \A f, g \in Payers :
              rHandler'[f].dept = "hr" /\ rHandler'[g].dept = "hr" => f = g
         /\ \A g \in Payers : rHandler'[g].dept = "hr" => Decided(rHandler[g])'
         /\ AddsUp'
<1>1. \A g \in Payers : rHandler'[g].dept = "hr" <=> rHandler[g].dept = "hr"
  OBVIOUS
<1>2. ASSUME NEW g \in Payers, rHandler'[g].dept = "hr" PROVE Decided(rHandler[g])'
  <2>1. PICK row : row = rHandler[g] /\ row = rHandler'[g] /\ Decided(row)
    BY <1>2 DEF ReimbInv
  <2>2. Decided(row)'
    BY <2>1 DEF Decided
  <2> QED
    BY <2>1, <2>2
<1>3. AddsUp'
  BY <1>1 DEF ReimbInv, AddsUp
<1> QED
  BY <1>1, <1>2, <1>3 DEF ReimbInv

(* HR writes a part of its decision.                                       *)
LEMMA HrWrites ==
  ASSUME ReimbAssumption, ReimbInv, ~torn, NEW h \in Payers, rHandler[h].dept = "hr",
         NEW w \in rHandler[h].todo, Reimb!Goes(h, w),
         receipt' \in [Receipts -> Amounts \cup {0, None}],
         \A r \in Receipts : receipt'[r] = IF r = w THEN rHandler[h].grant[r] ELSE receipt[r],
         approved' = IF w = "row" THEN rHandler[h].total ELSE approved
  PROVE  /\ \A f, g \in Payers :
              rHandler'[f].dept = "hr" /\ rHandler'[g].dept = "hr" => f = g
         /\ \A g \in Payers : rHandler'[g].dept = "hr" => Decided(rHandler[g])'
         /\ AddsUp'
<1>1. PICK old : old = rHandler[h] /\ Decided(old)
  BY DEF ReimbInv
<1>2. \A g \in Payers \ {h} : rHandler'[g].dept # "hr"
  BY DecisionGoes DEF ReimbInv
<1>3. CASE old.todo = {w} /\ rHandler'[h].dept = "none"
  <2>1. \A r \in Receipts : receipt'[r] = old.grant[r] /\ old.grant[r] \in Amounts
    BY <1>1, <1>3 DEF Decided
  <2>2. receipt' = old.grant
    BY <1>1, <2>1 DEF Decided
  <2>3. approved' = Reimb!Total(old.grant)
    BY <1>1, <1>3 DEF Decided
  <2>4. approved' = Reimb!Total(receipt')
    BY <2>2, <2>3
  <2>5. \A r \in Receipts : receipt'[r] # None
    BY <2>1 DEF ReimbAssumption
  <2>6. AddsUp'
    BY <2>4, <2>5 DEF AddsUp
  <2> QED
    BY <1>2, <1>3, <2>6
<1>4. CASE /\ rHandler'[h].todo = old.todo \ {w} /\ rHandler'[h].dept = "hr"
           /\ rHandler'[h].total = old.total /\ rHandler'[h].grant = old.grant
  <2>1. PICK new : new = rHandler'[h]
    OBVIOUS
  <2>2. \A r \in Receipts \ new.todo : receipt'[r] = new.grant[r]
    BY <1>1, <1>4, <2>1 DEF Decided
  <2>3. "row" \notin new.todo => approved' = new.total
    BY <1>1, <1>4, <2>1 DEF Decided
  <2>4. Decided(new)'
    BY <1>1, <1>4, <2>1, <2>2, <2>3 DEF Decided
  <2> QED
    BY <1>2, <1>4, <2>1, <2>4 DEF AddsUp
<1> QED
  BY <1>1, <1>3, <1>4, DecisionGoes

(* Finance and the owner begin.                                            *)
LEMMA ReimbBegins ==
  ASSUME ReimbAssumption, ReimbInv, NEW h \in Payers,
         Reimb!FinanceUpdate(h) \/ Reimb!Withdraw(h)
  PROVE  ReimbInv'
<1>1. UNCHANGED <<rStatus, approved, receipt, rPayments, rStale, torn>>
  BY DEF Reimb!FinanceUpdate, Reimb!Withdraw
<1>2. rHandler[h].dept = "none" /\ rStatus # "paid_and_closed"
  BY DEF Reimb!FinanceUpdate, Reimb!Withdraw, Reimb!Starts, Reimb!Granted
<1>3. PICK row \in Decision : /\ rHandler' = [rHandler EXCEPT ![h] = row]
                              /\ row.dept \in {"finance", "owner"} /\ row.seen = rStatus
                              /\ row.to \notin Reimb!Granted /\ row.todo \subseteq {"row", "trail"}
  <2>1. rStatus \in Reimb!Status
    BY DEF ReimbInv, ReimbTyped
  <2>2. Reimb!Nothing \in [Receipts -> Amounts \cup {0}] /\ 0 \in Totals
    BY DEF Reimb!Nothing, Totals
  <2>3. CASE Reimb!FinanceUpdate(h)
    <3>1. PICK to \in {"paid_and_closed", "rejected"} :
            rHandler' = [rHandler EXCEPT ![h] =
              [Reimb!Idle EXCEPT !.dept = "finance", !.seen = rStatus, !.to = to,
                                 !.todo = {"row", "trail"}]]
      BY <2>3 DEF Reimb!FinanceUpdate, Reimb!Starts
    <3>2. PICK row : row = [Reimb!Idle EXCEPT !.dept = "finance", !.seen = rStatus, !.to = to,
                                              !.todo = {"row", "trail"}]
      OBVIOUS
    <3>3. rHandler' = [rHandler EXCEPT ![h] = row]
      BY <3>1, <3>2
    <3>4. /\ row \in Decision /\ row.dept = "finance" /\ row.seen = rStatus
          /\ row.to \notin Reimb!Granted /\ row.todo = {"row", "trail"}
      BY <2>1, <2>2, <3>2 DEF Reimb!Idle, Decision, Reimb!Status, Reimb!Granted
    <3> QED
      BY <3>3, <3>4
  <2>4. CASE Reimb!Withdraw(h)
    <3>1. rHandler' = [rHandler EXCEPT ![h] =
              [Reimb!Idle EXCEPT !.dept = "owner", !.seen = rStatus, !.to = "withdrawn",
                                 !.todo = {"row"}]]
      BY <2>4 DEF Reimb!Withdraw, Reimb!Starts
    <3>2. PICK row : row = [Reimb!Idle EXCEPT !.dept = "owner", !.seen = rStatus,
                                              !.to = "withdrawn", !.todo = {"row"}]
      OBVIOUS
    <3>3. rHandler' = [rHandler EXCEPT ![h] = row]
      BY <3>1, <3>2
    <3>4. /\ row \in Decision /\ row.dept = "owner" /\ row.seen = rStatus
          /\ row.to \notin Reimb!Granted /\ row.todo = {"row"}
      BY <2>1, <2>2, <3>2 DEF Reimb!Idle, Decision, Reimb!Status, Reimb!Granted
    <3> QED
      BY <3>3, <3>4
  <2> QED
    BY <2>3, <2>4
<1>4. /\ rHandler' \in [Payers -> Decision] /\ rHandler'[h] = row
      /\ \A g \in Payers \ {h} : rHandler'[g] = rHandler[g]
  BY <1>3 DEF ReimbInv, ReimbTyped
<1>5. Sees(row)
  BY <1>2, <1>3 DEF Sees, ReimbAssumption
<1>6. ReimbTyped' /\ \A g \in Payers : Sees(rHandler'[g])
  BY <1>1, <1>4, <1>5 DEF ReimbInv, ReimbTyped
<1> QED
  BY <1>1, <1>2, <1>3, <1>4, <1>6, OtherThanHr DEF ReimbInv

LEMMA ReimbReceipt ==
  ASSUME ReimbAssumption, ReimbInv, NEW h \in Payers, NEW r \in Receipts,
         Reimb!WriteReceipt(h, r)
  PROVE  ReimbInv'
<1>1. /\ r \in rHandler[h].todo /\ Reimb!Goes(h, r)
      /\ receipt' = [receipt EXCEPT ![r] = rHandler[h].grant[r]]
      /\ UNCHANGED <<rStatus, approved, rPayments, rStale, torn>>
  BY DEF Reimb!WriteReceipt, Reimb!Ready
<1>2. rHandler[h].dept = "hr" /\ r # "row"
  BY <1>1 DEF ReimbInv, Sees, ReimbAssumption
<1>3. /\ receipt' \in [Receipts -> Amounts \cup {0, None}]
      /\ \A s \in Receipts : receipt'[s] = IF s = r THEN rHandler[h].grant[s] ELSE receipt[s]
  BY <1>1 DEF ReimbInv, ReimbTyped, Decision
<1>4. ReimbTyped' /\ \A g \in Payers : Sees(rHandler'[g])
  BY <1>1, <1>3, DecisionGoes DEF ReimbInv, ReimbTyped
<1> QED
  BY <1>1, <1>2, <1>3, <1>4, HrWrites DEF ReimbInv

LEMMA ReimbRow ==
  ASSUME ReimbAssumption, ReimbInv, NEW h \in Payers, Reimb!WriteRow(h)
  PROVE  ReimbInv'
<1>1. PICK row \in Decision : row = rHandler[h] /\ Sees(row) /\ "row" \in row.todo
  BY DEF Reimb!WriteRow, Reimb!Ready, ReimbInv, ReimbTyped
<1>2. /\ Reimb!Goes(h, "row") /\ rStatus' = row.to
      /\ approved' = IF row.dept = "hr" THEN row.total ELSE approved
      /\ rPayments' = IF row.to = "paid_and_closed" THEN rPayments + 1 ELSE rPayments
      /\ rStale' = (rStale \/ rStatus # row.seen)
      /\ UNCHANGED <<receipt, torn>>
  BY <1>1 DEF Reimb!WriteRow
<1>3. ReimbTyped' /\ \A g \in Payers : Sees(rHandler'[g])
  BY <1>1, <1>2, DecisionGoes DEF ReimbInv, ReimbTyped, Decision
<1>4. ~rStale' => rPayments' = 0 \/ (rPayments' = 1 /\ rStatus' = "paid_and_closed")
  <2> SUFFICES ASSUME ~rStale'
               PROVE  rPayments' = 0 \/ (rPayments' = 1 /\ rStatus' = "paid_and_closed")
    OBVIOUS
  <2>1. ~rStale /\ rStatus = row.seen
    BY <1>2
  <2>2. rPayments = 0
    BY <1>1, <2>1 DEF ReimbInv, Sees
  <2> QED
    BY <1>2, <2>2
<1>5. rStatus' \in Reimb!Granted => approved' # 0
  BY <1>1, <1>2 DEF Sees
<1>6. ASSUME ~torn'
      PROVE  /\ \A f, g \in Payers :
                  rHandler'[f].dept = "hr" /\ rHandler'[g].dept = "hr" => f = g
             /\ \A g \in Payers : rHandler'[g].dept = "hr" => Decided(rHandler[g])'
             /\ AddsUp'
  <2>1. ~torn
    BY <1>2, <1>6
  <2>2. CASE row.dept = "hr"
    <3>1. \A r \in Receipts : r # "row"
      BY DEF ReimbAssumption
    <3>2. receipt' \in [Receipts -> Amounts \cup {0, None}]
      BY <1>2 DEF ReimbInv, ReimbTyped
    <3> QED
      BY <1>1, <1>2, <2>1, <2>2, <3>1, <3>2, HrWrites
  <2>3. CASE row.dept # "hr"
    <3>1. /\ rHandler'[h].dept # "hr" /\ \A g \in Payers \ {h} : rHandler'[g] = rHandler[g]
      BY <1>1, <1>2, <2>3, DecisionGoes
    <3> QED
      BY <1>1, <1>2, <2>1, <2>3, <3>1, OtherThanHr
  <2> QED
    BY <2>2, <2>3
<1> QED
  BY <1>3, <1>4, <1>5, <1>6 DEF ReimbInv

LEMMA ReimbTrail ==
  ASSUME ReimbAssumption, ReimbInv, NEW h \in Payers, Reimb!WriteTrail(h)
  PROVE  ReimbInv'
<1>1. /\ "trail" \in rHandler[h].todo /\ Reimb!Goes(h, "trail")
      /\ UNCHANGED <<rStatus, approved, receipt, rPayments, rStale, torn>>
  BY DEF Reimb!WriteTrail, Reimb!Ready
<1>2. ReimbTyped' /\ \A g \in Payers : Sees(rHandler'[g])
  BY <1>1, DecisionGoes DEF ReimbInv, ReimbTyped
<1>3. ASSUME ~torn
      PROVE  /\ \A f, g \in Payers :
                  rHandler'[f].dept = "hr" /\ rHandler'[g].dept = "hr" => f = g
             /\ \A g \in Payers : rHandler'[g].dept = "hr" => Decided(rHandler[g])'
             /\ AddsUp'
  <2>1. CASE rHandler[h].dept = "hr"
    <3>1. \A r \in Receipts : r # "trail"
      BY DEF ReimbAssumption
    <3>2. receipt' \in [Receipts -> Amounts \cup {0, None}]
      BY <1>1 DEF ReimbInv, ReimbTyped
    <3> QED
      BY <1>1, <1>3, <2>1, <3>1, <3>2, HrWrites
  <2>2. CASE rHandler[h].dept # "hr"
    <3>1. /\ rHandler'[h].dept # "hr" /\ \A g \in Payers \ {h} : rHandler'[g] = rHandler[g]
      BY <1>1, <2>2, DecisionGoes
    <3> QED
      BY <1>1, <1>3, <2>2, <3>1, OtherThanHr
  <2> QED
    BY <2>1, <2>2
<1> QED
  BY <1>1, <1>2, <1>3 DEF ReimbInv

LEMMA ReimbFails ==
  ASSUME ReimbAssumption, ReimbInv, NEW h \in Payers, NEW w, Reimb!WriteFails(h, w)
  PROVE  ReimbInv'
<1>1. /\ w \in rHandler[h].todo /\ torn' = (torn \/ rHandler[h].dept = "hr")
      /\ UNCHANGED <<rStatus, approved, receipt, rPayments, rStale>>
  BY DEF Reimb!WriteFails, Reimb!Ready
<1>2. /\ rHandler' \in [Payers -> Decision] /\ Sees(rHandler'[h])
      /\ rHandler'[h].dept \in {rHandler[h].dept, "none"}
      /\ \A g \in Payers \ {h} : rHandler'[g] = rHandler[g]
  <2>1. CASE rHandler[h].dept = "finance"
    <3>1. Reimb!Nothing \in [Receipts -> Amounts \cup {0}] /\ 0 \in Totals
      BY DEF Reimb!Nothing, Totals
    <3>2. Reimb!Idle \in Decision /\ Reimb!Idle.dept = "none" /\ Sees(Reimb!Idle)
      BY <3>1 DEF Reimb!Idle, Decision, Reimb!Status, Reimb!Granted, Sees
    <3>3. rHandler' = [rHandler EXCEPT ![h] = Reimb!Idle]
      BY <2>1 DEF Reimb!WriteFails
    <3> QED
      BY <3>2, <3>3 DEF ReimbInv, ReimbTyped
  <2>2. CASE rHandler[h].dept # "finance"
    <3>1. Reimb!Goes(h, w)
      BY <2>2 DEF Reimb!WriteFails
    <3> QED
      BY <1>1, <3>1, DecisionGoes
  <2> QED
    BY <2>1, <2>2
<1>3. ReimbTyped' /\ \A g \in Payers : Sees(rHandler'[g])
  BY <1>1, <1>2 DEF ReimbInv, ReimbTyped
<1>4. ASSUME ~torn'
      PROVE  /\ \A f, g \in Payers :
                  rHandler'[f].dept = "hr" /\ rHandler'[g].dept = "hr" => f = g
             /\ \A g \in Payers : rHandler'[g].dept = "hr" => Decided(rHandler[g])'
             /\ AddsUp'
  <2>1. ~torn /\ rHandler[h].dept # "hr"
    BY <1>1, <1>4
  <2> QED
    BY <1>1, <1>2, <2>1, OtherThanHr
<1> QED
  BY <1>1, <1>3, <1>4 DEF ReimbInv

LEMMA ReimbStays ==
  ASSUME ReimbInv,
         UNCHANGED <<rStatus, approved, receipt, rHandler, rPayments, rStale, torn>>
  PROVE  ReimbInv'
<1>1. ReimbTyped' /\ AddsUp' = AddsUp /\ \A row : Decided(row)' = Decided(row)
  BY DEF ReimbInv, ReimbTyped, AddsUp, Decided
<1>2. \A h \in Payers : Decided(rHandler[h])' = Decided(rHandler[h])
  BY <1>1
<1> QED
  BY <1>1, <1>2 DEF ReimbInv

LEMMA ReimbNext == ASSUME ReimbAssumption, ReimbInv, [Reimb!Next]_(Reimb!vars) PROVE ReimbInv'
<1>1. CASE Reimb!Remove
  BY <1>1, ReimbStays DEF Reimb!Remove
<1>2. ASSUME NEW h \in Payers, NEW grant \in [Receipts -> Amounts],
             NEW twice \in SUBSET Receipts, Reimb!HrUpdate(h, grant, twice)
      PROVE  ReimbInv'
  BY <1>2, ReimbHr
<1>3. ASSUME NEW h \in Payers,
             \/ Reimb!FinanceUpdate(h) \/ Reimb!Withdraw(h)
             \/ Reimb!WriteRow(h) \/ Reimb!WriteTrail(h)
             \/ \E r \in Receipts : Reimb!WriteReceipt(h, r)
             \/ \E w \in Receipts \cup {"row", "trail"} : Reimb!WriteFails(h, w)
      PROVE  ReimbInv'
  BY <1>3, ReimbBegins, ReimbRow, ReimbTrail, ReimbReceipt, ReimbFails
<1>4. CASE UNCHANGED Reimb!vars
  BY <1>4, ReimbStays DEF Reimb!vars
<1> QED
  BY <1>1, <1>2, <1>3, <1>4 DEF Reimb!Next

(* A reimbursement is paid at most once unless a decision replaced a       *)
(* status it had not seen, and its amount is the sum of what HR granted    *)
(* for its receipts, never nothing when it is granted, unless two          *)
(* decisions of HR were mixed, a receipt was listed twice, or a write of   *)
(* HR failed: whatever the receipts, their amounts and the order in which  *)
(* the queries of each decision are executed.                              *)
THEOREM ReimbursementAddsUp ==
  ReimbAssumption => (Reimb!Spec => [](Reimb!ReimbursedOnce /\ Reimb!AmountAddsUp))
<1> SUFFICES ASSUME ReimbAssumption
             PROVE  Reimb!Spec => [](Reimb!ReimbursedOnce /\ Reimb!AmountAddsUp)
  OBVIOUS
<1>1. Reimb!Init => ReimbInv
  BY ReimbInit
<1>2. ReimbInv /\ [Reimb!Next]_(Reimb!vars) => ReimbInv'
  BY ReimbNext
<1>3. ReimbInv => Reimb!ReimbursedOnce /\ Reimb!AmountAddsUp
  BY DEF ReimbInv, ReimbTyped, AddsUp, Reimb!ReimbursedOnce, Reimb!AmountAddsUp, Reimb!Deciding
<1> QED
  BY <1>1, <1>2, <1>3, PTL DEF Reimb!Spec

-----------------------------------------------------------------------------
(* The requests together: each part takes its own steps, and stands still  *)
(* while another one is looked at.                                         *)

LEMMA PartsStep ==
  ASSUME [RequestsNext]_<<which, vars, cashVars, reimbVars, carVars>>
  PROVE  /\ [Car!Next]_(Car!vars)
         /\ [Cash!Next]_(Cash!vars)
         /\ [Reimb!Next]_(Reimb!vars)
<1>1. UNCHANGED carVars => UNCHANGED Car!vars
  BY DEF carVars, Car!vars
<1>2. UNCHANGED cashVars => UNCHANGED Cash!vars
  BY DEF cashVars, Cash!vars
<1>3. UNCHANGED reimbVars => UNCHANGED Reimb!vars
  BY DEF reimbVars, Reimb!vars
<1> QED
  BY <1>1, <1>2, <1>3 DEF RequestsNext

(* No car is booked twice for the same time, but for an approval that fell *)
(* between the check and the write of another: CarBookedOnce, of the       *)
(* requests together.                                                      *)
THEOREM NoCarBookedTwice == RequestsSpec => []NoDoubleBooking
<1>1. RequestsInit => Car!Init
  BY DEF RequestsInit
<1>2. [RequestsNext]_<<which, vars, cashVars, reimbVars, carVars>> => [Car!Next]_(Car!vars)
  BY PartsStep
<1>3. CarAssumption
  BY RequestsAssumption
<1>4. Car!NoDoubleBooking => NoDoubleBooking
  BY DEF NoDoubleBooking
<1> QED
  BY <1>1, <1>2, <1>3, <1>4, CarBookedOnce, PTL DEF RequestsSpec, Car!Spec

(* Money is paid as it was granted, and once: AdvanceIsGranted and         *)
(* ReimbursementAddsUp, of the requests together.                          *)
THEOREM PaymentsGranted == RequestsSpec => []PaidAsGranted
<1>1. RequestsInit => Cash!Init /\ Reimb!Init
  BY DEF RequestsInit
<1>2. [RequestsNext]_<<which, vars, cashVars, reimbVars, carVars>>
        => [Cash!Next]_(Cash!vars) /\ [Reimb!Next]_(Reimb!vars)
  BY PartsStep
<1>3. CashAssumption /\ ReimbAssumption
  BY RequestsAssumption
<1>4. /\ Cash!PaidWasGranted /\ Cash!PaidOnce
      /\ Reimb!ReimbursedOnce /\ Reimb!AmountAddsUp
      => PaidAsGranted
  BY DEF PaidAsGranted
<1> QED
  BY <1>1, <1>2, <1>3, <1>4, AdvanceIsGranted, ReimbursementAddsUp, PTL
     DEF RequestsSpec, Cash!Spec, Reimb!Spec
=============================================================================
