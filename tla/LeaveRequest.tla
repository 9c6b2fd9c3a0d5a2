---------------------------- MODULE LeaveRequest ----------------------------
(***************************************************************************)
(* The leave-request workflow of one employee                              *)
(* (src/src/modules/leave-request/leave-request.service.ts).               *)
(*                                                                         *)
(* An HTTP request is served by a handler that reads the row, decides, and *)
(* writes in later database round trips, with no transaction around them:  *)
(* every await is a step of its own here, and the handlers interleave.     *)
(* The AdminActions of the leaves are kept as a set, since the code only   *)
(* asks whether such a row exists.                                         *)
(***************************************************************************)
EXTENDS FiniteSets

CONSTANTS
  Leaves,      \* leave requests of the employee
  Handlers,    \* HTTP requests being served at the same time
  Managers,    \* users who call projectManagerAction
  HrOfficers,  \* users who call hrUpdate
  Departments,
  NoDept,      \* a user without a department (departmentId is null)
  DeptOf       \* department of each user

Users == Managers \cup HrOfficers

\* hrUpdate dereferences user.department.id: an HR officer has a department.
ASSUME DeptAssumption ==
  /\ NoDept \notin Departments
  /\ DeptOf \in [Users -> Departments \cup {NoDept}]
  /\ \A u \in HrOfficers : DeptOf[u] \in Departments

VARIABLES
  status,   \* LeaveRequest.status; "absent" before the row is created
  isPaid,   \* LeaveRequest.isPaid
  trail,    \* the AdminAction rows of the leaves
  handler,  \* local variables of every handler
  report    \* local variables of the handler of findLeavesReport

vars == <<status, isPaid, trail, handler, report>>

Status == {"new", "submitted", "request_modification", "in_progress",
           "approved", "rejected", "withdrawn"}

\* The statuses LeaveRequestAdminAction admits.
Decisions == {"approved", "rejected", "request_modification"}

\* "via" is not a column: it tells the two endpoints apart in the properties.
AdminAction == [leave: Leaves, by: Users, dept: Departments \cup {NoDept},
                status: Decisions, via: {"manager", "hr"}]

Idle == [pc |-> "idle"]

Deciding == [pc: {"pm_count", "pm_create", "pm_write"}, leave: Leaves,
             by: Managers, status: Decisions]
            \cup [pc: {"hr_create", "hr_write"}, leave: Leaves,
                  by: HrOfficers, status: Decisions, paid: BOOLEAN]

Writing == [pc: {"withdraw_write", "submit_write"}, leave: Leaves]

ReportPhases == {"paid", "unpaid", "done"}

TypeOK ==
  /\ status \in [Leaves -> Status \cup {"absent"}]
  /\ isPaid \in [Leaves -> BOOLEAN]
  /\ trail \subseteq AdminAction
  /\ handler \in [Handlers -> {Idle} \cup Deciding \cup Writing]
  /\ report \in [pc: ReportPhases, paid: SUBSET Leaves, unpaid: SUBSET Leaves]

Init ==
  /\ status = [l \in Leaves |-> "absent"]
  /\ isPaid = [l \in Leaves |-> FALSE]
  /\ trail = {}
  /\ handler = [h \in Handlers |-> Idle]
  /\ report = [pc |-> "paid", paid |-> {}, unpaid |-> {}]

TrailOf(l) == {a \in trail : a.leave = l}

Exists(l) == status[l] # "absent"

-----------------------------------------------------------------------------
(* create: the leave type decides whether the leave is paid.               *)

Create(l, typeIsPaid) ==
  /\ ~ Exists(l)
  /\ status' = [status EXCEPT ![l] = "new"]
  /\ isPaid' = [isPaid EXCEPT ![l] = typeIsPaid]
  /\ UNCHANGED <<trail, handler, report>>

-----------------------------------------------------------------------------
(* submitRequest and withdraw: read the row, then write the status.        *)

SubmitRead(h, l) ==
  /\ handler[h] = Idle
  /\ status[l] \in {"new", "request_modification"}
  /\ handler' = [handler EXCEPT ![h] = [pc |-> "submit_write", leave |-> l]]
  /\ UNCHANGED <<status, isPaid, trail, report>>

SubmitWrite(h) ==
  /\ handler[h].pc = "submit_write"
  /\ status' = [status EXCEPT ![handler[h].leave] = "submitted"]
  /\ handler' = [handler EXCEPT ![h] = Idle]
  /\ UNCHANGED <<isPaid, trail, report>>

WithdrawRead(h, l) ==
  /\ handler[h] = Idle
  /\ Exists(l)
  /\ status[l] # "rejected"
  /\ handler' = [handler EXCEPT ![h] = [pc |-> "withdraw_write", leave |-> l]]
  /\ UNCHANGED <<status, isPaid, trail, report>>

WithdrawWrite(h) ==
  /\ handler[h].pc = "withdraw_write"
  /\ status' = [status EXCEPT ![handler[h].leave] = "withdrawn"]
  /\ handler' = [handler EXCEPT ![h] = Idle]
  /\ UNCHANGED <<isPaid, trail, report>>

-----------------------------------------------------------------------------
(* projectManagerAction: read the row with its actions; unless it is       *)
(* submitted or has no action yet, count the actions of others; record the *)
(* action; write the status.                                               *)

PmRead(h, l, m, d) ==
  /\ handler[h] = Idle
  /\ Exists(l)
  /\ status[l] # "new"
  /\ handler' = [handler EXCEPT ![h] =
       [pc |-> IF status[l] # "submitted" /\ TrailOf(l) # {}
                 THEN "pm_count" ELSE "pm_create",
        leave |-> l, by |-> m, status |-> d]]
  /\ UNCHANGED <<status, isPaid, trail, report>>

\* The rows the count query selects: in SQL a null column never differs, and
\* a user without a department puts no condition on the column.
OtherDeptActions(l, m) ==
  {a \in TrailOf(l) :
     /\ a.by # m
     /\ DeptOf[m] # NoDept => a.dept \notin {NoDept, DeptOf[m]}}

PmCountPasses(h) ==
  /\ handler[h].pc = "pm_count"
  /\ OtherDeptActions(handler[h].leave, handler[h].by) = {}
  /\ handler' = [handler EXCEPT ![h].pc = "pm_create"]
  /\ UNCHANGED <<status, isPaid, trail, report>>

PmCountThrows(h) ==
  /\ handler[h].pc = "pm_count"
  /\ OtherDeptActions(handler[h].leave, handler[h].by) # {}
  /\ handler' = [handler EXCEPT ![h] = Idle]
  /\ UNCHANGED <<status, isPaid, trail, report>>

ActionOf(r, level) ==
  [leave |-> r.leave, by |-> r.by, dept |-> DeptOf[r.by],
   status |-> r.status, via |-> level]

PmCreateAction(h) ==
  /\ handler[h].pc = "pm_create"
  /\ trail' = trail \cup {ActionOf(handler[h], "manager")}
  /\ handler' = [handler EXCEPT ![h].pc = "pm_write"]
  /\ UNCHANGED <<status, isPaid, report>>

\* Mutated form of PmWrite: the body's status is stored as it is.
PmWriteFinal(h) ==
  /\ handler[h].pc = "pm_write"
  /\ status' = [status EXCEPT ![handler[h].leave] = handler[h].status]
  /\ handler' = [handler EXCEPT ![h] = Idle]
  /\ UNCHANGED <<isPaid, trail, report>>

\* A manager's approval only moves the request on to HR.
PmWrite(h) ==
  /\ handler[h].pc = "pm_write"
  /\ status' = [status EXCEPT ![handler[h].leave] =
       IF handler[h].status = "approved" THEN "in_progress"
                                         ELSE handler[h].status]
  /\ handler' = [handler EXCEPT ![h] = Idle]
  /\ UNCHANGED <<isPaid, trail, report>>

-----------------------------------------------------------------------------
(* hrUpdate: read the row, record the action, write the status; isPaid is  *)
(* written only when the body says true.                                   *)

\* Mutated forms of HrRead: a submitted request is enough; the action row is
\* not written.
HrReadSubmitted(h, l, u, d, paid) ==
  /\ handler[h] = Idle
  /\ status[l] \in {"submitted", "in_progress"}
  /\ handler' = [handler EXCEPT ![h] =
       [pc |-> "hr_create", leave |-> l, by |-> u, status |-> d, paid |-> paid]]
  /\ UNCHANGED <<status, isPaid, trail, report>>

HrReadNoAction(h, l, u, d, paid) ==
  /\ handler[h] = Idle
  /\ status[l] = "in_progress"
  /\ handler' = [handler EXCEPT ![h] =
       [pc |-> "hr_write", leave |-> l, by |-> u, status |-> d, paid |-> paid]]
  /\ UNCHANGED <<status, isPaid, trail, report>>

HrRead(h, l, u, d, paid) ==
  /\ handler[h] = Idle
  /\ status[l] = "in_progress"
  /\ handler' = [handler EXCEPT ![h] =
       [pc |-> "hr_create", leave |-> l, by |-> u, status |-> d, paid |-> paid]]
  /\ UNCHANGED <<status, isPaid, trail, report>>

HrCreateAction(h) ==
  /\ handler[h].pc = "hr_create"
  /\ trail' = trail \cup {ActionOf(handler[h], "hr")}
  /\ handler' = [handler EXCEPT ![h].pc = "hr_write"]
  /\ UNCHANGED <<status, isPaid, report>>

\* Mutated form of HrWrite: a body without isPaid resets the column.
HrWriteResets(h) ==
  /\ handler[h].pc = "hr_write"
  /\ LET r == handler[h] IN
       /\ status' = [status EXCEPT ![r.leave] = r.status]
       /\ isPaid' = [isPaid EXCEPT ![r.leave] = r.paid]
  /\ handler' = [handler EXCEPT ![h] = Idle]
  /\ UNCHANGED <<trail, report>>

HrWrite(h) ==
  /\ handler[h].pc = "hr_write"
  /\ LET r == handler[h] IN
       /\ status' = [status EXCEPT ![r.leave] = r.status]
       /\ isPaid' = [isPaid EXCEPT ![r.leave] = r.paid \/ @]
  /\ handler' = [handler EXCEPT ![h] = Idle]
  /\ UNCHANGED <<trail, report>>

-----------------------------------------------------------------------------
(* Any round trip may fail, or the server stop: the handler is gone and    *)
(* what it wrote stays.                                                    *)

Fail(h) ==
  /\ handler[h] # Idle
  /\ handler' = [handler EXCEPT ![h] = Idle]
  /\ UNCHANGED <<status, isPaid, trail, report>>

-----------------------------------------------------------------------------
(* findLeavesReport: two aggregate queries, one after the other, over the  *)
(* approved leaves.                                                        *)

ApprovedPaid == {l \in Leaves : status[l] = "approved" /\ isPaid[l]}
ApprovedUnpaid == {l \in Leaves : status[l] = "approved" /\ ~ isPaid[l]}

ReportPaid ==
  /\ report.pc = "paid"
  /\ report' = [pc |-> "unpaid", paid |-> ApprovedPaid, unpaid |-> {}]
  /\ UNCHANGED <<status, isPaid, trail, handler>>

ReportUnpaid ==
  /\ report.pc = "unpaid"
  /\ report' = [pc |-> "done", paid |-> report.paid,
                unpaid |-> ApprovedUnpaid]
  /\ UNCHANGED <<status, isPaid, trail, handler>>

\* The next call starts with fresh local variables.
ReportReturn ==
  /\ report.pc = "done"
  /\ report' = [pc |-> "paid", paid |-> {}, unpaid |-> {}]
  /\ UNCHANGED <<status, isPaid, trail, handler>>

-----------------------------------------------------------------------------

ManagerStep(h) ==
  \/ \E l \in Leaves, m \in Managers, d \in Decisions : PmRead(h, l, m, d)
  \/ PmCountPasses(h)
  \/ PmCountThrows(h)
  \/ PmCreateAction(h)
  \/ PmWrite(h)

HrStep(h) ==
  \/ \E l \in Leaves, u \in HrOfficers, d \in Decisions, p \in BOOLEAN :
       HrRead(h, l, u, d, p)
  \/ HrCreateAction(h)
  \/ HrWrite(h)

EmployeeStep(h) ==
  \/ \E l \in Leaves : SubmitRead(h, l) \/ WithdrawRead(h, l)
  \/ SubmitWrite(h)
  \/ WithdrawWrite(h)

Next ==
  \/ \E l \in Leaves, p \in BOOLEAN : Create(l, p)
  \/ \E h \in Handlers :
       ManagerStep(h) \/ HrStep(h) \/ EmployeeStep(h) \/ Fail(h)
  \/ ReportPaid \/ ReportUnpaid \/ ReportReturn

Spec == Init /\ [][Next]_vars

-----------------------------------------------------------------------------
(* Properties.                                                             *)

Has(l, level, d) ==
  \E a \in trail : a.leave = l /\ a.via = level /\ a.status = d

(* "This request has to be approved by project manager before you make any *)
(* action" (hrUpdate): however the handlers interleave, an action of HR is *)
(* recorded only for a leave a manager's approval was recorded for.        *)
HrActsAfterManager ==
  \A a \in trail : a.via = "hr" => Has(a.leave, "manager", "approved")

(* A status never claims a decision that the audit trail does not show:    *)
(* the trail is written before the status, so a failure between the two    *)
(* leaves an action too many and never one too few.                        *)
StatusBackedByTrail ==
  \A l \in Leaves :
    /\ status[l] = "in_progress" => Has(l, "manager", "approved")
    /\ status[l] = "approved" =>
         Has(l, "manager", "approved") /\ Has(l, "hr", "approved")
    /\ status[l] \in {"rejected", "request_modification"} =>
         Has(l, "manager", status[l]) \/ Has(l, "hr", status[l])

(* findLeavesReport reads the paid and the unpaid days in two queries; a   *)
(* leave decided again between them may be missing from both sums and is   *)
(* never in both, because no code takes isPaid back.                       *)
ReportCountsOnce == report.paid \cap report.unpaid = {}

(* The promise of the component: see TwoLevelApproval.                     *)
Consents(l) == {level \in {"manager", "hr"} : Has(l, level, "approved")}

Promise == INSTANCE TwoLevelApproval WITH
             consents <- [l \in Leaves |-> Consents(l)],
             granted <- [l \in Leaves |-> status[l] = "approved"]

ImplementsPromise == Promise!Spec

(* projectManagerAction refuses with "This request is already marked as    *)
(* <status>. You cannot make any further changes" (line 162): a request    *)
(* that was withdrawn is not moved on to HR.                               *)
WithdrawnStaysWithdrawn ==
  [][\A l \in Leaves :
       status[l] = "withdrawn" => status'[l] # "in_progress"]_vars

-----------------------------------------------------------------------------
(* The inductive invariant of the proofs.                                  *)

(* What a handler is about to write is already justified by the trail.     *)
Backed(r) ==
  /\ r.pc = "pm_write" => Has(r.leave, "manager", r.status)
  /\ r.pc \in {"hr_create", "hr_write"} => Has(r.leave, "manager", "approved")
  /\ r.pc = "hr_write" => Has(r.leave, "hr", r.status)

HandlerBacked == \A h \in Handlers : Backed(handler[h])

(* A leave counted as paid exists and is still a paid leave.               *)
ReportSeen == \A l \in report.paid : isPaid[l] /\ Exists(l)

IInv ==
  /\ TypeOK
  /\ HrActsAfterManager
  /\ StatusBackedByTrail
  /\ HandlerBacked
  /\ ReportSeen
  /\ ReportCountsOnce
=============================================================================
