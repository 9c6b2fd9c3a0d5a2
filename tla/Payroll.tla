-------------------------------- MODULE Payroll --------------------------------
(***************************************************************************)
(* The payrolls of one cycle: src/src/modules/payroll-cycle and payroll.   *)
(*                                                                         *)
(* A request puts the cycle on a Bull queue; a job computes the payroll of *)
(* each user, concurrently, from the attendance it reads, creates it and   *)
(* then its deductions. Requests recalculate a payroll, correct it, remove *)
(* it and mark it as paid, each in several round trips.                    *)
(***************************************************************************)
EXTENDS Integers, FiniteSets

CONSTANTS
  Users,        \* employees with a salary
  Ids,          \* rows of table Payroll
  Clients,      \* requests in progress at once
  Early,        \* may requests on payrolls come before the cycle is processed?
  Jobs,         \* jobs the processor runs at once
  None,         \* no user, no payroll
  Salary,       \* the salary, in the unit of a day's deduction
  MaxDays,      \* bound on the days that are deducted
  Corrections,  \* manual corrections that are entered
  MaxChanges,   \* bound on the changes of the attendance
  MaxRequests,  \* bound on the requests
  MaxRestarts,  \* bound on the restarts of the server
  MaxFailures   \* bound on the queries that fail

ASSUME PayrollAssumption ==
  /\ None \notin Users \cup Ids /\ IsFiniteSet(Jobs)
  /\ Early \in BOOLEAN
  /\ Salary \in Int /\ Corrections \subseteq Int
  /\ MaxDays \in Nat /\ MaxChanges \in Nat /\ MaxRequests \in Nat
  /\ MaxRestarts \in Nat /\ MaxFailures \in Nat

VARIABLES
  processing, processed,  \* of the cycle
  report,                 \* failedReport of the cycle
  payroll,                \* table Payroll, with the sum of the deductions' rows
  absent,                 \* the days the attendance takes from each user
  bull,                   \* messages of the queue
  failedReport,           \* field of the processor's service
  job, client,
  changes, requests, restarts, failures

cycle == <<processing, processed, report>>
limits == <<changes, requests, restarts, failures>>
vars == <<cycle, payroll, absent, bull, failedReport, job, client, limits>>

Days == 0..MaxDays

Row ==
  [user: Users \cup {None}, live: BOOLEAN, paid: BOOLEAN, processing: BOOLEAN,
   correction: Int, days: Days, total: Int, rows: Nat]

NoRow ==
  [user |-> None, live |-> FALSE, paid |-> FALSE, processing |-> FALSE,
   correction |-> 0, days |-> 0, total |-> 0, rows |-> 0]

Stage == {"check", "read", "create", "rows", "done"}

\* on: is the job running? stage, days, id: how far it is with each user.
Job ==
  [on: BOOLEAN, stage: [Users -> Stage], days: [Users -> Days], id: [Users -> Ids \cup {None}]]

JobIdle ==
  [on |-> FALSE, stage |-> [u \in Users |-> "check"], days |-> [u \in Users |-> 0],
   id |-> [u \in Users |-> None]]

\* A request on payroll id; n, m: the numbers it has read or computed.
Client ==
  [pc: {"idle", "set", "add", "mark", "clear", "check", "read", "write", "rows",
        "update", "remove"},
   id: Ids \cup {None}, n: Int, m: Int]

ClientIdle == [pc |-> "idle", id |-> None, n |-> 0, m |-> 0]

TypeOK ==
  /\ processing \in BOOLEAN /\ processed \in BOOLEAN
  /\ report \subseteq Users \cup {None} /\ failedReport \subseteq Users \cup {None}
  /\ payroll \in [Ids -> Row]
  /\ absent \in [Users -> Days]
  /\ bull \in Nat
  /\ job \in [Jobs -> Job] /\ client \in [Clients -> Client]
  /\ changes \in 0..MaxChanges /\ requests \in 0..MaxRequests
  /\ restarts \in 0..MaxRestarts /\ failures \in 0..MaxFailures

Init ==
  /\ processing = FALSE /\ processed = FALSE /\ report = {}
  /\ payroll = [p \in Ids |-> NoRow]
  /\ absent = [u \in Users |-> 0]
  /\ bull = 0 /\ failedReport = {}
  /\ job = [j \in Jobs |-> JobIdle]
  /\ client = [c \in Clients |-> ClientIdle]
  /\ changes = 0 /\ requests = 0 /\ restarts = 0 /\ failures = 0

Present == {p \in Ids : payroll[p].user # None}

\* The payrolls requests are made on.
Open == {p \in Present : Early \/ processed}

Of(u) == {p \in Ids : payroll[p].user = u /\ payroll[p].live}

(* HR edits the attendance of a user.                                      *)
AttendanceChanges ==
  /\ changes < MaxChanges
  /\ changes' = changes + 1
  /\ \E u \in Users, d \in Days : absent' = [absent EXCEPT ![u] = d]
  /\ UNCHANGED <<cycle, payroll, bull, failedReport, job, client, requests, restarts, failures>>

-----------------------------------------------------------------------------
(* Requests.                                                               *)

ClientGoes(c, pc, p, n, m) ==
  client' = [client EXCEPT ![c] = [pc |-> pc, id |-> p, n |-> n, m |-> m]]

ClientEnds(c) == client' = [client EXCEPT ![c] = ClientIdle]

\* A new request on p, which goes on to pc.
Request(c, pc, p, n, m) ==
  /\ client[c].pc = "idle" /\ requests < MaxRequests
  /\ requests' = requests + 1
  /\ ClientGoes(c, pc, p, n, m)
  /\ UNCHANGED <<cycle, payroll, absent, bull, failedReport, job, changes, restarts, failures>>

At(c, pc) == client[c].pc = pc /\ UNCHANGED <<report, absent, failedReport, job, limits>>

OnlyPayrolls == UNCHANGED <<processing, processed, bull>>

(* process/:id: neither processed nor under processing, ...                *)
ProcessRead(c) == ~processed /\ ~processing /\ Request(c, "set", None, 0, 0)

(* preparePayrollReportOfProvidedCycle: ... is set so, ...                 *)
ProcessSet(c) ==
  /\ At(c, "set")
  /\ processing' = TRUE
  /\ ClientGoes(c, "add", None, 0, 0)
  /\ UNCHANGED <<processed, payroll, bull>>

(* ... and put on the queue                                                *)
ProcessAdd(c) ==
  /\ At(c, "add")
  /\ bull' = bull + 1
  /\ ClientEnds(c)
  /\ UNCHANGED <<processing, processed, payroll>>

\* A mutated form of RecalculateRead: paid is not looked at.
RecalculateReadPaid(c, p) == p \in Open /\ Request(c, "mark", p, 0, 0)

(* recalculate: a payroll that is not paid ...                             *)
RecalculateRead(c, p) ==
  p \in Open /\ ~payroll[p].paid /\ Request(c, "mark", p, 0, 0)

(* ... is marked, ...                                                      *)
RecalculateMark(c) ==
  /\ At(c, "mark")
  /\ payroll' = [payroll EXCEPT ![client[c].id].processing = TRUE]
  /\ ClientGoes(c, "clear", client[c].id, 0, 0)
  /\ OnlyPayrolls

\* A mutated form of RecalculateClear: the deductions stay.
RecalculateKeeps(c) ==
  /\ At(c, "clear")
  /\ ClientGoes(c, "check", client[c].id, 0, 0)
  /\ UNCHANGED payroll
  /\ OnlyPayrolls

(* ... its deductions are deleted, ...                                     *)
RecalculateClear(c) ==
  /\ At(c, "clear")
  /\ payroll' = [payroll EXCEPT ![client[c].id].rows = 0]
  /\ ClientGoes(c, "check", client[c].id, 0, 0)
  /\ OnlyPayrolls

(* ... preparePayrollReportOfUser: another payroll of the user is an error *)
(* and the correction of this one is kept, ...                             *)
RecalculateCheck(c) ==
  LET p == client[c].id
      existing == Of(payroll[p].user)
  IN  /\ At(c, "check")
      /\ \/ existing = {} /\ ClientGoes(c, "read", p, 0, 0)
         \/ p \in existing /\ ClientGoes(c, "read", p, payroll[p].correction, 0)
         \/ existing \ {p} # {} /\ ClientEnds(c)
      /\ UNCHANGED payroll
      /\ OnlyPayrolls

(* ... the attendance is read, ...                                         *)
RecalculateDays(c) ==
  /\ At(c, "read")
  /\ ClientGoes(c, "write", client[c].id, client[c].n, absent[payroll[client[c].id].user])
  /\ UNCHANGED payroll
  /\ OnlyPayrolls

(* ... the row is written ...                                              *)
RecalculateWrite(c) ==
  LET p == client[c].id  n == client[c].n  d == client[c].m
  IN  /\ At(c, "write")
      /\ payroll' = [payroll EXCEPT ![p] =
           [user |-> payroll[p].user, live |-> TRUE, paid |-> FALSE, processing |-> FALSE,
            correction |-> n, days |-> d, total |-> Salary - d + n, rows |-> payroll[p].rows]]
      /\ ClientGoes(c, "rows", p, n, d)
      /\ OnlyPayrolls

(* ... and its deductions are created                                      *)
RecalculateRows(c) ==
  /\ At(c, "rows")
  /\ payroll' = [payroll EXCEPT ![client[c].id].rows = @ + client[c].m]
  /\ ClientEnds(c)
  /\ OnlyPayrolls

(* update: the new total is computed of the row read, ...                  *)
UpdateRead(c, p, n) ==
  /\ p \in Open
  /\ Request(c, "update", p, n, payroll[p].total - payroll[p].correction + n)

(* ... and written                                                         *)
UpdateWrite(c) ==
  /\ At(c, "update")
  /\ payroll' = [payroll EXCEPT ![client[c].id] =
                   [@ EXCEPT !.correction = client[c].n, !.total = client[c].m]]
  /\ ClientEnds(c)
  /\ OnlyPayrolls

(* remove: a payroll that is not paid ...                                  *)
RemoveRead(c, p) ==
  p \in Open /\ ~payroll[p].paid /\ Request(c, "remove", p, 0, 0)

(* ... is deleted, if the database takes the update of its deductions      *)
RemoveWrite(c) ==
  /\ At(c, "remove")
  /\ payroll' = [payroll EXCEPT ![client[c].id].live = FALSE] \/ UNCHANGED payroll
  /\ ClientEnds(c)
  /\ OnlyPayrolls

(* markAsPaid: in one query                                                *)
MarkAsPaid(c, p) ==
  /\ p \in Open
  /\ client[c].pc = "idle" /\ requests < MaxRequests
  /\ requests' = requests + 1
  /\ payroll' = [payroll EXCEPT ![p].paid = TRUE]
  /\ UNCHANGED <<cycle, absent, bull, failedReport, job, client, changes, restarts, failures>>

(* A query of a recalculation, or of an edit, fails.                       *)
ClientFails(c) ==
  /\ client[c].pc \notin {"idle", "set", "add"}
  /\ failures < MaxFailures
  /\ failures' = failures + 1
  /\ ClientEnds(c)
  /\ UNCHANGED <<cycle, payroll, absent, bull, failedReport, job, changes, requests, restarts>>

ClientGoesOn(c) ==
  \/ ProcessSet(c) \/ ProcessAdd(c)
  \/ RecalculateMark(c) \/ RecalculateClear(c) \/ RecalculateCheck(c)
  \/ RecalculateDays(c) \/ RecalculateWrite(c) \/ RecalculateRows(c)
  \/ UpdateWrite(c) \/ RemoveWrite(c)

ClientStep(c) ==
  \/ ProcessRead(c) \/ ClientGoesOn(c) \/ ClientFails(c)
  \/ \E p \in Ids : RecalculateRead(c, p) \/ RemoveRead(c, p) \/ MarkAsPaid(c, p)
  \/ \E p \in Ids, n \in Corrections : UpdateRead(c, p, n)

-----------------------------------------------------------------------------
(* The job.                                                                *)

JobOnly == UNCHANGED <<processing, processed, report, absent, bull, client,
                       changes, requests, restarts>>

\* Job j has done with all users.
Ready(j) == job[j].on /\ \A u \in Users : job[j].stage[u] = "done"

(* preparePayrollReport: the users are found                               *)
JobStart(j) ==
  /\ bull > 0 /\ ~job[j].on
  /\ bull' = bull - 1
  /\ job' = [job EXCEPT ![j] = [JobIdle EXCEPT !.on = TRUE]]
  /\ UNCHANGED <<cycle, payroll, absent, failedReport, client, limits>>

(* The first query of the job, or its last, fails: the error is reported   *)
(* and resets processing, or is thrown when somebody else has reset it.    *)
JobFails(j) ==
  /\ \/ bull > 0 /\ ~job[j].on /\ bull' = bull - 1
     \/ Ready(j) /\ UNCHANGED bull
  /\ failures < MaxFailures
  /\ failures' = failures + 1
  /\ processing' = FALSE
  /\ report' = IF processing THEN {None} ELSE report
  /\ job' = [job EXCEPT ![j] = JobIdle]
  /\ UNCHANGED <<processed, payroll, absent, failedReport, client, changes, requests, restarts>>

\* Job j is at stage s with user u.
Does(j, u, s) == job[j].on /\ job[j].stage[u] = s /\ JobOnly

Then(j, u, s) == job' = [job EXCEPT ![j] = [@ EXCEPT !.stage[u] = s]]

\* A mutated form of JobCheck: what is there already is not looked at.
JobCheckNot(j, u) ==
  /\ Does(j, u, "check")
  /\ Then(j, u, "read")
  /\ UNCHANGED <<payroll, failures, failedReport>>

(* preparePayrollReportOfUser: is there a payroll of the user?             *)
JobCheck(j, u) ==
  /\ Does(j, u, "check")
  /\ \/ Of(u) = {} /\ Then(j, u, "read") /\ UNCHANGED failedReport
     \/ Of(u) # {} /\ Then(j, u, "done") /\ failedReport' = failedReport \cup {u}
  /\ UNCHANGED <<payroll, failures>>

(* the attendance                                                          *)
JobRead(j, u) ==
  /\ Does(j, u, "read")
  /\ job' = [job EXCEPT ![j] = [@ EXCEPT !.stage[u] = "create", !.days[u] = absent[u]]]
  /\ UNCHANGED <<payroll, failures, failedReport>>

(* the payroll                                                             *)
JobCreate(j, u) ==
  /\ Does(j, u, "create")
  /\ \E p \in Ids \ Present :
       /\ payroll' = [payroll EXCEPT ![p] =
            [NoRow EXCEPT !.user = u, !.live = TRUE, !.days = job[j].days[u],
                          !.total = Salary - job[j].days[u]]]
       /\ job' = [job EXCEPT ![j] = [@ EXCEPT !.stage[u] = "rows", !.id[u] = p]]
  /\ UNCHANGED <<failures, failedReport>>

(* its deductions                                                          *)
JobRows(j, u) ==
  /\ Does(j, u, "rows")
  /\ payroll' = [payroll EXCEPT ![job[j].id[u]].rows = @ + job[j].days[u]]
  /\ Then(j, u, "done")
  /\ UNCHANGED <<failures, failedReport>>

(* A query fails: an error while reading is reported, without the user,    *)
(* and one while writing is only logged.                                   *)
JobUserFails(j, u) ==
  /\ job[j].on /\ job[j].stage[u] # "done" /\ JobOnly
  /\ failures < MaxFailures
  /\ failures' = failures + 1
  /\ Then(j, u, "done")
  /\ \/ job[j].stage[u] \in {"check", "read"} /\ failedReport' = failedReport \cup {None}
     \/ job[j].stage[u] \in {"create", "rows"} /\ UNCHANGED failedReport
  /\ UNCHANGED payroll

\* A mutated form of JobFinish: it does not wait for the users.
JobFinishEarly(j) ==
  /\ job[j].on
  /\ processed' = TRUE /\ processing' = FALSE /\ report' = failedReport
  /\ job' = [job EXCEPT ![j] = JobIdle]
  /\ UNCHANGED <<payroll, absent, bull, failedReport, client, limits>>

\* A mutated form of JobFinish: processing stays.
JobFinishBusy(j) ==
  /\ Ready(j)
  /\ processed' = TRUE /\ report' = failedReport
  /\ job' = [job EXCEPT ![j] = JobIdle]
  /\ UNCHANGED <<processing, payroll, absent, bull, failedReport, client, limits>>

(* the cycle is processed                                                  *)
JobFinish(j) ==
  /\ Ready(j)
  /\ processed' = TRUE /\ processing' = FALSE /\ report' = failedReport
  /\ job' = [job EXCEPT ![j] = JobIdle]
  /\ UNCHANGED <<payroll, absent, bull, failedReport, client, limits>>

UserStep(j, u) == JobCheck(j, u) \/ JobRead(j, u) \/ JobCreate(j, u) \/ JobRows(j, u)

JobStep(j) == JobStart(j) \/ JobFinish(j) \/ \E u \in Users : UserStep(j, u)

(* A restart: Bull delivers the running jobs again.                        *)
Restart ==
  /\ restarts < MaxRestarts
  /\ restarts' = restarts + 1
  /\ bull' = bull + Cardinality({j \in Jobs : job[j].on})
  /\ job' = [j \in Jobs |-> JobIdle]
  /\ client' = [c \in Clients |-> ClientIdle]
  /\ failedReport' = {}
  /\ UNCHANGED <<cycle, payroll, absent, changes, requests, failures>>

Next ==
  \/ AttendanceChanges \/ Restart
  \/ \E c \in Clients : ClientStep(c)
  \/ \E j \in Jobs : JobStep(j) \/ JobFails(j)
  \/ \E j \in Jobs, u \in Users : JobUserFails(j, u)

Spec == Init /\ [][Next]_vars

(* Queries come to an end, and Bull runs its jobs.                         *)
Fairness ==
  /\ \A c \in Clients : WF_vars(ClientGoesOn(c))
  /\ WF_vars(\E j \in Jobs : JobStep(j))

FairSpec == Spec /\ Fairness

-----------------------------------------------------------------------------
(* Properties.                                                             *)

(* A user has one payroll of a cycle ("This month payroll was already      *)
(* created for this user", payroll.processor.service.ts 163).              *)
OnePayroll == \A u \in Users : Cardinality(Of(u)) <= 1

(* What was paid stays paid ("This record has been marked as paid already, *)
(* you cannot recalculate this record anymore", payroll.service.ts 288).   *)
PaidStaysPaid == [][\A p \in Ids : payroll[p].paid => payroll'[p].paid]_vars

\* A request or a job still has to write to p.
AtWork(p) ==
  \/ payroll[p].processing
  \/ \E c \in Clients : client[c].id = p
  \/ \E j \in Jobs, u \in Users : job[j].on /\ job[j].stage[u] = "rows" /\ job[j].id[u] = p

(* The total is the salary less the deductions that are listed, and the    *)
(* correction, unless a restart or an error came between two writes.       *)
FiguresAgree ==
  restarts + failures = 0 =>
    \A p \in Present : ~AtWork(p) =>
      /\ payroll[p].rows = payroll[p].days
      /\ payroll[p].total = Salary - payroll[p].rows + payroll[p].correction

(* When the cycle is processed every user has got a payroll, or is in the  *)
(* report, or the query that creates it has failed.                        *)
EveryoneIsAccountedFor ==
  processed =>
    \A u \in Users :
      (\E p \in Ids : payroll[p].user = u) \/ u \in report \/ failures > 0

(* Once the cycle is on the queue processing comes to an end, whatever     *)
(* restarts and errors ("This cycle is under processing. Please wait till  *)
(* it is completed", payroll-cycle.controller.ts 80).                      *)
ProcessingEnds == bull > 0 ~> ~processing
=============================================================================
