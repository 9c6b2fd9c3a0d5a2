---------------------------- MODULE SalaryHistory ----------------------------
(***************************************************************************)
(* The salaries a user has had, and the one a payroll takes: updateSalary  *)
(* (user.service.ts), preparePayrollReportofAllUser                        *)
(* (payroll.processor.service.ts).                                         *)
(*                                                                         *)
(* The active salary is looked up, the new one created, and the others are *)
(* closed, in three queries. Times of day are left out.                    *)
(***************************************************************************)
EXTENDS Integers, Sequences

CONSTANTS
  Days,         \* the last day
  Handlers,     \* requests to the server in progress at once
  MaxActions,   \* bound on the requests to the server
  MaxFailures   \* bound on the queries that fail

Day == 1..Days
Open == Days + 1   \* the end of a salary that has none: NULL, the first in descending order

VARIABLES
  salary,    \* the salaries of the user, in the order they were entered
  handler,
  raced,     \* history: did two changes overlap?
  broken,    \* history: was a change given up before it had closed the others?
  actions, failures

vars == <<salary, handler, raced, broken, actions, failures>>

Idle == [pc |-> "idle", start |-> 0, new |-> 0]

TypeOK ==
  /\ salary \in Seq([start: Day, end: 0..Open, active: BOOLEAN])
  /\ handler \in [Handlers -> [pc: {"idle", "create", "close"}, start: 0..Days, new: Nat]]
  /\ raced \in BOOLEAN /\ broken \in BOOLEAN
  /\ actions \in 0..MaxActions /\ failures \in 0..MaxFailures

Init ==
  /\ salary = <<>>
  /\ handler = [h \in Handlers |-> Idle]
  /\ raced = FALSE /\ broken = FALSE
  /\ actions = 0 /\ failures = 0

Active == {i \in DOMAIN salary : salary[i].active}
Raising == {h \in Handlers : handler[h] # Idle}

Begin(h, d) ==
  /\ handler[h] = Idle /\ actions < MaxActions
  /\ actions' = actions + 1
  /\ handler' = [handler EXCEPT ![h] = [pc |-> "create", start |-> d, new |-> 0]]
  /\ raced' = (raced \/ Raising # {})
  /\ UNCHANGED <<salary, broken, failures>>

\* A mutated form of Raise: the new salary may begin before the one that is active.
RaiseAtAnyTime(h) == \E d \in Day : Begin(h, d)

(* updateSalary: the new salary may not begin before the active one; of    *)
(* several that are active the database picks one.                         *)
Raise(h) ==
  \E d \in Day :
    /\ Active = {} \/ \E i \in Active : d >= salary[i].start
    /\ Begin(h, d)

CreateSalary(h) ==
  /\ handler[h].pc = "create"
  /\ salary' = Append(salary, [start |-> handler[h].start, end |-> Open, active |-> TRUE])
  /\ handler' = [handler EXCEPT ![h].pc = "close", ![h].new = Len(salary) + 1]
  /\ UNCHANGED <<raced, broken, actions, failures>>

\* The others that are active end the day before the new one begins.
CloseOthers(h) ==
  /\ handler[h].pc = "close"
  /\ salary' = [i \in DOMAIN salary |->
       IF i # handler[h].new /\ salary[i].active
       THEN [salary[i] EXCEPT !.end = handler[h].start - 1, !.active = FALSE]
       ELSE salary[i]]
  /\ handler' = [handler EXCEPT ![h] = Idle]
  /\ UNCHANGED <<raced, broken, actions, failures>>

QueryFails(h) ==
  /\ handler[h] # Idle /\ failures < MaxFailures
  /\ failures' = failures + 1
  /\ broken' = (broken \/ handler[h].pc = "close")
  /\ handler' = [handler EXCEPT ![h] = Idle]
  /\ UNCHANGED <<salary, raced, actions>>

Next == \E h \in Handlers : Raise(h) \/ CreateSalary(h) \/ CloseOthers(h) \/ QueryFails(h)

Spec == Init /\ [][Next]_vars

(* The salaries a payroll may take for a cycle that begins on d: of those  *)
(* that have begun the last to end, and of these the last to begin. That a *)
(* salary ends within the cycle does not matter: the second arm of the     *)
(* query lets it pass.                                                     *)
Taken(d) ==
  LET Begun == {i \in DOMAIN salary : salary[i].start <= d}
      Before(i, j) ==
        \/ salary[i].end < salary[j].end
        \/ salary[i].end = salary[j].end /\ salary[i].start < salary[j].start
  IN  {i \in Begun : \A j \in Begun : ~Before(i, j)}

-----------------------------------------------------------------------------
(* Properties.                                                             *)

(* A payroll takes the salary that was entered last of those that have     *)
(* begun on the first day of its cycle, also for a day past, however often *)
(* the salary was changed, and while a change is in progress: only between *)
(* two that begin on the same day the choice is then open. Excepted are    *)
(* changes that overlapped, for they close each other, and one that was    *)
(* given up before it had closed the others (updateSalary).                *)
SalaryInForce ==
  ~raced /\ ~broken =>
    \A d \in Day : \A i \in Taken(d), j \in DOMAIN salary :
      salary[j].start <= d =>
        j <= i \/ (Raising # {} /\ salary[j].start = salary[i].start)
=============================================================================
