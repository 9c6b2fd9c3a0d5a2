------------------------------ MODULE PayOfCycle ------------------------------
(***************************************************************************)
(* What a payroll is computed from: preparePayrollReportOfUser,            *)
(* findIfWeekendIsPaid and findIfHolidayIsPaid                             *)
(* (payroll.processor.service.ts), with the status an attendance record is *)
(* given (checkAttendanceStatus, attendance.service.ts) and the leave      *)
(* credits (leave-credit). One employee, whose cycles follow each other.   *)
(*                                                                         *)
(* The credits, the attendance, and for each weekend and holiday the       *)
(* attendance of the week before are queries of their own: a cycle may be  *)
(* computed while HR enters attendance and credits, and while another      *)
(* cycle of the employee is computed. Amounts are in minutes of work.      *)
(***************************************************************************)
EXTENDS Integers, FiniteSets, FiniteSetsExt

CONSTANTS
  Cycles,      \* the cycles, 1..n
  Length,      \* the days of a cycle
  Week,        \* the days before a day off that are looked at: 6
  FullDay,     \* the minutes of a working day
  Calendars,   \* [closed, holidays: the days off; first: those of the first organization
               \* there is; midnight: does toDate end at 00:00?]
  Entered,     \* the minutes a record may show when it is entered
  Edited,      \* the days HR enters attendance for
  Records,     \* the attendance there may be at first
  Leaves,      \* the sets of approved leave requests there may be, [from, to, paid]
  Handlers,    \* the job and the requests that compute a payroll at once
  MaxCredits,  \* bound on the leave credits
  MaxActions   \* bound on the computations, and on what HR enters

Day == (1 - Week)..(Length * Cardinality(Cycles))
DaysOf(c) == (Length * (c - 1) + 1)..(Length * c)

VARIABLES
  calendar,    \* one of Calendars
  record,      \* record[d]: the attendance of day d, NoRecord where there is none
  leaves,      \* the approved leave requests
  credits,     \* the sum of the leave credits of the employee
  payroll,     \* payroll[c]: the payroll of cycle c
  removed,     \* the credits of the payrolls that were removed
  handler,
  most,        \* history: the most credits there have been
  overlapped,  \* history: have two cycles been computed at once?
  actions

vars == <<calendar, record, leaves, credits, payroll, removed, handler, most, overlapped, actions>>

NoRecord == [minutes |-> 0, status |-> "none"]
NoPayroll == [credits |-> -1, absences |-> 0, deducted |-> 0]

\* The local variables of a computation. closed: the weekends it goes by;
\* seen: the attendance of the cycle as it was read. touched (history): has the
\* attendance been changed since it began?
Idle ==
  [pc |-> "idle", cycle |-> 0, closed |-> {}, day |-> 0, available |-> 0, seen |-> [d \in {} |-> NoRecord],
   absences |-> 0, worked |-> 0, working |-> 0, used |-> 0, overused |-> 0, minutes |-> 0,
   touched |-> FALSE]

TypeOK ==
  /\ calendar \in Calendars
  /\ record \in [Day -> [minutes: 0..FullDay, status: STRING]]
  /\ leaves \in Leaves
  /\ credits \in 0..MaxCredits /\ most \in 0..MaxCredits
  /\ DOMAIN payroll = Cycles /\ removed \in Nat
  /\ DOMAIN handler = Handlers
  /\ overlapped \in BOOLEAN
  /\ actions \in 0..MaxActions

Init ==
  /\ calendar \in Calendars
  /\ record \in Records
  /\ leaves \in Leaves
  /\ credits \in 0..1
  /\ payroll = [c \in Cycles |-> NoPayroll]
  /\ removed = 0
  /\ handler = [h \in Handlers |-> Idle]
  /\ most = credits
  /\ overlapped = FALSE
  /\ actions = 0

-----------------------------------------------------------------------------
(* Attendance and leave credits.                                           *)

(* checkAttendanceStatus: a grace of five minutes, and half an hour late.  *)
Status(d, m) ==
  CASE d \in calendar.closed -> "off"
    [] d \notin calendar.closed /\ m = 0 -> "absent"
    [] d \notin calendar.closed /\ m > FullDay - 5 -> "complete"
    [] d \notin calendar.closed /\ m \in 1..(FullDay - 5) /\ m >= FullDay - 30 -> "late"
    [] OTHER -> "incomplete"

(* calculateIncompleteDeduction                                            *)
Missing(r) == IF r.status = "incomplete" THEN FullDay - r.minutes ELSE 0

(* HR, or the attendance job, enters or corrects the attendance of a day   *)
(* (modelled in Attendance).                                               *)
Enter(d, m) ==
  /\ actions < MaxActions
  /\ record' = [record EXCEPT ![d] = [minutes |-> m, status |-> Status(d, m)]]
  /\ handler' = [h \in Handlers |-> [handler[h] EXCEPT !.touched = handler[h].pc # "idle"]]
  /\ actions' = actions + 1
  /\ UNCHANGED <<calendar, leaves, credits, payroll, removed, most, overlapped>>

(* addLeaveCreditsReport every three months, and leave-credit.create       *)
AddCredits ==
  /\ actions < MaxActions /\ credits < MaxCredits
  /\ credits' = credits + 1
  /\ most' = IF credits < most THEN most ELSE credits + 1
  /\ actions' = actions + 1
  /\ UNCHANGED <<calendar, record, leaves, payroll, removed, handler, overlapped>>

(* leave-credit.remove                                                     *)
RemoveCredits ==
  /\ actions < MaxActions /\ credits > 0
  /\ credits' = credits - 1
  /\ actions' = actions + 1
  /\ UNCHANGED <<calendar, record, leaves, payroll, removed, handler, most, overlapped>>

-----------------------------------------------------------------------------
(* preparePayrollReportOfUser                                              *)

Busy == {h \in Handlers : handler[h].pc # "idle"}

(* The job makes the payroll of a cycle, one cycle after another; a        *)
(* request recalculates one there is. The search for the organization      *)
(* assigns where it means to compare: the job takes the working hours of   *)
(* the first organization for everyone, the request those of the employee. *)
Begin(h, c) ==
  /\ handler[h].pc = "idle" /\ actions < MaxActions
  /\ payroll[c] = NoPayroll => \A g \in Busy : payroll[handler[g].cycle] # NoPayroll
  /\ handler' = [handler EXCEPT ![h] =
       [Idle EXCEPT !.pc = "credits", !.cycle = c,
                    !.closed = IF payroll[c] = NoPayroll THEN calendar.first ELSE calendar.closed]]
  /\ overlapped' = (overlapped \/ Busy # {})
  /\ actions' = actions + 1
  /\ UNCHANGED <<calendar, record, leaves, credits, payroll, removed, most>>

\* What h goes on with; nothing else changes.
Goes(h, state) ==
  /\ handler' = [handler EXCEPT ![h] = state]
  /\ UNCHANGED <<calendar, record, leaves, credits, payroll, removed, most, overlapped, actions>>

Made == {c \in Cycles : payroll[c] # NoPayroll}

\* The credits that payroll c has used, one by one.
CreditsOf(c) == {c} \X (1..payroll[c].credits)

(* The sum of the credits of all payrolls of the employee, this one and    *)
(* the removed ones included.                                              *)
UsedCredits == removed + Cardinality(UNION {CreditsOf(c) : c \in Made})

\* A mutated form of ReadCredits: what earlier payrolls have used is not looked up.
ReadCreditsGiven(h) ==
  /\ handler[h].pc = "credits"
  /\ Goes(h, [handler[h] EXCEPT !.pc = "attendance", !.available = credits])

ReadCredits(h) ==
  /\ handler[h].pc = "credits"
  /\ Goes(h, [handler[h] EXCEPT !.pc = "attendance", !.available = credits - UsedCredits])

ReadAttendance(h) ==
  /\ handler[h].pc = "attendance"
  /\ LET days == DaysOf(handler[h].cycle) IN
       Goes(h, [handler[h] EXCEPT
         !.pc = "days", !.day = Min(days), !.seen = [d \in days |-> record[d]]])

\* A leave is found only when it begins within the cycle.
LeavesOn(d, c) == {l \in leaves : l.from \in DaysOf(c) /\ d \in l.from..l.to}

DayOff(h, d) == d \in handler[h].closed \cup calendar.holidays

\* A mutated form of SeenBefore: the search begins a day too early.
SeenTheWeekBefore(d) ==
  \E e \in Day \cap (d - Week - 1)..(d - 1) : record[e].status \in {"complete", "late", "incomplete"}

(* findIfWeekendIsPaid, findIfHolidayIsPaid: the records as they are now.  *)
(* The day itself counts no more: it is searched up to 00:00.              *)
SeenBefore(d) ==
  \E e \in Day \cap (d - Week)..(d - 1) : record[e].status \in {"complete", "late", "incomplete"}

\* Day d, at which the loop is, passes with these counts.
Passes(h, d, absent, worked, working, used, overused) ==
  Goes(h, [handler[h] EXCEPT
    !.pc = IF d = Max(DaysOf(handler[h].cycle)) THEN "deductions" ELSE "days",
    !.day = d + 1,
    !.absences = @ + absent, !.worked = @ + worked, !.working = @ + working,
    !.used = @ + used, !.overused = @ + overused])

\* A weekend or a holiday during a leave is an absence.
LeaveOnDayOff(h, d) ==
  /\ DayOff(h, d) /\ LeavesOn(d, handler[h].cycle) # {}
  /\ Passes(h, d, 1, 0, 0, 0, 0)

\* Otherwise it is paid when the employee was seen in the week before; a
\* holiday on a weekend is paid in any case.
PaidDayOff(h, d) ==
  /\ DayOff(h, d) /\ LeavesOn(d, handler[h].cycle) = {}
  /\ d \in handler[h].closed \cap calendar.holidays \/ SeenBefore(d)
  /\ Passes(h, d, 0, 0, 0, 0, 0)

UnpaidDayOff(h, d) ==
  /\ DayOff(h, d) /\ LeavesOn(d, handler[h].cycle) = {}
  /\ d \notin handler[h].closed \cap calendar.holidays /\ ~SeenBefore(d)
  /\ Passes(h, d, 1, 0, 0, 0, 0)

\* A record that says so makes a working day a day off.
RecordedOff(h, d) ==
  /\ ~DayOff(h, d) /\ handler[h].seen[d].status = "off"
  /\ Passes(h, d, 0, 0, 0, 0, 0)

WorkedDay(h, d) ==
  /\ ~DayOff(h, d) /\ handler[h].seen[d].status \notin {"none", "absent", "off"}
  /\ Passes(h, d, 0, 1, 1, 0, 0)

PaidLeave(h, d) == \E l \in LeavesOn(d, handler[h].cycle) : l.paid

\* An absence of a paid leave takes a credit, as long as no more have been
\* taken than there were.
CreditedDay(h, d) ==
  /\ ~DayOff(h, d) /\ handler[h].seen[d].status \in {"none", "absent"}
  /\ PaidLeave(h, d) /\ handler[h].available >= handler[h].used
  /\ Passes(h, d, 1, 0, 1, 1, 0)

OverusedDay(h, d) ==
  /\ ~DayOff(h, d) /\ handler[h].seen[d].status \in {"none", "absent"}
  /\ PaidLeave(h, d) /\ handler[h].available < handler[h].used
  /\ Passes(h, d, 1, 0, 1, 0, 1)

MissedDay(h, d) ==
  /\ ~DayOff(h, d) /\ handler[h].seen[d].status \in {"none", "absent"}
  /\ ~PaidLeave(h, d)
  /\ Passes(h, d, 1, 0, 1, 0, 0)

EachDay(h) ==
  /\ handler[h].pc = "days"
  /\ LET d == handler[h].day IN
       \/ LeaveOnDayOff(h, d) \/ PaidDayOff(h, d) \/ UnpaidDayOff(h, d)
       \/ RecordedOff(h, d) \/ WorkedDay(h, d)
       \/ CreditedDay(h, d) \/ OverusedDay(h, d) \/ MissedDay(h, d)

\* The days of the queries of the incomplete and the late records: the last
\* one is missing when toDate is at 00:00.
SummedDays(c) ==
  IF calendar.midnight THEN DaysOf(c) \ {Max(DaysOf(c))} ELSE DaysOf(c)

(* The two aggregates, each as its records are then.                       *)
SumIncomplete(h) ==
  /\ handler[h].pc = "deductions"
  /\ Goes(h, [handler[h] EXCEPT
       !.pc = "lates",
       !.minutes = FullDay * (handler[h].absences - handler[h].used)
                   + MapThenSumSet(LAMBDA d : Missing(record[d]), SummedDays(handler[h].cycle))])

CountLates(h) ==
  /\ handler[h].pc = "lates"
  /\ LET lates == Cardinality({d \in SummedDays(handler[h].cycle) : record[d].status = "late"}) IN
       Goes(h, [handler[h] EXCEPT !.pc = "write", !.minutes = @ + (lates \div 3) * (FullDay \div 2)])

(* The payroll is created, or updated by a recalculation.                  *)
Write(h) ==
  /\ handler[h].pc = "write"
  /\ payroll' = [payroll EXCEPT ![handler[h].cycle] =
       [credits |-> handler[h].used, absences |-> handler[h].absences,
        deducted |-> handler[h].minutes]]
  /\ handler' = [handler EXCEPT ![h] = Idle]
  /\ UNCHANGED <<calendar, record, leaves, credits, removed, most, overlapped, actions>>

(* payroll.remove, of a payroll that is not being recalculated (for that   *)
(* see Payroll): its credits still count as used.                          *)
Remove(c) ==
  /\ c \in Made /\ actions < MaxActions
  /\ \A h \in Handlers : handler[h].cycle # c
  /\ payroll' = [payroll EXCEPT ![c] = NoPayroll]
  /\ removed' = removed + payroll[c].credits
  /\ actions' = actions + 1
  /\ UNCHANGED <<calendar, record, leaves, credits, handler, most, overlapped>>

Compute(h) ==
  \/ \E c \in Cycles : Begin(h, c)
  \/ ReadCredits(h) \/ ReadAttendance(h)
  \/ EachDay(h) \/ SumIncomplete(h) \/ CountLates(h) \/ Write(h)

Next ==
  \/ \E h \in Handlers : Compute(h)
  \/ \E d \in Edited, m \in Entered : Enter(d, m)
  \/ \E c \in Cycles : Remove(c)
  \/ AddCredits \/ RemoveCredits

Spec == Init /\ [][Next]_vars

-----------------------------------------------------------------------------
(* Properties.                                                             *)

(* However the payrolls of an employee are made and recalculated, they     *)
(* never take more leave credits together than the employee has had, but   *)
(* for one: the first is taken also when there is none. Excepted are       *)
(* payrolls computed at once, for both are offered the same credits        *)
(* (availableLeaveCredits in preparePayrollReportOfUser).                  *)
CreditsAreThere == ~overlapped => UsedCredits <= most + 1

\* The days of cycle c without work that nothing excuses, by these weekends.
DaysLost(c, weekends) ==
  LET worked == {d \in DaysOf(c) : record[d].status \in {"complete", "late", "incomplete"}}
      off == weekends \cup calendar.holidays
      left == UNION {l.from..l.to : l \in {k \in leaves : Min(DaysOf(c)) <= k.from}}
      idle == {d \in off : \A e \in Day : record[e].status \in {"complete", "late", "incomplete"} =>
                             e >= d \/ e < d - Week}
  IN  (DaysOf(c) \cap off \cap (left \cup (idle \ (weekends \cap calendar.holidays))))
      \cup {d \in DaysOf(c) \ off : record[d].status # "off" /\ d \notin worked}

(* When the deductions of a cycle are added up, each of its days has been  *)
(* passed once and has come to one end: it was worked, it is lost, or it   *)
(* is a day off that is paid. Credits pay for lost days only, and only for *)
(* working days. Excepted is a cycle whose attendance was changed while it *)
(* was computed, for the days off are looked up by themselves              *)
(* (preparePayrollReportOfUser).                                           *)
EachDayOnce ==
  \A h \in Handlers :
    handler[h].pc \in {"deductions", "lates", "write"} /\ ~handler[h].touched =>
      /\ handler[h].absences = Cardinality(DaysLost(handler[h].cycle, handler[h].closed))
      /\ handler[h].worked + handler[h].absences <= Length
      /\ handler[h].used + handler[h].overused <= handler[h].working - handler[h].worked
=============================================================================
