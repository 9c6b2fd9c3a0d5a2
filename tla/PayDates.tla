-------------------------------- MODULE PayDates --------------------------------
(***************************************************************************)
(* The processing of a payroll cycle (Payroll), the dates of the cycles    *)
(* (PayrollCycles), the salaries of a user (SalaryHistory), what a payroll *)
(* is computed from (PayOfCycle), and the reports (Reports). They share    *)
(* nothing in the model, so each behaviour here is one of them, chosen at  *)
(* the beginning.                                                          *)
(***************************************************************************)
EXTENDS Payroll, FiniteSets, Sequences

CONSTANTS
  LastDay,                                                 \* of cycles and salaries
  MaxAge, Cycles, Makers, MaxCycles,                       \* of cycles
  Raisers, MaxRaises,                                      \* of salaries
  PayCycles, Length, Week, FullDay, Calendars, Entered, Edited, Records, Leaves,
  Computers, MaxCredits, MaxComputed,                      \* of what a payroll is computed from
  Askers, Preparers, Lists, Name, NoHours, Period, DaysOff, Attendance, Page   \* of reports

VARIABLES
  which,
  today, cycles, cProcessed, paid, cHandler, unchecked, cActions, cFailures,
  salary, sHandler, raced, broken, sActions, sFailures,
  calendar, record, leaves, credits, made, removed, mHandler, most, overlapped, mActions,
  asker, preparer, file, got, shared, rFailures

dateVars == <<today, cycles, cProcessed, paid, cHandler, unchecked, cActions, cFailures>>
salaryVars == <<salary, sHandler, raced, broken, sActions, sFailures>>
payVars == <<calendar, record, leaves, credits, made, removed, mHandler, most, overlapped, mActions>>
reportVars == <<asker, preparer, file, got, shared, rFailures>>

Dates == INSTANCE PayrollCycles WITH
  Days <- LastDay, Handlers <- Makers, MaxActions <- MaxCycles,
  cycle <- cycles, processed <- cProcessed, handler <- cHandler,
  actions <- cActions, failures <- cFailures

Salaries == INSTANCE SalaryHistory WITH
  Days <- LastDay, Handlers <- Raisers, MaxActions <- MaxRaises,
  handler <- sHandler, actions <- sActions, failures <- sFailures

Pay == INSTANCE PayOfCycle WITH
  Cycles <- PayCycles, Handlers <- Computers, MaxActions <- MaxComputed,
  payroll <- made, handler <- mHandler, actions <- mActions

Files == INSTANCE Reports WITH
  Requests <- Askers, Workers <- Preparers,
  request <- asker, worker <- preparer, failures <- rFailures

SalaryAssumption == LastDay \in Nat /\ MaxRaises \in Nat /\ MaxFailures \in Nat

DatesAssumption ==
  /\ LastDay \in Nat \ {0} /\ MaxCycles \in Nat /\ MaxFailures \in Nat
  /\ None \notin Cycles /\ None \notin Dates!Span

ReportsAssumption ==
  /\ 0 \notin DOMAIN Name
  /\ \A kind \in {"attendance", "payroll"} : \A list \in Lists[kind] : list \in Seq(DOMAIN Name)
  /\ IsFiniteSet(Period) /\ Period \subseteq Int /\ Page \in Nat

Marks == {"none", "absent", "off", "complete", "late", "incomplete"}

PayAssumption ==
  /\ IsFiniteSet(PayCycles) /\ PayCycles = 1..Cardinality(PayCycles)
  /\ Length \in Nat \ {0} /\ Week \in Nat
  /\ \A rec \in Records :
       DOMAIN rec = Pay!Day /\ \A d \in Pay!Day : rec[d].status \in Marks
  /\ \A ls \in Leaves : \A l \in ls : l.from \in Int /\ l.to \in Int

ASSUME PayDatesAssumption ==
  SalaryAssumption /\ DatesAssumption /\ ReportsAssumption /\ PayAssumption

PayDatesInit ==
  /\ which \in {"payroll", "dates", "salaries", "pay", "reports"}
  /\ Init /\ Dates!Init /\ Salaries!Init /\ Pay!Init /\ Files!Init

PayDatesNext ==
  \/ which = "payroll" /\ Next /\ UNCHANGED <<which, dateVars, salaryVars, payVars, reportVars>>
  \/ which = "dates" /\ Dates!Next /\ UNCHANGED <<which, vars, salaryVars, payVars, reportVars>>
  \/ which = "salaries" /\ Salaries!Next /\ UNCHANGED <<which, vars, dateVars, payVars, reportVars>>
  \/ which = "pay" /\ Pay!Next /\ UNCHANGED <<which, vars, dateVars, salaryVars, reportVars>>
  \/ which = "reports" /\ Files!Next /\ UNCHANGED <<which, vars, dateVars, salaryVars, payVars>>

PayDatesSpec ==
  PayDatesInit /\ [][PayDatesNext]_<<which, vars, dateVars, salaryVars, payVars, reportVars>>

(* Of the cycles that are processed no two have a day in common; a payroll *)
(* takes the salary in force; and a cycle's days, and the leave credits,   *)
(* count once each: but for the causes the modules name.                   *)
PaidByDay ==
  /\ which = "dates" => Dates!DayPaidOnce
  /\ which = "salaries" => Salaries!SalaryInForce
  /\ which = "pay" => Pay!EachDayOnce /\ Pay!CreditsAreThere

(* Everyone has a sheet of a report, with what is recorded, and a report   *)
(* arrives whole, but for the causes Reports names.                        *)
ReportsAreWhole ==
  which = "reports" =>
    Files!SheetsAreTheirs /\ Files!EveryoneHasASheet /\ Files!ReportsArriveWhole
=============================================================================
