------------------------------ MODULE MCPayDates ------------------------------
EXTENDS PayDates, TLC

CONSTANTS u1, u2, p1, p2, p3

\* Two cycles of three days after six that may count for their days off: one
\* with a weekend before a holiday, one with a holiday on a weekend.
Worked(days) ==
  [d \in -5..6 |-> IF d \in days THEN [minutes |-> 540, status |-> "complete"]
                   ELSE [minutes |-> 0, status |-> "none"]]

MCCalendars ==
  {[closed |-> {1}, first |-> {1}, holidays |-> {2}, midnight |-> TRUE],
   [closed |-> {2, 5}, first |-> {5}, holidays |-> {5}, midnight |-> FALSE]}

MCRecords ==
  {Worked({-5}), Worked(-5..3 \cup {6}),
   [d \in -5..6 |-> IF d = 2 THEN [minutes |-> 0, status |-> "off"]
                    ELSE [minutes |-> 520, status |-> "late"]]}

MCLeaves ==
  {{[from |-> 2, to |-> 4, paid |-> TRUE], [from |-> 5, to |-> 6, paid |-> TRUE]},
   {[from |-> 1, to |-> 1, paid |-> FALSE]}}

\* The first and the third employee have one name; the fourth has no working hours;
\* of four days at most two records are found.
MCLists == [attendance |-> {<<1, 2, 4>>, <<1, 3>>}, payroll |-> {<<1, 2>>, <<1, 1>>}]

MCName == <<"a", "b", "a", "c">>

MCAttendance ==
  <<[d \in 1..4 |-> "complete"], [d \in 1..4 |-> IF d = 1 THEN "none" ELSE "late"],
    [d \in 1..4 |-> "none"], [d \in 1..4 |-> "none"]>>

\* What is not looked at is in one state.
MCInit ==
  /\ PayDatesInit
  /\ which # "pay" => /\ calendar.midnight /\ record = Worked({-5}) /\ credits = 0
                      /\ Cardinality(leaves) = 1

MCSpec ==
  MCInit /\ [][PayDatesNext]_<<which, vars, dateVars, salaryVars, payVars, reportVars>> /\ Fairness
=============================================================================
