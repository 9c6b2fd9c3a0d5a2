------------------------------- MODULE MCRecords -------------------------------
EXTENDS Records, TLC

CONSTANTS h1, h2, t1, t2

\* Rows 2 and 3 were made on the same date.
MCKey == 1 :> 1 @@ 2 :> 2 @@ 3 :> 2 @@ 4 :> 3

\* The titles are alike: the first item has the first of them. What is not looked at is in
\* one state.
MCInit ==
  /\ RecordsInit
  /\ items[1].title = t1
  /\ which # "tasks" => rows = {1}
  /\ which # "listing" => listing = "client"
  /\ which # "pages" => pListing = Pages!FindTasks /\ found = {}
  /\ which # "xero" => ~onHold /\ fees = "none"
  /\ which # "lines" => doc = "invoice" /\ inXero

MCSpec ==
  MCInit /\ [][RecordsNext]_<<which, taskVars, listVars, pageVars, vars, linesVars>>

Symmetry == Permutations({h1, h2})
=============================================================================
