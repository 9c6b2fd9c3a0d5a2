------------------------------- MODULE Reports -------------------------------
(***************************************************************************)
(* The Excel reports of the attendance and of the payrolls of a period:    *)
(* generateReport of attendance.service.ts and of payroll.service.ts, the  *)
(* two writers of excel.service.ts, and the responses of the two           *)
(* controllers.                                                            *)
(*                                                                         *)
(* A request prepares the sheets of several employees at once; what the    *)
(* workers search by is an object they share. All requests of one kind     *)
(* here are about one period, and so write, and send, one file.            *)
(***************************************************************************)
EXTENDS Integers, Sequences, FiniteSets, SequencesExt

CONSTANTS
  Requests,    \* requests for a report
  Workers,     \* sheets of a request prepared at once: 10
  Lists,       \* Lists[kind]: the employees there may be in a report, by first name
  Name,        \* Name[u]: the name of employee u
  NoHours,     \* employees whose organization has no working hours
  Period,      \* the days of the period
  DaysOff,     \* its weekends and public holidays
  Attendance,  \* Attendance[u][d]: the status of the record, "none" where there is none
  Page,        \* the records a search returns at most: 32
  MaxFailures  \* bound on the queries that fail

Kinds == {"attendance", "payroll"}
Employees == DOMAIN Name

VARIABLES
  request,     \* the local variables of each request
  worker,      \* worker[r][w]: the sheet w prepares for r
  file,        \* file[kind]: the file of the period
  got,         \* got[r]: what the response of r carries
  shared,      \* history: the kinds whose file two requests have used at once
  failures

vars == <<request, worker, file, got, shared, failures>>

NoFile == [state |-> "none", by |-> "none"]
NoWork == [user |-> 0, index |-> 0]

\* employees: whom the report is about; left: those no worker has taken;
\* filter: the one searched for last; next: the index of the next sheet;
\* sheets: the sheets at their indices; missing (history): those given up;
\* source: the file as it was when it was opened.
NotAsked ==
  [pc |-> "idle", kind |-> "attendance", employees |-> <<>>, left |-> <<>>, filter |-> 0,
   next |-> 0, sheets |-> [i \in {} |-> 0], missing |-> 0, source |-> NoFile]

TypeOK ==
  /\ DOMAIN request = Requests
  /\ \A r \in Requests : request[r].kind \in Kinds /\ request[r].left \in Seq(Employees)
  /\ worker \in [Requests -> [Workers -> [user: Employees \cup {0}, index: Nat]]]
  /\ file \in [Kinds -> [state: {"none", "part", "whole", "mixed"}, by: Requests \cup {"none"}]]
  /\ got \in [Requests -> Requests \cup {"nothing", "part"}]
  /\ shared \subseteq Kinds
  /\ failures \in 0..MaxFailures

Init ==
  /\ request = [r \in Requests |-> NotAsked]
  /\ worker = [r \in Requests |-> [w \in Workers |-> NoWork]]
  /\ file = [k \in Kinds |-> NoFile]
  /\ got = [r \in Requests |-> "nothing"]
  /\ shared = {}
  /\ failures = 0

-----------------------------------------------------------------------------
(* The sheets.                                                             *)

Ask(r, kind) ==
  /\ request[r].pc = "idle"
  /\ \E list \in Lists[kind] :
       request' = [request EXCEPT ![r] =
         [NotAsked EXCEPT !.pc = "prepare", !.kind = kind, !.employees = list, !.left = list]]
  /\ UNCHANGED <<worker, file, got, shared, failures>>

(* The employees of a department, of an organization, those named, or all: *)
(* active ones, and those who have left within the period.                 *)
AskAttendance(r) == Ask(r, "attendance")

(* The payrolls of a cycle, removed ones as well: an employee whose payroll*)
(* was made again is there twice. "users" goes by the payrolls' own ids.   *)
AskPayroll(r) == Ask(r, "payroll")

\* The next employee of the list goes to worker w, who sets what is searched
\* for and waits, with an index of its own.
Take(r, w) ==
  LET q == request[r] IN
  /\ q.pc = "prepare" /\ q.left # <<>> /\ worker[r][w] = NoWork
  /\ IF Head(q.left) \in NoHours
     THEN /\ request' = [request EXCEPT ![r] =
               [q EXCEPT !.left = Tail(q.left), !.filter = Head(q.left), !.missing = q.missing + 1]]
          /\ UNCHANGED worker
     ELSE /\ request' = [request EXCEPT ![r] =
               [q EXCEPT !.left = Tail(q.left), !.filter = Head(q.left), !.next = q.next + 1]]
          /\ worker' = [worker EXCEPT ![r][w] = [user |-> Head(q.left), index |-> q.next]]
  /\ UNCHANGED <<file, got, shared, failures>>

\* The first Page records of an employee, in the order of their days.
Found(u) ==
  {d \in Period : /\ Attendance[u][d] # "none"
                  /\ Cardinality({e \in Period : e < d /\ Attendance[u][e] # "none"}) < Page}

(* prepareAttendanceFromD1ToD2: one row for each day of the period.        *)
RowsOf(u) ==
  [d \in Period |->
     IF d \in DaysOff THEN "off" ELSE IF d \in Found(u) THEN Attendance[u][d] ELSE "absent"]

\* Worker w has its records, those of employee u, and puts the sheet at its
\* index.
Prepared(r, w, u) ==
  LET sheets == request[r].sheets
      i == worker[r][w].index
      sheet == [user |-> worker[r][w].user, rows |-> RowsOf(u)]
  IN /\ worker[r][w] # NoWork
     /\ request' = [request EXCEPT ![r].sheets =
          [j \in DOMAIN sheets \cup {i} |-> IF j = i THEN sheet ELSE sheets[j]]]
     /\ worker' = [worker EXCEPT ![r][w] = NoWork]
     /\ UNCHANGED <<file, got, shared, failures>>

\* A mutated form of Prepare: the records are those of the shared filter.
PrepareByFilter(r, w) == Prepared(r, w, request[r].filter)

(* The search was made for the employee of the worker: applyFilters copied *)
(* the filter before another worker could set it.                          *)
Prepare(r, w) == Prepared(r, w, worker[r][w].user)

(* A failure is logged, and the index stays without a sheet.               *)
PrepareFails(r, w) ==
  /\ worker[r][w] # NoWork /\ failures < MaxFailures
  /\ request' = [request EXCEPT ![r].missing = @ + 1]
  /\ worker' = [worker EXCEPT ![r][w] = NoWork]
  /\ failures' = failures + 1
  /\ UNCHANGED <<file, got, shared>>

-----------------------------------------------------------------------------
(* The file.                                                               *)

SheetsDone(r) ==
  /\ request[r].pc = "prepare" /\ request[r].left = <<>>
  /\ \A w \in Workers : worker[r][w] = NoWork

\* Two sheets of a workbook may not have one name.
Namesakes(r) ==
  \E i, j \in DOMAIN request[r].sheets :
    i # j /\ Name[request[r].sheets[i].user] = Name[request[r].sheets[j].user]

Using(k) == {r \in Requests : request[r].kind = k /\ request[r].pc \in {"write", "open", "send"}}

\* The file is opened for writing, which empties the one there is.
StartWriting(r) ==
  LET k == request[r].kind IN
  /\ request' = [request EXCEPT ![r].pc = "write"]
  /\ file' = [file EXCEPT ![k] = [state |-> "part", by |-> r]]
  /\ shared' = IF Using(k) = {} THEN shared ELSE shared \cup {k}
  /\ UNCHANGED <<worker, got, failures>>

Refuse(r) ==
  /\ request' = [request EXCEPT ![r].pc = "refused"]
  /\ UNCHANGED <<worker, file, got, shared, failures>>

(* attendanceExcelReport                                                   *)
AttendanceExcelReport(r) ==
  /\ request[r].kind = "attendance" /\ SheetsDone(r)
  /\ IF Namesakes(r) THEN Refuse(r) ELSE StartWriting(r)

(* PayrollExcelReport: the month is taken from the first sheet, which may  *)
(* be missing while there are others.                                      *)
PayrollExcelReport(r) ==
  /\ request[r].kind = "payroll" /\ SheetsDone(r)
  /\ IF Namesakes(r) \/ (DOMAIN request[r].sheets # {} /\ 0 \notin DOMAIN request[r].sheets)
     THEN Refuse(r) ELSE StartWriting(r)

\* The last of the file is written: over what another request has begun, the
\* two are mixed; where the file was removed, there is none.
FinishWriting(r) ==
  LET k == request[r].kind IN
  /\ request[r].pc = "write"
  /\ request' = [request EXCEPT ![r].pc = "open"]
  /\ file' = [file EXCEPT ![k] =
       IF @ = NoFile THEN NoFile
       ELSE IF @.by = r THEN [@ EXCEPT !.state = "whole"] ELSE [@ EXCEPT !.state = "mixed"]]
  /\ UNCHANGED <<worker, got, shared, failures>>

\* Nobody handles the error of a stream, or the exception of its callback:
\* the process ends, and with it all its requests.
ProcessEnds ==
  /\ request' = [r \in Requests |->
       IF request[r].pc = "idle" THEN NotAsked ELSE [request[r] EXCEPT !.pc = "lost"]]
  /\ worker' = [r \in Requests |-> [w \in Workers |-> NoWork]]
  /\ UNCHANGED <<file, got, shared, failures>>

\* A mutated form of Open: the writing of the file is not waited for.
OpenAtOnce(r) ==
  /\ request[r].pc \in {"write", "open"}
  /\ request' = [request EXCEPT ![r].pc = "send", ![r].source = file[request[r].kind]]
  /\ UNCHANGED <<worker, file, got, shared, failures>>

(* generateReport of the controllers: the file is opened, and piped into   *)
(* the response.                                                           *)
Open(r) ==
  LET k == request[r].kind IN
  /\ request[r].pc = "open"
  /\ IF file[k] = NoFile THEN ProcessEnds
     ELSE /\ request' = [request EXCEPT ![r].pc = "send", ![r].source = file[k]]
          /\ UNCHANGED <<worker, file, got, shared, failures>>

\* What the response of r may carry: what was opened, or a part of it when
\* the file has been written since.
Carried(r) ==
  LET s == request[r].source
  IN  (IF s.state = "whole" THEN {s.by} ELSE {"part"})
      \cup (IF file[request[r].kind] \in {s, NoFile} THEN {} ELSE {"part"})

Sent(r) ==
  /\ request[r].pc = "send"
  /\ \E c \in Carried(r) : got' = [got EXCEPT ![r] = c]
  /\ request' = [request EXCEPT ![r].pc = "done"]

(* The report of the attendance is removed from the disk when it was sent. *)
SendAttendance(r) ==
  /\ request[r].kind = "attendance"
  /\ IF request[r].pc = "send" /\ file["attendance"] = NoFile THEN ProcessEnds
     ELSE /\ Sent(r)
          /\ file' = [file EXCEPT !["attendance"] = NoFile]
          /\ UNCHANGED <<worker, shared, failures>>

(* That of the payrolls stays.                                             *)
SendPayroll(r) ==
  /\ request[r].kind = "payroll"
  /\ Sent(r)
  /\ UNCHANGED <<worker, file, shared, failures>>

Next ==
  \E r \in Requests :
    \/ AskAttendance(r) \/ AskPayroll(r)
    \/ \E w \in Workers : Take(r, w) \/ Prepare(r, w) \/ PrepareFails(r, w)
    \/ AttendanceExcelReport(r) \/ PayrollExcelReport(r)
    \/ FinishWriting(r) \/ Open(r) \/ SendAttendance(r) \/ SendPayroll(r)

Spec == Init /\ [][Next]_vars

-----------------------------------------------------------------------------
(* Properties.                                                             *)

Sheets(r) == {request[r].sheets[i] : i \in DOMAIN request[r].sheets}

(* A sheet shows, of each day, what the attendance of the employee it is   *)
(* about says, although the workers share what they search by; only the    *)
(* days behind the first page look like absences (generateReport).         *)
SheetsAreTheirs ==
  \A r \in Requests : \A s \in Sheets(r), d \in Period :
    LET a == Attendance[s.user][d] IN
      CASE d \in DaysOff -> s.rows[d] = "off"
        [] d \notin DaysOff /\ a = "none" -> s.rows[d] = "absent"
        [] OTHER -> \/ s.rows[d] = a
                    \/ s.rows[d] = "absent" /\ Cardinality({e \in Period : e < d}) >= Page

(* When the workers are done, each employee of the list has a sheet for    *)
(* every time it is listed, but for those whose preparation failed: no     *)
(* sheet has taken the place of another one (reportIndex).                 *)
EveryoneHasASheet ==
  \A r \in Requests :
    LET q == request[r] IN
    SheetsDone(r) =>
      /\ Cardinality(DOMAIN q.sheets) + q.missing = Len(q.employees)
      /\ \A u \in Employees : Cardinality({i \in DOMAIN q.sheets : q.sheets[i].user = u})
                          <= Cardinality({i \in DOMAIN q.employees : q.employees[i] = u})

(* A response carries the whole report that was asked for, and a report of *)
(* the attendance leaves nothing on the disk, unless two requests used the *)
(* file of a period at once (generateReport of the controllers).           *)
ReportsArriveWhole ==
  \A r \in Requests :
    request[r].kind \notin shared =>
      /\ request[r].pc = "done" => got[r] = r
      /\ request[r].pc = "lost" => \E g \in Requests : request[g].kind \in shared
      /\ request[r].pc = "done" /\ request[r].kind = "attendance" /\ Using("attendance") = {} =>
           file["attendance"] = NoFile
=============================================================================
