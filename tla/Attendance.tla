------------------------------ MODULE Attendance ------------------------------
(***************************************************************************)
(* From biometric checks to attendance records: src/src/modules/biometrics *)
(* (checks are added, moved and rolled back) and src/src/modules/attendance*)
(* (the nightly and the bulk job that turn the checks of a day into one    *)
(* record, and the records HR enters by hand).                             *)
(*                                                                         *)
(* A "day" is one date of one employee, the unit the jobs work on.  Every  *)
(* database round trip is a step; nothing runs in a transaction.           *)
(***************************************************************************)
EXTENDS Integers, FiniteSets, FiniteSetsExt

CONSTANTS
  Days,         \* the dates of the employees
  Date,         \* Date[d]: the calendar date of day d
  DayEnd,       \* the last instant of a day
  Times,        \* the instants of a day at which somebody checks in or out
  Jobs,         \* jobs of the attendance queue that may run at once
  Overlap,      \* may requests be handled while a job runs?
  Ids,          \* identifiers of attendance records
  None,         \* no record, no day, not read yet
  MaxEdits,     \* bound on the checks moved or rolled back
  MaxCrashes,   \* bound on the restarts of the server
  MaxFailures   \* bound on the records that cannot be written

ASSUME AttendanceAssumption ==
  /\ Date \in [Days -> Nat]
  /\ DayEnd \in Nat /\ Times \subseteq 0..DayEnd
  /\ Overlap \in BOOLEAN
  /\ None \notin Ids \cup Days \cup Times
  /\ MaxEdits \in Nat /\ MaxCrashes \in Nat /\ MaxFailures \in Nat

VARIABLES
  check,       \* check[d][t]: the biometric check at t of day d
  mode,        \* mode[d][t]: checked in or out ("in" where there is no check)
  attendance,  \* the attendance records
  job,         \* the local variables of each job
  hr,          \* HR's request on an attendance record
  corrected,   \* days whose record HR has set, and no job since
  edits, crashes, failures

vars == <<check, mode, attendance, job, hr, corrected, edits, crashes, failures>>

Record == [id: Ids, day: Days, in: Times, out: Times]

NoRecord == [id |-> None]

\* What a job does with a day (the days of a job are worked on concurrently).
\* found: the record read; first, last: the first and last check read, None
\* when not read yet.
Work ==
  [pc: {"idle", "find", "bounds"}, found: Record \cup {NoRecord},
   first: Times \cup {None}, last: Times \cup {None}]
  \cup [pc: {"create", "mark"}, found: Record \cup {NoRecord}, first: Times, last: Times]

\* Where a job, or HR, is when it has nothing to do.
WorkIdle == [pc |-> "idle", found |-> NoRecord, first |-> None, last |-> None]

HrIdle ==
  [pc |-> "idle", id |-> None, day |-> None, in |-> None, out |-> None]

\* HR's request: what record it sets, to what.
Hr ==
  {HrIdle}
  \cup [pc: {"create"}, id: {None}, day: Days, in: Times, out: Times]
  \cup [pc: {"update"}, id: Ids, day: Days, in: Times, out: Times]

TypeOK ==
  /\ check \in [Days -> [Times -> {"none", "new", "processed"}]]
  /\ mode \in [Days -> [Times -> {"in", "out"}]]
  /\ attendance \subseteq Record
  /\ job \in [Jobs -> [Days -> Work]]
  /\ hr \in Hr
  /\ corrected \subseteq Days
  /\ edits \in 0..MaxEdits /\ crashes \in 0..MaxCrashes /\ failures \in 0..MaxFailures

Present(d) == {t \in Times : check[d][t] # "none"}

RecordsOf(d) == {r \in attendance : r.day = d}

\* May i be the identifier of a new record?
Fresh(i) ==
  /\ \A r \in attendance : r.id # i
  /\ \A j \in Jobs, d \in Days : job[j][d].found.id # i
  /\ hr.id # i

Running(j) == \E d \in Days : job[j][d].pc # "idle"

Init ==
  /\ check = [d \in Days |-> [t \in Times |-> "none"]]
  /\ mode = [d \in Days |-> [t \in Times |-> "in"]]
  /\ attendance = {}
  /\ job = [j \in Jobs |-> [d \in Days |-> WorkIdle]]
  /\ hr = HrIdle
  /\ corrected = {}
  /\ edits = 0 /\ crashes = 0 /\ failures = 0

-----------------------------------------------------------------------------
(* biometrics.service: checks.                                             *)

\* Requests are handled between the runs of the jobs, or at any time.
RequestsServed == Overlap \/ \A j \in Jobs : ~Running(j)

\* A check at t of day d; the employee has none at that instant.
AddCheck(d, t, m) ==
  /\ RequestsServed
  /\ check[d][t] = "none"
  /\ check' = [check EXCEPT ![d][t] = "new"]
  /\ mode' = [mode EXCEPT ![d][t] = m]
  /\ UNCHANGED <<attendance, job, hr, corrected, edits, crashes, failures>>

(* checkInCheckOut "in", and the checks of HR and of a bulk upload         *)
CheckIn(d, t) == AddCheck(d, t, "in")

(* checkInCheckOut "out", validated by validateCheckInCheckOut: somebody   *)
(* has checked in since the start of the day                               *)
CheckOut(d, t) ==
  /\ \E e \in Days, s \in Times :
       Date[e] >= Date[d] /\ s \in Present(e) /\ mode[e][s] = "in"
  /\ AddCheck(d, t, "out")

(* update: HR moves a check to another instant, to be processed again      *)
MoveCheck(d, t, e, u) ==
  /\ RequestsServed /\ edits < MaxEdits
  /\ t \in Present(d) /\ check[e][u] = "none"
  /\ check' = [check EXCEPT ![d][t] = "none", ![e][u] = "new"]
  /\ mode' = [mode EXCEPT ![d][t] = "in", ![e][u] = mode[d][t]]
  /\ edits' = edits + 1
  /\ UNCHANGED <<attendance, job, hr, corrected, crashes, failures>>

(* rollback deletes the checks of a bulk upload, processed or not; an      *)
(* upload only checks in                                                   *)
Rollback(S) ==
  /\ RequestsServed /\ edits < MaxEdits
  /\ S # {}
  /\ \A c \in S : c[2] \in Present(c[1]) /\ mode[c[1]][c[2]] = "in"
  /\ check' = [d \in Days |-> [t \in Times |->
       IF <<d, t>> \in S THEN "none" ELSE check[d][t]]]
  /\ edits' = edits + 1
  /\ UNCHANGED <<mode, attendance, job, hr, corrected, crashes, failures>>

(* delete: HR deletes a check                                              *)
DeleteCheck(d, t) ==
  /\ RequestsServed /\ edits < MaxEdits
  /\ t \in Present(d)
  /\ check' = [check EXCEPT ![d][t] = "none"]
  /\ mode' = [mode EXCEPT ![d][t] = "in"]
  /\ edits' = edits + 1
  /\ UNCHANGED <<attendance, job, hr, corrected, crashes, failures>>

CheckStep ==
  \/ \E d \in Days, t \in Times : CheckIn(d, t) \/ CheckOut(d, t) \/ DeleteCheck(d, t)
  \/ \E d, e \in Days, t, u \in Times : MoveCheck(d, t, e, u)
  \/ \E S \in SUBSET (Days \X Times) : Rollback(S)

-----------------------------------------------------------------------------
(* attendance.service: HR's records.                                       *)

(* create: refused when the day has a record, as read first                *)
HrCreateRead(d, i, o) ==
  /\ RequestsServed
  /\ hr.pc = "idle"
  /\ RecordsOf(d) = {}
  /\ hr' = [pc |-> "create", id |-> None, day |-> d, in |-> i, out |-> o]
  /\ UNCHANGED <<check, mode, attendance, job, corrected, edits, crashes, failures>>

HrCreateWrite ==
  /\ hr.pc = "create"
  /\ \E i \in Ids :
       /\ Fresh(i)
       /\ attendance' = attendance \cup
            {[id |-> i, day |-> hr.day, in |-> hr.in, out |-> hr.out]}
  /\ corrected' = corrected \cup {hr.day}
  /\ hr' = HrIdle
  /\ UNCHANGED <<check, mode, job, edits, crashes, failures>>

(* update: of a record to a day without any other                          *)
HrUpdateRead(r, d, i, o) ==
  /\ RequestsServed
  /\ hr.pc = "idle"
  /\ RecordsOf(d) \subseteq {r}
  /\ hr' = [pc |-> "update", id |-> r.id, day |-> d, in |-> i, out |-> o]
  /\ UNCHANGED <<check, mode, attendance, job, corrected, edits, crashes, failures>>

\* The update fails when the record is gone.
HrUpdateWrite ==
  /\ hr.pc = "update"
  /\ IF \E r \in attendance : r.id = hr.id
       THEN /\ attendance' = {r \in attendance : r.id # hr.id} \cup
                 {[id |-> hr.id, day |-> hr.day, in |-> hr.in, out |-> hr.out]}
            /\ corrected' = corrected \cup {hr.day} \cup
                 {r.day : r \in {q \in attendance : q.id = hr.id}}
       ELSE UNCHANGED <<attendance, corrected>>
  /\ hr' = HrIdle
  /\ UNCHANGED <<check, mode, job, edits, crashes, failures>>

(* remove: HR deletes a record                                             *)
HrRemove(r) ==
  /\ RequestsServed
  /\ attendance' = attendance \ {r}
  /\ corrected' = corrected \cup {r.day}
  /\ UNCHANGED <<check, mode, job, hr, edits, crashes, failures>>

HrStep ==
  \/ \E d \in Days, i, o \in Times : HrCreateRead(d, i, o)
  \/ \E r \in attendance, d \in Days, i, o \in Times : HrUpdateRead(r, d, i, o)
  \/ HrCreateWrite \/ HrUpdateWrite \/ \E r \in attendance : HrRemove(r)

-----------------------------------------------------------------------------
(* attendance.processor.service: a job.                                    *)

Proceed(j, d, w) == job' = [job EXCEPT ![j][d] = w]

\* Job j is done with day d: it was recorded, or an error stopped it.
Finish(j, d) == Proceed(j, d, WorkIdle)

(* bulkProcessAttendance: the days with a check not processed yet          *)
ListDays(j) ==
  /\ ~Running(j)
  /\ Overlap \/ hr.pc = "idle"
  /\ LET days == {d \in Days : \E t \in Times : check[d][t] = "new"}
     IN  /\ days # {}
         /\ job' = [job EXCEPT ![j] =
              [d \in Days |-> IF d \in days THEN [WorkIdle EXCEPT !.pc = "find"]
                                            ELSE WorkIdle]]
  /\ UNCHANGED <<check, mode, attendance, hr, corrected, edits, crashes, failures>>

(* userAttendanceOfGivenDate: a record of the day, ...                     *)
FindExisting(j, d) ==
  /\ job[j][d].pc = "find"
  /\ \E r \in IF RecordsOf(d) = {} THEN {NoRecord} ELSE RecordsOf(d) :
       Proceed(j, d, [WorkIdle EXCEPT !.pc = "bounds", !.found = r])
  /\ UNCHANGED <<check, mode, attendance, hr, corrected, edits, crashes, failures>>

(* ... the first and the last check of the day, in two concurrent queries; *)
(* a day left without checks is an error                                   *)
FindFirst(j, d) ==
  /\ job[j][d].pc = "bounds" /\ job[j][d].first = None
  /\ IF Present(d) = {}
       THEN Finish(j, d)
       ELSE Proceed(j, d, [job[j][d] EXCEPT !.first = Min(Present(d))])
  /\ UNCHANGED <<check, mode, attendance, hr, corrected, edits, crashes, failures>>

FindLast(j, d) ==
  /\ job[j][d].pc = "bounds" /\ job[j][d].last = None
  /\ IF Present(d) = {}
       THEN Finish(j, d)
       ELSE Proceed(j, d, [job[j][d] EXCEPT !.last = Max(Present(d))])
  /\ UNCHANGED <<check, mode, attendance, hr, corrected, edits, crashes, failures>>

\* A mutated form of UpToDate: the end of the day is not compared.
UpToDateIn(j, d) ==
  /\ job[j][d].found # NoRecord
  /\ job[j][d].found.in = job[j][d].first

\* The record read says what the checks say: "already exists", an error.
UpToDate(j, d) ==
  /\ job[j][d].found # NoRecord
  /\ job[j][d].found.in = job[j][d].first /\ job[j][d].found.out = job[j][d].last

\* The record read has been deleted since.
Gone(j, d) ==
  job[j][d].found # NoRecord /\ \A r \in attendance : r.id # job[j][d].found.id

\* A mutated form of Replace: the old record stays.
ReplaceNothing(j, d) ==
  /\ job[j][d].pc = "bounds" /\ job[j][d].first # None /\ job[j][d].last # None
  /\ IF UpToDate(j, d)
       THEN Finish(j, d)
       ELSE Proceed(j, d, [job[j][d] EXCEPT !.pc = "create"])
  /\ UNCHANGED <<check, mode, attendance, hr, corrected, edits, crashes, failures>>

(* an outdated record is deleted (an error if it is gone by now)           *)
Replace(j, d) ==
  /\ job[j][d].pc = "bounds" /\ job[j][d].first # None /\ job[j][d].last # None
  /\ IF UpToDate(j, d) \/ Gone(j, d)
       THEN Finish(j, d) /\ UNCHANGED attendance
       ELSE /\ attendance' = {r \in attendance : r.id # job[j][d].found.id}
            /\ Proceed(j, d, [job[j][d] EXCEPT !.pc = "create"])
  /\ UNCHANGED <<check, mode, hr, corrected, edits, crashes, failures>>

\* A mutated form of CreateRecord: the last check is taken for the first.
CreateFromLast(j, d) ==
  /\ job[j][d].pc = "create"
  /\ \E i \in Ids :
       /\ Fresh(i)
       /\ attendance' = attendance \cup
            {[id |-> i, day |-> d, in |-> job[j][d].last, out |-> job[j][d].last]}
  /\ corrected' = corrected \ {d}
  /\ Proceed(j, d, [job[j][d] EXCEPT !.pc = "mark"])
  /\ UNCHANGED <<check, mode, hr, edits, crashes, failures>>

(* the new record; that it could not be written is logged, and no more     *)
CreateRecord(j, d) ==
  /\ job[j][d].pc = "create"
  /\ \/ /\ \E i \in Ids :
             /\ Fresh(i)
             /\ attendance' = attendance \cup
                  {[id |-> i, day |-> d,
                    in |-> job[j][d].first, out |-> job[j][d].last]}
        /\ corrected' = corrected \ {d}
        /\ UNCHANGED failures
     \/ /\ failures < MaxFailures
        /\ failures' = failures + 1
        /\ UNCHANGED <<attendance, corrected>>
  /\ Proceed(j, d, [job[j][d] EXCEPT !.pc = "mark"])
  /\ UNCHANGED <<check, mode, hr, edits, crashes>>

(* an error between the deletion and the new record, such as "No Working   *)
(* Hours Defined for the Company"                                          *)
NoWorkingHours(j, d) ==
  /\ job[j][d].pc = "create"
  /\ failures < MaxFailures
  /\ failures' = failures + 1
  /\ Finish(j, d)
  /\ UNCHANGED <<check, mode, attendance, hr, corrected, edits, crashes>>

(* every check of the day is processed                                     *)
MarkProcessed(j, d) ==
  /\ job[j][d].pc = "mark"
  /\ check' = [check EXCEPT ![d] =
       [t \in Times |-> IF @[t] = "none" THEN "none" ELSE "processed"]]
  /\ Finish(j, d)
  /\ UNCHANGED <<mode, attendance, hr, corrected, edits, crashes, failures>>

DayStep(j, d) ==
  \/ FindExisting(j, d) \/ FindFirst(j, d) \/ FindLast(j, d)
  \/ Replace(j, d) \/ CreateRecord(j, d) \/ NoWorkingHours(j, d)
  \/ MarkProcessed(j, d)

JobStep(j) == ListDays(j) \/ \E d \in Days : DayStep(j, d)

(* a restart: what the jobs and HR's request were doing is lost            *)
Crash ==
  /\ crashes < MaxCrashes
  /\ crashes' = crashes + 1
  /\ job' = [j \in Jobs |-> [d \in Days |-> WorkIdle]]
  /\ hr' = HrIdle
  /\ UNCHANGED <<check, mode, attendance, corrected, edits, failures>>

Next == CheckStep \/ HrStep \/ Crash \/ \E j \in Jobs : JobStep(j)

Spec == Init /\ [][Next]_vars

(* The cron job runs every night, and its queries come to an end.          *)
FairSpec ==
  /\ Spec
  /\ \A j \in Jobs : WF_vars(ListDays(j)) /\ \A d \in Days : WF_vars(DayStep(j, d))
  /\ WF_vars(HrCreateWrite) /\ WF_vars(HrUpdateWrite)

-----------------------------------------------------------------------------
(* The invariant that OnePerDay rests on when nothing overlaps.            *)

Sequential == Overlap = FALSE /\ \A j, k \in Jobs : j = k

UniqueId == \A r, q \in attendance : r.id = q.id => r = q

UniqueDay == \A r, q \in attendance : r.day = q.day => r = q

HrAlone == hr.pc # "idle" => \A j \in Jobs : ~Running(j)

\* What a job has read of a day, or has done to it, is still so.
JobKnows ==
  \A j \in Jobs, d \in Days :
    /\ job[j][d].pc = "bounds" => RecordsOf(d) = {job[j][d].found} \ {NoRecord}
    /\ job[j][d].pc = "create" => RecordsOf(d) = {}

HrKnows ==
  /\ hr.pc = "create" => RecordsOf(hr.day) = {}
  /\ hr.pc = "update" => \A r \in RecordsOf(hr.day) : r.id = hr.id

IInv == TypeOK /\ UniqueId /\ UniqueDay /\ HrAlone /\ JobKnows /\ HrKnows

-----------------------------------------------------------------------------
(* Properties.                                                             *)

(* "Attendance for the given user in this date already exists": a day has  *)
(* one record at most (attendance.service.ts 167, 373),  *)
(* through restarts and failed writes, as long as one job runs at a time   *)
(* and HR waits for it.                                                    *)
OnePerDay == \A d \in Days : Cardinality(RecordsOf(d)) <= 1

\* Some record of day d spans t.
Counted(d, t) == \E r \in RecordsOf(d) : r.in <= t /\ t <= r.out

(* A check that is marked processed is counted, unless HR has set the      *)
(* record of its day since, or the day is going to be processed again:     *)
(* payroll reads the records, and nothing reads a processed check again.   *)
(* (A record that could not be written is lost, and so is one a restart    *)
(* interrupted if the checks are edited as well.)                          *)
ProcessedIsCounted ==
  failures = 0 /\ (edits = 0 \/ crashes = 0) =>
    \A d \in Days \ corrected, t \in Times :
      check[d][t] = "processed" =>
        Counted(d, t) \/ \E u \in Times : check[d][u] = "new"

(* Every check is counted in the end, whatever restarts interrupt the job, *)
(* or HR has set the record, or taken the check back: the cron job "to     *)
(* find user attendance" (attendance.cronjob.ts 13).                       *)
EventuallyCounted ==
  \A d \in Days, t \in Times :
    check[d][t] = "new" ~>
      Counted(d, t) \/ d \in corrected \/ check[d][t] = "none" \/ failures > 0
=============================================================================
