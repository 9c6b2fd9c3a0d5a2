--------------------------- MODULE AttendanceProofs ---------------------------
(***************************************************************************)
(* A day has one attendance record at most when one job runs at a time and *)
(* no request is served while it runs, for any number of employees, dates, *)
(* checks, restarts and failures; and the checks that are marked processed *)
(* are counted in it.                                                      *)
(***************************************************************************)
EXTENDS Attendance, FiniteSetTheorems, WellFoundedInduction, TLAPS

(* Numbers have a least one.                                               *)
LEMMA Least ==
  ASSUME NEW S \in SUBSET Nat, S # {}
  PROVE  \E x \in S : \A y \in S : x <= y
<1> DEFINE R == {ss \in Nat \X Nat : ss[1] < ss[2]}
<1>1. IsWellFoundedOn(R, Nat)
  BY NatLessThanWellFounded DEF OpToRel
<1>2. PICK x \in S : \A y \in S : ~ (<<y, x>> \in R)
  <2> HIDE DEF R
  <2> QED
    BY <1>1, WFMin
<1>3. ASSUME NEW y \in S PROVE x <= y
  <2>1. <<y, x>> \in Nat \X Nat /\ <<y, x>>[1] = y /\ <<y, x>>[2] = x
    OBVIOUS
  <2>2. ~ (y < x)
    BY <1>2, <2>1, Zenon
  <2> QED
    BY <2>2
<1> QED
  BY <1>3

(* The first and the last instant of a set of checks are among them.       *)
LEMMA FirstCheck ==
  ASSUME NEW S \in SUBSET (0..DayEnd), S # {}
  PROVE  Min(S) \in S
<1>1. S \in SUBSET Nat
  OBVIOUS
<1>2. \E x \in S : \A y \in S : x <= y
  BY <1>1, Least
<1> QED
  BY <1>2 DEF Min

LEMMA LastCheck ==
  ASSUME NEW S \in SUBSET (0..DayEnd), S # {}
  PROVE  Max(S) \in S
<1> DEFINE T == {n \in 0..DayEnd : DayEnd - n \in S}
<1>1. PICK s \in S : TRUE
  OBVIOUS
<1>2. DayEnd - s \in T
  BY AttendanceAssumption
<1>3. T \in SUBSET Nat /\ T # {}
  BY <1>2
<1>4. PICK x \in T : \A y \in T : x <= y
  <2> HIDE DEF T
  <2> QED
    BY <1>3, Least
<1>5. ASSUME NEW y \in S PROVE DayEnd - x >= y
  <2>1. DayEnd - y \in T
    BY AttendanceAssumption
  <2>2. x <= DayEnd - y
    BY <1>4, <2>1
  <2> QED
    BY <2>2, AttendanceAssumption
<1>6. DayEnd - x \in S
  OBVIOUS
<1> QED
  BY <1>5, <1>6 DEF Max

LEMMA PresentChecks ==
  ASSUME NEW d \in Days
  PROVE  Present(d) \in SUBSET (0..DayEnd) /\ Present(d) \in SUBSET Times
BY AttendanceAssumption DEF Present

LEMMA NoneIsNew ==
  /\ None \notin Ids /\ None \notin Days /\ None \notin Times
  /\ NoRecord \notin Record
BY AttendanceAssumption DEF NoRecord, Record

-----------------------------------------------------------------------------
(* What the helpers do.                                                    *)

LEMMA WorkIdleType == WorkIdle \in Work /\ WorkIdle.pc = "idle"
BY DEF WorkIdle, Work

LEMMA HrIdleType ==
  HrIdle \in Hr /\ HrIdle.pc = "idle"
BY DEF HrIdle, Hr

(* Job j goes on with day d, and nothing else of any job changes.          *)
LEMMA ProceedType ==
  ASSUME TypeOK, NEW j \in Jobs, NEW d \in Days, NEW w \in Work,
         Proceed(j, d, w)
  PROVE  /\ job' \in [Jobs -> [Days -> Work]]
         /\ job'[j][d] = w
         /\ \A k \in Jobs, e \in Days :
              <<k, e>> # <<j, d>> => job'[k][e] = job[k][e]
BY DEF TypeOK, Proceed

(* The steps that leave the records alone, and let a job go on to where it *)
(* knows what it says of its day, preserve the invariant.                  *)
LEMMA JobGoesOn ==
  ASSUME IInv, NEW j \in Jobs, NEW d \in Days, NEW w \in Work,
         Proceed(j, d, w),
         Running(j),
         w.pc = "bounds" => RecordsOf(d) = {w.found} \ {NoRecord},
         w.pc = "create" => RecordsOf(d) = {},
         UNCHANGED <<mode, attendance, hr, corrected, edits, crashes>>,
         check' \in [Days -> [Times -> {"none", "new", "processed"}]],
         failures' \in 0..MaxFailures
  PROVE  IInv'
<1>1. TypeOK'
  BY ProceedType DEF IInv, TypeOK
<1>2. UniqueId' /\ UniqueDay' /\ HrKnows'
  BY DEF IInv, UniqueId, UniqueDay, HrKnows, RecordsOf
<1>3. HrAlone'
  BY DEF IInv, HrAlone
<1>4. JobKnows'
  BY ProceedType DEF IInv, JobKnows, RecordsOf
<1> QED
  BY <1>1, <1>2, <1>3, <1>4 DEF IInv

-----------------------------------------------------------------------------
LEMMA InitIInv == Init => IInv
<1> SUFFICES ASSUME Init PROVE IInv
  OBVIOUS
<1>1. TypeOK
  BY AttendanceAssumption, WorkIdleType, HrIdleType DEF Init, TypeOK
<1>2. UniqueId /\ UniqueDay /\ HrAlone /\ HrKnows
  BY HrIdleType DEF Init, UniqueId, UniqueDay, HrAlone, HrKnows
<1>3. JobKnows
  BY WorkIdleType DEF Init, JobKnows
<1> QED
  BY <1>1, <1>2, <1>3 DEF IInv

(* Checks come and go without touching a record.                           *)
LEMMA CheckStepIInv ==
  ASSUME IInv, CheckStep
  PROVE  IInv'
<1>1. UNCHANGED <<attendance, job, hr, corrected, crashes, failures>>
  BY DEF CheckStep, CheckIn, CheckOut, AddCheck, MoveCheck, Rollback, DeleteCheck
<1>2. /\ check' \in [Days -> [Times -> {"none", "new", "processed"}]]
      /\ mode' \in [Days -> [Times -> {"in", "out"}]]
      /\ edits' \in 0..MaxEdits
  <2>1. ASSUME NEW d \in Days, NEW t \in Times, CheckIn(d, t) \/ CheckOut(d, t)
        PROVE  /\ check' \in [Days -> [Times -> {"none", "new", "processed"}]]
               /\ mode' \in [Days -> [Times -> {"in", "out"}]]
               /\ edits' \in 0..MaxEdits
    <3>1. PICK m \in {"in", "out"} : AddCheck(d, t, m)
      BY <2>1 DEF CheckIn, CheckOut
    <3>2. check' \in [Days -> [Times -> {"none", "new", "processed"}]]
      BY <3>1 DEF IInv, TypeOK, AddCheck
    <3>3. mode' \in [Days -> [Times -> {"in", "out"}]]
      BY <3>1 DEF IInv, TypeOK, AddCheck
    <3> QED
      BY <3>1, <3>2, <3>3 DEF IInv, TypeOK, AddCheck
  <2>2. ASSUME NEW d \in Days, NEW e \in Days, NEW t \in Times, NEW u \in Times,
               MoveCheck(d, t, e, u)
        PROVE  /\ check' \in [Days -> [Times -> {"none", "new", "processed"}]]
               /\ mode' \in [Days -> [Times -> {"in", "out"}]]
               /\ edits' \in 0..MaxEdits
    <3> DEFINE c == [check EXCEPT ![d][t] = "none"]
               m == [mode EXCEPT ![d][t] = "in"]
    <3>1. /\ check' = [c EXCEPT ![e][u] = "new"]
          /\ mode' = [m EXCEPT ![e][u] = mode[d][t]]
          /\ edits' = edits + 1 /\ edits < MaxEdits
      BY <2>2 DEF MoveCheck
    <3>2. c \in [Days -> [Times -> {"none", "new", "processed"}]]
      BY DEF IInv, TypeOK
    <3>3. m \in [Days -> [Times -> {"in", "out"}]] /\ mode[d][t] \in {"in", "out"}
      BY DEF IInv, TypeOK
    <3> HIDE DEF c, m
    <3>4. check' \in [Days -> [Times -> {"none", "new", "processed"}]]
      BY <3>1, <3>2
    <3>5. mode' \in [Days -> [Times -> {"in", "out"}]]
      BY <3>1, <3>3
    <3> QED
      BY <3>1, <3>4, <3>5, AttendanceAssumption DEF IInv, TypeOK
  <2>3. ASSUME NEW S \in SUBSET (Days \X Times), Rollback(S)
        PROVE  /\ check' \in [Days -> [Times -> {"none", "new", "processed"}]]
               /\ mode' \in [Days -> [Times -> {"in", "out"}]]
               /\ edits' \in 0..MaxEdits
    BY <2>3, AttendanceAssumption DEF IInv, TypeOK, Rollback
  <2>4. ASSUME NEW d \in Days, NEW t \in Times, DeleteCheck(d, t)
        PROVE  /\ check' \in [Days -> [Times -> {"none", "new", "processed"}]]
               /\ mode' \in [Days -> [Times -> {"in", "out"}]]
               /\ edits' \in 0..MaxEdits
    <3>1. check' \in [Days -> [Times -> {"none", "new", "processed"}]]
      BY <2>4 DEF IInv, TypeOK, DeleteCheck
    <3>2. mode' \in [Days -> [Times -> {"in", "out"}]]
      BY <2>4 DEF IInv, TypeOK, DeleteCheck
    <3> QED
      BY <2>4, <3>1, <3>2, AttendanceAssumption DEF IInv, TypeOK, DeleteCheck
  <2> QED
    BY <2>1, <2>2, <2>3, <2>4 DEF CheckStep
<1>3. TypeOK'
  BY <1>1, <1>2 DEF IInv, TypeOK
<1> QED
  BY <1>1, <1>3 DEF IInv, UniqueId, UniqueDay, HrAlone, Running, JobKnows, HrKnows, RecordsOf

-----------------------------------------------------------------------------
(* HR's requests.                                                          *)

(* HR's request begins while no job runs, and leaves the records alone.    *)
LEMMA HrReadIInv ==
  ASSUME IInv, Sequential,
         NEW d \in Days, NEW i \in Times, NEW o \in Times,
         HrCreateRead(d, i, o) \/ \E r \in attendance : HrUpdateRead(r, d, i, o)
  PROVE  IInv'
<1>1. /\ UNCHANGED <<check, mode, attendance, job, corrected, edits, crashes, failures>>
      /\ \A j \in Jobs : ~Running(j)
  BY DEF HrCreateRead, HrUpdateRead, RequestsServed, Sequential
<1>2. hr' \in Hr
  BY DEF HrCreateRead, HrUpdateRead, IInv, TypeOK, Record, Hr
<1>3. TypeOK'
  BY <1>1, <1>2 DEF IInv, TypeOK
<1>4. HrKnows'
  BY DEF HrCreateRead, HrUpdateRead, HrKnows, RecordsOf
<1>5. UniqueId' /\ UniqueDay' /\ HrAlone' /\ JobKnows'
  BY <1>1 DEF IInv, UniqueId, UniqueDay, HrAlone, Running, JobKnows, RecordsOf
<1> QED
  BY <1>3, <1>4, <1>5 DEF IInv

(* When it writes, no job runs, and HR is done.                            *)
LEMMA HrWriteIInv ==
  ASSUME IInv, hr.pc # "idle", hr' = HrIdle,
         UNCHANGED <<check, mode, job, edits, crashes, failures>>,
         attendance' \subseteq Record, corrected' \subseteq Days,
         UniqueId', UniqueDay'
  PROVE  IInv'
<1>1. TypeOK'
  BY HrIdleType DEF IInv, TypeOK
<1>2. HrAlone' /\ HrKnows'
  BY HrIdleType DEF HrAlone, HrKnows
<1>3. \A j \in Jobs, d \in Days : job'[j][d].pc = "idle"
  BY DEF IInv, HrAlone, Running
<1>4. JobKnows'
  BY <1>3 DEF JobKnows
<1> QED
  BY <1>1, <1>2, <1>4 DEF IInv

LEMMA HrCreateWriteIInv ==
  ASSUME IInv, HrCreateWrite
  PROVE  IInv'
<1>1. PICK i \in Ids :
        /\ Fresh(i)
        /\ attendance' = attendance \cup
             {[id |-> i, day |-> hr.day, in |-> hr.in, out |-> hr.out]}
  BY DEF HrCreateWrite
<1> DEFINE new == [id |-> i, day |-> hr.day, in |-> hr.in, out |-> hr.out]
<1>2. hr.day \in Days /\ hr.in \in Times /\ hr.out \in Times
  BY DEF HrCreateWrite, IInv, TypeOK, Hr, HrIdle
<1>3. new \in Record /\ new.id = i /\ new.day = hr.day
  BY <1>2 DEF Record
<1>4. \A r \in attendance : r.id # i /\ r.day # hr.day
  BY <1>1 DEF HrCreateWrite, IInv, HrKnows, RecordsOf, Fresh
<1> HIDE DEF new
<1>5. attendance' = attendance \cup {new}
  BY <1>1 DEF new
<1>6. attendance' \subseteq Record /\ UniqueId' /\ UniqueDay'
  BY <1>3, <1>4, <1>5 DEF IInv, TypeOK, UniqueId, UniqueDay
<1>7. corrected' \subseteq Days
  BY <1>2 DEF HrCreateWrite, IInv, TypeOK
<1> QED
  BY <1>6, <1>7, HrWriteIInv DEF HrCreateWrite

LEMMA HrUpdateWriteIInv ==
  ASSUME IInv, HrUpdateWrite
  PROVE  IInv'
<1>1. CASE \E r \in attendance : r.id = hr.id
  <2> DEFINE new == [id |-> hr.id, day |-> hr.day, in |-> hr.in, out |-> hr.out]
  <2>1. hr.id \in Ids /\ hr.day \in Days /\ hr.in \in Times /\ hr.out \in Times
    BY DEF HrUpdateWrite, IInv, TypeOK, Hr, HrIdle
  <2>2. new \in Record /\ new.id = hr.id /\ new.day = hr.day
    BY <2>1 DEF Record
  <2>3. attendance' = {r \in attendance : r.id # hr.id} \cup {new}
    BY <1>1 DEF HrUpdateWrite
  <2>4. \A r \in attendance : r.day = hr.day => r.id = hr.id
    BY DEF HrUpdateWrite, IInv, HrKnows, RecordsOf
  <2>5. corrected' \subseteq Days
    BY <1>1, <2>1 DEF HrUpdateWrite, IInv, TypeOK, Record
  <2> HIDE DEF new
  <2>6. attendance' \subseteq Record /\ UniqueId' /\ UniqueDay'
    BY <2>2, <2>3, <2>4 DEF IInv, TypeOK, UniqueId, UniqueDay
  <2> QED
    BY <2>5, <2>6, HrWriteIInv DEF HrUpdateWrite
<1>2. CASE ~ \E r \in attendance : r.id = hr.id
  BY <1>2, HrWriteIInv DEF HrUpdateWrite, IInv, TypeOK, UniqueId, UniqueDay
<1> QED
  BY <1>1, <1>2

(* No job runs when HR removes a record.                                   *)
LEMMA HrRemoveIInv ==
  ASSUME IInv, Sequential, NEW r \in attendance, HrRemove(r)
  PROVE  IInv'
<1>1. TypeOK' /\ UniqueId' /\ UniqueDay'
  BY DEF HrRemove, IInv, TypeOK, Record, UniqueId, UniqueDay
<1>2. HrAlone' /\ HrKnows'
  BY DEF HrRemove, IInv, HrAlone, Running, HrKnows, RecordsOf
<1>3. \A j \in Jobs, d \in Days : job'[j][d].pc = "idle"
  BY DEF HrRemove, RequestsServed, Sequential, Running
<1>4. JobKnows'
  BY <1>3 DEF JobKnows
<1> QED
  BY <1>1, <1>2, <1>4 DEF IInv

-----------------------------------------------------------------------------
(* The job.                                                                *)

LEMMA ListDaysIInv ==
  ASSUME IInv, Sequential, NEW j \in Jobs, ListDays(j)
  PROVE  IInv'
<1>1. /\ UNCHANGED <<check, mode, attendance, hr, corrected, edits, crashes, failures>>
      /\ hr.pc = "idle"
  BY DEF ListDays, Sequential
<1>2. [WorkIdle EXCEPT !.pc = "find"] \in Work /\ [WorkIdle EXCEPT !.pc = "find"].pc = "find"
  BY DEF WorkIdle, Work
<1>3. PICK D \in SUBSET Days :
        job' = [job EXCEPT ![j] =
          [d \in Days |-> IF d \in D THEN [WorkIdle EXCEPT !.pc = "find"] ELSE WorkIdle]]
  BY DEF ListDays
<1>4. TypeOK'
  BY <1>1, <1>2, <1>3, WorkIdleType DEF IInv, TypeOK
<1>5. \A k \in Jobs, d \in Days :
        job'[k][d] = job[k][d] \/ job'[k][d].pc \in {"idle", "find"}
  BY <1>2, <1>3, WorkIdleType DEF IInv, TypeOK
<1>6. JobKnows'
  BY <1>1, <1>5 DEF IInv, JobKnows, RecordsOf
<1> QED
  BY <1>1, <1>4, <1>6 DEF IInv, UniqueId, UniqueDay, HrAlone, HrKnows, RecordsOf

LEMMA FindExistingIInv ==
  ASSUME IInv, NEW j \in Jobs, NEW d \in Days, FindExisting(j, d)
  PROVE  IInv'
<1>1. PICK r \in IF RecordsOf(d) = {} THEN {NoRecord} ELSE RecordsOf(d) :
        Proceed(j, d, [WorkIdle EXCEPT !.pc = "bounds", !.found = r])
  BY DEF FindExisting
<1> DEFINE w == [WorkIdle EXCEPT !.pc = "bounds", !.found = r]
<1>2. r \in Record \cup {NoRecord}
  BY DEF IInv, TypeOK, RecordsOf
<1>3. w \in Work /\ w.pc = "bounds" /\ w.found = r
  BY <1>2 DEF WorkIdle, Work
<1>4. RecordsOf(d) = {r} \ {NoRecord}
  <2>1. CASE RecordsOf(d) = {}
    BY <2>1
  <2>2. CASE RecordsOf(d) # {}
    <3>1. r \in RecordsOf(d) /\ r # NoRecord
      BY <2>2, NoneIsNew DEF IInv, TypeOK, RecordsOf
    <3>2. \A q \in RecordsOf(d) : q = r
      BY <3>1 DEF IInv, UniqueDay, RecordsOf
    <3> QED
      BY <3>1, <3>2
  <2> QED
    BY <2>1, <2>2
<1>5. Running(j)
  BY DEF FindExisting, Running
<1> HIDE DEF w
<1> QED
  BY <1>1, <1>3, <1>4, <1>5, JobGoesOn DEF FindExisting, w, IInv, TypeOK

(* A job that is done with a day knows nothing of it.                      *)
LEMMA FinishIInv ==
  ASSUME IInv, NEW j \in Jobs, NEW d \in Days, job[j][d].pc # "idle",
         Finish(j, d),
         UNCHANGED <<mode, attendance, hr, corrected, edits, crashes>>,
         check' \in [Days -> [Times -> {"none", "new", "processed"}]],
         failures' \in 0..MaxFailures
  PROVE  IInv'
BY WorkIdleType, JobGoesOn DEF Finish, Running

(* Reading the bounds of a day does not change what is known of its record.*)
LEMMA BoundsIInv ==
  ASSUME IInv, NEW j \in Jobs, NEW d \in Days,
         FindFirst(j, d) \/ FindLast(j, d)
  PROVE  IInv'
<1>1. /\ job[j][d].pc = "bounds" /\ Running(j)
      /\ UNCHANGED <<check, mode, attendance, hr, corrected, edits, crashes, failures>>
  BY DEF FindFirst, FindLast, Running
<1>2. CASE Finish(j, d)
  BY <1>1, <1>2, FinishIInv DEF IInv, TypeOK
<1>3. CASE ~ Finish(j, d)
  <2>1. Present(d) # {}
    BY <1>3 DEF FindFirst, FindLast
  <2>2. Min(Present(d)) \in Times /\ Max(Present(d)) \in Times
    BY <2>1, PresentChecks, FirstCheck, LastCheck
  <2>3. /\ job[j][d] \in Work
        /\ RecordsOf(d) = {job[j][d].found} \ {NoRecord}
    BY <1>1 DEF IInv, TypeOK, JobKnows
  <2>4. PICK w \in Work :
          /\ Proceed(j, d, w)
          /\ w.pc = "bounds" /\ w.found = job[j][d].found
    <3>1. CASE FindFirst(j, d)
      <4> DEFINE w == [job[j][d] EXCEPT !.first = Min(Present(d))]
      <4>1. w \in Work /\ w.pc = "bounds" /\ w.found = job[j][d].found
        BY <1>1, <2>2, <2>3 DEF Work
      <4>2. Proceed(j, d, w)
        BY <2>1, <3>1 DEF FindFirst
      <4> QED
        BY <4>1, <4>2
    <3>2. CASE FindLast(j, d)
      <4> DEFINE w == [job[j][d] EXCEPT !.last = Max(Present(d))]
      <4>1. w \in Work /\ w.pc = "bounds" /\ w.found = job[j][d].found
        BY <1>1, <2>2, <2>3 DEF Work
      <4>2. Proceed(j, d, w)
        BY <2>1, <3>2 DEF FindLast
      <4> QED
        BY <4>1, <4>2
    <3> QED
      BY <3>1, <3>2
  <2> QED
    BY <1>1, <2>3, <2>4, JobGoesOn DEF IInv, TypeOK
<1> QED
  BY <1>2, <1>3

(* Deleting the only record of a day leaves the others, and what the job   *)
(* knows of their days.                                                    *)
LEMMA ReplaceIInv ==
  ASSUME IInv, Sequential, NEW j \in Jobs, NEW d \in Days, Replace(j, d)
  PROVE  IInv'
<1>1. /\ job[j][d].pc = "bounds" /\ Running(j) /\ job[j][d] \in Work
      /\ job[j][d].first # None /\ job[j][d].last # None
      /\ UNCHANGED <<check, mode, hr, corrected, edits, crashes, failures>>
  BY DEF Replace, Running, IInv, TypeOK
<1>2. CASE UpToDate(j, d) \/ Gone(j, d)
  BY <1>1, <1>2, FinishIInv DEF Replace, IInv, TypeOK
<1>3. CASE ~ (UpToDate(j, d) \/ Gone(j, d))
  <2> DEFINE f == job[j][d].found
             w == [job[j][d] EXCEPT !.pc = "create"]
  <2>1. /\ attendance' = {r \in attendance : r.id # f.id}
        /\ Proceed(j, d, w)
    BY <1>3 DEF Replace
  <2>2. w \in Work /\ w.pc = "create"
    BY <1>1 DEF Work
  <2>3. RecordsOf(d) = {f} \ {NoRecord}
    BY <1>1 DEF IInv, JobKnows
  <2>4. \A r \in attendance : r.id = f.id => r.day = d
    <3>1. CASE f = NoRecord
      BY <3>1, NoneIsNew DEF NoRecord, IInv, TypeOK, Record
    <3>2. CASE f # NoRecord
      <4>1. f \in attendance /\ f.day = d
        BY <2>3, <3>2 DEF RecordsOf
      <4> QED
        BY <4>1 DEF IInv, UniqueId
    <3> QED
      BY <3>1, <3>2
  <2>5. \A r \in attendance : r.day = d => r.id = f.id
    BY <2>3 DEF RecordsOf
  <2> HIDE DEF f, w
  <2>6. /\ RecordsOf(d)' = {}
        /\ \A e \in Days \ {d} : RecordsOf(e)' = RecordsOf(e)
    BY <2>1, <2>4, <2>5 DEF RecordsOf
  <2>7. TypeOK'
    BY <1>1, <2>1, <2>2, ProceedType DEF IInv, TypeOK
  <2>8. UniqueId' /\ UniqueDay'
    BY <2>1 DEF IInv, UniqueId, UniqueDay
  <2>9. hr.pc = "idle"
    BY <1>1 DEF IInv, HrAlone
  <2>10. HrAlone' /\ HrKnows'
    BY <1>1, <2>9 DEF HrAlone, HrKnows
  <2>11. JobKnows'
    BY <2>1, <2>2, <2>6, ProceedType DEF IInv, JobKnows, Sequential
  <2> QED
    BY <2>7, <2>8, <2>10, <2>11 DEF IInv
<1> QED
  BY <1>2, <1>3

(* The new record is the only one of its day.                              *)
LEMMA CreateRecordIInv ==
  ASSUME IInv, Sequential, NEW j \in Jobs, NEW d \in Days, CreateRecord(j, d)
  PROVE  IInv'
<1> DEFINE w == [job[j][d] EXCEPT !.pc = "mark"]
<1>1. /\ job[j][d].pc = "create" /\ Running(j) /\ job[j][d] \in Work
      /\ Proceed(j, d, w)
      /\ UNCHANGED <<check, mode, hr, edits, crashes>>
  <2>1. job[j][d].pc = "create" /\ job[j][d] \in Work
    BY DEF CreateRecord, IInv, TypeOK
  <2>2. Proceed(j, d, w) /\ UNCHANGED <<check, mode, hr, edits, crashes>>
    BY Zenon DEF CreateRecord
  <2> QED
    BY <2>1, <2>2 DEF Running
<1>2. /\ job[j][d].first \in Times /\ job[j][d].last \in Times
      /\ job[j][d] \in [pc: {"create", "mark"}, found: Record \cup {NoRecord},
                         first: Times, last: Times]
  <2>1. job[j][d] \notin [pc: {"idle", "find", "bounds"}, found: Record \cup {NoRecord},
                          first: Times \cup {None}, last: Times \cup {None}]
    BY <1>1
  <2>2. job[j][d] \in [pc: {"create", "mark"}, found: Record \cup {NoRecord},
                       first: Times, last: Times]
    BY <1>1, <2>1 DEF Work
  <2> QED
    BY <2>2
<1>3. w \in Work /\ w.pc = "mark"
  BY <1>2 DEF Work
<1> HIDE DEF w
<1>4. CASE UNCHANGED <<attendance, corrected>> /\ failures' \in 0..MaxFailures
  BY <1>1, <1>3, <1>4, JobGoesOn DEF IInv, TypeOK
<1>5. CASE /\ corrected' = corrected \ {d} /\ UNCHANGED failures
           /\ \E i \in Ids :
                /\ Fresh(i)
                /\ attendance' = attendance \cup
                     {[id |-> i, day |-> d, in |-> job[j][d].first, out |-> job[j][d].last]}
  <2>1. PICK i \in Ids :
          /\ Fresh(i)
          /\ attendance' = attendance \cup
               {[id |-> i, day |-> d, in |-> job[j][d].first, out |-> job[j][d].last]}
    BY <1>5
  <2> DEFINE new == [id |-> i, day |-> d, in |-> job[j][d].first, out |-> job[j][d].last]
  <2>2. new \in Record /\ new.id = i /\ new.day = d
    BY <1>2 DEF Record
  <2>3. attendance' = attendance \cup {new}
    BY <2>1
  <2>4. \A r \in attendance : r.id # i /\ r.day # d
    BY <1>1, <2>1 DEF IInv, JobKnows, RecordsOf, Fresh
  <2> HIDE DEF new
  <2>5. \A e \in Days \ {d} : RecordsOf(e)' = RecordsOf(e)
    BY <2>2, <2>3 DEF RecordsOf
  <2>6. attendance' \subseteq Record /\ UniqueId' /\ UniqueDay'
    BY <2>2, <2>3, <2>4 DEF IInv, TypeOK, UniqueId, UniqueDay
  <2>7. TypeOK'
    BY <1>1, <1>3, <1>5, <2>6, ProceedType DEF IInv, TypeOK
  <2>8. HrAlone' /\ HrKnows'
    BY <1>1 DEF IInv, HrAlone, HrKnows
  <2>9. JobKnows'
    BY <1>1, <1>3, <2>5, ProceedType DEF IInv, JobKnows, Sequential
  <2> QED
    BY <2>6, <2>7, <2>8, <2>9 DEF IInv
<1>6. \/ UNCHANGED <<attendance, corrected>> /\ failures' \in 0..MaxFailures
      \/ /\ corrected' = corrected \ {d} /\ UNCHANGED failures
         /\ \E i \in Ids :
              /\ Fresh(i)
              /\ attendance' = attendance \cup
                   {[id |-> i, day |-> d, in |-> job[j][d].first, out |-> job[j][d].last]}
  BY AttendanceAssumption DEF CreateRecord, IInv, TypeOK
<1> QED
  BY <1>4, <1>5, <1>6

LEMMA NoWorkingHoursIInv ==
  ASSUME IInv, NEW j \in Jobs, NEW d \in Days, NoWorkingHours(j, d)
  PROVE  IInv'
<1>1. failures' \in 0..MaxFailures
  BY AttendanceAssumption DEF NoWorkingHours, IInv, TypeOK
<1> QED
  BY <1>1, FinishIInv DEF NoWorkingHours, IInv, TypeOK

LEMMA MarkProcessedIInv ==
  ASSUME IInv, NEW j \in Jobs, NEW d \in Days, MarkProcessed(j, d)
  PROVE  IInv'
<1>1. check' \in [Days -> [Times -> {"none", "new", "processed"}]]
  BY DEF MarkProcessed, IInv, TypeOK
<1> QED
  BY <1>1, FinishIInv DEF MarkProcessed, IInv, TypeOK

LEMMA CrashIInv ==
  ASSUME IInv, Crash
  PROVE  IInv'
<1>1. TypeOK'
  BY AttendanceAssumption, WorkIdleType, HrIdleType DEF Crash, IInv, TypeOK
<1>2. HrAlone' /\ HrKnows'
  BY HrIdleType DEF Crash, HrAlone, HrKnows
<1>3. JobKnows'
  BY WorkIdleType DEF Crash, JobKnows
<1> QED
  BY <1>1, <1>2, <1>3 DEF Crash, IInv, UniqueId, UniqueDay

LEMMA NextIInv ==
  ASSUME IInv, Sequential, [Next]_vars
  PROVE  IInv'
<1>1. CASE CheckStep
  BY <1>1, CheckStepIInv
<1>2. CASE HrStep
  BY <1>2, HrReadIInv, HrCreateWriteIInv, HrUpdateWriteIInv, HrRemoveIInv DEF HrStep
<1>3. CASE Crash
  BY <1>3, CrashIInv
<1>4. ASSUME NEW j \in Jobs, JobStep(j) PROVE IInv'
  BY <1>4, ListDaysIInv, FindExistingIInv, BoundsIInv, ReplaceIInv, CreateRecordIInv,
     NoWorkingHoursIInv, MarkProcessedIInv DEF JobStep, DayStep
<1>5. CASE UNCHANGED vars
  BY <1>5 DEF vars, IInv, TypeOK, UniqueId, UniqueDay, HrAlone, Running, JobKnows,
              HrKnows, RecordsOf
<1> QED
  BY <1>1, <1>2, <1>3, <1>4, <1>5 DEF Next

(* At most one record of a day, counted.                                   *)
LEMMA OnePerDayFromUnique == UniqueDay => OnePerDay
<1> SUFFICES ASSUME UniqueDay, NEW d \in Days PROVE Cardinality(RecordsOf(d)) <= 1
  BY DEF OnePerDay
<1>1. CASE RecordsOf(d) = {}
  BY <1>1, FS_EmptySet
<1>2. CASE RecordsOf(d) # {}
  <2>1. PICK r \in RecordsOf(d) : TRUE
    BY <1>2
  <2>2. RecordsOf(d) = {r}
    BY <2>1 DEF UniqueDay, RecordsOf
  <2> QED
    BY <2>2, FS_Singleton
<1> QED
  BY <1>1, <1>2

-----------------------------------------------------------------------------
(* Type correctness of the attendance of a company whose jobs and requests *)
(* never overlap.                                                          *)
THEOREM TypeCorrect == Sequential => (Spec => []TypeOK)
<1> SUFFICES ASSUME Sequential PROVE Spec => []TypeOK
  OBVIOUS
<1>1. IInv /\ [Next]_vars => IInv'
  BY NextIInv
<1>2. IInv => TypeOK
  BY DEF IInv
<1> QED
  BY InitIInv, <1>1, <1>2, PTL DEF Spec

(* However often the server restarts and records cannot be written, the    *)
(* attendance jobs and HR leave one record per day at most, as long as one *)
(* job runs at a time and HR waits for it.                                 *)
THEOREM OneRecordPerDay == Sequential => (Spec => []OnePerDay)
<1> SUFFICES ASSUME Sequential PROVE Spec => []OnePerDay
  OBVIOUS
<1>1. IInv /\ [Next]_vars => IInv'
  BY NextIInv
<1>2. IInv => OnePerDay
  BY OnePerDayFromUnique DEF IInv
<1> QED
  BY InitIInv, <1>1, <1>2, PTL DEF Spec

-----------------------------------------------------------------------------
(* A check that is marked processed is counted.                            *)

HasNew(d) == \E u \in Times : check[d][u] = "new"

\* A job works on a day with new checks; the bounds it has read are still
\* those of the day, and so is the record it has written.
Knows(w, d) ==
  w.pc # "idle" =>
    /\ HasNew(d)
    /\ w.first # None => w.first = Min(Present(d))
    /\ w.last # None => w.last = Max(Present(d))
    /\ w.pc = "mark" /\ failures = 0 =>
         \E r \in RecordsOf(d) : r.in = w.first /\ r.out = w.last

\* The processed checks of a day are counted, or a job is writing its record,
\* or a restart came between the old record and the new one.
CountedDay(d) ==
  \A t \in Times : check[d][t] = "processed" =>
    \/ Counted(d, t)
    \/ \E j \in Jobs : job[j][d].pc = "create"
    \/ crashes > 0 /\ HasNew(d)

NoLoss == failures = 0 /\ (edits = 0 \/ crashes = 0)

JobsKnow == \A j \in Jobs, d \in Days : Knows(job[j][d], d)

AllCounted == NoLoss => \A d \in Days \ corrected : CountedDay(d)

PInv == IInv /\ JobsKnow /\ AllCounted

(* Every check of a day is between its first and its last.                 *)
LEMMA Between ==
  ASSUME NEW d \in Days, NEW t \in Present(d)
  PROVE  Min(Present(d)) <= t /\ t <= Max(Present(d))
<1> DEFINE S == Present(d)
           T == {n \in 0..DayEnd : DayEnd - n \in S}
<1>1. S \in SUBSET (0..DayEnd) /\ S \in SUBSET Nat /\ t \in S
  BY PresentChecks
<1> HIDE DEF S
<1>2. \E x \in S : \A y \in S : x <= y
  BY <1>1, Least
<1>3. Min(S) <= t
  BY <1>1, <1>2 DEF Min
<1>4. DayEnd - t \in T
  BY <1>1, AttendanceAssumption
<1>5. T \in SUBSET Nat /\ T # {}
  BY <1>4
<1>6. PICK x \in T : \A y \in T : x <= y
  <2> HIDE DEF T
  <2> QED BY <1>5, Least
<1>7. ASSUME NEW y \in S PROVE DayEnd - x >= y
  <2>1. DayEnd - y \in T
    BY <1>1, AttendanceAssumption
  <2>2. x <= DayEnd - y
    BY <1>6, <2>1
  <2> QED BY <1>1, <2>2, AttendanceAssumption
<1>8. DayEnd - x \in S
  OBVIOUS
<1>9. t <= Max(S)
  BY <1>1, <1>7, <1>8 DEF Max
<1> QED BY <1>3, <1>9 DEF S

LEMMA Bounds ==
  ASSUME IInv
  PROVE  edits \in Nat /\ crashes \in Nat /\ failures \in Nat
BY AttendanceAssumption DEF IInv, TypeOK

(* No check is processed, and no new check taken back unless it is edited. *)
LEMMA CheckStepCounts ==
  ASSUME PInv, Sequential, CheckStep, IInv'
  PROVE  PInv'
<1>1. /\ UNCHANGED <<attendance, job, hr, corrected, crashes, failures>>
      /\ \A j \in Jobs, d \in Days : job[j][d].pc = "idle"
  BY DEF CheckStep, CheckIn, CheckOut, AddCheck, MoveCheck, Rollback, DeleteCheck,
     RequestsServed, Sequential, Running
<1>2. /\ edits' \in Nat
      /\ edits' = 0 => edits = 0
      /\ \A d \in Days, t \in Times : check'[d][t] = "processed" => check[d][t] = "processed"
      /\ edits' = 0 => \A d \in Days, t \in Times : check[d][t] = "new" => check'[d][t] = "new"
  <2>1. edits \in Nat /\ check \in [Days -> [Times -> {"none", "new", "processed"}]]
    BY Bounds DEF PInv, IInv, TypeOK
  <2>2. ASSUME NEW d \in Days, NEW t \in Times, NEW m, AddCheck(d, t, m)
        PROVE  /\ edits' = edits
               /\ \A e \in Days, u \in Times :
                    check'[e][u] = IF e = d /\ u = t THEN "new" ELSE check[e][u]
               /\ check[d][t] = "none"
    BY <2>1, <2>2 DEF AddCheck
  <2>3. ASSUME NEW d \in Days, NEW t \in Times, NEW e \in Days, NEW u \in Times, MoveCheck(d, t, e, u)
        PROVE  /\ edits' = edits + 1
               /\ \A f \in Days, v \in Times : check'[f][v] = "processed" => check[f][v] = "processed"
    BY <2>1, <2>3 DEF MoveCheck
  <2>4. ASSUME NEW S \in SUBSET (Days \X Times), Rollback(S)
        PROVE  /\ edits' = edits + 1
               /\ \A f \in Days, v \in Times : check'[f][v] = "processed" => check[f][v] = "processed"
    BY <2>1, <2>4 DEF Rollback
  <2>5. ASSUME NEW d \in Days, NEW t \in Times, DeleteCheck(d, t)
        PROVE  /\ edits' = edits + 1
               /\ \A f \in Days, v \in Times : check'[f][v] = "processed" => check[f][v] = "processed"
    BY <2>1, <2>5 DEF DeleteCheck
  <2> QED BY <2>1, <2>2, <2>3, <2>4, <2>5 DEF CheckStep, CheckIn, CheckOut
<1>3. JobsKnow'
  BY <1>1 DEF JobsKnow, Knows
<1>4. AllCounted'
  <2> SUFFICES ASSUME NoLoss', NEW d \in Days \ corrected', NEW t \in Times, check'[d][t] = "processed"
               PROVE  Counted(d, t)' \/ (crashes' > 0 /\ HasNew(d)')
    BY DEF AllCounted, CountedDay
  <2>1. NoLoss /\ check[d][t] = "processed"
    BY <1>1, <1>2 DEF NoLoss
  <2>2. Counted(d, t) \/ (crashes > 0 /\ HasNew(d))
    BY <1>1, <2>1 DEF PInv, AllCounted, CountedDay
  <2>3. Counted(d, t) => Counted(d, t)'
    BY <1>1 DEF Counted, RecordsOf
  <2>4. crashes > 0 /\ HasNew(d) => crashes' > 0 /\ HasNew(d)'
    BY <1>1, <1>2, Bounds DEF NoLoss, HasNew, PInv
  <2> QED BY <2>2, <2>3, <2>4
<1> QED BY <1>3, <1>4 DEF PInv

(* HR answers for the days whose record it sets, and touches no other.     *)
LEMMA HrStepCounts ==
  ASSUME PInv, Sequential, HrStep, IInv'
  PROVE  PInv'
<1>1. /\ UNCHANGED <<check, job, edits, crashes, failures>>
      /\ \A j \in Jobs, d \in Days : job[j][d].pc = "idle"
      /\ corrected \subseteq corrected'
  <2>1. UNCHANGED <<check, job, edits, crashes, failures>> /\ corrected \subseteq corrected'
    BY DEF HrStep, HrCreateRead, HrUpdateRead, HrCreateWrite, HrUpdateWrite, HrRemove
  <2>2. CASE HrCreateWrite \/ HrUpdateWrite
    BY <2>1, <2>2 DEF HrCreateWrite, HrUpdateWrite, PInv, IInv, HrAlone, Running
  <2>3. CASE ~ (HrCreateWrite \/ HrUpdateWrite)
    BY <2>1, <2>3 DEF HrStep, HrCreateRead, HrUpdateRead, HrRemove, RequestsServed, Sequential, Running
  <2> QED BY <2>2, <2>3
<1>2. \A d \in Days \ corrected' : \A r \in RecordsOf(d) : r \in attendance' /\ r.day = d
  <2>1. CASE UNCHANGED attendance
    BY <2>1 DEF RecordsOf
  <2>2. CASE HrCreateWrite
    BY <2>2 DEF HrCreateWrite, RecordsOf
  <2>3. CASE HrUpdateWrite
    BY <2>3 DEF HrUpdateWrite, RecordsOf
  <2>4. ASSUME NEW r \in attendance, HrRemove(r)
        PROVE  \A d \in Days \ corrected' : \A q \in RecordsOf(d) : q \in attendance' /\ q.day = d
    BY <2>4 DEF HrRemove, RecordsOf
  <2>5. \A d \in Days, i, o \in Times : HrCreateRead(d, i, o) => UNCHANGED attendance
    BY DEF HrCreateRead
  <2>6. \A r \in attendance, d \in Days, i, o \in Times : HrUpdateRead(r, d, i, o) => UNCHANGED attendance
    BY DEF HrUpdateRead
  <2> QED BY <2>1, <2>2, <2>3, <2>4, <2>5, <2>6 DEF HrStep
<1>3. JobsKnow'
  BY <1>1 DEF JobsKnow, Knows
<1>4. AllCounted'
  <2> SUFFICES ASSUME NoLoss', NEW d \in Days \ corrected', NEW t \in Times, check'[d][t] = "processed"
               PROVE  Counted(d, t)' \/ (crashes' > 0 /\ HasNew(d)')
    BY DEF AllCounted, CountedDay
  <2>1. Counted(d, t) \/ (crashes > 0 /\ HasNew(d))
    BY <1>1 DEF PInv, AllCounted, CountedDay, NoLoss
  <2>2. Counted(d, t) => Counted(d, t)'
    BY <1>2 DEF Counted, RecordsOf
  <2> QED BY <1>1, <2>1, <2>2 DEF HasNew
<1> QED BY <1>3, <1>4 DEF PInv

(* After a restart no job knows anything.                                  *)
LEMMA CrashCounts ==
  ASSUME PInv, Crash, IInv'
  PROVE  PInv'
<1>1. /\ UNCHANGED <<check, attendance, corrected, edits, failures>>
      /\ crashes' = crashes + 1 /\ crashes \in Nat
      /\ \A j \in Jobs, d \in Days : job'[j][d].pc = "idle"
  BY Bounds, WorkIdleType DEF Crash, PInv
<1>2. JobsKnow'
  BY <1>1 DEF JobsKnow, Knows
<1>3. AllCounted'
  <2> SUFFICES ASSUME NoLoss', NEW d \in Days \ corrected, NEW t \in Times, check[d][t] = "processed"
               PROVE  Counted(d, t)' \/ HasNew(d)'
    BY <1>1 DEF AllCounted, CountedDay
  <2>1. NoLoss
    BY <1>1 DEF NoLoss
  <2>2. Counted(d, t) \/ HasNew(d)
    BY <2>1 DEF PInv, AllCounted, CountedDay, JobsKnow, Knows
  <2> QED BY <1>1, <2>2 DEF Counted, RecordsOf, HasNew
<1> QED BY <1>2, <1>3 DEF PInv

(* The days of a job have new checks.                                      *)
LEMMA ListDaysCounts ==
  ASSUME PInv, Sequential, NEW j \in Jobs, ListDays(j), IInv'
  PROVE  PInv'
<1>1. /\ UNCHANGED <<check, attendance, corrected, edits, crashes, failures>>
      /\ \A k \in Jobs : k = j
      /\ \A d \in Days : job[j][d].pc = "idle"
  BY DEF ListDays, Sequential, Running
<1>2. \A d \in Days : job'[j][d] = WorkIdle \/ (HasNew(d) /\ job'[j][d] = [WorkIdle EXCEPT !.pc = "find"])
  BY DEF ListDays, HasNew, PInv, IInv, TypeOK
<1>3. JobsKnow'
  BY <1>1, <1>2 DEF JobsKnow, Knows, WorkIdle, HasNew
<1>4. AllCounted'
  BY <1>1 DEF PInv, AllCounted, NoLoss, CountedDay, Counted, RecordsOf, HasNew
<1> QED BY <1>3, <1>4 DEF PInv

(* The job goes on with day d, and leaves the other days alone.            *)
LEMMA DayGoesOn ==
  ASSUME PInv, Sequential, IInv', NEW j \in Jobs, NEW d \in Days, NEW w \in Work,
         Proceed(j, d, w), UNCHANGED <<edits, crashes>>, failures' = 0 => failures = 0,
         \A e \in Days : e # d => /\ check'[e] = check[e] /\ RecordsOf(e)' = RecordsOf(e)
                                  /\ e \in corrected => e \in corrected',
         Knows(w, d)', NoLoss' /\ d \notin corrected' => CountedDay(d)'
  PROVE  PInv'
<1>1. /\ job'[j][d] = w /\ \A k \in Jobs : k = j
      /\ \A e \in Days : e # d => job'[j][e] = job[j][e]
  BY ProceedType DEF PInv, IInv, Sequential
<1>2. ASSUME NEW e \in Days, e # d PROVE Knows(job[j][e], e)'
  BY <1>1, <1>2 DEF PInv, JobsKnow, Knows, HasNew, Present
<1>3. JobsKnow'
  BY <1>1, <1>2 DEF JobsKnow, Knows
<1>4. ASSUME NoLoss', NEW e \in Days \ corrected', e # d PROVE CountedDay(e)'
  <2>1. NoLoss /\ e \notin corrected
    BY <1>4 DEF NoLoss
  <2>2. CountedDay(e)
    BY <2>1 DEF PInv, AllCounted
  <2> QED BY <1>1, <1>4, <2>2 DEF CountedDay, Counted, HasNew
<1>5. AllCounted'
  BY <1>4 DEF AllCounted
<1> QED BY <1>3, <1>5 DEF PInv

(* A step that only reads.                                                 *)
LEMMA OnlyReads ==
  ASSUME PInv, Sequential, IInv', NEW j \in Jobs, NEW d \in Days, NEW w \in Work,
         Proceed(j, d, w), UNCHANGED <<check, attendance, corrected, edits, crashes>>,
         failures' = 0 => failures = 0, job[j][d].pc # "create" \/ failures' # 0,
         Knows(w, d)'
  PROVE  PInv'
<1>1. ASSUME NoLoss', d \notin corrected PROVE CountedDay(d)'
  <2>1. CountedDay(d) /\ job[j][d].pc # "create"
    BY <1>1 DEF PInv, AllCounted, NoLoss
  <2>2. \A k \in Jobs : job[k][d].pc # "create"
    BY <2>1 DEF Sequential
  <2> QED BY <2>1, <2>2 DEF CountedDay, Counted, HasNew, RecordsOf
<1> QED BY <1>1, DayGoesOn DEF RecordsOf

LEMMA DoneReading ==
  ASSUME PInv, Sequential, IInv', NEW j \in Jobs, NEW d \in Days,
         Finish(j, d), UNCHANGED <<check, attendance, corrected, edits, crashes>>,
         failures' = 0 => failures = 0, job[j][d].pc # "create" \/ failures' # 0
  PROVE  PInv'
<1>1. PICK w : w = WorkIdle
  OBVIOUS
<1>2. w \in Work /\ Proceed(j, d, w) /\ Knows(w, d)'
  BY <1>1, WorkIdleType DEF Finish, Knows
<1> QED BY <1>2, OnlyReads

LEMMA FindCounts ==
  ASSUME PInv, Sequential, NEW j \in Jobs, NEW d \in Days,
         FindExisting(j, d) \/ FindFirst(j, d) \/ FindLast(j, d), IInv'
  PROVE  PInv'
<1>1. /\ UNCHANGED <<check, attendance, corrected, edits, crashes, failures>>
      /\ job[j][d].pc \in {"find", "bounds"} /\ job[j][d] \in Work
  BY DEF FindExisting, FindFirst, FindLast, PInv, IInv, TypeOK
<1>2. HasNew(d) /\ Knows(job[j][d], d)
  BY <1>1 DEF PInv, JobsKnow, Knows
<1>3. CASE FindExisting(j, d)
  <2>1. PICK r \in IF RecordsOf(d) = {} THEN {NoRecord} ELSE RecordsOf(d) :
          Proceed(j, d, [WorkIdle EXCEPT !.pc = "bounds", !.found = r])
    BY <1>3 DEF FindExisting
  <2>2. r \in Record \cup {NoRecord}
    BY DEF PInv, IInv, TypeOK, RecordsOf
  <2>3. PICK w : w = [WorkIdle EXCEPT !.pc = "bounds", !.found = r]
    OBVIOUS
  <2>4. w \in Work /\ w.pc = "bounds" /\ w.first = None /\ w.last = None
    BY <2>2, <2>3 DEF WorkIdle, Work
  <2>5. Knows(w, d)'
    BY <1>1, <1>2, <2>4 DEF Knows, HasNew
  <2> QED BY <1>1, <2>1, <2>3, <2>4, <2>5, OnlyReads
<1>4. CASE (FindFirst(j, d) \/ FindLast(j, d)) /\ Present(d) = {}
  <2>1. Finish(j, d)
    BY <1>4 DEF FindFirst, FindLast
  <2> QED BY <1>1, <2>1, DoneReading
<1>5. CASE FindFirst(j, d) /\ Present(d) # {}
  <2>1. PICK w : w = [job[j][d] EXCEPT !.first = Min(Present(d))]
    OBVIOUS
  <2>2. Min(Present(d)) \in Times
    BY <1>5, PresentChecks, FirstCheck
  <2>3. /\ w \in Work /\ w.pc = "bounds" /\ w.first = Min(Present(d)) /\ w.last = job[j][d].last
        /\ Proceed(j, d, w)
    BY <1>1, <1>5, <2>1, <2>2 DEF Work, FindFirst
  <2>4. Knows(w, d)'
    BY <1>1, <1>2, <2>3 DEF Knows, HasNew, Present
  <2> QED BY <1>1, <2>3, <2>4, OnlyReads
<1>6. CASE FindLast(j, d) /\ Present(d) # {}
  <2>1. PICK w : w = [job[j][d] EXCEPT !.last = Max(Present(d))]
    OBVIOUS
  <2>2. Max(Present(d)) \in Times
    BY <1>6, PresentChecks, LastCheck
  <2>3. /\ w \in Work /\ w.pc = "bounds" /\ w.last = Max(Present(d)) /\ w.first = job[j][d].first
        /\ Proceed(j, d, w)
    BY <1>1, <1>6, <2>1, <2>2 DEF Work, FindLast
  <2>4. Knows(w, d)'
    BY <1>1, <1>2, <2>3 DEF Knows, HasNew, Present
  <2> QED BY <1>1, <2>3, <2>4, OnlyReads
<1> QED BY <1>3, <1>4, <1>5, <1>6

(* The old record is deleted: until there is a new one the job is writing. *)
LEMMA ReplaceCounts ==
  ASSUME PInv, Sequential, NEW j \in Jobs, NEW d \in Days, Replace(j, d), IInv'
  PROVE  PInv'
<1>1. /\ UNCHANGED <<check, corrected, edits, crashes, failures>>
      /\ job[j][d].pc = "bounds" /\ job[j][d] \in Work
      /\ job[j][d].first # None /\ job[j][d].last # None
  BY DEF Replace, PInv, IInv, TypeOK
<1>2. CASE UpToDate(j, d) \/ Gone(j, d)
  BY <1>1, <1>2, DoneReading DEF Replace
<1>3. CASE ~ (UpToDate(j, d) \/ Gone(j, d))
  <2> DEFINE f == job[j][d].found
  <2>1. PICK w : w = [job[j][d] EXCEPT !.pc = "create"]
    OBVIOUS
  <2>2. attendance' = {r \in attendance : r.id # f.id} /\ Proceed(j, d, w)
    BY <1>3, <2>1 DEF Replace
  <2>3. w \in Work /\ w.pc = "create" /\ w.first = job[j][d].first /\ w.last = job[j][d].last
    BY <1>1, <2>1 DEF Work
  <2>4. RecordsOf(d) = {f} \ {NoRecord}
    BY <1>1 DEF PInv, IInv, JobKnows
  <2>5. \A r \in attendance : r.id = f.id => r.day = d
    <3>1. CASE f = NoRecord
      BY <3>1, NoneIsNew DEF NoRecord, PInv, IInv, TypeOK, Record
    <3>2. CASE f # NoRecord
      <4>1. f \in attendance /\ f.day = d
        BY <2>4, <3>2 DEF RecordsOf
      <4> QED BY <4>1 DEF PInv, IInv, UniqueId
    <3> QED BY <3>1, <3>2
  <2> HIDE DEF f
  <2>6. \A e \in Days : e # d => RecordsOf(e)' = RecordsOf(e)
    BY <2>2, <2>5 DEF RecordsOf
  <2>7. Knows(w, d)'
    BY <1>1, <2>3 DEF PInv, JobsKnow, Knows, HasNew, Present
  <2>8. job'[j][d] = w
    BY <2>2, <2>3, ProceedType DEF PInv, IInv
  <2>9. CountedDay(d)'
    BY <2>3, <2>8 DEF CountedDay
  <2> QED BY <1>1, <2>2, <2>3, <2>6, <2>7, <2>9, DayGoesOn
<1> QED BY <1>2, <1>3

(* The new record spans every check of its day.                            *)
LEMMA CreateCounts ==
  ASSUME PInv, Sequential, NEW j \in Jobs, NEW d \in Days, CreateRecord(j, d), IInv'
  PROVE  PInv'
<1> DEFINE first == job[j][d].first
           last == job[j][d].last
<1>1. job[j][d].pc = "create" /\ job[j][d] \in Work /\ UNCHANGED <<check, edits, crashes>>
  BY DEF CreateRecord, PInv, IInv, TypeOK
<1>2. /\ first \in Times /\ last \in Times
      /\ job[j][d] \in [pc: {"create", "mark"}, found: Record \cup {NoRecord},
                         first: Times, last: Times]
  <2>1. job[j][d] \notin [pc: {"idle", "find", "bounds"}, found: Record \cup {NoRecord},
                          first: Times \cup {None}, last: Times \cup {None}]
    BY <1>1
  <2>2. job[j][d] \in [pc: {"create", "mark"}, found: Record \cup {NoRecord},
                       first: Times, last: Times]
    BY <1>1, <2>1 DEF Work
  <2> QED BY <2>2
<1>3. PICK w : w = [job[j][d] EXCEPT !.pc = "mark"]
  OBVIOUS
<1>4. /\ w \in Work /\ w.pc = "mark" /\ w.first = first /\ w.last = last
      /\ Proceed(j, d, w)
  <2>1. Proceed(j, d, w)
    BY <1>3 DEF CreateRecord
  <2>2. w \in Work /\ w.pc = "mark" /\ w.first = first /\ w.last = last
    BY <1>2, <1>3 DEF Work
  <2> QED BY <2>1, <2>2
<1>5. /\ HasNew(d) /\ first = Min(Present(d)) /\ last = Max(Present(d))
  BY <1>1, <1>2, NoneIsNew DEF PInv, JobsKnow, Knows
<1>6. CASE UNCHANGED <<attendance, corrected>> /\ failures' = failures + 1
  <2>1. failures' # 0
    BY <1>6, Bounds DEF PInv
  <2>2. Knows(w, d)'
    BY <1>1, <1>2, <1>4, <1>5, <2>1, NoneIsNew DEF Knows, HasNew, Present
  <2> QED BY <1>1, <1>4, <1>6, <2>1, <2>2, OnlyReads
<1>7. ASSUME NEW i \in Ids,
             attendance' = attendance \cup {[id |-> i, day |-> d, in |-> first, out |-> last]},
             corrected' = corrected \ {d}, UNCHANGED failures
      PROVE  PInv'
  <2> DEFINE new == [id |-> i, day |-> d, in |-> first, out |-> last]
  <2>1. new.day = d /\ new.in = first /\ new.out = last
    OBVIOUS
  <2>2. attendance' = attendance \cup {new}
    BY <1>7
  <2> HIDE DEF new, first, last
  <2>3. \A e \in Days : e # d => RecordsOf(e)' = RecordsOf(e)
    BY <2>1, <2>2 DEF RecordsOf
  <2>4. new \in RecordsOf(d)'
    BY <2>1, <2>2 DEF RecordsOf
  <2>5. Knows(w, d)'
    BY <1>1, <1>4, <1>5, <2>1, <2>4 DEF Knows, HasNew, Present
  <2>6. CountedDay(d)'
    BY <1>1, <1>5, <2>1, <2>4, Between DEF CountedDay, Counted, Present
  <2> QED BY <1>1, <1>4, <1>7, <2>3, <2>5, <2>6, DayGoesOn
<1> QED BY <1>6, <1>7 DEF CreateRecord

(* The checks of the day are marked when its record spans them.            *)
LEMMA MarkCounts ==
  ASSUME PInv, Sequential, NEW j \in Jobs, NEW d \in Days, MarkProcessed(j, d), IInv'
  PROVE  PInv'
<1>1. /\ job[j][d].pc = "mark" /\ job[j][d] \in Work
      /\ UNCHANGED <<attendance, corrected, edits, crashes, failures>>
      /\ \A e \in Days : e # d => check'[e] = check[e]
      /\ \A t \in Times : check'[d][t] = "processed" => t \in Present(d)
  BY DEF MarkProcessed, Present, PInv, IInv, TypeOK
<1>2. PICK w : w = WorkIdle
  OBVIOUS
<1>3. w \in Work /\ Proceed(j, d, w) /\ Knows(w, d)'
  BY <1>2, WorkIdleType DEF MarkProcessed, Finish, Knows
<1>4. job[j][d].first # None /\ job[j][d].last # None
  <2>1. job[j][d] \in [pc: {"create", "mark"}, found: Record \cup {NoRecord},
                       first: Times, last: Times]
    BY <1>1 DEF Work
  <2> QED BY <2>1, NoneIsNew
<1>5. ASSUME NoLoss' PROVE CountedDay(d)'
  <2>1. PICK r \in RecordsOf(d) : r.in = Min(Present(d)) /\ r.out = Max(Present(d))
    BY <1>1, <1>4, <1>5 DEF PInv, JobsKnow, Knows, NoLoss
  <2> QED BY <1>1, <2>1, Between DEF CountedDay, Counted, RecordsOf
<1> QED BY <1>1, <1>3, <1>5, DayGoesOn DEF RecordsOf

LEMMA NextCounts ==
  ASSUME PInv, Sequential, [Next]_vars
  PROVE  PInv'
<1>1. IInv'
  BY NextIInv DEF PInv
<1>2. ASSUME NEW j \in Jobs, NEW d \in Days, NoWorkingHours(j, d) PROVE PInv'
  <2>1. failures' # 0
    BY <1>2, Bounds DEF NoWorkingHours, PInv
  <2> QED BY <1>1, <1>2, <2>1, DoneReading DEF NoWorkingHours
<1>3. ASSUME NEW j \in Jobs, JobStep(j) PROVE PInv'
  BY <1>1, <1>2, <1>3, ListDaysCounts, FindCounts, ReplaceCounts, CreateCounts, MarkCounts
     DEF JobStep, DayStep
<1>4. CASE UNCHANGED vars
  BY <1>1, <1>4 DEF vars, PInv, JobsKnow, Knows, AllCounted, NoLoss, CountedDay, Counted, HasNew,
     RecordsOf, Present
<1> QED BY <1>1, <1>3, <1>4, CheckStepCounts, HrStepCounts, CrashCounts DEF Next

(* ProcessedIsCounted: a check that is marked processed is counted, through*)
(* the edits of checks and of records, or through restarts, when one job   *)
(* runs at a time and no request is served while it runs.                  *)
THEOREM ProcessedAreCounted == Sequential => (Spec => []ProcessedIsCounted)
<1> SUFFICES ASSUME Sequential PROVE Spec => []ProcessedIsCounted
  OBVIOUS
<1>1. Init => PInv
  BY InitIInv, WorkIdleType DEF Init, PInv, JobsKnow, Knows, AllCounted, CountedDay
<1>2. PInv /\ [Next]_vars => PInv'
  BY NextCounts
<1>3. PInv => ProcessedIsCounted
  BY DEF PInv, ProcessedIsCounted, AllCounted, NoLoss, CountedDay, JobsKnow, Knows, HasNew
<1> QED BY <1>1, <1>2, <1>3, PTL DEF Spec
=============================================================================
