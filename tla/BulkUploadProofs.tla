--------------------------- MODULE BulkUploadProofs ---------------------------
(***************************************************************************)
(* One file is uploaded at a time, for every set of files, of requests and *)
(* of calls, however long a record takes: the flag isProcessing, which is  *)
(* read and set in one step, is up while any call is in progress. And the  *)
(* report of a completed file adds up, if no record takes longer to store  *)
(* than a tick.                                                            *)
(*                                                                         *)
(* Then the files that come with requests (Uploads): in a row, on the disk *)
(* and in S3.                                                              *)
(***************************************************************************)
EXTENDS Documents, SequenceTheorems, TLAPS

\* The calls are records with a pc.
RunShape ==
  /\ run = [r \in Runs |-> run[r]]
  /\ \A r \in Runs : run[r] = [x \in DOMAIN run[r] |-> run[r][x]] /\ "pc" \in DOMAIN run[r]

\* A call in progress holds the flag.
HoldsFlag == \A r \in Runs : run[r].pc # "idle" => isProcessing

IInv == RunShape /\ HoldsFlag /\ OneUpload

\* The active calls are those of before, and they do not let go of the flag.
Keeps ==
  /\ RunShape'
  /\ \A r \in Runs : run'[r].pc # "idle" => run[r].pc # "idle"
  /\ isProcessing' = isProcessing

LEMMA KeepsInv == ASSUME IInv, Keeps PROVE IInv'
  BY DEF IInv, Keeps, HoldsFlag, OneUpload, Active

\* The memory of the process is lost, or no call is in progress any more.
LEMMA NoneInv == ASSUME RunShape', \A r \in Runs : run'[r].pc = "idle" PROVE IInv'
  BY DEF IInv, HoldsFlag, OneUpload, Active

LEMMA LostInv == ASSUME MemoryLost PROVE IInv'
<1>1. run' = [r \in Runs |-> RunIdle]
  BY DEF MemoryLost
<1>2. RunShape' /\ \A r \in Runs : run'[r].pc = "idle"
  BY <1>1 DEF RunShape, RunIdle
<1> QED
  BY <1>2, NoneInv

LEMMA SameRuns == ASSUME IInv, UNCHANGED <<run, isProcessing>> PROVE IInv'
  BY DEF IInv, RunShape, HoldsFlag, OneUpload, Active

LEMMA EndsInv ==
  ASSUME IInv, NEW r \in Runs, Ends(r), UNCHANGED isProcessing PROVE IInv'
<1>1. Keeps
  BY DEF IInv, RunShape, Ends, RunIdle, Keeps
<1> QED
  BY <1>1, KeepsInv

LEMMA ThrowInv == ASSUME IInv, NEW r \in Runs, Throw(r) PROVE IInv'
<1>1. CASE MemoryLost
  BY <1>1, LostInv
<1>2. CASE Ends(r) /\ UNCHANGED isProcessing
  BY <1>2, EndsInv
<1> QED
  BY <1>1, <1>2 DEF Throw, service

\* Run r logs: it was in progress, and goes on.
LEMMA LogsInv ==
  ASSUME IInv, NEW r \in Runs, run[r].pc # "idle", UNCHANGED isProcessing,
         NEW s, NEW bad, Logs(r, s, bad)
  PROVE  IInv'
<1>1. Keeps
  BY DEF IInv, RunShape, Logs, Keeps
<1> QED
  BY <1>1, KeepsInv

LEMMA StartInv == ASSUME IInv, NEW r \in Runs, TakeStart(r) PROVE IInv'
<1>1. CASE ~isProcessing /\ isProcessing' = TRUE /\ Calls(r, Head(bull)[2], "bull")
  <2>1. \A q \in Runs : run[q].pc = "idle"
    BY <1>1 DEF IInv, HoldsFlag
  <2>2. RunShape' /\ \A q \in Runs : q # r => run'[q].pc = "idle"
    BY <1>1, <2>1 DEF IInv, RunShape, Calls, RunIdle
  <2> QED
    BY <1>1, <2>2 DEF IInv, HoldsFlag, OneUpload, Active
<1>2. CASE UNCHANGED <<run, isProcessing>>
  BY <1>2, SameRuns
<1> QED
  BY <1>1, <1>2 DEF TakeStart

LEMMA LogUploadInv == ASSUME IInv, NEW r \in Runs, LogUpload(r) PROVE IInv'
<1> run[r].pc # "idle"
  BY DEF LogUpload
<1>1. CASE Calls(r, Head(jobQueue), "log") /\ UNCHANGED isProcessing
  <2>1. Keeps
    BY <1>1 DEF IInv, RunShape, Calls, RunIdle, Keeps
  <2> QED
    BY <2>1, KeepsInv
<1>2. CASE Ends(r)
  <2>1. \A q \in Runs : q # r => run[q].pc = "idle"
    BY DEF IInv, OneUpload, Active
  <2>2. RunShape' /\ \A q \in Runs : run'[q].pc = "idle"
    BY <1>2, <2>1 DEF IInv, RunShape, Ends, RunIdle
  <2> QED
    BY <2>2, NoneInv
<1> QED
  BY <1>1, <1>2 DEF LogUpload

LEMMA RunStepInv == ASSUME IInv, NEW r \in Runs, RunStep(r) PROVE IInv'
<1>1. CASE Fetch(r)
  <2>1. CASE Throw(r)
    BY <2>1, ThrowInv
  <2>2. CASE run' = [run EXCEPT ![r].pc = "read"] /\ UNCHANGED isProcessing
    <3>1. Keeps
      BY <1>1, <2>2 DEF IInv, RunShape, Keeps, Fetch
    <3> QED
      BY <3>1, KeepsInv
  <2> QED
    BY <1>1, <2>1, <2>2 DEF Fetch, service
<1>2. CASE Read(r)
  <2>1. CASE Throw(r)
    BY <2>1, ThrowInv
  <2>2. CASE run' = [run EXCEPT ![r].pc = "mark"] /\ UNCHANGED isProcessing
    <3>1. Keeps
      BY <1>2, <2>2 DEF IInv, RunShape, Keeps, Read
    <3> QED
      BY <3>1, KeepsInv
  <2> QED
    BY <1>2, <2>1, <2>2 DEF Read, service
<1>3. CASE Mark(r)
  <2> run[r].pc # "idle" /\ UNCHANGED isProcessing
    BY <1>3 DEF Mark
  <2>1. CASE run' = [run EXCEPT ![r].pc = "tick", ![r].left = Rows[run[r].file]]
    <3>1. Keeps
      BY <2>1 DEF IInv, RunShape, Keeps
    <3> QED
      BY <3>1, KeepsInv
  <2>2. CASE Logs(r, "failed", Rows[run[r].file])
    BY <2>2, LogsInv
  <2>3. CASE Ends(r)
    BY <2>3, EndsInv
  <2> QED
    BY <1>3, <2>1, <2>2, <2>3 DEF Mark
<1>4. CASE TakeRow(r)
  <2>1. Keeps
    BY <1>4 DEF IInv, RunShape, Keeps, TakeRow, Fires, service
  <2> QED
    BY <2>1, KeepsInv
<1>5. CASE ForceStop(r)
  <2>1. run[r].pc # "idle" /\ UNCHANGED isProcessing /\ Logs(r, "force_stopped", failedRecords)
    BY <1>5 DEF ForceStop, Fires, service
  <2> QED
    BY <2>1, LogsInv
<1>6. CASE Complete(r)
  <2> run[r].pc # "idle" /\ UNCHANGED isProcessing
    BY <1>6 DEF Complete, Fires, service
  <2>1. CASE Logs(r, "completed", failedRecords)
    BY <2>1, LogsInv
  <2>2. CASE Ends(r)
    BY <2>2, EndsInv
  <2> QED
    BY <1>6, <2>1, <2>2 DEF Complete
<1>7. CASE LogUpload(r)
  BY <1>7, LogUploadInv
<1> QED
  BY <1>1, <1>2, <1>3, <1>4, <1>5, <1>6, <1>7 DEF RunStep

\* Requests, and the work beside the calls, leave calls and flag alone.
LEMMA OthersInv ==
  ASSUME IInv,
         \/ TakeStop
         \/ \E f \in Files : StopWrite(f) \/ ReportError(f)
         \/ \E f \in Files : \E n \in 1..Rows[f] : RowStored(f, n) \/ RowFails(f, n)
         \/ \E c \in Clients : ClientStep(c)
  PROVE  IInv'
<1>1. ASSUME TakeStop PROVE UNCHANGED <<run, isProcessing>>
  BY <1>1, Zenon DEF TakeStop
<1>2. ASSUME NEW f \in Files, StopWrite(f) \/ ReportError(f) PROVE UNCHANGED <<run, isProcessing>>
  BY <1>2 DEF StopWrite, ReportError, service
<1>3. ASSUME NEW f \in Files, NEW n \in 1..Rows[f], RowStored(f, n) \/ RowFails(f, n)
      PROVE  UNCHANGED <<run, isProcessing>>
  BY <1>3 DEF RowStored, RowFails
<1>4. ASSUME NEW c \in Clients, ClientStep(c) PROVE UNCHANGED <<run, isProcessing>>
  BY <1>4 DEF ClientStep, ClientGoesOn, ProcessRead, StopRead, RollbackRead, Request,
              ProcessAdd, ProcessUpdate, StopAdd, RollbackDelete, RollbackUpdate, service, tasks
<1> QED
  BY <1>1, <1>2, <1>3, <1>4, SameRuns

LEMMA StepInv == ASSUME IInv, [Next]_vars PROVE IInv'
<1>1. CASE WorkerStep
  BY <1>1, StartInv, RunStepInv, OthersInv DEF WorkerStep
<1>2. CASE Restart
  BY <1>2, LostInv DEF Restart
<1>3. CASE \E c \in Clients : ClientStep(c)
  BY <1>3, OthersInv
<1>4. CASE UNCHANGED vars
  BY <1>4, SameRuns DEF vars, service, tasks
<1> QED
  BY <1>1, <1>2, <1>3, <1>4 DEF Next

LEMMA InitInv == ASSUME Init PROVE IInv
<1>1. run = [r \in Runs |-> RunIdle]
  BY DEF Init
<1> QED
  BY <1>1 DEF IInv, RunShape, RunIdle, HoldsFlag, OneUpload, Active

(* OneUpload: two calls of bulkUploadProperty never share the counters and *)
(* activeJob, neither with one another's file nor with their own again.    *)
THEOREM UploadsOneAtATime == Spec => []OneUpload
<1>1. IInv => OneUpload
  BY DEF IInv
<1> QED
  BY InitInv, StepInv, <1>1, PTL DEF Spec

-----------------------------------------------------------------------------
(* The report of a completed file adds up, when no record takes longer to  *)
(* store than a tick.                                                      *)

\* The rows taken from file f, and the row on its way, are counted.
Balance(f, left) ==
  /\ left \in Nat /\ success \in Nat /\ failedRecords \in Nat
  /\ \/ inserting = {} /\ success + failedRecords + left = Rows[f]
     \/ (\E n \in 1..Rows[f] : inserting = {<<f, n>>})
        /\ success + failedRecords + left + 1 = Rows[f]

\* The counters belong to the file of the call: they are at zero until it
\* takes rows, count the rows it has taken, and have been added up when it is
\* about to log that it is completed.
CountsRight(row) ==
  /\ row.pc \in {"fetch", "read", "mark"} => success = 0 /\ failedRecords = 0
  /\ row.pc = "tick" /\ row.file \in Files => Balance(row.file, row.left)
  /\ row.pc = "log" /\ row.end = "completed" /\ row.file \in Files =>
       row.log.success + row.log.failed = Rows[row.file]

\* No row is on its way unless a call takes rows.
NothingLeft == (\A r \in Runs : run[r].pc # "tick") => inserting = {}

\* The fields of a call; status and report are functions.
Shape ==
  /\ \A r \in Runs : {"pc", "file", "left", "end", "log"} \subseteq DOMAIN run[r]
  /\ status = [f \in Files |-> status[f]] /\ report = [f \in Files |-> report[f]]

RInv ==
  /\ IInv /\ Shape /\ NothingLeft /\ (\A r \in Runs : CountsRight(run[r])) /\ ReportAddsUp

(* While a call is in progress the others are idle.                        *)
LEMMA OthersIdle ==
  ASSUME IInv, NEW r \in Runs, run[r].pc # "idle"
  PROVE  \A q \in Runs : q # r => run[q].pc = "idle"
BY DEF IInv, OneUpload, Active

(* An idle call has no counters to get right.                              *)
LEMMA IdleCounts == ASSUME NEW row, row.pc = "idle" PROVE CountsRight(row)
BY DEF CountsRight

(* The call r goes on as w, alone.                                         *)
LEMMA GoesOnAs ==
  ASSUME RInv, IInv', NEW r \in Runs, NEW w,
         \A q \in Runs : q # r => run[q].pc = "idle",
         run' = [run EXCEPT ![r] = w],
         {"pc", "file", "left", "end", "log"} \subseteq DOMAIN w,
         w.pc = "tick" \/ inserting' = {},
         CountsRight(run[r])',
         status' = [f \in Files |-> status'[f]], report' = [f \in Files |-> report'[f]],
         ReportAddsUp'
  PROVE  RInv'
<1>1. /\ run'[r] = w /\ \A q \in Runs : q # r => run'[q] = run[q]
  BY DEF RInv, IInv, RunShape
<1>2. Shape'
  BY <1>1 DEF RInv, Shape
<1>3. NothingLeft'
  BY <1>1 DEF NothingLeft
<1>4. \A q \in Runs : CountsRight(run[q])'
  BY <1>1, IdleCounts DEF CountsRight
<1> QED BY <1>2, <1>3, <1>4 DEF RInv

(* The memory of the process is lost.                                      *)
LEMMA LostRInv ==
  ASSUME RInv, IInv', MemoryLost, UNCHANGED db
  PROVE  RInv'
<1>1. \A r \in Runs : run'[r].pc = "idle" /\ {"pc", "file", "left", "end", "log"} \subseteq DOMAIN run'[r]
  BY DEF MemoryLost, RunIdle
<1>2. Shape' /\ NothingLeft'
  BY <1>1 DEF RInv, Shape, NothingLeft, MemoryLost, db
<1>3. \A r \in Runs : CountsRight(run[r])'
  BY <1>1 DEF CountsRight
<1>4. ReportAddsUp'
  BY DEF RInv, ReportAddsUp, db
<1> QED BY <1>2, <1>3, <1>4 DEF RInv

(* The call r ends: nothing it has counted is needed any more.             *)
LEMMA EndsRInv ==
  ASSUME RInv, IInv', NEW r \in Runs, run[r].pc # "idle", Ends(r), inserting' = {},
         status' = [f \in Files |-> status'[f]], report' = [f \in Files |-> report'[f]],
         ReportAddsUp'
  PROVE  RInv'
<1>1. PICK w : w = RunIdle
  OBVIOUS
<1>2. /\ w.pc = "idle" /\ {"pc", "file", "left", "end", "log"} \subseteq DOMAIN w
      /\ run' = [run EXCEPT ![r] = w]
  BY <1>1 DEF Ends, RunIdle
<1>3. CountsRight(run[r])'
  BY <1>2 DEF CountsRight, RInv, IInv, RunShape
<1>4. \A q \in Runs : q # r => run[q].pc = "idle"
  BY OthersIdle DEF RInv
<1> QED BY <1>2, <1>3, <1>4, GoesOnAs

LEMMA ThrowRInv ==
  ASSUME RInv, IInv', NEW r \in Runs, Throw(r), run[r].pc \in {"fetch", "read"}
  PROVE  RInv'
<1>1. CASE MemoryLost /\ UNCHANGED db
  BY <1>1, LostRInv
<1>2. CASE Ends(r) /\ UNCHANGED <<db, inserting>>
  <2>1. \A q \in Runs : run[q].pc # "tick"
    BY OthersIdle DEF RInv
  <2>2. inserting' = {}
    BY <1>2, <2>1 DEF RInv, NothingLeft
  <2>3. ReportAddsUp' /\ status' = [f \in Files |-> status'[f]] /\ report' = [f \in Files |-> report'[f]]
    BY <1>2 DEF RInv, Shape, ReportAddsUp, db
  <2> QED BY <1>2, <2>2, <2>3, EndsRInv
<1> QED BY <1>1, <1>2 DEF Throw

LEMMA TakeStartRInv ==
  ASSUME RInv, IInv', NEW r \in Runs, TakeStart(r)
  PROVE  RInv'
<1>1. ReportAddsUp' /\ status' = [f \in Files |-> status'[f]] /\ report' = [f \in Files |-> report'[f]]
  BY DEF TakeStart, RInv, Shape, ReportAddsUp, db
<1>2. CASE ~isProcessing /\ ResetData /\ Calls(r, Head(bull)[2], "bull") /\ UNCHANGED inserting
  <2>1. \A q \in Runs : run[q].pc = "idle"
    BY <1>2 DEF RInv, IInv, HoldsFlag
  <2>2. PICK w : w = [RunIdle EXCEPT !.pc = "fetch", !.file = Head(bull)[2], !.by = "bull"]
    OBVIOUS
  <2>3. /\ w.pc = "fetch" /\ {"pc", "file", "left", "end", "log"} \subseteq DOMAIN w
        /\ run' = [run EXCEPT ![r] = w]
    BY <1>2, <2>2 DEF Calls, RunIdle
  <2>4. CountsRight(run[r])' /\ inserting' = {}
    BY <1>2, <2>1, <2>3 DEF CountsRight, ResetData, RInv, IInv, RunShape, NothingLeft
  <2> QED BY <1>1, <2>1, <2>3, <2>4, GoesOnAs
<1>3. CASE UNCHANGED <<run, inserting, success, failedRecords>>
  BY <1>1, <1>3 DEF RInv, Shape, NothingLeft, CountsRight, Balance
<1> QED BY <1>2, <1>3 DEF TakeStart

(* A call goes on and leaves the counters alone.                           *)
LEMMA FetchReadRInv ==
  ASSUME RInv, IInv', NEW r \in Runs, Fetch(r) \/ Read(r)
  PROVE  RInv'
<1>1. run[r].pc \in {"fetch", "read"}
  BY DEF Fetch, Read
<1>2. CASE Throw(r)
  BY <1>1, <1>2, ThrowRInv
<1>3. ASSUME NEW pc \in {"read", "mark"}, run' = [run EXCEPT ![r].pc = pc],
             UNCHANGED <<db, service, inserting>>
      PROVE  RInv'
  <2>1. PICK w : w = [run[r] EXCEPT !.pc = pc]
    OBVIOUS
  <2>2. /\ w.pc = pc /\ {"pc", "file", "left", "end", "log"} \subseteq DOMAIN w
        /\ run' = [run EXCEPT ![r] = w]
    BY <1>3, <2>1 DEF RInv, Shape
  <2>3. \A q \in Runs : q # r => run[q].pc = "idle"
    BY <1>1, OthersIdle DEF RInv
  <2>4. inserting' = {}
    BY <1>1, <1>3, <2>3 DEF RInv, NothingLeft
  <2>5. CountsRight(run[r])'
    BY <1>1, <1>3, <2>2 DEF CountsRight, service, RInv, IInv, RunShape
  <2>6. ReportAddsUp' /\ status' = [f \in Files |-> status'[f]] /\ report' = [f \in Files |-> report'[f]]
    BY <1>3 DEF RInv, Shape, ReportAddsUp, db
  <2> QED BY <2>2, <2>3, <2>4, <2>5, <2>6, GoesOnAs
<1> QED BY <1>2, <1>3 DEF Fetch, Read

(* The call r, at pc, is about to log that its file has come to the end s. *)
LEMMA LogsRInv ==
  ASSUME RInv, IInv', NEW r \in Runs, run[r].pc # "idle", NEW s, NEW bad, Logs(r, s, bad),
         s = "completed" /\ run[r].file \in Files => success + bad = Rows[run[r].file],
         inserting' = {},
         status' = [f \in Files |-> status'[f]], report' = [f \in Files |-> report'[f]],
         ReportAddsUp'
  PROVE  RInv'
<1>1. PICK w : w = [run[r] EXCEPT !.pc = "log", !.end = s,
                                  !.log = [success |-> success, failed |-> bad]]
  OBVIOUS
<1>2. /\ w.pc = "log" /\ w.end = s /\ w.file = run[r].file
      /\ w.log.success = success /\ w.log.failed = bad
      /\ {"pc", "file", "left", "end", "log"} \subseteq DOMAIN w
      /\ run' = [run EXCEPT ![r] = w]
  BY <1>1 DEF RInv, Shape, Logs
<1>3. \A q \in Runs : q # r => run[q].pc = "idle"
  BY OthersIdle DEF RInv
<1>4. run'[r] = w
  BY <1>2 DEF RInv, IInv, RunShape
<1>5. CountsRight(run[r])'
  BY <1>2, <1>4 DEF CountsRight
<1> QED BY <1>2, <1>3, <1>5, GoesOnAs

LEMMA MarkRInv ==
  ASSUME RInv, IInv', NEW r \in Runs, Mark(r)
  PROVE  RInv'
<1> DEFINE f == run[r].file
<1>1. /\ run[r].pc = "mark" /\ status' = [status EXCEPT ![f] = "processing"]
      /\ UNCHANGED <<report, success, inserting>>
  BY DEF Mark
<1>2. /\ status' = [g \in Files |-> status'[g]] /\ report' = [g \in Files |-> report'[g]]
      /\ ReportAddsUp'
  BY <1>1 DEF RInv, Shape, ReportAddsUp
<1>3. \A q \in Runs : q # r => run[q].pc = "idle"
  BY <1>1, OthersIdle DEF RInv
<1>4. success = 0 /\ failedRecords = 0 /\ inserting = {} /\ inserting' = {}
  BY <1>1, <1>3 DEF RInv, NothingLeft, CountsRight
<1>5. CASE run' = [run EXCEPT ![r].pc = "tick", ![r].left = Rows[f]] /\ UNCHANGED failedRecords
  <2>1. PICK w : w = [run[r] EXCEPT !.pc = "tick", !.left = Rows[f]]
    OBVIOUS
  <2>2. /\ w.pc = "tick" /\ w.left = Rows[f] /\ w.file = f
        /\ {"pc", "file", "left", "end", "log"} \subseteq DOMAIN w
        /\ run' = [run EXCEPT ![r] = w]
    BY <1>5, <2>1 DEF RInv, Shape
  <2>3. run'[r] = w
    BY <2>2 DEF RInv, IInv, RunShape
  <2>4. ASSUME NEW g \in Files PROVE Balance(g, Rows[g])'
    <3>1. Rows[g] \in Nat /\ 0 + 0 + Rows[g] = Rows[g]
      BY BulkUploadAssumption
    <3> QED BY <1>1, <1>4, <1>5, <3>1 DEF Balance
  <2>5. CountsRight(run[r])'
    BY <2>2, <2>3, <2>4 DEF CountsRight, Balance
  <2> QED BY <1>2, <1>3, <1>4, <2>2, <2>5, GoesOnAs
<1>6. CASE Logs(r, "failed", Rows[f])
  BY <1>1, <1>2, <1>4, <1>6, LogsRInv
<1>7. CASE Ends(r)
  BY <1>1, <1>2, <1>4, <1>7, EndsRInv
<1> QED BY <1>5, <1>6, <1>7 DEF Mark

(* What a tick of a file knows.                                            *)
LEMMA TickKnows ==
  ASSUME RInv, ~Slow, NEW r \in Runs, Fires(r)
  PROVE  /\ run[r].pc = "tick" /\ inserting = {}
         /\ \A q \in Runs : q # r => run[q].pc = "idle"
         /\ run[r].file \in Files =>
              /\ run[r].left \in Nat /\ success \in Nat /\ failedRecords \in Nat
              /\ success + failedRecords + run[r].left = Rows[run[r].file]
<1>1. run[r].pc = "tick" /\ inserting = {}
  BY DEF Fires
<1>2. \A q \in Runs : q # r => run[q].pc = "idle"
  BY <1>1, OthersIdle DEF RInv
<1>3. ASSUME run[r].file \in Files
      PROVE  /\ run[r].left \in Nat /\ success \in Nat /\ failedRecords \in Nat
             /\ success + failedRecords + run[r].left = Rows[run[r].file]
  <2>1. Balance(run[r].file, run[r].left)
    BY <1>1, <1>3 DEF RInv, CountsRight
  <2>2. ~ \E n \in 1..Rows[run[r].file] : inserting = {<<run[r].file, n>>}
    BY <1>1
  <2> QED BY <2>1, <2>2 DEF Balance
<1> QED BY <1>1, <1>2, <1>3

LEMMA TickRInv ==
  ASSUME RInv, IInv', ~Slow, NEW r \in Runs, TakeRow(r) \/ ForceStop(r) \/ Complete(r)
  PROVE  RInv'
<1> DEFINE f == run[r].file
           left == run[r].left
<1>1. /\ run[r].pc = "tick" /\ inserting = {}
      /\ \A q \in Runs : q # r => run[q].pc = "idle"
      /\ f \in Files => /\ left \in Nat /\ success \in Nat /\ failedRecords \in Nat
                        /\ success + failedRecords + left = Rows[f]
  BY TickKnows DEF TakeRow, ForceStop, Complete
<1>2. /\ UNCHANGED <<status, report, success, failedRecords>>
      /\ status' = [g \in Files |-> status'[g]] /\ report' = [g \in Files |-> report'[g]]
      /\ ReportAddsUp'
  BY DEF TakeRow, ForceStop, Complete, db, service, RInv, Shape, ReportAddsUp
<1>3. CASE TakeRow(r)
  <2>1. PICK w : w = [run[r] EXCEPT !.left = left - 1]
    OBVIOUS
  <2>2. /\ w.pc = "tick" /\ w.left = left - 1 /\ w.file = f
        /\ {"pc", "file", "left", "end", "log"} \subseteq DOMAIN w
        /\ run' = [run EXCEPT ![r] = w]
    BY <1>1, <1>3, <2>1 DEF RInv, Shape, TakeRow
  <2>3. run'[r] = w
    BY <2>2 DEF RInv, IInv, RunShape
  <2>4. inserting' = {<<f, left>>} /\ left > 0
    BY <1>1, <1>3 DEF TakeRow
  <2>5. ASSUME f \in Files, NEW g, NEW m, g = f, m = left - 1 PROVE Balance(g, m)'
    <3>1. Rows[f] \in Nat
      BY <2>5, BulkUploadAssumption
    <3>2. left \in 1..Rows[f] /\ left - 1 \in Nat /\ success + failedRecords + (left - 1) + 1 = Rows[f]
      BY <1>1, <2>4, <2>5, <3>1
    <3> HIDE DEF f, left
    <3> QED BY <1>1, <1>2, <2>4, <2>5, <3>1, <3>2 DEF Balance
  <2>6. CountsRight(run[r])'
    BY <2>2, <2>3, <2>5 DEF CountsRight, Balance
  <2> QED BY <1>1, <1>2, <2>2, <2>6, GoesOnAs
<1>4. CASE ForceStop(r)
  BY <1>1, <1>2, <1>4, LogsRInv DEF ForceStop
<1>5. CASE Complete(r)
  <2>1. inserting' = {} /\ left = 0
    BY <1>1, <1>5 DEF Complete
  <2>2. f \in Files => success + failedRecords = Rows[f]
    BY <1>1, <2>1
  <2>3. CASE Logs(r, "completed", failedRecords)
    BY <1>1, <1>2, <2>1, <2>2, <2>3, LogsRInv
  <2>4. CASE Ends(r)
    BY <1>1, <1>2, <2>1, <2>4, EndsRInv
  <2> QED BY <1>5, <2>3, <2>4 DEF Complete
<1> QED BY <1>3, <1>4, <1>5

(* What is logged of a completed file adds up.                             *)
LEMMA LogUploadRInv ==
  ASSUME RInv, IInv', NEW r \in Runs, LogUpload(r)
  PROVE  RInv'
<1> DEFINE f == run[r].file
<1>1. /\ run[r].pc = "log" /\ ResetData /\ UNCHANGED inserting
      /\ status' = [status EXCEPT ![f] = run[r].end] /\ report' = [report EXCEPT ![f] = run[r].log]
  BY DEF LogUpload
<1>2. run[r].end = "completed" /\ f \in Files => run[r].log.success + run[r].log.failed = Rows[f]
  BY <1>1 DEF RInv, CountsRight
<1>3. /\ status' = [g \in Files |-> status'[g]] /\ report' = [g \in Files |-> report'[g]]
      /\ \A g \in Files : g # f => status'[g] = status[g] /\ report'[g] = report[g]
      /\ f \in Files => status'[f] = run[r].end /\ report'[f] = run[r].log
  BY <1>1 DEF RInv, Shape
<1> HIDE DEF f
<1>4. ReportAddsUp'
  BY <1>2, <1>3 DEF RInv, ReportAddsUp
<1>5. \A q \in Runs : q # r => run[q].pc = "idle"
  BY <1>1, OthersIdle DEF RInv
<1>6. inserting' = {}
  BY <1>1, <1>5 DEF RInv, NothingLeft
<1>7. CASE Calls(r, Head(jobQueue), "log")
  <2>1. PICK w : w = [RunIdle EXCEPT !.pc = "fetch", !.file = Head(jobQueue), !.by = "log"]
    OBVIOUS
  <2>2. /\ w.pc = "fetch" /\ {"pc", "file", "left", "end", "log"} \subseteq DOMAIN w
        /\ run' = [run EXCEPT ![r] = w]
    BY <1>7, <2>1 DEF Calls, RunIdle
  <2>3. CountsRight(run[r])'
    BY <1>1, <2>2 DEF CountsRight, ResetData, RInv, IInv, RunShape
  <2> QED BY <1>3, <1>4, <1>5, <1>6, <2>2, <2>3, GoesOnAs
<1>8. CASE Ends(r)
  BY <1>1, <1>3, <1>4, <1>6, <1>8, EndsRInv
<1> QED BY <1>7, <1>8 DEF LogUpload

(* The row on its way is counted once, as stored or as failed.             *)
LEMMA RowRInv ==
  ASSUME RInv, IInv', NEW f \in Files, NEW n \in 1..Rows[f], RowStored(f, n) \/ RowFails(f, n)
  PROVE  RInv'
<1>1. /\ <<f, n>> \in inserting /\ inserting' = inserting \ {<<f, n>>}
      /\ UNCHANGED <<status, report, run>>
      /\ \/ success' = success + 1 /\ UNCHANGED failedRecords
         \/ failedRecords' = failedRecords + 1 /\ UNCHANGED success
  BY DEF RowStored, RowFails, db
<1>2. PICK r \in Runs : run[r].pc = "tick"
  BY <1>1 DEF RInv, NothingLeft
<1>3. \A q \in Runs : q # r => run[q].pc = "idle"
  BY <1>2, OthersIdle DEF RInv
<1>4. ASSUME run[r].file \in Files PROVE Balance(run[r].file, run[r].left)'
  <2>1. Balance(run[r].file, run[r].left)
    BY <1>2, <1>4 DEF RInv, CountsRight
  <2>2. \E m \in 1..Rows[run[r].file] : inserting = {<<run[r].file, m>>}
    BY <1>1, <2>1 DEF Balance
  <2>3. inserting' = {}
    BY <1>1, <2>2
  <2>4. success + failedRecords + run[r].left + 1 = Rows[run[r].file]
    BY <2>1, <2>2 DEF Balance
  <2> QED BY <1>1, <2>1, <2>3, <2>4 DEF Balance
<1>5. \A q \in Runs : CountsRight(run[q])'
  <2>1. CountsRight(run[r])'
    BY <1>1, <1>2, <1>4 DEF CountsRight
  <2>2. \A q \in Runs : q # r => CountsRight(run[q])'
    BY <1>1, <1>3 DEF CountsRight
  <2> QED BY <2>1, <2>2
<1>6. Shape' /\ NothingLeft' /\ ReportAddsUp'
  BY <1>1, <1>2 DEF RInv, Shape, NothingLeft, ReportAddsUp
<1> QED BY <1>5, <1>6 DEF RInv

\* Requests and messages complete no file and leave the counters alone.
LEMMA OthersRInv ==
  ASSUME RInv, IInv', UNCHANGED <<report, run, inserting, success, failedRecords>>,
         \/ UNCHANGED status
         \/ \E f : \E s \in {"processing", "failed", "rollback"} : status' = [status EXCEPT ![f] = s]
  PROVE  RInv'
<1>1. Shape' /\ ReportAddsUp'
  BY DEF RInv, Shape, ReportAddsUp
<1>2. NothingLeft' /\ \A r \in Runs : CountsRight(run[r])'
  BY DEF RInv, NothingLeft, CountsRight, Balance
<1> QED BY <1>1, <1>2 DEF RInv

LEMMA StepRInv ==
  ASSUME RInv, ~Slow, [Next]_vars
  PROVE  RInv'
<1>1. IInv'
  BY StepInv DEF RInv
<1>2. ASSUME NEW c \in Clients, ClientStep(c) PROVE RInv'
  <2>1. CASE \E f \in Files : ProcessRead(c, f) \/ StopRead(c, f) \/ RollbackRead(c, f)
    BY <1>1, <2>1, OthersRInv DEF ProcessRead, StopRead, RollbackRead, Request, db, service, tasks
  <2>2. CASE ProcessAdd(c) \/ StopAdd(c) \/ RollbackDelete(c)
    BY <1>1, <2>2, OthersRInv DEF ProcessAdd, StopAdd, RollbackDelete, db, service, tasks
  <2>3. CASE ProcessUpdate(c) \/ RollbackUpdate(c)
    BY <1>1, <2>3, OthersRInv DEF ProcessUpdate, RollbackUpdate, service, tasks
  <2> QED BY <1>2, <2>1, <2>2, <2>3 DEF ClientStep, ClientGoesOn
<1>3. CASE TakeStop
  <2>1. UNCHANGED <<status, report, run, inserting, success, failedRecords>>
    BY <1>3, Zenon DEF TakeStop, db
  <2> QED BY <1>1, <2>1, OthersRInv
<1>4. ASSUME NEW f \in Files, StopWrite(f) \/ ReportError(f) PROVE RInv'
  BY <1>1, <1>4, OthersRInv DEF StopWrite, ReportError, service
<1>5. ASSUME NEW r \in Runs, RunStep(r) PROVE RInv'
  BY <1>1, <1>5, FetchReadRInv, MarkRInv, TickRInv, LogUploadRInv DEF RunStep
<1>6. CASE Restart
  BY <1>1, <1>6, LostRInv DEF Restart
<1>7. CASE UNCHANGED vars
  BY <1>1, <1>7, OthersRInv DEF vars, db, service, tasks
<1>8. CASE WorkerStep
  BY <1>1, <1>3, <1>4, <1>5, <1>8, TakeStartRInv, RowRInv DEF WorkerStep
<1> QED BY <1>2, <1>6, <1>7, <1>8 DEF Next

(* ReportAddsUp: every record of a completed file is in its report once,   *)
(* whatever is stopped, uploaded again or fails, and whatever restarts, if *)
(* no record takes longer to store than a tick.                            *)
THEOREM ReportsAddUp == ~Slow => (Spec => []ReportAddsUp)
<1> SUFFICES ASSUME ~Slow PROVE Spec => []ReportAddsUp
  OBVIOUS
<1>1. Init => RInv
  <2> SUFFICES ASSUME Init PROVE RInv
    OBVIOUS
  <2>1. \A r \in Runs : run[r].pc = "idle" /\ {"pc", "file", "left", "end", "log"} \subseteq DOMAIN run[r]
    BY DEF Init, RunIdle
  <2>2. Shape /\ NothingLeft /\ ReportAddsUp
    BY <2>1 DEF Init, Shape, NothingLeft, ReportAddsUp
  <2>3. \A r \in Runs : CountsRight(run[r])
    BY <2>1 DEF CountsRight
  <2> QED BY <2>2, <2>3, InitInv DEF RInv
<1>2. RInv /\ [Next]_vars => RInv'
  BY StepRInv
<1>3. RInv => ReportAddsUp
  BY DEF RInv
<1> QED BY <1>1, <1>2, <1>3, PTL DEF Spec

-----------------------------------------------------------------------------
(* The files that are attached to requests.                                *)

(* What every endpoint does: it writes a row, and but for one it sends the *)
(* file.                                                                   *)
Listed == Seq(Upload!Steps)

With(s) == {u \in Listed : \E i \in 1..Len(u) : u[i] = s}

LEMMA JoinedWith ==
  ASSUME NEW s, NEW u \in Listed, NEW v \in Listed, u \in With(s) \/ v \in With(s)
  PROVE  u \o v \in With(s)
<1> DEFINE w == u \o v
<1>1. w \in Listed /\ Len(w) = Len(u) + Len(v)
  BY ConcatProperties, Zenon DEF Listed
<1>2. \A i \in 1 .. Len(u) + Len(v) : w[i] = IF i <= Len(u) THEN u[i] ELSE v[i - Len(u)]
  BY ConcatProperties, Zenon DEF Listed
<1> HIDE DEF w
<1>3. PICK m \in Nat, n \in Nat : m = Len(u) /\ n = Len(v)
  BY DEF Listed
<1>4. \E i \in 1..Len(w) : w[i] = s
  <2>1. CASE u \in With(s)
    <3>1. PICK i \in 1..m : u[i] = s
      BY <1>3, <2>1 DEF With
    <3>2. i \in 1 .. m + n /\ i <= m
      OBVIOUS
    <3> QED
      BY <1>1, <1>2, <1>3, <3>1, <3>2
  <2>2. CASE v \in With(s)
    <3>1. PICK i \in 1..n : v[i] = s
      BY <1>3, <2>2 DEF With
    <3>2. m + i \in 1 .. m + n /\ ~(m + i <= m) /\ m + i - m = i
      OBVIOUS
    <3> QED
      BY <1>1, <1>2, <1>3, <3>1, <3>2
  <2> QED
    BY <2>1, <2>2
<1> QED
  BY <1>1, <1>4 DEF With, w

\* The same in a form in which it is used over and over.
Joins(s) ==
  \A u \in Listed, v \in Listed :
    u \o v \in Listed /\ (u \in With(s) \/ v \in With(s) => u \o v \in With(s))

LEMMA AllJoin == Joins("name") /\ Joins("send")
<1>1. \A u \in Listed, v \in Listed : u \o v \in Listed
  BY ConcatProperties, Zenon DEF Listed
<1> QED
  BY <1>1, JoinedWith, Zenon DEF Joins

LEMMA Parts ==
  /\ Upload!Query \in Listed
  /\ Upload!Row \in With("name") /\ Upload!Row \in Listed
  /\ Upload!Send \in With("send") /\ Upload!Send \in Listed
  BY DEF Upload!Query, Upload!Row, Upload!Send, Upload!Steps, Listed, With

Both == With("name") \cap With("send")

(* The endpoints one by one: the row, and the sending.                     *)
LEMMA EndpointSteps ==
  \A e \in Upload!Endpoints :
    e.steps \in With("name") /\ (e # Upload!CreateModule => e.steps \in With("send"))
<1>1. Upload!CreateContent.steps \in Both
  BY AllJoin, Parts, Zenon
  DEF Joins, Both, Upload!CreateContent, Upload!Careless, Upload!getSectionData,
      Upload!checkIfSectionHasContentForCountry, Upload!SectionContentRow
<1>2. Upload!UpdateContent.steps \in Both
  BY AllJoin, Parts, Zenon
  DEF Joins, Both, Upload!UpdateContent, Upload!Careless, Upload!SectionContentChange
<1>3. Upload!CreatePermission.steps \in Both
  BY AllJoin, Parts, Zenon
  DEF Joins, Both, Upload!CreatePermission, Upload!Careless, Upload!PermissionRow
<1>4. Upload!UpdatePermission.steps \in Both
  BY AllJoin, Parts, Zenon
  DEF Joins, Both, Upload!UpdatePermission, Upload!Careless, Upload!PermissionChange
<1>5. Upload!CreateInvoice.steps \in Both
  BY AllJoin, Parts, Zenon
  DEF Joins, Both, Upload!CreateInvoice, Upload!Careful, Upload!InvoiceRow
<1>6. Upload!UpdateInvoice.steps \in Both
  BY AllJoin, Parts, Zenon
  DEF Joins, Both, Upload!UpdateInvoice, Upload!Careful, Upload!InvoiceChange
<1>7. Upload!InvoicePdf.steps \in Both
  BY AllJoin, Parts, Zenon
  DEF Joins, Both, Upload!InvoicePdf, Upload!Careless, Upload!generateInvoicePdf
<1>8. Upload!CreateQuotation.steps \in Both
  BY AllJoin, Parts, Zenon
  DEF Joins, Both, Upload!CreateQuotation, Upload!Careful, Upload!QuotationRow
<1>9. Upload!UpdateQuotation.steps \in Both
  BY AllJoin, Parts, Zenon
  DEF Joins, Both, Upload!UpdateQuotation, Upload!Careful, Upload!QuotationChange
<1>10. Upload!QuotationPdf.steps \in Both
  BY AllJoin, Parts, Zenon
  DEF Joins, Both, Upload!QuotationPdf, Upload!Careless, Upload!generateQuotationPdf
<1>11. Upload!uploadBlogImages.steps \in Both
  BY AllJoin, Parts, Zenon
  DEF Joins, Both, Upload!uploadBlogImages, Upload!Careful, Upload!checkImagesThreshold,
      Upload!handleBlogImages
<1>12. Upload!CreateBlog.steps \in Both
  BY AllJoin, Parts, Zenon DEF Joins, Both, Upload!CreateBlog, Upload!Careful, Upload!BlogRow
<1>13. Upload!UpdateBlog.steps \in Both
  BY AllJoin, Parts, Zenon DEF Joins, Both, Upload!UpdateBlog, Upload!Careful, Upload!BlogChange
<1>14. Upload!uploadUserDocuments.steps \in Both
  BY AllJoin, Parts, Zenon
  DEF Joins, Both, Upload!uploadUserDocuments, Upload!Careful, Upload!handleUserDocuments
<1>15. Upload!CreateUser.steps \in Both
  BY AllJoin, Parts, Zenon DEF Joins, Both, Upload!CreateUser, Upload!Careful, Upload!UserRow
<1>16. Upload!updateMe.steps \in Both
  BY AllJoin, Parts, Zenon DEF Joins, Both, Upload!updateMe, Upload!Careful, Upload!UserChange
<1>17. Upload!UpdateUser.steps \in Both
  BY AllJoin, Parts, Zenon DEF Joins, Both, Upload!UpdateUser, Upload!Careful, Upload!UserChange
<1>18. Upload!UserAvatar.steps \in Both
  BY AllJoin, Parts, Zenon
  DEF Joins, Both, Upload!UserAvatar, Upload!Careless, Upload!createUserAvatar
<1>19. Upload!CreateBiometricsJob.steps \in Both
  BY AllJoin, Parts, Zenon
  DEF Joins, Both, Upload!CreateBiometricsJob, Upload!Careful, Upload!BiometricsJobRow
<1>20. Upload!CreateTransaction.steps \in Both
  BY AllJoin, Parts, Zenon
  DEF Joins, Both, Upload!CreateTransaction, Upload!Careful, Upload!TransactionRow
<1>21. Upload!UpdateTransaction.steps \in Both
  BY AllJoin, Parts, Zenon
  DEF Joins, Both, Upload!UpdateTransaction, Upload!Careful, Upload!TransactionChange
<1>22. Upload!CreateLeave.steps \in Both
  BY AllJoin, Parts, Zenon
  DEF Joins, Both, Upload!CreateLeave, Upload!Careful, Upload!LeaveRow, Upload!LeaveFiles,
      Upload!LeaveFound
<1>23. Upload!CreateCashAdvance.steps \in Both
  BY AllJoin, Parts, Zenon
  DEF Joins, Both, Upload!CreateCashAdvance, Upload!Careful, Upload!CashAdvanceRow,
      Upload!CashAdvanceFiles, Upload!CashAdvanceFound
<1>24. Upload!CreateCarReservation.steps \in Both
  BY AllJoin, Parts, Zenon
  DEF Joins, Both, Upload!CreateCarReservation, Upload!Careful, Upload!CarReservationRow,
      Upload!CarReservationFiles, Upload!CarReservationFound
<1>25. Upload!CreateFeedback.steps \in Both
  BY AllJoin, Parts, Zenon
  DEF Joins, Both, Upload!CreateFeedback, Upload!Careful, Upload!FeedbackRow,
      Upload!FeedbackFiles, Upload!FeedbackFound
<1>26. Upload!uploadTaskFiles.steps \in Both
  BY AllJoin, Parts, Zenon
  DEF Joins, Both, Upload!uploadTaskFiles, Upload!Careful, Upload!handleTaskFiles
<1>27. Upload!CreateBlogsCategory.steps \in Both
  BY AllJoin, Parts, Zenon
  DEF Joins, Both, Upload!CreateBlogsCategory, Upload!Careful, Upload!BlogsCategoryRow
<1>28. Upload!UpdateBlogsCategory.steps \in Both
  BY AllJoin, Parts, Zenon
  DEF Joins, Both, Upload!UpdateBlogsCategory, Upload!Careful, Upload!BlogsCategoryChange
<1>29. Upload!CreateNotification.steps \in Both
  BY AllJoin, Parts, Zenon
  DEF Joins, Both, Upload!CreateNotification, Upload!Careless, Upload!NotificationRow
<1>30. Upload!uploadEnquiryDocuments.steps \in Both
  BY AllJoin, Parts, Zenon
  DEF Joins, Both, Upload!uploadEnquiryDocuments, Upload!Careful, Upload!EnquiryDocuments
<1>31. Upload!uploadLeadDocuments.steps \in Both
  BY AllJoin, Parts, Zenon
  DEF Joins, Both, Upload!uploadLeadDocuments, Upload!Careful, Upload!LeadDocuments
<1>32. Upload!uploadPropertyFiles.steps \in Both
  BY AllJoin, Parts, Zenon
  DEF Joins, Both, Upload!uploadPropertyFiles, Upload!Careful, Upload!handlePropertyFiles
<1>33. Upload!uploadConversationFiles.steps \in Both
  BY AllJoin, Parts, Zenon
  DEF Joins, Both, Upload!uploadConversationFiles, Upload!Careful,
      Upload!handleConversationFiles
<1>34. Upload!CreatePermit.steps \in Both
  BY AllJoin, Parts, Zenon
  DEF Joins, Both, Upload!CreatePermit, Upload!Careful, Upload!PermitRow,
      Upload!PermitDocuments, Upload!PermitFound
<1>35. Upload!UpdatePermit.steps \in Both
  BY AllJoin, Parts, Zenon
  DEF Joins, Both, Upload!UpdatePermit, Upload!Careful, Upload!PermitChange,
      Upload!PermitDocuments, Upload!PermitFound
<1>36. Upload!CreateReimbursement.steps \in Both
  BY AllJoin, Parts, Zenon
  DEF Joins, Both, Upload!CreateReimbursement, Upload!Careful, Upload!ReimbursementRow,
      Upload!ReimbursementReceiptRows, Upload!ReimbursementFound
<1>37. Upload!CreateModule.steps \in With("name")
  BY Parts DEF Upload!CreateModule, Upload!Careless, Upload!ModuleRow
<1>38. Upload!UpdateModule.steps \in Both
  BY AllJoin, Parts, Zenon
  DEF Joins, Both, Upload!UpdateModule, Upload!Careless, Upload!ModuleChange
<1>39. Upload!CreateStaticPage.steps \in Both
  BY AllJoin, Parts, Zenon
  DEF Joins, Both, Upload!CreateStaticPage, Upload!Careful, Upload!StaticPageRow
<1>40. Upload!UpdateStaticPage.steps \in Both
  BY AllJoin, Parts, Zenon
  DEF Joins, Both, Upload!UpdateStaticPage, Upload!Careless, Upload!StaticPageChange
<1>41. Upload!CreateOrganization.steps \in Both
  BY AllJoin, Parts, Zenon
  DEF Joins, Both, Upload!CreateOrganization, Upload!Careful, Upload!OrganizationRow
<1>42. Upload!UpdateOrganization.steps \in Both
  BY AllJoin, Parts, Zenon
  DEF Joins, Both, Upload!UpdateOrganization, Upload!Careful, Upload!OrganizationChange
<1>43. Upload!uploadFaqImages.steps \in Both
  BY AllJoin, Parts, Zenon
  DEF Joins, Both, Upload!uploadFaqImages, Upload!Careful, Upload!handleFaqImages
<1>44. Upload!CheckInCheckOut.steps \in Both
  BY AllJoin, Parts, Zenon
  DEF Joins, Both, Upload!CheckInCheckOut, Upload!Careful, Upload!validateCheckInCheckOut,
      Upload!checkInCheckOut
<1> QED
  BY <1>1, <1>2, <1>3, <1>4, <1>5, <1>6, <1>7, <1>8, <1>9, <1>10, <1>11, <1>12, <1>13, <1>14,
     <1>15, <1>16, <1>17, <1>18, <1>19, <1>20, <1>21, <1>22, <1>23, <1>24, <1>25, <1>26,
     <1>27, <1>28, <1>29, <1>30, <1>31, <1>32, <1>33, <1>34, <1>35, <1>36, <1>37, <1>38,
     <1>39, <1>40, <1>41, <1>42, <1>43, <1>44, Zenon DEF Upload!Endpoints, Both

-----------------------------------------------------------------------------
(* The invariant, file by file, while no two files have one path.          *)
OwnPath == \A f, g \in Attached : path[f] # None /\ path[f] = path[g] => f = g

FreeIsEmpty ==
  \A p \in Paths : (\A f \in Attached : path[f] # p) => disk[p] = None /\ store[p] = None

Comes(f) ==
  /\ path[f] = None <=> at[f] = 0
  /\ at[f] = 0 => f \notin named \cup late \cup broken \cup sending
  /\ stream[f] # None => f \in sending

\* Nothing but the file is at its path, and nothing else is sent from it.
HoldsOwn(f) ==
  /\ at[f] # 0 => disk[path[f]] \in {f, None} /\ store[path[f]] \in {f, None}
  /\ stream[f] \in {f, None}

StaysKept(f) == Upload!Underway(f) \/ f \in named \ late => Upload!Kept(f)

\* A request that has passed the sending is being sent, or was.
PassedSend(f) ==
  \/ f \in late \cup broken
  \/ at[f] = Upload!Over /\ f \notin named
  \/ \A i \in 1..Len(endpoint.steps) :
       i < at[f] /\ endpoint.steps[i] = "send" => f \in sending \/ store[path[f]] = f

\* One that has passed the row has it, but for one that failed.
PassedName(f) ==
  \/ f \in named \cup broken
  \/ at[f] = Upload!Over /\ (endpoint.removes => disk[path[f]] # f)
  \/ \A i \in 1..Len(endpoint.steps) : i < at[f] => endpoint.steps[i] # "name"

\* Where the row comes first, nothing is sent without one.
SendsNamed(f) ==
  ~Upload!SendsFirst /\ at[f] # 0 /\ (f \in sending \/ store[path[f]] = f) =>
    f \in named \cup broken

FileOK(f) ==
  HoldsOwn(f) /\ StaysKept(f) /\ PassedSend(f) /\ PassedName(f) /\ SendsNamed(f)

Orderly == OwnPath /\ FreeIsEmpty /\ \A f \in Attached : FileOK(f)

EndpointOK ==
  /\ endpoint.steps \in With("name")
  /\ endpoint # Upload!CreateModule => endpoint.steps \in With("send")

FTyped == Upload!TypeOK /\ EndpointOK /\ \A f \in Attached : Comes(f)

FInv == FTyped /\ (~twins => Orderly)

LEMMA UploadInit == UploadAssumption /\ Upload!Init => FInv
<1> SUFFICES ASSUME UploadAssumption, Upload!Init PROVE FInv
  OBVIOUS
<1>1. EndpointOK
  BY EndpointSteps DEF EndpointOK, Upload!Init
<1>2. endpoint.steps \in Seq(Upload!Steps)
  BY <1>1 DEF EndpointOK, With, Listed
<1>4. Len(endpoint.steps) \in Nat
  BY <1>2
<1>3. Upload!TypeOK
  <2>1. 0 \in 0..Upload!Over /\ failures \in 0..MaxFailures
    BY <1>4 DEF UploadAssumption, Upload!Init, Upload!Over
  <2>2. at \in [Attached -> 0..Upload!Over]
    BY <2>1 DEF Upload!Init
  <2>3. {disk, store} \subseteq [Paths -> Attached \cup {None}]
    BY DEF Upload!Init
  <2> QED
    BY <1>2, <2>1, <2>2, <2>3 DEF Upload!Init, Upload!TypeOK
<1>5. ASSUME NEW f \in Attached PROVE Comes(f) /\ FileOK(f)
  <2>1. at[f] = 0 /\ path[f] = None /\ stream[f] = None
    BY DEF Upload!Init
  <2>2. \A i \in 1..Len(endpoint.steps) : ~(i < at[f])
    BY <2>1, <1>4
  <2>3. ~Upload!Underway(f)
    BY <2>1, <1>4 DEF Upload!Underway
  <2> QED
    BY <2>1, <2>2, <2>3 DEF Upload!Init, FileOK, Comes, HoldsOwn, StaysKept, PassedSend,
       PassedName, SendsNamed
<1>6. OwnPath /\ FreeIsEmpty
  BY DEF Upload!Init, OwnPath, FreeIsEmpty
<1> QED
  BY <1>1, <1>3, <1>5, <1>6 DEF FInv, FTyped, Orderly

\* What another file's request does not touch.
Untouched(g) ==
  /\ endpoint' = endpoint
  /\ path'[g] = path[g] /\ at'[g] = at[g] /\ stream'[g] = stream[g]
  /\ g \in named' <=> g \in named
  /\ g \in late' <=> g \in late
  /\ g \in broken' <=> g \in broken
  /\ g \in sending' <=> g \in sending
  /\ at[g] # 0 => disk'[path[g]] = disk[path[g]] /\ store'[path[g]] = store[path[g]]

LEMMA UntouchedStays == ASSUME NEW g \in Attached, FTyped, FileOK(g), Untouched(g) PROVE FileOK(g)'
<1>1. HoldsOwn(g)'
  BY DEF Untouched, FileOK, HoldsOwn
<1>2. at[g] = 0 => /\ ~Upload!Underway(g) /\ g \notin named
                   /\ \A i \in 1..Len(endpoint.steps) : ~(i < at[g])
  BY DEF FTyped, Comes, Upload!TypeOK, Upload!Underway
<1>3. StaysKept(g)'
  BY <1>2 DEF Untouched, FileOK, StaysKept, Upload!Underway, Upload!Kept
<1>4. at[g] = Upload!Over => at[g] # 0
  BY DEF FTyped, Upload!TypeOK, Upload!Over
<1>5. PassedSend(g)' /\ PassedName(g)'
  BY <1>2, <1>4 DEF Untouched, FileOK, PassedSend, PassedName, Upload!Over
<1>6. SendsNamed(g)'
  BY DEF Untouched, FileOK, SendsNamed, Upload!SendsFirst
<1> QED
  BY <1>1, <1>3, <1>5, <1>6 DEF FileOK

LEMMA UploadTyped == UploadAssumption /\ FTyped /\ [Upload!Next]_(Upload!vars) => FTyped'
<1> SUFFICES ASSUME UploadAssumption, FTyped, [Upload!Next]_(Upload!vars) PROVE FTyped'
  OBVIOUS
<1>1. endpoint' = endpoint
  BY DEF Upload!Next, Upload!vars, Upload!Restart, Upload!Receive, Upload!MakeQuery,
     Upload!StorePath, Upload!uploadFile, Upload!HandlerFails, Upload!OpenStream, Upload!Sent,
     Upload!NotSent
<1>2. EndpointOK' /\ Upload!Over' = Upload!Over /\ endpoint' \in Upload!Endpoints
      /\ endpoint'.steps \in Seq(Upload!Steps)
  BY <1>1 DEF FTyped, EndpointOK, Upload!Over, Upload!TypeOK
<1>3. Upload!TypeOK /\ Len(endpoint.steps) \in Nat /\ Upload!Over \in Nat /\ Upload!Over > 0
  BY DEF FTyped, Upload!TypeOK, Upload!Over
<1>4. MaxFailures \in Nat /\ None \notin Paths
  BY DEF UploadAssumption
<1> DEFINE Good == Upload!TypeOK' /\ \A g \in Attached : Comes(g)'
<1>5. CASE UNCHANGED Upload!vars
  BY <1>2, <1>3, <1>5 DEF Upload!vars, Upload!TypeOK, FTyped, Comes
<1>6. CASE Upload!Restart
  <2>1. at' \in [Attached -> 0..Upload!Over]
    BY <1>3, <1>6 DEF Upload!Restart, Upload!TypeOK
  <2>2. Upload!TypeOK'
    BY <1>2, <1>3, <1>6, <2>1 DEF Upload!Restart, Upload!TypeOK
  <2>3. ASSUME NEW g \in Attached PROVE Comes(g)'
    <3>1. at'[g] = 0 <=> at[g] = 0
      BY <1>3, <1>6 DEF Upload!Restart, Upload!Underway, Upload!TypeOK
    <3>2. at[g] = 0 => ~Upload!Underway(g)
      BY <1>3 DEF Upload!Underway
    <3> QED
      BY <1>6, <3>1, <3>2 DEF FTyped, Comes, Upload!Restart
  <2> QED
    BY <1>2, <2>2, <2>3 DEF FTyped
<1>7. ASSUME NEW f \in Attached, NEW p \in Paths, Upload!Receive(f, p) PROVE Good
  <2>1. at' \in [Attached -> 0..Upload!Over]
    BY <1>3, <1>7 DEF Upload!Receive, Upload!TypeOK
  <2>2. Upload!TypeOK'
    BY <1>2, <1>3, <1>7, <2>1 DEF Upload!Receive, Upload!TypeOK
  <2>3. ASSUME NEW g \in Attached PROVE Comes(g)'
    BY <1>3, <1>4, <1>7, <2>3 DEF FTyped, Comes, Upload!Receive, Upload!TypeOK
  <2> QED
    BY <2>2, <2>3
<1>8. ASSUME NEW f \in Attached,
             Upload!MakeQuery(f) \/ Upload!StorePath(f) \/ Upload!uploadFile(f)
      PROVE  Good
  <2>1. at' = [at EXCEPT ![f] = at[f] + 1] /\ Upload!Underway(f)
    BY <1>8 DEF Upload!MakeQuery, Upload!StorePath, Upload!uploadFile, Upload!NextStep
  <2>2. at' \in [Attached -> 0..Upload!Over]
    BY <1>3, <2>1 DEF Upload!Underway, Upload!Over, Upload!TypeOK
  <2>3. Upload!TypeOK'
    BY <1>2, <1>3, <1>8, <2>2
    DEF Upload!MakeQuery, Upload!StorePath, Upload!uploadFile, Upload!TypeOK
  <2>4. ASSUME NEW g \in Attached PROVE Comes(g)'
    <3>1. (at'[g] = 0 <=> at[g] = 0) /\ at'[f] # 0
      BY <1>3, <2>1 DEF Upload!Underway, Upload!TypeOK
    <3> QED
      BY <1>8, <3>1 DEF FTyped, Comes, Upload!MakeQuery, Upload!StorePath, Upload!uploadFile
  <2> QED
    BY <2>3, <2>4
<1>9. ASSUME NEW f \in Attached, Upload!HandlerFails(f) PROVE Good
  <2>1. at' \in [Attached -> 0..Upload!Over] /\ failures' \in 0..MaxFailures
    BY <1>3, <1>4, <1>9 DEF Upload!HandlerFails, Upload!Fails, Upload!TypeOK
  <2>2. disk' \in [Paths -> Attached \cup {None}]
    BY <1>3, <1>9 DEF Upload!HandlerFails, Upload!removeUploadedFiles, Upload!TypeOK
  <2>3. Upload!TypeOK'
    BY <1>2, <1>3, <1>9, <2>1, <2>2 DEF Upload!HandlerFails, Upload!TypeOK
  <2>4. ASSUME NEW g \in Attached PROVE Comes(g)'
    <3>1. (at'[g] = 0 <=> at[g] = 0) /\ at'[f] # 0
      BY <1>3, <1>9 DEF Upload!HandlerFails, Upload!Underway, Upload!TypeOK
    <3> QED
      BY <1>9, <3>1 DEF FTyped, Comes, Upload!HandlerFails
  <2> QED
    BY <2>3, <2>4
<1>10. ASSUME NEW f \in Attached, Upload!OpenStream(f) \/ Upload!Sent(f) \/ Upload!NotSent(f)
       PROVE  Good
  <2>1. f \in sending
    BY <1>10 DEF FTyped, Comes, Upload!OpenStream, Upload!Sent, Upload!NotSent
  <2>2. path[f] \in Paths /\ at[f] # 0
    BY <1>3, <2>1 DEF FTyped, Comes, Upload!TypeOK
  <2>3. disk' \in [Paths -> Attached \cup {None}] /\ store' \in [Paths -> Attached \cup {None}]
    <3>1. /\ disk \in [Paths -> Attached \cup {None}]
          /\ store \in [Paths -> Attached \cup {None}] /\ stream[f] \in Attached \cup {None}
      BY <1>3 DEF Upload!TypeOK
    <3> QED
      BY <1>10, <2>2, <3>1
      DEF Upload!OpenStream, Upload!Sent, Upload!NotSent, Upload!KeptOnDisk
  <2>4. stream' \in [Attached -> Attached \cup {None}]
    BY <1>3, <1>10, <2>2 DEF Upload!OpenStream, Upload!Sent, Upload!NotSent, Upload!TypeOK
  <2>5. failures' \in 0..MaxFailures
    BY <1>3, <1>4, <1>10
    DEF Upload!OpenStream, Upload!Sent, Upload!NotSent, Upload!Fails, Upload!TypeOK
  <2>6. Upload!TypeOK'
    BY <1>2, <1>3, <1>10, <2>3, <2>4, <2>5
    DEF Upload!OpenStream, Upload!Sent, Upload!NotSent, Upload!TypeOK
  <2>7. ASSUME NEW g \in Attached PROVE Comes(g)'
    BY <1>3, <1>10, <2>1, <2>2
    DEF FTyped, Comes, Upload!OpenStream, Upload!Sent, Upload!NotSent, Upload!TypeOK
  <2> QED
    BY <2>6, <2>7
<1> QED
  BY <1>2, <1>5, <1>6, <1>7, <1>8, <1>9, <1>10 DEF Upload!Next, FTyped

\* What the steps below start from.
Before == UploadAssumption /\ FTyped /\ Orderly /\ ~twins

LEMMA ReceiveOrderly ==
  ASSUME Before, ~twins', NEW f \in Attached, NEW p \in Paths, Upload!Receive(f, p)
  PROVE  Orderly'
<1>1. /\ at[f] = 0 /\ path[f] = None /\ p # None /\ None \notin Attached
      /\ path \in [Attached -> Paths \cup {None}] /\ at \in [Attached -> 0..Upload!Over]
      /\ disk \in [Paths -> Attached \cup {None}]
  BY DEF Before, FTyped, Comes, Upload!Receive, Upload!TypeOK, UploadAssumption
<1>2. \A g \in Attached : path[g] # p
  BY DEF Upload!Receive
<1>3. path'[f] = p /\ at'[f] = 1 /\ disk'[p] = f
  BY <1>1 DEF Upload!Receive
<1>4. disk[p] = None /\ store[p] = None
  BY <1>2 DEF Before, Orderly, FreeIsEmpty
<1>5. f \notin named \cup late \cup broken \cup sending /\ stream[f] = None
  BY <1>1 DEF Before, FTyped, Comes
<1>6. FileOK(f)'
  <2>1. \A i \in 1..Len(endpoint.steps) : ~(i < 1)
    OBVIOUS
  <2>2. HoldsOwn(f)' /\ StaysKept(f)' /\ SendsNamed(f)'
    BY <1>1, <1>3, <1>4, <1>5
    DEF HoldsOwn, StaysKept, SendsNamed, Upload!Kept, Upload!Receive
  <2>3. PassedSend(f)' /\ PassedName(f)'
    BY <1>3, <2>1 DEF PassedSend, PassedName, Upload!Receive
  <2> QED
    BY <2>2, <2>3 DEF FileOK
<1>7. ASSUME NEW g \in Attached, g # f PROVE FileOK(g)'
  <2>1. Untouched(g)
    BY <1>1, <1>2, <1>7 DEF Untouched, Upload!Receive
  <2> QED
    BY <2>1, UntouchedStays DEF Before, Orderly
<1>8. OwnPath'
  <2>1. \A g \in Attached : path'[g] = IF g = f THEN p ELSE path[g]
    BY <1>1 DEF Upload!Receive
  <2> QED
    BY <1>2, <2>1 DEF Before, Orderly, OwnPath
<1>9. FreeIsEmpty'
  <2> SUFFICES ASSUME NEW q \in Paths, \A g \in Attached : path'[g] # q
               PROVE  disk'[q] = None /\ store'[q] = None
    BY DEF FreeIsEmpty
  <2>1. q # p /\ q # None
    BY <1>3 DEF Before, UploadAssumption
  <2>2. \A g \in Attached : path[g] # q
    BY <1>1, <2>1 DEF Upload!Receive
  <2> QED
    BY <1>1, <2>1, <2>2 DEF Before, Orderly, FreeIsEmpty, Upload!Receive
<1> QED
  BY <1>6, <1>7, <1>8, <1>9 DEF Orderly

\* The steps that are taken one after the other.
LEMMA ServeOrderly ==
  ASSUME Before, NEW f \in Attached,
         Upload!MakeQuery(f) \/ Upload!StorePath(f) \/ Upload!uploadFile(f)
  PROVE  Orderly'
<1> DEFINE step == endpoint.steps[at[f]]
<1>1. /\ at' = [at EXCEPT ![f] = at[f] + 1] /\ Upload!Underway(f)
      /\ UNCHANGED <<endpoint, path, disk, store, stream, late, broken>>
      /\ named' = IF step = "name" THEN named \cup {f} ELSE named
      /\ sending' = IF step = "send" THEN sending \cup {f} ELSE sending
  BY DEF Upload!MakeQuery, Upload!StorePath, Upload!uploadFile, Upload!NextStep
<1> HIDE DEF step
<1>2. /\ Len(endpoint.steps) \in Nat /\ at[f] \in 1..Len(endpoint.steps)
      /\ at \in [Attached -> 0..Upload!Over]
  BY <1>1 DEF Before, FTyped, Upload!TypeOK, Upload!Underway
<1>3. at'[f] = at[f] + 1
  BY <1>1, <1>2
<1>4. \A i \in 1..Len(endpoint.steps) : i < at'[f] => i < at[f] \/ i = at[f]
  BY <1>2, <1>3
<1>5. at[f] # Upload!Over /\ at[f] # 0
  BY <1>2 DEF Upload!Over
<1>6. FileOK(f)
  BY DEF Before, Orderly
<1>7. HoldsOwn(f)' /\ StaysKept(f)'
  BY <1>1, <1>2, <1>3, <1>5, <1>6 DEF FileOK, HoldsOwn, StaysKept, Upload!Kept
<1>8. PassedSend(f)'
  <2>1. CASE f \in late \cup broken
    BY <1>1, <2>1 DEF PassedSend
  <2>2. CASE \A i \in 1..Len(endpoint.steps) :
               i < at[f] /\ endpoint.steps[i] = "send" => f \in sending \/ store[path[f]] = f
    <3>1. \A i \in 1..Len(endpoint.steps) :
            i < at'[f] /\ endpoint.steps[i] = "send" => f \in sending' \/ store'[path'[f]] = f
      BY <1>1, <1>4, <2>2 DEF step
    <3> QED
      BY <1>1, <3>1 DEF PassedSend
  <2> QED
    BY <1>5, <1>6, <2>1, <2>2 DEF FileOK, PassedSend
<1>9. PassedName(f)'
  <2>1. CASE f \in named' \cup broken
    BY <1>1, <2>1 DEF PassedName
  <2>2. CASE f \notin named' \cup broken
    <3>1. step # "name" /\ f \notin named \cup broken
      BY <1>1, <2>2
    <3>2. \A i \in 1..Len(endpoint.steps) : i < at[f] => endpoint.steps[i] # "name"
      BY <1>5, <1>6, <3>1 DEF FileOK, PassedName
    <3>3. \A i \in 1..Len(endpoint.steps) : i < at'[f] => endpoint.steps[i] # "name"
      BY <1>4, <3>1, <3>2 DEF step
    <3> QED
      BY <1>1, <3>3 DEF PassedName
  <2> QED
    BY <2>1, <2>2
<1>10. SendsNamed(f)'
  <2>1. CASE step = "send" /\ ~Upload!SendsFirst
    <3>1. PICK n \in 1..Len(endpoint.steps) : endpoint.steps[n] = "name"
      BY DEF Before, FTyped, EndpointOK, With
    <3>2. DOMAIN endpoint.steps = 1..Len(endpoint.steps)
      BY DEF Before, FTyped, Upload!TypeOK
    <3>3. n < at[f]
      <4>1. n # at[f] /\ ~(at[f] < n)
        BY <1>2, <2>1, <3>1, <3>2 DEF step, Upload!SendsFirst
      <4> QED
        BY <1>2, <4>1
    <3>4. f \in named \cup broken
      BY <1>5, <1>6, <3>1, <3>3 DEF FileOK, PassedName
    <3> QED
      BY <1>1, <3>4 DEF SendsNamed
  <2>2. CASE step # "send"
    BY <1>1, <1>5, <1>6, <2>2 DEF FileOK, SendsNamed, Upload!SendsFirst
  <2>3. CASE Upload!SendsFirst
    BY <1>1, <2>3 DEF SendsNamed, Upload!SendsFirst
  <2> QED
    BY <2>1, <2>2, <2>3
<1>11. ASSUME NEW g \in Attached, g # f PROVE FileOK(g)'
  <2>1. Untouched(g)
    BY <1>1, <1>2, <1>11 DEF Untouched
  <2> QED
    BY <2>1, UntouchedStays DEF Before, Orderly
<1>12. OwnPath' /\ FreeIsEmpty'
  BY <1>1 DEF Before, Orderly, OwnPath, FreeIsEmpty
<1> QED
  BY <1>7, <1>8, <1>9, <1>10, <1>11, <1>12 DEF FileOK, Orderly

LEMMA FailsOrderly ==
  ASSUME Before, NEW f \in Attached, Upload!HandlerFails(f) PROVE Orderly'
<1>1. /\ Upload!Underway(f) /\ at' = [at EXCEPT ![f] = Upload!Over]
      /\ disk' = IF endpoint.removes THEN [disk EXCEPT ![path[f]] = None] ELSE disk
      /\ late' = IF f \in named THEN late \cup {f} ELSE late
      /\ UNCHANGED <<endpoint, path, store, sending, stream, named, broken>>
  BY DEF Upload!HandlerFails, Upload!removeUploadedFiles
<1>2. /\ at[f] # 0 /\ at \in [Attached -> 0..Upload!Over] /\ Upload!Over # 0 /\ None \notin Attached
      /\ disk \in [Paths -> Attached \cup {None}] /\ Upload!Over' = Upload!Over
      /\ Upload!Over \notin 1..Len(endpoint.steps)
  BY <1>1 DEF Before, FTyped, Upload!TypeOK, Upload!Underway, Upload!Over, UploadAssumption
<1>3. path[f] \in Paths /\ path[f] # None
  BY <1>2 DEF Before, FTyped, Comes, Upload!TypeOK
<1>4. at'[f] = Upload!Over /\ disk'[path[f]] \in {disk[path[f]], None}
      /\ (endpoint.removes => disk'[path[f]] # f)
  BY <1>1, <1>2, <1>3
<1>5. FileOK(f)
  BY DEF Before, Orderly
<1>6. ~Upload!Underway(f)'
  BY <1>1, <1>2, <1>4 DEF Upload!Underway
<1>7. HoldsOwn(f)' /\ SendsNamed(f)'
  BY <1>1, <1>2, <1>4, <1>5 DEF FileOK, HoldsOwn, SendsNamed, Upload!SendsFirst
<1>8. StaysKept(f)'
  BY <1>1, <1>6, <1>5 DEF StaysKept
<1>9. PassedSend(f)' /\ PassedName(f)'
  BY <1>1, <1>2, <1>4 DEF PassedSend, PassedName
<1>10. ASSUME NEW g \in Attached, g # f PROVE FileOK(g)'
  <2>1. path[g] # path[f]
    BY <1>3, <1>10 DEF Before, Orderly, OwnPath
  <2>2. Untouched(g)
    BY <1>1, <1>2, <1>10, <2>1 DEF Untouched
  <2> QED
    BY <2>2, UntouchedStays DEF Before, Orderly
<1>11. OwnPath' /\ FreeIsEmpty'
  BY <1>1, <1>2 DEF Before, Orderly, OwnPath, FreeIsEmpty
<1> QED
  BY <1>7, <1>8, <1>9, <1>10, <1>11 DEF FileOK, Orderly

LEMMA SendingOrderly ==
  ASSUME Before, NEW f \in Attached, Upload!OpenStream(f) \/ Upload!Sent(f) \/ Upload!NotSent(f)
  PROVE  Orderly'
<1>1. /\ f \in sending /\ UNCHANGED <<endpoint, path, at, named, late>>
      /\ \A g \in Attached \ {f} : stream'[g] = stream[g]
  BY DEF Before, FTyped, Comes, Upload!OpenStream, Upload!Sent, Upload!NotSent, Upload!TypeOK
<1>2. /\ at[f] # 0 /\ None \notin Attached /\ Upload!Over' = Upload!Over
      /\ disk \in [Paths -> Attached \cup {None}] /\ store \in [Paths -> Attached \cup {None}]
      /\ stream \in [Attached -> Attached \cup {None}]
  BY <1>1 DEF Before, FTyped, Comes, Upload!TypeOK, Upload!Over, UploadAssumption
<1>3. path[f] \in Paths /\ path[f] # None
  BY <1>2 DEF Before, FTyped, Comes, Upload!TypeOK
<1>4. FileOK(f)
  BY DEF Before, Orderly
<1>5. /\ disk'[path[f]] \in {disk[path[f]], None} /\ store'[path[f]] \in {store[path[f]], f}
      /\ stream'[f] \in {f, None}
      /\ \A p \in Paths \ {path[f]} : disk'[p] = disk[p] /\ store'[p] = store[p]
  BY <1>2, <1>3, <1>4
  DEF FileOK, HoldsOwn, Upload!OpenStream, Upload!Sent, Upload!NotSent, Upload!KeptOnDisk
<1>6. \/ sending' = sending /\ broken' = broken /\ disk' = disk /\ store' = store
      \/ sending' = sending \ {f} /\ broken' = broken /\ store'[path[f]] = f
      \/ sending' = sending \ {f} /\ broken' = broken \cup {f} /\ disk' = disk /\ store' = store
  BY <1>2, <1>3, <1>4
  DEF FileOK, HoldsOwn, Upload!OpenStream, Upload!Sent, Upload!NotSent, Upload!KeptOnDisk
<1>7. HoldsOwn(f)'
  BY <1>1, <1>4, <1>5 DEF FileOK, HoldsOwn
<1>8. StaysKept(f)'
  BY <1>1, <1>4, <1>6 DEF FileOK, StaysKept, Upload!Kept, Upload!Underway
<1>9. PassedSend(f)'
  BY <1>1, <1>2, <1>4, <1>6 DEF FileOK, PassedSend
<1>10. PassedName(f)'
  BY <1>1, <1>2, <1>3, <1>4, <1>5, <1>6 DEF FileOK, PassedName
<1>11. SendsNamed(f)'
  BY <1>1, <1>4, <1>6 DEF FileOK, SendsNamed, Upload!SendsFirst
<1>12. ASSUME NEW g \in Attached, g # f PROVE FileOK(g)'
  <2>1. path[g] # path[f]
    BY <1>3, <1>12 DEF Before, Orderly, OwnPath
  <2>2. at[g] # 0 => path[g] \in Paths
    BY DEF Before, FTyped, Comes, Upload!TypeOK
  <2>3. Untouched(g)
    BY <1>1, <1>5, <1>6, <1>12, <2>1, <2>2 DEF Untouched
  <2> QED
    BY <2>3, UntouchedStays DEF Before, Orderly
<1>13. OwnPath' /\ FreeIsEmpty'
  BY <1>1, <1>3, <1>5 DEF Before, Orderly, OwnPath, FreeIsEmpty
<1> QED
  BY <1>7, <1>8, <1>9, <1>10, <1>11, <1>12, <1>13 DEF FileOK, Orderly

LEMMA RestartOrderly == ASSUME Before, Upload!Restart PROVE Orderly'
<1>1. /\ UNCHANGED <<endpoint, path, disk, store, named, late>> /\ sending' = {}
      /\ \A f \in Attached : stream'[f] = None
      /\ \A f \in Attached : at'[f] = IF Upload!Underway(f) THEN Upload!Over ELSE at[f]
      /\ \A f \in Attached : f \in broken' <=> f \in broken \cup sending \/ Upload!Underway(f)
      /\ Upload!Over' = Upload!Over
  BY DEF Upload!Restart, Upload!Over
<1>2. ASSUME NEW f \in Attached PROVE FileOK(f)'
  <2>1. FileOK(f)
    BY DEF Before, Orderly
  <2>2. ~Upload!Underway(f)' /\ (at'[f] = 0 <=> at[f] = 0)
    BY <1>1 DEF Before, FTyped, Upload!TypeOK, Upload!Underway, Upload!Over
  <2>3. HoldsOwn(f)' /\ StaysKept(f)' /\ SendsNamed(f)'
    BY <1>1, <2>1, <2>2
    DEF FileOK, HoldsOwn, StaysKept, SendsNamed, Upload!Kept, Upload!SendsFirst
  <2>4. PassedSend(f)' /\ PassedName(f)'
    BY <1>1, <2>1 DEF FileOK, PassedSend, PassedName
  <2> QED
    BY <2>3, <2>4 DEF FileOK
<1>3. OwnPath' /\ FreeIsEmpty'
  BY <1>1 DEF Before, Orderly, OwnPath, FreeIsEmpty
<1> QED
  BY <1>2, <1>3 DEF Orderly

LEMMA UploadNext == UploadAssumption /\ FInv /\ [Upload!Next]_(Upload!vars) => FInv'
<1> SUFFICES ASSUME UploadAssumption, FInv, [Upload!Next]_(Upload!vars) PROVE FInv'
  OBVIOUS
<1>1. FTyped'
  BY UploadTyped DEF FInv
<1>2. ASSUME ~twins' PROVE Orderly'
  <2>1. ~twins
    BY <1>2 DEF Upload!Next, Upload!vars, Upload!Restart, Upload!Receive, Upload!MakeQuery,
       Upload!StorePath, Upload!uploadFile, Upload!HandlerFails, Upload!OpenStream, Upload!Sent,
       Upload!NotSent
  <2>2. Before
    BY <2>1 DEF Before, FInv
  <2>3. CASE UNCHANGED Upload!vars
    <3>1. \A g \in Attached : Untouched(g)
      BY <2>3 DEF Untouched, Upload!vars
    <3>2. \A g \in Attached : FileOK(g)'
      BY <2>2, <3>1, UntouchedStays DEF Before, Orderly
    <3> QED
      BY <2>2, <2>3, <3>2 DEF Before, Orderly, OwnPath, FreeIsEmpty, Upload!vars
  <2> QED
    BY <1>2, <2>2, <2>3, ReceiveOrderly, ServeOrderly, FailsOrderly, SendingOrderly, RestartOrderly
    DEF Upload!Next
<1> QED
  BY <1>1, <1>2 DEF FInv

(* A file whose path is in a row is on the disk or in S3; it arrives in S3 *)
(* once its request is over, and a request that fails before its row is    *)
(* written leaves nothing (the handlers that take files, and uploadFile of *)
(* file-management.ts): but for the causes named, for any number of files, *)
(* paths and failures, at every endpoint, and through a restart.           *)
THEOREM FilesStay ==
  UploadAssumption =>
    (Upload!Spec => [](Upload!NamedIsKept /\ Upload!NamedArrives /\ Upload!NothingIsLeft))
<1> SUFFICES ASSUME UploadAssumption
             PROVE  Upload!Spec =>
                      [](Upload!NamedIsKept /\ Upload!NamedArrives /\ Upload!NothingIsLeft)
  OBVIOUS
<1>1. Upload!Init => FInv
  BY UploadInit
<1>2. FInv /\ [Upload!Next]_(Upload!vars) => FInv'
  BY UploadNext
<1>3. FInv => Upload!NamedIsKept /\ Upload!NamedArrives /\ Upload!NothingIsLeft
  <2> SUFFICES ASSUME FInv PROVE Upload!NamedIsKept /\ Upload!NamedArrives /\ Upload!NothingIsLeft
    OBVIOUS
  <2>1. FTyped /\ (~twins => Orderly) /\ Upload!TypeOK
    BY DEF FInv, FTyped
  <2>2. Len(endpoint.steps) \in Nat /\ \A i \in 1..Len(endpoint.steps) : i < Upload!Over
    BY <2>1 DEF Upload!TypeOK, Upload!Over
  <2>3. Upload!NamedIsKept
    BY <2>1 DEF Upload!NamedIsKept, Orderly, FileOK, StaysKept, Upload!TypeOK
  <2>4. Upload!NamedArrives
    <3> SUFFICES ASSUME ~twins, endpoint # Upload!CreateModule,
                        NEW f \in named \ (late \cup broken \cup sending), at[f] = Upload!Over
                 PROVE  store[path[f]] = f
      BY DEF Upload!NamedArrives
    <3>1. PICK i \in 1..Len(endpoint.steps) : endpoint.steps[i] = "send"
      BY <2>1 DEF FTyped, EndpointOK, With
    <3>2. f \in Attached /\ PassedSend(f)
      BY <2>1 DEF Orderly, FileOK, Upload!TypeOK
    <3> QED
      BY <2>2, <3>1, <3>2 DEF PassedSend
  <2>5. Upload!NothingIsLeft
    <3> SUFFICES ASSUME ~twins, endpoint.removes, ~Upload!SendsFirst,
                        NEW f \in Upload!Received \ (named \cup broken), at[f] = Upload!Over
                 PROVE  ~Upload!Kept(f)
      BY DEF Upload!NothingIsLeft
    <3>1. f \in Attached /\ at[f] # 0 /\ FileOK(f)
      BY <2>1 DEF Upload!Received, FTyped, Comes, Orderly
    <3>2. PICK i \in 1..Len(endpoint.steps) : endpoint.steps[i] = "name"
      BY <2>1 DEF FTyped, EndpointOK, With
    <3>3. disk[path[f]] # f
      BY <2>2, <3>1, <3>2 DEF FileOK, PassedName
    <3>4. store[path[f]] # f
      BY <3>1 DEF FileOK, SendsNamed
    <3> QED
      BY <3>3, <3>4 DEF Upload!Kept
  <2> QED
    BY <2>3, <2>4, <2>5
<1> QED
  BY <1>1, <1>2, <1>3, PTL DEF Upload!Spec

(* A file that a row names stays, and one that no row names goes:          *)
(* FilesStay, of what is composed in Documents.                            *)
THEOREM FilesAreKept == DocumentsSpec => []FilesKept
<1>1. DocumentsInit => Upload!Init
  BY DEF DocumentsInit
<1>2. [DocumentsNext]_<<which, vars, uploadVars>> => [Upload!Next]_(Upload!vars)
  <2>1. UNCHANGED uploadVars => UNCHANGED Upload!vars
    BY DEF uploadVars, Upload!vars
  <2> QED
    BY <2>1 DEF DocumentsNext
<1>3. UploadAssumption
  BY DocumentsAssumption
<1>4. Upload!NamedIsKept /\ Upload!NamedArrives /\ Upload!NothingIsLeft => FilesKept
  BY DEF FilesKept
<1> QED
  BY <1>1, <1>2, <1>3, <1>4, FilesStay, PTL DEF DocumentsSpec, Upload!Spec
=============================================================================
