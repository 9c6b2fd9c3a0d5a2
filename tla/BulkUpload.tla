------------------------------ MODULE BulkUpload ------------------------------
(***************************************************************************)
(* The bulk upload of biometric checks: src/src/modules/biometrics-job.    *)
(*                                                                         *)
(* A request puts a file on a Bull queue; the queue's processor hands it   *)
(* to a service that uploads one file at a time, a row per tick of a timer,*)
(* and keeps its state in the memory of the process: the file at work, the *)
(* files that wait, and the counters of the report.                        *)
(***************************************************************************)
EXTENDS Integers, Sequences, FiniteSets, SequencesExt

CONSTANTS
  Files,        \* uploaded files, one BiometricsJob each
  Rows,         \* Rows[f]: the number of records in file f
  Misfits,      \* files whose records do not fit their format
  Clients,      \* requests served concurrently
  Runs,         \* calls of bulkUploadProperty that may be in progress
  Slow,         \* may a record take longer to store than a tick?
  None,         \* no file
  MaxRequests,  \* bound on the requests
  MaxRestarts   \* bound on the restarts of the server

ASSUME BulkUploadAssumption ==
  /\ Rows \in [Files -> Nat]
  /\ Misfits \subseteq Files
  /\ Slow \in BOOLEAN
  /\ None \notin Files
  /\ MaxRequests \in Nat /\ MaxRestarts \in Nat

VARIABLES
  status,        \* status of each BiometricsJob
  stored,        \* stored[f]: the rows of f in BiometricsChecks
  report,        \* report[f]: the counters logged for f
  bull,          \* messages of the Bull queue, in order
  isProcessing, activeJob, jobQueue, success, failedRecords,  \* the service
  run,           \* the calls of bulkUploadProperty
  inserting,     \* rows on their way to the database
  stopping,      \* files whose stop is being written
  reporting,     \* files whose error is being reported
  client,        \* requests
  requests, restarts

db == <<status, stored, report>>
service == <<isProcessing, activeJob, jobQueue, success, failedRecords>>
tasks == <<run, inserting, stopping, reporting>>
world == <<client, requests, restarts>>
vars == <<db, bull, service, tasks, world>>

Status == {"new", "processing", "completed", "failed", "rollback", "force_stopped"}

Counters == [success: Nat, failed: Nat]

NoCount == [success |-> 0, failed |-> 0]

Message == {"start", "stop"} \X Files

\* by: who called, the Bull processor or the end of another upload;
\* left: rows not taken yet; end, log: what is about to be logged.
Run ==
  [pc: {"idle", "fetch", "read", "mark", "tick", "log"}, file: Files \cup {None},
   by: {"bull", "log"}, left: Nat, end: Status, log: Counters]

RunIdle ==
  [pc |-> "idle", file |-> None, by |-> "bull", left |-> 0, end |-> "new", log |-> NoCount]

Client ==
  [pc: {"idle", "add", "update", "stop", "delete", "rollback"}, file: Files \cup {None}]

ClientIdle == [pc |-> "idle", file |-> None]

TypeOK ==
  /\ status \in [Files -> Status]
  /\ stored \in [Files -> SUBSET (Nat \ {0})]
  /\ report \in [Files -> Counters]
  /\ bull \in Seq(Message)
  /\ isProcessing \in BOOLEAN
  /\ activeJob \in Files \cup {None}
  /\ jobQueue \in Seq(Files)
  /\ success \in Nat /\ failedRecords \in Nat
  /\ run \in [Runs -> Run]
  /\ inserting \subseteq Files \X (Nat \ {0})
  /\ stopping \subseteq Files /\ reporting \subseteq Files
  /\ client \in [Clients -> Client]
  /\ requests \in 0..MaxRequests /\ restarts \in 0..MaxRestarts

Active == {r \in Runs : run[r].pc # "idle"}

Init ==
  /\ status = [f \in Files |-> "new"]
  /\ stored = [f \in Files |-> {}]
  /\ report = [f \in Files |-> NoCount]
  /\ bull = <<>>
  /\ isProcessing = FALSE /\ activeJob = None /\ jobQueue = <<>>
  /\ success = 0 /\ failedRecords = 0
  /\ run = [r \in Runs |-> RunIdle]
  /\ inserting = {} /\ stopping = {} /\ reporting = {}
  /\ client = [c \in Clients |-> ClientIdle]
  /\ requests = 0 /\ restarts = 0

-----------------------------------------------------------------------------
(* biometrics-job.service: requests.                                       *)

ClientGoes(c, pc, f) == client' = [client EXCEPT ![c] = [pc |-> pc, file |-> f]]

\* A new request on file f, which goes on to pc.
Request(c, f, pc) ==
  /\ client[c].pc = "idle" /\ requests < MaxRequests
  /\ requests' = requests + 1
  /\ ClientGoes(c, pc, f)
  /\ UNCHANGED <<db, bull, service, tasks, restarts>>

(* bulkUploadBiometrics: neither completed nor under progress, ...         *)
ProcessRead(c, f) ==
  status[f] \notin {"completed", "processing"} /\ Request(c, f, "add")

(* ... the message, ...                                                    *)
ProcessAdd(c) ==
  /\ client[c].pc = "add"
  /\ bull' = Append(bull, <<"start", client[c].file>>)
  /\ ClientGoes(c, "update", client[c].file)
  /\ UNCHANGED <<db, service, tasks, requests, restarts>>

(* ... and the status                                                      *)
ProcessUpdate(c) ==
  /\ client[c].pc = "update"
  /\ status' = [status EXCEPT ![client[c].file] = "processing"]
  /\ client' = [client EXCEPT ![c] = ClientIdle]
  /\ UNCHANGED <<stored, report, bull, service, tasks, requests, restarts>>

(* stopUploadBiometrics                                                    *)
StopRead(c, f) == status[f] = "processing" /\ Request(c, f, "stop")

StopAdd(c) ==
  /\ client[c].pc = "stop"
  /\ bull' = Append(bull, <<"stop", client[c].file>>)
  /\ client' = [client EXCEPT ![c] = ClientIdle]
  /\ UNCHANGED <<db, service, tasks, requests, restarts>>

(* rollback: of a file completed or failed, its rows are deleted           *)
RollbackRead(c, f) == status[f] \in {"completed", "failed"} /\ Request(c, f, "delete")

RollbackDelete(c) ==
  /\ client[c].pc = "delete"
  /\ stored' = [stored EXCEPT ![client[c].file] = {}]
  /\ ClientGoes(c, "rollback", client[c].file)
  /\ UNCHANGED <<status, report, bull, service, tasks, requests, restarts>>

RollbackUpdate(c) ==
  /\ client[c].pc = "rollback"
  /\ status' = [status EXCEPT ![client[c].file] = "rollback"]
  /\ client' = [client EXCEPT ![c] = ClientIdle]
  /\ UNCHANGED <<stored, report, bull, service, tasks, requests, restarts>>

ClientGoesOn(c) ==
  ProcessAdd(c) \/ ProcessUpdate(c) \/ StopAdd(c) \/ RollbackDelete(c) \/ RollbackUpdate(c)

ClientStep(c) ==
  \/ \E f \in Files : ProcessRead(c, f) \/ StopRead(c, f) \/ RollbackRead(c, f)
  \/ ClientGoesOn(c)

-----------------------------------------------------------------------------
(* biometrics-job.processor: messages, in their order.                     *)

ResetData == success' = 0 /\ failedRecords' = 0

Calls(r, f, by) ==
  run' = [run EXCEPT ![r] = [RunIdle EXCEPT !.pc = "fetch", !.file = f, !.by = by]]

\* A mutated form of TakeStart: the flag is not looked at.
TakeStartAlways(r) ==
  /\ bull # <<>> /\ Head(bull)[1] = "start"
  /\ bull' = Tail(bull)
  /\ run[r].pc = "idle"
  /\ ResetData
  /\ isProcessing' = TRUE /\ activeJob' = Head(bull)[2]
  /\ Calls(r, Head(bull)[2], "bull")
  /\ UNCHANGED jobQueue
  /\ UNCHANGED <<db, inserting, stopping, reporting, world>>

(* handleBulkBiometricsUpload: the file starts, or waits                   *)
TakeStart(r) ==
  /\ bull # <<>> /\ Head(bull)[1] = "start"
  /\ bull' = Tail(bull)
  /\ \/ /\ ~isProcessing /\ run[r].pc = "idle"
        /\ ResetData
        /\ isProcessing' = TRUE /\ activeJob' = Head(bull)[2]
        /\ Calls(r, Head(bull)[2], "bull")
        /\ UNCHANGED jobQueue
     \/ /\ isProcessing
        /\ jobQueue' = Append(jobQueue, Head(bull)[2])
        /\ UNCHANGED <<isProcessing, activeJob, success, failedRecords, run>>
  /\ UNCHANGED <<db, inserting, stopping, reporting, world>>

Without(q, f) == SelectSeq(q, LAMBDA g : g # f)

(* clearJob: the active file is stopped by its next tick, ...              *)
TakeStop ==
  /\ bull # <<>> /\ Head(bull)[1] = "stop"
  /\ bull' = Tail(bull)
  /\ LET f == Head(bull)[2]
     IN  IF f = activeJob
           THEN /\ activeJob' = None
                /\ jobQueue' = Without(jobQueue, f)
                /\ UNCHANGED stopping
           ELSE /\ stopping' = stopping \cup {f}
                /\ UNCHANGED <<activeJob, jobQueue>>
  /\ UNCHANGED <<db, isProcessing, success, failedRecords, run, inserting, reporting, world>>

(* ... another one does not wait any longer                                *)
StopWrite(f) ==
  /\ f \in stopping
  /\ stopping' = stopping \ {f}
  /\ status' = [status EXCEPT ![f] = "failed"]
  /\ jobQueue' = Without(jobQueue, f)
  /\ UNCHANGED <<stored, report, bull, isProcessing, activeJob, success, failedRecords,
                 run, inserting, reporting, world>>

-----------------------------------------------------------------------------
(* bulk-upload-job.service: bulkUploadProperty.                            *)

Ends(r) == run' = [run EXCEPT ![r] = RunIdle]

\* The process ends, and starts again: its memory is lost.
MemoryLost ==
  /\ isProcessing' = FALSE /\ activeJob' = None /\ jobQueue' = <<>>
  /\ success' = 0 /\ failedRecords' = 0
  /\ run' = [r \in Runs |-> RunIdle]
  /\ inserting' = {} /\ stopping' = {} /\ reporting' = {}
  /\ client' = [c \in Clients |-> ClientIdle]

\* Bull delivers again the messages whose handlers had not come to an end.
Redelivered ==
  LET again == {r \in Active : run[r].by = "bull" /\ run[r].pc \in {"fetch", "read", "mark"}}
  IN  SetToSeq({<<"start", run[r].file>> : r \in again})
        \o SetToSeq({<<"stop", f>> : f \in stopping}) \o bull

(* An error: the processor reports it; nobody catches it in a file that    *)
(* was started when another one ended, and the process exits.              *)
Throw(r) ==
  \/ /\ run[r].by = "bull"
     /\ Ends(r)
     /\ reporting' = reporting \cup {run[r].file}
     /\ UNCHANGED <<db, bull, service, inserting, stopping, world>>
  \/ /\ run[r].by = "log"
     /\ MemoryLost
     /\ bull' = Redelivered
     /\ UNCHANGED <<db, requests, restarts>>

(* reportError                                                             *)
ReportError(f) ==
  /\ f \in reporting
  /\ reporting' = reporting \ {f}
  /\ status' = [status EXCEPT ![f] = "failed"]
  /\ UNCHANGED <<stored, report, bull, service, run, inserting, stopping, world>>

(* the job is read: a completed one is not uploaded again                  *)
Fetch(r) ==
  /\ run[r].pc = "fetch"
  /\ IF status[run[r].file] = "completed"
       THEN Throw(r)
       ELSE /\ run' = [run EXCEPT ![r].pc = "read"]
            /\ UNCHANGED <<db, bull, service, inserting, stopping, reporting, world>>

(* the file is converted and read, if it can be                            *)
Read(r) ==
  /\ run[r].pc = "read"
  /\ \/ Throw(r)
     \/ /\ run' = [run EXCEPT ![r].pc = "mark"]
        /\ UNCHANGED <<db, bull, service, inserting, stopping, reporting, world>>

\* Run r is about to log that its file has come to the end s.
Logs(r, s, bad) ==
  run' = [run EXCEPT ![r].pc = "log", ![r].end = s,
                     ![r].log = [success |-> success, failed |-> bad]]

\* The first two records tell whether the file fits its format.
Fits(f) == f \notin Misfits /\ Rows[f] >= 2

(* status processing; then the timer starts, or all the rows have failed;  *)
(* a file without rows is given up without a word                          *)
Mark(r) ==
  LET f == run[r].file
  IN  /\ run[r].pc = "mark"
      /\ status' = [status EXCEPT ![f] = "processing"]
      /\ \/ /\ Fits(f)
            /\ run' = [run EXCEPT ![r].pc = "tick", ![r].left = Rows[f]]
            /\ UNCHANGED failedRecords
         \/ /\ ~Fits(f)
            /\ failedRecords' = Rows[f]
            /\ IF Rows[f] > 0 THEN Logs(r, "failed", Rows[f]) ELSE Ends(r)
      /\ UNCHANGED <<stored, report, bull, isProcessing, activeJob, jobQueue, success,
                     inserting, stopping, reporting, world>>

\* A timer fires every three seconds.
Fires(r) == run[r].pc = "tick" /\ (Slow \/ inserting = {})

(* a row is taken from the file ...                                        *)
TakeRow(r) ==
  /\ Fires(r) /\ run[r].left > 0 /\ run[r].file = activeJob
  /\ inserting' = inserting \cup {<<run[r].file, run[r].left>>}
  /\ run' = [run EXCEPT ![r].left = @ - 1]
  /\ UNCHANGED <<db, bull, service, stopping, reporting, world>>

(* ... which has been stopped by now, ...                                  *)
ForceStop(r) ==
  /\ Fires(r) /\ run[r].left > 0 /\ run[r].file # activeJob
  /\ Logs(r, "force_stopped", failedRecords)
  /\ UNCHANGED <<db, bull, service, inserting, stopping, reporting, world>>

(* ... or has no more; one with nothing to report is given up              *)
Complete(r) ==
  /\ Fires(r) /\ run[r].left = 0
  /\ IF success + failedRecords > 0 THEN Logs(r, "completed", failedRecords) ELSE Ends(r)
  /\ UNCHANGED <<db, bull, service, inserting, stopping, reporting, world>>

(* the row is stored, or refused                                           *)
RowStored(f, n) ==
  /\ <<f, n>> \in inserting
  /\ inserting' = inserting \ {<<f, n>>}
  /\ stored' = [stored EXCEPT ![f] = @ \cup {n}]
  /\ success' = success + 1
  /\ UNCHANGED <<status, report, bull, isProcessing, activeJob, jobQueue, failedRecords,
                 run, stopping, reporting, world>>

\* A mutated form of RowFails: the failure is not counted.
RowFailsUnseen(f, n) ==
  /\ <<f, n>> \in inserting
  /\ inserting' = inserting \ {<<f, n>>}
  /\ UNCHANGED <<db, bull, service, run, stopping, reporting, world>>

RowFails(f, n) ==
  /\ <<f, n>> \in inserting
  /\ inserting' = inserting \ {<<f, n>>}
  /\ failedRecords' = failedRecords + 1
  /\ UNCHANGED <<db, bull, isProcessing, activeJob, jobQueue, success,
                 run, stopping, reporting, world>>

\* A mutated form of LogUpload: the files that wait are forgotten.
LogUploadOnly(r) ==
  /\ run[r].pc = "log"
  /\ status' = [status EXCEPT ![run[r].file] = run[r].end]
  /\ report' = [report EXCEPT ![run[r].file] = run[r].log]
  /\ ResetData
  /\ isProcessing' = FALSE
  /\ Ends(r)
  /\ UNCHANGED <<stored, bull, activeJob, jobQueue, inserting, stopping, reporting, world>>

(* logBulkPropertyUpload: the report, and the next file if one waits       *)
LogUpload(r) ==
  /\ run[r].pc = "log"
  /\ status' = [status EXCEPT ![run[r].file] = run[r].end]
  /\ report' = [report EXCEPT ![run[r].file] = run[r].log]
  /\ ResetData
  /\ \/ /\ jobQueue # <<>>
        /\ jobQueue' = Tail(jobQueue)
        /\ activeJob' = Head(jobQueue)
        /\ Calls(r, Head(jobQueue), "log")
        /\ UNCHANGED isProcessing
     \/ /\ jobQueue = <<>>
        /\ isProcessing' = FALSE
        /\ Ends(r)
        /\ UNCHANGED <<activeJob, jobQueue>>
  /\ UNCHANGED <<stored, bull, inserting, stopping, reporting, world>>

RunStep(r) ==
  \/ Fetch(r) \/ Read(r) \/ Mark(r)
  \/ TakeRow(r) \/ ForceStop(r) \/ Complete(r) \/ LogUpload(r)

WorkerStep ==
  \/ TakeStop
  \/ \E r \in Runs : TakeStart(r) \/ RunStep(r)
  \/ \E f \in Files : StopWrite(f) \/ ReportError(f)
  \/ \E f \in Files : \E n \in 1..Rows[f] : RowStored(f, n) \/ RowFails(f, n)

(* A restart                                                               *)
Restart ==
  /\ restarts < MaxRestarts
  /\ restarts' = restarts + 1
  /\ MemoryLost
  /\ bull' = Redelivered
  /\ UNCHANGED <<db, requests>>

Next == WorkerStep \/ Restart \/ \E c \in Clients : ClientStep(c)

Spec == Init /\ [][Next]_vars

(* Timers fire, messages are delivered and queries come to an end.         *)
Fairness == WF_vars(WorkerStep) /\ \A c \in Clients : WF_vars(ClientGoesOn(c))
FairSpec == Spec /\ Fairness

-----------------------------------------------------------------------------
(* Properties.                                                             *)

(* One file is uploaded at a time: the counters and activeJob are shared.  *)
OneUpload == \A r, s \in Active : r = s

(* The report of a completed file adds up: every record of the file is in  *)
(* it once, none is left out and none belongs to another file.             *)
ReportAddsUp ==
  \A f \in Files :
    status[f] = "completed" => report[f].success + report[f].failed = Rows[f]

Waits(f) == \E i \in DOMAIN jobQueue : jobQueue[i] = f

\* The worker is taken for busy, and is not.
Wedged == isProcessing /\ Active = {}

(* It is taken unless the file before it has failed with an error.         *)
TakenUnlessWedged == \A f \in Files : Waits(f) ~> ~Waits(f) \/ Wedged
=============================================================================
