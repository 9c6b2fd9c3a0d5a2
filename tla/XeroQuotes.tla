------------------------------ MODULE XeroQuotes ------------------------------
(***************************************************************************)
(* The quotations of a lead and its project in Xero: the jobs that take    *)
(* the messages Quotation puts on the queue `xero`                         *)
(* (xero-accounting.processor.ts, xero-accounting.service.ts).             *)
(*                                                                         *)
(* A job reads its row, writes to Xero, and stores the reference Xero gave *)
(* the row. Each kind of message has a process of its own, so that jobs    *)
(* overlap. A job that fails is logged and not repeated; one that was      *)
(* under way when the server stopped is put on the queue again by Bull.    *)
(***************************************************************************)
EXTENDS Quotation, SequencesExt

CONSTANT Workers

Docs == Quotations \cup {"project"}

VARIABLES
  xero,     \* the status of each quotation in Xero; "none": it is not there
  ref,      \* the rows that hold a reference to Xero
  job,
  created,  \* history: how often the project was created in Xero
  jobRaced, \* history: the rows of which two jobs were at work at once
  jobBroken \* history: the rows of which a job failed

xeroVars == <<xero, ref, job, created, jobRaced, jobBroken>>
vars == <<localVars, xeroVars>>

XeroStatus == {"DRAFT", "SENT", "ACCEPTED", "DECLINED"}

NoJob == [doc |-> None, step |-> "idle", s |-> "none", new |-> FALSE, m |-> None]

TypeOK ==
  /\ LocalTypeOK
  /\ xero \in [Quotations -> XeroStatus \cup {"none"}]
  /\ ref \subseteq Docs
  /\ job \in [Workers -> [doc: Docs \cup {None}, step: {"idle", "push", "store"},
                          s: XeroStatus \cup {"none"}, new: BOOLEAN,
                          m: Message \cup {None}]]
  /\ created \in Nat /\ jobRaced \subseteq Docs /\ jobBroken \subseteq Docs

Init ==
  /\ LocalInit
  /\ xero = [q \in Quotations |-> "none"]
  /\ ref = {} /\ job = [w \in Workers |-> NoJob]
  /\ created = 0 /\ jobRaced = {} /\ jobBroken = {}

matchLocalQuoteStatusToXero(s) ==
  CASE s \in {"rejected", "revised"} -> "DECLINED"
    [] s = "confirmed" -> "ACCEPTED"
    [] s = "submitted" -> "SENT"
    [] OTHER -> "DRAFT"

AtWork == {job[w].doc : w \in Workers} \ {None}

Doc(m) == IF m.kind = "project" THEN "project" ELSE m.q

\* The status a job writes: updateQuotationStatus takes it from the message if the row has its
\* reference; without one, and for a synchronisation, upsertQuotation reads the row again.
StatusFor(m) ==
  IF m.kind = "project" THEN "none"
  ELSE IF m.kind = "status" /\ m.q \in ref THEN matchLocalQuoteStatusToXero(m.s)
  ELSE matchLocalQuoteStatusToXero(status[m.q])

Take(w) ==
  /\ job[w].step = "idle" /\ queue # <<>>
  /\ LET m == Head(queue) IN
       /\ job' = [job EXCEPT ![w] =
            [doc |-> Doc(m), step |-> "push", s |-> StatusFor(m), new |-> Doc(m) \notin ref,
             m |-> m]]
       /\ jobRaced' = IF \E v \in Workers : job[v].doc = Doc(m) THEN jobRaced \cup {Doc(m)}
                      ELSE jobRaced
  /\ queue' = Tail(queue)
  /\ UNCHANGED <<status, lead, project, handler, replaces, raced, broken,
                 closed, actions, failures, xero, ref, created, jobBroken>>

\* A quotation is found in Xero by its number, a project only by its reference.
Push(w) ==
  /\ job[w].step = "push"
  /\ IF job[w].doc = "project"
     THEN created' = (IF job[w].new THEN created + 1 ELSE created) /\ xero' = xero
     ELSE xero' = [xero EXCEPT ![job[w].doc] = job[w].s] /\ created' = created
  /\ job' = [job EXCEPT ![w] =
       IF job[w].new THEN [job[w] EXCEPT !.step = "store"] ELSE NoJob]
  /\ UNCHANGED <<localVars, ref, jobRaced, jobBroken>>

\* A mutated form of Store: the reference is not stored.
StoreNothing(w) ==
  /\ job[w].step = "store"
  /\ job' = [job EXCEPT ![w] = NoJob]
  /\ UNCHANGED <<localVars, xero, ref, created, jobRaced, jobBroken>>

Store(w) ==
  /\ job[w].step = "store"
  /\ ref' = ref \cup {job[w].doc}
  /\ job' = [job EXCEPT ![w] = NoJob]
  /\ UNCHANGED <<localVars, xero, created, jobRaced, jobBroken>>

\* There is no session with Xero, or a call is refused: the job ends.
JobFails(w) ==
  /\ job[w].step # "idle" /\ failures < MaxFailures
  /\ failures' = failures + 1
  /\ jobBroken' = jobBroken \cup {job[w].doc}
  /\ job' = [job EXCEPT ![w] = NoJob]
  /\ UNCHANGED <<status, lead, project, queue, handler, replaces, raced,
                 broken, closed, actions, xero, ref, created, jobRaced>>

\* The server stops: requests and jobs are gone, the queue is not, and the jobs come back to it.
Restart ==
  /\ failures < MaxFailures /\ failures' = failures + 1
  /\ \E w \in Workers : job[w].step # "idle"
  /\ handler' = [h \in Handlers |-> Idle]
  /\ broken' = broken \cup Busy
  /\ jobBroken' = jobBroken \cup AtWork
  /\ \E ws \in SetToSeqs({w \in Workers : job[w].step # "idle"}) :
       queue' = [i \in DOMAIN ws |-> job[ws[i]].m] \o queue
  /\ job' = [w \in Workers |-> NoJob]
  /\ UNCHANGED <<status, lead, project, replaces, raced, closed, actions,
                 xero, ref, created, jobRaced>>

Next ==
  \/ LocalNext /\ UNCHANGED xeroVars
  \/ \E w \in Workers : Take(w) \/ Push(w) \/ Store(w) \/ JobFails(w)
  \/ Restart

Spec == Init /\ [][Next]_vars

-----------------------------------------------------------------------------
(* Properties.                                                             *)

(* When nothing is left to do, Xero shows the status each quotation has:   *)
(* every change of a status has to send its message after the write, with  *)
(* what was written. Excepted is what the code gives no guarantee for:     *)
(* two requests or two jobs on a quotation at once, a failure, a draft,    *)
(* of which Xero is not told, and the closing of a lead, which does not    *)
(* tell Xero either.                                                       *)
QuotesAgree ==
  (queue = <<>> /\ AtWork = {}) =>
    \A q \in Quotations \ (Busy \cup raced \cup broken \cup jobRaced \cup jobBroken \cup closed) :
      status[q] \in {"none", "draft"} \/ xero[q] = matchLocalQuoteStatusToXero(status[q])

(* A project is created in Xero once: every later job finds the reference, *)
(* unless two jobs were at work on the project at once, or one failed, or  *)
(* the server stopped, between the creation and the storing of it          *)
(* (upsertProject).                                                        *)
ProjectCreatedOnce == "project" \notin jobRaced \cup jobBroken => created <= 1
=============================================================================
