------------------------------ MODULE XeroInvoice ------------------------------
(***************************************************************************)
(* One invoice and its copy in Xero: the jobs that write it to Xero, and   *)
(* the webhooks by which Xero says that it has changed there               *)
(* (src/src/modules/xero-accounting/xero-accounting.service.ts).           *)
(*                                                                         *)
(* An event carries the invoice's number only; its handler asks Xero for   *)
(* the present state, and writes that over the local one. Events of what   *)
(* upsertInvoice has just written are ignored for eight seconds, whatever  *)
(* else has happened to the invoice.                                       *)
(*                                                                         *)
(* Sending, payment and cancellation by a user are single steps here;      *)
(* Invoicing has their steps. The project and the government fees are      *)
(* there as far as the synchronisation changes them.                       *)
(***************************************************************************)
EXTENDS Integers, Sequences

CONSTANTS
  Workers,      \* jobs at once
  Hooks,        \* events handled at once
  MaxActions,   \* bound on what users, and accountants in Xero, do
  MaxFailures   \* bound on failures, and on events delivered again

Status == {"generated", "sent", "paid", "canceled"}
XeroStatus == {"DRAFT", "SUBMITTED", "AUTHORISED", "PAID", "VOIDED", "DELETED"}

VARIABLES
  status,   \* of the invoice
  ref,      \* has it the reference Xero gave it?
  onHold,   \* is its project on hold?
  fees,     \* its government fees: none, open, paid or canceled
  xero,     \* its status in Xero; "none": it is not there
  queue,    \* what its jobs are to do: "sync", or the status to write
  job,
  recent,   \* is it on the list of what was just written to Xero (allProcessed)?
  events,   \* the events that are on their way
  hook,
  everPaid, \* history: has it been paid in Xero?
  resumed,  \* history: has the synchronisation resumed its project?
  missed,   \* history: is there a reason why the last payment in Xero may not have arrived?
  actions, failures

vars == <<status, ref, onHold, fees, xero, queue, job, recent, events, hook, everPaid, resumed,
          missed, actions, failures>>

Message == {"sync"} \cup Status
NoJob == [m |-> "none", to |-> "none", new |-> FALSE]
NoHook == [step |-> "idle", seen |-> "none", before |-> "none", open |-> FALSE]

Job == [m: Message \cup {"none"}, to: XeroStatus \cup {"none"}, new: BOOLEAN]

\* seen: what Xero answered. before, open: the invoice as it was read, and had it open fees?
Hook ==
  [step: {"idle", "ask", "read", "write", "resume", "fees"}, seen: XeroStatus \cup {"none"},
   before: Status \cup {"none"}, open: BOOLEAN]

TypeOK ==
  /\ status \in Status /\ ref \in BOOLEAN /\ onHold \in BOOLEAN
  /\ fees \in {"none", "open", "paid", "canceled"}
  /\ xero \in XeroStatus \cup {"none"}
  /\ queue \in Seq(Message)
  /\ job \in [Workers -> Job]
  /\ recent \in BOOLEAN /\ events \in Nat
  /\ hook \in [Hooks -> Hook]
  /\ everPaid \in BOOLEAN /\ resumed \in BOOLEAN /\ missed \in BOOLEAN
  /\ actions \in Nat /\ failures \in Nat

\* The invoice has been created, and its job put on the queue.
Init ==
  /\ status = "generated" /\ ref = FALSE /\ xero = "none"
  /\ onHold \in BOOLEAN /\ fees \in {"none", "open"}
  /\ queue = <<"sync">> /\ job = [w \in Workers |-> NoJob]
  /\ recent = FALSE /\ events = 0 /\ hook = [k \in Hooks |-> NoHook]
  /\ everPaid = FALSE /\ resumed = FALSE /\ missed = FALSE
  /\ actions = 0 /\ failures = 0

matchLocalInvoiceStatusToXero(s) ==
  CASE s = "canceled" -> "VOIDED" [] s = "sent" -> "SUBMITTED" [] s = "paid" -> "AUTHORISED"
    [] OTHER -> "DRAFT"

\* A mutated form of matchXeroInvoiceStatusToLocalInvoiceStatus: what Xero has authorised is taken as paid.
AuthorisedIsPaid(s) ==
  CASE s \in {"VOIDED", "DELETED"} -> "canceled" [] s = "SUBMITTED" -> "sent"
    [] s \in {"AUTHORISED", "PAID"} -> "paid" [] OTHER -> "generated"

matchXeroInvoiceStatusToLocalInvoiceStatus(s) ==
  CASE s \in {"VOIDED", "DELETED"} -> "canceled" [] s \in {"SUBMITTED", "AUTHORISED"} -> "sent"
    [] s = "PAID" -> "paid" [] OTHER -> "generated"

Act == actions < MaxActions /\ actions' = actions + 1

-----------------------------------------------------------------------------
(* Users of the portal.                                                    *)

\* submitInvoice and markAsSent: the message holds the invoice as it was before.
Send ==
  /\ status = "generated" /\ Act
  /\ status' = "sent"
  /\ queue' = Append(queue, status)
  /\ UNCHANGED <<ref, onHold, fees, xero, job, recent, events, hook, everPaid, resumed, missed,
                 failures>>

\* updateStatus: from any status. The user may have the project resumed.
SetStatus(to) ==
  /\ to \in {"paid", "canceled"} /\ Act
  /\ status' = to
  /\ \E resumeProject \in (IF to = "paid" THEN BOOLEAN ELSE {FALSE}) :
       onHold' = (onHold /\ ~resumeProject)
  /\ queue' = Append(queue, to)
  /\ missed' = TRUE
  /\ UNCHANGED <<ref, fees, xero, job, recent, events, hook, everPaid, resumed, failures>>

\* A milestone was completed, or a user holds the project.
HoldProject ==
  /\ ~onHold /\ Act
  /\ onHold' = TRUE
  /\ UNCHANGED <<status, ref, fees, xero, queue, job, recent, events, hook, everPaid, resumed,
                 missed, failures>>

-----------------------------------------------------------------------------
(* Xero, as far as the code relies on it.                                  *)

\* The changes of a status Xero accepts, by its users and by its interface.
Accepts(from, to) ==
  \/ from = to /\ from \in {"DRAFT", "SUBMITTED", "AUTHORISED"}
  \/ from = "none" /\ to \in {"DRAFT", "SUBMITTED", "AUTHORISED"}
  \/ from = "DRAFT" /\ to \in {"SUBMITTED", "AUTHORISED", "DELETED"}
  \/ from = "SUBMITTED" /\ to \in {"DRAFT", "AUTHORISED", "DELETED"}
  \/ from = "AUTHORISED" /\ to = "VOIDED"

\* An accountant changes the invoice in Xero, or a payment is recorded there.
ChangedInXero(to) ==
  /\ xero # "none" /\ to # xero
  /\ Accepts(xero, to) \/ (xero = "AUTHORISED" /\ to = "PAID")
  /\ Act
  /\ xero' = to /\ events' = events + 1
  /\ everPaid' = (everPaid \/ to = "PAID")
  /\ missed' = IF to = "PAID" THEN FALSE ELSE missed
  /\ UNCHANGED <<status, ref, onHold, fees, queue, job, recent, hook, resumed, failures>>

\* Xero delivers an event again.
Redeliver ==
  /\ events > 0 /\ failures < MaxFailures
  /\ events' = events + 1 /\ failures' = failures + 1
  /\ UNCHANGED <<status, ref, onHold, fees, xero, queue, job, recent, hook, everPaid, resumed,
                 missed, actions>>

-----------------------------------------------------------------------------
(* The jobs.                                                               *)

\* The status updateInvoiceStatus writes is the message's, if the invoice has its reference;
\* otherwise, and to synchronise, upsertInvoice reads the invoice again.
Take(w) ==
  /\ job[w] = NoJob /\ queue # <<>>
  /\ LET m == Head(queue)
         s == IF ref /\ m # "sync" THEN m ELSE status
     IN  job' = [job EXCEPT ![w] = [m |-> m, to |-> matchLocalInvoiceStatusToXero(s), new |-> ~ref]]
  /\ queue' = Tail(queue)
  /\ UNCHANGED <<status, ref, onHold, fees, xero, recent, events, hook, everPaid, resumed, missed,
                 actions, failures>>

\* What Xero accepts is written, and it sends an event; upsertInvoice puts it on the list of those
\* to ignore, updateInvoiceStatus does not.
Push(w) ==
  /\ job[w] # NoJob /\ job[w].to # "none"
  /\ LET upsert == job[w].m = "sync" \/ job[w].new
         done == [job EXCEPT ![w] = IF @.new THEN [@ EXCEPT !.to = "none"] ELSE NoJob]
     IN  IF Accepts(xero, job[w].to)
         THEN /\ xero' = job[w].to /\ events' = events + 1
              /\ recent' = (recent \/ upsert) /\ job' = done
         ELSE /\ job' = [job EXCEPT ![w] = NoJob]
              /\ UNCHANGED <<xero, events, recent>>
  /\ UNCHANGED <<status, ref, onHold, fees, queue, hook, everPaid, resumed, missed, actions,
                 failures>>

Store(w) ==
  /\ job[w] # NoJob /\ job[w].to = "none"
  /\ ref' = TRUE
  /\ job' = [job EXCEPT ![w] = NoJob]
  /\ UNCHANGED <<status, onHold, fees, xero, queue, recent, events, hook, everPaid, resumed,
                 missed, actions, failures>>

\* resetProcessedData: after eight seconds, and also when the time of another invoice is up.
Forget ==
  /\ recent /\ recent' = FALSE
  /\ UNCHANGED <<status, ref, onHold, fees, xero, queue, job, events, hook, everPaid, resumed,
                 missed, actions, failures>>

-----------------------------------------------------------------------------
(* The webhook: handleWebhook, syncLocalInvoice, prepareInvoiceFromXeroInvoice. *)

Receive(k) ==
  /\ events > 0 /\ hook[k].step = "idle"
  /\ events' = events - 1
  /\ IF recent THEN hook' = hook /\ missed' = TRUE
     ELSE hook' = [hook EXCEPT ![k] = [NoHook EXCEPT !.step = "ask"]] /\ missed' = missed
  /\ UNCHANGED <<status, ref, onHold, fees, xero, queue, job, recent, everPaid, resumed, actions,
                 failures>>

\* A mutated form of Ask: what is paid is left as well, for nothing can change in it any more.
AskIfOpen(k) ==
  /\ hook[k].step = "ask"
  /\ hook' = [hook EXCEPT ![k] = IF xero \in {"DRAFT", "DELETED", "PAID"} THEN NoHook
                                 ELSE [@ EXCEPT !.step = "read", !.seen = xero]]
  /\ UNCHANGED <<status, ref, onHold, fees, xero, queue, job, recent, events, everPaid, resumed,
                 missed, actions, failures>>

\* Asked for the invoice, Xero answers with its status. Drafts, and what was deleted, are left.
Ask(k) ==
  /\ hook[k].step = "ask"
  /\ hook' = [hook EXCEPT ![k] = IF xero \in {"DRAFT", "DELETED"} THEN NoHook
                                 ELSE [@ EXCEPT !.step = "read", !.seen = xero]]
  /\ UNCHANGED <<status, ref, onHold, fees, xero, queue, job, recent, events, everPaid, resumed,
                 missed, actions, failures>>

\* existingInvoice, with the number of its fees that are open.
Read(k) ==
  /\ hook[k].step = "read"
  /\ hook' = [hook EXCEPT ![k] = [@ EXCEPT !.step = "write", !.before = status,
                                           !.open = fees = "open"]]
  /\ UNCHANGED <<status, ref, onHold, fees, xero, queue, job, recent, events, everPaid, resumed,
                 missed, actions, failures>>

After(k) == matchXeroInvoiceStatusToLocalInvoiceStatus(hook[k].seen)

\* The local invoice becomes what Xero said; the project is read along with it.
WriteInvoice(k) ==
  /\ hook[k].step = "write"
  /\ status' = After(k) /\ ref' = TRUE
  /\ hook' = [hook EXCEPT ![k].step =
       IF onHold /\ After(k) = "paid" /\ hook[k].before # "paid" THEN "resume" ELSE "fees"]
  /\ missed' = (missed \/ hook[k].seen # xero)
  /\ UNCHANGED <<onHold, fees, xero, queue, job, recent, events, everPaid, resumed, actions,
                 failures>>

Resume(k) ==
  /\ hook[k].step = "resume"
  /\ onHold' = FALSE /\ resumed' = TRUE
  /\ hook' = [hook EXCEPT ![k].step = "fees"]
  /\ UNCHANGED <<status, ref, fees, xero, queue, job, recent, events, everPaid, missed, actions,
                 failures>>

SettleFees(k) ==
  /\ hook[k].step = "fees"
  /\ fees' = IF hook[k].open /\ After(k) \in {"paid", "canceled"} /\ fees = "open"
             THEN After(k) ELSE fees
  /\ hook' = [hook EXCEPT ![k] = NoHook]
  /\ UNCHANGED <<status, ref, onHold, xero, queue, job, recent, events, everPaid, resumed, missed,
                 actions, failures>>

-----------------------------------------------------------------------------
(* Failures.                                                               *)

\* There is no session with Xero, or a query fails: Xero has its answer, and does not repeat.
HookFails(k) ==
  /\ hook[k].step # "idle" /\ failures < MaxFailures
  /\ failures' = failures + 1
  /\ hook' = [hook EXCEPT ![k] = NoHook] /\ missed' = TRUE
  /\ UNCHANGED <<status, ref, onHold, fees, xero, queue, job, recent, events, everPaid, resumed,
                 actions>>

JobFails(w) ==
  /\ job[w] # NoJob /\ failures < MaxFailures
  /\ failures' = failures + 1
  /\ job' = [job EXCEPT ![w] = NoJob]
  /\ UNCHANGED <<status, ref, onHold, fees, xero, queue, recent, events, hook, everPaid, resumed,
                 missed, actions>>

Next ==
  \/ Send \/ HoldProject \/ Redeliver \/ Forget
  \/ \E to \in {"paid", "canceled"} : SetStatus(to)
  \/ \E to \in XeroStatus : ChangedInXero(to)
  \/ \E w \in Workers : Take(w) \/ Push(w) \/ Store(w) \/ JobFails(w)
  \/ \E k \in Hooks :
       \/ Receive(k) \/ Ask(k) \/ Read(k) \/ WriteInvoice(k) \/ Resume(k) \/ SettleFees(k)
       \/ HookFails(k)

Spec == Init /\ [][Next]_vars

-----------------------------------------------------------------------------
(* Properties.                                                             *)

Quiet ==
  /\ queue = <<>> /\ events = 0
  /\ \A w \in Workers : job[w] = NoJob
  /\ \A k \in Hooks : hook[k].step = "idle"

(* The synchronisation resumes a project only when the invoice has been    *)
(* paid in Xero, whatever the order of events, jobs and handlers.          *)
ResumedWasPaid == resumed => everPaid

(* When nothing is under way any more, a payment in Xero has arrived: the  *)
(* invoice is paid here and none of its fees is open. It may be missed     *)
(* when its event came while the invoice was on the list of those to       *)
(* ignore, when its handler failed, when an older answer of Xero was       *)
(* written after a newer one, or when a user has set the status since.     *)
PaymentArrives ==
  (Quiet /\ xero = "PAID" /\ ~missed) => (status = "paid" /\ fees # "open")

(* "Sync Invoice Status With Xero" (invoice.service.ts:532): an invoice    *)
(* that was sent is no draft in Xero when nothing is left to do.           *)
SentIsSubmitted == (Quiet /\ status = "sent") => xero # "DRAFT"
=============================================================================
