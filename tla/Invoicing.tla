------------------------------ MODULE Invoicing ------------------------------
(***************************************************************************)
(* Billing the milestones of one project: src/src/modules/invoice, the     *)
(* milestone completion of src/src/modules/quotation, the project hold of  *)
(* src/src/modules/project, and the invoice half of the Xero webhook.      *)
(*                                                                         *)
(* No transactions are used, so a request is a sequence of database round  *)
(* trips, each one a step; any number of requests is under way, and each   *)
(* may fail at any of its round trips (MaxFailures bounds how often).      *)
(***************************************************************************)
EXTENDS Naturals, FiniteSets

CONSTANTS
  Invoices,
  NoInvoice,
  InXero,          \* the invoices of clients connected to Xero
  Milestones,
  RequirePayment,  \* the milestones whose completion puts the project on hold
  Handlers,        \* requests under way
  MaxFailures      \* bound on the number of failed requests

ASSUME InvoicingAssumption ==
  /\ NoInvoice \notin Invoices
  /\ InXero \subseteq Invoices
  /\ RequirePayment \subseteq Milestones
  /\ MaxFailures \in Nat

VARIABLES
  invoice,    \* invoice[i]: its status, "none" before it is created
  past,       \* past[i]: the statuses invoice i has had
  milestone,  \* milestone[m]: status, invoice, and whether it was completed
  onHold,     \* the project is on hold
  held,       \* milestones whose completion did put the project on hold
  handler,    \* the local variables of each request
  failures

vars == <<invoice, past, milestone, onHold, held, handler, failures>>

InvoiceStatus == {"generated", "sent", "paid", "canceled"}

MilestoneStatus ==
  {"not_completed", "completed",
   "invoice_generated", "invoice_sent", "invoice_paid", "invoice_canceled"}

\* What a request does next.  "paid_resume": as "paid", and then resume the
\* project; "sync_paid": as "sync", of an invoice that was paid already.
PC == {"idle", "edit", "link", "submit", "paid", "paid_resume", "canceled",
       "resume", "complete", "hold", "sync", "sync_paid"}

\* inv, to: the invoice and the status it is to get; ms: the milestones.
Handler ==
  [pc: PC, inv: Invoices \cup {NoInvoice}, to: InvoiceStatus,
   ms: SUBSET Milestones]

Idle == [pc |-> "idle", inv |-> NoInvoice, to |-> "generated", ms |-> {}]

TypeOK ==
  /\ invoice \in [Invoices -> InvoiceStatus \cup {"none"}]
  /\ past \in [Invoices -> SUBSET InvoiceStatus]
  /\ milestone \in [Milestones ->
       [status: MilestoneStatus, invoice: Invoices \cup {NoInvoice},
        completed: BOOLEAN]]
  /\ onHold \in BOOLEAN
  /\ held \subseteq Milestones
  /\ handler \in [Handlers -> Handler]
  /\ failures \in 0..MaxFailures

Init ==
  /\ invoice = [i \in Invoices |-> "none"]
  /\ past = [i \in Invoices |-> {}]
  /\ milestone = [m \in Milestones |->
       [status |-> "not_completed", invoice |-> NoInvoice, completed |-> FALSE]]
  /\ onHold = FALSE
  /\ held = {}
  /\ handler = [h \in Handlers |-> Idle]
  /\ failures = 0

-----------------------------------------------------------------------------

\* Invoice i is given status s.
SetStatus(i, s) ==
  /\ invoice' = [invoice EXCEPT ![i] = s]
  /\ past' = [past EXCEPT ![i] = @ \cup {s}]

\* The milestones of invoice i (updateMany where invoiceId is i) get status s.
MarkMilestones(i, s) ==
  milestone' = [m \in Milestones |->
    IF milestone[m].invoice = i
      THEN [status |-> s, invoice |-> i, completed |-> milestone[m].completed]
      ELSE milestone[m]]

\* Request h is at pc with the given local variables, or it is over.
GoTo(h, pc, i, s, ms) ==
  handler' = [handler EXCEPT ![h] =
    [pc |-> pc, inv |-> i, to |-> s, ms |-> ms]]

Return(h) == handler' = [handler EXCEPT ![h] = Idle]

(* create: the invoice and its items; its milestones are linked afterwards *)
Create(h, i, ms) ==
  /\ handler[h] = Idle
  /\ invoice[i] = "none"
  /\ SetStatus(i, "generated")
  /\ IF ms = {} THEN Return(h) ELSE GoTo(h, "link", i, "generated", ms)
  /\ UNCHANGED <<milestone, onHold, held, failures>>

\* A mutated form of LinkMilestones: the link is forgotten.
LinkStatusOnly(h) ==
  /\ handler[h].pc = "link"
  /\ milestone' = [m \in Milestones |->
       IF m \in handler[h].ms
         THEN [status |-> "invoice_generated", invoice |-> milestone[m].invoice,
               completed |-> milestone[m].completed]
         ELSE milestone[m]]
  /\ Return(h)
  /\ UNCHANGED <<invoice, past, onHold, held, failures>>

LinkMilestones(h) ==
  /\ handler[h].pc = "link"
  /\ milestone' = [m \in Milestones |->
       IF m \in handler[h].ms
         THEN [status |-> "invoice_generated", invoice |-> handler[h].inv,
               completed |-> milestone[m].completed]
         ELSE milestone[m]]
  /\ Return(h)
  /\ UNCHANGED <<invoice, past, onHold, held, failures>>

(* update: only a generated invoice may be edited, as read first           *)
EditRead(h, i, ms) ==
  /\ handler[h] = Idle
  /\ invoice[i] = "generated"
  /\ GoTo(h, "edit", i, "generated", ms)
  /\ UNCHANGED <<invoice, past, milestone, onHold, held, failures>>

EditWrite(h) ==
  /\ handler[h].pc = "edit"
  /\ IF handler[h].ms = {}
       THEN Return(h)
       ELSE GoTo(h, "link", handler[h].inv, "generated", handler[h].ms)
  /\ UNCHANGED <<invoice, past, milestone, onHold, held, failures>>

(* submitInvoice, also reached by the controller's markAsSent: the status  *)
(* of the invoice and of its milestones in one nested update, then mail    *)
SubmitRead(h, i) ==
  /\ handler[h] = Idle
  /\ invoice[i] = "generated"
  /\ GoTo(h, "submit", i, "sent", {})
  /\ UNCHANGED <<invoice, past, milestone, onHold, held, failures>>

SubmitWrite(h) ==
  /\ handler[h].pc = "submit"
  /\ SetStatus(handler[h].inv, "sent")
  /\ MarkMilestones(handler[h].inv, "invoice_sent")
  /\ Return(h)
  /\ UNCHANGED <<onHold, held, failures>>

\* A mutated form of ChangeStatus: a canceled invoice goes on as a paid one.
ChangeStatusMixed(h, i, s, resume) ==
  /\ handler[h] = Idle
  /\ invoice[i] # "none"
  /\ s \in {"sent", "paid", "canceled"}
  /\ SetStatus(i, s)
  /\ IF s = "sent"
       THEN Return(h)
       ELSE GoTo(h, IF resume /\ onHold THEN "paid_resume" ELSE "paid", i, s, {})
  /\ UNCHANGED <<milestone, onHold, held, failures>>

(* updateStatus: finance sets any status but generated, whatever the       *)
(* invoice's; its milestones follow when it is paid or canceled            *)
ChangeStatus(h, i, s, resume) ==
  /\ handler[h] = Idle
  /\ invoice[i] # "none"
  /\ s \in {"sent", "paid", "canceled"}
  /\ SetStatus(i, s)
  /\ CASE s = "sent"     -> Return(h)
       [] s = "canceled" -> GoTo(h, "canceled", i, s, {})
       [] s = "paid"     ->
            GoTo(h, IF resume /\ onHold THEN "paid_resume" ELSE "paid", i, s, {})
  /\ UNCHANGED <<milestone, onHold, held, failures>>

PaidMilestones(h) ==
  /\ handler[h].pc \in {"paid", "paid_resume"}
  /\ MarkMilestones(handler[h].inv, "invoice_paid")
  /\ IF handler[h].pc = "paid_resume"
       THEN GoTo(h, "resume", handler[h].inv, "paid", {})
       ELSE Return(h)
  /\ UNCHANGED <<invoice, past, onHold, held, failures>>

CanceledMilestones(h) ==
  /\ handler[h].pc = "canceled"
  /\ MarkMilestones(handler[h].inv, "invoice_canceled")
  /\ Return(h)
  /\ UNCHANGED <<invoice, past, onHold, held, failures>>

Resume(h) ==
  /\ handler[h].pc = "resume"
  /\ onHold' = FALSE
  /\ Return(h)
  /\ UNCHANGED <<invoice, past, milestone, held, failures>>

(* completeMilestone: only one that is not completed yet, as read first;   *)
(* one that requires payment then puts the project on hold                 *)
CompleteRead(h, m) ==
  /\ handler[h] = Idle
  /\ milestone[m].status = "not_completed"
  /\ GoTo(h, "complete", NoInvoice, "generated", {m})
  /\ UNCHANGED <<invoice, past, milestone, onHold, held, failures>>

\* A mutated form of CompleteWrite: no hold when the project is on hold.
CompleteSkipsHold(h, m) ==
  /\ handler[h].pc = "complete" /\ handler[h].ms = {m}
  /\ milestone' = [milestone EXCEPT ![m] =
       [status |-> "completed", invoice |-> @.invoice, completed |-> TRUE]]
  /\ IF m \in RequirePayment /\ ~ onHold
       THEN GoTo(h, "hold", NoInvoice, "generated", {m})
       ELSE Return(h)
  /\ UNCHANGED <<invoice, past, onHold, held, failures>>

CompleteWrite(h, m) ==
  /\ handler[h].pc = "complete" /\ handler[h].ms = {m}
  /\ milestone' = [milestone EXCEPT ![m] =
       [status |-> "completed", invoice |-> @.invoice, completed |-> TRUE]]
  /\ IF m \in RequirePayment
       THEN GoTo(h, "hold", NoInvoice, "generated", {m})
       ELSE Return(h)
  /\ UNCHANGED <<invoice, past, onHold, held, failures>>

HoldForPayment(h) ==
  /\ handler[h].pc = "hold"
  /\ onHold' = TRUE
  /\ held' = held \cup handler[h].ms
  /\ Return(h)
  /\ UNCHANGED <<invoice, past, milestone, failures>>

(* holdProject and unholdProject                                           *)
SetHold(b) ==
  /\ onHold' = b
  /\ UNCHANGED <<invoice, past, milestone, held, handler, failures>>

(* The Xero webhook: the invoice as Xero has it (a draft is skipped, every *)
(* status the mapping does not know is generated) replaces the local one,  *)
(* or is created; a project on hold resumes if it has just been paid       *)
SyncRead(h, i, s) ==
  /\ handler[h] = Idle
  /\ GoTo(h, IF invoice[i] = "paid" THEN "sync_paid" ELSE "sync", i, s, {})
  /\ UNCHANGED <<invoice, past, milestone, onHold, held, failures>>

SyncWrite(h) ==
  /\ handler[h].pc \in {"sync", "sync_paid"}
  /\ SetStatus(handler[h].inv, handler[h].to)
  /\ IF handler[h].to = "paid" /\ onHold /\ handler[h].pc = "sync"
       THEN GoTo(h, "resume", handler[h].inv, "paid", {})
       ELSE Return(h)
  /\ UNCHANGED <<milestone, onHold, held, failures>>

\* A round trip of the request fails, and the request with it.
Fail(h) ==
  /\ handler[h] # Idle
  /\ failures < MaxFailures
  /\ failures' = failures + 1
  /\ Return(h)
  /\ UNCHANGED <<invoice, past, milestone, onHold, held>>

InvoiceStep(h) ==
  \/ \E i \in Invoices, ms \in SUBSET Milestones :
       Create(h, i, ms) \/ EditRead(h, i, ms)
  \/ \E i \in Invoices : SubmitRead(h, i)
  \/ \E i \in Invoices, s \in InvoiceStatus, r \in BOOLEAN : ChangeStatus(h, i, s, r)
  \/ LinkMilestones(h) \/ EditWrite(h) \/ SubmitWrite(h)
  \/ PaidMilestones(h) \/ CanceledMilestones(h) \/ Resume(h)

MilestoneStep(h) ==
  \/ \E m \in Milestones : CompleteRead(h, m) \/ CompleteWrite(h, m)
  \/ HoldForPayment(h)

XeroStep(h) ==
  \/ \E i \in InXero, s \in InvoiceStatus : SyncRead(h, i, s)
  \/ SyncWrite(h)

Next ==
  \/ \E h \in Handlers : InvoiceStep(h) \/ MilestoneStep(h) \/ XeroStep(h) \/ Fail(h)
  \/ \E b \in BOOLEAN : SetHold(b)

Spec == Init /\ [][Next]_vars

-----------------------------------------------------------------------------
(* Properties that hold.                                                   *)

(* A milestone is billed, sent, paid or canceled only on the strength of   *)
(* the invoice it names, which has had that status: however requests       *)
(* interleave, fail, or re-bill the milestone, no milestone is marked paid *)
(* because of an invoice that never was.                                   *)
Justifies(m) ==
  CASE milestone[m].status = "invoice_generated" -> {"generated"}
    [] milestone[m].status = "invoice_sent"      -> {"sent"}
    [] milestone[m].status = "invoice_paid"      -> {"paid"}
    [] milestone[m].status = "invoice_canceled"  -> {"canceled"}
    [] OTHER -> {}

MilestoneBackedByInvoice ==
  \A m \in Milestones :
    milestone[m].status \notin {"not_completed", "completed"} =>
      /\ milestone[m].invoice # NoInvoice
      /\ Justifies(m) \subseteq past[milestone[m].invoice]

(* Until a query fails, completing a milestone that requires payment puts  *)
(* the project on hold ("Requires clearance from Finance (AUTO-HOLD)",     *)
(* quotation.service.ts 1205), or a request is about to. A failure in      *)
(* between leaves the project as it is: the retry finds the milestone      *)
(* completed and returns early.                                            *)
HoldComes ==
  \A m \in RequirePayment :
    milestone[m].completed =>
      \/ m \in held
      \/ \E h \in Handlers : handler[h].pc = "hold" /\ m \in handler[h].ms

CompletionHolds == failures = 0 => HoldComes

-----------------------------------------------------------------------------
(* The inductive invariant of the proofs: what a request is about to write *)
(* is justified already.                                                   *)
RequestJustified(h) ==
  /\ handler[h].pc \notin {"idle", "complete", "hold"} => handler[h].inv \in Invoices
  /\ handler[h].pc \in {"edit", "link"} => "generated" \in past[handler[h].inv]
  /\ handler[h].pc \in {"paid", "paid_resume"} => "paid" \in past[handler[h].inv]
  /\ handler[h].pc = "canceled" => "canceled" \in past[handler[h].inv]

HandlerJustified == \A h \in Handlers : RequestJustified(h)

HadStatus ==
  \A i \in Invoices : invoice[i] = "none" \/ invoice[i] \in past[i]

IInv ==
  /\ TypeOK
  /\ MilestoneBackedByInvoice
  /\ HandlerJustified
  /\ HadStatus
=============================================================================
