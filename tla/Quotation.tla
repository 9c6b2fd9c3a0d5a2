------------------------------- MODULE Quotation -------------------------------
(***************************************************************************)
(* The quotations of one lead: src/src/modules/quotation, and the status   *)
(* of the lead in src/src/modules/leads.                                   *)
(*                                                                         *)
(* A request reads a quotation, checks it, and writes it, the lead, the    *)
(* project and a message for Xero one after the other, without a           *)
(* transaction: `todo` is what it has still to write. Any of these steps   *)
(* may fail, or the server stop, and then the rest is lost.                *)
(***************************************************************************)
EXTENDS Integers, Sequences, FiniteSets

CONSTANTS
  Quotations,   \* the rows a request may create
  Handlers,     \* requests to the server in progress at once
  None,
  MaxActions,   \* bound on the requests to the server
  MaxFailures   \* bound on the steps that fail

Status == {"draft", "created", "submitted", "confirmed", "rejected", "revised"}
LeadStatus == {"new", "in_progress", "confirmed", "closed"}

VARIABLES
  status,    \* of each quotation; "none": not created yet
  lead,      \* status of the lead; closed: canceled, invalid, spam or unqualified
  project,   \* of the lead: none, live, deleted (isDeleted), or gone: let go of by the lead
  queue,     \* the messages for Xero
  handler,
  replaces,  \* history: the quotation each one was created as a revision of
  raced,     \* history: what two requests were at work on at once
  broken,    \* history: what a request was at work on when it failed
  closed,    \* history: the quotations rejected with their lead
  actions, failures

localVars ==
  <<status, lead, project, queue, handler, replaces, raced, broken,
    closed, actions, failures>>

Write == [w: {"insert", "revise", "set", "lead", "tell", "sync", "syncProject"},
          q: Quotations \cup {None}, s: Status \cup {"none"}]

\* works: the quotations it is at work on. prev: what the new one replaces.
Idle == [todo |-> <<>>, works |-> {}, prev |-> None]

Message ==
  [kind: {"sync", "status"}, q: Quotations, s: Status \cup {"none"}]
  \cup [kind: {"project"}]

LocalTypeOK ==
  /\ status \in [Quotations -> Status \cup {"none"}]
  /\ lead \in LeadStatus /\ project \in {"none", "live", "deleted", "gone"}
  /\ \A m \in 1..Len(queue) : queue[m] \in Message
  /\ \A h \in Handlers :
       /\ \A i \in 1..Len(handler[h].todo) : handler[h].todo[i] \in Write
       /\ handler[h].works \subseteq Quotations
  /\ replaces \in [Quotations -> Quotations \cup {None}]
  /\ raced \subseteq Quotations /\ broken \subseteq Quotations /\ closed \subseteq Quotations
  /\ actions \in 0..MaxActions /\ failures \in 0..MaxFailures

LocalInit ==
  /\ status = [q \in Quotations |-> "none"]
  /\ lead = "new" /\ project \in {"none", "live"}
  /\ queue = <<>>
  /\ handler = [h \in Handlers |-> Idle]
  /\ replaces = [q \in Quotations |-> None]
  /\ raced = {} /\ broken = {} /\ closed = {}
  /\ actions = 0 /\ failures = 0

Exists(q) == status[q] # "none"

Busy == UNION {handler[h].works : h \in Handlers}

W(w, q, s) == [w |-> w, q |-> q, s |-> s]

\* h has read what it needs and goes on to write todo.
Begin(h, todo, works, prev) ==
  /\ handler[h].todo = <<>> /\ actions < MaxActions
  /\ actions' = actions + 1
  /\ handler' = [handler EXCEPT ![h] =
       [todo |-> todo, works |-> works, prev |-> prev]]
  /\ raced' = raced \cup (works \cap UNION {handler[g].works : g \in Handlers})

-----------------------------------------------------------------------------
(* The requests.                                                           *)

\* A mutated form of Create: the predecessor is marked before the new quotation is created.
CreateRevisesFirst(h, q, prev) ==
  /\ ~Exists(q) /\ \A g \in Handlers : q \notin handler[g].works
  /\ prev # None => Exists(prev)
  /\ Begin(h,
       IF prev = None THEN <<W("insert", q, "created"), W("sync", q, "none")>>
       ELSE <<W("revise", prev, "revised"), W("tell", prev, "revised"),
              W("insert", q, "created"), W("sync", q, "none")>>,
       {q, prev} \ {None}, prev)
  /\ UNCHANGED <<status, lead, project, queue, replaces, broken, closed, failures>>

\* The new quotation first, then its predecessor, whatever status that has.
Create(h, q, prev) ==
  /\ ~Exists(q) /\ \A g \in Handlers : q \notin handler[g].works
  /\ prev # None => Exists(prev)
  /\ Begin(h,
       IF prev = None THEN <<W("insert", q, "created"), W("sync", q, "none")>>
       ELSE <<W("insert", q, "created"), W("revise", prev, "revised"),
              W("tell", prev, "revised"), W("sync", q, "none")>>,
       {q, prev} \ {None}, prev)
  /\ UNCHANGED <<status, lead, project, queue, replaces, broken, closed, failures>>

\* A draft does not touch the quotation it revises, and Xero is not told.
SaveAsDraft(q, prev) ==
  /\ ~Exists(q) /\ \A g \in Handlers : q \notin handler[g].works
  /\ prev # None => Exists(prev)
  /\ actions < MaxActions /\ actions' = actions + 1
  /\ status' = [status EXCEPT ![q] = "draft"]
  /\ replaces' = [replaces EXCEPT ![q] = prev]
  /\ UNCHANGED <<lead, project, queue, handler, raced, broken, closed, failures>>

\* update replaces texts, milestones and totals, and has the whole quotation synchronised.
Update(q) ==
  /\ Exists(q)
  /\ actions < MaxActions /\ actions' = actions + 1
  /\ queue' = Append(queue, [kind |-> "sync", q |-> q, s |-> "none"])
  /\ UNCHANGED <<status, lead, project, handler, replaces, raced, broken, closed,
                 failures>>

\* A mutated form of Submit: the message holds the quotation as it was read.
SubmitTellsBefore(h, q) ==
  /\ status[q] = "created"
  /\ Begin(h, <<W("set", q, "submitted"), W("tell", q, status[q])>>, {q}, None)
  /\ UNCHANGED <<status, lead, project, queue, replaces, broken, closed, failures>>

\* submitQuotation and markAsSent: quotation and lead in one query.
Submit(h, q) ==
  /\ status[q] = "created"
  /\ Begin(h, <<W("set", q, "submitted"), W("tell", q, "submitted")>>, {q}, None)
  /\ UNCHANGED <<status, lead, project, queue, replaces, broken, closed, failures>>

UpdateStatus(h, q, to) ==
  /\ status[q] \in {"created", "submitted"}
  /\ to \in {"confirmed", "rejected"}
  /\ Begin(h,
       IF to = "confirmed"
       THEN <<W("set", q, to), W("lead", None, "none"), W("tell", q, to)>>
       ELSE <<W("set", q, to), W("tell", q, to)>>, {q}, None)
  /\ UNCHANGED <<status, lead, project, queue, replaces, broken, closed, failures>>

\* autoCreateProjectFromApprovedQuotation where the lead has a project, whatever the status of the
\* quotation; its total is added to the estimate of the project, which is not modelled.
Approve(h, q) ==
  /\ Exists(q) /\ project = "live"
  /\ Begin(h,
       <<W("set", q, "confirmed"), W("tell", q, "confirmed")>>
       \o (IF lead = "confirmed" THEN <<>> ELSE <<W("lead", None, "none")>>)
       \o <<W("syncProject", None, "none")>>,
       {q}, None)
  /\ UNCHANGED <<status, lead, project, queue, replaces, broken, closed, failures>>

\* Where it has none, a deleted project is let go of, and then the query that should create the
\* project is refused: its data is the request itself, whose fields the table does not have.
ApproveWithoutProject(q) ==
  /\ Exists(q) /\ project = "deleted"
  /\ actions < MaxActions /\ actions' = actions + 1
  /\ project' = "gone"
  /\ UNCHANGED <<status, lead, queue, handler, replaces, raced, broken, closed,
                 failures>>

\* leads.updateStatus: the lead is closed and all its quotations rejected in one query.
CloseLead ==
  /\ actions < MaxActions /\ actions' = actions + 1
  /\ lead' = "closed"
  /\ status' = [q \in Quotations |-> IF Exists(q) THEN "rejected" ELSE "none"]
  /\ closed' = closed \cup {q \in Quotations : Exists(q)}
  /\ UNCHANGED <<project, queue, handler, replaces, raced, broken, failures>>

\* A project is created for the lead, or deleted: project.service. Only its first project is
\* followed.
CreateProject ==
  /\ project = "none"
  /\ actions < MaxActions /\ actions' = actions + 1
  /\ project' = "live"
  /\ queue' = Append(queue, [kind |-> "project"])
  /\ UNCHANGED <<status, lead, handler, replaces, raced, broken, closed, failures>>

RemoveProject ==
  /\ project = "live"
  /\ actions < MaxActions /\ actions' = actions + 1
  /\ project' = "deleted"
  /\ UNCHANGED <<status, lead, queue, handler, replaces, raced, broken, closed,
                 failures>>

-----------------------------------------------------------------------------
(* The writes of a request, in their order.                                *)

Rest(h) ==
  handler' = [handler EXCEPT ![h] =
    IF Len(handler[h].todo) = 1 THEN Idle
    ELSE [handler[h] EXCEPT !.todo = Tail(handler[h].todo)]]

Insert(h, e) ==
  /\ e.w = "insert"
  /\ status' = [status EXCEPT ![e.q] = e.s]
  /\ replaces' = [replaces EXCEPT ![e.q] = handler[h].prev]
  /\ UNCHANGED <<lead, project, queue>>

SetStatus(h, e) ==
  /\ e.w \in {"set", "revise"}
  /\ status' = [status EXCEPT ![e.q] = e.s]
  /\ lead' = IF e.s = "submitted" THEN "in_progress" ELSE lead
  /\ UNCHANGED <<project, queue, replaces>>

ConfirmLead(h, e) ==
  /\ e.w = "lead"
  /\ lead' = "confirmed"
  /\ UNCHANGED <<status, project, queue, replaces>>

Tell(h, e) ==
  /\ e.w \in {"tell", "sync", "syncProject"}
  /\ queue' = Append(queue,
       CASE e.w = "tell" -> [kind |-> "status", q |-> e.q, s |-> e.s]
         [] e.w = "sync" -> [kind |-> "sync", q |-> e.q, s |-> "none"]
         [] OTHER -> [kind |-> "project"])
  /\ UNCHANGED <<status, lead, project, replaces>>

Step(h) ==
  /\ handler[h].todo # <<>>
  /\ LET e == Head(handler[h].todo) IN
       \/ Insert(h, e) \/ SetStatus(h, e) \/ ConfirmLead(h, e) \/ Tell(h, e)
  /\ Rest(h)
  /\ UNCHANGED <<raced, broken, closed, actions, failures>>

\* A query fails, or the server stops: what is left to do is not done.
Fail(h) ==
  /\ handler[h].todo # <<>> /\ failures < MaxFailures
  /\ failures' = failures + 1
  /\ broken' = broken \cup handler[h].works
  /\ handler' = [handler EXCEPT ![h] = Idle]
  /\ UNCHANGED <<status, lead, project, queue, replaces, raced, closed,
                 actions>>

Request ==
  \/ \E q \in Quotations, prev \in Quotations \cup {None} :
       q # prev /\ (SaveAsDraft(q, prev) \/ \E h \in Handlers : Create(h, q, prev))
  \/ \E q \in Quotations :
       Update(q) \/ ApproveWithoutProject(q) \/ \E h \in Handlers : Submit(h, q) \/ Approve(h, q)
  \/ \E h \in Handlers, q \in Quotations, to \in {"confirmed", "rejected"} : UpdateStatus(h, q, to)
  \/ CloseLead \/ CreateProject \/ RemoveProject

LocalNext == Request \/ \E h \in Handlers : Step(h) \/ Fail(h)

-----------------------------------------------------------------------------
(* Properties.                                                             *)

(* A quotation is marked revised only when the one that replaces it is     *)
(* there, whichever step of create fails: otherwise an offer would be      *)
(* withdrawn and nothing put in its place.                                 *)
RevisedHasSuccessor ==
  \A q \in Quotations : status[q] = "revised" => \E r \in Quotations : Exists(r) /\ replaces[r] = q
=============================================================================
