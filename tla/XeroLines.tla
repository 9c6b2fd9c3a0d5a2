------------------------------ MODULE XeroLines ------------------------------
(***************************************************************************)
(* The items of one invoice, or the milestones of one quotation, and their *)
(* lines in Xero (invoice.service.ts, quotation.service.ts,                *)
(* xero-accounting.service.ts).                                            *)
(*                                                                         *)
(* A user edits the items in several queries; a job writes all of them to  *)
(* Xero as lines, and afterwards gives those that have no reference that   *)
(* of a line of their title; an import writes the lines Xero answers over  *)
(* the items, deletes the items without a line, and sets the total. Xero   *)
(* tells of changes to invoices; a quotation is imported when a user asks. *)
(*                                                                         *)
(* The invoice or quotation exists. Its status is in XeroInvoice and       *)
(* XeroQuotes; here it matters whether an invoice may still be edited.     *)
(***************************************************************************)
EXTENDS Integers, FiniteSetsExt, Functions

CONSTANTS
  Titles,
  None,
  Handlers,     \* requests of users at once
  Imports,      \* imports at once
  MaxActions,   \* bound on what users, and accountants in Xero, do
  MaxFailures

Docs == {"invoice", "quotation"}

VARIABLES
  doc,
  sent,     \* the invoice is not "generated" any more: it is not to be edited
  items,    \* the rows, by their ids: title, amount, reference, completed (of a milestone)?
  lastId,
  total,
  lines,    \* the lines in Xero, by their references: title and amount
  lastRef,
  inXero,   \* is it in Xero at all?
  draft,    \* is it a draft there?
  foreign,  \* has it been changed in Xero since it was last asked for, or written?
  queue,    \* the messages "Sync ... With Xero" that wait
  job,
  recent,   \* is it on the list of what was just written to Xero (allProcessed)?
  events,   \* the events that are on their way
  handler,
  import,
  raced,    \* history: has an import, or a second request, met something under way, or has
            \* a line that was removed in Xero been written again?
  twins,    \* history: has a job met two items of one title?
  broken,   \* history: has a job or a request failed, since the last request began?
  undone,   \* history: completed milestones that were deleted, or reset, while not broken
  actions, failures

localVars == <<doc, sent, items, lastId, total>>
xeroVars == <<lines, lastRef, inXero, draft, foreign, events>>
vars == <<localVars, xeroVars, queue, job, recent, handler, import, raced, twins, broken, undone,
          actions, failures>>

Item(title, amount, ref, done) ==
  [title |-> title, amount |-> amount, ref |-> ref, done |-> done]

Line(item) == [title |-> item.title, amount |-> item.amount]

NoRows == [i \in {} |-> None]

NoJob == [step |-> "idle", rows |-> NoRows, todo |-> {}]
\* keep: the ids the user sent. entries: what is still to be written.
NoRequest == [step |-> "idle", keep |-> {}, entries |-> {}, fails |-> FALSE, sum |-> 0]
\* answer: the lines Xero answered. rows: the items as they were read.
NoImport == [step |-> "idle", answer |-> NoRows, rows |-> NoRows, todo |-> {}]

\* One row more.
With(f, i, row) == [j \in DOMAIN f \cup {i} |-> IF j = i THEN row ELSE f[j]]

Sum(f) == MapThenSumSet(LAMBDA i : f[i].amount, DOMAIN f)

\* Just created, or already written to Xero.
Init ==
  /\ doc \in Docs /\ sent = FALSE
  /\ \E title \in Titles :
       \/ /\ items = [i \in {1} |-> Item(title, 1, None, FALSE)] /\ lines = NoRows
          /\ lastRef = 0 /\ inXero = FALSE /\ queue = 1
       \/ /\ items = [i \in {1} |-> Item(title, 1, 1, FALSE)] /\ lines = [r \in {1} |-> Line(items[r])]
          /\ lastRef = 1 /\ inXero = TRUE /\ queue = 0
  /\ lastId = 1 /\ total = 1 /\ draft = TRUE /\ foreign = FALSE
  /\ job = NoJob /\ recent = FALSE /\ events = 0
  /\ handler = [h \in Handlers |-> NoRequest] /\ import = [k \in Imports |-> NoImport]
  /\ raced = FALSE /\ twins = FALSE /\ broken = FALSE /\ undone = {}
  /\ actions = 0 /\ failures = 0

Updating == \E h \in Handlers : handler[h].step # "idle"
Importing == \E k \in Imports : import[k].step # "idle"
AtWork == Updating \/ Importing \/ job.step # "idle" \/ queue > 0

Act == actions < MaxActions /\ actions' = actions + 1

-----------------------------------------------------------------------------
(* A user edits the items: one has another amount, is left out, or is new. *)
Update(h, keep, edited, new) ==
  /\ Act /\ handler[h] = NoRequest
  /\ doc = "invoice" => ~sent
  /\ handler' = [handler EXCEPT ![h] =
       [NoRequest EXCEPT !.step = "delete", !.keep = keep,
          !.entries =
            {[id |-> i, title |-> items[i].title,
              amount |-> IF i = edited THEN 3 - items[i].amount ELSE items[i].amount] : i \in keep}
            \cup {[id |-> None, title |-> t, amount |-> 1] : t \in new}]]
  /\ raced' = (raced \/ Updating \/ Importing) /\ broken' = FALSE
  /\ UNCHANGED <<localVars, xeroVars, queue, job, recent, import, twins, undone, failures>>

DeleteOthers(h) ==
  /\ handler[h].step = "delete"
  /\ items' = Restrict(items, DOMAIN items \cap handler[h].keep)
  /\ handler' = [handler EXCEPT ![h].step = IF handler[h].entries = {} THEN "sum" ELSE "write"]
  /\ UNCHANGED <<doc, sent, lastId, total, xeroVars, queue, job, recent, import, raced, twins,
                 broken, undone, actions, failures>>

(* The writes are sent together; one whose row is gone fails, and with it  *)
(* the request, once the others are done.                                  *)
WriteItem(h, e) ==
  LET rest == handler[h].entries \ {e}
      fails == handler[h].fails \/ (e.id # None /\ e.id \notin DOMAIN items)
  IN
  /\ handler[h].step = "write" /\ e \in handler[h].entries
  /\ \/ /\ e.id = None
        /\ items' = With(items, lastId + 1, Item(e.title, e.amount, None, FALSE))
        /\ lastId' = lastId + 1
     \/ /\ e.id \in DOMAIN items
        /\ items' = [items EXCEPT ![e.id].title = e.title, ![e.id].amount = e.amount]
        /\ UNCHANGED lastId
     \/ /\ e.id # None /\ e.id \notin DOMAIN items
        /\ UNCHANGED <<items, lastId>>
  /\ handler' = [handler EXCEPT ![h] =
       IF rest # {} THEN [@ EXCEPT !.entries = rest, !.fails = fails]
       ELSE IF fails THEN NoRequest
       ELSE [@ EXCEPT !.entries = {}, !.step = "sum"]]
  /\ UNCHANGED <<doc, sent, total, xeroVars, queue, job, recent, import, raced, twins, broken,
                 undone, actions, failures>>

ReadTotal(h) ==
  /\ handler[h].step = "sum"
  /\ handler' = [handler EXCEPT ![h].sum = Sum(items), ![h].step = "total"]
  /\ UNCHANGED <<localVars, xeroVars, queue, job, recent, import, raced, twins, broken, undone,
                 actions, failures>>

WriteTotal(h) ==
  /\ handler[h].step = "total"
  /\ total' = handler[h].sum
  /\ queue' = queue + 1
  /\ handler' = [handler EXCEPT ![h] = NoRequest]
  /\ UNCHANGED <<doc, sent, items, lastId, xeroVars, job, recent, import, raced, twins, broken,
                 undone, actions, failures>>

UpdateFails(h) ==
  /\ failures < MaxFailures /\ failures' = failures + 1
  /\ handler[h].step # "idle"
  /\ handler' = [handler EXCEPT ![h] = NoRequest]
  /\ broken' = TRUE
  /\ UNCHANGED <<localVars, xeroVars, queue, job, recent, import, raced, twins, undone, actions>>

completeMilestone(i) ==
  /\ Act /\ doc = "quotation"
  /\ ~items[i].done
  /\ items' = [items EXCEPT ![i].done = TRUE]
  /\ raced' = (raced \/ Importing)
  /\ UNCHANGED <<doc, sent, lastId, total, xeroVars, queue, job, recent, handler, import, twins,
                 broken, undone, failures>>

-----------------------------------------------------------------------------
(* The job.                                                                *)
Take ==
  /\ queue > 0 /\ job = NoJob
  /\ queue' = queue - 1
  /\ job' = [NoJob EXCEPT !.step = "push", !.rows = items]
  /\ raced' = (raced \/ Importing)
  /\ twins' = (twins \/ \E i, j \in DOMAIN items : i # j /\ items[i].title = items[j].title)
  /\ UNCHANGED <<localVars, xeroVars, recent, handler, import, broken, undone, actions, failures>>

\* The reference of each item that is written: its own if Xero has it, else a new one.
RefOf(rows, i) ==
  LET new == {j \in DOMAIN rows : rows[j].ref \notin DOMAIN lines}
  IN IF i \in new THEN lastRef + Cardinality({j \in new : j <= i}) ELSE rows[i].ref

\* The items without a reference, each with any line.
ToStoreAny(rows) ==
  LET new == {i \in DOMAIN rows : rows[i].ref = None}
  IN [new -> {RefOf(rows, j) : j \in DOMAIN rows}]

\* The items without a reference, each with the first line of its title: twins get the same one.
ToStore(rows) ==
  LET new == {i \in DOMAIN rows : rows[i].ref = None}
      titled(t) == {j \in DOMAIN rows : rows[j].title = t}
  IN {[i \in new |-> RefOf(rows, first[rows[i].title])] :
        first \in {g \in [{rows[i].title : i \in new} -> DOMAIN rows] :
                     \A t \in DOMAIN g : g[t] \in titled(t)}}

Push ==
  /\ job.step = "push"
  /\ LET rows == job.rows
         at(r) == CHOOSE i \in DOMAIN rows : RefOf(rows, i) = r
     IN
     /\ lines' = [r \in {RefOf(rows, i) : i \in DOMAIN rows} |-> Line(rows[at(r)])]
     /\ lastRef' = lastRef + Cardinality({i \in DOMAIN rows : rows[i].ref \notin DOMAIN lines})
     /\ \E f \in ToStore(rows) :
          job' = IF f = NoRows THEN NoJob
                 ELSE [job EXCEPT !.step = "store", !.todo = {<<i, f[i]>> : i \in DOMAIN f}]
  /\ inXero' = TRUE /\ foreign' = FALSE
  /\ recent' = (doc = "invoice") /\ events' = events + (IF doc = "invoice" THEN 1 ELSE 0)
  /\ raced' = (raced \/ \E i \in DOMAIN job.rows : job.rows[i].ref \notin DOMAIN lines \cup {None})
  /\ UNCHANGED <<localVars, draft, queue, handler, import, twins, broken, undone, actions, failures>>

\* A reference belongs to one row (it is unique in the database); the row may be gone.
Store(i, r) ==
  /\ job.step = "store" /\ <<i, r>> \in job.todo
  /\ items' = IF i \in DOMAIN items /\ ~\E j \in DOMAIN items : items[j].ref = r
              THEN [items EXCEPT ![i].ref = r] ELSE items
  /\ job' = IF job.todo = {<<i, r>>} THEN NoJob ELSE [job EXCEPT !.todo = @ \ {<<i, r>>}]
  /\ UNCHANGED <<doc, sent, lastId, total, xeroVars, queue, recent, handler, import, raced, twins,
                 broken, undone, actions, failures>>

(* An error is logged, and the message is gone.                            *)
JobFails ==
  /\ failures < MaxFailures /\ failures' = failures + 1
  /\ job.step # "idle"
  /\ job' = NoJob /\ broken' = TRUE
  /\ UNCHANGED <<localVars, xeroVars, queue, recent, handler, import, raced, twins, undone, actions>>

(* Eight seconds after a write.                                            *)
Forget ==
  /\ recent /\ recent' = FALSE
  /\ UNCHANGED <<localVars, xeroVars, queue, job, handler, import, raced, twins, broken, undone,
                 actions, failures>>

-----------------------------------------------------------------------------
(* The import: of an invoice when there is an event, of a quotation when a *)
(* user asks for it.                                                       *)
Receive(k) ==
  /\ import[k] = NoImport /\ events > 0 /\ events' = events - 1
  /\ IF recent THEN UNCHANGED <<import, raced>>
     ELSE /\ import' = [import EXCEPT ![k].step = "ask"]
          /\ raced' = (raced \/ AtWork)
  /\ UNCHANGED <<localVars, lines, lastRef, inXero, draft, foreign, queue, job, recent, handler,
                 twins, broken, undone, actions, failures>>

getQuotes(k) ==
  /\ Act /\ doc = "quotation" /\ inXero
  /\ import[k] = NoImport
  /\ import' = [import EXCEPT ![k].step = "ask"]
  /\ raced' = (raced \/ AtWork)
  /\ UNCHANGED <<localVars, xeroVars, queue, job, recent, handler, twins, broken, undone, failures>>

\* A draft invoice is left alone.
Ask(k) ==
  /\ import[k].step = "ask"
  /\ IF doc = "invoice" /\ draft
     THEN import' = [import EXCEPT ![k] = NoImport] /\ UNCHANGED foreign
     ELSE import' = [import EXCEPT ![k].answer = lines, ![k].step = "rows"] /\ foreign' = FALSE
  /\ UNCHANGED <<localVars, lines, lastRef, inXero, draft, events, queue, job, recent, handler,
                 raced, twins, broken, undone, actions, failures>>

ReadRows(k) ==
  /\ import[k].step = "rows"
  /\ import' = [import EXCEPT ![k].rows = items, ![k].step = "row"]
  /\ UNCHANGED <<localVars, xeroVars, queue, job, recent, handler, raced, twins, broken, undone,
                 actions, failures>>

WriteRow(k) ==
  /\ import[k].step = "row"
  /\ total' = Sum(import[k].answer)
  /\ sent' = (sent \/ doc = "invoice")
  /\ import' = [import EXCEPT ![k].step = "delete"]
  /\ UNCHANGED <<doc, items, lastId, xeroVars, queue, job, recent, handler, raced, twins, broken,
                 undone, actions, failures>>

\* Items without a line: those removed in Xero, and those that have no reference yet.
Unmatched(k) ==
  {i \in DOMAIN import[k].rows : import[k].rows[i].ref \notin DOMAIN import[k].answer}

DeleteRows(k) ==
  /\ import[k].step = "delete"
  /\ items' = Restrict(items, DOMAIN items \ Unmatched(k))
  /\ undone' = undone \cup {i \in Unmatched(k) \cap DOMAIN items :
                              ~broken /\ items[i].done /\ import[k].rows[i].ref = None}
  /\ import' = [import EXCEPT ![k] =
       IF @.answer = NoRows THEN NoImport
       ELSE [@ EXCEPT !.step = "write", !.todo = DOMAIN import[k].answer]]
  /\ UNCHANGED <<doc, sent, lastId, total, xeroVars, queue, job, recent, handler, raced, twins,
                 broken, actions, failures>>

ReadWith(k, r) == {i \in DOMAIN import[k].rows : import[k].rows[i].ref = r}

\* A row that was read keeps the status it had then.
AfterReset(row, line, r) == Item(line.title, line.amount, r, FALSE)
After(row, line, r) == Item(line.title, line.amount, r, row.done)

\* The line is written over the row that had its reference when it was read; else over the one
\* that has it now; else it becomes a row.
WriteLine(k, r) ==
  LET line == import[k].answer[r]
      now == {i \in DOMAIN items : items[i].ref = r}
  IN
  /\ import[k].step = "write" /\ r \in import[k].todo
  /\ \/ \E i \in ReadWith(k, r) :
          /\ items' = IF i \notin DOMAIN items THEN items
                      ELSE [items EXCEPT ![i] = After(import[k].rows[i], line, r)]
          /\ UNCHANGED lastId
     \/ /\ ReadWith(k, r) = {}
        /\ \/ \E i \in now :
                /\ items' = [items EXCEPT ![i].title = line.title, ![i].amount = line.amount]
                /\ UNCHANGED lastId
           \/ /\ now = {}
              /\ items' = With(items, lastId + 1, Item(line.title, line.amount, r, FALSE))
              /\ lastId' = lastId + 1
  /\ undone' = undone \cup {i \in DOMAIN items : ~broken /\ items[i].done /\ ~items'[i].done}
  /\ import' = [import EXCEPT ![k] =
       IF @.todo = {r} THEN NoImport ELSE [@ EXCEPT !.todo = import[k].todo \ {r}]]
  /\ UNCHANGED <<doc, sent, total, xeroVars, queue, job, recent, handler, raced, twins, broken,
                 actions, failures>>

-----------------------------------------------------------------------------
(* Accountants in Xero.                                                    *)
ChangedInXero ==
  /\ Act /\ inXero
  /\ \/ \E r \in DOMAIN lines : lines' = [lines EXCEPT ![r].amount = 3 - @] /\ UNCHANGED lastRef
     \/ \E r \in DOMAIN lines : lines' = Restrict(lines, DOMAIN lines \ {r}) /\ UNCHANGED lastRef
     \/ \E t \in Titles :
          /\ lines' = With(lines, lastRef + 1, [title |-> t, amount |-> 1])
          /\ lastRef' = lastRef + 1
  /\ draft' \in IF doc = "invoice" THEN {draft, FALSE} ELSE {draft}
  /\ foreign' = TRUE
  /\ events' = events + (IF doc = "invoice" THEN 1 ELSE 0)
  /\ UNCHANGED <<localVars, inXero, queue, job, recent, handler, import, raced, twins, broken,
                 undone, failures>>

Next ==
  \/ \E h \in Handlers :
       \/ \E i \in DOMAIN items :
            Update(h, DOMAIN items, i, {}) \/ Update(h, DOMAIN items \ {i}, None, {})
       \/ \E t \in Titles : Update(h, DOMAIN items, None, {t})
       \/ DeleteOthers(h) \/ ReadTotal(h) \/ WriteTotal(h) \/ UpdateFails(h)
       \/ \E e \in handler[h].entries : WriteItem(h, e)
  \/ \E i \in DOMAIN items : completeMilestone(i)
  \/ Take \/ Push \/ JobFails \/ Forget
  \/ \E t \in job.todo : Store(t[1], t[2])
  \/ \E k \in Imports :
       \/ Receive(k) \/ getQuotes(k) \/ Ask(k) \/ ReadRows(k) \/ WriteRow(k) \/ DeleteRows(k)
       \/ \E r \in import[k].todo : WriteLine(k, r)
  \/ ChangedInXero

Spec == Init /\ [][Next]_vars

-----------------------------------------------------------------------------
TypeOK ==
  /\ doc \in Docs /\ sent \in BOOLEAN /\ lastId \in Nat /\ total \in Nat
  /\ \A i \in DOMAIN items :
       /\ i \in 1..lastId /\ items[i].title \in Titles /\ items[i].amount \in {1, 2}
       /\ items[i].ref \in 1..lastRef \cup {None} /\ items[i].done \in BOOLEAN
  /\ DOMAIN lines \subseteq 1..lastRef /\ queue \in Nat /\ events \in Nat

Quiet == ~AtWork /\ events = 0 /\ ~foreign

(* When nothing is under way, the items are the lines in Xero, and the     *)
(* total is their sum: unless an import or a second request met something  *)
(* under way, a line removed in Xero was written again, two items had one  *)
(* title, or something failed and no later request went well.              *)
LinesAgree ==
  Quiet /\ ~raced /\ ~twins /\ ~broken =>
    /\ total = Sum(items)
    /\ {items[i].ref : i \in DOMAIN items} = DOMAIN lines
    /\ \A i \in DOMAIN items : Line(items[i]) = lines[items[i].ref]

(* An import leaves completed milestones completed, but for the same       *)
(* reasons.                                                                *)
ProgressStays == raced \/ twins \/ undone = {}
=============================================================================
