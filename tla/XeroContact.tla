----------------------------- MODULE XeroContact -----------------------------
(***************************************************************************)
(* One client and its contact in Xero (client.service.ts,                  *)
(* xero-accounting.service.ts).                                            *)
(*                                                                         *)
(* A change of a client that has a contact is told to a job, with the      *)
(* client as it was then. Any job that writes a document of a client       *)
(* without a contact makes one first, or takes the one of the same email   *)
(* address, and stores its reference. Xero tells of changes to contacts;   *)
(* what it answers when asked is written over the client, or makes another *)
(* client if none is known to have the contact.                            *)
(***************************************************************************)
EXTENDS Integers, Sequences

CONSTANTS
  Contacts,
  Names,
  None,
  Requests,     \* requests of users at once
  DocumentJobs, \* the jobs that write invoices, quotations and projects
  Hooks,        \* events handled at once
  MaxActions,
  MaxFailures

Jobs == DocumentJobs \cup {"client"}

VARIABLES
  client,    \* name, deleted
  emailed,   \* has it an email address? Its contacts in Xero have the same.
  refs,      \* the contacts connected to it
  others,    \* the contacts that belong to other clients
  pending,   \* the client as a request has just written it
  queue,     \* the messages "Sync Client With Xero"
  job,
  contact,   \* the contacts in Xero: name, archived
  unseen,    \* those changed in Xero since they were last asked for, or written
  recent,    \* those just written to Xero (allProcessed)
  events,    \* the contacts of which events are on their way
  hook,
  crossed,   \* history: since the last change that was made with nothing under way, has a
             \* request, a job or a hook met another one, or failed?
  actions, failures

localVars == <<client, emailed, refs, others>>
xeroVars == <<contact, unseen, events>>
vars ==
  <<localVars, xeroVars, pending, queue, job, recent, hook, crossed, actions, failures>>

NoJob == [step |-> "idle", client |-> None, ref |-> None]
NoHook == [step |-> "idle", of |-> None, answer |-> None, known |-> FALSE]

\* It may have been in Xero before it was entered here.
Init ==
  /\ \E n \in Names : client = [name |-> n, deleted |-> FALSE]
  /\ emailed \in BOOLEAN
  /\ \/ contact = [c \in {} |-> None]
     \/ \E c \in Contacts, n \in Names :
          contact = [d \in {c} |-> [name |-> n, archived |-> FALSE]]
  /\ refs = {} /\ others = {}
  /\ pending = [h \in Requests |-> None] /\ queue = <<>>
  /\ job = [j \in Jobs |-> NoJob]
  /\ unseen = {} /\ recent = {} /\ events = {}
  /\ hook = [h \in Hooks |-> NoHook]
  /\ crossed = FALSE /\ actions = 0 /\ failures = 0

Telling == queue # <<>> \/ \E h \in Requests : pending[h] # None
Writing == \E j \in Jobs : job[j].step # "idle"
Importing == \E h \in Hooks : hook[h].step # "idle"
AtWork == Telling \/ Writing \/ Importing

Act == actions < MaxActions /\ actions' = actions + 1

-----------------------------------------------------------------------------
(* The requests of users: update and remove.                               *)
Change(h, after) ==
  /\ Act /\ pending[h] = None
  /\ client' = after
  /\ IF refs = {} THEN UNCHANGED pending ELSE pending' = [pending EXCEPT ![h] = after]
  /\ crossed' = (AtWork \/ (crossed /\ refs = {}))
  /\ UNCHANGED <<emailed, refs, others, queue, job, xeroVars, recent, hook, failures>>

update(h) == \E n \in Names : Change(h, [client EXCEPT !.name = n])
remove(h) == Change(h, [client EXCEPT !.deleted = TRUE])

Tell(h) ==
  /\ pending[h] # None
  /\ queue' = Append(queue, pending[h])
  /\ pending' = [pending EXCEPT ![h] = None]
  /\ UNCHANGED <<localVars, job, xeroVars, recent, hook, crossed, actions, failures>>

-----------------------------------------------------------------------------
(* The jobs.                                                               *)
Take ==
  /\ queue # <<>> /\ job["client"] = NoJob
  /\ job' = [job EXCEPT !["client"] = [NoJob EXCEPT !.step = "connection", !.client = Head(queue)]]
  /\ queue' = Tail(queue)
  /\ crossed' = (crossed \/ Writing \/ Importing)
  /\ UNCHANGED <<localVars, pending, xeroVars, recent, hook, actions, failures>>

WriteDocument(j) ==
  /\ Act /\ j \in DocumentJobs
  /\ job[j] = NoJob /\ refs = {}
  /\ job' = [job EXCEPT ![j] = [NoJob EXCEPT !.step = "connection", !.client = client]]
  /\ crossed' = (crossed \/ AtWork)
  /\ UNCHANGED <<localVars, pending, queue, xeroVars, recent, hook, failures>>

FindConnection(j) ==
  /\ job[j].step = "connection"
  /\ \/ \E c \in refs : job' = [job EXCEPT ![j].step = "push", ![j].ref = c]
     \/ refs = {} /\ job' = [job EXCEPT ![j].step = IF emailed THEN "email" ELSE "push"]
  /\ UNCHANGED <<localVars, pending, queue, xeroVars, recent, hook, crossed, actions, failures>>

\* Xero leaves out the archived ones.
FindByEmail(j) ==
  LET found == {c \in DOMAIN contact : ~contact[c].archived}
  IN
  /\ job[j].step = "email"
  /\ \/ \E c \in found : job' = [job EXCEPT ![j].step = "push", ![j].ref = c]
     \/ found = {} /\ job' = [job EXCEPT ![j].step = "push"]
  /\ UNCHANGED <<localVars, pending, queue, xeroVars, recent, hook, crossed, actions, failures>>

ContactOfActive(given) == [name |-> given.name, archived |-> FALSE]
ContactOf(given) == [name |-> given.name, archived |-> given.deleted]

\* The contact that has the reference, or else a new one.
Push(j) ==
  /\ job[j].step = "push"
  /\ \E c \in Contacts :
       /\ IF job[j].ref = None THEN c \notin DOMAIN contact ELSE c = job[j].ref
       /\ contact' = [d \in DOMAIN contact \cup {c} |->
                        IF d = c THEN ContactOf(job[j].client) ELSE contact[d]]
       /\ unseen' = unseen \ {c} /\ recent' = recent \cup {c} /\ events' = events \cup {c}
       /\ job' = [job EXCEPT ![j] =
            IF c \in refs THEN NoJob ELSE [job[j] EXCEPT !.step = "store", !.ref = c]]
  /\ UNCHANGED <<localVars, pending, queue, hook, crossed, actions, failures>>

Store(j) ==
  /\ job[j].step = "store"
  /\ refs' = refs \cup {job[j].ref}
  /\ job' = [job EXCEPT ![j] = NoJob]
  /\ UNCHANGED <<client, emailed, others, pending, queue, xeroVars, recent, hook, crossed, actions,
                 failures>>

(* An error is logged, and the message is gone.                            *)
JobFails(j) ==
  /\ failures < MaxFailures /\ failures' = failures + 1
  /\ job[j].step # "idle"
  /\ job' = [job EXCEPT ![j] = NoJob] /\ crossed' = TRUE
  /\ UNCHANGED <<localVars, pending, queue, xeroVars, recent, hook, actions>>

(* Eight seconds after a write all the contacts are forgotten, not one.    *)
Forget ==
  /\ recent # {} /\ recent' = {}
  /\ UNCHANGED <<localVars, pending, queue, job, xeroVars, hook, crossed, actions, failures>>

-----------------------------------------------------------------------------
(* The events.                                                             *)
Receive(h, c) ==
  /\ c \in events /\ hook[h] = NoHook
  /\ events' = events \ {c}
  /\ IF c \in recent THEN UNCHANGED <<hook, crossed>>
     ELSE /\ hook' = [hook EXCEPT ![h] = [NoHook EXCEPT !.step = "ask", !.of = c]]
          /\ crossed' = (crossed \/ AtWork)
  /\ UNCHANGED <<localVars, pending, queue, job, contact, unseen, recent, actions, failures>>

Ask(h) ==
  /\ hook[h].step = "ask"
  /\ hook' = [hook EXCEPT ![h].answer = contact[hook[h].of], ![h].step = "find"]
  /\ unseen' = unseen \ {hook[h].of}
  /\ UNCHANGED <<localVars, pending, queue, job, contact, events, recent, crossed, actions, failures>>

\* The client that has the contact; else the one with its email address; else another one.
Find(h) ==
  /\ hook[h].step = "find"
  /\ hook' = [hook EXCEPT ![h].step = "write",
                          ![h].known = (hook[h].of \in refs \/ (hook[h].of \notin others /\ emailed))]
  /\ UNCHANGED <<localVars, pending, queue, job, xeroVars, recent, crossed, actions, failures>>

\* An archived contact leaves the client as it is; any other restores it.
Deleted(answer) == IF answer.archived THEN client.deleted ELSE FALSE

WriteClient(h) ==
  LET answer == hook[h].answer
  IN
  /\ hook[h].step = "write"
  /\ IF hook[h].known
     THEN /\ client' = [name |-> answer.name, deleted |-> Deleted(answer)]
          /\ hook' = [hook EXCEPT ![h].step = "connect"]
          /\ UNCHANGED others
     ELSE /\ others' = others \cup {hook[h].of}
          /\ hook' = [hook EXCEPT ![h] = NoHook]
          /\ UNCHANGED client
  /\ UNCHANGED <<emailed, refs, pending, queue, job, xeroVars, recent, crossed, actions, failures>>

Connect(h) ==
  /\ hook[h].step = "connect"
  /\ refs' = refs \cup {hook[h].of}
  /\ hook' = [hook EXCEPT ![h] = NoHook]
  /\ UNCHANGED <<client, emailed, others, pending, queue, job, xeroVars, recent, crossed, actions,
                 failures>>

HookFails(h) ==
  /\ failures < MaxFailures /\ failures' = failures + 1
  /\ hook[h].step # "idle"
  /\ hook' = [hook EXCEPT ![h] = NoHook] /\ crossed' = TRUE
  /\ UNCHANGED <<localVars, pending, queue, job, xeroVars, recent, actions>>

(* Accountants rename, archive or restore a contact in Xero.               *)
ChangedInXero(c) ==
  /\ Act /\ c \in DOMAIN contact
  /\ \/ \E n \in Names : contact' = [contact EXCEPT ![c].name = n]
     \/ contact' = [contact EXCEPT ![c].archived = ~@]
  /\ contact' # contact
  /\ unseen' = unseen \cup {c} /\ events' = events \cup {c}
  /\ UNCHANGED <<localVars, pending, queue, job, recent, hook, crossed, failures>>

Next ==
  \/ \E h \in Requests : update(h) \/ remove(h) \/ Tell(h)
  \/ Take \/ Forget
  \/ \E j \in Jobs :
       \/ WriteDocument(j) \/ FindConnection(j) \/ FindByEmail(j) \/ Push(j) \/ Store(j)
       \/ JobFails(j)
  \/ \E h \in Hooks :
       \/ \E c \in events : Receive(h, c)
       \/ Ask(h) \/ Find(h) \/ WriteClient(h) \/ Connect(h) \/ HookFails(h)
  \/ \E c \in Contacts : ChangedInXero(c)

Spec == Init /\ [][Next]_vars

-----------------------------------------------------------------------------
TypeOK ==
  /\ client.name \in Names /\ client.deleted \in BOOLEAN /\ emailed \in BOOLEAN
  /\ refs \subseteq DOMAIN contact /\ others \subseteq DOMAIN contact
  /\ DOMAIN contact \subseteq Contacts /\ crossed \in BOOLEAN
  /\ unseen \cup recent \cup events \subseteq DOMAIN contact

Quiet == ~AtWork /\ events = {} /\ unseen = {}

(* When nothing is under way, the contact has the client's name, and is    *)
(* archived if the client was removed: unless something met something      *)
(* else, or failed, since a change was last made with nothing under way.   *)
ContactAgrees ==
  Quiet /\ ~crossed =>
    \A c \in Contacts : refs = {c} =>
      /\ contact[c].name = client.name
      /\ client.deleted => contact[c].archived
=============================================================================
