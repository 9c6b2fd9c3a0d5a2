------------------------------ MODULE EnquiryLead ------------------------------
(***************************************************************************)
(* An enquiry and the leads made of it: src/src/modules/enquiry, and       *)
(* src/src/modules/leads where it adds notes and documents.                *)
(*                                                                         *)
(* The conversion of the enquiry into a lead is a row of queries without a *)
(* transaction. A request that adds a note or a document reads first which *)
(* lead the enquiry has, and inserts its row afterwards.                   *)
(***************************************************************************)
EXTENDS Integers, Sequences

CONSTANTS
  Leads, Notes, Files,   \* the rows a request may create
  Handlers,              \* requests to the server in progress at once
  None,
  MaxActions,            \* bound on the requests to the server
  MaxFailures            \* bound on the queries that fail

Items == Notes \cup Files
EnquiryStatus == {"New", "Qualified", "Unqualified", "Spam"}

VARIABLES
  eStatus,   \* status of the enquiry
  removed,   \* isDeleted of the enquiry
  leadState, \* of each lead: none, live, or deleted (isDeleted)
  enquiryOf, \* the leads that are connected to the enquiry (Leads.enquiryId)
  item,      \* of each note and document: is it there, of the enquiry, of which lead?
  handler,
  stale,     \* history: the items given to a lead that was not, or no longer, the enquiry's
  halfway,   \* history: has a conversion stopped halfway?
  overtaken, \* history: was a status written over Qualified by who had read another?
  actions, failures

vars == <<eStatus, removed, leadState, enquiryOf, item, handler, stale, halfway, overtaken,
          actions, failures>>

NoItem == [there |-> FALSE, enquiry |-> FALSE, lead |-> None]
Idle == [todo |-> <<>>, lead |-> None, item |-> None, enquiry |-> FALSE, to |-> "New"]

\* A mutated form of Conversion: the lead is created first, and the enquiry qualified after it.
LeadFirst == <<"disconnect", "create", "qualify", "notes", "files">>

Conversion == <<"disconnect", "qualify", "create", "notes", "files">>

TypeOK ==
  /\ eStatus \in EnquiryStatus /\ removed \in BOOLEAN
  /\ leadState \in [Leads -> {"none", "live", "deleted"}]
  /\ enquiryOf \subseteq Leads
  /\ item \in [Items -> [there: BOOLEAN, enquiry: BOOLEAN, lead: Leads \cup {None}]]
  /\ \A h \in Handlers :
       /\ handler[h].lead \in Leads \cup {None} /\ handler[h].item \in Items \cup {None}
       /\ handler[h].enquiry \in BOOLEAN /\ handler[h].to \in EnquiryStatus
       /\ \A i \in 1..Len(handler[h].todo) :
            handler[h].todo[i] \in {"status", "insert", "disconnect", "qualify", "create",
                                    "notes", "files"}
  /\ stale \subseteq Items /\ halfway \in BOOLEAN /\ overtaken \in BOOLEAN
  /\ actions \in 0..MaxActions /\ failures \in 0..MaxFailures

Init ==
  /\ eStatus = "New" /\ removed = FALSE
  /\ leadState = [l \in Leads |-> "none"] /\ enquiryOf = {}
  /\ item = [i \in Items |-> NoItem]
  /\ handler = [h \in Handlers |-> Idle]
  /\ stale = {} /\ halfway = FALSE /\ overtaken = FALSE
  /\ actions = 0 /\ failures = 0

\* The enquiry's lead: there is at most one, for Leads.enquiryId is unique.
LeadOf == IF enquiryOf = {} THEN None ELSE CHOOSE l \in enquiryOf : TRUE

Begin(h, rec) ==
  /\ handler[h] = Idle /\ actions < MaxActions
  /\ actions' = actions + 1
  /\ handler' = [handler EXCEPT ![h] = rec]
  /\ UNCHANGED <<eStatus, removed, leadState, enquiryOf, item, stale, halfway, overtaken, failures>>

-----------------------------------------------------------------------------
(* The requests, up to their first query that writes.                      *)

UpdateStatus(h, to) ==
  /\ eStatus # "Qualified"
  /\ to \in {"Spam", "Unqualified"}
  /\ Begin(h, [Idle EXCEPT !.todo = <<"status">>, !.to = to])

\* A lead that is live stands in the way, one that is deleted is disconnected.
AutoCreateLead(h, l) ==
  /\ ~removed /\ leadState[l] = "none" /\ \A g \in Handlers : handler[g].lead # l
  /\ IF LeadOf = None THEN Begin(h, [Idle EXCEPT !.todo = Tail(Conversion), !.lead = l])
     ELSE /\ leadState[LeadOf] = "deleted"
          /\ Begin(h, [Idle EXCEPT !.todo = Conversion, !.lead = l])

New(i) == ~item[i].there /\ \A g \in Handlers : handler[g].item # i

\* enquiry.addNote and enquiry.handleDocuments.
AddToEnquiry(h, i) ==
  /\ New(i)
  /\ Begin(h, [Idle EXCEPT !.todo = <<"insert">>, !.item = i, !.enquiry = TRUE, !.lead = LeadOf])

\* leads.addNote and leads.handleDocuments.
AddToLead(h, i, l) ==
  /\ New(i) /\ leadState[l] # "none"
  /\ Begin(h, [Idle EXCEPT !.todo = <<"insert">>, !.item = i, !.lead = l,
                           !.enquiry = l \in enquiryOf])

RemoveLead(l) ==
  /\ leadState[l] = "live" /\ actions < MaxActions
  /\ actions' = actions + 1
  /\ leadState' = [leadState EXCEPT ![l] = "deleted"]
  /\ UNCHANGED <<eStatus, removed, enquiryOf, item, handler, stale, halfway, overtaken, failures>>

RemoveEnquiry ==
  /\ ~removed /\ actions < MaxActions
  /\ actions' = actions + 1 /\ removed' = TRUE
  /\ UNCHANGED <<eStatus, leadState, enquiryOf, item, handler, stale, halfway, overtaken, failures>>

-----------------------------------------------------------------------------
(* The queries that write.                                                 *)

Next1(h, w) == handler[h].todo # <<>> /\ Head(handler[h].todo) = w

Rest(h) ==
  handler' = [handler EXCEPT ![h] =
    IF Len(handler[h].todo) = 1 THEN Idle
    ELSE [handler[h] EXCEPT !.todo = Tail(handler[h].todo)]]

WriteStatus(h) ==
  /\ Next1(h, "status") /\ Rest(h)
  /\ eStatus' = handler[h].to
  /\ overtaken' = (overtaken \/ eStatus = "Qualified")
  /\ UNCHANGED <<removed, leadState, enquiryOf, item, stale, halfway, actions, failures>>

InsertItem(h) ==
  /\ Next1(h, "insert") /\ Rest(h)
  /\ LET i == handler[h].item IN
       /\ item' = [item EXCEPT ![i] =
            [there |-> TRUE, enquiry |-> handler[h].enquiry, lead |-> handler[h].lead]]
       /\ stale' = IF handler[h].lead # LeadOf THEN stale \cup {i} ELSE stale
  /\ UNCHANGED <<eStatus, removed, leadState, enquiryOf, halfway, overtaken, actions, failures>>

\* Of the deleted lead the request has read, which is deleted still.
Disconnect(h) ==
  /\ Next1(h, "disconnect") /\ Rest(h)
  /\ enquiryOf' = {l \in enquiryOf : leadState[l] # "deleted"}
  /\ UNCHANGED <<eStatus, removed, leadState, item, stale, halfway, overtaken, actions, failures>>

Qualify(h) ==
  /\ Next1(h, "qualify") /\ Rest(h)
  /\ eStatus' = "Qualified"
  /\ UNCHANGED <<removed, leadState, enquiryOf, item, stale, halfway, overtaken, actions, failures>>

\* The unique key refuses a second lead of the enquiry, and the request ends.
CreateLead(h) ==
  /\ Next1(h, "create")
  /\ IF enquiryOf = {}
     THEN /\ leadState' = [leadState EXCEPT ![handler[h].lead] = "live"]
          /\ enquiryOf' = {handler[h].lead}
          /\ Rest(h)
     ELSE /\ handler' = [handler EXCEPT ![h] = Idle]
          /\ UNCHANGED <<leadState, enquiryOf>>
  /\ UNCHANGED <<eStatus, removed, item, stale, halfway, overtaken, actions, failures>>

\* A mutated form of Move: only the items without a lead are moved.
MoveNew(h, w, some) ==
  /\ Next1(h, w) /\ Rest(h)
  /\ item' = [i \in Items |->
       IF i \in some /\ item[i].there /\ item[i].enquiry /\ item[i].lead = None
       THEN [item[i] EXCEPT !.lead = handler[h].lead] ELSE item[i]]
  /\ UNCHANGED <<eStatus, removed, leadState, enquiryOf, stale, halfway, overtaken, actions,
                 failures>>

\* All items of the enquiry become the new lead's: the notes, and then the documents.
Move(h, w, some) ==
  /\ Next1(h, w) /\ Rest(h)
  /\ LET moved == {i \in some : item[i].there /\ item[i].enquiry} IN
       /\ item' = [i \in Items |->
            IF i \in moved THEN [item[i] EXCEPT !.lead = handler[h].lead] ELSE item[i]]
       /\ stale' = IF handler[h].lead # LeadOf THEN stale \cup moved ELSE stale
  /\ UNCHANGED <<eStatus, removed, leadState, enquiryOf, halfway, overtaken, actions, failures>>

MoveNotes(h) == Move(h, "notes", Notes)
MoveFiles(h) == Move(h, "files", Files)

Fail(h) ==
  /\ handler[h].todo # <<>> /\ failures < MaxFailures
  /\ failures' = failures + 1
  /\ halfway' = (halfway \/ Head(handler[h].todo) \in {"notes", "files"})
  /\ handler' = [handler EXCEPT ![h] = Idle]
  /\ UNCHANGED <<eStatus, removed, leadState, enquiryOf, item, stale, overtaken, actions>>

Next ==
  \/ RemoveEnquiry
  \/ \E l \in Leads : RemoveLead(l)
  \/ \E h \in Handlers :
       \/ \E to \in EnquiryStatus : UpdateStatus(h, to)
       \/ \E l \in Leads : AutoCreateLead(h, l)
       \/ \E i \in Items : AddToEnquiry(h, i) \/ \E l \in Leads : AddToLead(h, i, l)
       \/ WriteStatus(h) \/ InsertItem(h) \/ Disconnect(h) \/ Qualify(h) \/ CreateLead(h)
       \/ MoveNotes(h) \/ MoveFiles(h) \/ Fail(h)

Spec == Init /\ [][Next]_vars

-----------------------------------------------------------------------------
(* Properties.                                                             *)

Quiet == \A h \in Handlers : handler[h] = Idle

(* What was said and attached to an enquiry is with its lead when nothing  *)
(* is in progress, also when the lead is the second one. Excepted are a    *)
(* conversion that stopped before it had moved all, and what was inserted  *)
(* with the lead read before a conversion (autoCreateLeadUsingEnquiry,     *)
(* handleDocuments, addNote).                                              *)
ItemsFollowLead ==
  (Quiet /\ ~halfway /\ LeadOf # None) =>
    \A i \in Items \ stale : item[i].there /\ item[i].enquiry => item[i].lead = LeadOf

(* An enquiry that has a lead is qualified, and so stays out of the lists  *)
(* of what is still to be answered, unless a change of its status had read *)
(* it before the conversion and was written after (updateStatus).          *)
LeadIsQualified == (LeadOf # None /\ ~overtaken) => eStatus = "Qualified"
=============================================================================
