-------------------------------- MODULE Billing --------------------------------
(***************************************************************************)
(* Who is billed, and for what: invoices that compete for milestones,      *)
(* invoices that Xero rewrites, which no request disturbs then, and a      *)
(* client with its contact in Xero (XeroContact).  Each behaviour is one   *)
(* of them, chosen at the beginning.                                       *)
(***************************************************************************)
EXTENDS Invoicing, TLC

CONSTANTS
  Rewritten, Shares,                                         \* what Xero rewrites
  Contacts, Names, None, Editors, DocumentJobs, Listeners, MaxEdits, MaxBreaks   \* of a client

VARIABLES
  which,
  client, emailed, refs, others, pending, cQueue, cJob, contact, unseen, cRecent, cEvents,
  cHook, crossed, cActions, cFailures

contactVars ==
  <<client, emailed, refs, others, pending, cQueue, cJob, contact, unseen, cRecent, cEvents, cHook,
    crossed, cActions, cFailures>>

Echo == INSTANCE Invoicing WITH
  Invoices <- Rewritten, InXero <- Rewritten, Milestones <- Shares, MaxFailures <- 0

Client == INSTANCE XeroContact WITH
  Requests <- Editors, Hooks <- Listeners, MaxActions <- MaxEdits, MaxFailures <- MaxBreaks,
  queue <- cQueue, job <- cJob, recent <- cRecent, events <- cEvents, hook <- cHook,
  actions <- cActions, failures <- cFailures

BillingInit ==
  /\ which \in {"bill", "echo", "client"}
  /\ IF which = "echo" THEN Echo!Init ELSE Init
  /\ Client!Init

BillingNext ==
  \/ which = "bill" /\ Next /\ UNCHANGED <<which, contactVars>>
  \/ which = "echo" /\ Echo!Next /\ UNCHANGED <<which, contactVars>>
  \/ which = "client" /\ Client!Next /\ UNCHANGED <<which, vars>>

BillingSpec == BillingInit /\ [][BillingNext]_<<which, vars, contactVars>>

(* The contact of a client has its name, and is archived with it, but for  *)
(* the causes XeroContact names.                                           *)
ContactAgrees == Client!ContactAgrees
-----------------------------------------------------------------------------
(* What TLC checks: what is not looked at is in one state, and requests     *)
(* are alike.                                                              *)
MCInit ==
  BillingInit
  /\ (which # "client" => emailed /\ contact = <<>> /\ client.name = CHOOSE n \in Names : TRUE)

MCSpec == MCInit /\ [][BillingNext]_<<which, vars, contactVars>>

Symmetry == Permutations(Handlers)
=============================================================================
