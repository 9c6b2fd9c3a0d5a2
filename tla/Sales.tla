--------------------------------- MODULE Sales ---------------------------------
(***************************************************************************)
(* From an enquiry to a project: an enquiry on its way to a lead           *)
(* (EnquiryLead), the quotations of a lead with their copies in Xero       *)
(* (Quotation and XeroQuotes), and the teams of projects (ProjectTeam).    *)
(* They share nothing that matters here, so each behaviour is one of them, *)
(* chosen at the beginning.                                                *)
(***************************************************************************)
EXTENDS ProjectTeam, FiniteSets, TLC

CONSTANTS
  Quotations, Sellers, QuoteWorkers, MaxOffers,   \* of quotations
  Leads, Notes, Files, Askers, MaxAsked           \* of an enquiry

VARIABLES
  which,
  qStatus, lead, project, qQueue, seller, replaces, raced, broken, closed, qActions, qFailures,
  qXero, qRef, qJob, created, jobRaced, jobBroken,
  eStatus, removed, leadState, enquiryOf, item, eHandler, stale, halfway, overtaken,
  eActions, eFailures

quoteVars ==
  <<qStatus, lead, project, qQueue, seller, replaces, raced, broken, closed, qActions, qFailures,
    qXero, qRef, qJob, created, jobRaced, jobBroken>>
enquiryVars ==
  <<eStatus, removed, leadState, enquiryOf, item, eHandler, stale, halfway, overtaken,
    eActions, eFailures>>

Quotes == INSTANCE XeroQuotes WITH
  Handlers <- Sellers, Workers <- QuoteWorkers, MaxActions <- MaxOffers,
  status <- qStatus, queue <- qQueue, handler <- seller, actions <- qActions,
  failures <- qFailures, xero <- qXero, ref <- qRef, job <- qJob

Enquiry == INSTANCE EnquiryLead WITH
  Handlers <- Askers, MaxActions <- MaxAsked,
  handler <- eHandler, actions <- eActions, failures <- eFailures

\* Nothing is not a quotation, a project or a lead; a quotation is not a project; and Bull runs
\* so many jobs at once.
QuoteAssumption ==
  None \notin Quotations \cup {"project"} /\ "project" \notin Quotations /\ IsFiniteSet(QuoteWorkers)

ASSUME SalesAssumption == QuoteAssumption /\ None \notin Leads

SalesInit ==
  /\ which \in {"quotations", "enquiry", "team"}
  /\ Quotes!Init /\ Enquiry!Init /\ Init

SalesNext ==
  \/ which = "quotations" /\ Quotes!Next /\ UNCHANGED <<which, enquiryVars, vars>>
  \/ which = "enquiry" /\ Enquiry!Next /\ UNCHANGED <<which, quoteVars, vars>>
  \/ which = "team" /\ Next /\ UNCHANGED <<which, quoteVars, enquiryVars>>

SalesSpec == SalesInit /\ [][SalesNext]_<<which, quoteVars, enquiryVars, vars>>

(* A quotation is withdrawn only for one that is there, Xero shows each    *)
(* with its status once nothing is left to do, and the project is created  *)
(* there once, but for the causes Quotation and XeroQuotes name.           *)
OffersAgree ==
  which = "quotations" =>
    Quotes!RevisedHasSuccessor /\ Quotes!QuotesAgree /\ Quotes!ProjectCreatedOnce

(* An enquiry that has a lead is qualified and takes its items along, but  *)
(* for the causes EnquiryLead names.                                       *)
EnquiryBecomesLead == which = "enquiry" => Enquiry!ItemsFollowLead /\ Enquiry!LeadIsQualified
-----------------------------------------------------------------------------
(* What TLC checks: users change their roles, one is in both lists, one     *)
(* list is missing; representatives change, and clients come along.        *)
Team(incharge, support, both, rep, clients) ==
  [incharge |-> incharge, support |-> support, both |-> both, rep |-> rep, clients |-> clients]

MCAsks ==
  {Team({"u1"}, {"u2"}, TRUE, "c1", {}), Team({"u2"}, {"u1"}, TRUE, "c2", {"c1"}),
   Team({"u1", "u2"}, {"u1"}, TRUE, "c2", {}), Team({"u1"}, {}, FALSE, None, {"c1", "c2"})}

\* What is not looked at is in one state.
MCInit == SalesInit /\ (which # "quotations" => project = "none")

MCSpec == MCInit /\ [][SalesNext]_<<which, quoteVars, enquiryVars, vars>>

Symmetry ==
  Permutations(Quotations) \cup Permutations(Requests)
  \cup Permutations(QuoteWorkers) \cup Permutations(Projects)
=============================================================================
