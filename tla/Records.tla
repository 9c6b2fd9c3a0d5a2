-------------------------------- MODULE Records --------------------------------
(***************************************************************************)
(* What an office looks at and keeps in step: the tasks of a column        *)
(* (TaskOrder), the filters of a listing (ListFilters) and its pages       *)
(* (ListPages), and what Xero has of this system: an invoice with its      *)
(* status (XeroInvoice), and the items of an invoice or a quotation with   *)
(* their lines (XeroLines). They share nothing, so each behaviour is one   *)
(* of them, chosen at the beginning.                                       *)
(***************************************************************************)
EXTENDS XeroInvoice, FiniteSets

CONSTANTS
  Tasks, Columns, Movers, New, Far, MaxMoves,      \* of tasks
  Ids, SortKey, PerPage, MaxComings,               \* of its pages
  Titles, None, Editors, Imports, MaxEdits         \* of items and lines

VARIABLES
  which,
  rows, tStatus, order, deleted, support, mover, moves, tFailures,
  listing, asked, condition, answered,
  pListing, found, page, read, count, listed, again, stayed, came, left, overtaken, comings,
  doc, sent, items, lastId, total, lines, lastRef, inXero, draft, foreign, lQueue, lJob, lRecent,
  lEvents, editor, import, raced, twins, broken, undone, edits, lFailures

taskVars == <<rows, tStatus, order, deleted, support, mover, moves, tFailures>>
listVars == <<listing, asked, condition, answered>>
pageVars ==
  <<pListing, found, page, read, count, listed, again, stayed, came, left, overtaken, comings>>
linesVars ==
  <<doc, sent, items, lastId, total, lines, lastRef, inXero, draft, foreign, lQueue, lJob, lRecent,
    lEvents, editor, import, raced, twins, broken, undone, edits, lFailures>>

Task == INSTANCE TaskOrder WITH
  Handlers <- Movers, MaxActions <- MaxMoves,
  status <- tStatus, handler <- mover, actions <- moves, failures <- tFailures

List == INSTANCE ListFilters

Pages == INSTANCE ListPages WITH Key <- SortKey, listing <- pListing

Lines == INSTANCE XeroLines WITH
  Handlers <- Editors, MaxActions <- MaxEdits,
  queue <- lQueue, job <- lJob, recent <- lRecent, events <- lEvents,
  handler <- editor, actions <- edits, failures <- lFailures

\* Ids and orders are numbers, and a table is finite.
TaskAssumption == Tasks \subseteq Int /\ New \in Int /\ Far \in Int /\ IsFiniteSet(Tasks)

\* Keys are numbers, and there are tables of more than one row.
PagesAssumption ==
  /\ Ids \subseteq Int /\ IsFiniteSet(Ids) /\ \E i, j \in Ids : i # j
  /\ \A i \in Ids : SortKey[i] \in Int
  /\ PerPage \in Nat \ {0}

\* No reference is no number.
LinesAssumption == None \notin Int

ASSUME RecordsAssumption == TaskAssumption /\ PagesAssumption /\ LinesAssumption

RecordsInit ==
  /\ which \in {"tasks", "listing", "pages", "xero", "lines"}
  /\ Task!Init /\ List!Init /\ Pages!Init /\ Init /\ Lines!Init

RecordsNext ==
  \/ which = "tasks" /\ Task!Next /\ UNCHANGED <<which, listVars, pageVars, vars, linesVars>>
  \/ which = "listing" /\ List!Next /\ UNCHANGED <<which, taskVars, pageVars, vars, linesVars>>
  \/ which = "pages" /\ Pages!Next /\ UNCHANGED <<which, taskVars, listVars, vars, linesVars>>
  \/ which = "xero" /\ Next /\ UNCHANGED <<which, taskVars, listVars, pageVars, linesVars>>
  \/ which = "lines" /\ Lines!Next /\ UNCHANGED <<which, taskVars, listVars, pageVars, vars>>

RecordsSpec ==
  RecordsInit /\ [][RecordsNext]_<<which, taskVars, listVars, pageVars, vars, linesVars>>

(* A task that is moved by the only request is where it was asked to be,   *)
(* unless a write of the move failed (updateTaskOrder).                    *)
MoveLands == which = "tasks" => Task!MoveLands

(* Tasks of a column that nobody moves keep their order.                   *)
OthersKeepOrder == Task!OthersKeepOrder

(* Every filter a request gives reaches the query, and every row that      *)
(* stays is on a page, but for the listings and the causes ListFilters and *)
(* ListPages name.                                                         *)
ListingsAreWhole ==
  /\ which = "listing" => List!EveryFilterCounts
  /\ which = "pages" => Pages!EveryRowIsListed

(* Once nothing is left to do, the lines in Xero are the items here, but   *)
(* for the causes XeroLines names.                                         *)
ItemsMatchLines == which = "lines" => Lines!LinesAgree /\ Lines!ProgressStays
=============================================================================
