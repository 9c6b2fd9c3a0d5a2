------------------------------- MODULE Requests -------------------------------
(***************************************************************************)
(* What employees ask for: leaves, cash advances, reimbursements and car   *)
(* reservations.  They share no table that matters here, so each behaviour *)
(* is one of them, chosen at the beginning, and the others stand still.    *)
(***************************************************************************)
EXTENDS LeaveRequest, Integers

CONSTANTS
  Requests, Clashes, Cars, None, MaxActions, MaxFailures,        \* of cars
  MaxDecisions, MaxLost,                                         \* of a cash advance
  Receipts, Claimed, Amounts, Payers, MaxSteps, MaxBroken        \* of a reimbursement

VARIABLES
  which,
  cStatus, car, cTrail, cHandler, unseen, cActions, cFailures,
  aStatus, aTrail, aHandler, payments, lost, stale, aActions, aFailures,
  rStatus, approved, receipt, rTrail, deleted, rHandler, rPayments, rStale, torn, rActions,
  rFailures

carVars == <<cStatus, car, cTrail, cHandler, unseen, cActions, cFailures>>
cashVars == <<aStatus, aTrail, aHandler, payments, lost, stale, aActions, aFailures>>
reimbVars ==
  <<rStatus, approved, receipt, rTrail, deleted, rHandler, rPayments, rStale, torn, rActions,
    rFailures>>

Car == INSTANCE CarReservation WITH
  status <- cStatus, trail <- cTrail, handler <- cHandler,
  actions <- cActions, failures <- cFailures

Cash == INSTANCE CashAdvance WITH
  MaxActions <- MaxDecisions, MaxFailures <- MaxLost,
  status <- aStatus, trail <- aTrail, handler <- aHandler,
  actions <- aActions, failures <- aFailures

Reimb == INSTANCE Reimbursement WITH
  Handlers <- Payers, MaxActions <- MaxSteps, MaxFailures <- MaxBroken,
  status <- rStatus, trail <- rTrail, handler <- rHandler, payments <- rPayments,
  stale <- rStale, actions <- rActions, failures <- rFailures

\* Two requests overlap or they do not, whichever comes first, and each is one request.
CarAssumption ==
  /\ \A r, s \in Requests : <<r, s>> \in Clashes => <<s, r>> \in Clashes /\ r # s
  /\ MaxActions \in Nat /\ MaxFailures \in Nat

CashAssumption == MaxDecisions \in Nat /\ MaxLost \in Nat

ReimbAssumption ==
  Amounts \subseteq Int /\ None \notin Amounts /\ Receipts \cap {"row", "trail"} = {}

ASSUME RequestsAssumption == CarAssumption /\ CashAssumption /\ ReimbAssumption

RequestsInit ==
  /\ which \in {"leave", "cash", "reimbursement", "car"}
  /\ Init /\ Cash!Init /\ Reimb!Init /\ Car!Init

RequestsNext ==
  \/ which = "leave" /\ Next /\ UNCHANGED <<which, cashVars, reimbVars, carVars>>
  \/ which = "cash" /\ Cash!Next /\ UNCHANGED <<which, vars, reimbVars, carVars>>
  \/ which = "reimbursement" /\ Reimb!Next /\ UNCHANGED <<which, vars, cashVars, carVars>>
  \/ which = "car" /\ Car!Next /\ UNCHANGED <<which, vars, cashVars, reimbVars>>

RequestsSpec ==
  RequestsInit /\ [][RequestsNext]_<<which, vars, cashVars, reimbVars, carVars>>

(* Nobody is paid an advance HR has not granted, or twice, and a           *)
(* reimbursement is paid once, with the sum of the receipts that were      *)
(* granted, but for the causes CashAdvance and Reimbursement name.         *)
PaidAsGranted ==
  /\ which = "cash" => Cash!PaidWasGranted /\ Cash!PaidOnce
  /\ which = "reimbursement" => Reimb!ReimbursedOnce /\ Reimb!AmountAddsUp

(* No car is booked twice for the same time unless one approval fell       *)
(* between the check and the write of the other.                           *)
NoDoubleBooking == which = "car" => Car!NoDoubleBooking
=============================================================================
