----------------------------- MODULE Reimbursement -----------------------------
(***************************************************************************)
(* One reimbursement with its receipts: src/src/modules/reimbursement.     *)
(*                                                                         *)
(* HR decides on every receipt at once; the receipts, the reimbursement    *)
(* and the trail are then written at the same time (Promise.all). Finance  *)
(* pays or rejects what HR has granted, and the owner may withdraw.        *)
(***************************************************************************)
EXTENDS Integers, FiniteSetsExt

CONSTANTS
  Receipts,
  Claimed,      \* the claimed amount of each receipt
  Amounts,      \* the amounts HR grants
  Handlers,     \* requests to the server in progress at once
  None,         \* HR has not granted an amount
  MaxActions,   \* bound on the requests to the server
  MaxFailures   \* bound on the queries that fail

Status == {"submitted", "approved", "partially_approved", "rejected", "withdrawn",
           "paid_and_closed"}
Granted == {"approved", "partially_approved"}

VARIABLES
  status,
  approved,  \* approvedAmount of the reimbursement
  receipt,   \* approvedAmount of each receipt
  trail,     \* AdminAction: the departments that have acted
  deleted,
  handler,
  payments,  \* history: how often the reimbursement was set to paid
  stale,     \* history: was a status replaced that its writer had not seen?
  torn,      \* history: two decisions of HR overlapped, or one was cut short
  actions, failures

vars ==
  <<status, approved, receipt, trail, deleted, handler, payments, stale, torn, actions, failures>>

\* grant: HR's amounts. total: their sum as the code adds it up.
Handler ==
  [dept: {"hr", "finance", "owner", "none"}, seen: Status, to: Status,
   grant: [Receipts -> Amounts \cup {0}], total: Nat,
   todo: SUBSET (Receipts \cup {"row", "trail"})]

Nothing == [r \in Receipts |-> 0]

Idle ==
  [dept |-> "none", seen |-> "submitted", to |-> "submitted", grant |-> Nothing,
   total |-> 0, todo |-> {}]

Total(f) == MapThenSumSet(LAMBDA r : f[r], Receipts)

TypeOK ==
  /\ status \in Status
  /\ approved \in Nat \cup {None}
  /\ receipt \in [Receipts -> Nat \cup {None}]
  /\ trail \subseteq {"hr", "finance"}
  /\ deleted \in BOOLEAN
  /\ handler \in [Handlers -> Handler]
  /\ payments \in Nat /\ stale \in BOOLEAN /\ torn \in BOOLEAN
  /\ actions \in 0..MaxActions /\ failures \in 0..MaxFailures

Init ==
  /\ status = "submitted" /\ approved = None /\ receipt = [r \in Receipts |-> None]
  /\ trail = {} /\ deleted = FALSE
  /\ handler = [h \in Handlers |-> Idle]
  /\ payments = 0 /\ stale = FALSE /\ torn = FALSE
  /\ actions = 0 /\ failures = 0

Starts(h, new) ==
  /\ handler[h].dept = "none" /\ actions < MaxActions
  /\ actions' = actions + 1
  /\ handler' = [handler EXCEPT ![h] = new]

Goes(h, w) ==
  handler' = [handler EXCEPT ![h] =
    IF handler[h].todo = {w} THEN Idle
    ELSE [handler[h] EXCEPT !.todo = handler[h].todo \ {w}]]

Deciding == {h \in Handlers : handler[h].dept = "hr"}

\* A mutated form of HrUpdate: the amounts of rejected receipts are counted as they are claimed.
HrUpdateCountsClaims(h, grant, twice) ==
  LET total == Total(Claimed)
  IN  /\ status = "submitted"
      /\ Starts(h, [dept |-> "hr", seen |-> status, grant |-> grant, total |-> total,
           to |-> IF total = 0 THEN "rejected"
                  ELSE IF total = Total(Claimed) THEN "approved" ELSE "partially_approved",
           todo |-> Receipts \cup {"row", "trail"}])
      /\ torn' = (torn \/ Deciding # {} \/ twice # {})
      /\ UNCHANGED <<status, approved, receipt, trail, deleted, payments, stale, failures>>

\* The action of HR on every receipt. A receipt the body lists twice is
\* counted twice: only the receipts found are compared with those there are.
HrUpdate(h, grant, twice) ==
  LET total == Total([r \in Receipts |-> IF r \in twice THEN 2 * grant[r] ELSE grant[r]])
  IN  /\ status = "submitted"
      /\ Starts(h, [dept |-> "hr", seen |-> status, grant |-> grant, total |-> total,
           to |-> IF total = 0 THEN "rejected"
                  ELSE IF total = Total(Claimed) THEN "approved" ELSE "partially_approved",
           todo |-> Receipts \cup {"row", "trail"}])
      /\ torn' = (torn \/ Deciding # {} \/ twice # {})
      /\ UNCHANGED <<status, approved, receipt, trail, deleted, payments, stale, failures>>

FinanceUpdate(h) ==
  /\ status \in Granted
  /\ \E to \in {"paid_and_closed", "rejected"} :
       Starts(h, [Idle EXCEPT !.dept = "finance", !.seen = status, !.to = to,
                              !.todo = {"row", "trail"}])
  /\ UNCHANGED <<status, approved, receipt, trail, deleted, payments, stale, torn, failures>>

Withdraw(h) ==
  /\ status \notin {"paid_and_closed", "rejected"}
  /\ Starts(h, [Idle EXCEPT !.dept = "owner", !.seen = status, !.to = "withdrawn",
                            !.todo = {"row"}])
  /\ UNCHANGED <<status, approved, receipt, trail, deleted, payments, stale, torn, failures>>

\* Nothing else reads isDeleted of a reimbursement it is given the id of.
Remove ==
  /\ actions < MaxActions /\ actions' = actions + 1
  /\ deleted' = TRUE
  /\ UNCHANGED <<status, approved, receipt, trail, handler, payments, stale, torn, failures>>

\* Finance writes the trail first and then the row; HR writes all at once.
Ready(h, w) ==
  /\ w \in handler[h].todo
  /\ w = "row" /\ handler[h].dept = "finance" => "trail" \notin handler[h].todo

WriteReceipt(h, r) ==
  /\ Ready(h, r)
  /\ receipt' = [receipt EXCEPT ![r] = handler[h].grant[r]]
  /\ Goes(h, r)
  /\ UNCHANGED <<status, approved, trail, deleted, payments, stale, torn, actions, failures>>

WriteRow(h) ==
  /\ Ready(h, "row")
  /\ status' = handler[h].to
  /\ approved' = IF handler[h].dept = "hr" THEN handler[h].total ELSE approved
  /\ payments' = IF handler[h].to = "paid_and_closed" THEN payments + 1 ELSE payments
  /\ stale' = (stale \/ status # handler[h].seen)
  /\ Goes(h, "row")
  /\ UNCHANGED <<receipt, trail, deleted, torn, actions, failures>>

WriteTrail(h) ==
  /\ Ready(h, "trail")
  /\ trail' = trail \cup {handler[h].dept}
  /\ Goes(h, "trail")
  /\ UNCHANGED <<status, approved, receipt, deleted, payments, stale, torn, actions, failures>>

\* A write fails. HR's other writes go on; finance stops.
WriteFails(h, w) ==
  /\ Ready(h, w) /\ failures < MaxFailures
  /\ failures' = failures + 1
  /\ torn' = (torn \/ handler[h].dept = "hr")
  /\ IF handler[h].dept = "finance" THEN handler' = [handler EXCEPT ![h] = Idle] ELSE Goes(h, w)
  /\ UNCHANGED <<status, approved, receipt, trail, deleted, payments, stale, actions>>

Next ==
  \/ Remove
  \/ \E h \in Handlers :
       \/ \E grant \in [Receipts -> Amounts], twice \in SUBSET Receipts :
            HrUpdate(h, grant, twice)
       \/ FinanceUpdate(h) \/ Withdraw(h)
       \/ WriteRow(h) \/ WriteTrail(h)
       \/ \E r \in Receipts : WriteReceipt(h, r)
       \/ \E w \in Receipts \cup {"row", "trail"} : WriteFails(h, w)

Spec == Init /\ [][Next]_vars

-----------------------------------------------------------------------------
(* Properties.                                                             *)

(* When no decision of HR is being written, the amount of a reimbursement  *)
(* is the sum of what its receipts were granted, unless two decisions were *)
(* mixed, a write failed, or a receipt was listed twice: hrUpdate.         *)
AmountAddsUp ==
  approved # None /\ Deciding = {} /\ ~torn =>
    /\ \A r \in Receipts : receipt[r] # None
    /\ approved = Total(receipt)
    /\ status \in Granted => approved # 0

(* A reimbursement is paid at most once, unless a decision replaced a      *)
(* status it had not seen: financeUpdate reads the status two queries      *)
(* before it writes the new one.                                           *)
ReimbursedOnce == payments > 1 => stale
=============================================================================
