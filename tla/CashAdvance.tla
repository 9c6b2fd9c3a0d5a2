------------------------------ MODULE CashAdvance ------------------------------
(***************************************************************************)
(* One request for a cash advance: src/src/modules/cash-advance.           *)
(*                                                                         *)
(* HR, a manager and finance decide on it, and its owner may withdraw it.  *)
(* Each reads the request, and then writes the status and a row of the     *)
(* trail of actions at the same time (Promise.all): either can fail alone, *)
(* and whatever others do in between is not looked at again.               *)
(***************************************************************************)
EXTENDS Integers

CONSTANTS
  Handlers,     \* requests to the server in progress at once
  MaxActions,   \* bound on the requests to the server
  MaxFailures   \* bound on the queries that fail

Status == {"submitted", "approved", "partially_approved", "rejected", "withdrawn",
           "paid_and_closed"}
Depts == {"hr", "manager", "finance"}
Granted == {"approved", "partially_approved"}

VARIABLES
  status,
  trail,     \* AdminAction: how often each department has granted and refused
  handler,
  payments,  \* history: how often the advance was set to paid
  lost,      \* history: the departments whose row of the trail was not written
  stale,     \* history: was a status replaced that its writer had not seen?
  actions, failures

vars == <<status, trail, handler, payments, lost, stale, actions, failures>>

\* dept: who decides, the owner to withdraw. todo: the writes still to come.
Handler ==
  [dept: Depts \cup {"owner", "none"}, seen: Status, to: Status,
   todo: SUBSET {"status", "trail"}]

Idle == [dept |-> "none", seen |-> "submitted", to |-> "submitted", todo |-> {}]

TypeOK ==
  /\ status \in Status
  /\ trail \in [Depts \X {"Approved", "Rejected"} -> Nat]
  /\ handler \in [Handlers -> Handler]
  /\ payments \in Nat /\ lost \subseteq Depts /\ stale \in BOOLEAN
  /\ actions \in 0..MaxActions /\ failures \in 0..MaxFailures

Init ==
  /\ status = "submitted"
  /\ trail = [e \in Depts \X {"Approved", "Rejected"} |-> 0]
  /\ handler = [h \in Handlers |-> Idle]
  /\ payments = 0 /\ lost = {} /\ stale = FALSE
  /\ actions = 0 /\ failures = 0

\* h has read the request, and dept decides to set it to a status.
Decide(h, dept, to, todo) ==
  /\ handler[h].dept = "none" /\ actions < MaxActions
  /\ actions' = actions + 1
  /\ handler' = [handler EXCEPT ![h] =
       [dept |-> dept, seen |-> status, to |-> to, todo |-> todo]]
  /\ UNCHANGED <<status, trail, payments, lost, stale, failures>>

\* A mutated form of HrUpdate: HR decides again on an advance that was paid.
HrReopens(h) ==
  /\ status # "withdrawn"
  /\ \E to \in Granted \cup {"rejected"} : Decide(h, "hr", to, {"status", "trail"})

\* HR grants all, grants less, or rejects; also what was decided before.
HrUpdate(h) ==
  /\ status \notin {"withdrawn", "paid_and_closed"}
  /\ \E to \in Granted \cup {"rejected"} : Decide(h, "hr", to, {"status", "trail"})

ManagerUpdate(h) ==
  /\ status \in Granted
  /\ \E to \in Granted \cup {"rejected"} : Decide(h, "manager", to, {"status", "trail"})

\* A mutated form of FinanceUpdate: finance decides as soon as the advance was requested.
FinanceAtOnce(h) ==
  /\ status \in Granted \cup {"submitted"}
  /\ \E to \in {"paid_and_closed", "rejected"} : Decide(h, "finance", to, {"status", "trail"})

FinanceUpdate(h) ==
  /\ status \in Granted
  /\ \E to \in {"paid_and_closed", "rejected"} : Decide(h, "finance", to, {"status", "trail"})

Withdraw(h) ==
  /\ status \notin {"paid_and_closed", "rejected"}
  /\ Decide(h, "owner", "withdrawn", {"status"})

\* The handler answers when both writes have come back.
Done(h, w) ==
  handler' = [handler EXCEPT ![h] =
    IF handler[h].todo = {w} THEN Idle
    ELSE [handler[h] EXCEPT !.todo = handler[h].todo \ {w}]]

WriteStatus(h) ==
  /\ "status" \in handler[h].todo
  /\ status' = handler[h].to
  /\ payments' = IF handler[h].to = "paid_and_closed" THEN payments + 1 ELSE payments
  /\ stale' = (stale \/ status # handler[h].seen)
  /\ Done(h, "status")
  /\ UNCHANGED <<trail, lost, actions, failures>>

\* The manager's trail knows approved, and takes everything else as rejected.
Entry(h) ==
  LET grants == CASE handler[h].dept = "hr" -> Granted
                  [] handler[h].dept = "manager" -> {"approved"}
                  [] OTHER -> {"paid_and_closed"}
  IN  <<handler[h].dept, IF handler[h].to \in grants THEN "Approved" ELSE "Rejected">>

WriteTrail(h) ==
  /\ "trail" \in handler[h].todo
  /\ trail' = [trail EXCEPT ![Entry(h)] = @ + 1]
  /\ Done(h, "trail")
  /\ UNCHANGED <<status, payments, lost, stale, actions, failures>>

\* One of the two writes fails; the other one goes on.
WriteFails(h, w) ==
  /\ w \in handler[h].todo /\ failures < MaxFailures
  /\ failures' = failures + 1
  /\ lost' = IF w = "trail" THEN lost \cup {handler[h].dept} ELSE lost
  /\ Done(h, w)
  /\ UNCHANGED <<status, trail, payments, stale, actions>>

Next ==
  \E h \in Handlers :
    \/ HrUpdate(h) \/ ManagerUpdate(h) \/ FinanceUpdate(h) \/ Withdraw(h)
    \/ WriteStatus(h) \/ WriteTrail(h)
    \/ \E w \in {"status", "trail"} : WriteFails(h, w)

Spec == Init /\ [][Next]_vars

-----------------------------------------------------------------------------
(* Properties.                                                             *)

\* dept's entry is on the trail, about to be, or its row was lost.
OnTrail(dept) ==
  \/ trail[<<dept, "Approved">>] > 0
  \/ dept \in lost
  \/ \E h \in Handlers : handler[h].dept = dept /\ "trail" \in handler[h].todo

(* Nobody is paid whom HR has not granted the advance, whatever the order  *)
(* in which the departments' writes arrive: hrUpdate and financeUpdate.    *)
PaidWasGranted == payments > 0 => OnTrail("hr")

(* An advance is paid at most once, unless somebody's decision replaced a  *)
(* status it had not seen: financeUpdate reads the status it is to pay on, *)
(* and hrUpdate the one it decides on, before they write.                  *)
PaidOnce == payments > 1 => stale
=============================================================================
