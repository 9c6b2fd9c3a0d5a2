---------------------------- MODULE CarReservation ----------------------------
(***************************************************************************)
(* Reservations of company cars: src/src/modules/car-reservation.          *)
(*                                                                         *)
(* The controller asks whether the car is free in the requested time, and  *)
(* only then calls the service, which reads the request, adds to the trail *)
(* and approves. Another approval of the car may come in between.          *)
(***************************************************************************)
EXTENDS Integers, FiniteSets

CONSTANTS
  Requests,     \* the rows of table CarReservationRequest
  Clashes,      \* the pairs of requests whose times overlap
  Cars,
  Handlers,     \* requests to the server in progress at once
  None,         \* no car, no request
  MaxActions,   \* bound on the requests to the server
  MaxFailures   \* bound on the queries that fail

Status == {"submitted", "approved", "rejected", "withdrawn"}

VARIABLES
  status, car,  \* of each request
  trail,        \* AdminAction: the requests HR has acted on
  handler,
  unseen,       \* history: what was approved between the check and the write of a request
  actions, failures

vars == <<status, car, trail, handler, unseen, actions, failures>>

\* missed: the requests approved since the car was found to be free.
Handler ==
  [pc: {"idle", "read", "trail", "write", "withdraw"}, request: Requests \cup {None},
   to: Status, car: Cars \cup {None}, missed: SUBSET Requests]

Idle == [pc |-> "idle", request |-> None, to |-> "submitted", car |-> None, missed |-> {}]

TypeOK ==
  /\ status \in [Requests -> Status]
  /\ car \in [Requests -> Cars \cup {None}]
  /\ trail \subseteq Requests
  /\ handler \in [Handlers -> Handler]
  /\ unseen \in [Requests -> SUBSET Requests]
  /\ actions \in 0..MaxActions /\ failures \in 0..MaxFailures

Init ==
  /\ status = [r \in Requests |-> "submitted"]
  /\ car = [r \in Requests |-> None]
  /\ trail = {}
  /\ handler = [h \in Handlers |-> Idle]
  /\ unseen = [r \in Requests |-> {}]
  /\ actions = 0 /\ failures = 0

\* checkAvailability: no approved request of the car overlaps, r itself included.
Free(c, r) ==
  \A s \in Requests : status[s] = "approved" /\ car[s] = c => s # r /\ <<r, s>> \notin Clashes

Starts(h, new) ==
  /\ handler[h].pc = "idle" /\ actions < MaxActions
  /\ actions' = actions + 1
  /\ handler' = [handler EXCEPT ![h] = new]

Goes(h, pc) == handler' = [handler EXCEPT ![h].pc = pc]

Ends(h) == handler' = [handler EXCEPT ![h] = Idle]

\* A mutated form of Approve: submitRequest gives up the approval, and a second check is not made.
ApproveUnchecked(h, r, c) ==
  /\ Free(c, r) \/ car[r] = c
  /\ Starts(h, [pc |-> "read", request |-> r, to |-> "approved", car |-> c, missed |-> {}])
  /\ UNCHANGED <<status, car, trail, unseen, failures>>

(* hrAction of the controller: the check, made for approvals only.         *)
Approve(h, r, c) ==
  /\ Free(c, r)
  /\ Starts(h, [pc |-> "read", request |-> r, to |-> "approved", car |-> c, missed |-> {}])
  /\ UNCHANGED <<status, car, trail, unseen, failures>>

Reject(h, r) ==
  /\ Starts(h, [Idle EXCEPT !.pc = "read", !.request = r, !.to = "rejected"])
  /\ UNCHANGED <<status, car, trail, unseen, failures>>

(* hrUpdate: the request must be submitted; then the trail, then the row.  *)
HrRead(h) ==
  /\ handler[h].pc = "read"
  /\ IF status[handler[h].request] = "submitted" THEN Goes(h, "trail") ELSE Ends(h)
  /\ UNCHANGED <<status, car, trail, unseen, actions, failures>>

HrTrail(h) ==
  /\ handler[h].pc = "trail"
  /\ trail' = trail \cup {handler[h].request}
  /\ Goes(h, "write")
  /\ UNCHANGED <<status, car, unseen, actions, failures>>

\* A rejection is given no car, and leaves the one there is.
HrWrite(h) ==
  LET r == handler[h].request
      to == handler[h].to
  IN  /\ handler[h].pc = "write"
      /\ status' = [status EXCEPT ![r] = to]
      /\ IF to = "approved"
         THEN /\ car' = [car EXCEPT ![r] = handler[h].car]
              /\ unseen' = [unseen EXCEPT ![r] = handler[h].missed]
              /\ handler' = [g \in Handlers |->
                   IF g = h THEN Idle ELSE [handler[g] EXCEPT !.missed = @ \cup {r}]]
         ELSE Ends(h) /\ UNCHANGED <<car, unseen>>
      /\ UNCHANGED <<trail, actions, failures>>

(* withdraw: refused after a rejection only.                               *)
WithdrawRead(h, r) ==
  /\ status[r] # "rejected"
  /\ Starts(h, [Idle EXCEPT !.pc = "withdraw", !.request = r])
  /\ UNCHANGED <<status, car, trail, unseen, failures>>

WithdrawWrite(h) ==
  /\ handler[h].pc = "withdraw"
  /\ status' = [status EXCEPT ![handler[h].request] = "withdrawn"]
  /\ Ends(h)
  /\ UNCHANGED <<car, trail, unseen, actions, failures>>

(* submitRequest: from every status, the approved one included.            *)
SubmitRequest(r) ==
  /\ actions < MaxActions /\ actions' = actions + 1
  /\ status' = [status EXCEPT ![r] = "submitted"]
  /\ UNCHANGED <<car, trail, handler, unseen, failures>>

QueryFails(h) ==
  /\ handler[h].pc # "idle" /\ failures < MaxFailures
  /\ failures' = failures + 1
  /\ Ends(h)
  /\ UNCHANGED <<status, car, trail, unseen, actions>>

Next ==
  \/ \E h \in Handlers, r \in Requests :
       (\E c \in Cars : Approve(h, r, c)) \/ Reject(h, r) \/ WithdrawRead(h, r)
  \/ \E h \in Handlers :
       HrRead(h) \/ HrTrail(h) \/ HrWrite(h) \/ WithdrawWrite(h) \/ QueryFails(h)
  \/ \E r \in Requests : SubmitRequest(r)

Spec == Init /\ [][Next]_vars

-----------------------------------------------------------------------------
(* Properties.                                                             *)

(* A car is booked twice for the same time only if one of the approvals    *)
(* was written between the other's check (controller.ts:164) and its write *)
(* (service.ts:149), whatever is withdrawn and submitted again meanwhile.  *)
NoDoubleBooking ==
  \A r, s \in Requests :
    /\ <<r, s>> \in Clashes
    /\ status[r] = "approved" /\ status[s] = "approved" /\ car[r] = car[s]
    => s \in unseen[r] \/ r \in unseen[s]
=============================================================================
