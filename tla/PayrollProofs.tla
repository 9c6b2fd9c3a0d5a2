----------------------------- MODULE PayrollProofs -----------------------------
(***************************************************************************)
(* When requests on payrolls take turns, for any number of users, payrolls *)
(* and jobs, and whatever restarts and errors: what was paid stays paid,   *)
(* and everyone is accounted for when the cycle has been processed. When   *)
(* requests on payrolls also wait for that, a user has one payroll, and    *)
(* its figures agree. At the end, the salary that a payroll takes, the     *)
(* dates of the cycles, the files and the sheets of the reports, and what  *)
(* a payroll is computed from.                                             *)
(***************************************************************************)
EXTENDS PayDates, FiniteSetTheorems, WellFoundedInduction, TLAPS

\* A request waits until the one before it has been answered.
Sequential == \A c, d \in Clients : c = d

Recalculating == {"mark", "clear", "check", "read", "write"}

\* A request is on a payroll that is there.
OnPresent ==
  \A c \in Clients :
    client[c].pc \in Recalculating \cup {"rows", "update", "remove"} => client[c].id \in Present

\* Whoever is about to write paid = FALSE does it to a payroll that is not paid.
Unpaid == \A c \in Clients : client[c].pc \in Recalculating => payroll[client[c].id].paid = FALSE

\* A payroll that is still to be created is not paid.
Fresh == \A p \in Ids : payroll[p].user = None => payroll[p].paid = FALSE

\* What a recalculation has counted are days.
Counted == \A c \in Clients : client[c].pc \in {"write", "rows"} => client[c].m \in Days

IInv == TypeOK /\ OnPresent /\ Unpaid /\ Fresh /\ Counted

PaidKept == \A p \in Ids : payroll[p].paid => payroll'[p].paid

LEMMA NoRowIsARow == NoRow \in Row /\ NoRow.paid = FALSE
<1>1. 0 \in Days
  BY PayrollAssumption DEF Days
<1> QED BY <1>1 DEF NoRow, Row

LEMMA Initially == Init => IInv
<1> SUFFICES ASSUME Init PROVE IInv
  OBVIOUS
<1> USE PayrollAssumption DEF Init
<1>1. NoRow \in Row /\ NoRow.paid = FALSE
  BY NoRowIsARow
<1>2. JobIdle \in Job /\ ClientIdle \in Client /\ ClientIdle.pc = "idle"
  BY DEF JobIdle, Job, Stage, Days, ClientIdle, Client
<1>3. TypeOK
  <2>1. payroll \in [Ids -> Row] /\ job \in [Jobs -> Job] /\ client \in [Clients -> Client]
    BY <1>1, <1>2
  <2>2. processing \in BOOLEAN /\ processed \in BOOLEAN /\ bull \in Nat
    OBVIOUS
  <2>3. absent \in [Users -> Days]
    BY DEF Days
  <2>4. changes \in 0..MaxChanges /\ requests \in 0..MaxRequests
    OBVIOUS
  <2>5. restarts \in 0..MaxRestarts /\ failures \in 0..MaxFailures
    OBVIOUS
  <2>6. report \subseteq Users \cup {None} /\ failedReport \subseteq Users \cup {None}
    OBVIOUS
  <2> QED BY <2>1, <2>2, <2>3, <2>4, <2>5, <2>6 DEF TypeOK
<1>4. OnPresent /\ Unpaid /\ Counted
  BY <1>2 DEF OnPresent, Unpaid, Counted, Recalculating
<1>5. Fresh
  BY <1>1 DEF Fresh
<1> QED BY <1>3, <1>4, <1>5 DEF IInv

(* What one write to payroll p does to the table.                          *)
LEMMA RowWritten ==
  ASSUME IInv, NEW p, NEW r, p \in Ids => r \in Row,
         payroll' = [payroll EXCEPT ![p] = r]
  PROVE  /\ payroll' \in [Ids -> Row]
         /\ \A q \in Ids : q # p => payroll'[q] = payroll[q]
         /\ p \in Ids => payroll'[p] = r
BY DEF IInv, TypeOK

(* The client is the only one: what it is about to do is all that matters. *)
LEMMA OneClient ==
  ASSUME IInv, Sequential, NEW c \in Clients, NEW r \in Client,
         client' = [client EXCEPT ![c] = r],
         r.pc \in Recalculating \cup {"rows", "update", "remove"} =>
           r.id \in Ids /\ payroll'[r.id].user # None,
         r.pc \in Recalculating => payroll'[r.id].paid = FALSE,
         r.pc \in {"write", "rows"} => r.m \in Days
  PROVE  client' \in [Clients -> Client] /\ OnPresent' /\ Unpaid' /\ Counted'
<1>1. client' \in [Clients -> Client] /\ \A d \in Clients : client'[d] = r
  BY DEF IInv, TypeOK, Sequential
<1> QED BY <1>1 DEF OnPresent, Unpaid, Counted, Present

(* Payrolls are created, and others keep their user and paid.              *)
LEMMA OthersKeep ==
  ASSUME IInv, UNCHANGED client,
         \A p \in Present : payroll'[p].user = payroll[p].user /\ payroll'[p].paid = payroll[p].paid,
         \A p \in Ids \ Present : payroll'[p].paid = FALSE
  PROVE  OnPresent' /\ Unpaid' /\ Fresh' /\ Counted' /\ PaidKept
<1>1. OnPresent'
  BY DEF IInv, OnPresent, Present
<1>2. Unpaid'
  BY DEF IInv, OnPresent, Unpaid, Recalculating
<1>3. Fresh'
  BY DEF IInv, Fresh, Present
<1>4. PaidKept
  BY DEF IInv, Fresh, Present, PaidKept
<1>5. Counted'
  BY DEF IInv, Counted
<1> QED BY <1>1, <1>2, <1>3, <1>4, <1>5

-----------------------------------------------------------------------------
(* Requests.                                                               *)

(* A new request: nothing but its client changes.                          *)
LEMMA RequestComes ==
  ASSUME IInv, Sequential, NEW c \in Clients,
         NEW pc \in {"set", "mark", "update", "remove"}, NEW p \in Ids \cup {None},
         NEW n \in Int, NEW m \in Int,
         pc # "set" => p \in Present,
         pc = "mark" => payroll[p].paid = FALSE,
         Request(c, pc, p, n, m)
  PROVE  IInv' /\ PaidKept
<1> DEFINE r == [pc |-> pc, id |-> p, n |-> n, m |-> m]
<1>1. r \in Client /\ r.pc = pc /\ r.id = p
  BY DEF Client
<1>2. client' = [client EXCEPT ![c] = r] /\ UNCHANGED payroll
  BY DEF Request, ClientGoes
<1>3. client' \in [Clients -> Client] /\ OnPresent' /\ Unpaid' /\ Counted'
  <2> HIDE DEF r
  <2> QED BY <1>1, <1>2, OneClient DEF Present, Recalculating
<1>4. requests' \in 0..MaxRequests
  BY PayrollAssumption DEF Request, IInv, TypeOK
<1>5. TypeOK'
  BY <1>2, <1>3, <1>4 DEF Request, IInv, TypeOK, cycle
<1>6. Fresh' /\ PaidKept
  BY <1>2 DEF IInv, Fresh, PaidKept
<1> QED BY <1>3, <1>5, <1>6 DEF IInv

(* A request goes on: its client and the table change.                     *)
LEMMA RequestGoesOn ==
  ASSUME IInv, Sequential, NEW c \in Clients, NEW r \in Client, NEW pc, At(c, pc),
         client' = [client EXCEPT ![c] = r],
         processing' \in BOOLEAN, UNCHANGED processed, bull' \in Nat,
         payroll' \in [Ids -> Row], Fresh',
         r.pc \in Recalculating \cup {"rows", "update", "remove"} =>
           r.id \in Ids /\ payroll'[r.id].user # None,
         r.pc \in Recalculating => payroll'[r.id].paid = FALSE,
         r.pc \in {"write", "rows"} => r.m \in Days
  PROVE  IInv'
<1>1. client' \in [Clients -> Client] /\ OnPresent' /\ Unpaid' /\ Counted'
  BY OneClient
<1>2. TypeOK'
  BY <1>1 DEF At, limits, IInv, TypeOK
<1> QED BY <1>1, <1>2 DEF IInv

(* What is known of the payroll of a request under way.                    *)
LEMMA UnderWay ==
  ASSUME IInv, NEW c \in Clients,
         client[c].pc \in Recalculating \cup {"rows", "update", "remove"}
  PROVE  /\ client[c] \in Client /\ client[c].id \in Present /\ client[c].id \in Ids
         /\ payroll[client[c].id] \in Row /\ payroll[client[c].id].user \in Users
         /\ client[c].n \in Int /\ client[c].m \in Int
         /\ client[c].pc \in Recalculating => payroll[client[c].id].paid = FALSE
         /\ client[c].pc \in {"write", "rows"} => client[c].m \in Days
<1>1. client[c] \in Client /\ client[c].id \in Present
  BY DEF IInv, TypeOK, OnPresent
<1>2. client[c].id \in Ids /\ payroll[client[c].id] \in Row
  BY <1>1 DEF Present, IInv, TypeOK
<1>3. payroll[client[c].id].user \in Users
  BY <1>1, <1>2 DEF Present, Row
<1>4. client[c].n \in Int /\ client[c].m \in Int
  BY <1>1 DEF Client
<1>5. client[c].pc \in Recalculating => payroll[client[c].id].paid = FALSE
  BY DEF IInv, Unpaid
<1>6. client[c].pc \in {"write", "rows"} => client[c].m \in Days
  BY DEF IInv, Counted
<1> QED BY <1>1, <1>2, <1>3, <1>4, <1>5, <1>6

(* A request writes the row of its payroll: the user stays, and so does    *)
(* paid when it is TRUE.                                                   *)
LEMMA RequestWrites ==
  ASSUME IInv, Sequential, NEW c \in Clients, NEW r \in Client, NEW row \in Row,
         NEW pc \in Recalculating \cup {"rows", "update", "remove"}, At(c, pc), OnlyPayrolls,
         payroll' = [payroll EXCEPT ![client[c].id] = row],
         row.user = payroll[client[c].id].user,
         payroll[client[c].id].paid => row.paid,
         client' = [client EXCEPT ![c] = r],
         r.pc = "idle" \/ (r.id = client[c].id /\ pc \notin {"rows", "update", "remove"}),
         r.pc \in {"write", "rows"} => r.m \in Days,
         r.pc \in Recalculating => row.paid = FALSE
  PROVE  IInv' /\ PaidKept
<1> DEFINE p == client[c].id
<1>1. p \in Present /\ p \in Ids
  BY UnderWay DEF At
<1>2. /\ payroll' \in [Ids -> Row] /\ payroll'[p] = row
      /\ \A q \in Ids : q # p => payroll'[q] = payroll[q]
  BY <1>1, RowWritten
<1> HIDE DEF p
<1>3. payroll'[p].user # None
  BY <1>1, <1>2 DEF Present, p
<1>4. Fresh'
  BY <1>1, <1>2, <1>3 DEF Fresh, IInv
<1>5. PaidKept
  BY <1>1, <1>2 DEF PaidKept, p
<1>6. processing' \in BOOLEAN /\ UNCHANGED processed /\ bull' \in Nat
  BY DEF OnlyPayrolls, IInv, TypeOK
<1>7. r.pc \in Recalculating \cup {"rows", "update", "remove"} =>
        r.id \in Ids /\ payroll'[r.id].user # None
  BY <1>1, <1>3 DEF p, Recalculating
<1>8. r.pc \in Recalculating => payroll'[r.id].paid = FALSE
  BY <1>2 DEF p, Recalculating
<1> QED BY <1>2, <1>4, <1>5, <1>6, <1>7, <1>8, RequestGoesOn

(* A request goes on and writes nothing.                                   *)
LEMMA RequestReads ==
  ASSUME IInv, Sequential, NEW c \in Clients, NEW r \in Client, NEW pc, At(c, pc),
         processing' \in BOOLEAN, UNCHANGED processed, bull' \in Nat,
         UNCHANGED payroll,
         client' = [client EXCEPT ![c] = r],
         r.pc \in {"idle", "add"} \/ (r.id = client[c].id /\ pc \in Recalculating),
         r.pc \in {"write", "rows"} => r.m \in Days
  PROVE  IInv' /\ PaidKept
<1>1. payroll' \in [Ids -> Row] /\ Fresh' /\ PaidKept
  BY DEF IInv, TypeOK, Fresh, PaidKept
<1>2. r.pc \in Recalculating \cup {"rows", "update", "remove"} =>
        r.id \in Ids /\ payroll'[r.id].user # None
  BY UnderWay DEF Present, At, Recalculating
<1>3. r.pc \in Recalculating => payroll'[r.id].paid = FALSE
  BY UnderWay DEF At, Recalculating
<1> QED BY <1>1, <1>2, <1>3, RequestGoesOn

(* The same for the last step of a request.                                *)
LEMMA Answered ==
  ClientIdle \in Client /\ ClientIdle.pc = "idle" /\ ClientIdle.id = None /\ ClientIdle.m = 0
BY DEF ClientIdle, Client

LEMMA RequestWritesLast ==
  ASSUME IInv, Sequential, NEW c \in Clients, NEW row \in Row,
         NEW pc \in {"rows", "update", "remove"}, At(c, pc), OnlyPayrolls,
         payroll' = [payroll EXCEPT ![client[c].id] = row],
         row.user = payroll[client[c].id].user,
         payroll[client[c].id].paid => row.paid,
         ClientEnds(c)
  PROVE  IInv' /\ PaidKept
<1>1. PICK r \in Client : /\ r.pc = "idle" /\ r.id = None /\ r.m = 0
                         /\ client' = [client EXCEPT ![c] = r]
  BY Answered DEF ClientEnds
<1>2. r.pc \notin {"write", "rows"} /\ r.pc \notin Recalculating
  BY <1>1 DEF Recalculating
<1>3. pc \in Recalculating \cup {"rows", "update", "remove"}
  OBVIOUS
<1> QED BY <1>1, <1>2, <1>3, RequestWrites

LEMMA RequestEnds ==
  ASSUME IInv, Sequential, NEW c \in Clients, NEW pc, At(c, pc),
         processing' \in BOOLEAN, UNCHANGED processed, bull' \in Nat,
         UNCHANGED payroll, ClientEnds(c)
  PROVE  IInv' /\ PaidKept
<1>1. PICK r \in Client : /\ r.pc = "idle" /\ r.id = None /\ r.m = 0
                         /\ client' = [client EXCEPT ![c] = r]
  BY Answered DEF ClientEnds
<1>2. r.pc \notin {"write", "rows"} /\ r.pc \in {"idle", "add"}
  BY <1>1
<1> QED BY <1>1, <1>2, RequestReads

LEMMA RecalculationKeeps ==
  ASSUME IInv, Sequential, NEW c \in Clients,
         \/ RecalculateMark(c) \/ RecalculateClear(c) \/ RecalculateCheck(c)
         \/ RecalculateDays(c) \/ RecalculateWrite(c) \/ RecalculateRows(c)
  PROVE  IInv' /\ PaidKept
<1> DEFINE p == client[c].id
           To(pc, n, m) == [pc |-> pc, id |-> p, n |-> n, m |-> m]
<1>a. ASSUME NEW pc \in {"clear", "check", "read", "write", "rows"}, NEW n \in Int, NEW m \in Int,
             p \in Ids
      PROVE  To(pc, n, m) \in Client /\ To(pc, n, m).pc = pc /\ To(pc, n, m).id = p /\ To(pc, n, m).m = m
  BY <1>a DEF Client
<1>c. UNCHANGED <<processing, processed, bull>> => processing' \in BOOLEAN /\ bull' \in Nat
  BY DEF IInv, TypeOK
<1>1. CASE RecalculateMark(c)
  <2> DEFINE row == [payroll[p] EXCEPT !.processing = TRUE]
  <2>1. p \in Ids /\ payroll[p] \in Row /\ payroll[p].paid = FALSE /\ At(c, "mark")
    BY <1>1, UnderWay DEF RecalculateMark, At, Recalculating
  <2>2. row \in Row /\ row.user = payroll[p].user /\ row.paid = FALSE
    BY <2>1 DEF Row
  <2>3. /\ payroll' = [payroll EXCEPT ![p] = row] /\ OnlyPayrolls
        /\ client' = [client EXCEPT ![c] = To("clear", 0, 0)]
    BY <1>1 DEF RecalculateMark, ClientGoes
  <2>4. To("clear", 0, 0) \in Client /\ To("clear", 0, 0).pc = "clear" /\ To("clear", 0, 0).id = p
    BY <1>a, <2>1
  <2> HIDE DEF To, row
  <2> QED BY <2>1, <2>2, <2>3, <2>4, RequestWrites DEF Recalculating
<1>2. CASE RecalculateClear(c)
  <2> DEFINE row == [payroll[p] EXCEPT !.rows = 0]
  <2>1. p \in Ids /\ payroll[p] \in Row /\ payroll[p].paid = FALSE /\ At(c, "clear")
    BY <1>2, UnderWay DEF RecalculateClear, At, Recalculating
  <2>2. row \in Row /\ row.user = payroll[p].user /\ row.paid = FALSE
    BY <2>1 DEF Row
  <2>3. /\ payroll' = [payroll EXCEPT ![p] = row] /\ OnlyPayrolls
        /\ client' = [client EXCEPT ![c] = To("check", 0, 0)]
    BY <1>2 DEF RecalculateClear, ClientGoes
  <2>4. To("check", 0, 0) \in Client /\ To("check", 0, 0).pc = "check" /\ To("check", 0, 0).id = p
    BY <1>a, <2>1
  <2> HIDE DEF To, row
  <2> QED BY <2>1, <2>2, <2>3, <2>4, RequestWrites DEF Recalculating
<1>3. CASE RecalculateCheck(c)
  <2>1. /\ p \in Ids /\ payroll[p] \in Row /\ At(c, "check") /\ UNCHANGED payroll
        /\ UNCHANGED <<processing, processed, bull>>
    BY <1>3, UnderWay DEF RecalculateCheck, At, Recalculating, OnlyPayrolls
  <2>2. payroll[p].correction \in Int
    BY <2>1 DEF Row
  <2>3. \/ client' = [client EXCEPT ![c] = To("read", 0, 0)]
        \/ client' = [client EXCEPT ![c] = To("read", payroll[p].correction, 0)]
        \/ client' = [client EXCEPT ![c] = ClientIdle]
    BY <1>3 DEF RecalculateCheck, ClientGoes, ClientEnds
  <2>4. ASSUME NEW n \in Int
        PROVE  /\ To("read", n, 0) \in Client /\ To("read", n, 0).pc = "read"
               /\ To("read", n, 0).id = p
    BY <1>a, <2>1
  <2>5. ASSUME NEW n \in Int, client' = [client EXCEPT ![c] = To("read", n, 0)]
        PROVE  IInv' /\ PaidKept
    <3> HIDE DEF To
    <3> QED BY <1>c, <2>1, <2>4, <2>5, RequestReads DEF Recalculating
  <2>6. ASSUME client' = [client EXCEPT ![c] = ClientIdle]
        PROVE  IInv' /\ PaidKept
    BY <1>c, <2>1, <2>6, RequestEnds DEF ClientEnds
  <2> HIDE DEF To
  <2> QED BY <2>2, <2>3, <2>5, <2>6
<1>4. CASE RecalculateDays(c)
  <2> DEFINE d == absent[payroll[p].user]
  <2>1. /\ p \in Ids /\ At(c, "read") /\ UNCHANGED payroll /\ client[c].n \in Int
        /\ UNCHANGED <<processing, processed, bull>> /\ payroll[p].user \in Users
    BY <1>4, UnderWay DEF RecalculateDays, At, Recalculating, OnlyPayrolls
  <2>2. d \in Days /\ d \in Int
    BY <2>1, PayrollAssumption DEF IInv, TypeOK, Days
  <2>3. client' = [client EXCEPT ![c] = To("write", client[c].n, d)]
    BY <1>4 DEF RecalculateDays, ClientGoes
  <2>4. /\ To("write", client[c].n, d) \in Client /\ To("write", client[c].n, d).pc = "write"
        /\ To("write", client[c].n, d).id = p /\ To("write", client[c].n, d).m = d
    BY <1>a, <2>1, <2>2
  <2> HIDE DEF To, d
  <2> QED BY <1>c, <2>1, <2>2, <2>3, <2>4, RequestReads DEF Recalculating
<1>5. CASE RecalculateWrite(c)
  <2> DEFINE n == client[c].n
             d == client[c].m
             row == [user |-> payroll[p].user, live |-> TRUE, paid |-> FALSE, processing |-> FALSE,
                     correction |-> n, days |-> d, total |-> Salary - d + n, rows |-> payroll[p].rows]
  <2>1. /\ p \in Ids /\ payroll[p] \in Row /\ payroll[p].paid = FALSE /\ At(c, "write")
        /\ client[c].n \in Int /\ client[c].m \in Days /\ client[c].m \in Int
    BY <1>5, UnderWay DEF RecalculateWrite, At, Recalculating
  <2>2. row \in Row /\ row.user = payroll[p].user /\ row.paid = FALSE
    BY <2>1, PayrollAssumption DEF Row
  <2>3. /\ payroll' = [payroll EXCEPT ![p] = row] /\ OnlyPayrolls
        /\ client' = [client EXCEPT ![c] = To("rows", n, d)]
    BY <1>5 DEF RecalculateWrite, ClientGoes
  <2>4. /\ To("rows", n, d) \in Client /\ To("rows", n, d).pc = "rows"
        /\ To("rows", n, d).id = p /\ To("rows", n, d).m = d
    BY <1>a, <2>1
  <2> HIDE DEF To, row
  <2> QED BY <2>1, <2>2, <2>3, <2>4, RequestWrites DEF Recalculating
<1>6. CASE RecalculateRows(c)
  <2> DEFINE row == [payroll[p] EXCEPT !.rows = @ + client[c].m]
  <2>1. /\ p \in Ids /\ payroll[p] \in Row /\ client[c].m \in Days /\ At(c, "rows")
    BY <1>6, UnderWay DEF RecalculateRows, At, Recalculating
  <2>2. client[c].m \in Nat
    BY <2>1, PayrollAssumption DEF Days
  <2>3. row \in Row /\ row.user = payroll[p].user /\ (payroll[p].paid => row.paid)
    BY <2>1, <2>2 DEF Row
  <2>4. /\ payroll' = [payroll EXCEPT ![p] = row] /\ OnlyPayrolls
        /\ ClientEnds(c)
    BY <1>6 DEF RecalculateRows
  <2> HIDE DEF row
  <2> QED BY <2>1, <2>3, <2>4, RequestWritesLast
<1> QED BY <1>1, <1>2, <1>3, <1>4, <1>5, <1>6

LEMMA RequestKeeps ==
  ASSUME IInv, Sequential, NEW c \in Clients, ClientStep(c)
  PROVE  IInv' /\ PaidKept
<1>i. /\ ClientIdle \in Client /\ ClientIdle.pc = "idle"
      /\ processing \in BOOLEAN /\ bull \in Nat /\ bull + 1 \in Nat
  BY DEF ClientIdle, Client, IInv, TypeOK
<1>1. CASE ProcessRead(c)
  <2>1. 0 \in Int /\ None \in Ids \cup {None} /\ "set" \in {"set", "mark", "update", "remove"}
    OBVIOUS
  <2>2. Request(c, "set", None, 0, 0)
    BY <1>1 DEF ProcessRead
  <2> QED BY <2>1, <2>2, RequestComes
<1>2. CASE ProcessSet(c)
  <2> DEFINE r == [pc |-> "add", id |-> None, n |-> 0, m |-> 0]
  <2>1. /\ r \in Client /\ r.pc = "add" /\ r.id = None /\ r.m = 0
        /\ client' = [client EXCEPT ![c] = r]
    BY <1>2 DEF ProcessSet, ClientGoes, Client
  <2>2. processing' \in BOOLEAN /\ UNCHANGED <<processed, payroll, bull>> /\ At(c, "set")
    BY <1>2 DEF ProcessSet
  <2> HIDE DEF r
  <2> QED BY <1>i, <2>1, <2>2, RequestReads
<1>3. CASE ProcessAdd(c)
  BY <1>3, <1>i, RequestEnds DEF ProcessAdd
<1>4. CASE RecalculateMark(c) \/ RecalculateClear(c) \/ RecalculateCheck(c)
           \/ RecalculateDays(c) \/ RecalculateWrite(c) \/ RecalculateRows(c)
  BY <1>4, RecalculationKeeps
<1>5. CASE UpdateWrite(c)
  <2> DEFINE p == client[c].id
             row == [payroll[p] EXCEPT !.correction = client[c].n, !.total = client[c].m]
  <2>1. /\ p \in Ids /\ payroll[p] \in Row /\ At(c, "update")
        /\ client[c].n \in Int /\ client[c].m \in Int
    BY <1>5, UnderWay DEF UpdateWrite, At, Recalculating
  <2>2. row \in Row /\ row.user = payroll[p].user /\ (payroll[p].paid => row.paid)
    BY <2>1 DEF Row
  <2>3. /\ payroll' = [payroll EXCEPT ![p] = row] /\ OnlyPayrolls
        /\ ClientEnds(c)
    BY <1>5 DEF UpdateWrite
  <2> HIDE DEF row
  <2> QED BY <2>1, <2>2, <2>3, RequestWritesLast
<1>6. CASE RemoveWrite(c)
  <2> DEFINE p == client[c].id
             row == [payroll[p] EXCEPT !.live = FALSE]
  <2>1. /\ p \in Ids /\ payroll[p] \in Row /\ At(c, "remove")
        /\ ClientEnds(c) /\ OnlyPayrolls
        /\ UNCHANGED <<processing, processed, bull>>
    BY <1>6, UnderWay DEF RemoveWrite, At, Recalculating, OnlyPayrolls
  <2>2. row \in Row /\ row.user = payroll[p].user /\ (payroll[p].paid => row.paid)
    BY <2>1 DEF Row
  <2>3. CASE payroll' = [payroll EXCEPT ![p] = row]
    <3> HIDE DEF row
    <3> QED BY <2>1, <2>2, <2>3, RequestWritesLast
  <2>4. CASE UNCHANGED payroll
    BY <1>i, <2>1, <2>4, RequestEnds
  <2> QED BY <1>6, <2>3, <2>4 DEF RemoveWrite
<1>7. CASE ClientFails(c)
  <2>1. client' = [client EXCEPT ![c] = ClientIdle] /\ UNCHANGED payroll
    BY <1>7 DEF ClientFails, ClientEnds
  <2>2. client' \in [Clients -> Client] /\ OnPresent' /\ Unpaid' /\ Counted'
    BY <1>i, <2>1, OneClient DEF Recalculating
  <2>3. failures' \in 0..MaxFailures
    BY <1>7, PayrollAssumption DEF ClientFails, IInv, TypeOK
  <2>4. TypeOK'
    BY <1>7, <2>2, <2>3 DEF ClientFails, cycle, IInv, TypeOK
  <2>5. Fresh' /\ PaidKept
    BY <2>1 DEF IInv, Fresh, PaidKept
  <2> QED BY <2>2, <2>4, <2>5 DEF IInv
<1>8. ASSUME NEW p \in Ids, RecalculateRead(c, p) \/ RemoveRead(c, p)
      PROVE  IInv' /\ PaidKept
  <2>1. p \in Present /\ payroll[p].paid = FALSE
    BY <1>8 DEF RecalculateRead, RemoveRead, Open, IInv, TypeOK, Row
  <2>2. PICK pc \in {"set", "mark", "update", "remove"} :
          pc # "set" /\ Request(c, pc, p, 0, 0)
    BY <1>8 DEF RecalculateRead, RemoveRead
  <2>3. 0 \in Int /\ p \in Ids \cup {None}
    OBVIOUS
  <2> QED BY <2>1, <2>2, <2>3, RequestComes
<1>9. ASSUME NEW p \in Ids, MarkAsPaid(c, p)
      PROVE  IInv' /\ PaidKept
  <2> DEFINE row == [payroll[p] EXCEPT !.paid = TRUE]
  <2>1. p \in Present /\ payroll[p] \in Row /\ payroll' = [payroll EXCEPT ![p] = row]
    BY <1>9 DEF MarkAsPaid, Open, IInv, TypeOK
  <2>2. row \in Row /\ row.user = payroll[p].user /\ row.paid
    BY <2>1 DEF Row
  <2> HIDE DEF row
  <2>3. /\ payroll' \in [Ids -> Row] /\ payroll'[p] = row
        /\ \A q \in Ids : q # p => payroll'[q] = payroll[q]
    BY <2>1, <2>2, RowWritten
  <2>4. UNCHANGED client /\ \A d \in Clients : client[d].pc = "idle"
    BY <1>9 DEF MarkAsPaid, Sequential
  <2>5. OnPresent' /\ Unpaid' /\ Counted'
    BY <2>4 DEF OnPresent, Unpaid, Counted, Recalculating
  <2>6. Fresh' /\ PaidKept
    BY <2>1, <2>2, <2>3 DEF IInv, Fresh, PaidKept, Present
  <2>7. requests' \in 0..MaxRequests
    BY <1>9, PayrollAssumption DEF MarkAsPaid, IInv, TypeOK
  <2>8. TypeOK'
    BY <1>9, <2>3, <2>4, <2>7 DEF MarkAsPaid, cycle, IInv, TypeOK
  <2> QED BY <2>5, <2>6, <2>8 DEF IInv
<1>10. ASSUME NEW p \in Ids, NEW n \in Corrections, UpdateRead(c, p, n)
       PROVE  IInv' /\ PaidKept
  <2>1. p \in Present /\ payroll[p] \in Row
    BY <1>10 DEF UpdateRead, Open, Present, IInv, TypeOK
  <2>2. n \in Int /\ payroll[p].total - payroll[p].correction + n \in Int
    BY <2>1, PayrollAssumption DEF Row
  <2> QED BY <1>10, <2>1, <2>2, RequestComes DEF UpdateRead
<1> QED BY <1>1, <1>2, <1>3, <1>4, <1>5, <1>6, <1>7, <1>8, <1>9, <1>10 DEF ClientStep, ClientGoesOn

-----------------------------------------------------------------------------
(* The job, and the rest of the steps.                                     *)

LEMMA JobIdleIsAJob == JobIdle \in Job
BY PayrollAssumption DEF JobIdle, Job, Stage, Days

(* A step that leaves the table and the requests alone.                    *)
LEMMA NothingWritten ==
  ASSUME IInv, UNCHANGED <<payroll, client>>
  PROVE  OnPresent' /\ Unpaid' /\ Fresh' /\ Counted' /\ PaidKept
<1>1. UNCHANGED client /\ payroll' = payroll
  OBVIOUS
<1>2. \A p \in Ids \ Present : payroll'[p].paid = FALSE
  BY <1>1 DEF IInv, Fresh, Present
<1> QED BY <1>1, <1>2, OthersKeep

LEMMA UserKeeps ==
  ASSUME IInv, NEW j \in Jobs, NEW u \in Users, UserStep(j, u) \/ JobUserFails(j, u)
  PROVE  IInv' /\ PaidKept
<1> DEFINE d == job[j].days[u]
<1>1. job[j] \in Job /\ job[j].days \in [Users -> Days] /\ d \in Days
  BY DEF IInv, TypeOK, Job
<1>2. ASSUME NEW s \in Stage, Then(j, u, s) PROVE job' \in [Jobs -> Job]
  <2>1. [job[j] EXCEPT !.stage = [job[j].stage EXCEPT ![u] = s]] \in Job
    BY <1>1, <1>2 DEF Job
  <2> QED BY <1>2, <2>1 DEF Then, IInv, TypeOK
<1>3. CASE JobCheck(j, u)
  <2>1. job' \in [Jobs -> Job] /\ failedReport' \subseteq Users \cup {None}
    BY <1>2, <1>3 DEF JobCheck, Stage, IInv, TypeOK
  <2>2. TypeOK'
    BY <1>3, <2>1 DEF JobCheck, Does, JobOnly, IInv, TypeOK
  <2> QED BY <1>3, <2>2, NothingWritten DEF JobCheck, Does, JobOnly, IInv
<1>4. CASE JobRead(j, u)
  <2>1. absent[u] \in Days
    BY DEF IInv, TypeOK
  <2>2. [job[j] EXCEPT !.stage = [job[j].stage EXCEPT ![u] = "create"],
                       !.days = [job[j].days EXCEPT ![u] = absent[u]]] \in Job
    BY <1>1, <2>1 DEF Job, Stage
  <2>3. job' \in [Jobs -> Job]
    BY <1>4, <2>2 DEF JobRead, IInv, TypeOK
  <2>4. TypeOK'
    BY <1>4, <2>3 DEF JobRead, Does, JobOnly, IInv, TypeOK
  <2> QED BY <1>4, <2>4, NothingWritten DEF JobRead, Does, JobOnly, IInv
<1>5. CASE JobCreate(j, u)
  <2> DEFINE row == [NoRow EXCEPT !.user = u, !.live = TRUE, !.days = d, !.total = Salary - d]
  <2>1. PICK p \in Ids \ Present :
          /\ payroll' = [payroll EXCEPT ![p] = row]
          /\ job' = [job EXCEPT ![j] = [@ EXCEPT !.stage[u] = "rows", !.id[u] = p]]
    BY <1>5 DEF JobCreate
  <2>2. d \in Int
    BY <1>1, PayrollAssumption DEF Days
  <2>3. row \in Row /\ row.paid = FALSE
    <3> HIDE DEF d
    <3>1. NoRow \in Row /\ u \in Users \cup {None} /\ Salary - d \in Int
      BY <2>2, NoRowIsARow, PayrollAssumption
    <3>2. row \in Row
      BY <1>1, <3>1 DEF Row
    <3>3. row.paid = NoRow.paid
      BY <3>1 DEF Row
    <3> QED BY <3>2, <3>3, NoRowIsARow
  <2>4. [job[j] EXCEPT !.stage = [job[j].stage EXCEPT ![u] = "rows"],
                       !.id = [job[j].id EXCEPT ![u] = p]] \in Job
    BY <1>1 DEF Job, Stage
  <2>5. job' \in [Jobs -> Job]
    BY <2>1, <2>4 DEF IInv, TypeOK
  <2> HIDE DEF row
  <2>6. /\ payroll' \in [Ids -> Row] /\ payroll'[p].paid = FALSE
        /\ \A q \in Ids : q # p => payroll'[q] = payroll[q]
    BY <2>1, <2>3, RowWritten
  <2>7. \A q \in Ids \ Present : payroll'[q].paid = FALSE
    BY <2>6 DEF IInv, Fresh, Present
  <2>8. \A q \in Present : payroll'[q].user = payroll[q].user /\ payroll'[q].paid = payroll[q].paid
    BY <2>6 DEF Present
  <2>9. TypeOK' /\ UNCHANGED client
    BY <1>5, <2>5, <2>6 DEF JobCreate, Does, JobOnly, IInv, TypeOK
  <2> QED BY <2>7, <2>8, <2>9, OthersKeep DEF IInv
<1>6. CASE JobRows(j, u)
  <2> DEFINE p == job[j].id[u]
             row == [payroll[p] EXCEPT !.rows = @ + d]
  <2>1. p \in Ids => row \in Row /\ row.user = payroll[p].user /\ row.paid = payroll[p].paid
    BY <1>1, PayrollAssumption DEF Row, Days, IInv, TypeOK
  <2>2. payroll' = [payroll EXCEPT ![p] = row]
    BY <1>6 DEF JobRows
  <2> HIDE DEF p, row
  <2>3. /\ payroll' \in [Ids -> Row]
        /\ p \in Ids => payroll'[p] = row
        /\ \A q \in Ids : q # p => payroll'[q] = payroll[q]
    BY <2>1, <2>2, RowWritten
  <2>4. \A q \in Ids : payroll'[q].user = payroll[q].user /\ payroll'[q].paid = payroll[q].paid
    BY <2>1, <2>3
  <2>5. job' \in [Jobs -> Job]
    BY <1>2, <1>6 DEF JobRows, Stage
  <2>6. TypeOK' /\ UNCHANGED client
    BY <1>6, <2>3, <2>5 DEF JobRows, Does, JobOnly, IInv, TypeOK
  <2>7. \A q \in Ids \ Present : payroll'[q].paid = FALSE
    BY <2>4 DEF IInv, Fresh, Present
  <2> QED BY <2>4, <2>6, <2>7, OthersKeep DEF IInv, Present
<1>7. CASE JobUserFails(j, u)
  <2>1. job' \in [Jobs -> Job] /\ failedReport' \subseteq Users \cup {None}
    BY <1>2, <1>7 DEF JobUserFails, Stage, IInv, TypeOK
  <2>2. failures' \in 0..MaxFailures
    BY <1>7, PayrollAssumption DEF JobUserFails, IInv, TypeOK
  <2>3. TypeOK'
    BY <1>7, <2>1, <2>2 DEF JobUserFails, JobOnly, IInv, TypeOK
  <2> QED BY <1>7, <2>3, NothingWritten DEF JobUserFails, JobOnly, IInv
<1> QED BY <1>3, <1>4, <1>5, <1>6, <1>7 DEF UserStep

LEMMA OtherStepsKeep ==
  ASSUME IInv,
         \/ AttendanceChanges \/ Restart
         \/ \E j \in Jobs : JobStart(j) \/ JobFinish(j) \/ JobFails(j)
  PROVE  IInv' /\ PaidKept
<1>1. CASE AttendanceChanges
  <2>1. absent' \in [Users -> Days] /\ changes' \in 0..MaxChanges
    BY <1>1, PayrollAssumption DEF AttendanceChanges, IInv, TypeOK
  <2>2. TypeOK'
    BY <1>1, <2>1 DEF AttendanceChanges, cycle, IInv, TypeOK
  <2> QED BY <1>1, <2>2, NothingWritten DEF AttendanceChanges, IInv
<1>2. CASE Restart
  <2> DEFINE On == {j \in Jobs : job[j].on}
  <2>1. Cardinality(On) \in Nat
    <3>1. IsFiniteSet(On)
      BY PayrollAssumption, FS_Subset
    <3> QED BY <3>1, FS_CardinalityType
  <2>2. bull' \in Nat
    <3> HIDE DEF On
    <3>1. bull' = bull + Cardinality(On)
      BY <1>2 DEF Restart, On
    <3> QED BY <2>1, <3>1 DEF IInv, TypeOK
  <2>3. /\ client' \in [Clients -> Client] /\ job' \in [Jobs -> Job]
        /\ \A c \in Clients : client'[c].pc = "idle"
    BY <1>2, Answered, JobIdleIsAJob DEF Restart
  <2>4. restarts' \in 0..MaxRestarts /\ failedReport' \subseteq Users \cup {None}
    BY <1>2, PayrollAssumption DEF Restart, IInv, TypeOK
  <2>5. TypeOK'
    BY <1>2, <2>2, <2>3, <2>4 DEF Restart, cycle, IInv, TypeOK
  <2>6. OnPresent' /\ Unpaid' /\ Counted'
    BY <2>3 DEF OnPresent, Unpaid, Counted, Recalculating
  <2>7. Fresh' /\ PaidKept
    BY <1>2 DEF Restart, IInv, Fresh, PaidKept
  <2> QED BY <2>5, <2>6, <2>7 DEF IInv
<1>3. ASSUME NEW j \in Jobs, JobStart(j) PROVE IInv' /\ PaidKept
  <2>1. [JobIdle EXCEPT !.on = TRUE] \in Job
    BY JobIdleIsAJob DEF Job
  <2>2. job' \in [Jobs -> Job] /\ bull' \in Nat
    BY <1>3, <2>1 DEF JobStart, IInv, TypeOK
  <2>3. TypeOK'
    BY <1>3, <2>2 DEF JobStart, cycle, limits, IInv, TypeOK
  <2> QED BY <1>3, <2>3, NothingWritten DEF JobStart, IInv
<1>4. ASSUME NEW j \in Jobs, JobFinish(j) PROVE IInv' /\ PaidKept
  <2>1. job' \in [Jobs -> Job]
    BY <1>4, JobIdleIsAJob DEF JobFinish, IInv, TypeOK
  <2>2. TypeOK'
    BY <1>4, <2>1 DEF JobFinish, limits, IInv, TypeOK
  <2> QED BY <1>4, <2>2, NothingWritten DEF JobFinish, IInv
<1>5. ASSUME NEW j \in Jobs, JobFails(j) PROVE IInv' /\ PaidKept
  <2>1. job' \in [Jobs -> Job] /\ bull' \in Nat /\ failures' \in 0..MaxFailures
    BY <1>5, JobIdleIsAJob, PayrollAssumption DEF JobFails, IInv, TypeOK
  <2>2. processing' \in BOOLEAN /\ report' \subseteq Users \cup {None}
    BY <1>5 DEF JobFails, IInv, TypeOK
  <2>3. TypeOK'
    BY <1>5, <2>1, <2>2 DEF JobFails, IInv, TypeOK
  <2> QED BY <1>5, <2>3, NothingWritten DEF JobFails, IInv
<1> QED BY <1>1, <1>2, <1>3, <1>4, <1>5

LEMMA StepKeeps ==
  ASSUME IInv, Sequential, [Next]_vars
  PROVE  IInv' /\ PaidKept
<1>1. CASE UNCHANGED vars
  <2>1. UNCHANGED <<processing, processed, report, payroll, absent, bull, failedReport, job, client,
                    changes, requests, restarts, failures>>
    BY <1>1 DEF vars, cycle, limits
  <2>2. TypeOK'
    BY <2>1 DEF IInv, TypeOK
  <2> QED BY <2>1, <2>2, NothingWritten DEF IInv
<1>2. CASE Next
  BY <1>2, RequestKeeps, UserKeeps, OtherStepsKeep DEF Next, JobStep
<1> QED BY <1>1, <1>2

-----------------------------------------------------------------------------
(* The theorems.                                                           *)

(* Every state is well typed: a request that has begun on a payroll finds  *)
(* it, and the deductions that are counted are days.                       *)
THEOREM TypeCorrect == Sequential => (Spec => []TypeOK)
<1> SUFFICES ASSUME Sequential PROVE Spec => []TypeOK
  OBVIOUS
<1>1. Init => IInv
  BY Initially
<1>2. IInv /\ [Next]_vars => IInv'
  BY StepKeeps
<1>3. IInv => TypeOK
  BY DEF IInv
<1> QED BY <1>1, <1>2, <1>3, PTL DEF Spec

(* What was paid stays paid, whatever is recalculated, corrected, removed  *)
(* or processed again, and whatever fails, if requests take turns.         *)
THEOREM PaidIsFinal == Sequential => (Spec => PaidStaysPaid)
<1> SUFFICES ASSUME Sequential PROVE Spec => PaidStaysPaid
  OBVIOUS
<1>1. Init => IInv
  BY Initially
<1>2. IInv /\ [Next]_vars => IInv' /\ PaidKept
  BY StepKeeps
<1>3. PaidKept => [\A p \in Ids : payroll[p].paid => payroll'[p].paid]_vars
  BY DEF PaidKept
<1> QED BY <1>1, <1>2, <1>3, PTL DEF Spec, PaidStaysPaid

-----------------------------------------------------------------------------
(* Everyone is accounted for.                                             *)

Was(c) == payroll[client[c].id]
Is(c) == payroll'[client[c].id]
GoesTo(c, pc, n, m) == client'[c] = [pc |-> pc, id |-> client[c].id, n |-> n, m |-> m]

(* What a request under way does to its payroll, and where it goes.        *)
LEMMA RequestDoes ==
  ASSUME IInv, NEW c \in Clients, ClientGoesOn(c), client[c].pc \notin {"set", "add"}
  PROVE  /\ client[c].pc \in Recalculating \cup {"rows", "update", "remove"}
         /\ \A q \in Ids : q # client[c].id => payroll'[q] = payroll[q]
         /\ UNCHANGED <<processing, processed, report, absent, bull, failedReport, job, limits>>
         /\ Is(c).user = Was(c).user
         /\ client[c].pc = "mark" =>
              Is(c) = [Was(c) EXCEPT !.processing = TRUE] /\ GoesTo(c, "clear", 0, 0)
         /\ client[c].pc = "clear" =>
              Is(c) = [Was(c) EXCEPT !.rows = 0] /\ GoesTo(c, "check", 0, 0)
         /\ client[c].pc = "check" =>
              Is(c) = Was(c) /\ (GoesTo(c, "read", 0, 0) \/ GoesTo(c, "read", Was(c).correction, 0)
                                 \/ client'[c] = ClientIdle)
         /\ client[c].pc = "read" =>
              Is(c) = Was(c) /\ GoesTo(c, "write", client[c].n, absent[Was(c).user])
         /\ client[c].pc = "write" =>
              /\ Is(c) = [user |-> Was(c).user, live |-> TRUE, paid |-> FALSE,
                          processing |-> FALSE, correction |-> client[c].n, days |-> client[c].m,
                          total |-> Salary - client[c].m + client[c].n, rows |-> Was(c).rows]
              /\ GoesTo(c, "rows", client[c].n, client[c].m)
         /\ client[c].pc = "rows" =>
              Is(c) = [Was(c) EXCEPT !.rows = @ + client[c].m] /\ client'[c] = ClientIdle
         /\ client[c].pc = "update" =>
              /\ Is(c) = [Was(c) EXCEPT !.correction = client[c].n, !.total = client[c].m]
              /\ client'[c] = ClientIdle
         /\ client[c].pc = "remove" =>
              Is(c) \in {Was(c), [Was(c) EXCEPT !.live = FALSE]} /\ client'[c] = ClientIdle
<1> USE DEF Was, Is, GoesTo
<1>1. payroll \in [Ids -> Row] /\ client \in [Clients -> Client]
  BY DEF IInv, TypeOK
<1>a. ASSUME NEW row \in Row
      PROVE  /\ [row EXCEPT !.processing = TRUE].user = row.user
             /\ [row EXCEPT !.rows = 0].user = row.user
             /\ [row EXCEPT !.rows = @ + client[c].m].user = row.user
             /\ [row EXCEPT !.correction = client[c].n, !.total = client[c].m].user = row.user
             /\ [row EXCEPT !.live = FALSE].user = row.user
  BY DEF Row
<1>2. client[c].pc \in Recalculating \cup {"rows", "update", "remove"}
  BY DEF ClientGoesOn, ProcessSet, ProcessAdd, RecalculateMark, RecalculateClear, RecalculateCheck,
     RecalculateDays, RecalculateWrite, RecalculateRows, UpdateWrite, RemoveWrite, At, Recalculating
<1>3. client[c].id \in Ids
  BY <1>2, UnderWay
<1>4. /\ client[c].pc = "mark" => RecalculateMark(c)
      /\ client[c].pc = "clear" => RecalculateClear(c)
      /\ client[c].pc = "check" => RecalculateCheck(c)
      /\ client[c].pc = "read" => RecalculateDays(c)
      /\ client[c].pc = "write" => RecalculateWrite(c)
      /\ client[c].pc = "rows" => RecalculateRows(c)
      /\ client[c].pc = "update" => UpdateWrite(c)
      /\ client[c].pc = "remove" => RemoveWrite(c)
  BY DEF ClientGoesOn, ProcessSet, ProcessAdd, RecalculateMark, RecalculateClear, RecalculateCheck,
     RecalculateDays, RecalculateWrite, RecalculateRows, UpdateWrite, RemoveWrite, At
<1>5. CASE client[c].pc = "mark"
  BY <1>1, <1>a, <1>2, <1>3, <1>4, <1>5 DEF RecalculateMark, OnlyPayrolls, At, ClientGoes
<1>6. CASE client[c].pc = "clear"
  BY <1>1, <1>a, <1>2, <1>3, <1>4, <1>6 DEF RecalculateClear, OnlyPayrolls, At, ClientGoes
<1>7. CASE client[c].pc = "check"
  BY <1>1, <1>a, <1>2, <1>3, <1>4, <1>7 DEF RecalculateCheck, OnlyPayrolls, At, ClientGoes, ClientEnds
<1>8. CASE client[c].pc = "read"
  BY <1>1, <1>a, <1>2, <1>3, <1>4, <1>8 DEF RecalculateDays, OnlyPayrolls, At, ClientGoes
<1>9. CASE client[c].pc = "write"
  BY <1>1, <1>a, <1>2, <1>3, <1>4, <1>9 DEF RecalculateWrite, OnlyPayrolls, At, ClientGoes
<1>10. CASE client[c].pc = "rows"
  BY <1>1, <1>a, <1>2, <1>3, <1>4, <1>10 DEF RecalculateRows, OnlyPayrolls, At, ClientGoes, ClientEnds
<1>11. CASE client[c].pc = "update"
  BY <1>1, <1>a, <1>2, <1>3, <1>4, <1>11 DEF UpdateWrite, OnlyPayrolls, At, ClientGoes, ClientEnds
<1>12. CASE client[c].pc = "remove"
  BY <1>1, <1>a, <1>2, <1>3, <1>4, <1>12 DEF RemoveWrite, OnlyPayrolls, At, ClientGoes, ClientEnds
<1> QED BY <1>2, <1>5, <1>6, <1>7, <1>8, <1>9, <1>10, <1>11, <1>12 DEF Recalculating

\* A user has a payroll, unless a query has failed.
Served(u) == (\E p \in Ids : payroll[p].user = u) \/ failures > 0

\* A job has done with those who are served; a processed cycle has served all.
DoneAreServed ==
  /\ \A j \in Jobs, u \in Users : job[j].stage[u] \in {"rows", "done"} => Served(u)
  /\ processed => \A u \in Users : Served(u)

UsersStay == /\ \A p \in Present : payroll'[p].user = payroll[p].user
             /\ failures' \in Nat /\ failures' >= failures

(* A payroll keeps its user, and what has failed has failed.               *)
LEMMA RequestsKeepUsers ==
  ASSUME IInv, NEW c \in Clients, ClientStep(c)
  PROVE  UsersStay
<1>1. failures \in Nat /\ \A p \in Ids : payroll[p] \in Row
  BY PayrollAssumption DEF IInv, TypeOK
<1>2. CASE ProcessSet(c) \/ ProcessAdd(c)
  BY <1>1, <1>2 DEF ProcessSet, ProcessAdd, At, limits, UsersStay
<1>3. CASE ClientGoesOn(c) /\ client[c].pc \notin {"set", "add"}
  <2>1. \A q \in Ids : q # client[c].id => payroll'[q] = payroll[q]
    BY <1>3, RequestDoes
  <2>2. client[c].id \in Ids /\ payroll[client[c].id] \in Row
    BY <1>3, RequestDoes, UnderWay
  <2>3. payroll'[client[c].id].user = payroll[client[c].id].user
    BY <1>3, RequestDoes DEF Is, Was
  <2>4. UNCHANGED failures
    BY <1>3, RequestDoes DEF limits
  <2> QED BY <1>1, <2>1, <2>3, <2>4 DEF UsersStay, Present
<1>4. ASSUME NEW p \in Ids, MarkAsPaid(c, p) PROVE UsersStay
  BY <1>1, <1>4 DEF MarkAsPaid, UsersStay, Present, Row, IInv, TypeOK
<1>5. CASE ProcessRead(c) \/ ClientFails(c)
  BY <1>1, <1>5 DEF ProcessRead, ClientFails, Request, UsersStay
<1>6. ASSUME NEW p \in Ids, RecalculateRead(c, p) \/ RemoveRead(c, p) PROVE UsersStay
  BY <1>1, <1>6 DEF RecalculateRead, RemoveRead, Request, UsersStay
<1>7. ASSUME NEW p \in Ids, NEW n \in Corrections, UpdateRead(c, p, n) PROVE UsersStay
  BY <1>1, <1>7 DEF UpdateRead, Request, UsersStay
<1>8. ClientGoesOn(c) => ProcessSet(c) \/ ProcessAdd(c) \/ client[c].pc \notin {"set", "add"}
  BY DEF ClientGoesOn, RecalculateMark, RecalculateClear, RecalculateCheck,
     RecalculateDays, RecalculateWrite, RecalculateRows, UpdateWrite, RemoveWrite, At
<1> QED BY <1>2, <1>3, <1>4, <1>5, <1>6, <1>7, <1>8 DEF ClientStep

LEMMA UsersKept ==
  ASSUME IInv, [Next]_vars
  PROVE  UsersStay
<1>1. failures \in Nat /\ \A p \in Ids : payroll[p] \in Row
  BY PayrollAssumption DEF IInv, TypeOK
<1>2. ASSUME NEW j \in Jobs, NEW u \in Users, UserStep(j, u) \/ JobUserFails(j, u)
      PROVE  UsersStay
  <2>1. CASE JobCheck(j, u) \/ JobRead(j, u) \/ JobUserFails(j, u)
    BY <1>1, <2>1 DEF JobCheck, JobRead, JobUserFails, UsersStay
  <2>2. CASE JobCreate(j, u)
    BY <1>1, <2>2 DEF JobCreate, UsersStay, Present, IInv, TypeOK
  <2>3. CASE JobRows(j, u)
    BY <1>1, <2>3 DEF JobRows, UsersStay, Present, Row, IInv, TypeOK
  <2> QED BY <1>2, <2>1, <2>2, <2>3 DEF UserStep
<1>3. CASE AttendanceChanges \/ Restart
  BY <1>1, <1>3 DEF AttendanceChanges, Restart, UsersStay
<1>4. CASE UNCHANGED vars
  BY <1>1, <1>4 DEF vars, limits, UsersStay
<1>5. ASSUME NEW j \in Jobs, JobStart(j) \/ JobFinish(j) \/ JobFails(j)
      PROVE  UsersStay
  BY <1>1, <1>5 DEF JobStart, JobFinish, JobFails, limits, UsersStay
<1> QED BY <1>2, <1>3, <1>4, <1>5, RequestsKeepUsers DEF Next, JobStep

LEMMA ServedStays ==
  ASSUME IInv, UsersStay, NEW u \in Users, Served(u)
  PROVE  Served(u)'
<1>1. CASE failures > 0
  BY <1>1, PayrollAssumption DEF Served, UsersStay, IInv, TypeOK
<1>2. ASSUME NEW p \in Ids, payroll[p].user = u PROVE Served(u)'
  BY <1>2, PayrollAssumption DEF Served, UsersStay, Present
<1> QED BY <1>1, <1>2 DEF Served

LEMMA ServedKept ==
  ASSUME IInv, DoneAreServed, [Next]_vars
  PROVE  DoneAreServed'
<1>1. \A u \in Users : Served(u) => Served(u)'
  BY UsersKept, ServedStays
<1>2. ASSUME UNCHANGED <<job, processed>> PROVE DoneAreServed'
  BY <1>1, <1>2 DEF DoneAreServed
<1>3. ASSUME NEW c \in Clients, ClientStep(c) PROVE DoneAreServed'
  <2>1. UNCHANGED <<job, processed>>
    BY <1>3 DEF ClientStep, ClientGoesOn, ProcessRead, ProcessSet, ProcessAdd, RecalculateRead,
       RecalculateMark, RecalculateClear, RecalculateCheck, RecalculateDays, RecalculateWrite,
       RecalculateRows, UpdateRead, UpdateWrite, RemoveRead, RemoveWrite, MarkAsPaid, ClientFails,
       Request, At, OnlyPayrolls, cycle
  <2> QED BY <1>2, <2>1
<1>4. CASE AttendanceChanges \/ UNCHANGED vars
  BY <1>2, <1>4 DEF AttendanceChanges, vars, cycle
<1>5. CASE Restart
  <2>1. \A j \in Jobs, u \in Users : job'[j].stage[u] = "check"
    BY <1>5 DEF Restart, JobIdle
  <2> QED BY <1>1, <1>5, <2>1 DEF Restart, cycle, DoneAreServed
<1>6. ASSUME NEW j \in Jobs, JobStart(j) \/ JobFinish(j) \/ JobFails(j) PROVE DoneAreServed'
  <2>1. \A u \in Users : job'[j].stage[u] = "check"
    BY <1>6 DEF JobStart, JobFinish, JobFails, JobIdle, IInv, TypeOK
  <2>2. \A k \in Jobs : k # j => job'[k] = job[k]
    BY <1>6 DEF JobStart, JobFinish, JobFails, IInv, TypeOK
  <2>3. \A k \in Jobs, u \in Users : job'[k].stage[u] \in {"rows", "done"} => Served(u)'
    BY <1>1, <2>1, <2>2 DEF DoneAreServed
  <2>4. processed' => processed \/ \A u \in Users : job[j].stage[u] = "done"
    BY <1>6 DEF JobStart, JobFinish, JobFails, Ready, cycle
  <2>5. processed' => \A u \in Users : Served(u)'
    BY <1>1, <2>4 DEF DoneAreServed
  <2> QED BY <2>3, <2>5 DEF DoneAreServed
<1>7. ASSUME NEW j \in Jobs, NEW u \in Users, UserStep(j, u) \/ JobUserFails(j, u)
      PROVE  DoneAreServed'
  <2>1. UNCHANGED processed
    BY <1>7 DEF UserStep, JobCheck, JobRead, JobCreate, JobRows, JobUserFails, Does, JobOnly
  <2>2. job[j] \in Job
    BY DEF IInv, TypeOK
  <2>3. \A k \in Jobs : k # j => job'[k] = job[k]
    BY <1>7 DEF UserStep, JobCheck, JobRead, JobCreate, JobRows, JobUserFails, Then, IInv, TypeOK
  <2>4. \A v \in Users : v # u => job'[j].stage[v] = job[j].stage[v]
    <3>1. CASE JobCheck(j, u) \/ JobRows(j, u) \/ JobUserFails(j, u)
      BY <2>2, <3>1 DEF JobCheck, JobRows, JobUserFails, Then, Job, IInv, TypeOK
    <3>2. CASE JobRead(j, u)
      BY <2>2, <3>2 DEF JobRead, Job, IInv, TypeOK
    <3>3. CASE JobCreate(j, u)
      BY <2>2, <3>3 DEF JobCreate, Job, IInv, TypeOK
    <3> QED BY <1>7, <3>1, <3>2, <3>3 DEF UserStep
  <2>5. job'[j].stage[u] \in {"rows", "done"} => Served(u)'
    <3>1. CASE JobCheck(j, u)
      BY <1>1, <2>2, <3>1 DEF JobCheck, Then, Of, Served, Job, IInv, TypeOK
    <3>2. CASE JobRead(j, u)
      BY <2>2, <3>2 DEF JobRead, Job, IInv, TypeOK
    <3>3. CASE JobCreate(j, u)
      BY <3>3, NoRowIsARow DEF JobCreate, Served, Row, IInv, TypeOK
    <3>4. CASE JobRows(j, u)
      BY <1>1, <3>4 DEF JobRows, Does, DoneAreServed
    <3>5. CASE JobUserFails(j, u)
      BY <3>5, PayrollAssumption DEF JobUserFails, Served, IInv, TypeOK
    <3> QED BY <1>7, <3>1, <3>2, <3>3, <3>4, <3>5 DEF UserStep
  <2> QED BY <1>1, <2>1, <2>3, <2>4, <2>5 DEF DoneAreServed
<1> QED BY <1>3, <1>4, <1>5, <1>6, <1>7 DEF Next, JobStep

(* When the cycle is processed every user has a payroll or is in the       *)
(* report, unless a query has failed, whatever restarts.                   *)
THEOREM EveryoneAccounted == Sequential => (Spec => []EveryoneIsAccountedFor)
<1> SUFFICES ASSUME Sequential PROVE Spec => []EveryoneIsAccountedFor
  OBVIOUS
<1>1. Init => IInv /\ DoneAreServed
  BY Initially DEF Init, JobIdle, DoneAreServed
<1>2. IInv /\ DoneAreServed /\ [Next]_vars => IInv' /\ DoneAreServed'
  BY StepKeeps, ServedKept
<1>3. DoneAreServed => EveryoneIsAccountedFor
  BY DEF DoneAreServed, Served, EveryoneIsAccountedFor
<1> QED BY <1>1, <1>2, <1>3, PTL DEF Spec

-----------------------------------------------------------------------------
(* One payroll for everybody, and figures that agree.                      *)

\* There is one message, waiting or with a job, and the cycle is not asked
\* for again until it has been dealt with.
OneMessage ==
  /\ bull \in {0, 1}
  /\ \A j \in Jobs : job[j].on => bull = 0 /\ \A k \in Jobs : job[k].on => k = j
  /\ bull = 1 \/ (\E j \in Jobs : job[j].on) => processing /\ ~processed
  /\ \A c \in Clients : client[c].pc \in {"set", "add"} =>
       bull = 0 /\ ~processed /\ (\A j \in Jobs : ~job[j].on)
  /\ \A c \in Clients : client[c].pc = "add" => processing

\* Requests come to payrolls when the cycle has been processed; until then
\* none is removed.
RequestsFollow ==
  /\ \A c \in Clients : client[c].pc \in {"idle", "set", "add"} => client[c].id = None
  /\ \A c \in Clients : client[c].pc \notin {"idle", "set", "add"} => processed
  /\ ~processed => \A p \in Present : payroll[p].live

OneEach == \A p, q \in Present : payroll[p].user = payroll[q].user => p = q

\* Who is about to get a payroll has none; ...
NoneYet ==
  \A j \in Jobs, u \in Users :
    job[j].on /\ job[j].stage[u] \in {"read", "create"} => \A p \in Ids : payroll[p].user # u

\* ... and who is about to get the deductions has a payroll that lacks them.
Lacks(p, u, days) ==
  /\ p \in Ids /\ payroll[p].user = u /\ payroll[p].rows = 0 /\ payroll[p].correction = 0
  /\ payroll[p].days = days /\ payroll[p].total = Salary - days

JustMade ==
  \A j \in Jobs, u \in Users :
    job[j].on /\ job[j].stage[u] = "rows" => Lacks(job[j].id[u], u, job[j].days[u])

Agrees(row) == row.rows = row.days /\ row.total = Salary - row.rows + row.correction

\* What a request at pc knows of the row of its payroll; ...
Knows(row, pc, n, m) ==
  /\ pc \in {"clear", "check", "read", "write"} => row.processing
  /\ pc \in {"check", "read", "write", "rows"} => row.rows = 0
  /\ pc = "rows" => row.days = m /\ row.total = Salary - m + row.correction
  /\ pc = "update" => m = row.total - row.correction + n

\* ... and what it need not repair, unless something has failed.
Settled(row) == row.processing \/ Agrees(row) \/ restarts + failures > 0

RequestKnows ==
  \A c \in Clients :
    LET row == payroll[client[c].id]
    IN  /\ Knows(row, client[c].pc, client[c].n, client[c].m)
        /\ client[c].pc \in {"mark", "update", "remove"} => Settled(row)

FInv ==
  /\ IInv /\ OneMessage /\ RequestsFollow /\ OneEach /\ NoneYet /\ JustMade
  /\ RequestKnows /\ FiguresAgree

(* While a request is on a payroll no job runs.                            *)
LEMMA NoJobThen ==
  ASSUME FInv, NEW c \in Clients, client[c].pc \notin {"idle", "set", "add"}
  PROVE  processed /\ bull = 0 /\ \A j \in Jobs : ~job[j].on
BY DEF FInv, OneMessage, RequestsFollow

(* A request at work on a payroll.                                         *)
LEMMA AtWorkOnPayroll ==
  ASSUME FInv, Sequential, NEW c \in Clients, ClientGoesOn(c), client[c].pc \notin {"set", "add"},
         IInv'
  PROVE  FInv'
<1> DEFINE p == client[c].id
           pc == client[c].pc
<1>1. /\ pc \in Recalculating \cup {"rows", "update", "remove"} /\ p \in Ids /\ p \in Present
      /\ payroll[p] \in Row /\ client[c].n \in Int /\ client[c].m \in Int
      /\ pc \in {"write", "rows"} => client[c].m \in Days
  BY RequestDoes, UnderWay DEF FInv
<1>2. processed /\ bull = 0 /\ (\A j \in Jobs : ~job[j].on)
  BY <1>1, NoJobThen DEF Recalculating
<1>3. UNCHANGED <<processing, processed, bull, job, restarts, failures>>
  BY RequestDoes DEF limits, FInv
<1>4. \A q \in Ids : payroll'[q].user = payroll[q].user
  BY RequestDoes DEF FInv, Is, Was
<1>5. \A d \in Clients : d = c
  BY DEF Sequential
<1>6. OneEach' /\ NoneYet' /\ JustMade'
  BY <1>2, <1>3, <1>4 DEF FInv, OneEach, Present, NoneYet, JustMade
<1>7. ASSUME NEW r \in Client, client'[c] = r,
             \/ r.pc = "idle" /\ r.id = None /\ Settled(payroll'[p])
             \/ r.pc \in {"clear", "check", "read", "write", "rows"} /\ r.id = p,
             Knows(payroll'[p], r.pc, r.n, r.m)
      PROVE  FInv'
  <2>1. OneMessage' /\ RequestsFollow'
    BY <1>2, <1>3, <1>5, <1>7 DEF FInv, OneMessage, RequestsFollow
  <2>2. RequestKnows'
    BY <1>5, <1>7 DEF RequestKnows, Knows
  <2>3. FiguresAgree'
    <3>1. ASSUME NEW q \in Ids, q # p, AtWork(q) PROVE AtWork(q)'
      BY <1>2, <1>3, <1>5, <3>1, RequestDoes DEF AtWork, FInv
    <3>2. SUFFICES ASSUME restarts' + failures' = 0, NEW q \in Present', ~AtWork(q)'
                   PROVE  Agrees(payroll'[q])
      BY DEF FiguresAgree, Agrees
    <3>3. q \in Present
      BY <1>4 DEF Present
    <3>4. CASE q # p
      <4>1. payroll'[q] = payroll[q]
        BY <3>3, <3>4, RequestDoes DEF FInv, Present
      <4> QED BY <1>3, <3>1, <3>2, <3>3, <3>4, <4>1 DEF FInv, FiguresAgree, Agrees, Present
    <3>5. CASE q = p
      BY <1>1, <1>3, <1>7, <3>2, <3>5 DEF AtWork, Settled, IInv, TypeOK
    <3> QED BY <3>4, <3>5
  <2> QED BY <1>6, <2>1, <2>2, <2>3 DEF FInv
<1>8. CASE pc = "mark"
  <2> DEFINE r == [pc |-> "clear", id |-> p, n |-> 0, m |-> 0]
  <2>1. client'[c] = r /\ payroll'[p] = [payroll[p] EXCEPT !.processing = TRUE]
    BY <1>8, RequestDoes DEF FInv, Is, Was, GoesTo
  <2>2. r \in Client /\ r.pc = "clear" /\ r.id = p
    BY <1>1 DEF Client
  <2>3. Knows(payroll'[p], r.pc, r.n, r.m)
    BY <1>1, <2>1, <2>2 DEF Knows, Row
  <2> HIDE DEF r
  <2> QED BY <1>7, <2>1, <2>2, <2>3
<1>9. CASE pc = "clear"
  <2> DEFINE r == [pc |-> "check", id |-> p, n |-> 0, m |-> 0]
  <2>1. client'[c] = r /\ payroll'[p] = [payroll[p] EXCEPT !.rows = 0]
    BY <1>9, RequestDoes DEF FInv, Is, Was, GoesTo
  <2>2. r \in Client /\ r.pc = "check" /\ r.id = p
    BY <1>1 DEF Client
  <2>3. payroll[p].processing
    BY <1>9 DEF FInv, RequestKnows, Knows
  <2>4. Knows(payroll'[p], r.pc, r.n, r.m)
    BY <1>1, <2>1, <2>2, <2>3 DEF Knows, Row
  <2> HIDE DEF r
  <2> QED BY <1>7, <2>1, <2>2, <2>4
<1>10. CASE pc = "check"
  <2>1. payroll'[p] = payroll[p]
    BY <1>10, RequestDoes DEF FInv, Is, Was
  <2>2. payroll[p].processing /\ payroll[p].rows = 0 /\ payroll[p].correction \in Int
    BY <1>1, <1>10 DEF FInv, RequestKnows, Knows, Row
  <2>3. ASSUME NEW n \in Int, GoesTo(c, "read", n, 0) PROVE FInv'
    <3> DEFINE r == [pc |-> "read", id |-> p, n |-> n, m |-> 0]
    <3>1. client'[c] = r /\ r \in Client /\ r.pc = "read" /\ r.id = p
      BY <1>1, <2>3 DEF GoesTo, Client
    <3>2. Knows(payroll'[p], r.pc, r.n, r.m)
      BY <2>1, <2>2, <3>1 DEF Knows
    <3> HIDE DEF r
    <3> QED BY <1>7, <3>1, <3>2
  <2>4. ASSUME client'[c] = ClientIdle PROVE FInv'
    BY <1>7, <2>1, <2>2, <2>4, Answered DEF Knows, Settled
  <2>5. \/ GoesTo(c, "read", 0, 0) \/ GoesTo(c, "read", payroll[p].correction, 0)
        \/ client'[c] = ClientIdle
    BY <1>10, RequestDoes DEF FInv, Was
  <2> QED BY <2>2, <2>3, <2>4, <2>5
<1>11. CASE pc = "read"
  <2> DEFINE d == absent[payroll[p].user]
             r == [pc |-> "write", id |-> p, n |-> client[c].n, m |-> d]
  <2>1. client'[c] = r /\ payroll'[p] = payroll[p]
    BY <1>11, RequestDoes DEF FInv, Is, Was, GoesTo
  <2>2. d \in Int
    <3>1. payroll[p].user \in Users
      BY <1>1, <1>11, UnderWay DEF FInv, Recalculating
    <3> QED BY <3>1, PayrollAssumption DEF FInv, IInv, TypeOK, Days
  <2>3. r \in Client /\ r.pc = "write" /\ r.id = p
    BY <1>1, <2>2 DEF Client
  <2>4. payroll[p].processing /\ payroll[p].rows = 0
    BY <1>11 DEF FInv, RequestKnows, Knows
  <2>5. Knows(payroll'[p], r.pc, r.n, r.m)
    BY <2>1, <2>3, <2>4 DEF Knows
  <2> HIDE DEF r
  <2> QED BY <1>7, <2>1, <2>3, <2>5
<1>12. CASE pc = "write"
  <2> DEFINE r == [pc |-> "rows", id |-> p, n |-> client[c].n, m |-> client[c].m]
  <2>1. /\ client'[c] = r
        /\ payroll'[p].rows = payroll[p].rows /\ payroll'[p].days = client[c].m
        /\ payroll'[p].correction = client[c].n
        /\ payroll'[p].total = Salary - client[c].m + client[c].n
    <3>1. /\ client'[c] = r
          /\ payroll'[p] = [user |-> payroll[p].user, live |-> TRUE, paid |-> FALSE,
                            processing |-> FALSE, correction |-> client[c].n,
                            days |-> client[c].m, total |-> Salary - client[c].m + client[c].n,
                            rows |-> payroll[p].rows]
      BY <1>12, RequestDoes DEF FInv, Is, Was, GoesTo
    <3> HIDE DEF r
    <3> QED BY <3>1
  <2>2. r \in Client /\ r.pc = "rows" /\ r.id = p /\ r.m = client[c].m
    BY <1>1 DEF Client
  <2>3. payroll[p].rows = 0
    BY <1>12 DEF FInv, RequestKnows, Knows
  <2>4. Knows(payroll'[p], r.pc, r.n, r.m)
    BY <2>1, <2>2, <2>3 DEF Knows
  <2> HIDE DEF r
  <2> QED BY <1>7, <2>1, <2>2, <2>4
<1>13. CASE pc = "rows"
  <2>1. client'[c] = ClientIdle /\ payroll'[p] = [payroll[p] EXCEPT !.rows = @ + client[c].m]
    BY <1>13, RequestDoes DEF FInv, Is, Was
  <2>2. /\ payroll[p].rows = 0 /\ payroll[p].days = client[c].m
        /\ payroll[p].total = Salary - client[c].m + payroll[p].correction
    BY <1>13 DEF FInv, RequestKnows, Knows
  <2>3. Agrees(payroll'[p])
    BY <1>1, <2>1, <2>2 DEF Agrees, Row
  <2> QED BY <1>7, <2>1, <2>3, Answered DEF Knows, Settled
<1>14. CASE pc = "update"
  <2>1. /\ client'[c] = ClientIdle
        /\ payroll'[p] = [payroll[p] EXCEPT !.correction = client[c].n, !.total = client[c].m]
    BY <1>14, RequestDoes DEF FInv, Is, Was
  <2>2. client[c].m = payroll[p].total - payroll[p].correction + client[c].n
    BY <1>14 DEF FInv, RequestKnows, Knows
  <2>3. Settled(payroll[p])
    BY <1>14 DEF FInv, RequestKnows
  <2>4. Settled(payroll'[p])
    <3>1. CASE payroll[p].processing
      BY <1>1, <2>1, <3>1 DEF Settled, Row
    <3>2. CASE Agrees(payroll[p])
      <4>1. payroll[p].total \in Int /\ payroll[p].correction \in Int /\ payroll[p].rows \in Int
        BY <1>1 DEF Row
      <4>2. /\ payroll'[p].rows = payroll[p].rows /\ payroll'[p].days = payroll[p].days
            /\ payroll'[p].correction = client[c].n /\ payroll'[p].total = client[c].m
        BY <1>1, <2>1 DEF Row
      <4> QED BY <1>1, <2>2, <3>2, <4>1, <4>2, PayrollAssumption DEF Settled, Agrees
    <3> QED BY <2>3, <3>1, <3>2 DEF Settled
  <2> QED BY <1>7, <2>1, <2>4, Answered DEF Knows
<1>15. CASE pc = "remove"
  <2>1. client'[c] = ClientIdle /\ payroll'[p] \in {payroll[p], [payroll[p] EXCEPT !.live = FALSE]}
    BY <1>15, RequestDoes DEF FInv, Is, Was
  <2>2. Settled(payroll[p])
    BY <1>15 DEF FInv, RequestKnows
  <2>3. Settled(payroll'[p])
    BY <1>1, <2>1, <2>2 DEF Settled, Agrees, Row
  <2> QED BY <1>7, <2>1, <2>3, Answered DEF Knows
<1> QED BY <1>1, <1>8, <1>9, <1>10, <1>11, <1>12, <1>13, <1>14, <1>15 DEF Recalculating

(* A request that comes to a payroll that nobody is at work on.            *)
LEMMA RequestFInv ==
  ASSUME FInv, ~Early, Sequential, NEW c \in Clients, NEW p \in Present,
         NEW pc \in {"mark", "update", "remove"}, NEW n \in Int, NEW m \in Int,
         p \in Open, Request(c, pc, p, n, m),
         pc = "update" => m = payroll[p].total - payroll[p].correction + n,
         IInv'
  PROVE  FInv'
<1> DEFINE r == [pc |-> pc, id |-> p, n |-> n, m |-> m]
<1>1. /\ client'[c] = r /\ client[c].pc = "idle"
      /\ UNCHANGED <<processing, processed, report, payroll, absent, bull, failedReport, job,
                     restarts, failures>>
  BY DEF Request, ClientGoes, cycle, FInv, IInv, TypeOK
<1>2. processed /\ p \in Ids /\ payroll[p] \in Row
  BY DEF Open, Present, FInv, IInv, TypeOK
<1>3. \A d \in Clients : d = c
  BY DEF Sequential
<1>4. bull = 0 /\ \A j \in Jobs : ~job[j].on
  BY <1>2 DEF FInv, OneMessage
<1>5. client[c].id = None
  BY <1>1 DEF FInv, RequestsFollow
<1>6. OneEach' /\ NoneYet' /\ JustMade'
  BY <1>1 DEF FInv, OneEach, Present, NoneYet, JustMade, Lacks
<1>7. r.pc = pc /\ r.id = p /\ r.n = n /\ r.m = m
  OBVIOUS
<1>8. OneMessage' /\ RequestsFollow'
  <2> HIDE DEF r
  <2> QED BY <1>1, <1>2, <1>3, <1>4, <1>7 DEF FInv, OneMessage, RequestsFollow
<1>9. \A q \in Ids : AtWork(q) => AtWork(q)'
  BY <1>1, <1>3, <1>4, <1>5, PayrollAssumption DEF AtWork
<1>10. FiguresAgree'
  BY <1>1, <1>9 DEF FiguresAgree, FInv, Present
<1>11. Settled(payroll[p])
  <2>1. AtWork(p) => payroll[p].processing
    BY <1>2, <1>3, <1>4, <1>5, PayrollAssumption DEF AtWork
  <2> QED BY <2>1, PayrollAssumption DEF FInv, IInv, TypeOK, FiguresAgree, Settled, Agrees
<1>12. RequestKnows'
  <2> HIDE DEF r
  <2> QED BY <1>1, <1>3, <1>7, <1>11 DEF RequestKnows, Knows, Settled
<1> QED BY <1>6, <1>8, <1>10, <1>12 DEF FInv

(* What has failed has failed.                                             *)
LEMMA FailedOnce ==
  ASSUME NEW m \in Nat, NEW n \in Nat \ {0}
  PROVE  m + n # 0 /\ n + m # 0
OBVIOUS

LEMMA OtherRequestsFInv ==
  ASSUME FInv, Sequential, NEW c \in Clients,
         ProcessRead(c) \/ ProcessSet(c) \/ ProcessAdd(c) \/ ClientFails(c), IInv'
  PROVE  FInv'
<1>1. /\ UNCHANGED <<payroll, job, restarts>>
      /\ client'[c].pc \in {"idle", "set", "add"} /\ client'[c].id = None
  BY DEF ProcessRead, ProcessSet, ProcessAdd, ClientFails, Request, ClientGoes, ClientEnds,
     ClientIdle, At, limits, FInv, IInv, TypeOK
<1>2. \A d \in Clients : d = c
  BY DEF Sequential
<1>3. OneEach' /\ NoneYet' /\ JustMade' /\ RequestKnows'
  BY <1>1, <1>2 DEF FInv, OneEach, Present, NoneYet, JustMade, Lacks, RequestKnows, Knows
<1>4. CASE ClientFails(c)
  <2>1. /\ client'[c].pc = "idle" /\ UNCHANGED <<processing, processed, bull>>
        /\ failures' \in Nat \ {0}
    BY <1>4, PayrollAssumption DEF ClientFails, ClientEnds, ClientIdle, cycle, FInv, IInv, TypeOK
  <2>2. OneMessage' /\ RequestsFollow'
    BY <1>1, <1>2, <2>1 DEF FInv, OneMessage, RequestsFollow, Present
  <2>3. FiguresAgree'
    <3>1. restarts' + failures' # 0
      <4>1. restarts' \in Nat
        BY <1>1, PayrollAssumption DEF FInv, IInv, TypeOK
      <4>2. failures' \in Nat \ {0}
        BY <2>1
      <4> QED BY <4>1, <4>2, FailedOnce
    <3> QED BY <3>1 DEF FiguresAgree
  <2> QED BY <1>3, <2>2, <2>3 DEF FInv
<1>5. CASE ProcessRead(c) \/ ProcessSet(c) \/ ProcessAdd(c)
  <2>1. client[c].pc \in {"idle", "set", "add"} /\ UNCHANGED <<failures, processed>>
    BY <1>5 DEF ProcessRead, ProcessSet, ProcessAdd, Request, At, limits, cycle
  <2>2. client[c].id = None
    BY <2>1 DEF FInv, RequestsFollow
  <2>3. RequestsFollow'
    BY <1>1, <1>2, <2>1 DEF FInv, RequestsFollow, Present
  <2>4. FiguresAgree'
    <3>1. \A q \in Ids : AtWork(q) => AtWork(q)'
      BY <1>1, <1>2, <2>2, PayrollAssumption DEF AtWork
    <3> QED BY <1>1, <2>1, <3>1 DEF FiguresAgree, FInv, Present
  <2>5. OneMessage'
    <3>1. CASE ProcessRead(c)
      BY <1>1, <1>2, <3>1 DEF ProcessRead, Request, ClientGoes, cycle, OneMessage, FInv, IInv, TypeOK
    <3>2. CASE ProcessSet(c)
      BY <1>1, <1>2, <3>2 DEF ProcessSet, At, ClientGoes, OneMessage, FInv, IInv, TypeOK
    <3>3. CASE ProcessAdd(c)
      BY <1>1, <1>2, <3>3 DEF ProcessAdd, At, ClientEnds, ClientIdle, OneMessage, FInv, IInv, TypeOK
    <3> QED BY <1>5, <3>1, <3>2, <3>3
  <2> QED BY <1>3, <2>3, <2>4, <2>5 DEF FInv
<1> QED BY <1>4, <1>5

(* While a job runs nobody makes a request.                                *)
LEMMA QuietThen ==
  ASSUME FInv, NEW j \in Jobs, job[j].on
  PROVE  /\ processing /\ ~processed /\ bull = 0
         /\ \A k \in Jobs : job[k].on => k = j
         /\ \A c \in Clients : client[c].pc = "idle" /\ client[c].id = None
<1>1. processing /\ ~processed /\ bull = 0 /\ \A k \in Jobs : job[k].on => k = j
  BY DEF FInv, OneMessage
<1>2. \A c \in Clients : client[c].pc \in {"idle", "set", "add"}
  BY <1>1 DEF FInv, RequestsFollow
<1>3. \A c \in Clients : client[c].pc \notin {"set", "add"}
  BY DEF FInv, OneMessage
<1> QED BY <1>1, <1>2, <1>3 DEF FInv, RequestsFollow

LEMMA NothingKnown ==
  ASSUME \A c \in Clients : client[c].pc = "idle"
  PROVE  RequestKnows
BY DEF RequestKnows, Knows

(* What a job does with a user leaves the others alone.                    *)
LEMMA OneUser ==
  ASSUME IInv, NEW j \in Jobs, NEW u \in Users, UserStep(j, u) \/ JobUserFails(j, u)
  PROVE  /\ job[j].on /\ job'[j].on
         /\ \A k \in Jobs : k # j => job'[k] = job[k]
         /\ \A v \in Users : v # u => /\ job'[j].stage[v] = job[j].stage[v]
                                      /\ job'[j].days[v] = job[j].days[v]
                                      /\ job'[j].id[v] = job[j].id[v]
         /\ UNCHANGED <<processing, processed, bull, client, restarts>>
<1>1. /\ job[j].on /\ UNCHANGED <<processing, processed, bull, client, restarts>>
      /\ \A k \in Jobs : k # j => job'[k] = job[k]
  BY DEF UserStep, JobCheck, JobRead, JobCreate, JobRows, JobUserFails, Does, JobOnly, Then,
     IInv, TypeOK
<1>2. job[j] \in Job
  BY DEF IInv, TypeOK
<1>3. CASE JobCheck(j, u) \/ JobRows(j, u) \/ JobUserFails(j, u)
  BY <1>1, <1>2, <1>3 DEF JobCheck, JobRows, JobUserFails, Then, Job, IInv, TypeOK
<1>4. CASE JobRead(j, u)
  BY <1>1, <1>2, <1>4 DEF JobRead, Job, IInv, TypeOK
<1>5. CASE JobCreate(j, u)
  BY <1>1, <1>2, <1>5 DEF JobCreate, Job, IInv, TypeOK
<1> QED BY <1>3, <1>4, <1>5 DEF UserStep

LEMMA UserFInv ==
  ASSUME FInv, NEW j \in Jobs, NEW u \in Users, UserStep(j, u) \/ JobUserFails(j, u), IInv'
  PROVE  FInv'
<1>1. /\ job[j].on /\ job'[j].on /\ job[j] \in Job
      /\ \A k \in Jobs : k # j => job'[k] = job[k]
      /\ \A v \in Users : v # u => /\ job'[j].stage[v] = job[j].stage[v]
                                   /\ job'[j].days[v] = job[j].days[v]
                                   /\ job'[j].id[v] = job[j].id[v]
      /\ UNCHANGED <<processing, processed, bull, client, restarts>>
  BY OneUser DEF FInv, IInv, TypeOK
<1>2. /\ ~processed /\ \A k \in Jobs : job[k].on => k = j
      /\ \A c \in Clients : client[c].pc = "idle" /\ client[c].id = None
  BY <1>1, QuietThen
<1>3. \A p \in Present : payroll[p].live
  BY <1>2 DEF FInv, RequestsFollow
<1>4. OneMessage' /\ RequestKnows'
  BY <1>1, <1>2 DEF FInv, OneMessage, RequestKnows, Knows
<1>5. \A p \in Ids : payroll[p] \in Row
  BY DEF FInv, IInv, TypeOK
<1>6. SUFFICES /\ \A p \in Present' : payroll'[p].live
               /\ OneEach' /\ FiguresAgree'
               /\ job'[j].stage[u] \in {"read", "create"} => \A p \in Ids : payroll'[p].user # u
               /\ \A v \in Users : v # u /\ job[j].stage[v] \in {"read", "create"} =>
                    \A p \in Ids : payroll'[p].user # v
               /\ job'[j].stage[u] = "rows" => Lacks(job[j].id[u], u, job[j].days[u])'
               /\ \A v \in Users : v # u /\ job[j].stage[v] = "rows" =>
                    Lacks(job[j].id[v], v, job[j].days[v])'
  <2>1. RequestsFollow'
    BY <1>1, <1>2, <1>6 DEF RequestsFollow
  <2>2. NoneYet'
    BY <1>1, <1>2, <1>6 DEF NoneYet
  <2>3. JustMade'
    BY <1>1, <1>2, <1>6 DEF JustMade, Lacks
  <2> QED BY <1>4, <1>6, <2>1, <2>2, <2>3 DEF FInv
<1>8. CASE UNCHANGED payroll /\ job[j].stage[u] # "rows" /\ job'[j].stage[u] # "rows"
           /\ UNCHANGED failures
           /\ (job'[j].stage[u] \in {"read", "create"} => \A p \in Ids : payroll[p].user # u)
  <2>1. \A q \in Ids : AtWork(q) => AtWork(q)'
    BY <1>1, <1>2, <1>8 DEF AtWork
  <2>2. FiguresAgree'
    BY <1>1, <1>8, <2>1 DEF FiguresAgree, FInv, Present
  <2> QED BY <1>1, <1>2, <1>3, <1>8, <2>2 DEF FInv, OneEach, Present, NoneYet, JustMade, Lacks
<1>9. CASE JobCheck(j, u)
  <2>1. /\ UNCHANGED <<payroll, failures>> /\ job[j].stage[u] = "check"
        /\ \/ Of(u) = {} /\ Then(j, u, "read")
           \/ Then(j, u, "done")
    BY <1>9 DEF JobCheck, Does
  <2>2. \A s \in Stage : Then(j, u, s) => job'[j].stage[u] = s
    BY <1>1 DEF Then, Job, FInv, IInv, TypeOK
  <2>3. Of(u) = {} => \A p \in Ids : payroll[p].user # u
    BY <1>3, PayrollAssumption DEF Of, Present
  <2> QED BY <1>8, <2>1, <2>2, <2>3 DEF Stage
<1>10. CASE JobRead(j, u)
  <2>1. UNCHANGED <<payroll, failures>> /\ job[j].stage[u] = "read"
    BY <1>10 DEF JobRead, Does
  <2>2. job'[j].stage[u] = "create"
    BY <1>1, <1>10 DEF JobRead, Job, FInv, IInv, TypeOK
  <2> QED BY <1>1, <1>8, <2>1, <2>2 DEF FInv, NoneYet
<1>11. CASE JobCreate(j, u)
  <2> DEFINE d == job[j].days[u]
             row == [NoRow EXCEPT !.user = u, !.live = TRUE, !.days = d, !.total = Salary - d]
  <2>1. PICK p \in Ids \ Present :
          /\ payroll' = [payroll EXCEPT ![p] = row]
          /\ job' = [job EXCEPT ![j] = [@ EXCEPT !.stage[u] = "rows", !.id[u] = p]]
    BY <1>11 DEF JobCreate
  <2>2. UNCHANGED failures /\ job[j].stage[u] = "create"
    BY <1>11 DEF JobCreate, Does
  <2>3. /\ row.user = u /\ row.live /\ row.days = d /\ row.total = Salary - d
        /\ row.rows = 0 /\ row.correction = 0 /\ row.processing = FALSE
    <3> HIDE DEF d
    <3> QED BY DEF NoRow
  <2>4. job'[j].stage[u] = "rows" /\ job'[j].id[u] = p /\ job'[j].days[u] = d
    BY <1>1, <2>1 DEF Job, FInv, IInv, TypeOK
  <2>5. payroll'[p] = row /\ \A q \in Ids : q # p => payroll'[q] = payroll[q]
    BY <2>1 DEF FInv, IInv, TypeOK
  <2>6. \A q \in Ids : payroll[q].user # u
    BY <1>1, <2>2 DEF FInv, NoneYet
  <2> HIDE DEF row, d
  <2>7. payroll[p].user = None
    BY <2>1 DEF Present
  <2>8. \A q \in Present' : q = p \/ q \in Present
    BY <2>5 DEF Present
  <2>9. (\A q \in Present' : payroll'[q].live) /\ OneEach'
    BY <1>3, <2>3, <2>5, <2>6, <2>8 DEF OneEach, FInv, Present
  <2>10. FiguresAgree'
    <3>1. AtWork(p)'
      BY <1>1, <2>4, PayrollAssumption DEF AtWork
    <3>2. \A q \in Ids : q # p /\ AtWork(q) => AtWork(q)'
      BY <1>1, <1>2, <2>2, <2>5, PayrollAssumption DEF AtWork
    <3> QED BY <1>1, <2>2, <2>5, <2>8, <3>1, <3>2 DEF FiguresAgree, FInv, Present
  <2>11. \A v \in Users : v # u /\ job[j].stage[v] = "rows" =>
           job[j].id[v] # p /\ Lacks(job[j].id[v], v, job[j].days[v])
    BY <1>1, <2>7, PayrollAssumption DEF FInv, JustMade, Lacks
  <2>12. \A v \in Users : v # u /\ job[j].stage[v] = "rows" =>
           Lacks(job[j].id[v], v, job[j].days[v])'
    BY <1>1, <2>5, <2>11 DEF Lacks
  <2>13. \A v \in Users : v # u /\ job[j].stage[v] \in {"read", "create"} =>
           \A q \in Ids : payroll'[q].user # v
    BY <1>1, <2>3, <2>5 DEF FInv, NoneYet
  <2>14. Lacks(job[j].id[u], u, job[j].days[u])'
    BY <2>1, <2>3, <2>4, <2>5 DEF Lacks
  <2> QED BY <2>4, <2>9, <2>10, <2>12, <2>13, <2>14
<1>12. CASE JobRows(j, u)
  <2> DEFINE p == job[j].id[u]
             d == job[j].days[u]
  <2>1. /\ payroll' = [payroll EXCEPT ![p].rows = @ + d]
        /\ UNCHANGED failures /\ job[j].stage[u] = "rows" /\ Then(j, u, "done")
    BY <1>12 DEF JobRows, Does
  <2>2. Lacks(p, u, d)
    BY <1>1, <2>1 DEF FInv, JustMade
  <2>3. job'[j].stage[u] = "done"
    BY <1>1, <2>1 DEF Then, Job, Stage, FInv, IInv, TypeOK
  <2>4. d \in Nat
    BY <1>1, PayrollAssumption DEF Job, Days
  <2>5. p \in Ids /\ payroll[p] \in Row
    BY <1>5, <2>2 DEF Lacks
  <2>6. /\ \A q \in Ids : q # p => payroll'[q] = payroll[q]
        /\ payroll'[p] = [payroll[p] EXCEPT !.rows = @ + d]
    BY <2>1, <2>5 DEF FInv, IInv, TypeOK
  <2>7. /\ payroll'[p].user = u /\ payroll'[p].live = payroll[p].live /\ payroll'[p].rows = d
        /\ payroll'[p].days = d /\ payroll'[p].total = Salary - d /\ payroll'[p].correction = 0
    BY <2>2, <2>4, <2>5, <2>6 DEF Lacks, Row
  <2> HIDE DEF p, d
  <2>8. \A q \in Ids : payroll'[q].user = payroll[q].user
    BY <2>2, <2>6, <2>7 DEF Lacks
  <2>9. (\A q \in Present' : payroll'[q].live) /\ OneEach'
    <3>1. Present' = Present
      BY <2>8 DEF Present
    <3> QED BY <1>3, <2>5, <2>6, <2>7, <2>8, <3>1 DEF OneEach, FInv, Present
  <2>10. FiguresAgree'
    <3>1. \A q \in Ids : q # p /\ AtWork(q) => AtWork(q)'
      BY <1>1, <1>2, <2>6, PayrollAssumption DEF AtWork, p
    <3>2. Agrees(payroll'[p])
      BY <2>4, <2>7, PayrollAssumption DEF Agrees
    <3> QED BY <1>1, <2>1, <2>6, <2>8, <3>1, <3>2 DEF FiguresAgree, FInv, Present, Agrees
  <2>11. \A v \in Users : v # u /\ job[j].stage[v] = "rows" =>
           job[j].id[v] # p /\ Lacks(job[j].id[v], v, job[j].days[v])
    BY <1>1, <2>2 DEF FInv, JustMade, Lacks
  <2>12. \A v \in Users : v # u /\ job[j].stage[v] = "rows" =>
           Lacks(job[j].id[v], v, job[j].days[v])'
    BY <1>1, <2>6, <2>11 DEF Lacks
  <2>13. \A v \in Users : v # u /\ job[j].stage[v] \in {"read", "create"} =>
           \A q \in Ids : payroll'[q].user # v
    BY <1>1, <2>8 DEF FInv, NoneYet
  <2> QED BY <2>3, <2>9, <2>10, <2>12, <2>13
<1>13. CASE JobUserFails(j, u)
  <2>1. UNCHANGED payroll /\ failures' \in Nat \ {0} /\ restarts \in Nat
    BY <1>13, PayrollAssumption DEF JobUserFails, FInv, IInv, TypeOK
  <2>2. job'[j].stage[u] = "done"
    BY <1>1, <1>13 DEF JobUserFails, Then, Job, Stage, FInv, IInv, TypeOK
  <2>3. restarts' + failures' # 0
    BY <1>1, <2>1, FailedOnce
  <2>4. (\A p \in Present' : payroll'[p].live) /\ OneEach' /\ FiguresAgree'
    BY <1>3, <2>1, <2>3 DEF FInv, OneEach, Present, FiguresAgree
  <2>5. \A v \in Users : v # u /\ job[j].stage[v] \in {"read", "create"} =>
           \A q \in Ids : payroll'[q].user # v
    BY <1>1, <2>1 DEF FInv, NoneYet
  <2>6. \A v \in Users : v # u /\ job[j].stage[v] = "rows" =>
           Lacks(job[j].id[v], v, job[j].days[v])'
    BY <1>1, <2>1 DEF FInv, JustMade, Lacks
  <2> QED BY <2>2, <2>4, <2>5, <2>6
<1> QED BY <1>9, <1>10, <1>11, <1>12, <1>13 DEF UserStep

(* The job as a whole, restarts, and what does not concern payrolls.       *)
LEMMA OtherStepsFInv ==
  ASSUME FInv, IInv',
         \/ AttendanceChanges \/ Restart \/ UNCHANGED vars
         \/ \E j \in Jobs : JobStart(j) \/ JobFinish(j) \/ JobFails(j)
  PROVE  FInv'
<1> USE DEF FInv
<1>1. CASE AttendanceChanges \/ UNCHANGED vars
  <2>1. /\ UNCHANGED <<processing, processed, payroll, bull, job, client, restarts, failures>>
    BY <1>1 DEF AttendanceChanges, vars, cycle, limits
  <2>2. \A q \in Ids : AtWork(q)' = AtWork(q)
    BY <2>1 DEF AtWork
  <2> QED BY <2>1, <2>2 DEF OneMessage, RequestsFollow, OneEach, NoneYet, JustMade, Lacks,
          RequestKnows, FiguresAgree, Present, Settled, Knows
<1>2. CASE Restart
  <2> DEFINE On == {j \in Jobs : job[j].on}
  <2>1. /\ UNCHANGED <<processing, processed, payroll, failures>>
        /\ \A j \in Jobs : ~job'[j].on
        /\ \A c \in Clients : client'[c].pc = "idle" /\ client'[c].id = None
        /\ bull' = bull + Cardinality(On)
        /\ restarts' + failures' # 0
    <3>1. restarts' \in Nat \ {0} /\ failures' \in Nat
      BY <1>2, PayrollAssumption DEF Restart, IInv, TypeOK
    <3>2. restarts' + failures' # 0
      BY <3>1, FailedOnce
    <3> QED BY <1>2, <3>2, Answered DEF Restart, cycle, JobIdle
  <2>2. CASE \E j \in Jobs : job[j].on
    <3>1. PICK j \in Jobs : job[j].on
      BY <2>2
    <3>2. bull = 0 /\ processing /\ ~processed /\ On = {j}
      BY <3>1 DEF OneMessage
    <3> HIDE DEF On
    <3>3. bull' = 1
      <4>1. Cardinality({j}) = 1
        BY FS_Singleton
      <4> QED BY <2>1, <3>2, <4>1
    <3> QED BY <2>1, <3>2, <3>3, NothingKnown DEF OneMessage, RequestsFollow, OneEach, NoneYet,
            JustMade, RequestKnows, Knows, FiguresAgree, Present
  <2>3. CASE ~\E j \in Jobs : job[j].on
    <3>1. On = {}
      BY <2>3
    <3> HIDE DEF On
    <3>2. bull' = bull
      BY <2>1, <3>1, FS_EmptySet DEF IInv, TypeOK
    <3> QED BY <2>1, <3>2 DEF OneMessage, RequestsFollow, OneEach, NoneYet, JustMade,
            RequestKnows, Knows, FiguresAgree, Present
  <2> QED BY <2>2, <2>3
<1>3. ASSUME NEW j \in Jobs, JobStart(j) PROVE FInv'
  <2>1. /\ bull = 1 /\ bull' = 0 /\ processing /\ ~processed /\ \A k \in Jobs : ~job[k].on
    BY <1>3 DEF JobStart, OneMessage
  <2>2. /\ \A k \in Jobs : k # j => ~job'[k].on
        /\ job'[j].on /\ \A u \in Users : job'[j].stage[u] = "check"
        /\ UNCHANGED <<processing, processed, payroll, client, restarts, failures>>
    BY <1>3, <2>1 DEF JobStart, JobIdle, cycle, limits, IInv, TypeOK
  <2>3. NoneYet' /\ JustMade' /\ OneEach'
    BY <2>2 DEF NoneYet, JustMade, OneEach, Present
  <2>4. \A q \in Ids : AtWork(q) => AtWork(q)'
    BY <2>1, <2>2 DEF AtWork
  <2>5. FiguresAgree'
    BY <2>2, <2>4 DEF FiguresAgree, Present
  <2>6. RequestKnows' /\ RequestsFollow'
    BY <2>2 DEF RequestKnows, Knows, Settled, RequestsFollow, Present
  <2>7. OneMessage'
    BY <2>1, <2>2 DEF OneMessage
  <2> QED BY <2>3, <2>5, <2>6, <2>7
<1>4. ASSUME NEW j \in Jobs, JobFinish(j) \/ JobFails(j) PROVE FInv'
  <2>1. /\ ~processed /\ \A k \in Jobs : job[k].on => k = j
        /\ \A u \in Users : job[j].on => job[j].stage[u] = "done"
    BY <1>4, QuietThen DEF JobFinish, JobFails, Ready, OneMessage
  <2>2. /\ \A k \in Jobs : ~job'[k].on
        /\ UNCHANGED <<payroll, client, restarts>> /\ bull' = 0
    <3>1. \A k \in Jobs : k # j => job'[k] = job[k]
      BY <1>4 DEF JobFinish, JobFails, IInv, TypeOK
    <3>2. ~job'[j].on /\ UNCHANGED <<payroll, client, restarts>>
      BY <1>4 DEF JobFinish, JobFails, JobIdle, limits, IInv, TypeOK
    <3>3. bull' = 0
      BY <1>4 DEF JobFinish, JobFails, Ready, OneMessage
    <3> QED BY <2>1, <3>1, <3>2, <3>3
  <2>3. \A c \in Clients : client[c].pc = "idle" /\ client[c].id = None
    <3>1. \A c \in Clients : client[c].pc \in {"idle", "set", "add"}
      BY <2>1 DEF RequestsFollow
    <3>2. \A c \in Clients : client[c].pc \notin {"set", "add"}
      BY <1>4 DEF JobFinish, JobFails, Ready, OneMessage
    <3> QED BY <3>1, <3>2 DEF RequestsFollow
  <2>4. NoneYet' /\ JustMade' /\ OneEach' /\ OneMessage' /\ RequestKnows'
    BY <2>2, <2>3 DEF NoneYet, JustMade, OneEach, Present, OneMessage, RequestKnows, Knows
  <2>5. RequestsFollow'
    BY <2>1, <2>2, <2>3 DEF RequestsFollow, Present
  <2>6. FiguresAgree'
    <3>1. CASE JobFinish(j)
      <4>1. UNCHANGED failures
        BY <3>1 DEF JobFinish, limits
      <4>2. \A q \in Ids : AtWork(q) => AtWork(q)'
        BY <2>1, <2>2 DEF AtWork
      <4> QED BY <2>2, <4>1, <4>2 DEF FiguresAgree, Present
    <3>2. CASE JobFails(j)
      <4>1. restarts' \in Nat /\ failures' \in Nat \ {0}
        BY <2>2, <3>2, PayrollAssumption DEF JobFails, IInv, TypeOK
      <4>2. restarts' + failures' # 0
        BY <4>1, FailedOnce
      <4> QED BY <4>2 DEF FiguresAgree
    <3> QED BY <1>4, <3>1, <3>2
  <2> QED BY <2>4, <2>5, <2>6
<1> QED BY <1>1, <1>2, <1>3, <1>4

LEMMA MarkAsPaidFInv ==
  ASSUME FInv, ~Early, Sequential, NEW c \in Clients, NEW p \in Ids, MarkAsPaid(c, p), IInv'
  PROVE  FInv'
<1> DEFINE row == [payroll[p] EXCEPT !.paid = TRUE]
<1>1. /\ processed /\ payroll[p] \in Row /\ payroll' = [payroll EXCEPT ![p] = row]
      /\ UNCHANGED <<processing, processed, bull, job, client, restarts, failures>>
  BY DEF MarkAsPaid, Open, cycle, FInv, IInv, TypeOK
<1>2. \A d \in Clients : client[d].pc = "idle" /\ client[d].id = None
  BY DEF MarkAsPaid, Sequential, FInv, RequestsFollow
<1>3. \A j \in Jobs : ~job[j].on
  BY <1>1 DEF FInv, OneMessage
<1>4. /\ row.user = payroll[p].user /\ row.live = payroll[p].live /\ row.rows = payroll[p].rows
      /\ row.days = payroll[p].days /\ row.total = payroll[p].total
      /\ row.correction = payroll[p].correction /\ row.processing = payroll[p].processing
  BY <1>1 DEF Row
<1>5. payroll'[p] = row /\ \A q \in Ids : q # p => payroll'[q] = payroll[q]
  BY <1>1 DEF FInv, IInv, TypeOK
<1> HIDE DEF row
<1>6. \A q \in Ids :
        /\ payroll'[q].user = payroll[q].user /\ payroll'[q].live = payroll[q].live
        /\ payroll'[q].rows = payroll[q].rows /\ payroll'[q].days = payroll[q].days
        /\ payroll'[q].total = payroll[q].total /\ payroll'[q].correction = payroll[q].correction
        /\ payroll'[q].processing = payroll[q].processing
  BY <1>4, <1>5
<1>7. OneMessage' /\ RequestsFollow' /\ NoneYet' /\ JustMade' /\ RequestKnows'
  BY <1>1, <1>2, <1>3 DEF FInv, OneMessage, RequestsFollow, NoneYet, JustMade, RequestKnows, Knows
<1>8. OneEach'
  BY <1>6 DEF FInv, OneEach, Present
<1>9. FiguresAgree'
  <2>1. \A q \in Ids : AtWork(q) => AtWork(q)'
    BY <1>2, <1>3, <1>6, PayrollAssumption DEF AtWork
  <2> QED BY <1>1, <1>6, <2>1 DEF FInv, FiguresAgree, Present
<1> QED BY <1>7, <1>8, <1>9 DEF FInv

LEMMA FInvKept ==
  ASSUME FInv, ~Early, Sequential, [Next]_vars
  PROVE  FInv'
<1>1. IInv'
  BY StepKeeps DEF FInv
<1>2. ASSUME NEW c \in Clients, ClientStep(c) PROVE FInv'
  <2>1. CASE ClientGoesOn(c) /\ client[c].pc \notin {"set", "add"}
    BY <1>1, <2>1, AtWorkOnPayroll
  <2>2. CASE ProcessRead(c) \/ ProcessSet(c) \/ ProcessAdd(c) \/ ClientFails(c)
    BY <1>1, <2>2, OtherRequestsFInv
  <2>3. ASSUME NEW p \in Ids, RecalculateRead(c, p) \/ RemoveRead(c, p) PROVE FInv'
    <3>1. p \in Open /\ p \in Present
      BY <2>3 DEF RecalculateRead, RemoveRead, Open
    <3>2. PICK pc \in {"mark", "update", "remove"} : pc # "update" /\ Request(c, pc, p, 0, 0)
      BY <2>3 DEF RecalculateRead, RemoveRead
    <3>3. 0 \in Int
      OBVIOUS
    <3> QED BY <1>1, <3>1, <3>2, <3>3, RequestFInv
  <2>4. ASSUME NEW p \in Ids, NEW n \in Corrections, UpdateRead(c, p, n) PROVE FInv'
    <3> DEFINE m == payroll[p].total - payroll[p].correction + n
    <3>1. p \in Open /\ p \in Present /\ payroll[p] \in Row /\ n \in Int
      BY <2>4, PayrollAssumption DEF UpdateRead, Open, Present, FInv, IInv, TypeOK
    <3>2. m \in Int
      BY <3>1 DEF Row
    <3>3. Request(c, "update", p, n, m)
      BY <2>4 DEF UpdateRead
    <3> QED BY <1>1, <3>1, <3>2, <3>3, RequestFInv
  <2>5. ClientGoesOn(c) => ProcessSet(c) \/ ProcessAdd(c) \/ client[c].pc \notin {"set", "add"}
    BY DEF ClientGoesOn, RecalculateMark, RecalculateClear, RecalculateCheck,
       RecalculateDays, RecalculateWrite, RecalculateRows, UpdateWrite, RemoveWrite, At
  <2> QED BY <1>1, <1>2, <2>1, <2>2, <2>3, <2>4, <2>5, MarkAsPaidFInv DEF ClientStep
<1>3. CASE Next
  BY <1>1, <1>2, <1>3, UserFInv, OtherStepsFInv DEF Next, JobStep
<1>4. CASE UNCHANGED vars
  BY <1>1, <1>4, OtherStepsFInv
<1> QED BY <1>3, <1>4

LEMMA FInvInitially == Init => FInv
<1> SUFFICES ASSUME Init PROVE FInv
  OBVIOUS
<1>1. IInv
  BY Initially
<1>2. /\ Present = {} /\ bull = 0 /\ ~processed /\ restarts + failures = 0
      /\ \A j \in Jobs : ~job[j].on
      /\ \A c \in Clients : client[c].pc = "idle" /\ client[c].id = None
  BY DEF Init, Present, NoRow, JobIdle, ClientIdle
<1> QED BY <1>1, <1>2, NothingKnown DEF FInv, OneMessage, RequestsFollow, OneEach, NoneYet, JustMade,
        FiguresAgree

(* A user has one payroll of the cycle, whatever restarts and fails, when  *)
(* requests take turns and come to payrolls once the cycle is processed.   *)
THEOREM OnePayrollForEach == Sequential /\ ~Early => (Spec => []OnePayroll)
<1> SUFFICES ASSUME Sequential, ~Early PROVE Spec => []OnePayroll
  OBVIOUS
<1>1. Init => FInv
  BY FInvInitially
<1>2. FInv /\ [Next]_vars => FInv'
  BY FInvKept
<1>3. FInv => OnePayroll
  <2> SUFFICES ASSUME FInv, NEW u \in Users PROVE Cardinality(Of(u)) <= 1
    BY DEF OnePayroll
  <2>1. \A p, q \in Of(u) : p = q
    BY PayrollAssumption DEF FInv, OneEach, Of, Present
  <2>2. CASE Of(u) = {}
    BY <2>2, FS_EmptySet
  <2>3. CASE Of(u) # {}
    <3>1. PICK p \in Of(u) : Of(u) = {p}
      BY <2>1, <2>3
    <3> QED BY <3>1, FS_Singleton
  <2> QED BY <2>2, <2>3
<1> QED BY <1>1, <1>2, <1>3, PTL DEF Spec

(* A payroll nobody is at work on has its deductions and its total in      *)
(* agreement, under the same conditions and unless something has failed.   *)
THEOREM FiguresAgreeThen == Sequential /\ ~Early => (Spec => []FiguresAgree)
<1> SUFFICES ASSUME Sequential, ~Early PROVE Spec => []FiguresAgree
  OBVIOUS
<1>1. Init => FInv
  BY FInvInitially
<1>2. FInv /\ [Next]_vars => FInv'
  BY FInvKept
<1>3. FInv => FiguresAgree
  BY DEF FInv
<1> QED BY <1>1, <1>2, <1>3, PTL DEF Spec

-----------------------------------------------------------------------------
(* The salary a payroll takes.                                             *)

Closing == \E h \in Raisers : sHandler[h].pc = "close"

\* While changes do not overlap, one is in progress at most.
OneRaise ==
  /\ \A h \in Raisers : sHandler[h].pc = "idle" => sHandler[h] = Salaries!Idle
  /\ ~raced => \A g, h \in Raisers : sHandler[g].pc # "idle" /\ sHandler[h].pc # "idle" => g = h

\* The salaries begin in the order they were entered, and each ends when the
\* next one begins, but for the two of which the first is being closed.
InOrder ==
  /\ \A i, j \in 1..Len(salary) : i <= j => salary[i].start <= salary[j].start
  /\ \A i \in 1..Len(salary) :
       \/ i < Len(salary) /\ ~salary[i].active /\ salary[i].end = salary[i + 1].start - 1
       \/ i + 1 = Len(salary) /\ Closing /\ salary[i].active /\ salary[i].end = LastDay + 1
       \/ i = Len(salary) /\ salary[i].active /\ salary[i].end = LastDay + 1

\* The new salary is the last one.
RaisesLast ==
  \A h \in Raisers :
    /\ sHandler[h].pc = "create" =>
         /\ sHandler[h].start \in 1..LastDay
         /\ \A i \in 1..Len(salary) : salary[i].start <= sHandler[h].start
    /\ sHandler[h].pc = "close" =>
         /\ Len(salary) # 0 /\ sHandler[h].new = Len(salary)
         /\ sHandler[h].start = salary[Len(salary)].start

SInv ==
  /\ Salaries!TypeOK /\ OneRaise
  /\ \A h \in Raisers : sHandler[h].pc # "idle" => sHandler[h].start \in 1..LastDay
  /\ ~raced /\ ~broken => InOrder /\ RaisesLast

SalaryRow == [start: 1..LastDay, end: 0..(LastDay + 1), active: BOOLEAN]
RaiseRow == [pc: {"idle", "create", "close"}, start: 0..LastDay, new: Nat]

SalaryShape ==
  /\ salary \in Seq(SalaryRow)
  /\ sHandler \in [Raisers -> RaiseRow]
  /\ raced \in BOOLEAN /\ broken \in BOOLEAN
  /\ sActions \in 0..MaxRaises /\ sFailures \in 0..MaxFailures

LEMMA SalaryTypeIs ==
  (Salaries!TypeOK <=> SalaryShape) /\ (Salaries!TypeOK' <=> SalaryShape')
BY Zenon DEF Salaries!TypeOK, SalaryShape, SalaryRow, RaiseRow, Salaries!Day, Salaries!Open

LEMMA SalaryTypes ==
  ASSUME Salaries!TypeOK
  PROVE  /\ salary \in Seq(SalaryRow) /\ sHandler \in [Raisers -> RaiseRow]
         /\ Len(salary) \in Nat /\ DOMAIN salary = 1..Len(salary)
         /\ \A i \in 1..Len(salary) : salary[i] \in SalaryRow
BY SalaryTypeIs DEF SalaryShape

LEMMA SalaryInit == SalaryAssumption /\ Salaries!Init => SInv
<1> SUFFICES ASSUME SalaryAssumption, Salaries!Init PROVE SInv
  OBVIOUS
<1>1. Salaries!Idle \in RaiseRow /\ Salaries!Idle.pc = "idle"
  BY DEF Salaries!Idle, RaiseRow, SalaryAssumption
<1>2. Salaries!TypeOK
  <2>1. salary \in Seq(SalaryRow)
    BY DEF Salaries!Init
  <2>2. sHandler \in [Raisers -> RaiseRow]
    BY <1>1 DEF Salaries!Init
  <2>3. sActions \in 0..MaxRaises /\ sFailures \in 0..MaxFailures
    BY DEF Salaries!Init, SalaryAssumption
  <2>4. raced \in BOOLEAN /\ broken \in BOOLEAN
    BY DEF Salaries!Init
  <2> QED
    BY <2>1, <2>2, <2>3, <2>4, SalaryTypeIs, Zenon DEF SalaryShape
<1>3. \A h \in Raisers : sHandler[h] = Salaries!Idle
  BY DEF Salaries!Init
<1>4. Len(salary) = 0
  BY DEF Salaries!Init
<1> QED
  BY <1>1, <1>2, <1>3, <1>4 DEF SInv, OneRaise, InOrder, RaisesLast

(* Only the last salary is active when no change is in progress.           *)
LEMMA RaiseStep ==
  ASSUME SalaryAssumption, SInv, NEW h \in Raisers, Salaries!Raise(h)
  PROVE  SInv'
<1>1. PICK d \in 1..LastDay :
        /\ Salaries!Active = {} \/ \E i \in Salaries!Active : d >= salary[i].start
        /\ Salaries!Begin(h, d)
  BY DEF Salaries!Raise, Salaries!Day
<1> DEFINE new == [pc |-> "create", start |-> d, new |-> 0]
<1>2. /\ sHandler[h] = Salaries!Idle /\ sActions < MaxRaises /\ sActions' = sActions + 1
      /\ sHandler' = [sHandler EXCEPT ![h] = new]
      /\ raced' = (raced \/ Salaries!Raising # {})
      /\ UNCHANGED <<salary, broken, sFailures>>
  BY <1>1 DEF Salaries!Begin
<1>3. new \in RaiseRow /\ new.pc = "create" /\ new.start = d
  BY <1>1 DEF RaiseRow, SalaryAssumption
<1> HIDE DEF new
<1>4. Salaries!TypeOK
  BY DEF SInv
<1>5. sHandler'[h] = new /\ \A g \in Raisers \ {h} : sHandler'[g] = sHandler[g]
  BY <1>2, <1>4, SalaryTypes
<1>6. sHandler' \in [Raisers -> RaiseRow]
  BY <1>2, <1>3, <1>4, SalaryTypes
<1>7. sActions' \in 0..MaxRaises
  BY <1>2, <1>4 DEF Salaries!TypeOK, SalaryAssumption
<1>8. raced' \in BOOLEAN
  BY <1>2, <1>4 DEF Salaries!TypeOK
<1>9. Salaries!TypeOK'
  <2>1. /\ salary' \in Seq(SalaryRow) /\ sFailures' \in 0..MaxFailures
        /\ broken' \in BOOLEAN
    BY <1>2, <1>4, SalaryTypeIs, Zenon DEF SalaryShape
  <2> QED
    BY <1>6, <1>7, <1>8, <2>1, SalaryTypeIs, Zenon DEF SalaryShape
<1>10. ~raced' => ~raced /\ \A g \in Raisers : sHandler[g].pc = "idle"
  <2>1. Salaries!Raising = {} => \A g \in Raisers : sHandler[g].pc = "idle"
    BY DEF Salaries!Raising, Salaries!Idle
  <2> QED
    BY <1>2, <2>1, Zenon
<1>11. OneRaise'
  BY <1>3, <1>5, <1>10 DEF SInv, OneRaise
<1>12. ASSUME ~raced', ~broken'
       PROVE  InOrder' /\ RaisesLast'
  <2>1. InOrder /\ ~Closing
    BY <1>2, <1>10, <1>12 DEF SInv, Closing
  <2>2. \A i \in 1..Len(salary) : i \in Salaries!Active => i = Len(salary)
    BY <2>1, <1>4, SalaryTypes DEF InOrder, Salaries!Active
  <2>3. Len(salary) # 0 => Len(salary) \in Salaries!Active
    <3> SUFFICES ASSUME Len(salary) # 0 PROVE Len(salary) \in Salaries!Active
      OBVIOUS
    <3>1. Len(salary) \in DOMAIN salary /\ Len(salary) \in 1..Len(salary)
      BY <1>4, SalaryTypes
    <3>2. ~(Len(salary) < Len(salary)) /\ Len(salary) + 1 # Len(salary)
      <4>1. Len(salary) \in Nat
        BY <1>4, SalaryTypes
      <4> QED
        BY <4>1
    <3>3. salary[Len(salary)].active
      BY <2>1, <3>1, <3>2, Zenon DEF InOrder
    <3> QED
      BY <3>1, <3>3, Zenon DEF Salaries!Active
  <2>4. Len(salary) # 0 => salary[Len(salary)].start <= d
    BY <2>2, <2>3, <1>1, <1>4, SalaryTypes DEF Salaries!Active, SalaryRow
  <2>5. \A i \in 1..Len(salary) : salary[i].start <= d
    <3> SUFFICES ASSUME NEW i \in 1..Len(salary) PROVE salary[i].start <= d
      OBVIOUS
    <3>1. Len(salary) \in 1..Len(salary) /\ i <= Len(salary) /\ Len(salary) # 0
      BY <1>4, SalaryTypes
    <3>2. salary[i].start <= salary[Len(salary)].start
      BY <2>1, <3>1 DEF InOrder
    <3>3. salary[i].start \in Int /\ salary[Len(salary)].start \in Int /\ d \in Int
      BY <3>1, <1>4, SalaryTypes DEF SalaryRow
    <3> QED
      BY <2>4, <3>1, <3>2, <3>3
  <2>6. InOrder'
    BY <1>2, <2>1 DEF InOrder
  <2>7. RaisesLast'
    BY <1>1, <1>2, <1>3, <1>5, <1>10, <1>12, <2>5 DEF RaisesLast
  <2> QED
    BY <2>6, <2>7
<1>13. \A g \in Raisers : sHandler'[g].pc # "idle" => sHandler'[g].start \in 1..LastDay
  BY <1>1, <1>3, <1>5 DEF SInv
<1> QED
  BY <1>9, <1>11, <1>12, <1>13 DEF SInv

LEMMA CreateStep ==
  ASSUME SalaryAssumption, SInv, NEW h \in Raisers, Salaries!CreateSalary(h)
  PROVE  SInv'
<1> DEFINE n == Len(salary)
           new == [start |-> sHandler[h].start, end |-> LastDay + 1, active |-> TRUE]
           row == [sHandler[h] EXCEPT !.pc = "close", !.new = n + 1]
<1>1. Salaries!TypeOK /\ n \in Nat
  BY SalaryTypes DEF SInv
<1>2. /\ sHandler[h].pc = "create" /\ salary' = Append(salary, new)
      /\ UNCHANGED <<raced, broken, sActions, sFailures>>
  BY DEF Salaries!CreateSalary, Salaries!Open
<1>3. sHandler[h] \in RaiseRow /\ sHandler[h].start \in 1..LastDay
  BY <1>1, <1>2, SalaryTypes DEF SInv
<1>4. new \in SalaryRow /\ new.start = sHandler[h].start /\ new.end = LastDay + 1 /\ new.active
  BY <1>3 DEF SalaryRow, SalaryAssumption
<1>5. row \in RaiseRow /\ row.pc = "close" /\ row.new = n + 1 /\ row.start = sHandler[h].start
  <2>1. n + 1 \in Nat
    BY <1>1
  <2> HIDE DEF n
  <2> QED
    BY <1>3, <2>1 DEF RaiseRow
<1>6. sHandler' = [sHandler EXCEPT ![h] = row]
  BY <1>1, <1>3, SalaryTypes DEF Salaries!CreateSalary, RaiseRow
<1> HIDE DEF row, new
<1>7. sHandler'[h] = row /\ (\A g \in Raisers \ {h} : sHandler'[g] = sHandler[g])
      /\ sHandler' \in [Raisers -> RaiseRow]
  BY <1>1, <1>5, <1>6, SalaryTypes
<1>8. /\ salary' \in Seq(SalaryRow) /\ Len(salary') = n + 1 /\ salary'[n + 1] = new
      /\ \A i \in 1..n : salary'[i] = salary[i]
  BY <1>1, <1>2, <1>4, SalaryTypes
<1>9. Salaries!TypeOK'
  <2>1. /\ raced' \in BOOLEAN /\ broken' \in BOOLEAN
        /\ sActions' \in 0..MaxRaises /\ sFailures' \in 0..MaxFailures
    BY <1>1, <1>2, SalaryTypeIs, Zenon DEF SalaryShape
  <2> QED
    BY <1>7, <1>8, <2>1, SalaryTypeIs, Zenon DEF SalaryShape
<1>10. OneRaise'
  BY <1>2, <1>5, <1>7 DEF SInv, OneRaise
<1>11. \A g \in Raisers : sHandler'[g].pc # "idle" => sHandler'[g].start \in 1..LastDay
  BY <1>3, <1>5, <1>7 DEF SInv
<1>12. ASSUME ~raced, ~broken
       PROVE  InOrder' /\ RaisesLast'
  <2>1. InOrder /\ RaisesLast
    BY <1>12 DEF SInv
  <2>2. \A g \in Raisers \ {h} : sHandler[g].pc = "idle"
    BY <1>2, <1>12 DEF SInv, OneRaise
  <2>3. ~Closing
    BY <1>2, <2>2 DEF Closing
  <2>4. Closing'
    BY <1>5, <1>7 DEF Closing
  <2>5. \A i \in 1..n : salary[i].start <= new.start
    BY <1>2, <1>4, <2>1 DEF RaisesLast
  <2>6. \A i, j \in 1..(n + 1) : i <= j => salary'[i].start <= salary'[j].start
    <3> SUFFICES ASSUME NEW i \in 1..(n + 1), NEW j \in 1..(n + 1), i <= j
                 PROVE  salary'[i].start <= salary'[j].start
      OBVIOUS
    <3>1. CASE j \in 1..n
      <4>1. i \in 1..n
        BY <3>1, <1>1
      <4> QED
        BY <1>8, <2>1, <3>1, <4>1 DEF InOrder
    <3>2. CASE j = n + 1 /\ i \in 1..n
      BY <1>8, <2>5, <3>2
    <3>3. CASE i = n + 1 /\ j = n + 1
      <4>1. new.start \in Int
        BY <1>4 DEF SalaryRow
      <4> QED
        BY <1>8, <3>3, <4>1
    <3> QED
      BY <1>1, <3>1, <3>2, <3>3
  <2>7. \A i \in 1..(n + 1) :
          \/ i < n + 1 /\ ~salary'[i].active /\ salary'[i].end = salary'[i + 1].start - 1
          \/ i + 1 = n + 1 /\ salary'[i].active /\ salary'[i].end = LastDay + 1
          \/ i = n + 1 /\ salary'[i].active /\ salary'[i].end = LastDay + 1
    <3> SUFFICES ASSUME NEW i \in 1..(n + 1)
                 PROVE
          \/ i < n + 1 /\ ~salary'[i].active /\ salary'[i].end = salary'[i + 1].start - 1
          \/ i + 1 = n + 1 /\ salary'[i].active /\ salary'[i].end = LastDay + 1
          \/ i = n + 1 /\ salary'[i].active /\ salary'[i].end = LastDay + 1
      OBVIOUS
    <3>1. CASE i = n + 1
      BY <1>4, <1>8, <3>1
    <3>2. CASE i = n /\ i \in 1..n
      BY <1>1, <1>8, <2>1, <2>3, <3>2 DEF InOrder
    <3>3. CASE i < n
      <4>1. i \in 1..n /\ i + 1 \in 1..n
        BY <1>1, <3>3
      <4>2. ~salary[i].active /\ salary[i].end = salary[i + 1].start - 1
        BY <1>1, <2>1, <2>3, <3>3, <4>1 DEF InOrder
      <4> QED
        BY <1>1, <1>8, <3>3, <4>1, <4>2
    <3> QED
      BY <1>1, <3>1, <3>2, <3>3
  <2>8. InOrder'
    BY <1>8, <2>4, <2>6, <2>7 DEF InOrder
  <2>9. RaisesLast'
    <3>1. \A g \in Raisers : sHandler'[g].pc # "create"
      BY <1>5, <1>7, <2>2
    <3>2. ASSUME NEW g \in Raisers, sHandler'[g].pc = "close"
          PROVE  /\ Len(salary') # 0 /\ sHandler'[g].new = Len(salary')
                 /\ sHandler'[g].start = salary'[Len(salary')].start
      <4>1. g = h
        BY <1>7, <2>2, <3>2
      <4> QED
        BY <1>1, <1>4, <1>5, <1>7, <1>8, <4>1
    <3> QED
      BY <3>1, <3>2 DEF RaisesLast
  <2> QED
    BY <2>8, <2>9
<1> QED
  BY <1>2, <1>9, <1>10, <1>11, <1>12 DEF SInv

LEMMA IdleRow ==
  SalaryAssumption => Salaries!Idle \in RaiseRow /\ Salaries!Idle.pc = "idle"
BY DEF Salaries!Idle, RaiseRow, SalaryAssumption

(* The last salary but one is the only other one that is active.           *)
LEMMA CloseStep ==
  ASSUME SalaryAssumption, SInv, NEW h \in Raisers, Salaries!CloseOthers(h)
  PROVE  SInv'
<1> DEFINE n == Len(salary)
           closed(i) == [salary[i] EXCEPT !.end = sHandler[h].start - 1, !.active = FALSE]
<1>1. Salaries!TypeOK /\ n \in Nat /\ sHandler \in [Raisers -> RaiseRow]
  BY SalaryTypes DEF SInv
<1>2. /\ sHandler[h].pc = "close"
      /\ salary' = [i \in 1..n |->
           IF i # sHandler[h].new /\ salary[i].active THEN closed(i) ELSE salary[i]]
      /\ sHandler' = [sHandler EXCEPT ![h] = Salaries!Idle]
      /\ UNCHANGED <<raced, broken, sActions, sFailures>>
  BY <1>1, SalaryTypes DEF Salaries!CloseOthers
<1>3. sHandler[h].start \in 1..LastDay /\ sHandler[h].start - 1 \in 0..(LastDay + 1)
  <2>1. sHandler[h].start \in 1..LastDay
    <3>1. sHandler[h].pc # "idle"
      BY <1>2
    <3> QED
      BY <3>1 DEF SInv
  <2> QED
    BY <2>1 DEF SalaryAssumption
<1>4. \A i \in 1..n : /\ closed(i) \in SalaryRow /\ closed(i).start = salary[i].start
                      /\ closed(i).end = sHandler[h].start - 1 /\ closed(i).active = FALSE
  <2>1. \A i \in 1..n : salary[i] \in SalaryRow
    BY <1>1, SalaryTypes
  <2> HIDE DEF n
  <2> QED
    BY <1>3, <2>1 DEF SalaryRow
<1> HIDE DEF closed
<1>5. sHandler'[h] = Salaries!Idle /\ (\A g \in Raisers \ {h} : sHandler'[g] = sHandler[g])
      /\ sHandler' \in [Raisers -> RaiseRow]
  BY <1>1, <1>2, IdleRow
<1>6. /\ salary' \in Seq(SalaryRow) /\ Len(salary') = n
      /\ \A i \in 1..n : salary'[i] =
           IF i # sHandler[h].new /\ salary[i].active THEN closed(i) ELSE salary[i]
  <2>1. \A i \in 1..n : salary[i] \in SalaryRow
    BY <1>1, SalaryTypes
  <2>2. salary' \in [1..n -> SalaryRow]
    BY <1>2, <1>4, <2>1
  <2>3. salary' \in Seq(SalaryRow) /\ Len(salary') = n
    <3> HIDE DEF n
    <3> QED
      BY <1>1, <2>2
  <2> QED
    BY <1>2, <2>3
<1>7. Salaries!TypeOK'
  <2>1. /\ raced' \in BOOLEAN /\ broken' \in BOOLEAN
        /\ sActions' \in 0..MaxRaises /\ sFailures' \in 0..MaxFailures
    BY <1>1, <1>2, SalaryTypeIs, Zenon DEF SalaryShape
  <2> QED
    BY <1>5, <1>6, <2>1, SalaryTypeIs, Zenon DEF SalaryShape
<1>8. OneRaise'
  BY <1>2, <1>5, IdleRow DEF SInv, OneRaise
<1>9. \A g \in Raisers : sHandler'[g].pc # "idle" => sHandler'[g].start \in 1..LastDay
  BY <1>5, IdleRow DEF SInv
<1>10. ASSUME ~raced, ~broken
       PROVE  InOrder' /\ RaisesLast'
  <2>1. InOrder /\ RaisesLast
    BY <1>10 DEF SInv
  <2>2. \A g \in Raisers : sHandler'[g].pc = "idle"
    BY <1>2, <1>5, <1>10, IdleRow DEF SInv, OneRaise
  <2>3. /\ n # 0 /\ sHandler[h].new = n /\ sHandler[h].start = salary[n].start
    BY <1>2, <2>1 DEF RaisesLast
  <2>4. \A i \in 1..n : salary'[i].start = salary[i].start
    BY <1>4, <1>6
  <2>5. \A i, j \in 1..n : i <= j => salary'[i].start <= salary'[j].start
    BY <2>1, <2>4 DEF InOrder
  <2>6. ASSUME NEW i \in 1..n
        PROVE  \/ i < n /\ ~salary'[i].active /\ salary'[i].end = salary'[i + 1].start - 1
               \/ i = n /\ salary'[i].active /\ salary'[i].end = LastDay + 1
    <3>1. CASE i = n
      <4>1. salary[i].active /\ salary[i].end = LastDay + 1
        <5>1. ~(i < n) /\ i + 1 # n
          BY <1>1, <3>1
        <5> QED
          BY <2>1, <5>1 DEF InOrder
      <4>2. salary'[i] = salary[i]
        BY <1>6, <2>3, <3>1
      <4> QED
        BY <3>1, <4>1, <4>2
    <3>2. CASE i < n
      <4>1. i + 1 \in 1..n /\ i # n
        BY <1>1, <3>2
      <4>2. CASE salary[i].active
        <5>1. i + 1 = n
          BY <2>1, <4>1, <4>2 DEF InOrder
        <5>2. salary'[i] = closed(i)
          BY <1>6, <2>3, <4>1, <4>2
        <5> QED
          BY <1>4, <2>3, <2>4, <3>2, <4>1, <5>1, <5>2
      <4>3. CASE ~salary[i].active
        <5>1. salary[i].end = salary[i + 1].start - 1
          BY <2>1, <4>1, <4>3 DEF InOrder
        <5>2. salary'[i] = salary[i]
          BY <1>6, <4>3
        <5> QED
          BY <2>4, <3>2, <4>1, <4>3, <5>1, <5>2
      <4> QED
        BY <4>2, <4>3
    <3> QED
      BY <1>1, <3>1, <3>2
  <2>7. InOrder'
    BY <1>6, <2>5, <2>6 DEF InOrder
  <2>8. RaisesLast'
    BY <2>2 DEF RaisesLast
  <2> QED
    BY <2>7, <2>8
<1> QED
  BY <1>2, <1>7, <1>8, <1>9, <1>10 DEF SInv

LEMMA RaiseFails ==
  ASSUME SalaryAssumption, SInv, NEW h \in Raisers, Salaries!QueryFails(h)
  PROVE  SInv'
<1>1. Salaries!TypeOK /\ sHandler \in [Raisers -> RaiseRow] /\ Len(salary) \in Nat
  BY SalaryTypes DEF SInv
<1>2. /\ sFailures < MaxFailures /\ sFailures' = sFailures + 1
      /\ broken' = (broken \/ sHandler[h].pc = "close")
      /\ sHandler' = [sHandler EXCEPT ![h] = Salaries!Idle]
      /\ UNCHANGED <<salary, raced, sActions>>
  BY DEF Salaries!QueryFails
<1>3. sHandler'[h] = Salaries!Idle /\ (\A g \in Raisers \ {h} : sHandler'[g] = sHandler[g])
      /\ sHandler' \in [Raisers -> RaiseRow]
  BY <1>1, <1>2, IdleRow
<1>4. Salaries!TypeOK'
  <2>1. sFailures' \in 0..MaxFailures
    BY <1>1, <1>2, SalaryTypeIs DEF SalaryShape, SalaryAssumption
  <2>2. raced' \in BOOLEAN /\ sActions' \in 0..MaxRaises /\ salary' \in Seq(SalaryRow)
    BY <1>1, <1>2, SalaryTypeIs, Zenon DEF SalaryShape
  <2>3. broken' \in BOOLEAN
    BY <1>2
  <2> QED
    BY <1>3, <2>1, <2>2, <2>3, SalaryTypeIs, Zenon DEF SalaryShape
<1>5. OneRaise'
  BY <1>2, <1>3, IdleRow DEF SInv, OneRaise
<1>6. \A g \in Raisers : sHandler'[g].pc # "idle" => sHandler'[g].start \in 1..LastDay
  BY <1>3, IdleRow DEF SInv
<1>7. ASSUME ~raced, ~broken'
      PROVE  InOrder' /\ RaisesLast'
  <2>1. ~broken /\ sHandler[h].pc # "close"
    BY <1>2, <1>7, Zenon
  <2>2. InOrder /\ RaisesLast
    BY <1>7, <2>1 DEF SInv
  <2>3. Closing' <=> Closing
    BY <1>3, <2>1, IdleRow DEF Closing
  <2>4. InOrder'
    BY <1>2, <2>2, <2>3 DEF InOrder
  <2>5. RaisesLast'
    BY <1>2, <1>3, <2>2, IdleRow DEF RaisesLast
  <2> QED
    BY <2>4, <2>5
<1> QED
  BY <1>2, <1>4, <1>5, <1>6, <1>7 DEF SInv

LEMMA SalaryNext == SalaryAssumption /\ SInv /\ [Salaries!Next]_(Salaries!vars) => SInv'
<1> SUFFICES ASSUME SalaryAssumption, SInv, [Salaries!Next]_(Salaries!vars) PROVE SInv'
  OBVIOUS
<1>1. CASE UNCHANGED Salaries!vars
  <2>1. UNCHANGED <<salary, sHandler, raced, broken, sActions, sFailures>>
    BY <1>1 DEF Salaries!vars
  <2>2. Salaries!TypeOK'
    BY <2>1, SalaryTypeIs, Zenon DEF SInv, SalaryShape
  <2> QED
    BY <2>1, <2>2 DEF SInv, OneRaise, InOrder, RaisesLast, Closing
<1> QED
  BY <1>1, RaiseStep, CreateStep, CloseStep, RaiseFails DEF Salaries!Next

-----------------------------------------------------------------------------
(* Numbers have a least one.                                               *)
LEMMA SmallestNumber ==
  ASSUME NEW S \in SUBSET Nat, S # {}
  PROVE  \E m \in S : \A i \in S : m <= i
<1> DEFINE R == {p \in Nat \X Nat : p[1] < p[2]}
<1>1. IsWellFoundedOn(R, Nat)
  BY NatLessThanWellFounded DEF OpToRel
<1>2. PICK m \in S : \A i \in S : <<i, m>> \notin R
  <2> HIDE DEF R
  <2> QED
    BY <1>1, WFMin
<1>3. ASSUME NEW i \in S PROVE m <= i
  <2>1. <<i, m>> \in Nat \X Nat /\ <<i, m>>[1] = i /\ <<i, m>>[2] = m
    OBVIOUS
  <2>2. ~(i < m)
    BY <1>2, <2>1, Zenon
  <2> QED
    BY <2>2
<1> QED
  BY <1>3

(* Of the salaries that have begun on d, the last one ends on d or later.  *)
LEMMA LastBegun ==
  ASSUME SalaryAssumption, SInv, ~raced, ~broken, NEW d \in 1..LastDay,
         NEW j \in 1..Len(salary), salary[j].start <= d
  PROVE  \E l \in 1..Len(salary) : salary[l].start <= d /\ salary[l].end >= d
<1> DEFINE n == Len(salary)
           After == {i \in 1..n : ~(salary[i].start <= d)}
<1>1. InOrder /\ n \in Nat /\ \A i \in 1..n : salary[i] \in SalaryRow
  BY SalaryTypes DEF SInv
<1>2. \A i \in 1..n : salary[i].start \in Int /\ salary[i].end \in Int
  BY <1>1 DEF SalaryRow
<1>3. CASE After = {}
  <2>1. n \in 1..n /\ ~(n < n)
    BY <1>1
  <2>2. salary[n].start <= d
    BY <1>3, <2>1
  <2>3. salary[n].end = LastDay + 1
    BY <1>1, <2>1 DEF InOrder
  <2> QED
    BY <2>1, <2>2, <2>3 DEF SalaryAssumption
<1>4. CASE After # {}
  <2>1. \E m \in After : \A i \in After : m <= i
    <3>1. After \subseteq Nat
      OBVIOUS
    <3> HIDE DEF After
    <3> QED
      BY <1>4, <3>1, SmallestNumber
  <2>2. PICK m \in After : \A i \in After : m <= i
    BY <2>1
  <2>3. m # 1 /\ m - 1 \in 1..n
    <3>1. j < m
      BY <1>1, <1>2, <2>2 DEF InOrder
    <3> QED
      BY <1>1, <2>2, <3>1
  <2>4. salary[m - 1].start <= d
    <3>1. m - 1 \notin After
      BY <1>1, <2>2
    <3> QED
      BY <2>3, <3>1
  <2>5. salary[m - 1].end >= d
    <3>1. salary[m].start - 1 >= d
      BY <1>2, <2>2
    <3>2. CASE salary[m - 1].end = salary[m].start - 1
      BY <3>1, <3>2
    <3>3. CASE salary[m - 1].end = LastDay + 1
      BY <3>3 DEF SalaryAssumption
    <3>4. m - 1 + 1 = m /\ m \in 1..n
      BY <1>1, <2>2
    <3> QED
      BY <1>1, <2>3, <3>2, <3>3, <3>4 DEF InOrder
  <2> QED
    BY <2>3, <2>4, <2>5
<1> QED
  BY <1>3, <1>4

(* The salary a payroll takes on d is the one that was entered last of     *)
(* those that have begun (updateSalary of user.service.ts, and             *)
(* preparePayrollReportofAllUser), for any number of salaries and changes. *)
THEOREM SalaryIsInForce == SalaryAssumption => (Salaries!Spec => []Salaries!SalaryInForce)
<1> SUFFICES ASSUME SalaryAssumption PROVE Salaries!Spec => []Salaries!SalaryInForce
  OBVIOUS
<1>1. Salaries!Init => SInv
  BY SalaryInit
<1>2. SInv /\ [Salaries!Next]_(Salaries!vars) => SInv'
  BY SalaryNext
<1>3. SInv => Salaries!SalaryInForce
  <2> SUFFICES ASSUME SInv, ~raced, ~broken, NEW d \in 1..LastDay,
                      NEW i \in Salaries!Taken(d), NEW j \in DOMAIN salary,
                      salary[j].start <= d
               PROVE  \/ j <= i
                      \/ Salaries!Raising # {} /\ salary[j].start = salary[i].start
    BY DEF Salaries!SalaryInForce, Salaries!Day
  <2> DEFINE n == Len(salary)
  <2>1. /\ InOrder /\ n \in Nat /\ DOMAIN salary = 1..n
        /\ \A k \in 1..n : salary[k] \in SalaryRow
    BY SalaryTypes DEF SInv
  <2>2. \A k \in 1..n : salary[k].start \in Int /\ salary[k].end \in Int
    BY <2>1 DEF SalaryRow
  <2>3. i \in 1..n /\ j \in 1..n /\ salary[i].start <= d
    BY <2>1 DEF Salaries!Taken
  <2>4. \A k \in 1..n : salary[k].start <= d =>
          /\ ~(salary[i].end < salary[k].end)
          /\ ~(salary[i].end = salary[k].end /\ salary[i].start < salary[k].start)
    BY <2>1 DEF Salaries!Taken
  <2>5. PICK l \in 1..n : salary[l].start <= d /\ salary[l].end >= d
    BY <2>1, <2>3, LastBegun
  <2>6. CASE j <= i
    BY <2>6
  <2>7. CASE i < j
    <3>0. n \in Nat /\ i \in 1..n /\ j \in 1..n /\ i < j
      BY <2>1, <2>3, <2>7
    <3> HIDE DEF n
    <3>1. i + 1 \in 1..n /\ i + 1 <= j /\ i # n /\ i <= j
      BY <3>0
    <3> USE DEF n
    <3>2. salary[i + 1].start <= d
      <4>1. salary[i + 1].start <= salary[j].start
        BY <2>1, <2>3, <3>1 DEF InOrder
      <4>2. salary[j].start \in Int /\ salary[i + 1].start \in Int
        BY <2>2, <2>3, <3>1
      <4> QED
        BY <4>1, <4>2
    <3>3. salary[i].end # salary[i + 1].start - 1
      BY <2>2, <2>3, <2>4, <2>5, <3>1, <3>2
    <3>4. i + 1 = n /\ Closing /\ salary[i].end = LastDay + 1
      BY <2>1, <2>3, <3>1, <3>3 DEF InOrder
    <3>5. j = n /\ ~(n < n) /\ n + 1 # n
      <4> HIDE DEF n
      <4> QED
        BY <3>0, <3>4
    <3>6. salary[j].end = LastDay + 1
      BY <2>1, <2>3, <3>5 DEF InOrder
    <3>7. salary[i].start <= salary[j].start
      BY <2>1, <2>3, <3>1 DEF InOrder
    <3>8. salary[j].start = salary[i].start
      BY <2>2, <2>3, <2>4, <3>4, <3>6, <3>7
    <3>9. Salaries!Raising # {}
      BY <3>4 DEF Closing, Salaries!Raising, Salaries!Idle
    <3> QED
      BY <3>8, <3>9
  <2> QED
    BY <2>1, <2>3, <2>6, <2>7
<1> QED
  BY <1>1, <1>2, <1>3, PTL DEF Salaries!Spec

-----------------------------------------------------------------------------
(* The dates of the cycles.                                                *)

(* A cycle that is being created is not one that exists, nor another's.    *)
NewCycles ==
  /\ \A h \in Makers : cHandler[h].cycle = None <=> cHandler[h] = Dates!Idle
  /\ \A h \in Makers : cHandler[h] # Dates!Idle =>
       cHandler[h].span \in Dates!Span /\ cHandler[h].cycle \notin Dates!Rows
  /\ \A g, h \in Makers :
       g # h /\ cHandler[g].cycle = cHandler[h].cycle => cHandler[g] = Dates!Idle

(* Of two that are being created, one was validated while the other was.   *)
OneAtATime ==
  \A g, h \in Makers :
    g # h /\ cHandler[g] # Dates!Idle /\ cHandler[h] # Dates!Idle
      => cHandler[g].cycle \in unchecked \/ cHandler[h].cycle \in unchecked

(* What was made sure of still holds.                                      *)
Apart ==
  /\ \A c, d \in Dates!Rows \ unchecked : c # d => ~Dates!Overlap(cycles[c], cycles[d])
  /\ \A h \in Makers : cHandler[h] # Dates!Idle /\ cHandler[h].cycle \notin unchecked =>
       \A d \in Dates!Rows \ unchecked : ~Dates!Overlap(cycles[d], cHandler[h].span)

(* A processed cycle is not removed, and keeps its dates or is unchecked.  *)
PaidAsDated ==
  /\ cProcessed \subseteq Dates!Rows
  /\ \A c \in cProcessed \ unchecked : paid[c] = cycles[c]

DInv == Dates!TypeOK /\ NewCycles /\ OneAtATime /\ Apart /\ PaidAsDated

LEMMA DatesInit == DatesAssumption /\ Dates!Init => DInv
<1> SUFFICES ASSUME DatesAssumption, Dates!Init PROVE DInv
  OBVIOUS
<1>1. /\ today = 1 /\ cProcessed = {} /\ unchecked = {} /\ cActions = 0 /\ cFailures = 0
      /\ cycles = [c \in Cycles |-> None] /\ paid = [c \in Cycles |-> None]
      /\ cHandler = [h \in Makers |-> Dates!Idle]
  BY DEF Dates!Init
<1>2. Dates!Idle \in [cycle: Cycles \cup {None}, span: Dates!Span \cup {None}]
      /\ Dates!Idle.cycle = None
  BY DEF Dates!Idle
<1>3. today \in Dates!Day /\ cActions \in 0..MaxCycles /\ cFailures \in 0..MaxFailures
  BY <1>1 DEF DatesAssumption, Dates!Day
<1>4. Dates!TypeOK
  BY <1>1, <1>2, <1>3 DEF Dates!TypeOK
<1>5. Dates!Rows = {}
  BY <1>1 DEF Dates!Rows
<1> QED
  BY <1>1, <1>2, <1>4, <1>5 DEF DInv, NewCycles, OneAtATime, Apart, PaidAsDated

LEMMA DayPassesStep == ASSUME DatesAssumption, DInv, Dates!DayPasses PROVE DInv'
<1>1. /\ today < LastDay /\ today' = today + 1
      /\ UNCHANGED <<cycles, cProcessed, paid, cHandler, unchecked, cActions, cFailures>>
  BY DEF Dates!DayPasses
<1>2. today' \in Dates!Day
  BY <1>1 DEF DInv, Dates!TypeOK, Dates!Day, DatesAssumption
<1>3. Dates!TypeOK'
  BY <1>1, <1>2 DEF DInv, Dates!TypeOK
<1>4. Dates!Rows' = Dates!Rows
  BY <1>1 DEF Dates!Rows
<1> QED
  BY <1>1, <1>3, <1>4 DEF DInv, NewCycles, OneAtATime, Apart, PaidAsDated, Dates!Overlap

(* A cycle that overlaps none, validated while no other is being created.  *)
LEMMA ValidateStep ==
  ASSUME DatesAssumption, DInv, NEW h \in Makers, Dates!ValidateDates(h)
  PROVE  DInv'
<1>1. PICK c \in Cycles \ (Dates!Rows \cup Dates!Creating), s \in Dates!Span :
        /\ cHandler[h] = Dates!Idle /\ cActions < MaxCycles /\ cActions' = cActions + 1
        /\ \A d \in Dates!Rows : ~Dates!Overlap(cycles[d], s)
        /\ cHandler' = [cHandler EXCEPT ![h] = [cycle |-> c, span |-> s]]
        /\ unchecked' = IF Dates!Creating # {} THEN unchecked \cup {c} ELSE unchecked \ {c}
        /\ UNCHANGED <<today, cycles, cProcessed, paid, cFailures>>
  BY DEF Dates!ValidateDates, Dates!Counted
<1> DEFINE new == [cycle |-> c, span |-> s]
<1>2. /\ new \in [cycle: Cycles \cup {None}, span: Dates!Span \cup {None}]
      /\ new.cycle = c /\ new.span = s /\ c # None
  BY DEF DatesAssumption
<1>3. new # Dates!Idle
  BY <1>2 DEF Dates!Idle
<1>4. cHandler' = [cHandler EXCEPT ![h] = new]
  BY <1>1
<1> HIDE DEF new
<1>5. /\ cHandler' \in [Makers -> [cycle: Cycles \cup {None}, span: Dates!Span \cup {None}]]
      /\ cHandler'[h] = new /\ \A g \in Makers \ {h} : cHandler'[g] = cHandler[g]
  BY <1>2, <1>4 DEF DInv, Dates!TypeOK
<1>6. cActions' \in 0..MaxCycles
  BY <1>1 DEF DInv, Dates!TypeOK, DatesAssumption
<1>7. Dates!TypeOK'
  BY <1>1, <1>5, <1>6 DEF DInv, Dates!TypeOK
<1>8. Dates!Rows' = Dates!Rows /\ c \notin Dates!Rows
  BY <1>1 DEF Dates!Rows
<1>9. \A g \in Makers : cHandler[g] # Dates!Idle => cHandler[g].cycle \in Dates!Creating
  BY DEF DInv, NewCycles, Dates!Creating
<1>10. NewCycles'
  <2>1. \A g \in Makers : cHandler[g].cycle # c
    BY <1>1, <1>2, <1>9 DEF DInv, NewCycles
  <2>2. Dates!Idle' = Dates!Idle /\ Dates!Span' = Dates!Span
    BY DEF Dates!Idle, Dates!Span, Dates!Day
  <2>3. \A g \in Makers : cHandler'[g].cycle = None <=> cHandler'[g] = Dates!Idle
    BY <1>2, <1>3, <1>5 DEF DInv, NewCycles
  <2>4. \A g \in Makers : cHandler'[g] # Dates!Idle =>
          cHandler'[g].span \in Dates!Span /\ cHandler'[g].cycle \notin Dates!Rows
    BY <1>2, <1>5, <1>8 DEF DInv, NewCycles
  <2>5. \A f, g \in Makers :
          f # g /\ cHandler'[f].cycle = cHandler'[g].cycle => cHandler'[f] = Dates!Idle
    BY <1>2, <1>5, <2>1 DEF DInv, NewCycles
  <2> QED
    BY <1>8, <2>2, <2>3, <2>4, <2>5 DEF NewCycles
<1>11. \A d \in Cycles \ {c} : d \in unchecked' <=> d \in unchecked
  BY <1>1
<1>12. \A g \in Makers \ {h} : cHandler[g] # Dates!Idle =>
         c \in unchecked' /\ (cHandler[g].cycle \in unchecked => cHandler[g].cycle \in unchecked')
  BY <1>1, <1>9
<1>13. OneAtATime'
  BY <1>2, <1>5, <1>12 DEF DInv, OneAtATime, Dates!Idle
<1>14. Apart'
  <2>1. Dates!Rows \ unchecked' = Dates!Rows \ unchecked
    BY <1>1, <1>8 DEF Dates!Rows
  <2>2. \A g \in Makers \ {h} : cHandler[g] # Dates!Idle /\ cHandler[g].cycle \notin unchecked'
          => cHandler[g].cycle \notin unchecked
    BY <1>12
  <2>3. cycles' = cycles
    BY <1>1
  <2>4. \A d \in Dates!Rows : ~Dates!Overlap(cycles[d], cHandler'[h].span)
    BY <1>1, <1>2, <1>5
  <2>5. \A g \in Makers : cHandler'[g] # Dates!Idle /\ cHandler'[g].cycle \notin unchecked' =>
          \A d \in Dates!Rows \ unchecked : ~Dates!Overlap(cycles[d], cHandler'[g].span)
    BY <1>5, <2>2, <2>4 DEF DInv, Apart
  <2> QED
    BY <1>8, <2>1, <2>3, <2>5 DEF DInv, Apart, Dates!Overlap, Dates!Idle
<1>15. PaidAsDated'
  BY <1>1, <1>8 DEF DInv, PaidAsDated
<1> QED
  BY <1>7, <1>10, <1>13, <1>14, <1>15 DEF DInv

LEMMA CreateCycleStep ==
  ASSUME DatesAssumption, DInv, NEW h \in Makers, Dates!CreateCycle(h)
  PROVE  DInv'
<1>1. /\ cHandler[h] # Dates!Idle
      /\ cycles' = [cycles EXCEPT ![cHandler[h].cycle] = cHandler[h].span]
      /\ cHandler' = [cHandler EXCEPT ![h] = Dates!Idle]
      /\ UNCHANGED <<today, cProcessed, paid, unchecked, cActions, cFailures>>
  BY DEF Dates!CreateCycle
<1>2. PICK c \in Cycles \ Dates!Rows, s \in Dates!Span :
        c = cHandler[h].cycle /\ s = cHandler[h].span
  BY <1>1 DEF DInv, NewCycles, Dates!TypeOK
<1>3. c \in Cycles \ Dates!Rows /\ s \in Dates!Span /\ s # None
  BY DEF DatesAssumption
<1>4. cycles' = [cycles EXCEPT ![c] = s]
  BY <1>1, <1>2
<1>5. /\ cycles' \in [Cycles -> Dates!Span \cup {None}]
      /\ cycles'[c] = s /\ \A d \in Cycles \ {c} : cycles'[d] = cycles[d]
  BY <1>3, <1>4 DEF DInv, Dates!TypeOK
<1>6. Dates!Rows' = Dates!Rows \cup {c}
  BY <1>3, <1>5 DEF Dates!Rows
<1>7. Dates!Idle.cycle = None /\ Dates!Idle.span = None /\ Dates!Idle' = Dates!Idle
      /\ Dates!Idle \in [cycle: Cycles \cup {None}, span: Dates!Span \cup {None}]
  BY DEF Dates!Idle
<1>8. /\ cHandler' \in [Makers -> [cycle: Cycles \cup {None}, span: Dates!Span \cup {None}]]
      /\ cHandler'[h] = Dates!Idle /\ \A g \in Makers \ {h} : cHandler'[g] = cHandler[g]
  BY <1>1, <1>7 DEF DInv, Dates!TypeOK
<1>9. Dates!TypeOK'
  BY <1>1, <1>5, <1>8 DEF DInv, Dates!TypeOK
<1>10. \A g \in Makers \ {h} : cHandler[g].cycle # c \/ cHandler[g] = Dates!Idle
  BY <1>2 DEF DInv, NewCycles
<1>11. NewCycles'
  <2>1. Dates!Span' = Dates!Span
    BY DEF Dates!Span, Dates!Day
  <2> QED
    BY <1>6, <1>7, <1>8, <1>10, <2>1 DEF DInv, NewCycles
<1>12. OneAtATime'
  BY <1>1, <1>7, <1>8 DEF DInv, OneAtATime
<1>13. Apart'
  <2>1. \A d \in Dates!Rows : d \in Cycles /\ d # c /\ cycles'[d] = cycles[d]
    BY <1>3, <1>5 DEF Dates!Rows
  <2>2. c \notin unchecked =>
          \A d \in Dates!Rows \ unchecked :
            ~Dates!Overlap(cycles[d], s) /\ ~Dates!Overlap(s, cycles[d])
    <3>1. ASSUME c \notin unchecked, NEW d \in Dates!Rows \ unchecked
          PROVE  ~Dates!Overlap(cycles[d], s) /\ ~Dates!Overlap(s, cycles[d])
      <4>1. ~Dates!Overlap(cycles[d], s)
        BY <1>1, <1>2, <3>1 DEF DInv, Apart
      <4>2. cycles[d] \in Dates!Span
        BY DEF DInv, Dates!TypeOK, Dates!Rows
      <4>3. PICK i, j \in Nat : cycles[d][1] = i /\ cycles[d][2] = j
        BY <4>2 DEF Dates!Span, Dates!Day
      <4>4. PICK k, l \in Nat : s[1] = k /\ s[2] = l
        BY <1>3 DEF Dates!Span, Dates!Day
      <4> QED
        BY <4>1, <4>3, <4>4 DEF Dates!Overlap
    <3> QED
      BY <3>1
  <2>3. \A d, e \in (Dates!Rows \cup {c}) \ unchecked :
          d # e => ~Dates!Overlap(cycles'[d], cycles'[e])
    BY <1>5, <2>1, <2>2 DEF DInv, Apart
  <2>4. \A g \in Makers : cHandler'[g] # Dates!Idle /\ cHandler'[g].cycle \notin unchecked =>
          \A d \in (Dates!Rows \cup {c}) \ unchecked :
            ~Dates!Overlap(cycles'[d], cHandler'[g].span)
    <3>1. ASSUME NEW g \in Makers \ {h}, cHandler[g] # Dates!Idle,
                 cHandler[g].cycle \notin unchecked
          PROVE  \A d \in (Dates!Rows \cup {c}) \ unchecked :
                   ~Dates!Overlap(cycles'[d], cHandler[g].span)
      <4>1. c \in unchecked
        BY <1>1, <1>2, <3>1 DEF DInv, OneAtATime
      <4> QED
        BY <2>1, <3>1, <4>1 DEF DInv, Apart
    <3> QED
      BY <1>8, <3>1
  <2>5. unchecked' = unchecked
    BY <1>1
  <2> QED
    BY <1>6, <1>7, <2>3, <2>4, <2>5 DEF Apart, Dates!Overlap
<1>14. PaidAsDated'
  BY <1>1, <1>3, <1>5, <1>6 DEF DInv, PaidAsDated, Dates!TypeOK
<1> QED
  BY <1>9, <1>11, <1>12, <1>13, <1>14 DEF DInv

LEMMA DatesQueryFails ==
  ASSUME DatesAssumption, DInv, NEW h \in Makers, Dates!QueryFails(h)
  PROVE  DInv'
<1>1. /\ cFailures < MaxFailures /\ cFailures' = cFailures + 1
      /\ cHandler' = [cHandler EXCEPT ![h] = Dates!Idle]
      /\ UNCHANGED <<today, cycles, cProcessed, paid, unchecked, cActions>>
  BY DEF Dates!QueryFails
<1>2. Dates!Idle.cycle = None /\ Dates!Idle' = Dates!Idle
      /\ Dates!Idle \in [cycle: Cycles \cup {None}, span: Dates!Span \cup {None}]
  BY DEF Dates!Idle
<1>3. /\ cHandler' \in [Makers -> [cycle: Cycles \cup {None}, span: Dates!Span \cup {None}]]
      /\ cHandler'[h] = Dates!Idle /\ \A g \in Makers \ {h} : cHandler'[g] = cHandler[g]
  BY <1>1, <1>2 DEF DInv, Dates!TypeOK
<1>4. cFailures' \in 0..MaxFailures
  BY <1>1 DEF DInv, Dates!TypeOK, DatesAssumption
<1>5. Dates!TypeOK'
  BY <1>1, <1>3, <1>4 DEF DInv, Dates!TypeOK
<1>6. Dates!Rows' = Dates!Rows /\ Dates!Span' = Dates!Span
  BY <1>1 DEF Dates!Rows, Dates!Span, Dates!Day
<1>7. NewCycles' /\ OneAtATime' /\ PaidAsDated'
  BY <1>1, <1>2, <1>3, <1>6 DEF DInv, NewCycles, OneAtATime, PaidAsDated
<1>8. Apart'
  BY <1>1, <1>2, <1>3, <1>6 DEF DInv, Apart, Dates!Overlap
<1> QED
  BY <1>5, <1>7, <1>8 DEF DInv

(* A row that gets other dates, without anybody looking at the others.     *)
LEMMA UpdateCycleStep ==
  ASSUME DatesAssumption, DInv, Dates!UpdateCycle
  PROVE  DInv'
<1>1. PICK c \in Dates!Rows, s \in Dates!Span :
        /\ cActions < MaxCycles /\ cActions' = cActions + 1
        /\ cycles' = [cycles EXCEPT ![c] = s]
        /\ unchecked' = unchecked \cup {c}
        /\ UNCHANGED <<today, cProcessed, paid, cHandler, cFailures>>
  BY DEF Dates!UpdateCycle, Dates!Counted
<1>2. c \in Cycles /\ s # None
  BY DEF Dates!Rows, DatesAssumption
<1>3. /\ cycles' \in [Cycles -> Dates!Span \cup {None}]
      /\ cycles'[c] = s /\ \A d \in Cycles \ {c} : cycles'[d] = cycles[d]
  BY <1>1, <1>2 DEF DInv, Dates!TypeOK
<1>4. cActions' \in 0..MaxCycles
  BY <1>1 DEF DInv, Dates!TypeOK, DatesAssumption
<1>5. Dates!TypeOK'
  BY <1>1, <1>2, <1>3, <1>4 DEF DInv, Dates!TypeOK
<1>6. /\ Dates!Rows' = Dates!Rows /\ Dates!Span' = Dates!Span /\ Dates!Idle' = Dates!Idle
      /\ \A d \in Dates!Rows \ unchecked' : d \in Dates!Rows \ unchecked /\ cycles'[d] = cycles[d]
  BY <1>1, <1>2, <1>3 DEF Dates!Rows, Dates!Span, Dates!Day, Dates!Idle
<1>7. NewCycles' /\ OneAtATime'
  BY <1>1, <1>6 DEF DInv, NewCycles, OneAtATime
<1>8. Apart'
  BY <1>1, <1>6 DEF DInv, Apart, Dates!Overlap
<1>9. PaidAsDated'
  BY <1>1, <1>6 DEF DInv, PaidAsDated
<1> QED
  BY <1>5, <1>7, <1>8, <1>9 DEF DInv

LEMMA RemoveCycleStep ==
  ASSUME DatesAssumption, DInv, Dates!RemoveCycle
  PROVE  DInv'
<1>1. PICK c \in Dates!Rows \ cProcessed :
        /\ cActions < MaxCycles /\ cActions' = cActions + 1
        /\ cycles' = [cycles EXCEPT ![c] = None]
        /\ UNCHANGED <<today, cProcessed, paid, cHandler, unchecked, cFailures>>
  BY DEF Dates!RemoveCycle, Dates!Counted
<1>2. c \in Cycles
  BY DEF Dates!Rows
<1>3. /\ cycles' \in [Cycles -> Dates!Span \cup {None}]
      /\ cycles'[c] = None /\ \A d \in Cycles \ {c} : cycles'[d] = cycles[d]
  BY <1>1, <1>2 DEF DInv, Dates!TypeOK
<1>4. cActions' \in 0..MaxCycles
  BY <1>1 DEF DInv, Dates!TypeOK, DatesAssumption
<1>5. Dates!TypeOK'
  BY <1>1, <1>3, <1>4 DEF DInv, Dates!TypeOK
<1>6. /\ Dates!Rows' = Dates!Rows \ {c} /\ Dates!Span' = Dates!Span /\ Dates!Idle' = Dates!Idle
      /\ \A d \in Dates!Rows' : cycles'[d] = cycles[d]
  BY <1>2, <1>3 DEF Dates!Rows, Dates!Span, Dates!Day, Dates!Idle
<1>7. NewCycles' /\ OneAtATime'
  BY <1>1, <1>6 DEF DInv, NewCycles, OneAtATime
<1>8. Apart'
  BY <1>1, <1>6 DEF DInv, Apart, Dates!Overlap
<1>9. PaidAsDated'
  BY <1>1, <1>6 DEF DInv, PaidAsDated
<1> QED
  BY <1>5, <1>7, <1>8, <1>9 DEF DInv

LEMMA ProcessCycleStep ==
  ASSUME DatesAssumption, DInv, Dates!ProcessCycle
  PROVE  DInv'
<1>1. PICK c \in Dates!Rows \ cProcessed :
        /\ cActions < MaxCycles /\ cActions' = cActions + 1
        /\ cProcessed' = cProcessed \cup {c}
        /\ paid' = [paid EXCEPT ![c] = cycles[c]]
        /\ UNCHANGED <<today, cycles, cHandler, unchecked, cFailures>>
  BY DEF Dates!ProcessCycle, Dates!Counted
<1>2. c \in Cycles
  BY DEF Dates!Rows
<1>3. /\ paid' \in [Cycles -> Dates!Span \cup {None}]
      /\ paid'[c] = cycles[c] /\ \A d \in Cycles \ {c} : paid'[d] = paid[d]
  BY <1>1, <1>2 DEF DInv, Dates!TypeOK
<1>4. cActions' \in 0..MaxCycles
  BY <1>1 DEF DInv, Dates!TypeOK, DatesAssumption
<1>5. Dates!TypeOK'
  BY <1>1, <1>2, <1>3, <1>4 DEF DInv, Dates!TypeOK
<1>6. Dates!Rows' = Dates!Rows /\ Dates!Span' = Dates!Span /\ Dates!Idle' = Dates!Idle
  BY <1>1 DEF Dates!Rows, Dates!Span, Dates!Day, Dates!Idle
<1>7. NewCycles' /\ OneAtATime' /\ Apart'
  BY <1>1, <1>6 DEF DInv, NewCycles, OneAtATime, Apart, Dates!Overlap
<1>8. PaidAsDated'
  BY <1>1, <1>3, <1>6 DEF DInv, Dates!TypeOK, PaidAsDated
<1> QED
  BY <1>5, <1>7, <1>8 DEF DInv

LEMMA DatesNext == DatesAssumption /\ DInv /\ [Dates!Next]_(Dates!vars) => DInv'
<1> SUFFICES ASSUME DatesAssumption, DInv, [Dates!Next]_(Dates!vars) PROVE DInv'
  OBVIOUS
<1>1. CASE UNCHANGED Dates!vars
  BY <1>1 DEF Dates!vars, DInv, Dates!TypeOK, NewCycles, OneAtATime, Apart, PaidAsDated,
              Dates!Rows, Dates!Overlap, Dates!Span, Dates!Day, Dates!Idle
<1>2. CASE Dates!DayPasses
  BY <1>2, DayPassesStep
<1>3. ASSUME NEW h \in Makers,
             Dates!ValidateDates(h) \/ Dates!CreateCycle(h) \/ Dates!QueryFails(h)
      PROVE  DInv'
  BY <1>3, ValidateStep, CreateCycleStep, DatesQueryFails
<1>4. CASE Dates!UpdateCycle \/ Dates!RemoveCycle \/ Dates!ProcessCycle
  BY <1>4, UpdateCycleStep, RemoveCycleStep, ProcessCycleStep
<1> QED
  BY <1>1, <1>2, <1>3, <1>4 DEF Dates!Next

(* For any number of cycles, days and requests at once: nobody is paid     *)
(* twice for a day, by the check of validateDates and by what process and  *)
(* remove refuse, but for cycles that were validated while another was     *)
(* being created and for those whose dates were changed.                   *)
THEOREM DayIsPaidOnce ==
  DatesAssumption => (Dates!Spec => []Dates!DayPaidOnce)
<1> SUFFICES ASSUME DatesAssumption
             PROVE  Dates!Spec => []Dates!DayPaidOnce
  OBVIOUS
<1>1. Dates!Init => DInv
  BY DatesInit
<1>2. DInv /\ [Dates!Next]_(Dates!vars) => DInv'
  BY DatesNext
<1>3. DInv => Dates!DayPaidOnce
  <2> SUFFICES ASSUME DInv, NEW c \in cProcessed \ unchecked, NEW d \in cProcessed \ unchecked,
                      c # d
               PROVE  Dates!PaidDays(c) \cap Dates!PaidDays(d) = {}
    BY DEF Dates!DayPaidOnce
  <2>1. /\ paid[c] = cycles[c] /\ paid[d] = cycles[d]
        /\ ~Dates!Overlap(cycles[c], cycles[d])
        /\ cycles[c] \in Dates!Span /\ cycles[d] \in Dates!Span
    BY DEF DInv, Dates!TypeOK, PaidAsDated, Apart, Dates!Rows
  <2>2. PICK i, j \in Nat : cycles[c][1] = i /\ cycles[c][2] = j
    BY <2>1 DEF Dates!Span, Dates!Day
  <2>3. PICK k, l \in Nat : cycles[d][1] = k /\ cycles[d][2] = l
    BY <2>1 DEF Dates!Span, Dates!Day
  <2>4. ~(i <= l /\ j >= k)
    BY <2>1, <2>2, <2>3 DEF Dates!Overlap
  <2>5. Dates!PaidDays(c) = i..j /\ Dates!PaidDays(d) = k..l
    BY <2>1, <2>2, <2>3 DEF Dates!PaidDays
  <2> QED
    BY <2>4, <2>5
<1> QED
  BY <1>1, <1>2, <1>3, PTL DEF Dates!Spec

-----------------------------------------------------------------------------
(* The files of the reports.                                               *)

\* The parts of a request that its file depends on.
IsAsker(q) == {"pc", "kind", "source"} \subseteq DOMAIN q /\ q["kind"] \in Files!Kinds

FilesTyped ==
  /\ DOMAIN asker = Askers /\ \A r \in Askers : IsAsker(asker[r])
  /\ DOMAIN file = Files!Kinds /\ \A k \in Files!Kinds : {"state", "by"} \subseteq DOMAIN file[k]
  /\ DOMAIN got = Askers

\* r has the file in its hands, written as far as r has come.
HasFile(r) ==
  LET f == file[asker[r].kind]
  IN /\ asker[r].pc = "write" => f.state = "part" /\ f.by = r
     /\ asker[r].pc \in {"open", "send"} => f.state = "whole" /\ f.by = r
     /\ asker[r].pc = "send" => asker[r].source = f

AloneHasFile ==
  \A r \in Askers : asker[r].kind \notin shared =>
    /\ HasFile(r)
    /\ asker[r].pc = "done" => got[r] = r

\* Unless two requests used the file at once, one uses it now.
OneUses == \A k \in Files!Kinds \ shared : \A r, g \in Files!Using(k) : r = g

\* The file of the payrolls is not removed.
PayrollStays == \A r \in Files!Using("payroll") : file["payroll"].state # "none"

\* The process ended over a file that was shared.
LostOverShared ==
  (\E r \in Askers : asker[r].pc = "lost") =>
    \E r \in Askers : asker[r].pc = "lost" /\ asker[r].kind \in shared

NothingLies ==
  "attendance" \notin shared /\ Files!Using("attendance") = {} => file["attendance"] = Files!NoFile

FilesInv ==
  /\ FilesTyped /\ AloneHasFile /\ OneUses /\ PayrollStays /\ LostOverShared /\ NothingLies

LEMMA FilesInit == Files!Init => FilesInv
<1> SUFFICES ASSUME Files!Init PROVE FilesInv
  OBVIOUS
<1>1. \A r \in Askers : asker[r] = Files!NotAsked
  BY DEF Files!Init
<1>2. IsAsker(Files!NotAsked) /\ Files!NotAsked.pc = "idle"
  BY DEF IsAsker, Files!NotAsked, Files!Kinds
<1>3. \A k \in Files!Kinds : file[k] = Files!NoFile
  BY DEF Files!Init
<1>4. FilesTyped
  BY <1>1, <1>2, <1>3 DEF Files!Init, FilesTyped, Files!NoFile
<1>5. \A k \in Files!Kinds : Files!Using(k) = {}
  BY <1>1, <1>2 DEF Files!Using
<1> QED
  BY <1>1, <1>2, <1>3, <1>4, <1>5
  DEF FilesInv, AloneHasFile, HasFile, OneUses, PayrollStays, LostOverShared, NothingLies, Files!Kinds

\* A step of a request that has nothing to do with a file.
LEMMA FilesAside ==
  ASSUME FilesInv, NEW r \in Askers, NEW new, IsAsker(new), asker'[r] = new,
         DOMAIN asker' = Askers, \A g \in Askers \ {r} : asker'[g] = asker[g],
         \/ new.pc = asker[r].pc /\ new.kind = asker[r].kind /\ new.source = asker[r].source
         \/ asker[r].pc \in {"idle", "prepare"} /\ new.pc \in {"prepare", "refused"},
         UNCHANGED <<file, got, shared>>
  PROVE  FilesInv'
<1>1. \A g \in Askers : asker'[g] = IF g = r THEN new ELSE asker[g]
  BY DEF FilesInv, FilesTyped
<1>2. FilesTyped'
  BY <1>1 DEF FilesInv, FilesTyped, IsAsker, Files!Kinds
<1>3. \A k : Files!Using(k)' = Files!Using(k)
  BY <1>1 DEF Files!Using
<1>4. AloneHasFile'
  BY <1>1 DEF FilesInv, AloneHasFile, HasFile
<1>5. OneUses' /\ PayrollStays' /\ NothingLies'
  BY <1>3 DEF FilesInv, OneUses, PayrollStays, NothingLies, Files!Kinds, Files!NoFile
<1>6. LostOverShared'
  BY <1>1 DEF FilesInv, LostOverShared
<1> QED
  BY <1>2, <1>4, <1>5, <1>6 DEF FilesInv

LEMMA FilesStartWriting ==
  ASSUME FilesInv, NEW r \in Askers, asker[r].pc = "prepare", Files!StartWriting(r)
  PROVE  FilesInv'
<1> DEFINE k == asker[r].kind
           new == [asker[r] EXCEPT !.pc = "write"]
           f == [state |-> "part", by |-> r]
<1>1. asker' = [asker EXCEPT ![r] = new] /\ file' = [file EXCEPT ![k] = f] /\ got' = got
      /\ shared' = IF Files!Using(k) = {} THEN shared ELSE shared \cup {k}
  BY DEF Files!StartWriting
<1>2. IsAsker(new) /\ new.pc = "write" /\ new.kind = k /\ IsAsker(asker[r]) /\ k \in Files!Kinds
  BY DEF FilesInv, FilesTyped, IsAsker
<1>3. f.state = "part" /\ f.by = r /\ DOMAIN f = {"state", "by"}
  OBVIOUS
<1> HIDE DEF new, f
<1>4. /\ \A g \in Askers : asker'[g] = IF g = r THEN new ELSE asker[g]
      /\ \A j \in Files!Kinds : file'[j] = IF j = k THEN f ELSE file[j]
  BY <1>1, <1>2 DEF FilesInv, FilesTyped
<1>5. FilesTyped'
  BY <1>1, <1>2, <1>3, <1>4 DEF FilesInv, FilesTyped, IsAsker, Files!Kinds
<1>6. \A j : Files!Using(j)' = Files!Using(j) \cup (IF j = k THEN {r} ELSE {})
  BY <1>2, <1>4 DEF Files!Using
<1>7. AloneHasFile'
  <2> SUFFICES ASSUME NEW g \in Askers, asker'[g].kind \notin shared'
               PROVE  HasFile(g)' /\ (asker'[g].pc = "done" => got'[g] = g)
    BY DEF AloneHasFile
  <2>1. CASE g = r
    BY <1>2, <1>3, <1>4, <2>1 DEF HasFile
  <2>2. CASE g # r /\ asker[g].kind # k
    BY <1>1, <1>2, <1>4, <2>2 DEF FilesInv, FilesTyped, IsAsker, AloneHasFile, HasFile
  <2>3. CASE g # r /\ asker[g].kind = k
    <3>1. asker'[g] = asker[g] /\ Files!Using(k) = {} /\ k \notin shared
      BY <1>1, <1>4, <2>3
    <3>2. asker[g].pc \notin {"write", "open", "send"}
      BY <2>3, <3>1 DEF Files!Using
    <3> QED
      BY <1>1, <2>3, <3>1, <3>2 DEF FilesInv, AloneHasFile, HasFile
  <2> QED
    BY <2>1, <2>2, <2>3
<1>8. OneUses'
  BY <1>1, <1>6 DEF FilesInv, OneUses, Files!Kinds
<1>9. PayrollStays'
  BY <1>2, <1>3, <1>4, <1>6 DEF FilesInv, PayrollStays, Files!Kinds
<1>10. NothingLies'
  BY <1>1, <1>2, <1>4, <1>6 DEF FilesInv, NothingLies, Files!Kinds, Files!NoFile
<1>11. LostOverShared'
  BY <1>1, <1>2, <1>4 DEF FilesInv, LostOverShared
<1> QED
  BY <1>5, <1>7, <1>8, <1>9, <1>10, <1>11 DEF FilesInv

LEMMA FilesFinishWriting ==
  ASSUME FilesInv, NEW r \in Askers, Files!FinishWriting(r)
  PROVE  FilesInv'
<1> DEFINE k == asker[r].kind
           new == [asker[r] EXCEPT !.pc = "open"]
           f == IF file[k] = Files!NoFile THEN Files!NoFile
                ELSE IF file[k].by = r THEN [file[k] EXCEPT !.state = "whole"]
                ELSE [file[k] EXCEPT !.state = "mixed"]
<1>1. asker' = [asker EXCEPT ![r] = new] /\ file' = [file EXCEPT ![k] = f] /\ got' = got
      /\ shared' = shared /\ asker[r].pc = "write"
  BY DEF Files!FinishWriting
<1>2. IsAsker(new) /\ new.pc = "open" /\ new.kind = k /\ IsAsker(asker[r]) /\ k \in Files!Kinds
  BY DEF FilesInv, FilesTyped, IsAsker
<1>3. /\ {"state", "by"} \subseteq DOMAIN f
      /\ file[k].state # "none" => f.state # "none"
      /\ file[k].state # "none" /\ file[k].by = r => f.state = "whole" /\ f.by = r
  BY <1>2 DEF FilesInv, FilesTyped, Files!NoFile
<1> HIDE DEF new, f
<1>4. /\ \A g \in Askers : asker'[g] = IF g = r THEN new ELSE asker[g]
      /\ \A j \in Files!Kinds : file'[j] = IF j = k THEN f ELSE file[j]
  BY <1>1, <1>2 DEF FilesInv, FilesTyped
<1>5. FilesTyped'
  BY <1>1, <1>2, <1>3, <1>4 DEF FilesInv, FilesTyped, IsAsker, Files!Kinds
<1>6. r \in Files!Using(k) /\ \A j : Files!Using(j)' = Files!Using(j)
  BY <1>1, <1>2, <1>4 DEF Files!Using
<1>7. AloneHasFile'
  <2> SUFFICES ASSUME NEW g \in Askers, asker'[g].kind \notin shared'
               PROVE  HasFile(g)' /\ (asker'[g].pc = "done" => got'[g] = g)
    BY DEF AloneHasFile
  <2>1. CASE g = r
    <3>1. file[k].state = "part" /\ file[k].by = r
      BY <1>1, <1>2, <1>4, <2>1 DEF FilesInv, AloneHasFile, HasFile
    <3> QED
      BY <1>2, <1>3, <1>4, <2>1, <3>1 DEF HasFile
  <2>2. CASE g # r /\ asker[g].kind # k
    BY <1>1, <1>2, <1>4, <2>2 DEF FilesInv, FilesTyped, IsAsker, AloneHasFile, HasFile
  <2>3. CASE g # r /\ asker[g].kind = k
    <3>1. asker'[g] = asker[g] /\ k \notin shared
      BY <1>1, <1>4, <2>3
    <3>2. asker[g].pc \notin {"write", "open", "send"}
      BY <1>2, <1>6, <2>3, <3>1 DEF FilesInv, OneUses, Files!Using
    <3> QED
      BY <1>1, <2>3, <3>1, <3>2 DEF FilesInv, AloneHasFile, HasFile
  <2> QED
    BY <2>1, <2>2, <2>3
<1>8. OneUses'
  BY <1>1, <1>6 DEF FilesInv, OneUses, Files!Kinds
<1>9. PayrollStays'
  BY <1>2, <1>3, <1>4, <1>6 DEF FilesInv, PayrollStays, Files!Kinds
<1>10. NothingLies'
  BY <1>1, <1>2, <1>4, <1>6 DEF FilesInv, NothingLies, Files!Kinds, Files!NoFile
<1>11. LostOverShared'
  BY <1>1, <1>2, <1>4 DEF FilesInv, LostOverShared
<1> QED
  BY <1>5, <1>7, <1>8, <1>9, <1>10, <1>11 DEF FilesInv

\* Only a file of the attendance can be gone, and only when it was shared.
LEMMA GoneWasShared ==
  ASSUME FilesInv, NEW r \in Askers, asker[r].pc \in {"write", "open", "send"},
         file[asker[r].kind] = Files!NoFile
  PROVE  asker[r].kind \in shared
<1>1. file[asker[r].kind].state = "none"
  BY DEF Files!NoFile
<1> QED
  BY <1>1 DEF FilesInv, AloneHasFile, HasFile

LEMMA FilesProcessEnds ==
  ASSUME FilesInv, NEW r \in Askers, asker[r].pc \in {"open", "send"},
         file[asker[r].kind] = Files!NoFile, Files!ProcessEnds
  PROVE  FilesInv'
<1>1. /\ asker' = [g \in Askers |-> IF asker[g].pc = "idle" THEN Files!NotAsked
                                   ELSE [asker[g] EXCEPT !.pc = "lost"]]
      /\ UNCHANGED <<file, got, shared>>
  BY DEF Files!ProcessEnds
<1>2. asker[r].kind = "attendance" /\ "attendance" \in shared
  <2>1. file[asker[r].kind].state = "none"
    BY DEF Files!NoFile
  <2>2. asker[r].kind \in {"attendance", "payroll"}
    BY DEF FilesInv, FilesTyped, IsAsker, Files!Kinds
  <2>3. asker[r].kind # "payroll"
    BY <2>1 DEF FilesInv, PayrollStays, Files!Using
  <2> QED
    BY <2>2, <2>3, GoneWasShared
<1>3. \A g \in Askers : /\ IsAsker(asker'[g]) /\ asker'[g].pc \in {"idle", "lost"}
                        /\ asker[g].pc # "idle" => /\ asker'[g].kind = asker[g].kind
                                                   /\ asker'[g].pc = "lost"
  <2> SUFFICES ASSUME NEW g \in Askers
               PROVE  /\ IsAsker(asker'[g]) /\ asker'[g].pc \in {"idle", "lost"}
                      /\ asker[g].pc # "idle" => /\ asker'[g].kind = asker[g].kind
                                                 /\ asker'[g].pc = "lost"
    OBVIOUS
  <2>1. CASE asker[g].pc = "idle"
    BY <1>1, <2>1 DEF IsAsker, Files!NotAsked, Files!Kinds
  <2>2. CASE asker[g].pc # "idle"
    BY <1>1, <2>2 DEF FilesInv, FilesTyped, IsAsker
  <2> QED
    BY <2>1, <2>2
<1>4. FilesTyped'
  BY <1>1, <1>3 DEF FilesInv, FilesTyped
<1>5. \A k : Files!Using(k)' = {}
  BY <1>3 DEF Files!Using
<1>6. AloneHasFile'
  BY <1>3 DEF AloneHasFile, HasFile
<1>7. OneUses' /\ PayrollStays' /\ NothingLies'
  BY <1>1, <1>2, <1>5 DEF OneUses, PayrollStays, NothingLies
<1>8. LostOverShared'
  BY <1>1, <1>2, <1>3 DEF LostOverShared
<1> QED
  BY <1>4, <1>6, <1>7, <1>8 DEF FilesInv

LEMMA FilesOpen ==
  ASSUME FilesInv, NEW r \in Askers, Files!Open(r)
  PROVE  FilesInv'
<1>1. CASE file[asker[r].kind] = Files!NoFile
  BY <1>1, FilesProcessEnds DEF Files!Open
<1>2. CASE file[asker[r].kind] # Files!NoFile
  <2> DEFINE k == asker[r].kind
             new == [asker[r] EXCEPT !.pc = "send", !.source = file[k]]
  <2>1. asker' = [asker EXCEPT ![r] = new] /\ asker[r].pc = "open" /\ UNCHANGED <<file, got, shared>>
    BY <1>2 DEF Files!Open
  <2>2. IsAsker(new) /\ new.pc = "send" /\ new.kind = k /\ new.source = file[k]
    BY DEF FilesInv, FilesTyped, IsAsker
  <2> HIDE DEF new
  <2>3. \A g \in Askers : asker'[g] = IF g = r THEN new ELSE asker[g]
    BY <2>1 DEF FilesInv, FilesTyped
  <2>4. FilesTyped'
    BY <2>1, <2>2, <2>3 DEF FilesInv, FilesTyped
  <2>5. \A j : Files!Using(j)' = Files!Using(j)
    BY <2>1, <2>2, <2>3 DEF Files!Using
  <2>6. AloneHasFile'
    BY <2>1, <2>2, <2>3 DEF FilesInv, AloneHasFile, HasFile
  <2>7. OneUses' /\ PayrollStays' /\ NothingLies'
    BY <2>1, <2>5 DEF FilesInv, OneUses, PayrollStays, NothingLies
  <2>8. LostOverShared'
    BY <2>1, <2>2, <2>3 DEF FilesInv, LostOverShared
  <2> QED
    BY <2>4, <2>6, <2>7, <2>8 DEF FilesInv
<1> QED
  BY <1>1, <1>2

\* What is sent, and what is left of the file.
LEMMA FilesSent ==
  ASSUME FilesInv, NEW r \in Askers, Files!Sent(r), shared' = shared,
         \/ asker[r].kind = "attendance" /\ file' = [file EXCEPT !["attendance"] = Files!NoFile]
         \/ asker[r].kind = "payroll" /\ file' = file
  PROVE  FilesInv'
<1> DEFINE k == asker[r].kind
           new == [asker[r] EXCEPT !.pc = "done"]
<1>1. asker' = [asker EXCEPT ![r] = new] /\ asker[r].pc = "send"
  BY DEF Files!Sent
<1>2. PICK c \in Files!Carried(r) : got' = [got EXCEPT ![r] = c]
  BY DEF Files!Sent
<1>3. IsAsker(new) /\ new.pc = "done" /\ new.kind = k /\ k \in Files!Kinds
  BY DEF FilesInv, FilesTyped, IsAsker
<1> HIDE DEF new
<1>4. /\ \A g \in Askers : asker'[g] = IF g = r THEN new ELSE asker[g]
      /\ \A g \in Askers : got'[g] = IF g = r THEN c ELSE got[g]
      /\ \A j \in Files!Kinds : j # k => file'[j] = file[j]
  BY <1>1, <1>2, <1>3 DEF FilesInv, FilesTyped
<1>5. FilesTyped'
  <2>1. {"state", "by"} \subseteq DOMAIN Files!NoFile
    BY DEF Files!NoFile
  <2>2. DOMAIN file' = Files!Kinds /\ \A j \in Files!Kinds : {"state", "by"} \subseteq DOMAIN file'[j]
    BY <2>1 DEF FilesInv, FilesTyped
  <2> QED
    BY <1>1, <1>2, <1>3, <1>4, <2>2 DEF FilesInv, FilesTyped
<1>6. r \in Files!Using(k) /\ \A j : Files!Using(j)' = Files!Using(j) \ (IF j = k THEN {r} ELSE {})
  BY <1>1, <1>3, <1>4 DEF Files!Using
<1>7. k \notin shared => c = r
  <2>1. k \notin shared => asker[r].source = file[k] /\ file[k].state = "whole" /\ file[k].by = r
    BY <1>1 DEF FilesInv, AloneHasFile, HasFile
  <2> QED
    BY <1>2, <2>1 DEF Files!Carried
<1>8. AloneHasFile'
  <2> SUFFICES ASSUME NEW g \in Askers, asker'[g].kind \notin shared
               PROVE  HasFile(g)' /\ (asker'[g].pc = "done" => got'[g] = g)
    BY DEF AloneHasFile
  <2>1. CASE g = r
    BY <1>3, <1>4, <1>7, <2>1 DEF HasFile
  <2>2. CASE g # r /\ asker[g].kind # k
    BY <1>3, <1>4, <2>2 DEF FilesInv, FilesTyped, IsAsker, AloneHasFile, HasFile
  <2>3. CASE g # r /\ asker[g].kind = k
    <3>1. asker'[g] = asker[g] /\ k \notin shared
      BY <1>4, <2>3
    <3>2. asker[g].pc \notin {"write", "open", "send"}
      BY <1>3, <1>6, <2>3, <3>1 DEF FilesInv, OneUses, Files!Using
    <3> QED
      BY <1>4, <2>3, <3>1, <3>2 DEF FilesInv, AloneHasFile, HasFile
  <2> QED
    BY <2>1, <2>2, <2>3
<1>9. OneUses'
  BY <1>6 DEF FilesInv, OneUses, Files!Kinds
<1>10. PayrollStays'
  BY <1>4, <1>6 DEF FilesInv, PayrollStays, Files!Kinds
<1>11. NothingLies'
  <2>1. CASE k = "attendance"
    BY <2>1 DEF FilesInv, FilesTyped, NothingLies, Files!Kinds, Files!NoFile
  <2>2. CASE k = "payroll"
    BY <1>6, <2>2 DEF FilesInv, NothingLies, Files!NoFile
  <2> QED
    BY <1>3, <2>1, <2>2 DEF Files!Kinds
<1>12. LostOverShared'
  BY <1>1, <1>3, <1>4 DEF FilesInv, LostOverShared
<1> QED
  BY <1>5, <1>8, <1>9, <1>10, <1>11, <1>12 DEF FilesInv

LEMMA FilesNext == ASSUME FilesInv, Files!Next PROVE FilesInv'
<1> PICK r \in Askers :
      \/ Files!AskAttendance(r) \/ Files!AskPayroll(r)
      \/ \E w \in Preparers : Files!Take(r, w) \/ Files!Prepare(r, w) \/ Files!PrepareFails(r, w)
      \/ Files!AttendanceExcelReport(r) \/ Files!PayrollExcelReport(r)
      \/ Files!FinishWriting(r) \/ Files!Open(r) \/ Files!SendAttendance(r) \/ Files!SendPayroll(r)
  BY DEF Files!Next
<1>1. ASSUME NEW kind \in Files!Kinds, Files!Ask(r, kind) PROVE FilesInv'
  <2>1. PICK list \in Lists[kind] : asker' = [asker EXCEPT ![r] =
          [Files!NotAsked EXCEPT !.pc = "prepare", !.kind = kind, !.employees = list, !.left = list]]
    BY <1>1 DEF Files!Ask
  <2> DEFINE new == [Files!NotAsked EXCEPT
                       !.pc = "prepare", !.kind = kind, !.employees = list, !.left = list]
  <2>2. new["pc"] = "prepare" /\ new["kind"] = kind /\ {"pc", "kind", "source"} \subseteq DOMAIN new
    BY DEF Files!NotAsked
  <2> HIDE DEF new
  <2>3. IsAsker(new) /\ new.pc = "prepare"
    BY <2>2 DEF IsAsker
  <2>4. asker' = [asker EXCEPT ![r] = new] /\ asker[r].pc = "idle" /\ UNCHANGED <<file, got, shared>>
    BY <1>1, <2>1 DEF Files!Ask, new
  <2> QED
    BY <2>3, <2>4, FilesAside DEF FilesInv, FilesTyped
<1>2. Files!AskAttendance(r) \/ Files!AskPayroll(r) => FilesInv'
  BY <1>1 DEF Files!AskAttendance, Files!AskPayroll, Files!Kinds
<1>3. ASSUME NEW w \in Preparers, Files!Take(r, w) \/ Files!Prepare(r, w) \/ Files!PrepareFails(r, w)
      PROVE  FilesInv'
  <2>1. UNCHANGED <<file, got, shared>>
    BY <1>3 DEF Files!Take, Files!Prepare, Files!Prepared, Files!PrepareFails
  <2>2. IsAsker(asker[r]) /\ DOMAIN asker = Askers
    BY DEF FilesInv, FilesTyped
  <2>3. DOMAIN asker' = Askers /\ \A g \in Askers \ {r} : asker'[g] = asker[g]
    BY <1>3, <2>2 DEF Files!Take, Files!Prepare, Files!Prepared, Files!PrepareFails
  <2>4. /\ DOMAIN asker'[r] = DOMAIN asker[r]
        /\ \A x \in {"pc", "kind", "source"} : asker'[r][x] = asker[r][x]
    <3>1. CASE Files!Take(r, w)
      <4> DEFINE q == asker[r]
                 pass == [q EXCEPT !.left = Tail(q.left), !.filter = Head(q.left),
                                   !.missing = q.missing + 1]
                 give == [q EXCEPT !.left = Tail(q.left), !.filter = Head(q.left),
                                   !.next = q.next + 1]
      <4>1. asker'[r] \in {pass, give}
        BY <2>2, <3>1 DEF Files!Take
      <4>2. \A n \in {pass, give} : /\ DOMAIN n = DOMAIN q
                                    /\ \A x \in {"pc", "kind", "source"} : n[x] = q[x]
        BY <2>2 DEF IsAsker
      <4> QED
        BY <4>1, <4>2
    <3>2. CASE Files!Prepare(r, w)
      BY <2>2, <3>2 DEF Files!Prepare, Files!Prepared, IsAsker
    <3>3. CASE Files!PrepareFails(r, w)
      BY <2>2, <3>3 DEF Files!PrepareFails, IsAsker
    <3> QED
      BY <1>3, <3>1, <3>2, <3>3
  <2>5. IsAsker(asker'[r]) /\ asker'[r].pc = asker[r].pc /\ asker'[r].kind = asker[r].kind
        /\ asker'[r].source = asker[r].source
    BY <2>2, <2>4 DEF IsAsker
  <2> QED
    BY <2>1, <2>3, <2>5, FilesAside
<1>4. ASSUME Files!AttendanceExcelReport(r) \/ Files!PayrollExcelReport(r) PROVE FilesInv'
  <2>1. asker[r].pc = "prepare" /\ (Files!Refuse(r) \/ Files!StartWriting(r))
    BY <1>4 DEF Files!AttendanceExcelReport, Files!PayrollExcelReport, Files!SheetsDone
  <2>2. CASE Files!Refuse(r)
    <3> DEFINE new == [asker[r] EXCEPT !.pc = "refused"]
    <3>1. asker' = [asker EXCEPT ![r] = new] /\ UNCHANGED <<file, got, shared>>
      BY <2>2 DEF Files!Refuse
    <3>2. IsAsker(new) /\ new.pc = "refused"
      BY DEF FilesInv, FilesTyped, IsAsker
    <3> HIDE DEF new
    <3> QED
      BY <2>1, <3>1, <3>2, FilesAside DEF FilesInv, FilesTyped
  <2> QED
    BY <2>1, <2>2, FilesStartWriting
<1>5. Files!FinishWriting(r) \/ Files!Open(r) => FilesInv'
  BY FilesFinishWriting, FilesOpen
<1>6. ASSUME Files!SendAttendance(r) PROVE FilesInv'
  <2>1. CASE asker[r].pc = "send" /\ file["attendance"] = Files!NoFile
    BY <1>6, <2>1, FilesProcessEnds DEF Files!SendAttendance
  <2>2. CASE ~(asker[r].pc = "send" /\ file["attendance"] = Files!NoFile)
    BY <1>6, <2>2, FilesSent DEF Files!SendAttendance
  <2> QED
    BY <2>1, <2>2
<1>7. Files!SendPayroll(r) => FilesInv'
  BY FilesSent DEF Files!SendPayroll
<1> QED
  BY <1>2, <1>3, <1>4, <1>5, <1>6, <1>7

(* A report is the one asked for, whole, and that of the attendance leaves *)
(* nothing on the disk, unless two requests used the file of a period at   *)
(* once, for any number of requests, workers and failures.                 *)
THEOREM ReportsArrive == Files!Spec => []Files!ReportsArriveWhole
<1>1. Files!Init => FilesInv
  BY FilesInit
<1>2. FilesInv /\ [Files!Next]_(Files!vars) => FilesInv'
  <2> SUFFICES ASSUME FilesInv, UNCHANGED Files!vars PROVE FilesInv'
    BY FilesNext
  <2> QED
    BY DEF Files!vars, FilesInv, FilesTyped, AloneHasFile, HasFile, OneUses, PayrollStays,
       LostOverShared, NothingLies, Files!Using, Files!NoFile, Files!Kinds, IsAsker
<1>3. FilesInv => Files!ReportsArriveWhole
  BY DEF FilesInv, AloneHasFile, LostOverShared, NothingLies, Files!ReportsArriveWhole
<1> QED
  BY <1>1, <1>2, <1>3, PTL DEF Files!Spec

-----------------------------------------------------------------------------
(* The sheets of the reports.                                              *)

LEMMA CountsFiles == \A S : Files!Cardinality(S) = Cardinality(S)
BY DEF Files!Cardinality, Cardinality

Fields == {"pc", "kind", "employees", "left", "filter", "next", "sheets", "missing", "source"}

\* A sheet has the rows of the employee it is about.
SheetsRight(q) ==
  /\ DOMAIN q = Fields
  /\ \A i \in DOMAIN q["sheets"] : q["sheets"][i].rows = Files!RowsOf(q["sheets"][i].user)

Busy(ws) == {w \in Preparers : ws[w] # Files!NoWork}

Taken(q) == Len(q["employees"]) - Len(q["left"])

\* What is left is the rest of the list.
ListGoesOn(q) ==
  /\ q["employees"] \in Seq(DOMAIN Name) /\ q["left"] \in Seq(DOMAIN Name)
  /\ Len(q["left"]) <= Len(q["employees"])
  /\ \A j \in 1..Len(q["left"]) : q["left"][j] = q["employees"][Taken(q) + j]

\* Sheets that are there and sheets to come have different indices.
IndicesApart(q, ws) ==
  /\ q["next"] \in Nat /\ DOMAIN q["sheets"] \subseteq 0..(q["next"] - 1)
  /\ \A w \in Busy(ws) : ws[w].index \in (0..(q["next"] - 1)) \ DOMAIN q["sheets"]
  /\ \A v, w \in Busy(ws) : ws[v].index = ws[w].index => v = w

\* Everyone taken from the list has a sheet, is with a worker, or is missing.
AllThere(q, ws) ==
  /\ IsFiniteSet(Busy(ws)) /\ q["missing"] \in Nat
  /\ Cardinality(DOMAIN q["sheets"]) + Cardinality(Busy(ws)) + q["missing"] = Taken(q)

\* at[i]: where in the list the employee of index i was.
Stems(q, ws, at) ==
  /\ at \in [0..(q["next"] - 1) -> 1..Taken(q)]
  /\ \A i, j \in 0..(q["next"] - 1) : at[i] = at[j] => i = j
  /\ \A i \in DOMAIN q["sheets"] : q["sheets"][i].user = q["employees"][at[i]]
  /\ \A w \in Busy(ws) : ws[w].user = q["employees"][at[ws[w].index]]

Preparing(q, ws) ==
  /\ ListGoesOn(q) /\ IndicesApart(q, ws) /\ AllThere(q, ws)
  /\ \E at : Stems(q, ws, at)

SheetsInv ==
  /\ DOMAIN asker = Askers /\ DOMAIN preparer = Askers
  /\ \A r \in Askers :
       /\ DOMAIN preparer[r] = Preparers
       /\ SheetsRight(asker[r])
       /\ asker[r].pc = "prepare" => Preparing(asker[r], preparer[r])
       /\ asker[r].pc # "prepare" => Busy(preparer[r]) = {}

LEMMA RestOfList ==
  ASSUME NEW S, NEW s \in Seq(S), s # <<>>
  PROVE  /\ Tail(s) \in Seq(S) /\ Len(Tail(s)) = Len(s) - 1 /\ Len(s) \in Nat \ {0}
         /\ Head(s) = s[1] /\ s[1] \in S
         /\ \A j \in 1..(Len(s) - 1) : Tail(s)[j] = s[j + 1]
OBVIOUS

LEMMA SheetsInit == Files!Init => SheetsInv
<1> SUFFICES ASSUME Files!Init PROVE SheetsInv
  OBVIOUS
<1>1. SheetsRight(Files!NotAsked) /\ Files!NotAsked.pc = "idle"
  BY DEF SheetsRight, Files!NotAsked, Fields
<1> QED
  BY <1>1 DEF Files!Init, SheetsInv, Busy

\* A step of one request.
LEMMA SheetsOf ==
  ASSUME SheetsInv, NEW r \in Askers, NEW q, NEW ws, asker' = [asker EXCEPT ![r] = q],
         DOMAIN preparer' = Askers, preparer'[r] = ws,
         \A g \in Askers \ {r} : preparer'[g] = preparer[g], SheetsRight(q), DOMAIN ws = Preparers,
         q.pc = "prepare" => Preparing(q, ws), q.pc # "prepare" => Busy(ws) = {}
  PROVE  SheetsInv'
BY DEF SheetsInv

LEMMA SheetsAsk ==
  ASSUME ReportsAssumption, SheetsInv, NEW r \in Askers, NEW kind \in Files!Kinds,
         Files!Ask(r, kind)
  PROVE  SheetsInv'
<1>1. PICK list \in Lists[kind] : asker' = [asker EXCEPT ![r] =
        [Files!NotAsked EXCEPT !.pc = "prepare", !.kind = kind, !.employees = list, !.left = list]]
  BY DEF Files!Ask
<1> DEFINE q == [Files!NotAsked EXCEPT
                   !.pc = "prepare", !.kind = kind, !.employees = list, !.left = list]
           ws == preparer[r]
<1>2. /\ DOMAIN q = Fields /\ q["pc"] = "prepare" /\ q["employees"] = list /\ q["left"] = list /\ q["next"] = 0
      /\ q["missing"] = 0 /\ DOMAIN q["sheets"] = {}
  BY DEF Files!NotAsked, Fields
<1>3. asker' = [asker EXCEPT ![r] = q] /\ preparer' = preparer
  BY <1>1 DEF Files!Ask
<1> HIDE DEF q
<1>4. list \in Seq(DOMAIN Name) /\ Len(list) \in Nat
  BY DEF ReportsAssumption, Files!Kinds
<1>5. Busy(ws) = {}
  BY DEF SheetsInv, Files!Ask
<1>6. ListGoesOn(q) /\ IndicesApart(q, ws) /\ Taken(q) = 0
  BY <1>2, <1>4, <1>5 DEF ListGoesOn, IndicesApart, Taken
<1>7. AllThere(q, ws)
  BY <1>2, <1>5, <1>6, FS_EmptySet DEF AllThere
<1>8. Stems(q, ws, [i \in {} |-> i])
  BY <1>2, <1>5, <1>6 DEF Stems
<1>9. Preparing(q, ws) /\ SheetsRight(q)
  BY <1>2, <1>6, <1>7, <1>8 DEF Preparing, SheetsRight
<1> QED
  BY <1>2, <1>3, <1>9, SheetsOf DEF SheetsInv


\* What a list loses when its first is taken.
LEMMA TakesFirst ==
  ASSUME NEW p, NEW q, ListGoesOn(p), p["left"] # <<>>, q["employees"] = p["employees"],
         q["left"] = Tail(p["left"])
  PROVE  /\ ListGoesOn(q) /\ Taken(q) = Taken(p) + 1 /\ Taken(p) \in Nat
         /\ Head(p["left"]) = p["employees"][Taken(p) + 1] /\ Head(p["left"]) \in DOMAIN Name
<1> DEFINE l == p["left"]
<1>1. /\ l \in Seq(DOMAIN Name) /\ l # <<>> /\ Len(l) <= Len(p["employees"])
      /\ Len(p["employees"]) \in Nat
      /\ \A j \in 1..Len(l) : l[j] = p["employees"][Taken(p) + j]
  BY DEF ListGoesOn
<1>2. /\ Tail(l) \in Seq(DOMAIN Name) /\ Len(Tail(l)) = Len(l) - 1 /\ Len(l) \in Nat \ {0}
      /\ Head(l) = l[1] /\ l[1] \in DOMAIN Name
      /\ \A j \in 1..(Len(l) - 1) : Tail(l)[j] = l[j + 1]
  BY <1>1, RestOfList
<1> HIDE DEF l
<1>3. Taken(q) = Taken(p) + 1 /\ Taken(p) \in Nat
  <2>1. Len(q["left"]) = Len(l) - 1
    BY <1>2 DEF l
  <2>2. Taken(q) = Len(p["employees"]) - Len(q["left"]) /\ Taken(p) = Len(p["employees"]) - Len(l)
    BY DEF Taken, l
  <2> QED
    BY <1>1, <1>2, <2>1, <2>2
<1>4. Head(l) = p["employees"][Taken(p) + 1]
  <2>1. 1 \in 1..Len(l)
    BY <1>2
  <2> QED
    BY <1>1, <1>2, <2>1
<1>5. ASSUME NEW j \in 1..Len(q["left"]) PROVE q["left"][j] = q["employees"][Taken(q) + j]
  <2>1. j \in 1..(Len(l) - 1) /\ j + 1 \in 1..Len(l) /\ q["left"][j] = l[j + 1]
    BY <1>2, <1>5 DEF l
  <2>2. l[j + 1] = p["employees"][Taken(p) + (j + 1)]
    BY <1>1, <2>1
  <2>3. Taken(p) + (j + 1) = Taken(q) + j
    BY <1>3, <2>1
  <2> QED
    BY <2>1, <2>2, <2>3
<1>6. ListGoesOn(q)
  BY <1>1, <1>2, <1>5 DEF ListGoesOn, l
<1> QED
  BY <1>2, <1>3, <1>4, <1>6 DEF l

LEMMA SheetsCounted ==
  ASSUME NEW q, NEW ws, IndicesApart(q, ws), AllThere(q, ws)
  PROVE  /\ IsFiniteSet(DOMAIN q["sheets"])
         /\ Cardinality(DOMAIN q["sheets"]) \in Nat /\ Cardinality(Busy(ws)) \in Nat
<1>1. q["next"] - 1 \in Int /\ DOMAIN q["sheets"] \subseteq 0..(q["next"] - 1)
  BY DEF IndicesApart
<1>2. IsFiniteSet(0..(q["next"] - 1))
  BY <1>1, FS_Interval
<1>3. IsFiniteSet(DOMAIN q["sheets"])
  BY <1>1, <1>2, FS_Subset
<1> QED
  BY <1>3, FS_CardinalityType DEF AllThere

\* The next of the list is given up: he has no working hours.
LEMMA PassPrepares ==
  ASSUME NEW p, NEW q, NEW ws, Preparing(p, ws), p["left"] # <<>>,
         q["employees"] = p["employees"], q["left"] = Tail(p["left"]), q["next"] = p["next"],
         q["missing"] = p["missing"] + 1, q["sheets"] = p["sheets"]
  PROVE  Preparing(q, ws)
<1>1. ListGoesOn(q) /\ Taken(q) = Taken(p) + 1 /\ Taken(p) \in Nat
  BY TakesFirst DEF Preparing
<1>2. IndicesApart(q, ws)
  BY DEF Preparing, IndicesApart
<1>3. AllThere(q, ws)
  <2>1. Cardinality(DOMAIN p["sheets"]) \in Nat /\ Cardinality(Busy(ws)) \in Nat
    BY SheetsCounted DEF Preparing
  <2> QED
    BY <1>1, <2>1 DEF Preparing, AllThere
<1>4. PICK at : Stems(p, ws, at)
  BY DEF Preparing
<1>5. Stems(q, ws, at)
  BY <1>1, <1>4 DEF Stems
<1> QED
  BY <1>1, <1>2, <1>3, <1>5 DEF Preparing

\* The next of the list goes to worker w.
LEMMA GivePrepares ==
  ASSUME NEW p, NEW q, NEW vs, NEW ws, NEW w, Preparing(p, vs), p["left"] # <<>>,
         q["employees"] = p["employees"], q["left"] = Tail(p["left"]), q["next"] = p["next"] + 1,
         q["missing"] = p["missing"], q["sheets"] = p["sheets"],
         w \notin Busy(vs), Busy(ws) = Busy(vs) \cup {w},
         ws[w].user = Head(p["left"]), ws[w].index = p["next"], \A v \in Busy(vs) : ws[v] = vs[v]
  PROVE  Preparing(q, ws)
<1> DEFINE n == p["next"]
<1>1. /\ ListGoesOn(q) /\ Taken(q) = Taken(p) + 1 /\ Taken(p) \in Nat
      /\ Head(p["left"]) = p["employees"][Taken(p) + 1]
  BY TakesFirst DEF Preparing
<1>2. n \in Nat /\ \A v \in Busy(vs) : vs[v].index \in (0..(n - 1)) \ DOMAIN p["sheets"]
  BY DEF Preparing, IndicesApart
<1>3. DOMAIN p["sheets"] \subseteq 0..(n - 1)
  BY DEF Preparing, IndicesApart
<1>4. \A u, v \in Busy(vs) : vs[u].index = vs[v].index => u = v
  BY DEF Preparing, IndicesApart
<1>5. q["next"] = n + 1 /\ n \in 0..n /\ n \notin 0..(n - 1) /\ 0..(n - 1) \subseteq 0..n
      /\ (n + 1) - 1 = n /\ 0..n = 0..(n - 1) \cup {n}
  BY <1>2
<1> HIDE DEF n
<1>6. IndicesApart(q, ws)
  <2>1. \A v \in Busy(ws) : ws[v].index \in (0..n) \ DOMAIN q["sheets"]
    BY <1>2, <1>3, <1>5 DEF n
  <2>2. \A u, v \in Busy(ws) : ws[u].index = ws[v].index => u = v
    BY <1>2, <1>4, <1>5 DEF n
  <2>3. DOMAIN q["sheets"] \subseteq 0..n /\ q["next"] \in Nat
    BY <1>2, <1>3, <1>5
  <2> QED
    BY <1>5, <2>1, <2>2, <2>3 DEF IndicesApart
<1>7. AllThere(q, ws)
  <2>1. Cardinality(DOMAIN p["sheets"]) \in Nat /\ Cardinality(Busy(vs)) \in Nat
    BY SheetsCounted DEF Preparing
  <2>2. IsFiniteSet(Busy(ws)) /\ Cardinality(Busy(ws)) = Cardinality(Busy(vs)) + 1
    BY FS_AddElement DEF Preparing, AllThere
  <2> QED
    BY <1>1, <2>1, <2>2 DEF Preparing, AllThere
<1>8. PICK at : Stems(p, vs, at)
  BY DEF Preparing
<1> DEFINE new == [i \in 0..n |-> IF i = n THEN Taken(p) + 1 ELSE at[i]]
<1>9. \A i \in 0..(n - 1) : at[i] \in 1..Taken(p) /\ new[i] = at[i]
  BY <1>5, <1>8 DEF Stems, n
<1>10. new[n] = Taken(p) + 1
  BY <1>5
<1>11. new \in [0..n -> 1..(Taken(p) + 1)]
  <2>1. \A i \in 0..n : new[i] \in 1..(Taken(p) + 1)
    <3> SUFFICES ASSUME NEW i \in 0..n PROVE new[i] \in 1..(Taken(p) + 1)
      OBVIOUS
    <3>1. CASE i = n
      BY <1>1, <1>10, <3>1
    <3>2. CASE i \in 0..(n - 1)
      <4> HIDE DEF new
      <4> QED
        BY <1>1, <1>9, <3>2
    <3> QED
      BY <1>5, <3>1, <3>2
  <2> QED
    BY <2>1
<1> HIDE DEF new
<1>12. \A i, j \in 0..n : new[i] = new[j] => i = j
  <2>1. \A i, j \in 0..(n - 1) : at[i] = at[j] => i = j
    BY <1>8 DEF Stems, n
  <2>2. \A i \in 0..(n - 1) : new[i] # new[n]
    BY <1>1, <1>9, <1>10
  <2> QED
    BY <1>5, <1>9, <2>1, <2>2
<1>13. \A i \in DOMAIN q["sheets"] : q["sheets"][i].user = q["employees"][new[i]]
  BY <1>3, <1>8, <1>9 DEF Stems
<1>14. \A v \in Busy(ws) : ws[v].user = q["employees"][new[ws[v].index]]
  <2>1. \A v \in Busy(vs) : ws[v].user = q["employees"][new[ws[v].index]]
    BY <1>2, <1>8, <1>9 DEF Stems
  <2>2. ws[w].user = q["employees"][new[ws[w].index]]
    BY <1>1, <1>10 DEF n
  <2> QED
    BY <2>1, <2>2
<1>15. Stems(q, ws, new)
  BY <1>1, <1>5, <1>11, <1>12, <1>13, <1>14 DEF Stems
<1> QED
  BY <1>1, <1>6, <1>7, <1>15 DEF Preparing

\* Worker w has its sheet, or it has failed.
LEMMA EndPrepares ==
  ASSUME NEW p, NEW q, NEW vs, NEW ws, NEW w, Preparing(p, vs), w \in Busy(vs),
         q["employees"] = p["employees"], q["left"] = p["left"], q["next"] = p["next"],
         Busy(ws) = Busy(vs) \ {w}, \A v \in Busy(ws) : ws[v] = vs[v],
         \/ /\ q["missing"] = p["missing"] /\ vs[w].index \in DOMAIN q["sheets"]
            /\ DOMAIN q["sheets"] = DOMAIN p["sheets"] \cup {vs[w].index}
            /\ \A i \in DOMAIN p["sheets"] : i # vs[w].index => q["sheets"][i] = p["sheets"][i]
            /\ q["sheets"][vs[w].index].user = vs[w].user
         \/ q["missing"] = p["missing"] + 1 /\ q["sheets"] = p["sheets"]
  PROVE  Preparing(q, ws)
<1>1. ListGoesOn(q) /\ Taken(q) = Taken(p)
  BY DEF Preparing, ListGoesOn, Taken
<1>2. vs[w].index \in (0..(p["next"] - 1)) \ DOMAIN p["sheets"]
  BY DEF Preparing, IndicesApart
<1>3. \A v \in Busy(ws) : vs[v].index # vs[w].index
  BY DEF Preparing, IndicesApart
<1>4. IndicesApart(q, ws)
  BY <1>2, <1>3 DEF Preparing, IndicesApart
<1>5. AllThere(q, ws)
  <2>1. /\ Cardinality(DOMAIN p["sheets"]) \in Nat /\ Cardinality(Busy(vs)) \in Nat
        /\ IsFiniteSet(DOMAIN p["sheets"])
    BY SheetsCounted DEF Preparing
  <2>2. IsFiniteSet(Busy(ws)) /\ Cardinality(Busy(ws)) = Cardinality(Busy(vs)) - 1
    BY FS_RemoveElement DEF Preparing, AllThere
  <2>3. \/ q["missing"] = p["missing"]
           /\ Cardinality(DOMAIN q["sheets"]) = Cardinality(DOMAIN p["sheets"]) + 1
        \/ q["missing"] = p["missing"] + 1
           /\ Cardinality(DOMAIN q["sheets"]) = Cardinality(DOMAIN p["sheets"])
    BY <1>2, <2>1, FS_AddElement
  <2>4. p["missing"] \in Nat
        /\ Cardinality(DOMAIN p["sheets"]) + Cardinality(Busy(vs)) + p["missing"] = Taken(p)
    BY DEF Preparing, AllThere
  <2>5. Cardinality(DOMAIN q["sheets"]) + Cardinality(Busy(ws)) + q["missing"] = Taken(p)
        /\ q["missing"] \in Nat
    BY <2>1, <2>2, <2>3, <2>4
  <2> QED
    BY <1>1, <2>2, <2>5 DEF AllThere
<1>6. PICK at : Stems(p, vs, at)
  BY DEF Preparing
<1>7. Stems(q, ws, at)
  <2>1. \A i \in DOMAIN q["sheets"] : q["sheets"][i].user = q["employees"][at[i]]
    BY <1>2, <1>6 DEF Stems
  <2>2. \A v \in Busy(ws) : ws[v].user = q["employees"][at[ws[v].index]]
    BY <1>6 DEF Stems
  <2> QED
    BY <1>1, <1>6, <2>1, <2>2 DEF Stems
<1> QED
  BY <1>1, <1>4, <1>5, <1>7 DEF Preparing

LEMMA SheetsWork ==
  ASSUME ReportsAssumption, SheetsInv, NEW r \in Askers, NEW w \in Preparers,
         Files!Take(r, w) \/ Files!Prepare(r, w) \/ Files!PrepareFails(r, w)
  PROVE  SheetsInv'
<1> DEFINE p == asker[r]
           vs == preparer[r]
<1>1. SheetsRight(p) /\ DOMAIN vs = Preparers /\ DOMAIN p = Fields
      /\ DOMAIN asker = Askers /\ DOMAIN preparer = Askers
  BY DEF SheetsInv, SheetsRight
<1>2. CASE Files!Take(r, w)
  <2>1. p.pc = "prepare" /\ p.left # <<>> /\ vs[w] = Files!NoWork /\ Preparing(p, vs)
    BY <1>2 DEF Files!Take, SheetsInv
  <2>2. CASE Head(p.left) \in NoHours
    <3> DEFINE q == [p EXCEPT !.left = Tail(p.left), !.filter = Head(p.left),
                              !.missing = p.missing + 1]
    <3>1. asker' = [asker EXCEPT ![r] = q] /\ preparer' = preparer
      BY <1>2, <2>2 DEF Files!Take
    <3>2. /\ DOMAIN q = Fields /\ q["pc"] = "prepare" /\ q["employees"] = p["employees"]
          /\ q["left"] = Tail(p["left"]) /\ q["next"] = p["next"]
          /\ q["missing"] = p["missing"] + 1 /\ q["sheets"] = p["sheets"]
      BY <1>1, <2>1 DEF Fields
    <3> HIDE DEF q
    <3>3. Preparing(q, vs)
      BY <2>1, <3>2, PassPrepares
    <3>4. SheetsRight(q)
      BY <1>1, <3>2 DEF SheetsRight
    <3> QED
      BY <1>1, <3>1, <3>2, <3>3, <3>4, SheetsOf
  <2>3. CASE Head(p.left) \notin NoHours
    <3> DEFINE q == [p EXCEPT !.left = Tail(p.left), !.filter = Head(p.left), !.next = p.next + 1]
               new == [user |-> Head(p.left), index |-> p.next]
               ws == [vs EXCEPT ![w] = new]
    <3>1. asker' = [asker EXCEPT ![r] = q] /\ preparer' = [preparer EXCEPT ![r] = ws]
      BY <1>1, <1>2, <2>3 DEF Files!Take
    <3>2. /\ DOMAIN q = Fields /\ q["pc"] = "prepare" /\ q["employees"] = p["employees"]
          /\ q["left"] = Tail(p["left"]) /\ q["next"] = p["next"] + 1
          /\ q["missing"] = p["missing"] /\ q["sheets"] = p["sheets"]
      BY <1>1, <2>1 DEF Fields
    <3>3. new.user = Head(p["left"]) /\ new.index = p["next"] /\ new # Files!NoWork
      <4>1. Head(p["left"]) \in DOMAIN Name
        BY <2>1, TakesFirst, <3>2 DEF Preparing
      <4> QED
        BY <4>1 DEF Files!NoWork, ReportsAssumption
    <3> HIDE DEF q, new
    <3>4. /\ DOMAIN ws = Preparers /\ w \notin Busy(vs) /\ Busy(ws) = Busy(vs) \cup {w}
          /\ ws[w] = new /\ \A v \in Busy(vs) : ws[v] = vs[v]
      BY <1>1, <2>1, <3>3 DEF Busy
    <3> HIDE DEF ws
    <3>5. Preparing(q, ws)
      BY <2>1, <3>2, <3>3, <3>4, GivePrepares
    <3>6. SheetsRight(q)
      BY <1>1, <3>2 DEF SheetsRight
    <3>7. DOMAIN preparer' = Askers /\ preparer'[r] = ws
          /\ \A g \in Askers \ {r} : preparer'[g] = preparer[g]
      BY <1>1, <3>1
    <3> QED
      BY <3>1, <3>2, <3>4, <3>5, <3>6, <3>7, SheetsOf
  <2> QED
    BY <2>2, <2>3
<1>3. CASE Files!Prepare(r, w) \/ Files!PrepareFails(r, w)
  <2> DEFINE n == vs[w].index
             sheet == [user |-> vs[w].user, rows |-> Files!RowsOf(vs[w].user)]
             sheets == [j \in DOMAIN p.sheets \cup {n} |-> IF j = n THEN sheet ELSE p.sheets[j]]
             ws == [vs EXCEPT ![w] = Files!NoWork]
             q1 == [p EXCEPT !.sheets = sheets]
             q2 == [p EXCEPT !.missing = p.missing + 1]
  <2>1. vs[w] # Files!NoWork
    BY <1>3 DEF Files!Prepare, Files!Prepared, Files!PrepareFails
  <2>2. p.pc = "prepare" /\ Preparing(p, vs)
    BY <1>1, <2>1 DEF SheetsInv, Busy
  <2>3. PICK q \in {q1, q2} : asker' = [asker EXCEPT ![r] = q]
    BY <1>1, <1>3 DEF Files!Prepare, Files!Prepared, Files!PrepareFails
  <2>4. preparer' = [preparer EXCEPT ![r] = ws]
    BY <1>1, <1>3 DEF Files!Prepare, Files!Prepared, Files!PrepareFails
  <2>5. /\ DOMAIN ws = Preparers /\ w \in Busy(vs) /\ Busy(ws) = Busy(vs) \ {w}
        /\ \A v \in Busy(ws) : ws[v] = vs[v]
    BY <1>1, <2>1 DEF Busy
  <2>6. sheet.user = vs[w].user /\ sheet.rows = Files!RowsOf(vs[w].user)
    OBVIOUS
  <2> HIDE DEF sheet
  <2>7. /\ DOMAIN sheets = DOMAIN p["sheets"] \cup {n} /\ sheets[n] = sheet
        /\ \A i \in DOMAIN p["sheets"] : i # n => sheets[i] = p["sheets"][i]
    OBVIOUS
  <2> HIDE DEF sheets
  <2>8. /\ DOMAIN q = Fields /\ q["pc"] = "prepare" /\ q["employees"] = p["employees"]
        /\ q["left"] = p["left"] /\ q["next"] = p["next"]
        /\ \/ q["missing"] = p["missing"] /\ q["sheets"] = sheets
           \/ q["missing"] = p["missing"] + 1 /\ q["sheets"] = p["sheets"]
    <3>1. CASE q = q1
      BY <1>1, <2>2, <3>1 DEF Fields
    <3>2. CASE q = q2
      BY <1>1, <2>2, <3>2 DEF Fields
    <3> QED
      BY <3>1, <3>2
  <2> HIDE DEF q1, q2, ws
  <2>9. Preparing(q, ws)
    BY <2>2, <2>5, <2>6, <2>7, <2>8, EndPrepares
  <2>10. SheetsRight(q)
    BY <1>1, <2>6, <2>7, <2>8 DEF SheetsRight
  <2>11. DOMAIN preparer' = Askers /\ preparer'[r] = ws
         /\ \A g \in Askers \ {r} : preparer'[g] = preparer[g]
    BY <1>1, <2>4
  <2> QED
    BY <2>3, <2>5, <2>8, <2>9, <2>10, <2>11, SheetsOf
<1> QED
  BY <1>2, <1>3

\* A request goes on from where no worker is at work for it.
LEMMA SheetsAside ==
  ASSUME SheetsInv, NEW r \in Askers, NEW new, asker' = [asker EXCEPT ![r] = new],
         Busy(preparer[r]) = {}, preparer' = preparer,
         DOMAIN new = Fields, new["sheets"] = asker[r]["sheets"], new["pc"] # "prepare"
  PROVE  SheetsInv'
<1>1. SheetsRight(new)
  BY DEF SheetsInv, SheetsRight
<1>2. DOMAIN preparer = Askers /\ DOMAIN preparer[r] = Preparers
  BY DEF SheetsInv
<1> QED
  BY <1>1, <1>2, SheetsOf

LEMMA SheetsEnd ==
  ASSUME SheetsInv, Files!ProcessEnds
  PROVE  SheetsInv'
<1>1. /\ asker' = [g \in Askers |-> IF asker[g].pc = "idle" THEN Files!NotAsked
                                   ELSE [asker[g] EXCEPT !.pc = "lost"]]
      /\ preparer' = [g \in Askers |-> [w \in Preparers |-> Files!NoWork]]
  BY DEF Files!ProcessEnds
<1>2. SheetsRight(Files!NotAsked) /\ Files!NotAsked.pc = "idle"
  BY DEF SheetsRight, Files!NotAsked, Fields
<1>3. ASSUME NEW r \in Askers
      PROVE  SheetsRight(asker'[r]) /\ asker'[r].pc # "prepare"
  <2>1. CASE asker[r].pc = "idle"
    BY <1>1, <1>2, <2>1
  <2>2. CASE asker[r].pc # "idle"
    <3> DEFINE q == [asker[r] EXCEPT !.pc = "lost"]
    <3>1. asker'[r] = q
      BY <1>1, <2>2
    <3>2. DOMAIN q = Fields /\ q["pc"] = "lost" /\ q["sheets"] = asker[r]["sheets"]
      BY DEF SheetsInv, SheetsRight, Fields
    <3> HIDE DEF q
    <3> QED
      BY <3>1, <3>2 DEF SheetsInv, SheetsRight
  <2> QED
    BY <2>1, <2>2
<1>4. ASSUME NEW r \in Askers PROVE DOMAIN preparer'[r] = Preparers /\ Busy(preparer'[r]) = {}
  BY <1>1 DEF Busy
<1> QED
  BY <1>1, <1>3, <1>4 DEF SheetsInv

LEMMA SheetsNext == ASSUME ReportsAssumption, SheetsInv, Files!Next PROVE SheetsInv'
<1> PICK r \in Askers :
      \/ Files!AskAttendance(r) \/ Files!AskPayroll(r)
      \/ \E w \in Preparers : Files!Take(r, w) \/ Files!Prepare(r, w) \/ Files!PrepareFails(r, w)
      \/ Files!AttendanceExcelReport(r) \/ Files!PayrollExcelReport(r)
      \/ Files!FinishWriting(r) \/ Files!Open(r) \/ Files!SendAttendance(r) \/ Files!SendPayroll(r)
  BY DEF Files!Next
<1>1. Files!AskAttendance(r) \/ Files!AskPayroll(r) => SheetsInv'
  BY SheetsAsk DEF Files!AskAttendance, Files!AskPayroll, Files!Kinds
<1>2. (\E w \in Preparers : Files!Take(r, w) \/ Files!Prepare(r, w) \/ Files!PrepareFails(r, w))
        => SheetsInv'
  BY SheetsWork
<1>3. DOMAIN asker[r] = Fields /\ DOMAIN preparer[r] = Preparers
  BY DEF SheetsInv, SheetsRight
<1>4. ASSUME NEW to, asker' = [asker EXCEPT ![r] = [asker[r] EXCEPT !.pc = to]],
             to # "prepare", Busy(preparer[r]) = {}, preparer' = preparer
      PROVE  SheetsInv'
  <2> DEFINE new == [asker[r] EXCEPT !.pc = to]
  <2>1. DOMAIN new = Fields /\ new["sheets"] = asker[r]["sheets"] /\ new["pc"] = to
    BY <1>3 DEF Fields
  <2> HIDE DEF new
  <2>2. asker' = [asker EXCEPT ![r] = new]
    BY <1>4 DEF new
  <2> QED
    BY <1>4, <2>1, <2>2, SheetsAside
<1>5. ASSUME Files!AttendanceExcelReport(r) \/ Files!PayrollExcelReport(r) PROVE SheetsInv'
  <2>1. Files!SheetsDone(r) /\ (Files!Refuse(r) \/ Files!StartWriting(r))
    BY <1>5 DEF Files!AttendanceExcelReport, Files!PayrollExcelReport
  <2>2. Busy(preparer[r]) = {}
    BY <2>1 DEF Files!SheetsDone, Busy
  <2>3. \E to \in {"refused", "write"} : asker' = [asker EXCEPT ![r] = [asker[r] EXCEPT !.pc = to]]
    BY <2>1 DEF Files!Refuse, Files!StartWriting
  <2>4. preparer' = preparer
    BY <2>1 DEF Files!Refuse, Files!StartWriting
  <2> QED
    BY <1>4, <2>2, <2>3, <2>4
<1>6. ASSUME Files!FinishWriting(r) PROVE SheetsInv'
  <2>1. asker[r].pc = "write" /\ preparer' = preparer
        /\ asker' = [asker EXCEPT ![r] = [asker[r] EXCEPT !.pc = "open"]]
    BY <1>6 DEF Files!FinishWriting
  <2> QED
    BY <1>4, <2>1 DEF SheetsInv
<1>7. ASSUME Files!Open(r) PROVE SheetsInv'
  <2>1. CASE file[asker[r].kind] = Files!NoFile
    BY <1>7, <2>1, SheetsEnd DEF Files!Open
  <2>2. CASE file[asker[r].kind] # Files!NoFile
    <3> DEFINE new == [asker[r] EXCEPT !.pc = "send", !.source = file[asker[r].kind]]
    <3>1. asker' = [asker EXCEPT ![r] = new] /\ asker[r].pc = "open" /\ preparer' = preparer
      BY <1>7, <2>2 DEF Files!Open
    <3>2. DOMAIN new = Fields /\ new["sheets"] = asker[r]["sheets"] /\ new["pc"] = "send"
      BY <1>3 DEF Fields
    <3> HIDE DEF new
    <3> QED
      BY <3>1, <3>2, SheetsAside DEF SheetsInv
  <2> QED
    BY <2>1, <2>2
<1>8. ASSUME Files!Sent(r), preparer' = preparer PROVE SheetsInv'
  <2>1. asker[r].pc = "send" /\ asker' = [asker EXCEPT ![r] = [asker[r] EXCEPT !.pc = "done"]]
    BY <1>8 DEF Files!Sent
  <2> QED
    BY <1>4, <1>8, <2>1 DEF SheetsInv
<1>9. Files!SendAttendance(r) => SheetsInv'
  BY <1>8, SheetsEnd DEF Files!SendAttendance
<1>10. Files!SendPayroll(r) => SheetsInv'
  BY <1>8 DEF Files!SendPayroll
<1> QED
  BY <1>1, <1>2, <1>5, <1>6, <1>7, <1>9, <1>10

\* The days behind the first page look like absences, and no others.
LEMMA SheetsShow ==
  ASSUME ReportsAssumption, SheetsInv
  PROVE  Files!SheetsAreTheirs
<1> SUFFICES ASSUME NEW r \in Askers, NEW i \in DOMAIN asker[r].sheets, NEW d \in Period
             PROVE  LET s == asker[r].sheets[i]
                        a == Attendance[s.user][d]
                    IN CASE d \in DaysOff -> s.rows[d] = "off"
                         [] d \notin DaysOff /\ a = "none" -> s.rows[d] = "absent"
                         [] OTHER -> \/ s.rows[d] = a
                                     \/ /\ s.rows[d] = "absent"
                                        /\ Files!Cardinality({e \in Period : e < d}) >= Page
  BY DEF Files!SheetsAreTheirs, Files!Sheets
<1> DEFINE u == asker[r].sheets[i].user
           rows == asker[r].sheets[i].rows
           before == {e \in Period : e < d /\ Attendance[u][e] # "none"}
<1>1. rows = Files!RowsOf(u)
  BY DEF SheetsInv, SheetsRight
<1>2. rows[d] = IF d \in DaysOff THEN "off"
                ELSE IF d \in Files!Found(u) THEN Attendance[u][d] ELSE "absent"
  BY <1>1 DEF Files!RowsOf
<1>3. d \in Files!Found(u) <=> Attendance[u][d] # "none" /\ Cardinality(before) < Page
  BY CountsFiles DEF Files!Found
<1>4. Cardinality(before) <= Cardinality({e \in Period : e < d})
      /\ Cardinality(before) \in Nat /\ Cardinality({e \in Period : e < d}) \in Nat
  <2>1. before \subseteq {e \in Period : e < d} /\ {e \in Period : e < d} \subseteq Period
    OBVIOUS
  <2> QED
    BY <2>1, FS_Subset, FS_CardinalityType DEF ReportsAssumption
<1>5. ~(Cardinality(before) < Page) => Files!Cardinality({e \in Period : e < d}) >= Page
  BY <1>4, CountsFiles DEF ReportsAssumption
<1> HIDE DEF u, rows, before
<1>6. CASE d \in DaysOff
  BY <1>2, <1>6 DEF rows
<1>7. CASE d \notin DaysOff /\ Attendance[u][d] = "none"
  BY <1>2, <1>3, <1>7 DEF rows, u
<1>8. CASE d \notin DaysOff /\ Attendance[u][d] # "none"
  BY <1>2, <1>3, <1>5, <1>8 DEF rows, u
<1> QED
  BY <1>6, <1>7, <1>8

\* A sheet stems from a place in the list, and two from different ones.
LEMMA SheetsForAll ==
  ASSUME SheetsInv
  PROVE  Files!EveryoneHasASheet
<1> SUFFICES ASSUME NEW r \in Askers, Files!SheetsDone(r)
             PROVE  /\ Cardinality(DOMAIN asker[r].sheets) + asker[r].missing
                         = Len(asker[r].employees)
                    /\ \A u \in Files!Employees :
                         Cardinality({i \in DOMAIN asker[r].sheets : asker[r].sheets[i].user = u})
                           <= Cardinality({i \in DOMAIN asker[r].employees :
                                             asker[r].employees[i] = u})
  BY CountsFiles DEF Files!EveryoneHasASheet
<1> DEFINE q == asker[r]
           ws == preparer[r]
<1>1. Preparing(q, ws) /\ q["left"] = <<>> /\ Busy(ws) = {}
  BY DEF SheetsInv, Files!SheetsDone, Busy
<1>2. q["employees"] \in Seq(DOMAIN Name) /\ Len(q["employees"]) \in Nat
      /\ DOMAIN q["employees"] = 1..Len(q["employees"])
  BY <1>1 DEF Preparing, ListGoesOn
<1>3. Taken(q) = Len(q["employees"])
  <2>1. Len(q["left"]) = 0
    BY <1>1
  <2> QED
    BY <1>2, <2>1 DEF Taken
<1>4. /\ IsFiniteSet(DOMAIN q["sheets"]) /\ Cardinality(DOMAIN q["sheets"]) \in Nat
  BY <1>1, SheetsCounted DEF Preparing
<1>5. Cardinality(DOMAIN q["sheets"]) + q["missing"] = Len(q["employees"])
  BY <1>1, <1>3, <1>4, FS_EmptySet DEF Preparing, AllThere
<1>6. PICK at : Stems(q, ws, at)
  BY <1>1 DEF Preparing
<1>7. ASSUME NEW u
      PROVE  Cardinality({i \in DOMAIN q["sheets"] : q["sheets"][i].user = u})
               <= Cardinality({i \in DOMAIN q["employees"] : q["employees"][i] = u})
  <2> DEFINE S == {i \in DOMAIN q["sheets"] : q["sheets"][i].user = u}
             T == {i \in DOMAIN q["employees"] : q["employees"][i] = u}
             f == [i \in S |-> at[i]]
  <2>1. IsFiniteSet(T)
    <3>1. IsFiniteSet(1..Len(q["employees"]))
      BY <1>2, FS_Interval
    <3> QED
      BY <1>2, <3>1, FS_Subset
  <2>2. \A i \in S : at[i] \in T
    BY <1>1, <1>2, <1>3, <1>6 DEF Stems, Preparing, IndicesApart
  <2>3. \A i, j \in S : at[i] = at[j] => i = j
    BY <1>1, <1>6 DEF Stems, Preparing, IndicesApart
  <2> HIDE DEF S, T
  <2>4. f \in Injection(S, T)
    BY <2>2, <2>3 DEF Injection, IsInjective
  <2>5. Cardinality(S) <= Cardinality(T)
    BY <2>1, <2>4, FS_Injection
  <2> QED
    BY <2>5 DEF S, T
<1> QED
  BY <1>5, <1>7

(* A sheet shows what the attendance of its employee says, and nobody of   *)
(* the list is without one, or has another's, unless the preparation of a  *)
(* sheet failed (generateReport of the two services), for any number of    *)
(* requests, workers, employees and failures.                              *)
THEOREM SheetsAreComplete ==
  ReportsAssumption => (Files!Spec => [](Files!SheetsAreTheirs /\ Files!EveryoneHasASheet))
<1> SUFFICES ASSUME ReportsAssumption
             PROVE  Files!Spec => [](Files!SheetsAreTheirs /\ Files!EveryoneHasASheet)
  OBVIOUS
<1>1. Files!Init => SheetsInv
  BY SheetsInit
<1>2. SheetsInv /\ [Files!Next]_(Files!vars) => SheetsInv'
  <2> SUFFICES ASSUME SheetsInv, UNCHANGED Files!vars PROVE SheetsInv'
    BY SheetsNext
  <2> QED
    BY DEF Files!vars, SheetsInv
<1>3. SheetsInv => Files!SheetsAreTheirs /\ Files!EveryoneHasASheet
  BY SheetsShow, SheetsForAll
<1> QED
  BY <1>1, <1>2, <1>3, PTL DEF Files!Spec

(* What the composition checks of reports.                                 *)
THEOREM ReportsAreComplete == ReportsAssumption => (PayDatesSpec => []ReportsAreWhole)
<1> SUFFICES ASSUME ReportsAssumption PROVE PayDatesSpec => []ReportsAreWhole
  OBVIOUS
<1>1. PayDatesInit => Files!Init
  BY DEF PayDatesInit
<1>2. [PayDatesNext]_<<which, vars, dateVars, salaryVars, payVars, reportVars>>
        => [Files!Next]_(Files!vars)
  BY DEF PayDatesNext, reportVars, Files!vars
<1>3. Files!SheetsAreTheirs /\ Files!EveryoneHasASheet /\ Files!ReportsArriveWhole
        => ReportsAreWhole
  BY DEF ReportsAreWhole
<1> QED
  BY <1>1, <1>2, <1>3, SheetsAreComplete, ReportsArrive, PTL DEF PayDatesSpec, Files!Spec

-----------------------------------------------------------------------------
(* What a payroll is computed from.                                        *)

LEMMA CountsPay == \A S : Pay!Cardinality(S) = Cardinality(S)
BY DEF Pay!Cardinality, Cardinality

First(c) == Length * (c - 1) + 1
Last(c) == Length * c

LEMMA CycleDays ==
  ASSUME PayAssumption, NEW c \in PayCycles
  PROVE  /\ First(c) \in Int /\ Last(c) \in Int /\ Last(c) = First(c) + (Length - 1)
         /\ First(c) <= Last(c)
         /\ Pay!DaysOf(c) = First(c)..Last(c) /\ Pay!DaysOf(c) \subseteq Pay!Day
         /\ Pay!Min(Pay!DaysOf(c)) = First(c) /\ Pay!Max(Pay!DaysOf(c)) = Last(c)
<1> DEFINE n == Cardinality(PayCycles)
<1>1. n \in Nat /\ c \in 1..n /\ Length \in Nat \ {0} /\ Week \in Nat
  BY FS_CardinalityType DEF PayAssumption
<1> HIDE DEF n
<1>2. First(c) \in Int /\ Last(c) \in Int /\ Last(c) = First(c) + (Length - 1)
  BY <1>1 DEF First, Last
<1>3. First(c) <= Last(c)
  BY <1>1, <1>2
<1>4. Pay!DaysOf(c) = First(c)..Last(c)
  BY DEF Pay!DaysOf, First, Last
<1>5. Length * (c - 1) >= 0 /\ Length * c <= Length * n /\ Length * n \in Int
  BY <1>1
<1>6. Pay!DaysOf(c) \subseteq Pay!Day
  <2>1. First(c) >= 1 - Week /\ Last(c) <= Length * n
    BY <1>1, <1>5 DEF First, Last
  <2>2. Pay!Day = (1 - Week)..(Length * n)
    BY CountsPay DEF Pay!Day, n
  <2> QED
    BY <1>1, <1>2, <1>4, <1>5, <2>1, <2>2
<1>7. Pay!Min(First(c)..Last(c)) = First(c)
  BY <1>2, <1>3 DEF Pay!Min
<1>8. Pay!Max(First(c)..Last(c)) = Last(c)
  BY <1>2, <1>3 DEF Pay!Max
<1> QED
  BY <1>2, <1>3, <1>4, <1>6, <1>7, <1>8

LocalNames ==
  {"pc", "cycle", "closed", "day", "available", "seen", "absences", "worked", "working", "used",
   "overused", "minutes", "touched"}

Passing == {"days", "deductions", "lates", "write"}

\* The days that are lost, of those that have been passed.
Lost(p) == {d \in Pay!DaysLost(p["cycle"], p["closed"]) : d < p["day"]}

\* The day a computation is at, and what it has counted.
Counts(p) ==
  /\ p["day"] \in First(p["cycle"])..(Last(p["cycle"]) + 1)
  /\ p["pc"] = "days" => p["day"] <= Last(p["cycle"])
  /\ p["pc"] # "days" => p["day"] = Last(p["cycle"]) + 1
  /\ p["absences"] \in Nat /\ p["worked"] \in Nat /\ p["working"] \in Nat
  /\ p["used"] \in Nat /\ p["overused"] \in Nat
  /\ p["used"] + p["overused"] <= p["working"] - p["worked"]
  /\ p["worked"] + p["absences"] <= p["day"] - First(p["cycle"])

\* Unless the attendance was changed, it is as it was read, and the days lost are counted.
Agrees1(p) ==
  /\ \A d \in Pay!DaysOf(p["cycle"]) : p["seen"][d] = record[d]
  /\ p["absences"] = Cardinality(Lost(p))

Computes(p) ==
  /\ DOMAIN p = LocalNames
  /\ p["pc"] \in {"idle", "credits", "attendance"} \cup Passing
  /\ p["pc"] # "idle" => p["cycle"] \in PayCycles
  /\ p["touched"] \in BOOLEAN
  /\ p["pc"] \in Passing => Counts(p) /\ (p["touched"] = FALSE => Agrees1(p))
  /\ p["pc"] \in {"credits", "attendance"} => 
       /\ p["absences"] = 0 /\ p["worked"] = 0 /\ p["working"] = 0
       /\ p["used"] = 0 /\ p["overused"] = 0

PayInv ==
  /\ DOMAIN mHandler = Computers /\ \A h \in Computers : Computes(mHandler[h])
  /\ DOMAIN record = Pay!Day /\ \A d \in Pay!Day : record[d].status \in Marks
  /\ leaves \in Leaves

LEMMA LostIsFinite ==
  ASSUME PayAssumption, NEW c \in PayCycles, NEW closed
  PROVE  IsFiniteSet(Pay!DaysLost(c, closed)) /\ Pay!DaysLost(c, closed) \subseteq First(c)..Last(c)
<1>1. Pay!DaysLost(c, closed) \subseteq First(c)..Last(c)
  BY CycleDays DEF Pay!DaysLost
<1>2. IsFiniteSet(First(c)..Last(c))
  BY CycleDays, FS_Interval
<1> QED
  BY <1>1, <1>2, FS_Subset

\* A day has passed, with these counts.
Passed(p, q, missed, worked, working, used, overused) ==
  /\ DOMAIN q = LocalNames /\ q["cycle"] = p["cycle"] /\ q["closed"] = p["closed"]
  /\ q["seen"] = p["seen"] /\ q["touched"] = p["touched"] /\ q["available"] = p["available"]
  /\ q["pc"] = (IF p["day"] = Last(p["cycle"]) THEN "deductions" ELSE "days")
  /\ q["day"] = p["day"] + 1
  /\ q["absences"] = p["absences"] + missed /\ q["worked"] = p["worked"] + worked
  /\ q["working"] = p["working"] + working
  /\ q["used"] = p["used"] + used /\ q["overused"] = p["overused"] + overused

After(p, missed, worked, working, used, overused) ==
  [p EXCEPT !.pc = IF p.day = Pay!Max(Pay!DaysOf(p.cycle)) THEN "deductions" ELSE "days",
            !.day = p.day + 1,
            !.absences = @ + missed, !.worked = @ + worked, !.working = @ + working,
            !.used = @ + used, !.overused = @ + overused]

LEMMA AfterPassed ==
  ASSUME PayAssumption, NEW p, DOMAIN p = LocalNames, p["cycle"] \in PayCycles,
         NEW missed, NEW worked, NEW working, NEW used, NEW overused
  PROVE  Passed(p, After(p, missed, worked, working, used, overused),
                missed, worked, working, used, overused)
BY CycleDays DEF Passed, After, LocalNames

LEMMA LostUpTo ==
  ASSUME NEW L, IsFiniteSet(L), L \subseteq Int, NEW d \in Int
  PROVE  Cardinality({e \in L : e < d + 1})
           = Cardinality({e \in L : e < d}) + IF d \in L THEN 1 ELSE 0
<1> DEFINE before == {e \in L : e < d}
           upto == {e \in L : e < d + 1}
<1>1. IsFiniteSet(before) /\ d \notin before
  <2>1. before \subseteq L
    OBVIOUS
  <2> QED
    BY <2>1, FS_Subset
<1>2. \A e \in L : e < d + 1 <=> e < d \/ e = d
  <2>1. \A e \in Int : e < d + 1 <=> e < d \/ e = d
    OBVIOUS
  <2> QED
    BY <2>1
<1>3. CASE d \in L
  <2>1. upto = before \cup {d}
    <3>1. \A e : e \in upto <=> e \in L /\ (e < d \/ e = d)
      BY <1>2
    <3>2. \A e : e \in before \cup {d} <=> (e \in L /\ e < d) \/ e = d
      OBVIOUS
    <3> HIDE DEF upto, before
    <3> QED
      BY <1>3, <3>1, <3>2
  <2> QED
    BY <1>1, <1>3, <2>1, FS_AddElement
<1>4. CASE d \notin L
  <2>1. upto = before
    <3>1. \A e : e \in upto <=> e \in L /\ (e < d \/ e = d)
      BY <1>2
    <3>2. \A e : e \in before <=> e \in L /\ e < d
      OBVIOUS
    <3> HIDE DEF upto, before
    <3> QED
      BY <1>4, <3>1, <3>2, Zenon
  <2>2. Cardinality(before) \in Nat
    BY <1>1, FS_CardinalityType
  <2> QED
    BY <1>4, <2>1, <2>2
<1> QED
  BY <1>3, <1>4

\* A day is missed or worked, or neither, and only an absence on a working day takes a credit.
Fair(missed, worked, working, used, overused) ==
  /\ missed \in {0, 1} /\ worked \in {0, 1} /\ working \in {0, 1}
  /\ used \in {0, 1} /\ overused \in {0, 1}
  /\ missed + worked <= 1 /\ used + overused <= working - worked

LEMMA PassesOn ==
  ASSUME PayAssumption, NEW p, Computes(p), p["pc"] = "days",
         NEW missed, NEW worked, NEW working, NEW used, NEW overused,
         Fair(missed, worked, working, used, overused),
         NEW q, Passed(p, q, missed, worked, working, used, overused),
         p["touched"] = FALSE =>
           (missed = 1 <=> p["day"] \in Pay!DaysLost(p["cycle"], p["closed"]))
  PROVE  Computes(q)
<1> DEFINE d == p["day"]
           c == p["cycle"]
<1>2. c \in PayCycles /\ Counts(p) /\ DOMAIN p = LocalNames
  BY DEF Computes, Passing
<1>1. /\ missed \in {0, 1} /\ worked \in {0, 1} /\ working \in {0, 1}
      /\ used \in {0, 1} /\ overused \in {0, 1}
      /\ missed + worked <= 1 /\ used + overused <= working - worked
  BY DEF Fair
<1>3. /\ DOMAIN q = LocalNames /\ q["cycle"] = c /\ q["closed"] = p["closed"]
      /\ q["seen"] = p["seen"] /\ q["touched"] = p["touched"]
      /\ q["pc"] = (IF d = Last(c) THEN "deductions" ELSE "days") /\ q["day"] = p["day"] + 1
      /\ q["absences"] = p["absences"] + missed /\ q["worked"] = p["worked"] + worked
      /\ q["working"] = p["working"] + working
      /\ q["used"] = p["used"] + used /\ q["overused"] = p["overused"] + overused
  BY DEF Passed
<1>4. Counts(q)
  <2>1. First(c) \in Int /\ Last(c) \in Int
    BY <1>2, CycleDays
  <2> QED
    BY <1>1, <1>2, <1>3, <2>1 DEF Counts
<1>5. p["touched"] = FALSE => Agrees1(q)
  <2> SUFFICES ASSUME p["touched"] = FALSE PROVE Agrees1(q)
    OBVIOUS
  <2> DEFINE L == Pay!DaysLost(c, p["closed"])
             before == {e \in L : e < d}
             upto == {e \in L : e < d + 1}
  <2>1. Agrees1(p)
    BY <1>2 DEF Computes, Passing
  <2>2. IsFiniteSet(L) /\ L \subseteq Int /\ d \in Int
    BY <1>2, LostIsFinite, CycleDays DEF Counts
  <2>3. missed = IF d \in L THEN 1 ELSE 0
    BY <1>1
  <2>4. Cardinality(upto) = Cardinality(before) + missed
    BY <2>2, <2>3, LostUpTo
  <2>5. Lost(p) = before /\ Lost(q) = upto
    BY <1>3 DEF Lost
  <2> QED
    BY <1>3, <2>1, <2>4, <2>5 DEF Agrees1
<1> QED
  BY <1>2, <1>3, <1>4, <1>5 DEF Computes, Passing

\* A day off is lost during a leave, and when nobody was seen in the days before.
LEMMA DayOffLost ==
  ASSUME PayAssumption, PayInv, NEW c \in PayCycles, NEW closed, NEW d \in Pay!DaysOf(c),
         d \in closed \cup calendar.holidays
  PROVE  d \in Pay!DaysLost(c, closed) <=>
           \/ Pay!LeavesOn(d, c) # {}
           \/ d \notin closed \cap calendar.holidays /\ ~Pay!SeenBefore(d)
<1> DEFINE left == UNION {l.from..l.to : l \in {k \in leaves : Pay!Min(Pay!DaysOf(c)) <= k.from}}
           idle == {e \in closed \cup calendar.holidays :
                      \A f \in Pay!Day : record[f].status \in {"complete", "late", "incomplete"}
                                           => f >= e \/ f < e - Week}
<1>1. d \in Pay!DaysLost(c, closed)
        <=> d \in left \/ d \in idle \ (closed \cap calendar.holidays)
  BY DEF Pay!DaysLost
<1>2. d \in left <=> Pay!LeavesOn(d, c) # {}
  <2>1. \A l \in leaves : l.from \in Int /\ l.to \in Int
    BY DEF PayInv, PayAssumption
  <2>2. /\ Pay!DaysOf(c) = First(c)..Last(c) /\ Pay!Min(Pay!DaysOf(c)) = First(c)
        /\ First(c) \in Int /\ Last(c) \in Int
    BY CycleDays
  <2> QED
    BY <2>1, <2>2 DEF Pay!LeavesOn
<1>3. d \in idle <=> ~Pay!SeenBefore(d)
  <2>1. d \in Int /\ Week \in Nat /\ Pay!Day \subseteq Int
    BY CycleDays DEF PayAssumption, Pay!Day
  <2> QED
    BY <2>1 DEF Pay!SeenBefore
<1> HIDE DEF left, idle
<1> QED
  BY <1>1, <1>2, <1>3

\* Another day is lost unless it was worked, or is recorded as a day off.
LEMMA OtherDayLost ==
  ASSUME PayAssumption, PayInv, NEW c \in PayCycles, NEW closed, NEW d \in Pay!DaysOf(c),
         d \notin closed \cup calendar.holidays
  PROVE  d \in Pay!DaysLost(c, closed) <=> record[d].status \in {"none", "absent"}
<1>1. record[d].status \in Marks
  BY CycleDays DEF PayInv
<1> QED
  BY <1>1 DEF Pay!DaysLost, Marks

\* A step of one computation that leaves what it depends on alone.
LEMMA PayGoes ==
  ASSUME PayInv, NEW h \in Computers, NEW q, Computes(q), mHandler' = [mHandler EXCEPT ![h] = q],
         UNCHANGED <<calendar, record, leaves>>
  PROVE  PayInv'
<1>1. \A r : Agrees1(r)' <=> Agrees1(r)
  BY DEF Agrees1, Lost, Pay!DaysLost
<1> QED
  BY <1>1 DEF PayInv, Computes

LEMMA PayEachDay ==
  ASSUME PayAssumption, PayInv, NEW h \in Computers, Pay!EachDay(h)
  PROVE  PayInv'
<1> DEFINE p == mHandler[h]
           d == p.day
           c == p["cycle"]
<1>1. p["pc"] = "days" /\ Computes(p) /\ c \in PayCycles
  BY DEF Pay!EachDay, PayInv, Computes
<1>2. Counts(p) /\ (p["touched"] = FALSE => Agrees1(p))
  BY <1>1 DEF Computes, Passing
<1>3. d \in Pay!DaysOf(c)
  BY <1>1, <1>2, CycleDays DEF Counts
<1>4. \/ Pay!LeaveOnDayOff(h, d) \/ Pay!PaidDayOff(h, d) \/ Pay!UnpaidDayOff(h, d)
      \/ Pay!RecordedOff(h, d) \/ Pay!WorkedDay(h, d)
      \/ Pay!CreditedDay(h, d) \/ Pay!OverusedDay(h, d) \/ Pay!MissedDay(h, d)
  BY DEF Pay!EachDay
<1>5. Pay!DayOff(h, d) <=> d \in p["closed"] \cup calendar.holidays
  BY DEF Pay!DayOff
<1>6. Pay!DayOff(h, d) =>
        (d \in Pay!DaysLost(c, p["closed"]) <=>
           \/ Pay!LeavesOn(d, c) # {}
           \/ d \notin p["closed"] \cap calendar.holidays /\ ~Pay!SeenBefore(d))
  BY <1>1, <1>3, <1>5, DayOffLost
<1>7. p["touched"] = FALSE /\ ~Pay!DayOff(h, d) =>
        (d \in Pay!DaysLost(c, p["closed"]) <=> p["seen"][d].status \in {"none", "absent"})
  BY <1>1, <1>2, <1>3, <1>5, OtherDayLost DEF Agrees1
<1>16. ASSUME NEW missed, NEW worked, NEW working, NEW used, NEW overused,
              Fair(missed, worked, working, used, overused),
              NEW q, Passed(p, q, missed, worked, working, used, overused),
              p["touched"] = FALSE => (missed = 1 <=> d \in Pay!DaysLost(c, p["closed"]))
       PROVE  Computes(q)
  BY <1>1, <1>16, PassesOn
<1> HIDE DEF d, c
<1>8. CASE Pay!LeaveOnDayOff(h, d)
  <2>1. Pay!Passes(h, d, 1, 0, 0, 0, 0) /\ d \in Pay!DaysLost(c, p["closed"])
    BY <1>6, <1>8 DEF Pay!LeaveOnDayOff, c
  <2>2. mHandler' = [mHandler EXCEPT ![h] = After(p, 1, 0, 0, 0, 0)] /\ UNCHANGED <<calendar, record, leaves>>
    BY <2>1 DEF Pay!Passes, Pay!Goes, After, d
  <2>3. Passed(p, After(p, 1, 0, 0, 0, 0), 1, 0, 0, 0, 0)
    BY <1>1, AfterPassed DEF Computes, c
  <2>4. Fair(1, 0, 0, 0, 0)
    BY DEF Fair
  <2>5. Computes(After(p, 1, 0, 0, 0, 0))
    BY <1>16, <2>1, <2>3, <2>4
  <2> QED
    BY <2>2, <2>5, PayGoes
<1>9. CASE Pay!PaidDayOff(h, d)
  <2>1. Pay!Passes(h, d, 0, 0, 0, 0, 0) /\ d \notin Pay!DaysLost(c, p["closed"])
    BY <1>6, <1>9 DEF Pay!PaidDayOff, c
  <2>2. mHandler' = [mHandler EXCEPT ![h] = After(p, 0, 0, 0, 0, 0)] /\ UNCHANGED <<calendar, record, leaves>>
    BY <2>1 DEF Pay!Passes, Pay!Goes, After, d
  <2>3. Passed(p, After(p, 0, 0, 0, 0, 0), 0, 0, 0, 0, 0)
    BY <1>1, AfterPassed DEF Computes, c
  <2>4. Fair(0, 0, 0, 0, 0) /\ 0 # 1
    BY DEF Fair
  <2>5. Computes(After(p, 0, 0, 0, 0, 0))
    BY <1>16, <2>1, <2>3, <2>4
  <2> QED
    BY <2>2, <2>5, PayGoes
<1>10. CASE Pay!UnpaidDayOff(h, d)
  <2>1. Pay!Passes(h, d, 1, 0, 0, 0, 0) /\ d \in Pay!DaysLost(c, p["closed"])
    BY <1>6, <1>10 DEF Pay!UnpaidDayOff, c
  <2>2. mHandler' = [mHandler EXCEPT ![h] = After(p, 1, 0, 0, 0, 0)] /\ UNCHANGED <<calendar, record, leaves>>
    BY <2>1 DEF Pay!Passes, Pay!Goes, After, d
  <2>3. Passed(p, After(p, 1, 0, 0, 0, 0), 1, 0, 0, 0, 0)
    BY <1>1, AfterPassed DEF Computes, c
  <2>4. Fair(1, 0, 0, 0, 0)
    BY DEF Fair
  <2>5. Computes(After(p, 1, 0, 0, 0, 0))
    BY <1>16, <2>1, <2>3, <2>4
  <2> QED
    BY <2>2, <2>5, PayGoes
<1>11. CASE Pay!RecordedOff(h, d)
  <2>1. Pay!Passes(h, d, 0, 0, 0, 0, 0)
        /\ (p["touched"] = FALSE => d \notin Pay!DaysLost(c, p["closed"]))
    BY <1>7, <1>11 DEF Pay!RecordedOff
  <2>2. mHandler' = [mHandler EXCEPT ![h] = After(p, 0, 0, 0, 0, 0)] /\ UNCHANGED <<calendar, record, leaves>>
    BY <2>1 DEF Pay!Passes, Pay!Goes, After, d
  <2>3. Passed(p, After(p, 0, 0, 0, 0, 0), 0, 0, 0, 0, 0)
    BY <1>1, AfterPassed DEF Computes, c
  <2>4. Fair(0, 0, 0, 0, 0) /\ 0 # 1
    BY DEF Fair
  <2>5. Computes(After(p, 0, 0, 0, 0, 0))
    BY <1>16, <2>1, <2>3, <2>4
  <2> QED
    BY <2>2, <2>5, PayGoes
<1>12. CASE Pay!WorkedDay(h, d)
  <2>1. Pay!Passes(h, d, 0, 1, 1, 0, 0)
        /\ (p["touched"] = FALSE => d \notin Pay!DaysLost(c, p["closed"]))
    BY <1>7, <1>12 DEF Pay!WorkedDay
  <2>2. mHandler' = [mHandler EXCEPT ![h] = After(p, 0, 1, 1, 0, 0)] /\ UNCHANGED <<calendar, record, leaves>>
    BY <2>1 DEF Pay!Passes, Pay!Goes, After, d
  <2>3. Passed(p, After(p, 0, 1, 1, 0, 0), 0, 1, 1, 0, 0)
    BY <1>1, AfterPassed DEF Computes, c
  <2>4. Fair(0, 1, 1, 0, 0) /\ 0 # 1
    BY DEF Fair
  <2>5. Computes(After(p, 0, 1, 1, 0, 0))
    BY <1>16, <2>1, <2>3, <2>4
  <2> QED
    BY <2>2, <2>5, PayGoes
<1>13. CASE Pay!CreditedDay(h, d)
  <2>1. Pay!Passes(h, d, 1, 0, 1, 1, 0)
        /\ (p["touched"] = FALSE => d \in Pay!DaysLost(c, p["closed"]))
    BY <1>7, <1>13 DEF Pay!CreditedDay
  <2>2. mHandler' = [mHandler EXCEPT ![h] = After(p, 1, 0, 1, 1, 0)] /\ UNCHANGED <<calendar, record, leaves>>
    BY <2>1 DEF Pay!Passes, Pay!Goes, After, d
  <2>3. Passed(p, After(p, 1, 0, 1, 1, 0), 1, 0, 1, 1, 0)
    BY <1>1, AfterPassed DEF Computes, c
  <2>4. Fair(1, 0, 1, 1, 0)
    BY DEF Fair
  <2>5. Computes(After(p, 1, 0, 1, 1, 0))
    BY <1>16, <2>1, <2>3, <2>4
  <2> QED
    BY <2>2, <2>5, PayGoes
<1>14. CASE Pay!OverusedDay(h, d)
  <2>1. Pay!Passes(h, d, 1, 0, 1, 0, 1)
        /\ (p["touched"] = FALSE => d \in Pay!DaysLost(c, p["closed"]))
    BY <1>7, <1>14 DEF Pay!OverusedDay
  <2>2. mHandler' = [mHandler EXCEPT ![h] = After(p, 1, 0, 1, 0, 1)] /\ UNCHANGED <<calendar, record, leaves>>
    BY <2>1 DEF Pay!Passes, Pay!Goes, After, d
  <2>3. Passed(p, After(p, 1, 0, 1, 0, 1), 1, 0, 1, 0, 1)
    BY <1>1, AfterPassed DEF Computes, c
  <2>4. Fair(1, 0, 1, 0, 1)
    BY DEF Fair
  <2>5. Computes(After(p, 1, 0, 1, 0, 1))
    BY <1>16, <2>1, <2>3, <2>4
  <2> QED
    BY <2>2, <2>5, PayGoes
<1>15. CASE Pay!MissedDay(h, d)
  <2>1. Pay!Passes(h, d, 1, 0, 1, 0, 0)
        /\ (p["touched"] = FALSE => d \in Pay!DaysLost(c, p["closed"]))
    BY <1>7, <1>15 DEF Pay!MissedDay
  <2>2. mHandler' = [mHandler EXCEPT ![h] = After(p, 1, 0, 1, 0, 0)] /\ UNCHANGED <<calendar, record, leaves>>
    BY <2>1 DEF Pay!Passes, Pay!Goes, After, d
  <2>3. Passed(p, After(p, 1, 0, 1, 0, 0), 1, 0, 1, 0, 0)
    BY <1>1, AfterPassed DEF Computes, c
  <2>4. Fair(1, 0, 1, 0, 0)
    BY DEF Fair
  <2>5. Computes(After(p, 1, 0, 1, 0, 0))
    BY <1>16, <2>1, <2>3, <2>4
  <2> QED
    BY <2>2, <2>5, PayGoes
<1> QED
  BY <1>4, <1>8, <1>9, <1>10, <1>11, <1>12, <1>13, <1>14, <1>15

LEMMA PayOthers ==
  ASSUME PayInv, mHandler' = mHandler, UNCHANGED <<calendar, record, leaves>>
  PROVE  PayInv'
<1>1. \A r : Agrees1(r)' <=> Agrees1(r)
  BY DEF Agrees1, Lost, Pay!DaysLost
<1> QED
  BY <1>1 DEF PayInv, Computes

LEMMA PayIdle == Computes(Pay!Idle) /\ Pay!Idle.pc = "idle" /\ DOMAIN Pay!Idle = LocalNames
BY DEF Computes, Pay!Idle, LocalNames, Passing

LEMMA PayCompute ==
  ASSUME PayAssumption, PayInv, NEW h \in Computers, Pay!Compute(h)
  PROVE  PayInv'
<1> DEFINE p == mHandler[h]
<1>1. Computes(p) /\ DOMAIN p = LocalNames
  BY DEF PayInv, Computes
<1>2. ASSUME NEW c \in PayCycles, Pay!Begin(h, c) PROVE PayInv'
  <2>1. PICK closed : mHandler' = [mHandler EXCEPT ![h] =
          [Pay!Idle EXCEPT !.pc = "credits", !.cycle = c, !.closed = closed]]
    BY <1>2 DEF Pay!Begin
  <2> DEFINE q == [Pay!Idle EXCEPT !.pc = "credits", !.cycle = c, !.closed = closed]
  <2>2. /\ DOMAIN q = LocalNames /\ q["pc"] = "credits" /\ q["cycle"] = c
        /\ q["absences"] = 0 /\ q["worked"] = 0 /\ q["working"] = 0
        /\ q["used"] = 0 /\ q["overused"] = 0 /\ q["touched"] = FALSE
    BY DEF Pay!Idle, LocalNames
  <2> HIDE DEF q
  <2>3. Computes(q)
    BY <2>2 DEF Computes, Passing
  <2>4. mHandler' = [mHandler EXCEPT ![h] = q] /\ UNCHANGED <<calendar, record, leaves>>
    BY <1>2, <2>1 DEF q, Pay!Begin
  <2> QED
    BY <2>3, <2>4, PayGoes
<1>3. ASSUME Pay!ReadCredits(h) PROVE PayInv'
  <2> DEFINE q == [p EXCEPT !.pc = "attendance", !.available = credits - Pay!UsedCredits]
  <2>1. mHandler' = [mHandler EXCEPT ![h] = q] /\ UNCHANGED <<calendar, record, leaves>>
        /\ p["pc"] = "credits"
    BY <1>3 DEF Pay!ReadCredits, Pay!Goes
  <2>2. /\ DOMAIN q = LocalNames /\ q["pc"] = "attendance" /\ q["cycle"] = p["cycle"]
        /\ q["absences"] = p["absences"] /\ q["worked"] = p["worked"]
        /\ q["working"] = p["working"] /\ q["used"] = p["used"] /\ q["overused"] = p["overused"]
        /\ q["touched"] = p["touched"]
    BY <1>1 DEF LocalNames
  <2> HIDE DEF q
  <2>3. Computes(q)
    BY <1>1, <2>1, <2>2 DEF Computes, Passing
  <2> QED
    BY <2>1, <2>3, PayGoes
<1>4. ASSUME Pay!ReadAttendance(h) PROVE PayInv'
  <2> DEFINE c == p["cycle"]
             q == [p EXCEPT !.pc = "days", !.day = Pay!Min(Pay!DaysOf(c)),
                            !.seen = [d \in Pay!DaysOf(c) |-> record[d]]]
  <2>1. mHandler' = [mHandler EXCEPT ![h] = q] /\ UNCHANGED <<calendar, record, leaves>>
        /\ p["pc"] = "attendance"
    BY <1>4 DEF Pay!ReadAttendance, Pay!Goes
  <2>2. c \in PayCycles
    BY <1>1, <2>1 DEF Computes
  <2>3. /\ DOMAIN q = LocalNames /\ q["pc"] = "days" /\ q["cycle"] = c
        /\ q["absences"] = 0 /\ q["worked"] = 0 /\ q["working"] = 0 /\ q["used"] = 0
        /\ q["overused"] = 0 /\ q["day"] = First(c) /\ q["closed"] = p["closed"]
        /\ q["touched"] = p["touched"]
        /\ q["seen"] = [d \in Pay!DaysOf(c) |-> record[d]]
    BY <1>1, <2>1, <2>2, CycleDays DEF Computes, LocalNames
  <2> HIDE DEF q
  <2>4. Counts(q)
    BY <2>2, <2>3, CycleDays DEF Counts
  <2>5. Agrees1(q)
    <3>1. Lost(q) = {}
      BY <2>2, <2>3, LostIsFinite, CycleDays DEF Lost
    <3> QED
      BY <2>3, <3>1, FS_EmptySet DEF Agrees1
  <2>6. Computes(q)
    BY <1>1, <2>2, <2>3, <2>4, <2>5 DEF Computes, Passing
  <2> QED
    BY <2>1, <2>6, PayGoes
<1>5. ASSUME NEW to, NEW minutes, mHandler' = [mHandler EXCEPT ![h] =
               [p EXCEPT !.pc = to, !.minutes = minutes]],
             UNCHANGED <<calendar, record, leaves>>,
             p["pc"] \in {"deductions", "lates"}, to \in {"lates", "write"}
      PROVE  PayInv'
  <2> DEFINE q == [p EXCEPT !.pc = to, !.minutes = minutes]
  <2>1. /\ DOMAIN q = LocalNames /\ q["pc"] = to
        /\ \A x \in LocalNames \ {"pc", "minutes"} : q[x] = p[x]
    BY <1>1 DEF LocalNames
  <2>2. mHandler' = [mHandler EXCEPT ![h] = q]
    BY <1>5
  <2> HIDE DEF q
  <2>3. Counts(q) /\ Lost(q) = Lost(p) /\ (Agrees1(p) => Agrees1(q))
    BY <1>1, <1>5, <2>1 DEF Computes, Counts, Lost, Agrees1, Passing, LocalNames
  <2>4. Computes(q)
    BY <1>1, <1>5, <2>1, <2>3 DEF Computes, Passing, LocalNames
  <2> QED
    BY <1>5, <2>2, <2>4, PayGoes
<1>6. ASSUME Pay!SumIncomplete(h) PROVE PayInv'
  BY <1>5, <1>6 DEF Pay!SumIncomplete, Pay!Goes
<1>7. ASSUME Pay!CountLates(h) PROVE PayInv'
  BY <1>5, <1>7 DEF Pay!CountLates, Pay!Goes
<1>8. ASSUME Pay!Write(h) PROVE PayInv'
  BY <1>8, PayIdle, PayGoes DEF Pay!Write
<1> QED
  BY <1>2, <1>3, <1>4, <1>6, <1>7, <1>8, PayEachDay DEF Pay!Compute

\* HR's entry is seen as a change by the computations in progress.
LEMMA PayEnter ==
  ASSUME PayAssumption, PayInv, NEW d, NEW m, Pay!Enter(d, m)
  PROVE  PayInv'
<1>1. \A e \in Pay!Day : record'[e].status \in Marks
  <2>1. Pay!Status(d, m) \in Marks
    BY DEF Pay!Status, Marks
  <2>2. record' = [record EXCEPT ![d] = [minutes |-> m, status |-> Pay!Status(d, m)]]
    BY DEF Pay!Enter
  <2> QED
    BY <2>1, <2>2 DEF PayInv
<1>2. DOMAIN record' = Pay!Day /\ UNCHANGED <<calendar, leaves>>
  BY DEF Pay!Enter, PayInv
<1>3. mHandler' = [h \in Computers |-> [mHandler[h] EXCEPT !.touched = mHandler[h].pc # "idle"]]
  BY DEF Pay!Enter
<1>4. ASSUME NEW h \in Computers PROVE Computes(mHandler[h])'
  <2> DEFINE p == mHandler[h]
             q == [p EXCEPT !.touched = p.pc # "idle"]
  <2>1. Computes(p) /\ DOMAIN p = LocalNames
    BY DEF PayInv, Computes
  <2>2. /\ DOMAIN q = LocalNames /\ q["pc"] = p["pc"]
        /\ \A x \in LocalNames \ {"touched"} : q[x] = p[x]
        /\ (q["pc"] # "idle" => q["touched"] = TRUE)
    BY <2>1 DEF LocalNames
  <2>6. q["touched"] \in BOOLEAN
    BY <2>1 DEF LocalNames
  <2>3. mHandler'[h] = q
    BY <1>3
  <2> HIDE DEF q
  <2>4. q["pc"] \in Passing => Counts(q)
    BY <2>1, <2>2 DEF Computes, Counts, LocalNames
  <2>5. /\ DOMAIN q = LocalNames
        /\ q["pc"] \in {"idle", "credits", "attendance"} \cup Passing
        /\ q["pc"] # "idle" => q["cycle"] \in PayCycles
        /\ q["pc"] \in Passing => Counts(q) /\ q["touched"] # FALSE
        /\ q["pc"] \in {"credits", "attendance"} => 
             /\ q["absences"] = 0 /\ q["worked"] = 0 /\ q["working"] = 0
             /\ q["used"] = 0 /\ q["overused"] = 0
    BY <2>1, <2>2, <2>4 DEF Computes, Passing, LocalNames
  <2> QED
    BY <2>3, <2>5, <2>6 DEF Computes
<1>5. DOMAIN mHandler' = Computers
  BY <1>3
<1> QED
  BY <1>1, <1>2, <1>4, <1>5 DEF PayInv

LEMMA PayNext == ASSUME PayAssumption, PayInv, Pay!Next PROVE PayInv'
<1>1. \A h \in Computers : Pay!Compute(h) => PayInv'
  BY PayCompute
<1>2. \A d \in Edited, m \in Entered : Pay!Enter(d, m) => PayInv'
  BY PayEnter
<1>3. (\E c \in PayCycles : Pay!Remove(c)) \/ Pay!AddCredits \/ Pay!RemoveCredits => PayInv'
  BY PayOthers DEF Pay!Remove, Pay!AddCredits, Pay!RemoveCredits
<1> QED
  BY <1>1, <1>2, <1>3 DEF Pay!Next

LEMMA PayInit == PayAssumption /\ Pay!Init => PayInv
BY PayIdle DEF PayAssumption, Pay!Init, PayInv

\* What the days of cycle c have come to, when its deductions are added up.
LEMMA PayDays == ASSUME PayAssumption, PayInv PROVE Pay!EachDayOnce
<1> SUFFICES ASSUME NEW h \in Computers,
                    mHandler[h].pc \in {"deductions", "lates", "write"}, mHandler[h].touched = FALSE
             PROVE  /\ mHandler[h].absences
                         = Cardinality(Pay!DaysLost(mHandler[h].cycle, mHandler[h].closed))
                    /\ mHandler[h].worked + mHandler[h].absences <= Length
                    /\ mHandler[h].used + mHandler[h].overused
                         <= mHandler[h].working - mHandler[h].worked
  <2>1. \A h \in Computers :
          mHandler[h].pc \in {"deductions", "lates", "write"} /\ ~mHandler[h].touched
            => mHandler[h].touched = FALSE
    BY DEF PayInv, Computes
  <2> QED
    BY <2>1, CountsPay DEF Pay!EachDayOnce
<1> DEFINE p == mHandler[h]
           c == p["cycle"]
<1>1. /\ c \in PayCycles /\ Counts(p) /\ Agrees1(p)
      /\ p["day"] = Last(c) + 1
  BY DEF PayInv, Computes, Passing, Counts
<1>2. First(c) \in Int /\ Last(c) \in Int /\ Last(c) = First(c) + (Length - 1)
  BY <1>1, CycleDays
<1>3. Lost(p) = Pay!DaysLost(c, p["closed"])
  <2>1. \A d \in First(c)..Last(c) : d < Last(c) + 1
    BY <1>2
  <2>2. Pay!DaysLost(c, p["closed"]) \subseteq First(c)..Last(c)
    BY <1>1, LostIsFinite
  <2> QED
    BY <1>1, <2>1, <2>2 DEF Lost
<1>4. p["worked"] + p["absences"] <= Length
  <2>1. Length \in Nat
    BY DEF PayAssumption
  <2> QED
    BY <1>1, <1>2, <2>1 DEF Counts
<1> QED
  BY <1>1, <1>3, <1>4 DEF Agrees1, Counts

-----------------------------------------------------------------------------
(* The leave credits of an employee.                                       *)

\* The credits of the payrolls P makes, and without those of cycle c.
Taken1(P, c) == {c} \X (1..P[c].credits)
AllTaken(P, S) == UNION {Taken1(P, c) : c \in S}
MadeIn(P) == {c \in PayCycles : P[c] # Pay!NoPayroll}
CreditsTyped(P) == \A c \in MadeIn(P) : P[c].credits \in Nat

LEMMA TakenIsFinite ==
  ASSUME NEW P, NEW S, IsFiniteSet(S), \A c \in S : P[c].credits \in Nat
  PROVE  IsFiniteSet(AllTaken(P, S)) /\ Cardinality(AllTaken(P, S)) \in Nat
<1> DEFINE T == {Taken1(P, c) : c \in S}
<1>1. IsFiniteSet(T)
  <2> DEFINE f == [c \in S |-> Taken1(P, c)]
  <2>1. f \in Surjection(S, T)
    BY DEF Surjection
  <2> QED
    BY <2>1, FS_Surjection
<1>2. \A t \in T : IsFiniteSet(t)
  <2> SUFFICES ASSUME NEW c \in S PROVE IsFiniteSet(Taken1(P, c))
    OBVIOUS
  <2>1. IsFiniteSet({c}) /\ IsFiniteSet(1..P[c].credits)
    <3>1. P[c].credits \in Nat
      OBVIOUS
    <3>2. 1 \in Int /\ P[c].credits \in Int
      BY <3>1
    <3> QED
      BY <3>2, FS_Singleton, FS_Interval
  <2> QED
    BY <2>1, FS_Product DEF Taken1
<1>3. IsFiniteSet(AllTaken(P, S))
  BY <1>1, <1>2, FS_UNION DEF AllTaken
<1> QED
  BY <1>3, FS_CardinalityType

LEMMA TakenByOne ==
  ASSUME NEW P, NEW S, IsFiniteSet(S), \A c \in S : P[c].credits \in Nat, NEW c \in S
  PROVE  Cardinality(AllTaken(P, S)) = Cardinality(AllTaken(P, S \ {c})) + P[c].credits
<1> DEFINE rest == AllTaken(P, S \ {c})
           one == Taken1(P, c)
<1>1. IsFiniteSet(rest) /\ Cardinality(rest) \in Nat
  <2>1. IsFiniteSet(S \ {c})
    BY FS_Difference
  <2> QED
    BY <2>1, TakenIsFinite
<1>2. IsFiniteSet(one) /\ Cardinality(one) = P[c].credits
  <2>1. IsFiniteSet({c}) /\ Cardinality({c}) = 1
    BY FS_Singleton
  <2>2. P[c].credits \in Nat
    OBVIOUS
  <2>5. 1 \in Int /\ P[c].credits \in Int
    BY <2>2
  <2>6. /\ IsFiniteSet(1..P[c].credits)
        /\ Cardinality(1..P[c].credits) = IF 1 > P[c].credits THEN 0 ELSE P[c].credits - 1 + 1
    BY <2>5, FS_Interval
  <2>3. IsFiniteSet(1..P[c].credits) /\ Cardinality(1..P[c].credits) = P[c].credits
    BY <2>2, <2>6
  <2>4. IsFiniteSet(one) /\ Cardinality(one) = 1 * P[c].credits
    BY <2>1, <2>3, FS_Product DEF Taken1
  <2> QED
    BY <2>2, <2>4
<1>3. AllTaken(P, S) = rest \cup one
  BY DEF AllTaken
<1>4. rest \cap one = {}
  BY DEF AllTaken, Taken1
<1>5. Cardinality({}) = 0
  BY FS_EmptySet
<1>6. Cardinality(rest \cup one) = Cardinality(rest) + Cardinality(one) - Cardinality(rest \cap one)
  BY <1>1, <1>2, FS_Union
<1>7. P[c].credits \in Nat
  OBVIOUS
<1>8. Cardinality(AllTaken(P, S)) = Cardinality(rest) + P[c].credits - 0
  BY <1>2, <1>3, <1>4, <1>5, <1>6
<1> QED
  BY <1>1, <1>7, <1>8

\* The credits of the payrolls, with and without that of cycle c.
LEMMA TakenWithout ==
  ASSUME PayAssumption, NEW P, CreditsTyped(P), NEW c \in PayCycles
  PROVE  /\ Cardinality(AllTaken(P, MadeIn(P))) \in Nat
         /\ Cardinality(AllTaken(P, MadeIn(P) \ {c})) \in Nat
         /\ Cardinality(AllTaken(P, MadeIn(P)))
              = Cardinality(AllTaken(P, MadeIn(P) \ {c})) + (IF c \in MadeIn(P) THEN P[c].credits ELSE 0)
<1>1. IsFiniteSet(MadeIn(P)) /\ IsFiniteSet(MadeIn(P) \ {c})
  <2>1. MadeIn(P) \subseteq PayCycles
    BY DEF MadeIn
  <2> QED
    BY <2>1, FS_Subset, FS_Difference DEF PayAssumption
<1>2. \A x \in MadeIn(P) : P[x].credits \in Nat
  BY DEF CreditsTyped
<1>3. /\ Cardinality(AllTaken(P, MadeIn(P))) \in Nat
      /\ Cardinality(AllTaken(P, MadeIn(P) \ {c})) \in Nat
  BY <1>1, <1>2, TakenIsFinite
<1>4. CASE c \in MadeIn(P)
  BY <1>1, <1>2, <1>3, <1>4, TakenByOne
<1>5. CASE c \notin MadeIn(P)
  <2>1. MadeIn(P) \ {c} = MadeIn(P)
    BY <1>5
  <2>2. Cardinality(AllTaken(P, MadeIn(P)))
          = Cardinality(AllTaken(P, MadeIn(P) \ {c})) + 0
    BY <1>3, <2>1
  <2> QED
    BY <1>3, <1>5, <2>2
<1> QED
  BY <1>3, <1>4, <1>5

LEMMA UsedIs == Pay!UsedCredits = removed + Cardinality(AllTaken(made, MadeIn(made)))
BY CountsPay DEF Pay!UsedCredits, Pay!Made, Pay!CreditsOf, AllTaken, MadeIn, Taken1

LEMMA UsedAfter == Pay!UsedCredits' = removed' + Cardinality(AllTaken(made', MadeIn(made')))
BY CountsPay DEF Pay!UsedCredits, Pay!Made, Pay!CreditsOf, AllTaken, MadeIn, Taken1

LEMMA UsedIsNumber ==
  ASSUME PayAssumption, CreditsTyped(made), removed \in Nat
  PROVE  Pay!UsedCredits \in Nat
<1>1. PayCycles = {} => MadeIn(made) = {}
  BY DEF MadeIn
<1>2. IsFiniteSet(MadeIn(made))
  <2>1. MadeIn(made) \subseteq PayCycles
    BY DEF MadeIn
  <2> QED
    BY <2>1, FS_Subset DEF PayAssumption
<1>3. Cardinality(AllTaken(made, MadeIn(made))) \in Nat
  BY <1>2, TakenIsFinite DEF CreditsTyped
<1> QED
  BY <1>3, UsedIs

\* What a computation has taken, of the credits it was offered when used credits are used.
Offered(p, used) ==
  /\ p["available"] \in Int /\ p["available"] + used <= most
  /\ p["used"] = 0 \/ p["used"] <= p["available"] + 1

Alone == \A g, h \in Computers : mHandler[g].pc # "idle" /\ mHandler[h].pc # "idle" => g = h

CreditInv ==
  /\ DOMAIN made = PayCycles /\ CreditsTyped(made)
  /\ removed \in Nat /\ credits \in Nat /\ most \in Nat /\ credits <= most
  /\ overlapped \in BOOLEAN
  /\ overlapped = FALSE =>
       /\ Alone /\ Pay!UsedCredits <= most + 1
       /\ \A h \in Computers :
            mHandler[h].pc \in {"attendance"} \cup Passing => Offered(mHandler[h], Pay!UsedCredits)

LEMMA CreditsInit == PayAssumption /\ Pay!Init => CreditInv
<1> SUFFICES ASSUME PayAssumption, Pay!Init PROVE CreditInv
  OBVIOUS
<1>1. made = [c \in PayCycles |-> Pay!NoPayroll] /\ removed = 0 /\ credits \in 0..1
      /\ most = credits /\ overlapped = FALSE /\ mHandler = [h \in Computers |-> Pay!Idle]
  BY DEF Pay!Init
<1>2. MadeIn(made) = {}
  BY <1>1 DEF MadeIn
<1>3. CreditsTyped(made)
  BY <1>2 DEF CreditsTyped
<1>4. Pay!UsedCredits = 0
  <2>1. AllTaken(made, MadeIn(made)) = {}
    BY <1>2 DEF AllTaken
  <2> QED
    BY <1>1, <2>1, UsedIs, FS_EmptySet
<1>5. \A h \in Computers : mHandler[h].pc = "idle"
  BY <1>1, PayIdle
<1>6. removed \in Nat /\ credits \in Nat /\ most \in Nat /\ credits <= most
      /\ Pay!UsedCredits <= most + 1 /\ DOMAIN made = PayCycles /\ overlapped \in BOOLEAN
  <2>1. removed \in Nat /\ credits \in Nat /\ most \in Nat /\ credits <= most /\ 0 <= most + 1
    BY <1>1
  <2>2. DOMAIN made = PayCycles /\ overlapped \in BOOLEAN
    BY <1>1
  <2> QED
    BY <1>4, <2>1, <2>2
<1>7. Alone /\ \A h \in Computers : mHandler[h].pc \notin {"attendance"} \cup Passing
  BY <1>5 DEF Alone, Passing
<1> QED
  BY <1>3, <1>6, <1>7 DEF CreditInv

\* A step of one computation in progress that leaves the payrolls alone.
LEMMA CreditsGo ==
  ASSUME PayAssumption, PayInv, CreditInv, NEW h \in Computers, mHandler[h].pc # "idle", NEW q,
         q["pc"] \in {"attendance"} \cup Passing => Offered(q, Pay!UsedCredits) \/ overlapped = TRUE,
         mHandler' = [mHandler EXCEPT ![h] = q],
         UNCHANGED <<credits, made, removed, most, overlapped>>
  PROVE  CreditInv'
<1>1. Pay!UsedCredits' = Pay!UsedCredits
  BY DEF Pay!UsedCredits, Pay!Made, Pay!CreditsOf
<1>2. CreditsTyped(made)'
  BY DEF CreditInv, CreditsTyped, MadeIn
<1>3. \A r, used : Offered(r, used)' <=> Offered(r, used)
  BY DEF Offered
<1>4. \A g \in Computers : mHandler'[g] = IF g = h THEN q ELSE mHandler[g]
  BY DEF PayInv
<1>5. overlapped = FALSE => Alone'
  BY <1>4 DEF CreditInv, Alone
<1>6. overlapped = FALSE =>
        \A g \in Computers :
          mHandler'[g].pc \in {"attendance"} \cup Passing => Offered(mHandler'[g], Pay!UsedCredits)
  BY <1>4 DEF CreditInv
<1> QED
  BY <1>1, <1>2, <1>3, <1>5, <1>6 DEF CreditInv

LEMMA CreditsBegin ==
  ASSUME PayAssumption, PayInv, CreditInv, NEW h \in Computers, NEW c \in PayCycles, Pay!Begin(h, c)
  PROVE  CreditInv'
<1>1. PICK closed : mHandler' = [mHandler EXCEPT ![h] =
        [Pay!Idle EXCEPT !.pc = "credits", !.cycle = c, !.closed = closed]]
  BY DEF Pay!Begin
<1>2. /\ UNCHANGED <<credits, made, removed, most>>
      /\ overlapped' = (overlapped \/ Pay!Busy # {})
  BY DEF Pay!Begin
<1>3. CreditsTyped(made)' /\ Pay!UsedCredits' = Pay!UsedCredits
  BY <1>2 DEF CreditInv, CreditsTyped, MadeIn, Pay!UsedCredits, Pay!Made, Pay!CreditsOf
<1>4. overlapped' \in BOOLEAN
  BY <1>2
<1>5. ASSUME overlapped' = FALSE
      PROVE  /\ overlapped = FALSE /\ Alone'
             /\ \A g \in Computers : mHandler'[g].pc \notin {"attendance"} \cup Passing
  <2>1. overlapped = FALSE /\ \A g \in Computers : mHandler[g].pc = "idle"
    <3>1. ~overlapped /\ Pay!Busy = {}
      BY <1>2, <1>5
    <3> QED
      BY <3>1 DEF Pay!Busy, CreditInv
  <2>2. \A g \in Computers : g # h => mHandler'[g].pc = "idle"
    BY <1>1, <2>1 DEF PayInv
  <2>3. mHandler'[h].pc = "credits"
    BY <1>1 DEF PayInv, Pay!Idle
  <2>4. \A g \in Computers : mHandler'[g].pc # "idle" => g = h
    BY <2>2
  <2>5. Alone'
    BY <2>4 DEF Alone
  <2> QED
    BY <2>1, <2>2, <2>3, <2>5 DEF Passing
<1> QED
  BY <1>2, <1>3, <1>4, <1>5 DEF CreditInv

LEMMA CreditsRead ==
  ASSUME PayAssumption, PayInv, CreditInv, NEW h \in Computers, Pay!ReadCredits(h)
  PROVE  CreditInv'
<1> DEFINE p == mHandler[h]
           q == [p EXCEPT !.pc = "attendance", !.available = credits - Pay!UsedCredits]
<1>1. mHandler' = [mHandler EXCEPT ![h] = q] /\ p["pc"] = "credits"
      /\ UNCHANGED <<credits, made, removed, most, overlapped>>
  BY DEF Pay!ReadCredits, Pay!Goes
<1>2. DOMAIN p = LocalNames /\ p["used"] = 0
  BY <1>1 DEF PayInv, Computes
<1>3. q["used"] = 0 /\ q["available"] = credits - Pay!UsedCredits
  BY <1>2 DEF LocalNames
<1>4. Offered(q, Pay!UsedCredits)
  <2>1. Pay!UsedCredits \in Nat /\ credits \in Nat /\ most \in Nat /\ credits <= most
    BY UsedIsNumber DEF CreditInv
  <2> QED
    BY <1>3, <2>1 DEF Offered
<1> HIDE DEF q
<1> QED
  BY <1>1, <1>4, CreditsGo

LEMMA CreditsKept ==
  ASSUME PayAssumption, PayInv, CreditInv, NEW h \in Computers,
         mHandler[h].pc \in {"attendance"} \cup Passing, NEW q,
         q["used"] = mHandler[h].used, q["available"] = mHandler[h].available,
         mHandler' = [mHandler EXCEPT ![h] = q],
         UNCHANGED <<credits, made, removed, most, overlapped>>
  PROVE  CreditInv'
<1>1. overlapped = FALSE => Offered(mHandler[h], Pay!UsedCredits)
  BY DEF CreditInv
<1>2. Offered(mHandler[h], Pay!UsedCredits) => Offered(q, Pay!UsedCredits)
  BY DEF Offered
<1>3. overlapped = TRUE \/ overlapped = FALSE
  BY DEF CreditInv
<1>4. mHandler[h].pc # "idle"
  BY DEF Passing
<1> QED
  BY <1>1, <1>2, <1>3, <1>4, CreditsGo

LEMMA CreditsEachDay ==
  ASSUME PayAssumption, PayInv, CreditInv, NEW h \in Computers, Pay!EachDay(h)
  PROVE  CreditInv'
<1> DEFINE p == mHandler[h]
           d == p.day
<1>1. p["pc"] = "days" /\ DOMAIN p = LocalNames /\ p["cycle"] \in PayCycles /\ p["used"] \in Nat
  BY DEF Pay!EachDay, PayInv, Computes, Passing, Counts
<1>2. p["pc"] \in {"attendance"} \cup Passing /\ p["pc"] # "idle"
  BY <1>1 DEF Passing
<1>3. ASSUME NEW missed, NEW worked, NEW working, NEW overused,
             mHandler' = [mHandler EXCEPT ![h] = After(p, missed, worked, working, 0, overused)],
             UNCHANGED <<credits, made, removed, most, overlapped>>
      PROVE  CreditInv'
  <2> DEFINE q == After(p, missed, worked, working, 0, overused)
  <2>1. Passed(p, q, missed, worked, working, 0, overused)
    BY <1>1, AfterPassed
  <2>2. q["used"] = p["used"] /\ q["available"] = p["available"]
    BY <1>1, <2>1 DEF Passed
  <2> HIDE DEF q
  <2>3. mHandler' = [mHandler EXCEPT ![h] = q]
    BY <1>3 DEF q
  <2> QED
    BY <1>2, <1>3, <2>2, <2>3, CreditsKept
<1>4. ASSUME Pay!CreditedDay(h, d) PROVE CreditInv'
  <2> DEFINE q == After(p, 1, 0, 1, 1, 0)
  <2>1. /\ mHandler' = [mHandler EXCEPT ![h] = q] /\ p["available"] >= p["used"]
        /\ UNCHANGED <<credits, made, removed, most, overlapped>>
    BY <1>4 DEF Pay!CreditedDay, Pay!Passes, Pay!Goes, After
  <2>2. Passed(p, q, 1, 0, 1, 1, 0)
    BY <1>1, AfterPassed
  <2>3. q["used"] = p["used"] + 1 /\ q["available"] = p["available"]
    BY <2>2 DEF Passed
  <2> HIDE DEF q
  <2>4. overlapped = FALSE => Offered(q, Pay!UsedCredits)
    <3>1. overlapped = FALSE => Offered(p, Pay!UsedCredits)
      BY <1>2 DEF CreditInv
    <3>2. Offered(p, Pay!UsedCredits) => Offered(q, Pay!UsedCredits)
      BY <1>1, <2>1, <2>3 DEF Offered
    <3> QED
      BY <3>1, <3>2
  <2>5. overlapped = TRUE \/ overlapped = FALSE
    BY DEF CreditInv
  <2> QED
    BY <1>2, <2>1, <2>4, <2>5, CreditsGo
<1>5. ASSUME \/ Pay!LeaveOnDayOff(h, d) \/ Pay!PaidDayOff(h, d) \/ Pay!UnpaidDayOff(h, d)
             \/ Pay!RecordedOff(h, d) \/ Pay!WorkedDay(h, d)
             \/ Pay!OverusedDay(h, d) \/ Pay!MissedDay(h, d)
      PROVE  CreditInv'
  <2>1. /\ \/ mHandler' = [mHandler EXCEPT ![h] = After(p, 1, 0, 0, 0, 0)]
           \/ mHandler' = [mHandler EXCEPT ![h] = After(p, 0, 0, 0, 0, 0)]
           \/ mHandler' = [mHandler EXCEPT ![h] = After(p, 0, 1, 1, 0, 0)]
           \/ mHandler' = [mHandler EXCEPT ![h] = After(p, 1, 0, 1, 0, 1)]
           \/ mHandler' = [mHandler EXCEPT ![h] = After(p, 1, 0, 1, 0, 0)]
        /\ UNCHANGED <<credits, made, removed, most, overlapped>>
    BY <1>5 DEF Pay!LeaveOnDayOff, Pay!PaidDayOff, Pay!UnpaidDayOff, Pay!RecordedOff,
                Pay!WorkedDay, Pay!OverusedDay, Pay!MissedDay, Pay!Passes, Pay!Goes, After
  <2> QED
    BY <1>3, <2>1
<1> QED
  BY <1>4, <1>5 DEF Pay!EachDay

\* A payroll is made or recalculated with the credits its computation has taken.
LEMMA CreditsWrite ==
  ASSUME PayAssumption, PayInv, CreditInv, NEW h \in Computers, Pay!Write(h)
  PROVE  CreditInv'
<1> DEFINE p == mHandler[h]
           c == p["cycle"]
           new == [credits |-> p.used, absences |-> p.absences, deducted |-> p.minutes]
<1>1. p["pc"] = "write" /\ c \in PayCycles /\ p["used"] \in Nat
  BY DEF Pay!Write, PayInv, Computes, Passing, Counts
<1>2. /\ made' = [made EXCEPT ![c] = new] /\ mHandler' = [mHandler EXCEPT ![h] = Pay!Idle]
      /\ UNCHANGED <<credits, removed, most, overlapped>>
  BY DEF Pay!Write
<1>3. new.credits = p["used"] /\ new # Pay!NoPayroll
  BY <1>1 DEF Pay!NoPayroll
<1> HIDE DEF new
<1>4. /\ made'[c] = new /\ \A x \in PayCycles \ {c} : made'[x] = made[x]
      /\ DOMAIN made' = PayCycles
  BY <1>1, <1>2 DEF CreditInv
<1>5. MadeIn(made') = MadeIn(made) \cup {c} /\ CreditsTyped(made')
  BY <1>1, <1>3, <1>4 DEF MadeIn, CreditsTyped, CreditInv
<1> DEFINE rest == Cardinality(AllTaken(made, MadeIn(made) \ {c}))
<1>6. AllTaken(made', MadeIn(made') \ {c}) = AllTaken(made, MadeIn(made) \ {c})
  BY <1>4, <1>5 DEF AllTaken, Taken1, MadeIn
<1>7. /\ rest \in Nat
      /\ Cardinality(AllTaken(made, MadeIn(made))) \in Nat
      /\ Cardinality(AllTaken(made, MadeIn(made)))
           = rest + (IF c \in MadeIn(made) THEN made[c].credits ELSE 0)
      /\ c \in MadeIn(made) => made[c].credits \in Nat
  BY <1>1, TakenWithout DEF CreditInv, CreditsTyped
<1>8. Cardinality(AllTaken(made', MadeIn(made'))) = rest + p["used"]
  BY <1>1, <1>3, <1>4, <1>5, <1>6, TakenWithout
<1>9. /\ Pay!UsedCredits = removed + Cardinality(AllTaken(made, MadeIn(made)))
      /\ Pay!UsedCredits' = removed + Cardinality(AllTaken(made', MadeIn(made')))
  BY <1>2, UsedIs, UsedAfter
<1>10. ASSUME overlapped = FALSE
       PROVE  /\ Alone' /\ Pay!UsedCredits' <= most + 1
              /\ \A g \in Computers : mHandler'[g].pc = "idle"
  <2>1. Offered(p, Pay!UsedCredits) /\ Pay!UsedCredits <= most + 1 /\ Alone
    BY <1>1, <1>10 DEF CreditInv, Passing
  <2>2. removed \in Nat /\ most \in Nat
    BY DEF CreditInv
  <2>3. Pay!UsedCredits' = removed + (rest + p["used"])
        /\ Pay!UsedCredits >= removed + rest /\ Pay!UsedCredits \in Nat
    BY <1>7, <1>8, <1>9, <2>2
  <2>4. Pay!UsedCredits' <= most + 1
    BY <1>1, <1>7, <2>1, <2>2, <2>3 DEF Offered
  <2>5. \A g \in Computers : mHandler'[g].pc = "idle"
    <3>1. \A g \in Computers : g # h => mHandler[g].pc = "idle"
      BY <1>1, <2>1 DEF Alone
    <3> QED
      BY <1>2, <3>1, PayIdle DEF PayInv
  <2>6. Alone'
    BY <2>5 DEF Alone
  <2> QED
    BY <2>4, <2>5, <2>6
<1> QED
  BY <1>2, <1>4, <1>5, <1>10 DEF CreditInv, Passing

\* The credits of a payroll that is removed still count.
LEMMA CreditsRemove ==
  ASSUME PayAssumption, PayInv, CreditInv, NEW c \in PayCycles, Pay!Remove(c)
  PROVE  CreditInv'
<1>1. /\ made' = [made EXCEPT ![c] = Pay!NoPayroll] /\ removed' = removed + made[c].credits
      /\ UNCHANGED <<credits, mHandler, most, overlapped>> /\ c \in MadeIn(made)
  BY DEF Pay!Remove, Pay!Made, MadeIn
<1>2. /\ made'[c] = Pay!NoPayroll /\ \A x \in PayCycles \ {c} : made'[x] = made[x]
      /\ DOMAIN made' = PayCycles
  BY <1>1 DEF CreditInv
<1>3. MadeIn(made') = MadeIn(made) \ {c} /\ CreditsTyped(made')
  BY <1>2 DEF MadeIn, CreditsTyped, CreditInv
<1> DEFINE rest == Cardinality(AllTaken(made, MadeIn(made) \ {c}))
<1>4. AllTaken(made', MadeIn(made')) = AllTaken(made, MadeIn(made) \ {c})
  BY <1>2, <1>3 DEF AllTaken, Taken1, MadeIn
<1>5. /\ rest \in Nat /\ made[c].credits \in Nat /\ removed \in Nat
      /\ Cardinality(AllTaken(made, MadeIn(made))) = rest + made[c].credits
  BY <1>1, TakenWithout DEF CreditInv, CreditsTyped
<1>6. Pay!UsedCredits' = Pay!UsedCredits /\ removed' \in Nat
  <2>1. /\ Pay!UsedCredits = removed + Cardinality(AllTaken(made, MadeIn(made)))
        /\ Pay!UsedCredits' = removed' + Cardinality(AllTaken(made', MadeIn(made')))
    BY UsedIs, UsedAfter
  <2> QED
    BY <1>1, <1>4, <1>5, <2>1
<1>7. \A p, used : Offered(p, used)' <=> Offered(p, used)
  BY <1>1 DEF Offered
<1>8. Alone' <=> Alone
  BY <1>1 DEF Alone
<1> QED
  BY <1>1, <1>2, <1>3, <1>6, <1>7, <1>8 DEF CreditInv

\* What leaves the payrolls and the computations where they are, for the most credits there have been.
LEMMA CreditsStay ==
  ASSUME PayAssumption, CreditInv, UNCHANGED <<made, removed, overlapped>>,
         DOMAIN mHandler' = Computers,
         \A h \in Computers : /\ mHandler'[h].pc = mHandler[h].pc
                              /\ mHandler'[h]["used"] = mHandler[h]["used"]
                              /\ mHandler'[h]["available"] = mHandler[h]["available"],
         credits' \in Nat, most' \in Nat, credits' <= most', most <= most'
  PROVE  CreditInv'
<1>1. CreditsTyped(made)' /\ Pay!UsedCredits' = Pay!UsedCredits
  BY DEF CreditInv, CreditsTyped, MadeIn, Pay!UsedCredits, Pay!Made, Pay!CreditsOf
<1>2. Pay!UsedCredits \in Nat /\ most \in Nat
  BY UsedIsNumber DEF CreditInv
<1>3. ASSUME NEW h \in Computers, Offered(mHandler[h], Pay!UsedCredits)
      PROVE  /\ mHandler'[h]["available"] \in Int
             /\ mHandler'[h]["available"] + Pay!UsedCredits <= most'
             /\ mHandler'[h]["used"] = 0 \/ mHandler'[h]["used"] <= mHandler'[h]["available"] + 1
  BY <1>2, <1>3 DEF Offered
<1>4. Alone => Alone'
  BY DEF Alone
<1>5. Pay!UsedCredits <= most + 1 => Pay!UsedCredits <= most' + 1
  BY <1>2
<1> QED
  BY <1>1, <1>3, <1>4, <1>5 DEF CreditInv, Offered

LEMMA CreditsNext == ASSUME PayAssumption, PayInv, CreditInv, Pay!Next PROVE CreditInv'
<1>1. ASSUME NEW h \in Computers, Pay!Compute(h) PROVE CreditInv'
  <2> DEFINE p == mHandler[h]
  <2>1. DOMAIN p = LocalNames
    BY DEF PayInv, Computes
  <2>2. ASSUME NEW q, p.pc \in {"attendance"} \cup Passing, q["used"] = p.used,
               q["available"] = p.available, mHandler' = [mHandler EXCEPT ![h] = q],
               UNCHANGED <<credits, made, removed, most, overlapped>>
        PROVE  CreditInv'
    BY <2>2, CreditsKept
  <2>3. ASSUME Pay!ReadAttendance(h) PROVE CreditInv'
    <3> DEFINE days == Pay!DaysOf(p["cycle"])
               q == [p EXCEPT !.pc = "days", !.day = Pay!Min(days), !.seen = [d \in days |-> record[d]]]
    <3>1. p.pc = "attendance" /\ mHandler' = [mHandler EXCEPT ![h] = q]
          /\ UNCHANGED <<credits, made, removed, most, overlapped>>
      BY <2>3 DEF Pay!ReadAttendance, Pay!Goes
    <3>2. q["used"] = p.used /\ q["available"] = p.available
      BY <2>1 DEF LocalNames
    <3> HIDE DEF q
    <3> QED
      BY <2>2, <3>1, <3>2
  <2>4. ASSUME NEW to, NEW minutes,
               mHandler' = [mHandler EXCEPT ![h] = [p EXCEPT !.pc = to, !.minutes = minutes]],
               UNCHANGED <<credits, made, removed, most, overlapped>>, p.pc \in Passing
        PROVE  CreditInv'
    <3> DEFINE q == [p EXCEPT !.pc = to, !.minutes = minutes]
    <3>1. mHandler' = [mHandler EXCEPT ![h] = q]
      BY <2>4
    <3>2. q["used"] = p.used /\ q["available"] = p.available
      BY <2>1 DEF LocalNames
    <3> HIDE DEF q
    <3> QED
      BY <2>2, <2>4, <3>1, <3>2
  <2>5. Pay!SumIncomplete(h) => CreditInv'
    BY <2>4 DEF Pay!SumIncomplete, Pay!Goes, Passing
  <2>6. Pay!CountLates(h) => CreditInv'
    BY <2>4 DEF Pay!CountLates, Pay!Goes, Passing
  <2> QED
    BY <1>1, <2>3, <2>5, <2>6, CreditsBegin, CreditsRead, CreditsEachDay, CreditsWrite DEF Pay!Compute
<1>2. ASSUME NEW d, NEW m, Pay!Enter(d, m) PROVE CreditInv'
  <2>1. /\ mHandler' = [h \in Computers |-> [mHandler[h] EXCEPT !.touched = mHandler[h].pc # "idle"]]
        /\ UNCHANGED <<credits, made, removed, most, overlapped>>
    BY <1>2 DEF Pay!Enter
  <2>2. \A h \in Computers : DOMAIN mHandler[h] = LocalNames
    BY DEF PayInv, Computes
  <2>3. \A h \in Computers : /\ mHandler'[h].pc = mHandler[h].pc
                             /\ mHandler'[h]["used"] = mHandler[h]["used"]
                             /\ mHandler'[h]["available"] = mHandler[h]["available"]
    BY <2>1, <2>2 DEF LocalNames
  <2>4. DOMAIN mHandler' = Computers
    BY <2>1
  <2>5. credits' \in Nat /\ most' \in Nat /\ credits' <= most' /\ most <= most'
    BY <2>1 DEF CreditInv
  <2> QED
    BY <2>1, <2>3, <2>4, <2>5, CreditsStay
<1>3. ASSUME Pay!AddCredits \/ Pay!RemoveCredits PROVE CreditInv'
  <2>1. UNCHANGED <<made, removed, overlapped, mHandler>>
    BY <1>3 DEF Pay!AddCredits, Pay!RemoveCredits
  <2>2. credits' \in Nat /\ most' \in Nat /\ credits' <= most' /\ most <= most'
    BY <1>3 DEF Pay!AddCredits, Pay!RemoveCredits, CreditInv
  <2>3. DOMAIN mHandler' = Computers
    BY <2>1 DEF PayInv
  <2> QED
    BY <2>1, <2>2, <2>3, CreditsStay
<1> QED
  BY <1>1, <1>2, <1>3, CreditsRemove DEF Pay!Next

(* However the payrolls of an employee are computed, recalculated and      *)
(* removed while HR enters attendance and credits                          *)
(* (preparePayrollReportOfUser, payroll.processor.service.ts): each day of *)
(* a cycle comes to one end, and the payrolls take no more leave credits   *)
(* together than there have been and one, but for the causes PayOfCycle    *)
(* names. For any cycles, calendar, attendance, leaves and computations.   *)
THEOREM DaysAndCreditsCount ==
  PayAssumption => (Pay!Spec => [](Pay!EachDayOnce /\ Pay!CreditsAreThere))
<1> SUFFICES ASSUME PayAssumption PROVE Pay!Spec => [](Pay!EachDayOnce /\ Pay!CreditsAreThere)
  OBVIOUS
<1>1. Pay!Init => PayInv /\ CreditInv
  BY PayInit, CreditsInit
<1>2. PayInv /\ CreditInv /\ [Pay!Next]_(Pay!vars) => PayInv' /\ CreditInv'
  <2> SUFFICES ASSUME PayInv, CreditInv, [Pay!Next]_(Pay!vars) PROVE PayInv' /\ CreditInv'
    OBVIOUS
  <2>1. CASE Pay!Next
    BY <2>1, PayNext, CreditsNext
  <2>2. CASE UNCHANGED Pay!vars
    <3>1. UNCHANGED <<calendar, record, leaves, credits, made, removed, mHandler, most, overlapped>>
      BY <2>2 DEF Pay!vars
    <3>2. credits' \in Nat /\ most' \in Nat /\ credits' <= most' /\ most <= most'
      BY <3>1 DEF CreditInv
    <3>3. DOMAIN mHandler' = Computers
      BY <3>1 DEF PayInv
    <3> QED
      BY <3>1, <3>2, <3>3, PayOthers, CreditsStay
  <2> QED
    BY <2>1, <2>2
<1>3. PayInv /\ CreditInv => Pay!EachDayOnce /\ Pay!CreditsAreThere
  <2>1. CreditInv => Pay!CreditsAreThere
    BY DEF CreditInv, Pay!CreditsAreThere
  <2> QED
    BY <2>1, PayDays
<1> QED
  BY <1>1, <1>2, <1>3, PTL DEF Pay!Spec

(* No day is paid twice, at another salary than the one in force, or with  *)
(* credits there are not: DayIsPaidOnce, SalaryIsInForce and               *)
(* DaysAndCreditsCount, of what is composed in PayDates.                   *)
THEOREM EachDayIsPaidFor ==
  DatesAssumption /\ SalaryAssumption /\ PayAssumption => (PayDatesSpec => []PaidByDay)
<1> SUFFICES ASSUME DatesAssumption, SalaryAssumption, PayAssumption
             PROVE  PayDatesSpec => []PaidByDay
  OBVIOUS
<1>1. PayDatesInit => Dates!Init /\ Salaries!Init /\ Pay!Init
  BY DEF PayDatesInit
<1>2. [PayDatesNext]_<<which, vars, dateVars, salaryVars, payVars, reportVars>>
        => [Dates!Next]_(Dates!vars)
  BY DEF PayDatesNext, dateVars, Dates!vars
<1>3. [PayDatesNext]_<<which, vars, dateVars, salaryVars, payVars, reportVars>>
        => [Salaries!Next]_(Salaries!vars)
  BY DEF PayDatesNext, salaryVars, Salaries!vars
<1>4. [PayDatesNext]_<<which, vars, dateVars, salaryVars, payVars, reportVars>>
        => [Pay!Next]_(Pay!vars)
  BY DEF PayDatesNext, payVars, Pay!vars
<1>5. Dates!DayPaidOnce /\ Salaries!SalaryInForce /\ Pay!EachDayOnce /\ Pay!CreditsAreThere
        => PaidByDay
  BY DEF PaidByDay
<1> QED
  BY <1>1, <1>2, <1>3, <1>4, <1>5, DayIsPaidOnce, SalaryIsInForce, DaysAndCreditsCount, PTL
     DEF PayDatesSpec, Dates!Spec, Salaries!Spec, Pay!Spec
=============================================================================
