-------------------------- MODULE XeroInvoiceProofs --------------------------
(***************************************************************************)
(* The synchronisation of an invoice with Xero, for any number of jobs,    *)
(* handlers of events, actions of users and failures: a project is resumed *)
(* only for a payment, and a payment arrives unless one of the reasons the *)
(* code knows, or does not know, prevents it.                              *)
(*                                                                         *)
(* Then the tasks of a column: requests that move them leave the others in *)
(* their order, and a task comes where it was asked to be.                 *)
(*                                                                         *)
(* Then the pages of a listing: who turns them all sees every row.         *)
(*                                                                         *)
(* At the end, the items of an invoice or a quotation and their lines in   *)
(* Xero: they come to match, and so does the total.                        *)
(***************************************************************************)
EXTENDS Records, SequenceTheorems, FiniteSetTheorems, WellFoundedInduction, TLAPS

(* A handler has seen a payment only if there was one.                     *)
SeenWasPaid ==
  /\ xero = "PAID" => everPaid
  /\ \A k \in Hooks :
       /\ hook[k].seen = "PAID" => everPaid
       /\ hook[k].step = "resume" => hook[k].seen = "PAID"

(* A handler that is to settle the fees has read that they are open.       *)
ReadFees ==
  \A k \in Hooks :
    hook[k].step \in {"write", "resume", "fees"} /\ fees = "open" => hook[k].open = TRUE

\* k has seen the payment and has still to write the invoice.
Writes(k) == hook[k].seen = "PAID" /\ hook[k].step \in {"read", "write"}

\* k has written the payment and has still to settle the fees.
Settles(k) ==
  hook[k].seen = "PAID" /\ hook[k].step \in {"resume", "fees"} /\ hook[k].open = TRUE

(* What carries a payment in Xero on its way here.                         *)
OnItsWay ==
  \/ events > 0
  \/ \E k \in Hooks : hook[k].step = "ask" \/ Writes(k)
  \/ status = "paid" /\ (fees # "open" \/ \E k \in Hooks : Settles(k))

WillArrive == xero = "PAID" /\ ~missed => OnItsWay

IInv == TypeOK /\ ResumedWasPaid /\ SeenWasPaid /\ ReadFees /\ WillArrive

-----------------------------------------------------------------------------
(* The two translations of a status yield one of the other side, and what  *)
(* Xero has as paid is paid here, and nothing else.                        *)
LEMMA Translations ==
  /\ \A s : matchLocalInvoiceStatusToXero(s) \in XeroStatus \ {"PAID"}
  /\ \A s : matchXeroInvoiceStatusToLocalInvoiceStatus(s) \in Status
  /\ \A s : matchXeroInvoiceStatusToLocalInvoiceStatus(s) = "paid" <=> s = "PAID"
BY DEF matchLocalInvoiceStatusToXero, matchXeroInvoiceStatusToLocalInvoiceStatus, Status, XeroStatus

(* Xero takes no change of an invoice that is paid, and none to paid.      *)
LEMMA PaidIsFinal ==
  \A from, to : Accepts(from, to) => from # "PAID" /\ to # "PAID"
BY DEF Accepts

LEMMA InitHolds == Init => IInv
<1> SUFFICES ASSUME Init PROVE IInv
  OBVIOUS
<1>1. NoJob \in Job /\ NoHook \in Hook
  BY DEF NoJob, Job, NoHook, Hook, Message
<1>2. TypeOK
  <2>1. job \in [Workers -> Job] /\ hook \in [Hooks -> Hook]
    BY <1>1 DEF Init
  <2>2. queue \in Seq(Message)
    BY DEF Init, Message
  <2>3. actions \in Nat /\ failures \in Nat
    BY DEF Init
  <2> QED
    BY <2>1, <2>2, <2>3 DEF Init, TypeOK, Status
<1>3. ResumedWasPaid /\ SeenWasPaid /\ ReadFees /\ WillArrive
  BY DEF Init, ResumedWasPaid, SeenWasPaid, ReadFees, WillArrive, NoHook
<1> QED
  BY <1>2, <1>3 DEF IInv

-----------------------------------------------------------------------------
(* Each step keeps the invariant: first those that leave the handlers.     *)

(* Where the handlers, the fees and the payment in Xero stay as they are,  *)
(* only WillArrive remains to be shown.                                    *)
LEMMA HooksStay ==
  ASSUME IInv, UNCHANGED <<hook, fees, everPaid, resumed>>, xero' = "PAID" => xero = "PAID"
  PROVE  ResumedWasPaid' /\ SeenWasPaid' /\ ReadFees'
BY DEF IInv, ResumedWasPaid, SeenWasPaid, ReadFees

LEMMA SendKeeps == ASSUME IInv, Send PROVE IInv'
<1>1. TypeOK'
  <2>1. queue' \in Seq(Message)
    BY DEF IInv, TypeOK, Send, Message
  <2> QED
    BY <2>1 DEF IInv, TypeOK, Send, Act, Status
<1>2. ResumedWasPaid' /\ SeenWasPaid' /\ ReadFees'
  BY HooksStay DEF Send
<1>3. WillArrive'
  BY DEF IInv, Send, WillArrive, OnItsWay, Writes, Settles
<1> QED
  BY <1>1, <1>2, <1>3 DEF IInv

LEMMA SetStatusKeeps == ASSUME IInv, NEW to \in {"paid", "canceled"}, SetStatus(to) PROVE IInv'
<1>1. TypeOK'
  <2>1. queue' \in Seq(Message) /\ status' \in Status
    BY DEF IInv, TypeOK, SetStatus, Message, Status
  <2> QED
    BY <2>1 DEF IInv, TypeOK, SetStatus, Act
<1>2. ResumedWasPaid' /\ SeenWasPaid' /\ ReadFees'
  BY HooksStay DEF SetStatus
<1>3. WillArrive'
  BY DEF SetStatus, WillArrive
<1> QED
  BY <1>1, <1>2, <1>3 DEF IInv

LEMMA HoldProjectKeeps == ASSUME IInv, HoldProject PROVE IInv'
<1>1. TypeOK'
  BY DEF IInv, TypeOK, HoldProject, Act
<1>2. ResumedWasPaid' /\ SeenWasPaid' /\ ReadFees'
  BY HooksStay DEF HoldProject
<1>3. WillArrive'
  BY DEF IInv, HoldProject, WillArrive, OnItsWay, Writes, Settles
<1> QED
  BY <1>1, <1>2, <1>3 DEF IInv

LEMMA ChangedInXeroKeeps == ASSUME IInv, NEW to \in XeroStatus, ChangedInXero(to) PROVE IInv'
<1>1. TypeOK'
  <2>1. everPaid' \in BOOLEAN /\ missed' \in BOOLEAN
    BY Zenon DEF IInv, TypeOK, ChangedInXero
  <2>2. actions' \in Nat /\ events' \in Nat /\ xero' \in XeroStatus
    BY DEF IInv, TypeOK, ChangedInXero, Act
  <2> QED
    BY <2>1, <2>2 DEF IInv, TypeOK, ChangedInXero
<1>2. ResumedWasPaid' /\ SeenWasPaid' /\ ReadFees'
  BY DEF IInv, ChangedInXero, ResumedWasPaid, SeenWasPaid, ReadFees
<1>3. WillArrive'
  BY DEF IInv, TypeOK, ChangedInXero, WillArrive, OnItsWay
<1> QED
  BY <1>1, <1>2, <1>3 DEF IInv

LEMMA RedeliverKeeps == ASSUME IInv, Redeliver PROVE IInv'
<1>1. TypeOK'
  BY DEF IInv, TypeOK, Redeliver
<1>2. ResumedWasPaid' /\ SeenWasPaid' /\ ReadFees'
  BY HooksStay DEF Redeliver
<1>3. WillArrive'
  BY DEF IInv, TypeOK, Redeliver, WillArrive, OnItsWay
<1> QED
  BY <1>1, <1>2, <1>3 DEF IInv

LEMMA ForgetKeeps == ASSUME IInv, Forget PROVE IInv'
<1>1. TypeOK'
  BY DEF IInv, TypeOK, Forget
<1>2. ResumedWasPaid' /\ SeenWasPaid' /\ ReadFees'
  BY HooksStay DEF Forget
<1>3. WillArrive'
  BY DEF IInv, Forget, WillArrive, OnItsWay, Writes, Settles
<1> QED
  BY <1>1, <1>2, <1>3 DEF IInv

(* A job changes the invoice in Xero at most, and never to or from paid.   *)
LEMMA JobKeeps ==
  ASSUME IInv, NEW w \in Workers, Take(w) \/ Push(w) \/ Store(w) \/ JobFails(w) PROVE IInv'
<1>1. NoJob \in Job
  BY DEF NoJob, Job, Message
<1>2. TypeOK'
  <2>1. CASE Take(w)
    <3> DEFINE m == Head(queue)
               to == matchLocalInvoiceStatusToXero(IF ref /\ m # "sync" THEN m ELSE status)
               new == ~ref
    <3>1. m \in Message /\ queue' \in Seq(Message)
      BY <2>1 DEF IInv, TypeOK, Take
    <3>2. to \in XeroStatus
      BY Translations
    <3>3. new \in BOOLEAN
      OBVIOUS
    <3>4. job' = [job EXCEPT ![w] = [m |-> m, to |-> to, new |-> new]]
      BY <2>1 DEF Take
    <3> HIDE DEF m, to, new
    <3>5. [m |-> m, to |-> to, new |-> new] \in Job
      BY <3>1, <3>2, <3>3 DEF Job
    <3>6. job' \in [Workers -> Job]
      BY <3>4, <3>5 DEF IInv, TypeOK
    <3> QED
      BY <2>1, <3>1, <3>6 DEF IInv, TypeOK, Take
  <2>2. CASE Push(w)
    <3>1. [job[w] EXCEPT !.to = "none"] \in Job /\ job[w].to \in XeroStatus \cup {"none"}
      BY DEF IInv, TypeOK, Job
    <3>2. job' \in [Workers -> Job]
      BY <2>2, <1>1, <3>1 DEF IInv, TypeOK, Push
    <3>3. xero' \in XeroStatus \cup {"none"} /\ events' \in Nat
      BY <2>2, <3>1 DEF IInv, TypeOK, Push
    <3>4. recent' \in BOOLEAN
      BY <2>2 DEF IInv, TypeOK, Push
    <3> QED
      BY <2>2, <3>2, <3>3, <3>4 DEF IInv, TypeOK, Push
  <2>3. CASE Store(w)
    BY <2>3, <1>1 DEF IInv, TypeOK, Store
  <2>4. CASE JobFails(w)
    BY <2>4, <1>1 DEF IInv, TypeOK, JobFails
  <2> QED
    BY <2>1, <2>2, <2>3, <2>4
<1>3. UNCHANGED <<hook, fees, everPaid, resumed, status, missed>>
  BY DEF Take, Push, Store, JobFails
<1>4. (xero' = "PAID" => xero = "PAID") /\ events' >= events
  BY PaidIsFinal DEF IInv, TypeOK, Take, Push, Store, JobFails
<1>5. ResumedWasPaid' /\ SeenWasPaid' /\ ReadFees'
  BY <1>3, <1>4, HooksStay
<1>6. WillArrive'
  <2> SUFFICES ASSUME xero' = "PAID", ~missed' PROVE OnItsWay'
    BY DEF WillArrive
  <2>1. OnItsWay
    BY <1>3, <1>4 DEF IInv, WillArrive
  <2>2. CASE events > 0
    BY <2>2, <1>2, <1>4 DEF IInv, TypeOK, OnItsWay
  <2>3. CASE ~(events > 0)
    BY <2>1, <2>3, <1>3 DEF OnItsWay, Writes, Settles
  <2> QED
    BY <2>2, <2>3
<1> QED
  BY <1>2, <1>5, <1>6 DEF IInv

-----------------------------------------------------------------------------
(* The handlers of events.                                                 *)

(* The handler that takes a step keeps its type, and the others keep all.  *)
LEMMA HookTypes ==
  ASSUME IInv, NEW k \in Hooks
  PROVE  /\ NoHook \in Hook /\ hook[k] \in Hook
         /\ [NoHook EXCEPT !.step = "ask"] \in Hook
         /\ \A s \in {"ask", "read", "write", "resume", "fees"} : [hook[k] EXCEPT !.step = s] \in Hook
         /\ xero # "none" => [hook[k] EXCEPT !.step = "read", !.seen = xero] \in Hook
         /\ \A b \in BOOLEAN :
              [hook[k] EXCEPT !.step = "write", !.before = status, !.open = b] \in Hook
BY DEF IInv, TypeOK, Hook, NoHook

LEMMA ReceiveKeeps == ASSUME IInv, NEW k \in Hooks, Receive(k) PROVE IInv'
<1>1. TypeOK'
  <2>1. hook' \in [Hooks -> Hook]
    BY HookTypes DEF IInv, TypeOK, Receive
  <2>2. events' \in Nat
    BY DEF IInv, TypeOK, Receive
  <2>3. missed' \in BOOLEAN
    BY DEF IInv, TypeOK, Receive
  <2> QED
    BY <2>1, <2>2, <2>3 DEF IInv, TypeOK, Receive
<1>2. ResumedWasPaid' /\ SeenWasPaid' /\ ReadFees'
  <2>1. \A g \in Hooks :
          hook'[g] = hook[g] \/ (hook'[g].step = "ask" /\ hook'[g].seen = "none")
    BY DEF IInv, TypeOK, Receive, NoHook
  <2> QED
    BY <2>1 DEF IInv, Receive, ResumedWasPaid, SeenWasPaid, ReadFees
<1>3. WillArrive'
  <2>1. CASE recent
    BY <2>1 DEF Receive, WillArrive
  <2>2. CASE ~recent
    <3>1. hook'[k].step = "ask"
      BY <2>2 DEF IInv, TypeOK, Receive, NoHook
    <3> QED
      BY <3>1 DEF WillArrive, OnItsWay
  <2> QED
    BY <2>1, <2>2
<1> QED
  BY <1>1, <1>2, <1>3 DEF IInv

(* Xero's answer is its present state: a payment is seen if there was one. *)
LEMMA AskKeeps == ASSUME IInv, NEW k \in Hooks, Ask(k) PROVE IInv'
<1>1. CASE xero \in {"DRAFT", "DELETED"}
  <2>1. TypeOK'
    BY <1>1, HookTypes DEF IInv, TypeOK, Ask
  <2>2. ResumedWasPaid' /\ SeenWasPaid' /\ ReadFees'
    BY <1>1, HookTypes DEF IInv, TypeOK, Ask, ResumedWasPaid, SeenWasPaid, ReadFees, NoHook
  <2>3. WillArrive'
    BY <1>1 DEF Ask, WillArrive
  <2> QED
    BY <2>1, <2>2, <2>3 DEF IInv
<1>2. CASE xero \notin {"DRAFT", "DELETED"}
  <2>1. /\ hook' = [hook EXCEPT ![k] = hook'[k]]
        /\ hook'[k].step = "read" /\ hook'[k].seen = xero /\ hook'[k] \in Hook
    BY <1>2 DEF IInv, TypeOK, Ask, Hook
  <2>2. TypeOK'
    BY <2>1 DEF IInv, TypeOK, Ask
  <2>3. ResumedWasPaid' /\ SeenWasPaid' /\ ReadFees'
    BY <2>1 DEF IInv, TypeOK, Ask, ResumedWasPaid, SeenWasPaid, ReadFees
  <2>4. WillArrive'
    BY <2>1 DEF Ask, WillArrive, OnItsWay, Writes
  <2> QED
    BY <2>2, <2>3, <2>4 DEF IInv
<1> QED
  BY <1>1, <1>2

LEMMA ReadKeeps == ASSUME IInv, NEW k \in Hooks, Read(k) PROVE IInv'
<1> DEFINE b == fees = "open"
<1>1. b \in BOOLEAN
  OBVIOUS
<1>2. hook' = [hook EXCEPT ![k] = [hook[k] EXCEPT !.step = "write", !.before = status, !.open = b]]
  BY DEF Read
<1>3. fees = "open" => b = TRUE
  OBVIOUS
<1> HIDE DEF b
<1>4. /\ hook'[k] \in Hook /\ hook'[k].step = "write" /\ hook'[k].seen = hook[k].seen
      /\ hook'[k].open = b /\ \A g \in Hooks \ {k} : hook'[g] = hook[g]
  BY <1>1, <1>2 DEF IInv, TypeOK, Hook
<1>5. TypeOK'
  BY <1>2, <1>4 DEF IInv, TypeOK, Read
<1>6. ResumedWasPaid' /\ SeenWasPaid' /\ ReadFees'
  BY <1>3, <1>4 DEF IInv, Read, ResumedWasPaid, SeenWasPaid, ReadFees
<1>7. WillArrive'
  <2>1. hook[k].step = "read"
    BY DEF Read
  <2> QED
    BY <2>1, <1>4 DEF IInv, Read, WillArrive, OnItsWay, Writes, Settles
<1> QED
  BY <1>5, <1>6, <1>7 DEF IInv

(* An older answer than the payment makes it one that may be missed.       *)
LEMMA WriteInvoiceKeeps == ASSUME IInv, NEW k \in Hooks, WriteInvoice(k) PROVE IInv'
<1>1. PICK s \in {"resume", "fees"} :
        /\ hook' = [hook EXCEPT ![k] = [hook[k] EXCEPT !.step = s]]
        /\ s = "resume" => After(k) = "paid"
  BY DEF WriteInvoice
<1>2. /\ hook'[k] \in Hook /\ hook'[k].step = s /\ hook'[k].seen = hook[k].seen
      /\ hook'[k].open = hook[k].open /\ \A g \in Hooks \ {k} : hook'[g] = hook[g]
  <2>1. hook'[k] = [hook[k] EXCEPT !.step = s] /\ \A g \in Hooks \ {k} : hook'[g] = hook[g]
    BY <1>1 DEF IInv, TypeOK
  <2> QED
    BY <2>1 DEF IInv, TypeOK, Hook
<1>3. After(k) = "paid" <=> hook[k].seen = "PAID"
  BY Translations DEF After
<1>4. TypeOK'
  <2>1. status' \in Status /\ hook' \in [Hooks -> Hook]
    BY <1>1, <1>2, Translations DEF IInv, TypeOK, WriteInvoice, After
  <2>2. missed' \in BOOLEAN
    BY Zenon DEF IInv, TypeOK, WriteInvoice
  <2> QED
    BY <2>1, <2>2 DEF IInv, TypeOK, WriteInvoice
<1>5. ResumedWasPaid' /\ SeenWasPaid' /\ ReadFees'
  BY <1>1, <1>2, <1>3 DEF IInv, WriteInvoice, ResumedWasPaid, SeenWasPaid, ReadFees
<1>6. WillArrive'
  <2> SUFFICES ASSUME xero' = "PAID", ~missed' PROVE OnItsWay'
    BY DEF WillArrive
  <2>1. hook[k].seen = "PAID" /\ hook[k].step = "write" /\ status' = "paid"
    BY <1>3 DEF WriteInvoice
  <2>2. fees' = "open" => Settles(k)'
    BY <2>1, <1>2 DEF IInv, ReadFees, Settles, WriteInvoice
  <2> QED
    BY <2>1, <2>2 DEF OnItsWay
<1> QED
  BY <1>4, <1>5, <1>6 DEF IInv

LEMMA ResumeKeeps == ASSUME IInv, NEW k \in Hooks, Resume(k) PROVE IInv'
<1>1. /\ hook' = [hook EXCEPT ![k] = [hook[k] EXCEPT !.step = "fees"]]
      /\ hook[k].step = "resume"
  BY DEF Resume
<1>2. /\ hook'[k] \in Hook /\ hook'[k].step = "fees" /\ hook'[k].seen = hook[k].seen
      /\ hook'[k].open = hook[k].open /\ \A g \in Hooks \ {k} : hook'[g] = hook[g]
  <2>1. hook'[k] = [hook[k] EXCEPT !.step = "fees"] /\ \A g \in Hooks \ {k} : hook'[g] = hook[g]
    BY <1>1 DEF IInv, TypeOK
  <2> QED
    BY <2>1 DEF IInv, TypeOK, Hook
<1>3. TypeOK'
  BY <1>1, <1>2 DEF IInv, TypeOK, Resume
<1>4. ResumedWasPaid' /\ SeenWasPaid' /\ ReadFees'
  BY <1>1, <1>2 DEF IInv, Resume, ResumedWasPaid, SeenWasPaid, ReadFees
<1>5. WillArrive'
  BY <1>1, <1>2 DEF IInv, Resume, WillArrive, OnItsWay, Writes, Settles
<1> QED
  BY <1>3, <1>4, <1>5 DEF IInv

LEMMA SettleFeesKeeps == ASSUME IInv, NEW k \in Hooks, SettleFees(k) PROVE IInv'
<1>1. /\ hook' = [hook EXCEPT ![k] = NoHook] /\ hook[k].step = "fees"
      /\ hook'[k] = NoHook /\ \A g \in Hooks \ {k} : hook'[g] = hook[g]
  BY DEF IInv, TypeOK, SettleFees
<1>2. /\ fees' \in {"none", "open", "paid", "canceled"}
      /\ fees' = "open" => fees = "open"
      /\ Settles(k) => fees' # "open"
  BY Translations DEF IInv, TypeOK, SettleFees, Settles, After
<1>3. TypeOK'
  <2>1. hook' \in [Hooks -> Hook]
    BY <1>1, HookTypes DEF IInv, TypeOK
  <2> QED
    BY <2>1, <1>2 DEF IInv, TypeOK, SettleFees
<1>4. ResumedWasPaid' /\ SeenWasPaid' /\ ReadFees'
  BY <1>1, <1>2 DEF IInv, SettleFees, ResumedWasPaid, SeenWasPaid, ReadFees, NoHook
<1>5. WillArrive'
  BY <1>1, <1>2 DEF IInv, SettleFees, WillArrive, OnItsWay, Writes, Settles
<1> QED
  BY <1>3, <1>4, <1>5 DEF IInv

LEMMA HookFailsKeeps == ASSUME IInv, NEW k \in Hooks, HookFails(k) PROVE IInv'
<1>1. TypeOK'
  <2>1. hook' \in [Hooks -> Hook]
    BY HookTypes DEF IInv, TypeOK, HookFails
  <2>2. failures' \in Nat
    BY DEF IInv, TypeOK, HookFails
  <2> QED
    BY <2>1, <2>2 DEF IInv, TypeOK, HookFails
<1>2. ResumedWasPaid' /\ SeenWasPaid' /\ ReadFees'
  BY DEF IInv, TypeOK, HookFails, ResumedWasPaid, SeenWasPaid, ReadFees, NoHook
<1>3. WillArrive'
  BY DEF HookFails, WillArrive
<1> QED
  BY <1>1, <1>2, <1>3 DEF IInv

-----------------------------------------------------------------------------
LEMMA StepKeeps == IInv /\ [Next]_vars => IInv'
<1> SUFFICES ASSUME IInv, [Next]_vars PROVE IInv'
  OBVIOUS
<1>1. ASSUME NEW w \in Workers, Take(w) \/ Push(w) \/ Store(w) \/ JobFails(w) PROVE IInv'
  BY <1>1, JobKeeps
<1>2. ASSUME NEW k \in Hooks,
             \/ Receive(k) \/ Ask(k) \/ Read(k) \/ WriteInvoice(k) \/ Resume(k) \/ SettleFees(k)
             \/ HookFails(k)
      PROVE  IInv'
  BY <1>2, ReceiveKeeps, AskKeeps, ReadKeeps, WriteInvoiceKeeps, ResumeKeeps, SettleFeesKeeps,
     HookFailsKeeps
<1>3. CASE UNCHANGED vars
  BY <1>3 DEF vars, IInv, TypeOK, ResumedWasPaid, SeenWasPaid, ReadFees, WillArrive, OnItsWay,
              Writes, Settles
<1> QED
  BY <1>1, <1>2, <1>3, SendKeeps, HoldProjectKeeps, RedeliverKeeps, ForgetKeeps, SetStatusKeeps,
     ChangedInXeroKeeps DEF Next

(* The inductive invariant of the synchronisation.                         *)
LEMMA Invariant == Spec => []IInv
<1> QED
  BY InitHolds, StepKeeps, PTL DEF Spec

(* Type correctness of the synchronisation (xero-accounting.service.ts).   *)
THEOREM TypeCorrect == Spec => []TypeOK
<1>1. IInv => TypeOK
  BY DEF IInv
<1> QED
  BY <1>1, Invariant, PTL

(* The webhook resumes a project only for an invoice that was paid in      *)
(* Xero, for any number of events handled at once.                         *)
THEOREM ResumedOnlyIfPaid == Spec => []ResumedWasPaid
<1>1. IInv => ResumedWasPaid
  BY DEF IInv
<1> QED
  BY <1>1, Invariant, PTL

(* A payment in Xero has arrived when nothing is under way, unless it was  *)
(* ignored, failed, or was overtaken: handleWebhook and                    *)
(* prepareInvoiceFromXeroInvoice.                                          *)
THEOREM PaymentsArrive == Spec => []PaymentArrives
<1>1. IInv => PaymentArrives
  BY DEF IInv, TypeOK, WillArrive, OnItsWay, PaymentArrives, Quiet, Writes, Settles
<1> QED
  BY <1>1, Invariant, PTL

-----------------------------------------------------------------------------
(* The order of the tasks of a column.                                     *)

\* A request knows two orders, and they are numbers.
IsMove(m) ==
  /\ {"order", "target"} \subseteq DOMAIN m
  /\ m["order"] \in Int /\ m["target"] \in Int

OrderInv ==
  /\ rows \subseteq Tasks /\ order \in [Tasks -> Int]
  /\ DOMAIN mover = Movers /\ \A h \in Movers : IsMove(mover[h])

LEMMA IdleMove == IsMove(Task!Idle) /\ Task!Idle.pc = "idle"
BY DEF IsMove, Task!Idle

LEMMA TasksInit == TaskAssumption /\ Task!Init => OrderInv
BY IdleMove DEF TaskAssumption, Task!Init, OrderInv

(* The orders a shift leaves are numbers, and it keeps their order.        *)
LEMMA ShiftKeepsOrder ==
  ASSUME TaskAssumption, OrderInv, NEW h \in Movers, NEW u \in Tasks
  PROVE  /\ Task!Shifted(mover[h], u) \in Int
         /\ \A v \in Tasks : order[u] < order[v] <=>
              Task!Shifted(mover[h], u) < Task!Shifted(mover[h], v)
<1>1. mover[h].target \in Int /\ mover[h].order \in Int /\ order[u] \in Int
      /\ \A v \in Tasks : order[v] \in Int
  BY DEF OrderInv, IsMove
<1>2. CASE mover[h].target > mover[h].order
  BY <1>1, <1>2 DEF Task!Shifted
<1>3. CASE ~(mover[h].target > mover[h].order)
  BY <1>1, <1>3 DEF Task!Shifted
<1> QED
  BY <1>2, <1>3

\* The requests of which the table does not know go on, or are no longer alone.
LEMMA WritesMoves ==
  ASSUME OrderInv, NEW h \in Movers, NEW new, IsMove(new), Task!Writes(h, new)
  PROVE  DOMAIN mover' = Movers /\ \A g \in Movers : IsMove(mover'[g])
<1>1. mover' = [g \in Movers |->
                  IF g = h THEN new
                  ELSE IF mover[g].pc = "idle" THEN Task!Idle
                  ELSE [mover[g] EXCEPT !.alone = FALSE]]
  BY DEF Task!Writes
<1>2. \A g \in Movers : IsMove([mover[g] EXCEPT !.alone = FALSE])
  BY DEF OrderInv, IsMove
<1> QED
  BY <1>1, <1>2, IdleMove

LEMMA GoesMoves ==
  ASSUME OrderInv, NEW h \in Movers, NEW new, IsMove(new), mover' = [mover EXCEPT ![h] = new]
  PROVE  DOMAIN mover' = Movers /\ \A g \in Movers : IsMove(mover'[g])
BY DEF OrderInv

\* What a step does to the order of the rows nobody has in hand.
Keeps ==
  \A u, v \in rows \ (Task!InHand \cup Task!InHand') :
    tStatus[u] = tStatus[v] => (order[u] < order[v]) = (order'[u] < order'[v])

\* Only the row of a request at work gets another order.
LEMMA OthersKeep ==
  ASSUME OrderInv, NEW t, t \in Task!InHand \/ t \notin rows, NEW new,
         order' = [order EXCEPT ![t] = new]
  PROVE  Keeps
<1> SUFFICES ASSUME NEW u \in rows \ Task!InHand, NEW v \in rows \ Task!InHand
             PROVE  order'[u] = order[u] /\ order'[v] = order[v]
  BY DEF Keeps
<1> QED
  BY DEF OrderInv

LEMMA TaskStep ==
  ASSUME TaskAssumption, OrderInv, Task!Next
  PROVE  OrderInv' /\ Keeps
<1>1. ASSUME NEW h \in Movers, NEW t \in Tasks, NEW s \in Columns, Task!Create(h, t, s)
      PROVE  OrderInv' /\ Keeps
  <2>1. /\ t \notin rows /\ rows' = rows \cup {t} /\ order' = [order EXCEPT ![t] = New]
        /\ Task!Writes(h, [Task!Idle EXCEPT !.pc = "new", !.task = t, !.target = t])
    BY <1>1 DEF Task!Create
  <2>2. IsMove([Task!Idle EXCEPT !.pc = "new", !.task = t, !.target = t])
    BY DEF IsMove, Task!Idle, TaskAssumption
  <2>3. rows' \subseteq Tasks /\ order' \in [Tasks -> Int]
    BY <2>1 DEF OrderInv, TaskAssumption
  <2> QED
    BY <2>1, <2>2, <2>3, WritesMoves, OthersKeep DEF OrderInv
<1>2. ASSUME NEW h \in Movers, NEW t \in Tasks, NEW s \in Columns, Task!Update(h, t, s)
      PROVE  OrderInv' /\ Keeps
  BY <1>2, IdleMove, WritesMoves DEF Task!Update, OrderInv, Keeps
<1>3. ASSUME NEW h \in Movers, NEW t \in Tasks, NEW k, Task!Move(h, t, k)
      PROVE  OrderInv' /\ Keeps
  <2> DEFINE new == [Task!Idle EXCEPT
                       !.pc = "find", !.task = t, !.status = tStatus[t], !.order = order[t],
                       !.to = k, !.before = Task!Listing(t, tStatus[t]),
                       !.plain = Task!Plain(t, tStatus[t]), !.alone = TRUE]
  <2>1. UNCHANGED <<rows, tStatus, order>> /\ mover' = [mover EXCEPT ![h] = new]
    BY <1>3 DEF Task!Move, Task!Starts
  <2>2. IsMove(new)
    <3>1. order[t] \in Int
      BY DEF OrderInv
    <3>2. new["order"] = order[t] /\ new["target"] = 0 /\ {"order", "target"} \subseteq DOMAIN new
      BY DEF Task!Idle
    <3> HIDE DEF new
    <3> QED
      BY <3>1, <3>2 DEF IsMove
  <2> HIDE DEF new
  <2> QED
    BY <2>1, <2>2, GoesMoves DEF OrderInv, Keeps
<1>4. ASSUME NEW h \in Movers, NEW t \in Tasks, Task!RemoveTask(h, t)
      PROVE  OrderInv' /\ Keeps
  BY <1>4, IdleMove, WritesMoves DEF Task!RemoveTask, OrderInv, Keeps
<1>5. ASSUME NEW h \in Movers, Task!Find(h) PROVE OrderInv' /\ Keeps
  <2>1. PICK n \in Int : mover' = [mover EXCEPT ![h] = [mover[h] EXCEPT !.pc = "shift", !.target = n]]
    <3> DEFINE those == Task!At(mover[h].to, mover[h].status)
    <3>1. those \subseteq Tasks
      BY DEF OrderInv, Task!At, Task!Column
    <3>2. \/ \E u \in those :
               mover' = [mover EXCEPT ![h] = [mover[h] EXCEPT !.pc = "shift", !.target = order[u]]]
          \/ mover' = [mover EXCEPT ![h] = [mover[h] EXCEPT !.pc = "shift", !.target = Far]]
      BY <1>5 DEF Task!Find, Task!Goes
    <3>3. Far \in Int /\ \A u \in those : order[u] \in Int
      BY <3>1 DEF OrderInv, TaskAssumption
    <3> HIDE DEF those
    <3> QED
      BY <3>2, <3>3
  <2>2. IsMove([mover[h] EXCEPT !.pc = "shift", !.target = n])
    BY DEF OrderInv, IsMove
  <2>3. UNCHANGED <<rows, tStatus, order>>
    BY <1>5 DEF Task!Find
  <2> QED
    BY <2>1, <2>2, <2>3, GoesMoves DEF OrderInv, Keeps
<1>6. ASSUME NEW h \in Movers, Task!Shift(h) PROVE OrderInv' /\ Keeps
  <2>1. /\ mover[h].pc = "shift"
        /\ order' = [u \in Tasks |->
             IF u \in Task!Column(mover[h].status) \ {mover[h].task}
             THEN Task!Shifted(mover[h], u) ELSE order[u]]
        /\ Task!Writes(h, [mover[h] EXCEPT !.pc = "place"])
        /\ UNCHANGED <<rows, tStatus>>
    BY <1>6 DEF Task!Shift
  <2>2. IsMove([mover[h] EXCEPT !.pc = "place"])
    BY DEF OrderInv, IsMove
  <2>3. order' \in [Tasks -> Int]
    BY <2>1, ShiftKeepsOrder DEF OrderInv
  <2>4. Keeps
    <3> SUFFICES ASSUME NEW u \in rows \ Task!InHand, NEW v \in rows \ Task!InHand,
                        tStatus[u] = tStatus[v]
                 PROVE  order[u] < order[v] <=> order'[u] < order'[v]
      BY DEF Keeps
    <3>1. mover[h].task \in Task!InHand
      BY <2>1 DEF Task!InHand
    <3>2. u \in Tasks /\ v \in Tasks /\ u # mover[h].task /\ v # mover[h].task
      BY <3>1 DEF OrderInv
    <3>3. CASE tStatus[u] = mover[h].status
      <4>1. order'[u] = Task!Shifted(mover[h], u) /\ order'[v] = Task!Shifted(mover[h], v)
        BY <2>1, <3>2, <3>3 DEF Task!Column
      <4> QED
        BY <3>2, <4>1, ShiftKeepsOrder
    <3>4. CASE tStatus[u] # mover[h].status
      BY <2>1, <3>2, <3>4 DEF Task!Column
    <3> QED
      BY <3>3, <3>4
  <2> QED
    BY <2>1, <2>2, <2>3, <2>4, WritesMoves DEF OrderInv
<1>7. ASSUME NEW h \in Movers, Task!Place(h) PROVE OrderInv' /\ Keeps
  <2>1. /\ mover[h].pc \in {"new", "place"} /\ UNCHANGED <<rows, tStatus>>
        /\ order' = [order EXCEPT ![mover[h].task] = mover[h].target]
        /\ \E new : IsMove(new) /\ Task!Writes(h, new)
    <3>1. IsMove([mover[h] EXCEPT !.pc = "moved"])
      BY DEF OrderInv, IsMove
    <3> QED
      BY <1>7, <3>1, IdleMove DEF Task!Place
  <2>2. mover[h].task \in Task!InHand
    BY <2>1 DEF Task!InHand
  <2>3. order' \in [Tasks -> Int]
    BY <2>1 DEF OrderInv, IsMove
  <2> QED
    BY <2>1, <2>2, <2>3, WritesMoves, OthersKeep DEF OrderInv
<1>8. ASSUME NEW h \in Movers, Task!Answer(h) \/ Task!QueryFails(h) PROVE OrderInv' /\ Keeps
  <2>1. UNCHANGED <<rows, tStatus, order>> /\ mover' = [mover EXCEPT ![h] = Task!Idle]
    BY <1>8 DEF Task!Answer, Task!QueryFails, Task!Goes
  <2> QED
    BY <2>1, IdleMove, GoesMoves DEF OrderInv, Keeps
<1> QED
  BY <1>1, <1>2, <1>3, <1>4, <1>5, <1>6, <1>7, <1>8 DEF Task!Next

(* Whatever requests move tasks at once, and wherever they fail, two tasks *)
(* of a column that nobody moves keep their order, for any number of tasks *)
(* and requests (updateTaskOrder of task.service.ts).                      *)
THEOREM TasksKeepOrder == TaskAssumption => (Task!Spec => Task!OthersKeepOrder)
<1> SUFFICES ASSUME TaskAssumption PROVE Task!Spec => Task!OthersKeepOrder
  OBVIOUS
<1>1. Task!Init => OrderInv
  BY TasksInit
<1>2. OrderInv /\ [Task!Next]_(Task!vars) => OrderInv'
  <2> SUFFICES ASSUME OrderInv, [Task!Next]_(Task!vars) PROVE OrderInv'
    OBVIOUS
  <2>1. CASE Task!Next
    BY <2>1, TaskStep
  <2>2. CASE UNCHANGED Task!vars
    BY <2>2 DEF Task!vars, OrderInv
  <2> QED
    BY <2>1, <2>2
<1>3. OrderInv /\ [Task!Next]_(Task!vars) => [Keeps]_(Task!vars)
  BY TaskStep
<1> QED
  BY <1>1, <1>2, <1>3, PTL DEF Task!Spec, Task!OthersKeepOrder, Keeps

(* What the composition checks of tasks: two tasks of a column that nobody *)
(* moves keep their order.                                                 *)
THEOREM TasksStayInOrder == TaskAssumption => (RecordsSpec => OthersKeepOrder)
<1> SUFFICES ASSUME TaskAssumption PROVE RecordsSpec => OthersKeepOrder
  OBVIOUS
<1>1. RecordsInit => Task!Init
  BY DEF RecordsInit
<1>2. [RecordsNext]_<<which, taskVars, listVars, pageVars, vars, linesVars>>
        => [Task!Next]_(Task!vars)
  BY DEF RecordsNext, taskVars, Task!vars
<1> QED
  BY <1>1, <1>2, TasksKeepOrder, PTL DEF RecordsSpec, Task!Spec, OthersKeepOrder

-----------------------------------------------------------------------------
(* Where a task comes that is moved.                                       *)

\* The tasks of C that come before u by the order o, which tells them all apart.
Below(C, o, u) == {v \in C : o[v] < o[u]}

OneByOne(C, o) ==
  /\ IsFiniteSet(C) /\ C \subseteq Int /\ \A u \in C : o[u] \in Int
  /\ \A u, v \in C : o[u] = o[v] => u = v

LEMMA CountedAlike == ASSUME NEW S PROVE Task!Cardinality(S) = Cardinality(S)
BY DEF Task!Cardinality, Cardinality

LEMMA BelowIsCounted ==
  ASSUME NEW C, NEW o, OneByOne(C, o), NEW u \in C
  PROVE  /\ IsFiniteSet(Below(C, o, u)) /\ Cardinality(Below(C, o, u)) \in Nat
         /\ Cardinality(Below(C, o, u)) < Cardinality(C) /\ Cardinality(C) \in Nat
         /\ Task!Positions(C, o)[u] = Cardinality(Below(C, o, u))
<1>1. Below(C, o, u) \subseteq C \ {u} /\ IsFiniteSet(C)
  BY DEF Below, OneByOne
<1>2. /\ IsFiniteSet(C \ {u}) /\ Cardinality(C \ {u}) = Cardinality(C) - 1
      /\ Cardinality(C) \in Nat
  BY <1>1, FS_RemoveElement, FS_CardinalityType
<1>3. /\ IsFiniteSet(Below(C, o, u))
      /\ Cardinality(Below(C, o, u)) <= Cardinality(C \ {u})
  BY <1>1, <1>2, FS_Subset
<1>4. Cardinality(Below(C, o, u)) \in Nat
  BY <1>3, FS_CardinalityType
<1>5. \A v \in C : ~(o[v] = o[u] /\ v < u)
  BY DEF OneByOne
<1>6. Task!Positions(C, o)[u] = Cardinality(Below(C, o, u))
  <2>1. {v \in C : o[v] < o[u] \/ (o[v] = o[u] /\ v < u)} = Below(C, o, u)
    BY <1>5 DEF Below
  <2> QED
    BY <2>1, CountedAlike DEF Task!Positions
<1> QED
  BY <1>2, <1>3, <1>4, <1>6

LEMMA BelowGrows ==
  ASSUME NEW C, NEW o, OneByOne(C, o), NEW u \in C, NEW v \in C
  PROVE  o[u] < o[v] <=> Cardinality(Below(C, o, u)) < Cardinality(Below(C, o, v))
<1>1. ASSUME NEW a \in C, NEW b \in C, o[a] < o[b]
      PROVE  Cardinality(Below(C, o, a)) < Cardinality(Below(C, o, b))
  <2>1. /\ Below(C, o, a) \subseteq Below(C, o, b)
        /\ a \in Below(C, o, b) /\ a \notin Below(C, o, a)
    <3>1. \A c \in C : o[c] \in Int
      BY DEF OneByOne
    <3> QED
      BY <1>1, <3>1 DEF Below
  <2>2. IsFiniteSet(Below(C, o, b))
    BY BelowIsCounted
  <2>3. /\ Cardinality(Below(C, o, a)) <= Cardinality(Below(C, o, b))
        /\ Cardinality(Below(C, o, a)) # Cardinality(Below(C, o, b))
    BY <2>1, <2>2, FS_Subset
  <2>4. Cardinality(Below(C, o, a)) \in Nat /\ Cardinality(Below(C, o, b)) \in Nat
    BY BelowIsCounted
  <2> QED
    BY <2>3, <2>4
<1>2. Cardinality(Below(C, o, u)) \in Nat /\ Cardinality(Below(C, o, v)) \in Nat
  BY BelowIsCounted
<1>3. o[u] \in Int /\ o[v] \in Int /\ (o[u] = o[v] => u = v)
  BY DEF OneByOne
<1>4. CASE o[u] < o[v]
  BY <1>1, <1>4
<1>5. CASE o[v] < o[u]
  <2>1. Cardinality(Below(C, o, v)) < Cardinality(Below(C, o, u))
    BY <1>1, <1>5
  <2> QED
    BY <1>2, <1>3, <1>5, <2>1
<1>6. CASE o[u] = o[v]
  BY <1>2, <1>3, <1>6
<1> QED
  BY <1>3, <1>4, <1>5, <1>6

(* Every position up to the last is some task's.                           *)
LEMMA EveryPosition ==
  ASSUME NEW C, NEW o, OneByOne(C, o), NEW k \in Nat, k < Cardinality(C)
  PROVE  \E u \in C : Cardinality(Below(C, o, u)) = k
<1> DEFINE f == [u \in C |-> Cardinality(Below(C, o, u))]
<1>1. PICK n \in Nat : n = Cardinality(C)
  <2>1. IsFiniteSet(C)
    BY DEF OneByOne
  <2> QED
    BY <2>1, FS_CardinalityType
<1>2. PICK T : T = 0..(n - 1)
  OBVIOUS
<1>3. IsFiniteSet(T) /\ Cardinality(T) = n
  <2>1. 0 \in Int /\ n - 1 \in Int
    OBVIOUS
  <2>2. /\ IsFiniteSet(0..(n - 1))
        /\ Cardinality(0..(n - 1)) = IF 0 > n - 1 THEN 0 ELSE (n - 1) - 0 + 1
    BY <2>1, FS_Interval
  <2> QED
    BY <1>2, <2>2
<1>4. \A u \in C : f[u] \in T
  BY <1>1, <1>2, BelowIsCounted
<1>5. \A u, v \in C : f[u] = f[v] => u = v
  <2> SUFFICES ASSUME NEW u \in C, NEW v \in C, f[u] = f[v] PROVE u = v
    OBVIOUS
  <2>1. ~(o[u] < o[v]) /\ ~(o[v] < o[u])
    BY BelowGrows, BelowIsCounted
  <2> QED
    BY <2>1 DEF OneByOne
<1>6. f \in Injection(C, T)
  BY <1>4, <1>5 DEF Injection, IsInjective
<1>7. f \in Surjection(C, T)
  BY <1>1, <1>3, <1>6, FS_Injection
<1>8. k \in T
  BY <1>1, <1>2
<1> QED
  BY <1>7, <1>8 DEF Surjection

(* Two orders that agree but for t: the positions by the second are those  *)
(* by the first with t taken out and put in again.                         *)
LEMMA PutInAgain ==
  ASSUME NEW C, NEW o, NEW p, OneByOne(C, o), OneByOne(C, p), NEW t \in C,
         \A u, v \in C \ {t} : o[u] < o[v] <=> p[u] < p[v],
         NEW k \in Nat, NEW place,
         place = IF k > Cardinality(C) - 1 THEN Cardinality(C) - 1 ELSE k,
         Cardinality(Below(C, p, t)) = place
  PROVE  Task!Positions(C, p) = Task!Moved(Task!Positions(C, o), t, k)
<1> DEFINE before == Task!Positions(C, o)
           Without(u) == IF before[u] > before[t] THEN before[u] - 1 ELSE before[u]
<1>1. ASSUME NEW u \in C \ {t}
      PROVE  Task!Positions(C, p)[u] =
               IF Without(u) < place THEN Without(u) ELSE Without(u) + 1
  <2> DEFINE Rest == {v \in C \ {t} : o[v] < o[u]}
  <2>1. /\ Rest = {v \in C \ {t} : p[v] < p[u]}
        /\ \A v \in C : p[v] \in Int
    BY DEF OneByOne
  <2>2. Rest \subseteq C /\ IsFiniteSet(C)
    BY DEF OneByOne
  <2>3. IsFiniteSet(Rest)
    BY <2>2, FS_Subset
  <2>4. PICK n \in Nat : n = Cardinality(Rest)
    BY <2>3, FS_CardinalityType
  <2>5. Cardinality(Rest \cup {t}) = n + 1
    BY <2>3, <2>4, FS_AddElement
  <2>6. /\ Below(C, o, u) = IF o[t] < o[u] THEN Rest \cup {t} ELSE Rest
        /\ Below(C, p, u) = IF p[t] < p[u] THEN Rest \cup {t} ELSE Rest
    BY <2>1 DEF Below
  <2> HIDE DEF Rest
  <2>7. before[u] = IF o[t] < o[u] THEN n + 1 ELSE n
    <3>1. before[u] = Cardinality(Below(C, o, u))
      BY BelowIsCounted
    <3> QED
      BY <2>4, <2>5, <2>6, <3>1
  <2>8. before[u] > before[t] <=> o[t] < o[u]
    <3>1. /\ before[u] = Cardinality(Below(C, o, u)) /\ before[t] = Cardinality(Below(C, o, t))
          /\ before[u] \in Nat /\ before[t] \in Nat
      BY BelowIsCounted
    <3>2. o[t] < o[u] <=> Cardinality(Below(C, o, t)) < Cardinality(Below(C, o, u))
      BY BelowGrows
    <3> QED
      BY <3>1, <3>2
  <2>9. Without(u) = n
    BY <2>7, <2>8
  <2>10. Task!Positions(C, p)[u] = IF p[t] < p[u] THEN n + 1 ELSE n
    <3>1. Task!Positions(C, p)[u] = Cardinality(Below(C, p, u))
      BY BelowIsCounted
    <3> QED
      BY <2>4, <2>5, <2>6, <3>1
  <2>11. place \in Nat /\ IsFiniteSet(Below(C, p, t))
    BY BelowIsCounted
  <2>12. CASE p[t] < p[u]
    <3>1. Below(C, p, t) \subseteq Rest
      BY <2>1, <2>12 DEF Below
    <3>2. place <= n
      BY <2>3, <2>4, <3>1, FS_Subset
    <3> QED
      BY <2>9, <2>10, <2>11, <2>12, <3>2
  <2>13. CASE ~(p[t] < p[u])
    <3>1. p[u] < p[t]
      BY <2>13 DEF OneByOne
    <3>2. Rest \cup {u} \subseteq Below(C, p, t) /\ u \notin Rest
      BY <2>1, <3>1 DEF Below
    <3>3. Cardinality(Rest \cup {u}) = n + 1
      BY <2>3, <2>4, <3>2, FS_AddElement
    <3>4. n + 1 <= place
      BY <2>11, <3>2, <3>3, FS_Subset
    <3> QED
      BY <2>9, <2>10, <2>11, <2>13, <3>4
  <2> QED
    BY <2>12, <2>13
<1>2. Task!Positions(C, p)[t] = place
  BY BelowIsCounted
<1>3. /\ Task!Positions(C, p) = [u \in C |-> Task!Positions(C, p)[u]]
      /\ DOMAIN before = C
  BY DEF Task!Positions
<1>4. Task!Moved(before, t, k) =
        [u \in C |-> CASE u = t -> place
                       [] u # t /\ Without(u) < place -> Without(u)
                       [] OTHER -> Without(u) + 1]
  BY <1>3, CountedAlike DEF Task!Moved
<1>5. \A u \in C : Task!Moved(before, t, k)[u] =
        IF u = t THEN place ELSE IF Without(u) < place THEN Without(u) ELSE Without(u) + 1
  BY <1>4
<1>6. \A u \in C : Task!Moved(before, t, k)[u] = Task!Positions(C, p)[u]
  BY <1>1, <1>2, <1>5
<1>7. Task!Moved(before, t, k) = [u \in C |-> Task!Moved(before, t, k)[u]]
  BY <1>4
<1> QED
  BY <1>3, <1>6, <1>7

(* The shift and the order found bring t to position k, or to the last.    *)
LEMMA PositionAsked ==
  ASSUME NEW C, NEW o, OneByOne(C, o), NEW t \in C, NEW k \in Nat, NEW target \in Int,
         \/ \E u \in C : Cardinality(Below(C, o, u)) = k /\ target = o[u]
         \/ k >= Cardinality(C) /\ \A u \in C : o[u] < target,
         NEW p, p[t] = target,
         \A u \in C \ {t} : p[u] = IF target > o[t]
                                   THEN IF o[u] <= target THEN o[u] - 1 ELSE o[u]
                                   ELSE IF o[u] >= target THEN o[u] + 1 ELSE o[u]
  PROVE  /\ OneByOne(C, p) /\ \A u, v \in C \ {t} : o[u] < o[v] <=> p[u] < p[v]
         /\ Cardinality(Below(C, p, t)) =
              IF k > Cardinality(C) - 1 THEN Cardinality(C) - 1 ELSE k
<1>1. /\ IsFiniteSet(C) /\ C \subseteq Int /\ \A u \in C : o[u] \in Int
      /\ \A u, v \in C : o[u] = o[v] => u = v
  BY DEF OneByOne
<1>2. \A u \in C : p[u] \in Int
  BY <1>1
<1>3. \A u, v \in C \ {t} : o[u] < o[v] <=> p[u] < p[v]
  <2> SUFFICES ASSUME NEW u \in C \ {t}, NEW v \in C \ {t} PROVE o[u] < o[v] <=> p[u] < p[v]
    OBVIOUS
  <2>1. PICK a \in Int, b \in Int : a = o[u] /\ b = o[v]
    BY <1>1
  <2>2. CASE target > o[t]
    <3>1. /\ p[u] = IF a <= target THEN a - 1 ELSE a
          /\ p[v] = IF b <= target THEN b - 1 ELSE b
      BY <2>1, <2>2
    <3> QED
      BY <2>1, <3>1
  <2>3. CASE ~(target > o[t])
    <3>1. /\ p[u] = IF a >= target THEN a + 1 ELSE a
          /\ p[v] = IF b >= target THEN b + 1 ELSE b
      BY <2>1, <2>3
    <3> QED
      BY <2>1, <3>1
  <2> QED
    BY <2>2, <2>3
<1>4. \A u \in C \ {t} :
        /\ p[u] # target
        /\ target > o[t] => (p[u] < target <=> o[u] <= target)
        /\ ~(target > o[t]) => (p[u] < target <=> o[u] < target)
  <2> SUFFICES ASSUME NEW u \in C \ {t}
               PROVE  /\ p[u] # target
                      /\ target > o[t] => (p[u] < target <=> o[u] <= target)
                      /\ ~(target > o[t]) => (p[u] < target <=> o[u] < target)
    OBVIOUS
  <2>1. PICK a \in Int : a = o[u]
    BY <1>1
  <2>2. CASE target > o[t]
    <3>1. p[u] = IF a <= target THEN a - 1 ELSE a
      BY <2>1, <2>2
    <3> QED
      BY <2>1, <2>2, <3>1
  <2>3. CASE ~(target > o[t])
    <3>1. p[u] = IF a >= target THEN a + 1 ELSE a
      BY <2>1, <2>3
    <3> QED
      BY <2>1, <2>3, <3>1
  <2> QED
    BY <2>2, <2>3
<1>5. \A u, v \in C : p[u] = p[v] => u = v
  <2> SUFFICES ASSUME NEW u \in C, NEW v \in C, p[u] = p[v] PROVE u = v
    OBVIOUS
  <2>1. CASE u = t \/ v = t
    BY <1>4, <2>1
  <2>2. CASE u # t /\ v # t
    <3>1. ~(p[u] < p[v]) /\ ~(p[v] < p[u])
      BY <1>2
    <3>2. ~(o[u] < o[v]) /\ ~(o[v] < o[u])
      BY <1>3, <2>2, <3>1
    <3> QED
      BY <1>1, <3>2
  <2> QED
    BY <2>1, <2>2
<1>6. OneByOne(C, p)
  BY <1>1, <1>2, <1>5 DEF OneByOne
<1>7. PICK n \in Nat : n = Cardinality(C)
  BY <1>1, FS_CardinalityType
<1>8. Below(C, p, t) = {v \in C \ {t} : p[v] < target}
  BY DEF Below
<1>9. ASSUME NEW u \in C, Cardinality(Below(C, o, u)) = k, target = o[u]
      PROVE  Cardinality(Below(C, p, t)) = k /\ k < n
  <2>1. k < n /\ IsFiniteSet(Below(C, o, u))
    BY <1>7, <1>9, BelowIsCounted
  <2>2. CASE target > o[t]
    <3>1. t \in Below(C, o, u) /\ u \notin Below(C, o, u)
      BY <1>1, <1>9, <2>2 DEF Below
    <3>2. Below(C, p, t) = (Below(C, o, u) \ {t}) \cup {u}
      <4>1. Below(C, p, t) = {v \in C \ {t} : o[v] <= o[u]}
        BY <1>4, <1>8, <1>9, <2>2
      <4>2. \A v \in C : o[v] <= o[u] <=> o[v] < o[u] \/ v = u
        BY <1>1
      <4> QED
        BY <3>1, <4>1, <4>2 DEF Below
    <3>3. /\ IsFiniteSet(Below(C, o, u) \ {t})
          /\ Cardinality(Below(C, o, u) \ {t}) = k - 1
      BY <1>9, <2>1, <3>1, FS_RemoveElement
    <3>4. Cardinality((Below(C, o, u) \ {t}) \cup {u}) = (k - 1) + 1
      BY <3>1, <3>3, FS_AddElement
    <3> QED
      BY <2>1, <3>2, <3>4
  <2>3. CASE ~(target > o[t])
    <3>1. Below(C, p, t) = Below(C, o, u)
      BY <1>1, <1>4, <1>8, <1>9, <2>3 DEF Below
    <3> QED
      BY <1>9, <2>1, <3>1
  <2> QED
    BY <2>2, <2>3
<1>10. ASSUME k >= n, \A u \in C : o[u] < target
       PROVE  Cardinality(Below(C, p, t)) = n - 1
  <2>1. target > o[t] /\ \A u \in C : o[u] <= target
    BY <1>1, <1>10
  <2>2. Below(C, p, t) = C \ {t}
    BY <1>4, <1>8, <2>1
  <2> QED
    BY <1>1, <1>7, <2>2, FS_RemoveElement
<1> QED
  BY <1>3, <1>6, <1>7, <1>9, <1>10

\* What a request knows.
IsMover(m) ==
  m = [pc |-> m.pc, task |-> m.task, status |-> m.status, order |-> m.order, to |-> m.to,
       target |-> m.target, before |-> m.before, plain |-> m.plain, alone |-> m.alone]

ColumnOf(some, of, s) == {t \in some : of[t] = s}

\* The listing with t shows the whole of C.
ShowsAll(C, t, gone, other) ==
  t \in C /\ \A u \in C : u \notin gone /\ (u \in other <=> t \in other)

\* The order of the row at the position asked, if there is one.
Found(m, C, o) ==
  \/ \E u \in C : Cardinality(Below(C, o, u)) = m.to /\ m.target = o[u]
  \/ m.to >= Cardinality(C) /\ m.target = Far

\* How far a move has come in its column C, with the orders o: what it has read is so still,
\* and after the shift only the task itself is out of its place.
Goes(m, C, o, gone, other) ==
  /\ m.pc \in {"find", "shift"} =>
       /\ ShowsAll(C, m.task, gone, other) /\ OneByOne(C, o) /\ \A u \in C : o[u] < Far
       /\ m.to \in Nat /\ m.order = o[m.task] /\ m.before = Task!Positions(C, o)
  /\ m.pc = "shift" => Found(m, C, o)
  /\ m.pc = "place" =>
       /\ ShowsAll(C, m.task, gone, other)
       /\ Task!Positions(C, [o EXCEPT ![m.task] = m.target]) = Task!Moved(m.before, m.task, m.to)
  /\ m.pc = "moved" =>
       /\ ShowsAll(C, m.task, gone, other)
       /\ Task!Positions(C, o) = Task!Moved(m.before, m.task, m.to)

Undisturbed(m) == m.alone = TRUE /\ m.plain = TRUE

MoveInv ==
  \A h \in Movers :
    /\ IsMover(mover[h])
    /\ Undisturbed(mover[h]) =>
         Goes(mover[h], ColumnOf(rows, tStatus, mover[h].status), order, deleted, support)

LEMMA IdleMover == IsMover(Task!Idle) /\ ~Undisturbed(Task!Idle)
BY DEF IsMover, Undisturbed, Task!Idle

LEMMA MovesInit == Task!Init => MoveInv
BY IdleMover DEF Task!Init, MoveInv

(* A write disturbs all the others.                                        *)
LEMMA WriteDisturbs ==
  ASSUME OrderInv, MoveInv, NEW h \in Movers, NEW new, IsMover(new), Task!Writes(h, new),
         Undisturbed(new) =>
           Goes(new, ColumnOf(rows', tStatus', new.status), order', deleted', support')
  PROVE  MoveInv'
<1>1. mover'[h] = new
  BY DEF Task!Writes
<1>2. ASSUME NEW g \in Movers \ {h}
      PROVE  IsMover(mover'[g]) /\ ~Undisturbed(mover'[g])
  <2>1. mover'[g] = IF mover[g].pc = "idle" THEN Task!Idle ELSE [mover[g] EXCEPT !.alone = FALSE]
    BY DEF Task!Writes
  <2>2. PICK m : m = mover[g] /\ IsMover(m)
    BY DEF MoveInv
  <2>3. CASE m.pc = "idle"
    BY <2>1, <2>2, <2>3, IdleMover
  <2>4. CASE m.pc # "idle"
    <3>1. mover'[g] = [m EXCEPT !.alone = FALSE]
      BY <2>1, <2>2, <2>4
    <3> QED
      BY <2>2, <3>1 DEF IsMover, Undisturbed
  <2> QED
    BY <2>3, <2>4
<1> QED
  BY <1>1, <1>2 DEF MoveInv

(* A step that leaves the table alone.                                     *)
LEMMA GoesOn ==
  ASSUME OrderInv, MoveInv, NEW h \in Movers, NEW new, IsMover(new),
         mover' = [mover EXCEPT ![h] = new],
         UNCHANGED <<rows, tStatus, order, deleted, support>>,
         Undisturbed(new) =>
           Goes(new, ColumnOf(rows, tStatus, new.status), order, deleted, support)
  PROVE  MoveInv'
<1>1. mover'[h] = new /\ \A g \in Movers \ {h} : mover'[g] = mover[g]
  BY DEF OrderInv
<1> QED
  BY <1>1 DEF MoveInv

LEMMA ShownIsAll ==
  ASSUME TaskAssumption, OrderInv, NEW t \in rows, NEW C,
         C = ColumnOf(rows, tStatus, tStatus[t])
  PROVE  /\ Task!Column(tStatus[t]) = C /\ t \in C /\ C \subseteq Tasks
         /\ Task!Plain(t, tStatus[t]) =>
              /\ ShowsAll(C, t, deleted, support) /\ OneByOne(C, order)
              /\ \A u \in C : order[u] < Far
         /\ ShowsAll(C, t, deleted, support) => Task!Shown(t, tStatus[t]) = C
<1>1. Task!Column(tStatus[t]) = C /\ t \in C /\ C \subseteq Tasks
  BY DEF Task!Column, ColumnOf, OrderInv
<1>2. C \subseteq Int /\ IsFiniteSet(C) /\ \A u \in C : order[u] \in Int
  BY <1>1, FS_Subset DEF OrderInv, TaskAssumption
<1>3. ASSUME Task!Plain(t, tStatus[t])
      PROVE  /\ ShowsAll(C, t, deleted, support) /\ OneByOne(C, order)
             /\ \A u \in C : order[u] < Far
  <2>1. /\ \A u \in C : ~Task!HiddenWith(t, u) /\ order[u] < Far
        /\ \A u, v \in C : order[u] = order[v] => u = v
    BY <1>1, <1>3 DEF Task!Plain
  <2>2. \A u \in C : u \notin deleted /\ (u \in support <=> t \in support)
    BY <2>1 DEF Task!HiddenWith
  <2> QED
    BY <1>1, <1>2, <2>1, <2>2 DEF ShowsAll, OneByOne
<1>4. ASSUME ShowsAll(C, t, deleted, support)
      PROVE  Task!Shown(t, tStatus[t]) = C
  <2>1. \A u \in C : ~Task!HiddenWith(t, u)
    BY <1>4 DEF ShowsAll, Task!HiddenWith
  <2> QED
    BY <1>1, <2>1 DEF Task!Shown
<1> QED
  BY <1>1, <1>3, <1>4

LEMMA MoveFollows ==
  ASSUME TaskAssumption, OrderInv, MoveInv, NEW h \in Movers, NEW t \in Tasks,
         NEW k \in 0..Task!Cardinality(Tasks), Task!Move(h, t, k)
  PROVE  MoveInv'
<1>1. PICK s, C, shown, plain :
        /\ s = tStatus[t] /\ C = ColumnOf(rows, tStatus, s) /\ shown = Task!Listing(t, s)
        /\ plain = Task!Plain(t, s)
  OBVIOUS
<1> DEFINE new ==
             [Task!Idle EXCEPT !.pc = "find", !.task = t, !.status = s, !.order = order[t],
                               !.to = k, !.before = shown, !.plain = plain, !.alone = TRUE]
<1>2. /\ UNCHANGED <<rows, tStatus, order, deleted, support>>
      /\ mover' = [mover EXCEPT ![h] = new] /\ t \in rows
  <2>1. /\ UNCHANGED <<rows, tStatus, order, deleted, support>> /\ t \in rows
        /\ Task!Starts(h, [Task!Idle EXCEPT
             !.pc = "find", !.task = t, !.status = tStatus[t], !.order = order[t], !.to = k,
             !.before = Task!Listing(t, tStatus[t]), !.plain = Task!Plain(t, tStatus[t]),
             !.alone = TRUE])
    BY Zenon DEF Task!Move
  <2>2. mover' = [mover EXCEPT ![h] = [Task!Idle EXCEPT
             !.pc = "find", !.task = t, !.status = tStatus[t], !.order = order[t], !.to = k,
             !.before = Task!Listing(t, tStatus[t]), !.plain = Task!Plain(t, tStatus[t]),
             !.alone = TRUE]]
    BY <2>1, Zenon DEF Task!Starts
  <2> QED
    BY <1>1, <2>1, <2>2, Zenon
<1>3. k \in Nat
  <2>1. Task!Cardinality(Tasks) \in Nat
    BY CountedAlike, FS_CardinalityType DEF TaskAssumption
  <2> QED
    BY <2>1
<1>4. PICK a, b, none, no :
        Task!Idle = [pc |-> "idle", task |-> a, status |-> b, order |-> 0, to |-> 0,
                     target |-> 0, before |-> none, plain |-> no, alone |-> no]
  BY Zenon DEF Task!Idle
<1>5. IsMover(new)
  <2>1. PICK m :
          m = [Task!Idle EXCEPT !.pc = "find", !.task = t, !.status = s, !.order = order[t],
                                !.to = k, !.before = shown, !.plain = plain, !.alone = TRUE]
    OBVIOUS
  <2>2. IsMover(m)
    BY <1>4, <2>1, Zenon DEF IsMover
  <2> QED
    BY <2>1, <2>2, Zenon
<1>6. /\ new.pc = "find" /\ new.task = t /\ new.status = s /\ new.order = order[t]
      /\ new.to = k /\ new.before = shown /\ new.plain = plain
  BY <1>4
<1> HIDE DEF new
<1>7. ASSUME Undisturbed(new)
      PROVE  Goes(new, C, order, deleted, support)
  <2>1. Task!Plain(t, s)
    <3>1. plain = TRUE
      BY <1>7, <1>6 DEF Undisturbed
    <3> QED
      BY <1>1, <3>1, Zenon
  <2>2. /\ ShowsAll(C, t, deleted, support) /\ OneByOne(C, order)
        /\ \A u \in C : order[u] < Far
    BY <1>1, <1>2, <2>1, ShownIsAll
  <2>3. shown = Task!Positions(C, order)
    <3>1. Task!Shown(t, s) = C
      BY <1>1, <1>2, <2>2, ShownIsAll
    <3> QED
      BY <1>1, <3>1 DEF Task!Listing
  <2> QED
    BY <1>3, <1>6, <2>2, <2>3 DEF Goes
<1> QED
  BY <1>1, <1>2, <1>5, <1>7, <1>6, GoesOn

(* The row returned as the k-th of the column is the one with k below it.  *)
LEMMA AtIsPosition ==
  ASSUME OrderInv, NEW s, NEW C, C = ColumnOf(rows, tStatus, s), OneByOne(C, order),
         NEW k \in Nat
  PROVE  /\ \A u \in Task!At(k, s) : u \in C /\ Cardinality(Below(C, order, u)) = k
         /\ Task!At(k, s) = {} => k >= Cardinality(C)
<1>1. Task!Column(s) = C
  BY DEF Task!Column, ColumnOf
<1>2. Task!At(k, s) =
        {u \in C : /\ Cardinality(Below(C, order, u)) <= k
                   /\ Cardinality({v \in C : order[v] <= order[u]}) > k}
  BY <1>1, CountedAlike DEF Task!At, Below
<1>3. ASSUME NEW u \in C
      PROVE  Cardinality({v \in C : order[v] <= order[u]}) = Cardinality(Below(C, order, u)) + 1
  <2>1. \A v \in C : order[v] <= order[u] <=> order[v] < order[u] \/ v = u
    BY DEF OneByOne
  <2>2. {v \in C : order[v] <= order[u]} = Below(C, order, u) \cup {u}
    BY <2>1 DEF Below
  <2>3. u \notin Below(C, order, u)
    BY DEF Below, OneByOne
  <2>4. IsFiniteSet(Below(C, order, u))
    BY BelowIsCounted
  <2> QED
    BY <2>2, <2>3, <2>4, FS_AddElement
<1>4. \A u \in C : Cardinality(Below(C, order, u)) \in Nat
  BY BelowIsCounted
<1>5. \A u \in C : u \in Task!At(k, s) <=> Cardinality(Below(C, order, u)) = k
  <2> SUFFICES ASSUME NEW u \in C
               PROVE  u \in Task!At(k, s) <=> Cardinality(Below(C, order, u)) = k
    OBVIOUS
  <2>1. PICK n \in Nat : n = Cardinality(Below(C, order, u))
    BY <1>4
  <2>2. Cardinality({v \in C : order[v] <= order[u]}) = n + 1
    BY <1>3, <2>1
  <2>3. u \in Task!At(k, s) <=> n <= k /\ n + 1 > k
    BY <1>2, <2>1, <2>2
  <2> QED
    BY <2>1, <2>3
<1>6. Task!At(k, s) = {} => k >= Cardinality(C)
  <2> SUFFICES ASSUME k < Cardinality(C) PROVE Task!At(k, s) # {}
    <3>1. Cardinality(C) \in Nat
      BY FS_CardinalityType DEF OneByOne
    <3> QED
      BY <3>1
  <2>1. \E u \in C : Cardinality(Below(C, order, u)) = k
    BY EveryPosition
  <2> QED
    BY <1>5, <2>1
<1> QED
  BY <1>2, <1>5, <1>6

LEMMA FindFollows ==
  ASSUME TaskAssumption, OrderInv, MoveInv, NEW h \in Movers, Task!Find(h)
  PROVE  MoveInv'
<1>1. PICK m, C :
        m = mover[h] /\ C = ColumnOf(rows, tStatus, m.status)
  OBVIOUS
<1>2. /\ IsMover(m) /\ m.pc = "find"
      /\ Undisturbed(m) => Goes(m, C, order, deleted, support)
      /\ UNCHANGED <<rows, tStatus, order, deleted, support>>
  BY <1>1 DEF Task!Find, MoveInv
<1>3. PICK target :
        /\ mover' = [mover EXCEPT ![h] = [m EXCEPT !.pc = "shift", !.target = target]]
        /\ \/ \E u \in Task!At(m.to, m.status) : target = order[u]
           \/ Task!At(m.to, m.status) = {} /\ target = Far
  BY <1>1 DEF Task!Find, Task!Goes
<1>4. PICK new : new = [m EXCEPT !.pc = "shift", !.target = target]
  OBVIOUS
<1>5. IsMover(new)
  BY <1>2, <1>4, Zenon DEF IsMover
<1>6. /\ new.pc = "shift" /\ new.target = target /\ new.task = m.task /\ new.to = m.to
      /\ new.order = m.order /\ new.before = m.before /\ new.status = m.status
      /\ new.alone = m.alone /\ new.plain = m.plain
  BY <1>2, <1>4 DEF IsMover
<1>7. ASSUME Undisturbed(new)
      PROVE  Goes(new, C, order, deleted, support)
  <2>1. /\ ShowsAll(C, m.task, deleted, support) /\ OneByOne(C, order)
        /\ \A u \in C : order[u] < Far
        /\ m.to \in Nat /\ m.order = order[m.task] /\ m.before = Task!Positions(C, order)
    BY <1>2, <1>6, <1>7 DEF Undisturbed, Goes
  <2>2. /\ \A u \in Task!At(m.to, m.status) : u \in C /\ Cardinality(Below(C, order, u)) = m.to
        /\ Task!At(m.to, m.status) = {} => m.to >= Cardinality(C)
    BY <1>1, <2>1, AtIsPosition
  <2>3. Found(new, C, order)
    BY <1>3, <1>6, <2>2 DEF Found
  <2> QED
    BY <1>6, <2>1, <2>3 DEF Goes
<1> QED
  BY <1>1, <1>2, <1>3, <1>4, <1>5, <1>6, <1>7, GoesOn

LEMMA ShiftFollows ==
  ASSUME TaskAssumption, OrderInv, MoveInv, NEW h \in Movers, Task!Shift(h)
  PROVE  MoveInv'
<1>1. PICK m, C :
        m = mover[h] /\ C = ColumnOf(rows, tStatus, m.status)
  OBVIOUS
<1>2. /\ IsMover(m) /\ m.pc = "shift" /\ UNCHANGED <<rows, tStatus, deleted, support>>
      /\ Undisturbed(m) => Goes(m, C, order, deleted, support)
      /\ order' = [u \in Tasks |-> IF u \in C \ {m.task} THEN Task!Shifted(m, u) ELSE order[u]]
  <2>1. Task!Column(m.status) = C
    BY <1>1 DEF Task!Column, ColumnOf
  <2> QED
    BY <1>1, <2>1 DEF Task!Shift, MoveInv
<1>3. PICK new : new = [m EXCEPT !.pc = "place"] /\ Task!Writes(h, new)
  BY <1>1 DEF Task!Shift
<1>4. IsMover(new)
  BY <1>2, <1>3, Zenon DEF IsMover
<1>5. /\ new.pc = "place" /\ new.target = m.target /\ new.task = m.task /\ new.to = m.to
      /\ new.order = m.order /\ new.before = m.before /\ new.status = m.status
      /\ new.alone = m.alone /\ new.plain = m.plain
  BY <1>2, <1>3 DEF IsMover
<1>6. ASSUME Undisturbed(new)
      PROVE  Goes(new, C, order', deleted, support)
  <2>1. PICK t, k, target : t = m.task /\ k = m.to /\ target = m.target
    OBVIOUS
  <2>2. /\ ShowsAll(C, t, deleted, support) /\ OneByOne(C, order)
        /\ \A u \in C : order[u] < Far
        /\ k \in Nat /\ m.order = order[t] /\ m.before = Task!Positions(C, order)
        /\ \/ \E u \in C : Cardinality(Below(C, order, u)) = k /\ target = order[u]
           \/ k >= Cardinality(C) /\ target = Far
    BY <1>2, <1>5, <1>6, <2>1 DEF Undisturbed, Goes, Found
  <2>3. /\ t \in C /\ C \subseteq Tasks /\ target \in Int
        /\ \A u \in C : order[u] \in Int
    <3>1. C \subseteq Tasks
      BY <1>1 DEF ColumnOf, OrderInv
    <3>2. target \in Int
      BY <1>1, <2>1 DEF OrderInv, IsMove
    <3> QED
      BY <2>2, <3>1, <3>2 DEF ShowsAll, OneByOne
  <2>4. PICK p : p = [order' EXCEPT ![t] = target]
    OBVIOUS
  <2>5. p[t] = target
    BY <1>2, <2>3, <2>4
  <2>6. \A u \in C \ {t} : p[u] = IF target > order[t]
                                    THEN IF order[u] <= target THEN order[u] - 1 ELSE order[u]
                                    ELSE IF order[u] >= target THEN order[u] + 1 ELSE order[u]
    <3> SUFFICES ASSUME NEW u \in C \ {t}
                 PROVE  p[u] = IF target > order[t]
                                 THEN IF order[u] <= target THEN order[u] - 1 ELSE order[u]
                                 ELSE IF order[u] >= target THEN order[u] + 1 ELSE order[u]
      OBVIOUS
    <3>1. p[u] = Task!Shifted(m, u)
      BY <1>2, <2>1, <2>3, <2>4
    <3>2. m.order \in Int /\ order[u] \in Int /\ m.target = target /\ m.order = order[t]
      BY <2>1, <2>2, <2>3
    <3>3. CASE target > order[t]
      BY <2>3, <3>1, <3>2, <3>3 DEF Task!Shifted
    <3>4. CASE ~(target > order[t])
      BY <2>3, <3>1, <3>2, <3>4 DEF Task!Shifted
    <3> QED
      BY <3>3, <3>4
  <2>7. \/ \E u \in C : Cardinality(Below(C, order, u)) = k /\ target = order[u]
        \/ k >= Cardinality(C) /\ \A u \in C : order[u] < target
    BY <2>2
  <2>8. /\ OneByOne(C, p) /\ \A u, v \in C \ {t} : order[u] < order[v] <=> p[u] < p[v]
        /\ Cardinality(Below(C, p, t)) =
             IF k > Cardinality(C) - 1 THEN Cardinality(C) - 1 ELSE k
    BY <2>2, <2>3, <2>5, <2>6, <2>7, PositionAsked
  <2>9. Task!Positions(C, p) = Task!Moved(m.before, t, k)
    BY <2>2, <2>3, <2>8, PutInAgain
  <2> QED
    BY <1>5, <2>1, <2>2, <2>4, <2>9 DEF Goes
<1> QED
  BY <1>1, <1>2, <1>3, <1>4, <1>5, <1>6, WriteDisturbs

LEMMA PlaceFollows ==
  ASSUME OrderInv, MoveInv, NEW h \in Movers, Task!Place(h)
  PROVE  MoveInv'
<1>1. PICK m, C :
        m = mover[h] /\ C = ColumnOf(rows, tStatus, m.status)
  OBVIOUS
<1>2. /\ IsMover(m) /\ m.pc \in {"new", "place"}
      /\ UNCHANGED <<rows, tStatus, deleted, support>>
      /\ order' = [order EXCEPT ![m.task] = m.target]
      /\ Undisturbed(m) => Goes(m, C, order, deleted, support)
      /\ Task!Writes(h, IF m.pc = "place" THEN [m EXCEPT !.pc = "moved"] ELSE Task!Idle)
  BY <1>1 DEF Task!Place, MoveInv
<1>3. CASE m.pc = "new"
  <2>1. Task!Writes(h, Task!Idle)
    BY <1>2, <1>3
  <2> QED
    BY <2>1, IdleMover, WriteDisturbs
<1>4. CASE m.pc = "place"
  <2>1. PICK new : new = [m EXCEPT !.pc = "moved"] /\ Task!Writes(h, new)
    BY <1>2, <1>4
  <2>2. IsMover(new)
    BY <1>2, <2>1, Zenon DEF IsMover
  <2>3. /\ new.pc = "moved" /\ new.task = m.task /\ new.to = m.to /\ new.before = m.before
        /\ new.status = m.status /\ new.alone = m.alone /\ new.plain = m.plain
    BY <1>2, <2>1 DEF IsMover
  <2>4. ASSUME Undisturbed(new)
        PROVE  Goes(new, C, order', deleted, support)
    <3>1. Goes(m, C, order, deleted, support)
      BY <1>2, <2>3, <2>4 DEF Undisturbed
    <3> QED
      BY <1>2, <1>4, <2>3, <3>1 DEF Goes
  <2> QED
    BY <1>1, <1>2, <2>1, <2>2, <2>3, <2>4, WriteDisturbs
<1> QED
  BY <1>2, <1>3, <1>4

LEMMA MoveStep ==
  ASSUME TaskAssumption, OrderInv, MoveInv, Task!Next
  PROVE  MoveInv'
<1>1. ASSUME NEW h \in Movers, NEW t \in Tasks, NEW s \in Columns, Task!Create(h, t, s)
      PROVE  MoveInv'
  <2>1. PICK new : /\ Task!Writes(h, new)
                   /\ new = [Task!Idle EXCEPT !.pc = "new", !.task = t, !.target = t]
    BY <1>1 DEF Task!Create
  <2>2. IsMover(new) /\ new.alone = Task!Idle.alone /\ new.plain = Task!Idle.plain
    <3>1. IsMover(new)
      BY <2>1, IdleMover, Zenon DEF IsMover
    <3>2. {"alone", "plain"} \subseteq DOMAIN Task!Idle
      BY IdleMover DEF IsMover
    <3> QED
      BY <2>1, <3>1, <3>2
  <2>3. ~Undisturbed(new)
    BY <2>2, IdleMover DEF Undisturbed
  <2> QED
    BY <2>1, <2>2, <2>3, WriteDisturbs
<1>2. ASSUME NEW h \in Movers, NEW t \in Tasks, NEW s \in Columns, Task!Update(h, t, s)
      PROVE  MoveInv'
  <2>1. Task!Writes(h, Task!Idle)
    BY <1>2 DEF Task!Update
  <2> QED
    BY <2>1, IdleMover, WriteDisturbs
<1>3. ASSUME NEW h \in Movers, Task!Answer(h) \/ Task!QueryFails(h) PROVE MoveInv'
  <2>1. /\ UNCHANGED <<rows, tStatus, order, deleted, support>>
        /\ mover' = [mover EXCEPT ![h] = Task!Idle]
    BY <1>3 DEF Task!Answer, Task!QueryFails, Task!Goes
  <2> QED
    BY <2>1, IdleMover, GoesOn
<1>4. ASSUME NEW h \in Movers, NEW t \in Tasks, Task!RemoveTask(h, t) PROVE MoveInv'
  <2>1. Task!Writes(h, Task!Idle)
    BY <1>4 DEF Task!RemoveTask
  <2> QED
    BY <2>1, IdleMover, WriteDisturbs
<1> QED
  BY <1>1, <1>2, <1>3, <1>4, MoveFollows, FindFollows, ShiftFollows, PlaceFollows DEF Task!Next

(* What the requests know says that the move has landed.                   *)
LEMMA MovedAsAsked ==
  ASSUME OrderInv, MoveInv
  PROVE  Task!MoveLands
<1> SUFFICES ASSUME NEW h \in Movers, NEW m, m = mover[h],
                    m.pc = "moved", m.alone, m.plain
             PROVE  Task!Listing(m.task, m.status) = Task!Moved(m.before, m.task, m.to)
  BY Zenon DEF Task!MoveLands
<1>1. PICK C : C = ColumnOf(rows, tStatus, m.status)
  OBVIOUS
<1>2. Undisturbed(m) => Goes(m, C, order, deleted, support)
  BY <1>1 DEF MoveInv
<1>3. /\ ShowsAll(C, m.task, deleted, support)
      /\ Task!Positions(C, order) = Task!Moved(m.before, m.task, m.to)
  BY <1>2 DEF Undisturbed, Goes
<1>4. Task!Shown(m.task, m.status) = C
  <2>1. Task!Column(m.status) = C
    BY <1>1 DEF Task!Column, ColumnOf
  <2>2. \A u \in C : ~Task!HiddenWith(m.task, u)
    BY <1>3 DEF ShowsAll, Task!HiddenWith
  <2> QED
    BY <2>1, <2>2 DEF Task!Shown
<1> QED
  BY <1>3, <1>4 DEF Task!Listing

(* A task that one request moves at a time stands where it was asked to be *)
(* and the others have kept their positions, for any number of tasks,      *)
(* provided the column is plain (updateTaskOrder of task.service.ts).      *)
THEOREM MovesLand == TaskAssumption => (Task!Spec => []Task!MoveLands)
<1> SUFFICES ASSUME TaskAssumption PROVE Task!Spec => []Task!MoveLands
  OBVIOUS
<1>1. Task!Init => OrderInv /\ MoveInv
  BY TasksInit, MovesInit
<1>2. OrderInv /\ MoveInv /\ [Task!Next]_(Task!vars) => (OrderInv /\ MoveInv)'
  <2> SUFFICES ASSUME OrderInv, MoveInv, [Task!Next]_(Task!vars) PROVE (OrderInv /\ MoveInv)'
    OBVIOUS
  <2>1. CASE Task!Next
    BY <2>1, TaskStep, MoveStep
  <2>2. CASE UNCHANGED Task!vars
    <3>1. OrderInv'
      BY <2>2 DEF Task!vars, OrderInv
    <3>2. UNCHANGED <<rows, tStatus, order, deleted, support, mover>>
      BY <2>2 DEF Task!vars
    <3>3. MoveInv'
      BY <3>2 DEF MoveInv
    <3> QED
      BY <3>1, <3>3
  <2> QED
    BY <2>1, <2>2
<1>3. OrderInv /\ MoveInv => Task!MoveLands
  BY MovedAsAsked
<1> QED
  BY <1>1, <1>2, <1>3, PTL DEF Task!Spec

(* What the composition checks of moves: they land where they were asked.  *)
THEOREM TasksComeWhereAsked == TaskAssumption => (RecordsSpec => []MoveLands)
<1> SUFFICES ASSUME TaskAssumption PROVE RecordsSpec => []MoveLands
  OBVIOUS
<1>1. RecordsInit => Task!Init
  BY DEF RecordsInit
<1>2. [RecordsNext]_<<which, taskVars, listVars, pageVars, vars, linesVars>>
        => [Task!Next]_(Task!vars)
  BY DEF RecordsNext, taskVars, Task!vars
<1>3. Task!MoveLands => MoveLands
  BY DEF MoveLands
<1> QED
  BY <1>1, <1>2, <1>3, MovesLand, PTL DEF RecordsSpec, Task!Spec

-----------------------------------------------------------------------------
(* Pages of a listing.  Where a row stands among those found says on which *)
(* page it is; rows that come push it towards the pages that are still to  *)
(* be read.                                                                *)

(* The queries that ignore the page are in no order.                       *)
LEMMA WholeHasNoOrder ==
  \A l \in Pages!Handlers : l.query.whole => l.query.by = "nothing"
<1>1. \A q \in {Pages!ById, Pages!ByKey, Pages!Unordered, Pages!Joined, Pages!Whole} :
        q.whole => q.by = "nothing"
  BY DEF Pages!Query, Pages!ById, Pages!ByKey, Pages!Unordered, Pages!Joined, Pages!Whole
<1> QED
  BY <1>1 DEF
    Pages!Handlers, Pages!After, Pages!Beside, Pages!CountingMore, Pages!MailLogs,
    Pages!AttendanceRecords, Pages!Authorities, Pages!PublishedAuthorities,
    Pages!BiometricsJobs, Pages!Checks, Pages!BlogsCategories, Pages!PublishedBlogsCategories,
    Pages!BlogsOfCategory, Pages!Blogs, Pages!PublishedBlogs, Pages!CarRequests,
    Pages!CashAdvances, Pages!ClientList, Pages!PublishedClients, Pages!Assets,
    Pages!PublishedAssets, Pages!DepartmentList, Pages!PublishedDepartments, Pages!DiaryEntries,
    Pages!DiaryReport, Pages!DiaryOfUser, Pages!Enquiries, Pages!FaqsCategories, Pages!Faqs,
    Pages!PublishedFaqs, Pages!Feedbacks, Pages!InvoiceList, Pages!LeadList,
    Pages!LeaveRequests, Pages!Notifications, Pages!Announcements, Pages!Organizations,
    Pages!PublishedOrganizations, Pages!PayrollCycleList, Pages!Payrolls, Pages!Permits,
    Pages!ProjectComponents, Pages!PublishedProjectComponents, Pages!ProjectStates,
    Pages!PublishedProjectStates, Pages!ProjectTypes, Pages!PublishedProjectTypes,
    Pages!ProjectList, Pages!Conversations, Pages!ProjectNames, Pages!ProjectResources,
    Pages!ProjectNotes, Pages!PublicHolidays, Pages!QuotationList, Pages!Reimbursements,
    Pages!SavedSearches, Pages!SmsLogs, Pages!StaticPages, Pages!SystemLogs, Pages!TaskList,
    Pages!TransactionList, Pages!UserList, Pages!BasicUsers, Pages!Logins,
    Pages!ReadMailSentLogs, Pages!FindAttendance, Pages!FindPublishedAuthorities,
    Pages!FindAuthorities, Pages!FindBiometricsJobs, Pages!FindBiometrics,
    Pages!FindBlogsCategories, Pages!FindPublishedBlogsCategories, Pages!FindBlogsCategory,
    Pages!FindBlogs, Pages!FindPublishedBlogs, Pages!FindCarRequests, Pages!ReadOwnCarRequests,
    Pages!FindCashAdvances, Pages!ReadOwnCashAdvances, Pages!FindPublishedClients,
    Pages!FindClients, Pages!FindPublishedAssets, Pages!FindAssets,
    Pages!FindPublishedDepartments, Pages!FindDepartments, Pages!FindDiary,
    Pages!FindDiaryReport, Pages!FindDiaryReportOfUser, Pages!FindEnquiries, Pages!FindLogs,
    Pages!FindFaqsCategories, Pages!FindPublishedFaqs, Pages!FindFaqs, Pages!FindFeedbacks,
    Pages!FindInvoices, Pages!FindLeads, Pages!FindLeaveRequests, Pages!ReadOwnLeaveRequests,
    Pages!FindNotifications, Pages!FindAnnouncements, Pages!FindOrganizations,
    Pages!FindPublishedOrganizations, Pages!FindPayrollCycles, Pages!FindPayrolls,
    Pages!FindPermits, Pages!FindPublishedComponents, Pages!FindComponents,
    Pages!FindPublishedStates, Pages!FindStates, Pages!FindPublishedTypes, Pages!FindTypes,
    Pages!FindProjects, Pages!FindConversations, Pages!FindProjectNames, Pages!FindProjectFiles,
    Pages!FindProjectNotes, Pages!FindPublicHolidays, Pages!FindQuotations,
    Pages!FindReimbursements, Pages!ReadOwnReimbursements, Pages!FindAdminSearches,
    Pages!FindSearches, Pages!ReadSmsSentLogs, Pages!FindStaticPages,
    Pages!FindPublishedStaticPages, Pages!ReadSystemLogs, Pages!FindTasks,
    Pages!FindTechSupport, Pages!FindTransactions, Pages!FindUsers, Pages!FindBasicUsers,
    Pages!FindUserLoginHistory

(* The rows that come before row i, of some rows.                          *)
Ahead(s, q, i) == {j \in s : Pages!Rank(q, j) < Pages!Rank(q, i)}

Untied(q, i) == \A j \in Ids \ {i} : Pages!Rank(q, i) # Pages!Rank(q, j)

LineOf(i) == <<i, 1>>

LEMMA Ranks ==
  PagesAssumption => \A q : \A i \in Ids : Pages!Rank(q, i) \in Int
BY DEF PagesAssumption, Pages!Rank

LEMMA PagesCountAlike == ASSUME NEW S PROVE Pages!Cardinality(S) = Cardinality(S)
BY DEF Pages!Cardinality, Cardinality

(* As many lines as rows.                                                  *)
LEMMA LinesCount ==
  ASSUME NEW r, IsFiniteSet(r)
  PROVE  /\ IsFiniteSet({LineOf(i) : i \in r})
         /\ Cardinality({LineOf(i) : i \in r}) = Cardinality(r)
<1> DEFINE T == {LineOf(i) : i \in r}
           f == [i \in r |-> LineOf(i)]
<1>1. \A i, j \in r : LineOf(i) = LineOf(j) => i = j
  BY DEF LineOf
<1>2. f \in Bijection(r, T)
  <2>1. \A i \in r : f[i] \in T
    OBVIOUS
  <2>2. \A t \in T : \E i \in r : f[i] = t
    OBVIOUS
  <2>3. \A i, j \in r : f[i] = f[j] => i = j
    BY <1>1
  <2> HIDE DEF T
  <2> QED
    BY <2>1, <2>2, <2>3 DEF Bijection, Injection, Surjection, IsInjective
<1>3. ExistsBijection(r, T)
  BY <1>2 DEF ExistsBijection
<1> QED
  BY <1>3, FS_Bijection

(* A prefix of a sorted answer has an untied row if fewer come before it.  *)
LEMMA PrefixHas ==
  ASSUME PagesAssumption, NEW s \in SUBSET Ids, NEW q, ~q.joined, NEW n \in Nat,
         NEW i \in s, Untied(q, i), NEW p \in SUBSET Pages!Lines(q, s),
         Cardinality(p) = Pages!Smaller(n, Cardinality(Pages!Lines(q, s))),
         Pages!Sorted(q, p, Pages!Lines(q, s) \ p)
  PROVE  LineOf(i) \in p <=> Cardinality(Ahead(s, q, i)) < n
<1>1. PICK r : r = {j \in s : LineOf(j) \in p}
  OBVIOUS
<1>2. Pages!Lines(q, s) = {LineOf(j) : j \in s}
  BY DEF Pages!Lines, LineOf
<1>3. p = {LineOf(j) : j \in r}
  BY <1>1, <1>2
<1>4. /\ IsFiniteSet(s) /\ IsFiniteSet(r) /\ r \subseteq s
      /\ IsFiniteSet(Ahead(s, q, i)) /\ Ahead(s, q, i) \subseteq s
  <2>1. IsFiniteSet(s)
    BY FS_Subset DEF PagesAssumption
  <2>2. r \subseteq s /\ Ahead(s, q, i) \subseteq s
    BY <1>1 DEF Ahead
  <2> QED
    BY <2>1, <2>2, FS_Subset
<1>5. PICK all \in Nat, some \in Nat, ahead \in Nat :
        all = Cardinality(s) /\ some = Cardinality(r) /\ ahead = Cardinality(Ahead(s, q, i))
  BY <1>4, FS_CardinalityType
<1>6. some = IF n < all THEN n ELSE all
  <2>1. Cardinality(p) = some /\ Cardinality(Pages!Lines(q, s)) = all
    BY <1>2, <1>3, <1>4, <1>5, LinesCount
  <2> QED
    BY <2>1 DEF Pages!Smaller
<1>7. \A j \in r, k \in s \ r : Pages!Rank(q, j) <= Pages!Rank(q, k)
  <2> SUFFICES ASSUME NEW j \in r, NEW k \in s \ r
               PROVE  Pages!Rank(q, j) <= Pages!Rank(q, k)
    OBVIOUS
  <2>1. /\ LineOf(j) \in p /\ LineOf(k) \in Pages!Lines(q, s) \ p
        /\ LineOf(j)[1] = j /\ LineOf(k)[1] = k
    BY <1>1, <1>2 DEF LineOf
  <2> QED
    BY <2>1 DEF Pages!Sorted
<1>8. /\ \A j \in s : Pages!Rank(q, j) \in Int
      /\ \A j \in s \ {i} : Pages!Rank(q, i) # Pages!Rank(q, j)
  BY Ranks DEF Untied
<1>9. CASE i \in r
  <2>1. Ahead(s, q, i) \subseteq r \ {i}
    <3> SUFFICES ASSUME NEW j \in s, Pages!Rank(q, j) < Pages!Rank(q, i), j \notin r \ {i}
                 PROVE  FALSE
      BY DEF Ahead
    <3>1. j # i /\ j \in s \ r
      BY <1>8
    <3> QED
      BY <1>7, <1>8, <1>9, <3>1
  <2>2. IsFiniteSet(r \ {i}) /\ Cardinality(r \ {i}) = some - 1
    BY <1>4, <1>5, <1>9, FS_RemoveElement
  <2>3. ahead <= some - 1
    BY <1>5, <2>1, <2>2, FS_Subset
  <2> QED
    BY <1>1, <1>5, <1>6, <1>9, <2>3
<1>10. CASE i \notin r
  <2>1. r \subseteq Ahead(s, q, i)
    <3> SUFFICES ASSUME NEW j \in r PROVE Pages!Rank(q, j) < Pages!Rank(q, i)
      BY <1>4 DEF Ahead
    <3> QED
      BY <1>4, <1>7, <1>8, <1>10
  <2>2. some <= ahead
    BY <1>4, <1>5, <2>1, FS_Subset
  <2>3. some # all
    BY <1>4, <1>5, <1>10, FS_Subset
  <2> QED
    BY <1>1, <1>5, <1>6, <1>10, <2>2, <2>3
<1> QED
  BY <1>9, <1>10

(* A page has an untied row if as many come before it as were skipped, and *)
(* fewer than were skipped or taken.                                       *)
LEMMA PageHas ==
  ASSUME PagesAssumption, NEW s \in SUBSET Ids, NEW q, ~q.joined, ~q.whole,
         NEW skip \in Nat, NEW take \in Nat, NEW page1 \in Pages!Slices(q, s, skip, take),
         NEW i \in s, Untied(q, i)
  PROVE  i \in page1 <=> /\ skip <= Cardinality(Ahead(s, q, i))
                         /\ Cardinality(Ahead(s, q, i)) < skip + take
<1> DEFINE Lines1 == Pages!Lines(q, s)
           Prefixes(n) == {p \in SUBSET Lines1 :
                             /\ Pages!Cardinality(p) = Pages!Smaller(n, Pages!Cardinality(Lines1))
                             /\ Pages!Sorted(q, p, Lines1 \ p)}
<1>1. PICK b, e : /\ b \in Prefixes(skip) /\ e \in Prefixes(skip + take)
                  /\ page1 = {l[1] : l \in e \ b}
  BY DEF Pages!Slices
<1>2. /\ b \in SUBSET Lines1 /\ e \in SUBSET Lines1
      /\ Cardinality(b) = Pages!Smaller(skip, Cardinality(Lines1))
      /\ Cardinality(e) = Pages!Smaller(skip + take, Cardinality(Lines1))
      /\ Pages!Sorted(q, b, Lines1 \ b) /\ Pages!Sorted(q, e, Lines1 \ e)
  BY <1>1, PagesCountAlike
<1>3. Lines1 = {LineOf(j) : j \in s}
  BY DEF Pages!Lines, LineOf
<1>4. i \in page1 <=> LineOf(i) \in e /\ LineOf(i) \notin b
  <2>1. \A l \in Lines1 : l = LineOf(l[1])
    BY <1>3 DEF LineOf
  <2>2. LineOf(i)[1] = i
    BY DEF LineOf
  <2> QED
    BY <1>1, <1>2, <2>1, <2>2
<1>5. LineOf(i) \in b <=> Cardinality(Ahead(s, q, i)) < skip
  BY <1>2, PrefixHas
<1>6. LineOf(i) \in e <=> Cardinality(Ahead(s, q, i)) < skip + take
  <2>1. skip + take \in Nat
    OBVIOUS
  <2> QED
    BY <1>2, <2>1, PrefixHas
<1>7. Cardinality(Ahead(s, q, i)) \in Nat
  <2>1. IsFiniteSet(Ahead(s, q, i))
    BY FS_Subset DEF Ahead, PagesAssumption
  <2> QED
    BY <2>1, FS_CardinalityType
<1> QED
  BY <1>4, <1>5, <1>6, <1>7

\* The pages read so far.
Turned == IF read = TRUE THEN page ELSE page - 1

\* The rows whose place says whether they are listed.
Placed == {i \in stayed : Untied(pListing.query, i)}

Seats(i) == Cardinality(Ahead(found, pListing.query, i))

\* What is not listed yet is on a page to come, and the count covers it.
ToCome == \A i \in Placed \ listed : Seats(i) >= PerPage * Turned

Covered ==
  /\ read = TRUE => \A i \in Placed \ listed : count > PerPage * page
  /\ read = FALSE => count >= Cardinality(found)

\* What is listed is on a page that was turned.
Shown == \A i \in Placed \cap listed : Seats(i) < PerPage * Turned

PagesInv ==
  /\ pListing \in Pages!Handlers /\ found \subseteq Ids /\ stayed \subseteq found
  /\ page \in Nat /\ read \in BOOLEAN /\ count \in Nat \cup {-1}
  /\ left \in BOOLEAN /\ came \in BOOLEAN /\ overtaken \in BOOLEAN
  /\ page = 0 => read = FALSE
  /\ left = FALSE /\ ~pListing.query.joined =>
       /\ page > 0 => ToCome
       /\ page > 0 /\ came = FALSE => Shown
       /\ overtaken = FALSE /\ page > 0 /\ count # -1 => Covered
       /\ overtaken = FALSE /\ page = 0 => Placed \subseteq listed
       /\ came = FALSE => Placed \cap again = {}

LEMMA Multiples ==
  ASSUME PagesAssumption, NEW m \in Nat, NEW n \in Nat
  PROVE  /\ PerPage * n \in Nat /\ PerPage * (n + 1) = PerPage * n + PerPage
         /\ m <= n => PerPage * m <= PerPage * n
<1>1. PerPage \in Nat
  BY DEF PagesAssumption
<1>2. PerPage * n \in Nat /\ PerPage * (n + 1) = PerPage * n + PerPage
  BY <1>1
<1>3. ASSUME m <= n PROVE PerPage * m <= PerPage * n
  <2>1. PICK d \in Nat : n = m + d
    <3>1. n - m \in Nat /\ n = m + (n - m)
      BY <1>3
    <3> QED
      BY <3>1
  <2>2. PerPage * n = PerPage * m + PerPage * d
    BY <1>1, <2>1
  <2>3. PerPage * d \in Nat /\ PerPage * m \in Nat
    BY <1>1
  <2> QED
    BY <2>2, <2>3
<1> QED
  BY <1>2, <1>3

(* The pages that are counted have room for all that is counted.           *)
LEMMA PagesCover ==
  ASSUME PagesAssumption, NEW wanted \in Nat, NEW n \in Nat, n >= Pages!PageCount(wanted)
  PROVE  PerPage * n >= wanted
<1>1. PICK full, rest : full = wanted \div PerPage /\ rest = wanted % PerPage
  OBVIOUS
<1>2. /\ full \in Nat /\ rest \in 0..(PerPage - 1) /\ wanted = PerPage * full + rest
      /\ PerPage \in Nat
  <2>1. PerPage \in Nat \ {0}
    BY DEF PagesAssumption
  <2>2. wanted \div PerPage \in Nat
    BY <2>1
  <2>3. wanted % PerPage \in 0..(PerPage - 1)
    BY <2>1
  <2>4. wanted = PerPage * (wanted \div PerPage) + (wanted % PerPage)
    BY <2>1
  <2> QED
    BY <1>1, <2>1, <2>2, <2>3, <2>4
<1>3. Pages!PageCount(wanted) = full + (IF rest = 0 THEN 0 ELSE 1)
  BY <1>1 DEF Pages!PageCount
<1>4. CASE rest = 0
  <2>1. full <= n
    BY <1>2, <1>3, <1>4
  <2>2. PerPage * full <= PerPage * n /\ PerPage * full = wanted
    BY <1>2, <1>4, <2>1, Multiples
  <2>3. PerPage * n \in Nat
    BY Multiples
  <2> QED
    BY <2>2, <2>3
<1>5. CASE rest # 0
  <2>1. full + 1 <= n /\ full + 1 \in Nat
    BY <1>2, <1>3, <1>5
  <2>2. /\ PerPage * (full + 1) <= PerPage * n
        /\ PerPage * (full + 1) = PerPage * full + PerPage
        /\ PerPage * n \in Nat /\ PerPage * full \in Nat
    BY <1>2, <2>1, Multiples
  <2> QED
    BY <1>2, <2>2
<1> QED
  BY <1>4, <1>5

LEMMA SeatsCount ==
  ASSUME PagesAssumption, NEW s \in SUBSET Ids, NEW q, NEW i \in s
  PROVE  /\ IsFiniteSet(s) /\ Cardinality(s) \in Nat
         /\ IsFiniteSet(Ahead(s, q, i)) /\ Cardinality(Ahead(s, q, i)) \in Nat
         /\ Cardinality(Ahead(s, q, i)) < Cardinality(s)
<1>1. IsFiniteSet(s)
  BY FS_Subset DEF PagesAssumption
<1>2. Ahead(s, q, i) \subseteq s \ {i}
  BY Ranks DEF Ahead
<1>3. /\ IsFiniteSet(s \ {i}) /\ Cardinality(s \ {i}) = Cardinality(s) - 1
      /\ Cardinality(s) \in Nat
  BY <1>1, FS_RemoveElement, FS_CardinalityType
<1>4. IsFiniteSet(Ahead(s, q, i)) /\ Cardinality(Ahead(s, q, i)) <= Cardinality(s) - 1
  BY <1>2, <1>3, FS_Subset
<1>5. Cardinality(Ahead(s, q, i)) \in Nat
  BY <1>4, FS_CardinalityType
<1> QED
  BY <1>1, <1>3, <1>4, <1>5

LEMMA SeatsGrow ==
  ASSUME PagesAssumption, NEW s \in SUBSET Ids, NEW q, NEW i \in s, NEW j \in Ids
  PROVE  Cardinality(Ahead(s, q, i)) <= Cardinality(Ahead(s \cup {j}, q, i))
<1>1. Ahead(s, q, i) \subseteq Ahead(s \cup {j}, q, i)
  BY DEF Ahead
<1>2. IsFiniteSet(Ahead(s \cup {j}, q, i))
  <2>1. s \cup {j} \in SUBSET Ids /\ i \in s \cup {j}
    OBVIOUS
  <2> QED
    BY <2>1, SeatsCount
<1> QED
  BY <1>1, <1>2, FS_Subset

(* Where pages are ignored, the rows are in no order.                      *)
LEMMA WholeIsTied ==
  ASSUME PagesAssumption, PagesInv, pListing.query.whole, ~pListing.query.joined
  PROVE  Placed = {}
<1>1. pListing.query.by = "nothing"
  BY WholeHasNoOrder DEF PagesInv
<1>2. \A i : Pages!Rank(pListing.query, i) = 0
  BY <1>1 DEF Pages!Rank
<1>3. \A i \in Ids : \E j \in Ids : j # i
  BY DEF PagesAssumption
<1> QED
  BY <1>2, <1>3 DEF Placed, Untied, PagesInv

LEMMA PagesInit == PagesAssumption /\ Pages!Init => PagesInv
<1> SUFFICES ASSUME PagesAssumption, Pages!Init PROVE PagesInv
  OBVIOUS
<1>1. /\ pListing \in Pages!Handlers /\ found \subseteq Ids /\ stayed = found
      /\ page = 1 /\ read = FALSE /\ count = -1 /\ listed = {} /\ again = {}
      /\ came = FALSE /\ left = FALSE /\ overtaken = FALSE
  BY DEF Pages!Init, Pages!NotYet
<1>2. Turned = 0 /\ PerPage * Turned = 0
  BY <1>1 DEF Turned, PagesAssumption
<1>3. \A i \in Placed : Seats(i) \in Nat
  BY <1>1, SeatsCount DEF Placed, Seats
<1>4. ToCome /\ Shown
  BY <1>1, <1>2, <1>3 DEF ToCome, Shown
<1>5. count # -1 <=> FALSE
  BY <1>1
<1>6. Placed \cap again = {}
  BY <1>1
<1>7. page = 0 <=> FALSE
  BY <1>1
<1>8. /\ page \in Nat /\ read \in BOOLEAN /\ count \in Nat \cup {-1}
      /\ left \in BOOLEAN /\ came \in BOOLEAN /\ overtaken \in BOOLEAN
      /\ pListing \in Pages!Handlers /\ found \subseteq Ids /\ stayed \subseteq found
  BY <1>1
<1> QED
  BY <1>4, <1>5, <1>6, <1>7, <1>8 DEF PagesInv

LEMMA PagesRead == ASSUME PagesAssumption, PagesInv, Pages!Read PROVE PagesInv'
<1> DEFINE q == pListing.query
<1>1. PICK rows1 \in Pages!Slices(q, found, Pages!Skip(page), PerPage) :
        again' = again \cup (listed \cap rows1) /\ listed' = listed \cup rows1
  BY DEF Pages!Read
<1>2. /\ page > 0 /\ read = FALSE /\ read' = TRUE
      /\ UNCHANGED <<pListing, found, page, count, stayed, came, left, overtaken>>
  BY DEF Pages!Read, PagesInv
<1>3. Placed' = Placed /\ \A i : Seats(i)' = Seats(i)
  BY <1>2 DEF Placed, Seats
<1>4. PICK skip \in Nat, end \in Nat :
        /\ skip = PerPage * (page - 1) /\ end = PerPage * page /\ end = skip + PerPage
        /\ skip = Pages!Skip(page) /\ PerPage \in Nat
  <2>1. page - 1 \in Nat /\ (page - 1) + 1 = page
    BY <1>2 DEF PagesInv
  <2>2. /\ PerPage * (page - 1) \in Nat
        /\ PerPage * ((page - 1) + 1) = PerPage * (page - 1) + PerPage
    BY <2>1, Multiples
  <2> QED
    BY <2>1, <2>2 DEF Pages!Skip, PagesAssumption
<1>5. PerPage * Turned = skip /\ (PerPage * Turned)' = end
  BY <1>2, <1>4 DEF Turned
<1>6. ASSUME left = FALSE, ~q.joined
      PROVE  \A i \in Placed : i \in rows1 <=> skip <= Seats(i) /\ Seats(i) < end
  <2>1. CASE q.whole
    BY <1>6, <2>1, WholeIsTied
  <2>2. ASSUME ~q.whole, NEW i \in Placed
        PROVE  i \in rows1 <=> skip <= Seats(i) /\ Seats(i) < end
    <3>1. i \in found /\ found \in SUBSET Ids /\ Untied(q, i)
      BY DEF Placed, PagesInv
    <3>2. rows1 \in Pages!Slices(q, found, skip, PerPage)
      BY <1>1, <1>4
    <3>3. i \in rows1 <=> /\ skip <= Cardinality(Ahead(found, q, i))
                          /\ Cardinality(Ahead(found, q, i)) < skip + PerPage
      BY <1>4, <1>6, <2>2, <3>1, <3>2, PageHas
    <3> QED
      BY <1>4, <3>3 DEF Seats
  <2> QED
    BY <2>1, <2>2
<1>7. /\ Cardinality(found) \in Nat
      /\ \A i \in Placed : Seats(i) \in Nat /\ Seats(i) < Cardinality(found)
  <2>1. IsFiniteSet(found)
    BY FS_Subset DEF PagesAssumption, PagesInv
  <2> QED
    BY <2>1, SeatsCount, FS_CardinalityType DEF Placed, Seats, PagesInv
<1>8. left = FALSE /\ ~q.joined => ToCome'
  <2> SUFFICES ASSUME left = FALSE, ~q.joined, NEW i \in Placed \ listed' PROVE Seats(i) >= end
    BY <1>3, <1>5 DEF ToCome
  <2>1. i \in Placed \ listed /\ i \notin rows1
    BY <1>1
  <2>2. Seats(i) >= skip
    BY <1>2, <1>5, <2>1 DEF PagesInv, ToCome
  <2>3. i \in rows1 <=> skip <= Seats(i) /\ Seats(i) < end
    BY <1>6
  <2>4. Seats(i) \in Nat
    BY <1>7
  <2> QED
    BY <1>4, <2>1, <2>2, <2>3, <2>4
<1>9. left = FALSE /\ ~q.joined /\ came = FALSE => Shown'
  <2> SUFFICES ASSUME left = FALSE, ~q.joined, came = FALSE, NEW i \in Placed \cap listed' PROVE Seats(i) < end
    BY <1>3, <1>5 DEF Shown
  <2>1. CASE i \in listed
    <3>1. Seats(i) < skip
      BY <1>2, <1>5, <2>1 DEF PagesInv, Shown
    <3> QED
      BY <1>4, <1>7, <3>1
  <2>2. CASE i \in rows1
    BY <1>6, <2>2
  <2> QED
    BY <1>1, <2>1, <2>2
<1>10. left = FALSE /\ ~q.joined /\ overtaken = FALSE /\ count # -1 => Covered'
  <2> SUFFICES ASSUME left = FALSE, ~q.joined, overtaken = FALSE, count # -1, NEW i \in Placed \ listed'
               PROVE  count > end
    BY <1>2, <1>3, <1>4 DEF Covered
  <2>1. count \in Nat /\ count >= Cardinality(found)
    BY <1>2 DEF PagesInv, Covered
  <2>2. Seats(i) >= end
    BY <1>3, <1>5, <1>8 DEF ToCome
  <2> QED
    BY <1>7, <2>1, <2>2
<1>11. left = FALSE /\ ~q.joined /\ came = FALSE => Placed \cap again' = {}
  <2> SUFFICES ASSUME left = FALSE, ~q.joined, came = FALSE, NEW i \in Placed \cap listed, i \in rows1 PROVE FALSE
    BY <1>1 DEF PagesInv
  <2>1. Seats(i) < skip
    BY <1>2, <1>5 DEF PagesInv, Shown
  <2>2. i \in rows1 <=> skip <= Seats(i) /\ Seats(i) < end
    BY <1>6
  <2>3. Seats(i) \in Nat
    BY <1>7
  <2> QED
    BY <1>4, <2>1, <2>2, <2>3
<1> QED
  BY <1>2, <1>3, <1>8, <1>9, <1>10, <1>11 DEF PagesInv

LEMMA PagesCount == ASSUME PagesAssumption, PagesInv, Pages!Count PROVE PagesInv'
<1>1. /\ page > 0 /\ count = -1 /\ count' \in {Cardinality(found), Cardinality(found) + 1}
      /\ UNCHANGED <<pListing, found, page, read, listed, again, stayed, came, left, overtaken>>
  BY PagesCountAlike DEF Pages!Count, Pages!NotYet
<1>2. /\ Placed' = Placed /\ \A i : Seats(i)' = Seats(i)
      /\ Turned' = Turned
  BY <1>1 DEF Placed, Seats, Turned
<1>3. /\ Cardinality(found) \in Nat
      /\ \A i \in Placed : Seats(i) \in Nat /\ Seats(i) < Cardinality(found)
  <2>1. IsFiniteSet(found)
    BY FS_Subset DEF PagesAssumption, PagesInv
  <2> QED
    BY <2>1, SeatsCount, FS_CardinalityType DEF Placed, Seats, PagesInv
<1>4. count' \in Nat /\ count' >= Cardinality(found)
  BY <1>1, <1>3
<1>5. ASSUME left = FALSE, ~pListing.query.joined
      PROVE  Covered'
  <2>1. ASSUME read = TRUE, NEW i \in Placed \ listed
        PROVE  count' > PerPage * page
    <3>1. Seats(i) >= PerPage * page /\ PerPage * page \in Nat
      BY <1>1, <1>5, <2>1, Multiples DEF PagesInv, ToCome, Turned
    <3> QED
      BY <1>3, <1>4, <3>1
  <2> QED
    BY <1>1, <1>2, <1>4, <2>1 DEF Covered
<1>6. (ToCome <=> ToCome') /\ (Shown <=> Shown')
  BY <1>1, <1>2 DEF ToCome, Shown
<1> QED
  BY <1>1, <1>2, <1>4, <1>5, <1>6 DEF PagesInv

LEMMA PagesTurn == ASSUME PagesAssumption, PagesInv, Pages!Turn PROVE PagesInv'
<1>1. /\ read = TRUE /\ count \in Nat /\ read' = FALSE /\ count' = -1
      /\ UNCHANGED <<pListing, found, listed, again, stayed, came, left, overtaken>>
      /\ page' = IF page < Pages!PageCount(count) THEN page + 1 ELSE 0
  BY DEF Pages!Turn, Pages!NotYet, PagesInv
<1>2. Placed' = Placed /\ \A i : Seats(i)' = Seats(i)
  BY <1>1 DEF Placed, Seats
<1>3. page \in Nat \ {0} /\ Pages!PageCount(count) \in Nat
  <2>1. count \div PerPage \in Nat
    BY <1>1 DEF PagesAssumption
  <2> QED
    BY <1>1, <2>1 DEF Pages!PageCount, PagesInv
<1>4. CASE page < Pages!PageCount(count)
  <2>1. page' = page + 1 /\ Turned' = (page + 1) - 1 /\ Turned = page /\ Turned' = Turned
    BY <1>1, <1>3, <1>4 DEF Turned
  <2>2. page' > 0 /\ page' \in Nat /\ page > 0
    BY <1>3, <2>1
  <2>3. (ToCome <=> ToCome') /\ (Shown <=> Shown')
    BY <1>1, <1>2, <2>1 DEF ToCome, Shown
  <2>4. count' # -1 <=> FALSE
    BY <1>1
  <2>5. page' = 0 <=> FALSE
    BY <2>2
  <2> QED
    BY <1>1, <1>2, <2>2, <2>3, <2>4, <2>5 DEF PagesInv
<1>5. CASE ~(page < Pages!PageCount(count))
  <2>1. page' = 0 /\ page >= Pages!PageCount(count) /\ page > 0
    BY <1>1, <1>3, <1>5
  <2>2. PerPage * page >= count /\ PerPage * page \in Nat
    BY <1>1, <1>3, <2>1, PagesCover, Multiples
  <2>3. ASSUME left = FALSE, ~pListing.query.joined, overtaken = FALSE
        PROVE  Placed \subseteq listed
    <3>1. Covered
      BY <1>1, <2>1, <2>3 DEF PagesInv
    <3> QED
      BY <1>1, <2>2, <3>1 DEF Covered
  <2>4. page' > 0 <=> FALSE
    BY <2>1
  <2>5. left = FALSE /\ ~pListing.query.joined /\ came = FALSE => Placed \cap again = {}
    BY DEF PagesInv
  <2>6. (page' = 0 => read' = FALSE) /\ page' \in Nat /\ count' \in Nat \cup {-1}
    BY <1>1, <2>1
  <2>7. ASSUME left' = FALSE, ~pListing'.query.joined
        PROVE  /\ overtaken' = FALSE /\ page' = 0 => Placed' \subseteq listed'
               /\ came' = FALSE => Placed' \cap again' = {}
    BY <1>1, <1>2, <2>3, <2>5, <2>7
  <2> QED
    BY <1>1, <2>4, <2>6, <2>7 DEF PagesInv
<1> QED
  BY <1>4, <1>5

LEMMA PagesCome ==
  ASSUME PagesAssumption, PagesInv, NEW j \in Ids, Pages!Come(j)
  PROVE  PagesInv'
<1>1. /\ page > 0 /\ found' = found \cup {j} /\ came' = TRUE
      /\ overtaken' = (overtaken \/ (count # -1 /\ ~read))
      /\ UNCHANGED <<pListing, page, read, count, listed, again, stayed, left>>
  BY DEF Pages!Come, Pages!NotYet
<1>2. overtaken' \in BOOLEAN
  BY <1>1, Zenon
<1>3. overtaken' = FALSE => overtaken = FALSE /\ (count = -1 \/ read = TRUE)
  BY <1>1, Zenon DEF PagesInv
<1>4. Placed' = Placed /\ Turned' = Turned
  BY <1>1 DEF Placed, Turned
<1>5. \A i \in Placed : Seats(i)' \in Nat /\ Seats(i) \in Nat /\ Seats(i) <= Seats(i)'
  <2> SUFFICES ASSUME NEW i \in Placed
               PROVE  Seats(i)' \in Nat /\ Seats(i) \in Nat /\ Seats(i) <= Seats(i)'
    OBVIOUS
  <2>1. /\ i \in found /\ found \in SUBSET Ids
        /\ i \in found' /\ found' \in SUBSET Ids
    BY <1>1 DEF Placed, PagesInv
  <2> QED
    BY <1>1, <2>1, SeatsCount, SeatsGrow DEF Seats
<1>6. page \in Nat /\ Turned \in Nat /\ PerPage * Turned \in Nat
  <2>1. page \in Nat /\ Turned \in Nat
    BY <1>1 DEF PagesInv, Turned
  <2> QED
    BY <2>1, Multiples
<1>7. ToCome => ToCome'
  BY <1>1, <1>4, <1>5, <1>6 DEF ToCome
<1>8. overtaken' = FALSE /\ count # -1 /\ Covered => Covered'
  BY <1>1, <1>3, <1>4 DEF Covered
<1> QED
  BY <1>1, <1>2, <1>3, <1>4, <1>7, <1>8 DEF PagesInv

LEMMA PagesLeave ==
  ASSUME PagesInv, NEW j \in Ids, Pages!Leave(j)
  PROVE  PagesInv'
<1>1. /\ found' = found \ {j} /\ stayed' = stayed \ {j} /\ left' = TRUE
      /\ UNCHANGED <<pListing, page, read, count, came, overtaken>>
  BY DEF Pages!Leave
<1> QED
  BY <1>1 DEF PagesInv

(* Who turns the pages of a listing to the last has seen every row that    *)
(* was there all the time, but for the causes named, for any rows, any     *)
(* length of a page and every listing (findAll and its kin).               *)
THEOREM EveryRowSeen == PagesAssumption => (Pages!Spec => []Pages!EveryRowIsListed)
<1> SUFFICES ASSUME PagesAssumption PROVE Pages!Spec => []Pages!EveryRowIsListed
  OBVIOUS
<1>1. Pages!Init => PagesInv
  BY PagesInit
<1>2. PagesInv /\ [Pages!Next]_(Pages!vars) => PagesInv'
  <2> SUFFICES ASSUME PagesInv, [Pages!Next]_(Pages!vars) PROVE PagesInv'
    OBVIOUS
  <2>1. CASE Pages!Next
    BY <2>1, PagesRead, PagesCount, PagesTurn, PagesCome, PagesLeave DEF Pages!Next
  <2>2. CASE UNCHANGED Pages!vars
    BY <2>2 DEF Pages!vars, PagesInv, ToCome, Shown, Covered, Placed, Seats, Turned
  <2> QED
    BY <2>1, <2>2
<1>3. PagesInv => Pages!EveryRowIsListed
  <2> SUFFICES ASSUME PagesInv, page = 0, ~pListing.query.joined, NEW i \in stayed,
                      ~Pages!Tied(i), ~left
               PROVE  (overtaken \/ i \in listed) /\ (came \/ i \notin again)
    BY Zenon DEF Pages!EveryRowIsListed
  <2>1. i \in Placed
    BY DEF Placed, Untied, Pages!Tied
  <2>2. left = FALSE /\ (overtaken \/ overtaken = FALSE) /\ (came \/ came = FALSE)
    BY Zenon DEF PagesInv
  <2>3. overtaken = FALSE => i \in listed
    BY <2>1, <2>2 DEF PagesInv
  <2>4. came = FALSE => i \notin again
    BY <2>1, <2>2 DEF PagesInv
  <2> QED
    BY <2>2, <2>3, <2>4, Zenon
<1> QED
  BY <1>1, <1>2, <1>3, PTL DEF Pages!Spec

(* What the composition checks of pages, for rows in any number.           *)
THEOREM PagesShowEveryRow ==
  PagesAssumption => (RecordsSpec => [](which = "pages" => Pages!EveryRowIsListed))
<1> SUFFICES ASSUME PagesAssumption
             PROVE  RecordsSpec => [](which = "pages" => Pages!EveryRowIsListed)
  OBVIOUS
<1>1. RecordsInit => Pages!Init
  BY DEF RecordsInit
<1>2. [RecordsNext]_<<which, taskVars, listVars, pageVars, vars, linesVars>>
        => [Pages!Next]_(Pages!vars)
  BY DEF RecordsNext, pageVars, Pages!vars
<1>3. Pages!EveryRowIsListed => (which = "pages" => Pages!EveryRowIsListed)
  OBVIOUS
<1> QED
  BY <1>1, <1>2, <1>3, EveryRowSeen, PTL DEF RecordsSpec, Pages!Spec

-----------------------------------------------------------------------------
(* Items and their lines in Xero.                                          *)

Idle == "idle"

NoEditor == \A h \in Editors : editor[h].step = "idle"

(* Rows that are the same but for their references, or but for whether     *)
(* they are completed.                                                     *)
SameAmounts(f, g) == DOMAIN f = DOMAIN g /\ \A i \in DOMAIN f : f[i].amount = g[i].amount

SameRows(f, g) ==
  /\ DOMAIN f = DOMAIN g
  /\ \A i \in DOMAIN f :
       f[i].title = g[i].title /\ f[i].amount = g[i].amount /\ f[i].ref = g[i].ref

OneRef(f) == \A i, j \in DOMAIN f : f[i].ref = f[j].ref /\ f[i].ref # None => i = j

OneTitle(f) == \A i, j \in DOMAIN f : f[i].title = f[j].title => i = j

(* Unless something raced: one user at a time, one import, and no import   *)
(* beside a user or a job.                                                 *)
OneAtATime ==
  /\ \A g, h \in Editors : editor[g].step # "idle" /\ editor[h].step # "idle" => g = h
  /\ \A k, l \in Imports : import[k].step # "idle" /\ import[l].step # "idle" => k = l
  /\ \A k \in Imports : import[k].step # "idle" => NoEditor /\ lJob.step = "idle" /\ lQueue = 0

\* What a request of a user has still to write are rows that are there, and new ones.
WritesRows(h) ==
  /\ editor[h].step \in {"delete", "write"} => editor[h].fails = FALSE
  /\ editor[h].step = "delete" =>
       editor[h].keep \subseteq DOMAIN items
         /\ \A e \in editor[h].entries : e.id = None \/ e.id \in editor[h].keep
  /\ editor[h].step = "write" =>
       editor[h].entries # {} /\ \A e \in editor[h].entries : e.id = None \/ e.id \in DOMAIN items
  /\ editor[h].step = "total" => editor[h].sum = Lines!Sum(items)

\* What an import has read is what there is, until it writes it.
ImportsRows(k) ==
  /\ import[k].step \notin {"idle", "ask"} /\ foreign = FALSE => lines = import[k].answer
  /\ import[k].step \in {"row", "delete"} => import[k].rows = items
  /\ import[k].step \in {"delete", "write"} => total = Lines!Sum(import[k].answer)
  /\ import[k].step = "write" =>
       /\ OneRef(import[k].rows)
       /\ import[k].todo \subseteq DOMAIN import[k].answer /\ import[k].todo # {}
       /\ \A i \in DOMAIN items : items[i].ref \in DOMAIN import[k].answer
       /\ \A i \in DOMAIN items :
            items[i].ref \in import[k].todo =>
              i \in DOMAIN import[k].rows /\ items[i] = import[k].rows[i]
       /\ \A i \in DOMAIN import[k].rows :
            import[k].rows[i].ref \in import[k].todo =>
              i \in DOMAIN items /\ items[i] = import[k].rows[i]
       /\ \A r \in DOMAIN import[k].answer \ import[k].todo :
            \E i \in DOMAIN items :
              items[i].ref = r /\ Lines!Line(items[i]) = import[k].answer[r]

RowsOk ==
  /\ OneAtATime
  /\ OneRef(items)
  /\ \A h \in Editors : WritesRows(h)
  /\ \A k \in Imports : ImportsRows(k)

RowsInv == raced = FALSE => RowsOk

(* While nothing else is to come, a job writes what there is, then stores  *)
(* what refers to it, and then all is there.                               *)
Pushes == SameRows(lJob.rows, items)

Stores ==
  /\ \A t, u \in lJob.todo : t[1] = u[1] \/ t[2] = u[2] => t = u
  /\ \A t \in lJob.todo :
       /\ t[1] \in DOMAIN items /\ items[t[1]].ref = None
       /\ \A i \in DOMAIN items : items[i].ref # t[2]
  /\ \A i \in DOMAIN items : items[i].ref = None => \E t \in lJob.todo : t[1] = i
  /\ foreign = FALSE =>
       /\ \A r : r \in DOMAIN lines <=>
            (\E i \in DOMAIN items : items[i].ref = r /\ r # None) \/ \E t \in lJob.todo : t[2] = r
       /\ \A i \in DOMAIN items : items[i].ref # None => Lines!Line(items[i]) = lines[items[i].ref]
       /\ \A t \in lJob.todo : Lines!Line(items[t[1]]) = lines[t[2]]

Matches ==
  /\ {items[i].ref : i \in DOMAIN items} = DOMAIN lines
  /\ \A i \in DOMAIN items : Lines!Line(items[i]) = lines[items[i].ref]

\* When nothing failed in the last request, and it has ended.
TotalOk ==
  broken = FALSE /\ NoEditor /\ (\A k \in Imports : import[k].step \notin {"delete", "write"})
    => total = Lines!Sum(items)

JobOk ==
  broken = FALSE /\ NoEditor /\ lQueue = 0 =>
    /\ lJob.step = "push" => Pushes
    /\ lJob.step = "store" => Stores

IdleOk ==
  /\ broken = FALSE /\ NoEditor /\ lQueue = 0 /\ lJob.step = "idle"
  /\ \A k \in Imports : import[k].step # "write"
  => /\ \A i \in DOMAIN items : items[i].ref # None
     /\ (\A k \in Imports : import[k].step \in {"idle", "ask"}) /\ foreign = FALSE => Matches

SyncOk ==
  /\ lJob.step = "push" => OneTitle(lJob.rows)
  /\ TotalOk /\ JobOk /\ IdleOk
  /\ undone = {}

SyncInv == raced = FALSE /\ twins = FALSE => SyncOk
-----------------------------------------------------------------------------
(* Sums of amounts.  A fold takes the elements of a set in an order of its *)
(* own; any order gives the same.                                          *)

\* One step of the fold: a sum is over one element of the set, and the others.
Adds(f, g, s) ==
  IF s = {} THEN 0 ELSE LET x == CHOOSE y \in s : TRUE IN f[x].amount + g[s \ {x}]

\* g has the sum over every subset of a set.
IsFold(f, g, D) == g = [s \in SUBSET D |-> Adds(f, g, s)]

(* A set of subsets of a finite set has a least one: what holds of a set   *)
(* if it holds of all that is less holds of every finite set.              *)
LEMMA LeastSubset ==
  ASSUME NEW D, IsFiniteSet(D), NEW B \in SUBSET SUBSET D, B # {}
  PROVE  \E s \in B : \A u \in SUBSET s : u # s => u \notin B
<1>1. IsWellFoundedOn(StrictSubsetOrdering(D), SUBSET D)
  BY FS_StrictSubsetOrderingWellFounded, FS_FiniteSubsetsOfFinite
<1>2. PICK s \in B : \A u \in B : <<u, s>> \notin StrictSubsetOrdering(D)
  BY <1>1, WFMin
<1>3. ASSUME NEW u \in SUBSET s, u # s, u \in B PROVE FALSE
  <2>1. <<u, s>> \in StrictSubsetOrdering(D)
    BY <1>3 DEF StrictSubsetOrdering
  <2> QED
    BY <1>2, <1>3, <2>1
<1> QED
  BY <1>3

LEMMA Chosen == \A s : s # {} => (CHOOSE y \in s : TRUE) \in s
<1> SUFFICES ASSUME NEW s, s # {} PROVE (CHOOSE y \in s : TRUE) \in s
  OBVIOUS
<1>1. \E y \in s : TRUE
  OBVIOUS
<1> QED
  BY <1>1, Zenon

(* Two folds of the same rows agree where both are defined.                *)
LEMMA FoldUnique ==
  ASSUME NEW f, NEW D, IsFiniteSet(D), NEW g, NEW h, NEW T \in SUBSET D, NEW U \in SUBSET D,
         IsFold(f, g, T), IsFold(f, h, U), NEW s \in SUBSET (T \cap U)
  PROVE  g[s] = h[s]
<1> DEFINE B == {u \in SUBSET (T \cap U) : g[u] # h[u]}
<1>1. ASSUME B # {} PROVE FALSE
  <2>1. B \in SUBSET SUBSET D
    OBVIOUS
  <2>2. PICK u \in B : \A v \in SUBSET u : v # u => v \notin B
    <3> HIDE DEF B
    <3> QED
      BY <1>1, <2>1, LeastSubset
  <2>3. u \in SUBSET (T \cap U) /\ g[u] # h[u]
    BY <2>2
  <2>4. g[u] = Adds(f, g, u) /\ h[u] = Adds(f, h, u)
    BY <2>3 DEF IsFold
  <2>5. CASE u = {}
    BY <2>3, <2>4, <2>5 DEF Adds
  <2>6. CASE u # {}
    <3>1. PICK x : x = CHOOSE y \in u : TRUE
      OBVIOUS
    <3>2. x \in u
      BY <2>6, <3>1, Chosen
    <3>3. u \ {x} \in SUBSET u /\ u \ {x} # u
      BY <3>2
    <3>4. u \ {x} \notin B /\ u \ {x} \in SUBSET (T \cap U)
      BY <2>2, <2>3, <3>3
    <3>5. g[u \ {x}] = h[u \ {x}]
      BY <3>4
    <3>6. g[u] = f[x].amount + g[u \ {x}] /\ h[u] = f[x].amount + h[u \ {x}]
      BY <2>4, <2>6, <3>1 DEF Adds
    <3> QED
      BY <2>3, <3>5, <3>6
  <2> QED
    BY <2>5, <2>6
<1>2. s \notin B
  BY <1>1
<1> QED
  BY <1>2

(* There is a fold over every finite set.                                  *)
LEMMA FoldExists ==
  ASSUME NEW f, NEW D, IsFiniteSet(D)
  PROVE  \E g : IsFold(f, g, D)
<1> DEFINE B == {s \in SUBSET D : ~\E g : IsFold(f, g, s)}
<1>1. ASSUME B # {} PROVE FALSE
  <2>1. B \in SUBSET SUBSET D
    OBVIOUS
  <2>2. PICK s \in B : \A u \in SUBSET s : u # s => u \notin B
    <3> HIDE DEF B
    <3> QED
      BY <1>1, <2>1, LeastSubset
  <2>3. s \in SUBSET D /\ ~\E g : IsFold(f, g, s)
    BY <2>2
  <2> DEFINE F(u) == CHOOSE g : IsFold(f, g, u)
             G == [u \in SUBSET s |-> IF u = {} THEN 0
                                      ELSE LET x == CHOOSE y \in u : TRUE
                                           IN f[x].amount + F(u \ {x})[u \ {x}]]
  <2>4. \A u \in SUBSET s : u # s => IsFold(f, F(u), u)
    <3> SUFFICES ASSUME NEW u \in SUBSET s, u # s PROVE IsFold(f, F(u), u)
      OBVIOUS
    <3>1. u \notin B /\ u \in SUBSET D
      BY <2>2, <2>3
    <3>2. \E g : IsFold(f, g, u)
      BY <3>1
    <3> QED
      BY <3>2, Zenon
  <2> HIDE DEF F
  <2>5. \A u \in SUBSET s : G[u] = Adds(f, G, u)
    <3> SUFFICES ASSUME NEW u \in SUBSET s PROVE G[u] = Adds(f, G, u)
      OBVIOUS
    <3>1. CASE u = {}
      BY <3>1 DEF Adds
    <3>2. CASE u # {}
      <4>1. PICK x : x = CHOOSE y \in u : TRUE
        OBVIOUS
      <4>2. PICK v : v = u \ {x}
        OBVIOUS
      <4>3. x \in u /\ v \in SUBSET s /\ v # s /\ v \in SUBSET D
        BY <2>3, <3>2, <4>1, <4>2, Chosen
      <4>4. IsFold(f, F(v), v)
        BY <2>4, <4>3
      <4>5. F(v)[v] = Adds(f, F(v), v)
        BY <4>4 DEF IsFold
      <4>6. G[v] = Adds(f, F(v), v)
        <5>1. CASE v = {}
          BY <4>3, <5>1 DEF Adds
        <5>2. CASE v # {}
          <6>1. PICK z : z = CHOOSE y \in v : TRUE
            OBVIOUS
          <6>2. PICK w : w = v \ {z}
            OBVIOUS
          <6>3. z \in v /\ w \in SUBSET s /\ w # s /\ w \in SUBSET v /\ w \in SUBSET D
            BY <4>3, <5>2, <6>1, <6>2, Chosen
          <6>4. IsFold(f, F(w), w)
            BY <2>4, <6>3
          <6>5. F(w)[w] = F(v)[w]
            <7>1. w \in SUBSET (w \cap v)
              BY <6>3
            <7> QED
              BY <4>3, <4>4, <6>3, <6>4, <7>1, FoldUnique
          <6>6. G[v] = f[z].amount + F(w)[w]
            BY <4>3, <5>2, <6>1, <6>2
          <6>7. Adds(f, F(v), v) = f[z].amount + F(v)[w]
            BY <5>2, <6>1, <6>2 DEF Adds
          <6> QED
            BY <6>5, <6>6, <6>7
        <5> QED
          BY <5>1, <5>2
      <4>7. G[u] = f[x].amount + F(v)[v]
        BY <3>2, <4>1, <4>2
      <4>8. Adds(f, G, u) = f[x].amount + G[v]
        BY <3>2, <4>1, <4>2 DEF Adds
      <4> QED
        BY <4>5, <4>6, <4>7, <4>8
    <3> QED
      BY <3>1, <3>2
  <2>6. G = [u \in SUBSET s |-> G[u]]
    OBVIOUS
  <2> HIDE DEF G
  <2>7. IsFold(f, G, s)
    BY <2>5, <2>6 DEF IsFold
  <2> QED
    BY <2>3, <2>7
<1>2. D \notin B
  BY <1>1
<1> QED
  BY <1>2

(* So a sum is a fold's.                                                   *)
LEMMA SumIsFold ==
  ASSUME NEW f, IsFiniteSet(DOMAIN f)
  PROVE  \E g : IsFold(f, g, DOMAIN f) /\ Lines!Sum(f) = g[DOMAIN f]
<1> DEFINE g == CHOOSE g : IsFold(f, g, DOMAIN f)
<1>1. IsFold(f, g, DOMAIN f)
  BY FoldExists, Zenon
<1>2. Lines!Sum(f) = g[DOMAIN f]
  BY DEF Lines!Sum, Lines!MapThenSumSet, Lines!MapThenFoldSet, IsFold, Adds
<1> QED
  BY <1>1, <1>2

\* Amounts are numbers.
Amounts(f) == IsFiniteSet(DOMAIN f) /\ \A i \in DOMAIN f : f[i].amount \in Int

LEMMA FoldType ==
  ASSUME NEW f, Amounts(f), NEW g, IsFold(f, g, DOMAIN f), NEW s \in SUBSET DOMAIN f
  PROVE  g[s] \in Int
<1> DEFINE B == {u \in SUBSET DOMAIN f : g[u] \notin Int}
<1>1. ASSUME B # {} PROVE FALSE
  <2>1. PICK u \in B : \A v \in SUBSET u : v # u => v \notin B
    <3>1. B \in SUBSET SUBSET DOMAIN f
      OBVIOUS
    <3> HIDE DEF B
    <3> QED
      BY <1>1, <3>1, LeastSubset DEF Amounts
  <2>2. u \in SUBSET DOMAIN f /\ g[u] \notin Int /\ g[u] = Adds(f, g, u)
    BY <2>1 DEF IsFold
  <2>3. u # {}
    BY <2>2 DEF Adds
  <2>4. PICK x : x = CHOOSE y \in u : TRUE
    OBVIOUS
  <2>5. x \in u /\ u \ {x} \in SUBSET u /\ u \ {x} # u
    BY <2>3, <2>4, Chosen
  <2>6. g[u \ {x}] \in Int
    BY <2>1, <2>2, <2>5
  <2>7. g[u] = f[x].amount + g[u \ {x}]
    BY <2>2, <2>3, <2>4 DEF Adds
  <2> QED
    BY <2>2, <2>5, <2>6, <2>7 DEF Amounts
<1>2. s \notin B
  BY <1>1
<1> QED
  BY <1>2

(* A sum is any element of the set, and the others.                        *)
LEMMA FoldAny ==
  ASSUME NEW f, Amounts(f), NEW g, IsFold(f, g, DOMAIN f),
         NEW s \in SUBSET DOMAIN f, NEW z \in s
  PROVE  g[s] = f[z].amount + g[s \ {z}]
<1> DEFINE Any(u) == \A y \in u : g[u] = f[y].amount + g[u \ {y}]
           B == {u \in SUBSET DOMAIN f : ~Any(u)}
<1>1. ASSUME B # {} PROVE FALSE
  <2>1. PICK u \in B : \A v \in SUBSET u : v # u => v \notin B
    <3>1. B \in SUBSET SUBSET DOMAIN f
      OBVIOUS
    <3> HIDE DEF B
    <3> QED
      BY <1>1, <3>1, LeastSubset DEF Amounts
  <2>2. u \in SUBSET DOMAIN f /\ g[u] = Adds(f, g, u)
    BY <2>1 DEF IsFold
  <2>3. PICK y \in u : g[u] # f[y].amount + g[u \ {y}]
    BY <2>1
  <2>4. PICK x : x = CHOOSE y1 \in u : TRUE
    OBVIOUS
  <2>5. x \in u /\ g[u] = f[x].amount + g[u \ {x}] /\ x # y
    BY <2>2, <2>3, <2>4, Chosen DEF Adds
  <2>6. g[u \ {x}] = f[y].amount + g[(u \ {x}) \ {y}]
    <3>1. u \ {x} \in SUBSET u /\ u \ {x} # u /\ u \ {x} \in SUBSET DOMAIN f /\ y \in u \ {x}
      BY <2>2, <2>5
    <3>2. Any(u \ {x})
      BY <2>1, <3>1
    <3> QED
      BY <3>1, <3>2
  <2>7. g[u \ {y}] = f[x].amount + g[(u \ {y}) \ {x}]
    <3>1. u \ {y} \in SUBSET u /\ u \ {y} # u /\ u \ {y} \in SUBSET DOMAIN f /\ x \in u \ {y}
      BY <2>2, <2>5
    <3>2. Any(u \ {y})
      BY <2>1, <3>1
    <3> QED
      BY <3>1, <3>2
  <2>8. PICK w : w = (u \ {x}) \ {y} /\ w = (u \ {y}) \ {x} /\ w \in SUBSET DOMAIN f
    BY <2>2
  <2>9. g[w] \in Int /\ f[x].amount \in Int /\ f[y].amount \in Int
    BY <2>2, <2>5, <2>8, FoldType DEF Amounts
  <2>10. g[u \ {x}] = f[y].amount + g[w] /\ g[u \ {y}] = f[x].amount + g[w]
    BY <2>6, <2>7, <2>8
  <2>11. PICK a, c, d : a = f[x].amount /\ c = f[y].amount /\ d = g[w]
    OBVIOUS
  <2>12. g[u] = a + (c + d) /\ g[u] # c + (a + d)
    BY <2>3, <2>5, <2>10, <2>11
  <2>13. a \in Int /\ c \in Int /\ d \in Int
    BY <2>9, <2>11
  <2> QED
    BY <2>12, <2>13
<1>2. Any(s)
  BY <1>1
<1> QED
  BY <1>2

(* Rows with the amounts of others add up to the same.                     *)
LEMMA SumsAlike ==
  ASSUME NEW f, NEW g, Amounts(f), Amounts(g), NEW b \in [DOMAIN f -> DOMAIN g],
         \A i, j \in DOMAIN f : b[i] = b[j] => i = j,
         \A j \in DOMAIN g : \E i \in DOMAIN f : b[i] = j,
         \A i \in DOMAIN f : f[i].amount = g[b[i]].amount
  PROVE  Lines!Sum(f) = Lines!Sum(g)
<1>1. PICK p : IsFold(f, p, DOMAIN f) /\ Lines!Sum(f) = p[DOMAIN f]
  BY SumIsFold DEF Amounts
<1>2. PICK q : IsFold(g, q, DOMAIN g) /\ Lines!Sum(g) = q[DOMAIN g]
  BY SumIsFold DEF Amounts
<1> DEFINE Image(u) == {b[i] : i \in u}
           B == {u \in SUBSET DOMAIN f : p[u] # q[Image(u)]}
<1>3. ASSUME B # {} PROVE FALSE
  <2>1. PICK u \in B : \A v \in SUBSET u : v # u => v \notin B
    <3>1. B \in SUBSET SUBSET DOMAIN f
      OBVIOUS
    <3> HIDE DEF B
    <3> QED
      BY <1>3, <3>1, LeastSubset DEF Amounts
  <2>2. u \in SUBSET DOMAIN f /\ p[u] # q[Image(u)]
    BY <2>1
  <2>3. CASE u = {}
    <3>1. Image(u) = {} /\ Image(u) \in SUBSET DOMAIN g
      BY <2>3
    <3>2. p[u] = 0
      BY <1>1, <2>2, <2>3 DEF IsFold, Adds
    <3>3. q[Image(u)] = 0
      BY <1>2, <3>1 DEF IsFold, Adds
    <3> QED
      BY <2>2, <3>2, <3>3
  <2>4. CASE u # {}
    <3>1. PICK z \in u : TRUE
      BY <2>4
    <3>2. PICK v : v = u \ {z}
      OBVIOUS
    <3>8. v \in SUBSET u /\ v # u /\ v \in SUBSET DOMAIN f
      BY <2>2, <3>1, <3>2
    <3>3. p[v] = q[Image(v)]
      BY <2>1, <3>8
    <3>4. p[u] = f[z].amount + p[v]
      <4> HIDE DEF B, Image
      <4>1. u \in SUBSET DOMAIN f /\ z \in u /\ IsFold(f, p, DOMAIN f)
        BY <1>1, <2>2
      <4>2. p[u] = f[z].amount + p[u \ {z}]
        BY <4>1, FoldAny
      <4> QED
        BY <3>2, <4>2
    <3>5. Image(u) \in SUBSET DOMAIN g /\ b[z] \in Image(u)
      BY <2>2, <3>1
    <3>6. Image(v) = Image(u) \ {b[z]}
      BY <2>2, <3>1, <3>2
    <3>7. q[Image(u)] = g[b[z]].amount + q[Image(u) \ {b[z]}]
      <4> HIDE DEF Image
      <4> QED
        BY <1>2, <3>5, FoldAny
    <3> QED
      BY <2>2, <3>1, <3>3, <3>4, <3>6, <3>7
  <2> QED
    BY <2>3, <2>4
<1>4. p[DOMAIN f] = q[Image(DOMAIN f)]
  BY <1>3
<1>5. Image(DOMAIN f) = DOMAIN g
  <2>1. ASSUME NEW j \in Image(DOMAIN f) PROVE j \in DOMAIN g
    OBVIOUS
  <2>2. ASSUME NEW j \in DOMAIN g PROVE j \in Image(DOMAIN f)
    <3>1. PICK i \in DOMAIN f : b[i] = j
      OBVIOUS
    <3> QED
      BY <3>1
  <2> HIDE DEF Image
  <2> QED
    BY <2>1, <2>2
<1> QED
  BY <1>1, <1>2, <1>4, <1>5

(* Two changes that leave the sum: to what is not an amount, and none.     *)
LEMMA SumKept ==
  ASSUME NEW f, NEW g, Amounts(f), SameAmounts(f, g)
  PROVE  Lines!Sum(f) = Lines!Sum(g)
<1> DEFINE b == [i \in DOMAIN f |-> i]
<1>1. /\ Amounts(g) /\ DOMAIN g = DOMAIN f
      /\ \A i \in DOMAIN f : f[i].amount = g[i].amount
  BY DEF SameAmounts, Amounts
<1>2. /\ b \in [DOMAIN f -> DOMAIN g] /\ \A i \in DOMAIN f : b[i] = i
  BY <1>1
<1> HIDE DEF b
<1>3. /\ \A i, j \in DOMAIN f : b[i] = b[j] => i = j
      /\ \A j \in DOMAIN g : \E i \in DOMAIN f : b[i] = j
      /\ \A i \in DOMAIN f : f[i].amount = g[b[i]].amount
  BY <1>1, <1>2
<1> QED
  BY <1>1, <1>2, <1>3, SumsAlike

LEMMA SumOfNone == ASSUME NEW f, DOMAIN f = {} PROVE Lines!Sum(f) = 0
<1>1. PICK g : IsFold(f, g, DOMAIN f) /\ Lines!Sum(f) = g[DOMAIN f]
  BY SumIsFold, FS_EmptySet
<1> QED
  BY <1>1 DEF IsFold, Adds

LEMMA SumOfOne ==
  ASSUME NEW f, DOMAIN f = {1}, f[1].amount \in Int
  PROVE  Lines!Sum(f) = f[1].amount
<1>1. Amounts(f)
  BY FS_Singleton DEF Amounts
<1>2. PICK g : IsFold(f, g, DOMAIN f) /\ Lines!Sum(f) = g[DOMAIN f]
  BY <1>1, SumIsFold DEF Amounts
<1>3. g[{1}] = f[1].amount + g[{1} \ {1}]
  BY <1>1, <1>2, FoldAny
<1>4. g[{}] = 0 /\ {1} \ {1} = {}
  BY <1>2 DEF IsFold, Adds
<1>5. g[{1}] = f[1].amount + 0
  BY <1>3, <1>4
<1> QED
  BY <1>2, <1>5

-----------------------------------------------------------------------------
(* Types.                                                                  *)

Row == [title : Titles, amount : Int, ref : Int \cup {None}, done : BOOLEAN]

LineRow == [title : Titles, amount : Int]

ItemTables == UNION {[D -> Row] : D \in SUBSET Nat}

LineTables == UNION {[D -> LineRow] : D \in SUBSET Nat}

Entry == [id : Int \cup {None}, title : Titles, amount : Int]

EditorStates ==
  [step : {"idle", "delete", "write", "sum", "total"}, keep : SUBSET Nat, entries : SUBSET Entry,
   fails : BOOLEAN, sum : Int]

JobStates ==
  [step : {"idle", "push", "store"}, rows : ItemTables, todo : SUBSET (Nat \X Nat)]

ImportStates ==
  [step : {"idle", "ask", "rows", "row", "delete", "write"}, answer : LineTables,
   rows : ItemTables, todo : SUBSET Nat]

LTypes ==
  /\ lastId \in Nat /\ lastRef \in Nat /\ lQueue \in Nat
  /\ items \in ItemTables /\ DOMAIN items \subseteq 1..lastId
  /\ \A i \in DOMAIN items : items[i].ref = None \/ items[i].ref \in 1..lastRef
  /\ lines \in LineTables /\ DOMAIN lines \subseteq 1..lastRef
  /\ editor \in [Editors -> EditorStates]
  /\ import \in [Imports -> ImportStates]
  /\ \A k \in Imports : DOMAIN import[k].answer \subseteq 1..lastRef
  /\ lJob \in JobStates /\ DOMAIN lJob.rows \subseteq 1..lastId
  /\ \A t \in lJob.todo : t[2] \in 1..lastRef
  /\ foreign \in BOOLEAN /\ raced \in BOOLEAN /\ twins \in BOOLEAN /\ broken \in BOOLEAN

LEMMA InItemTables ==
  \A f : f \in ItemTables <=> f \in [DOMAIN f -> Row] /\ DOMAIN f \subseteq Nat
BY DEF ItemTables

LEMMA InLineTables ==
  \A f : f \in LineTables <=> f \in [DOMAIN f -> LineRow] /\ DOMAIN f \subseteq Nat
BY DEF LineTables

LEMMA NoRowsTyped == Lines!NoRows \in ItemTables /\ Lines!NoRows \in LineTables
BY InItemTables, InLineTables DEF Lines!NoRows

LEMMA IdleTyped ==
  /\ Lines!NoRequest \in EditorStates /\ Lines!NoJob \in JobStates /\ Lines!NoImport \in ImportStates
  /\ Lines!NoRequest.step = "idle" /\ Lines!NoJob.step = "idle" /\ Lines!NoImport.step = "idle"
  /\ DOMAIN Lines!NoJob.rows = {} /\ Lines!NoJob.todo = {} /\ DOMAIN Lines!NoImport.answer = {}
<1>1. DOMAIN Lines!NoRows = {}
  BY DEF Lines!NoRows
<1> QED
  BY <1>1, NoRowsTyped DEF Lines!NoRequest, Lines!NoJob, Lines!NoImport,
       EditorStates, JobStates, ImportStates

LEMMA RowsFinite ==
  ASSUME LTypes
  PROVE  /\ Amounts(items) /\ IsFiniteSet(DOMAIN lines) /\ IsFiniteSet(DOMAIN lJob.rows)
         /\ \A k \in Imports : Amounts(import[k].answer)
<1>1. IsFiniteSet(1..lastId) /\ IsFiniteSet(1..lastRef)
  BY FS_Interval DEF LTypes
<1>2. \A i \in DOMAIN items : items[i].amount \in Int
  BY InItemTables DEF LTypes, Row
<1>3. ASSUME NEW k \in Imports, NEW r \in DOMAIN import[k].answer
      PROVE  import[k].answer[r].amount \in Int
  <2>1. import[k].answer \in LineTables
    BY DEF LTypes, ImportStates
  <2> QED
    BY <2>1, InLineTables DEF LineRow
<1> QED
  BY <1>1, <1>2, <1>3, FS_Subset DEF LTypes, Amounts

LEMMA SumType == ASSUME NEW f, Amounts(f) PROVE Lines!Sum(f) \in Int
<1>1. PICK g : IsFold(f, g, DOMAIN f) /\ Lines!Sum(f) = g[DOMAIN f]
  BY SumIsFold DEF Amounts
<1> QED
  BY <1>1, FoldType

LEMMA RowTyped ==
  ASSUME NEW t \in Titles, NEW a \in Int, NEW r \in Int \cup {None}, NEW d \in BOOLEAN
  PROVE  /\ Lines!Item(t, a, r, d) \in Row
         /\ Lines!Item(t, a, r, d).title = t /\ Lines!Item(t, a, r, d).amount = a
         /\ Lines!Item(t, a, r, d).ref = r /\ Lines!Item(t, a, r, d).done = d
BY DEF Row, Lines!Item

LEMMA LinesInitTypes == LinesAssumption /\ Lines!Init => LTypes
<1> SUFFICES ASSUME LinesAssumption, Lines!Init PROVE LTypes
  OBVIOUS
<1>1. PICK title \in Titles :
        \/ /\ items = [i \in {1} |-> Lines!Item(title, 1, None, FALSE)] /\ lines = Lines!NoRows
           /\ lastRef = 0 /\ lQueue = 1
        \/ /\ items = [i \in {1} |-> Lines!Item(title, 1, 1, FALSE)]
           /\ lines = [r \in {1} |-> Lines!Line(items[r])]
           /\ lastRef = 1 /\ lQueue = 0
  BY Zenon DEF Lines!Init
<1>2. /\ lastId = 1 /\ foreign = FALSE /\ lJob = Lines!NoJob
      /\ editor = [h \in Editors |-> Lines!NoRequest] /\ import = [k \in Imports |-> Lines!NoImport]
      /\ raced = FALSE /\ twins = FALSE /\ broken = FALSE
  BY DEF Lines!Init
<1>3. PICK old, new : old = Lines!Item(title, 1, None, FALSE) /\ new = Lines!Item(title, 1, 1, FALSE)
  OBVIOUS
<1>4. /\ old \in Row /\ new \in Row /\ old.ref = None /\ new.ref = 1
      /\ new.title \in Titles /\ new.amount \in Int
  <2>1. 1 \in Int /\ 1 \in Int \cup {None} /\ None \in Int \cup {None} /\ FALSE \in BOOLEAN
    OBVIOUS
  <2>2. old \in Row /\ old.ref = None
    BY <1>3, <2>1, RowTyped
  <2>3. new \in Row /\ new.ref = 1 /\ new.title = title /\ new.amount = 1
    BY <1>3, <2>1 DEF Lines!Item, Row
  <2> QED
    BY <2>2, <2>3
<1>5. PICK l : l = Lines!Line(new)
  OBVIOUS
<1>6. l \in LineRow
  BY <1>4, <1>5 DEF Lines!Line, LineRow
<1>7. \/ items = [i \in {1} |-> old] /\ lines = Lines!NoRows /\ lastRef = 0 /\ lQueue = 1
      \/ items = [i \in {1} |-> new] /\ lines = [r \in {1} |-> l] /\ lastRef = 1 /\ lQueue = 0
  <2>1. CASE items = [i \in {1} |-> Lines!Item(title, 1, None, FALSE)] /\ lines = Lines!NoRows
               /\ lastRef = 0 /\ lQueue = 1
    BY <1>3, <2>1
  <2>2. CASE items = [i \in {1} |-> Lines!Item(title, 1, 1, FALSE)]
               /\ lines = [r \in {1} |-> Lines!Line(items[r])] /\ lastRef = 1 /\ lQueue = 0
    <3>1. items = [i \in {1} |-> new] /\ items[1] = new
      BY <1>3, <2>2
    <3>2. \A r \in {1} : Lines!Line(items[r]) = l
      BY <1>5, <3>1
    <3> QED
      BY <2>2, <3>1, <3>2
  <2> QED
    BY <1>1, <2>1, <2>2
<1>8. /\ items \in ItemTables /\ DOMAIN items \subseteq 1..lastId
      /\ \A i \in DOMAIN items : items[i].ref = None \/ items[i].ref \in 1..lastRef
      /\ lines \in LineTables /\ DOMAIN lines \subseteq 1..lastRef
      /\ lastId \in Nat /\ lastRef \in Nat /\ lQueue \in Nat
  <2>1. CASE items = [i \in {1} |-> old] /\ lines = Lines!NoRows /\ lastRef = 0 /\ lQueue = 1
    <3>1. DOMAIN lines = {} /\ lines \in LineTables
      BY <2>1, NoRowsTyped DEF Lines!NoRows
    <3> QED
      BY <1>2, <1>4, <2>1, <3>1, InItemTables
  <2>2. CASE items = [i \in {1} |-> new] /\ lines = [r \in {1} |-> l] /\ lastRef = 1 /\ lQueue = 0
    BY <1>2, <1>4, <1>6, <2>2, InItemTables, InLineTables
  <2> QED
    BY <1>7, <2>1, <2>2
<1>9. /\ editor \in [Editors -> EditorStates] /\ import \in [Imports -> ImportStates]
      /\ \A k \in Imports : DOMAIN import[k].answer \subseteq 1..lastRef
      /\ lJob \in JobStates /\ DOMAIN lJob.rows \subseteq 1..lastId
      /\ \A t \in lJob.todo : t[2] \in 1..lastRef
  BY <1>2, IdleTyped
<1> QED
  BY <1>2, <1>8, <1>9 DEF LTypes

LEMMA LinesCountAlike == ASSUME NEW S PROVE Lines!Cardinality(S) = Cardinality(S)
BY DEF Lines!Cardinality, Cardinality

(* Every step keeps the types.                                             *)

LEMMA UpdateTyped ==
  ASSUME LTypes, NEW h \in Editors, NEW keep, NEW edited, NEW new,
         keep \subseteq DOMAIN items, new \subseteq Titles, Lines!Update(h, keep, edited, new)
  PROVE  LTypes'
<1> DEFINE E1 == {[id |-> i, title |-> items[i].title,
                   amount |-> IF i = edited THEN 3 - items[i].amount ELSE items[i].amount] :
                    i \in keep}
                 \cup {[id |-> None, title |-> t, amount |-> 1] : t \in new}
           R == [Lines!NoRequest EXCEPT !.step = "delete", !.keep = keep, !.entries = E1]
<1>1. /\ editor' = [editor EXCEPT ![h] = R] /\ broken' = FALSE
      /\ UNCHANGED <<items, lastId, lines, lastRef, foreign, lQueue, lJob, import, twins>>
  BY DEF Lines!Update, Lines!localVars, Lines!xeroVars
<1>2. raced' \in BOOLEAN
  <2>1. raced' = (raced \/ Lines!Updating \/ Lines!Importing)
    BY DEF Lines!Update
  <2> QED
    BY <2>1, Zenon
<1>3. R \in EditorStates
  <2>1. \A i \in keep : i \in Int /\ items[i].title \in Titles /\ items[i].amount \in Int
    BY InItemTables DEF LTypes, Row
  <2>2. E1 \in SUBSET Entry
    <3>1. ASSUME NEW i \in keep
          PROVE  [id |-> i, title |-> items[i].title,
                  amount |-> IF i = edited THEN 3 - items[i].amount ELSE items[i].amount] \in Entry
      BY <2>1 DEF Entry
    <3>2. ASSUME NEW t \in new PROVE [id |-> None, title |-> t, amount |-> 1] \in Entry
      BY DEF Entry
    <3> QED
      BY <3>1, <3>2
  <2>3. keep \in SUBSET Nat
    BY InItemTables DEF LTypes
  <2> HIDE DEF E1
  <2> QED
    BY <2>2, <2>3, IdleTyped DEF EditorStates, Lines!NoRequest
<1> HIDE DEF R
<1> QED
  BY <1>1, <1>2, <1>3 DEF LTypes

LEMMA DeleteOthersTyped ==
  ASSUME LTypes, NEW h \in Editors, Lines!DeleteOthers(h)
  PROVE  LTypes'
<1>1. /\ items' = Lines!Restrict(items, DOMAIN items \cap editor[h].keep)
      /\ editor' = [editor EXCEPT ![h].step = IF editor[h].entries = {} THEN "sum" ELSE "write"]
      /\ UNCHANGED <<lastId, lines, lastRef, foreign, lQueue, lJob, import, raced, twins, broken>>
  BY DEF Lines!DeleteOthers, Lines!xeroVars
<1>2. /\ items' \in ItemTables /\ DOMAIN items' \subseteq 1..lastId
      /\ \A i \in DOMAIN items' : items'[i].ref = None \/ items'[i].ref \in 1..lastRef
  <2>1. /\ DOMAIN items' \subseteq DOMAIN items /\ \A i \in DOMAIN items' : items'[i] = items[i]
        /\ items' = [i \in DOMAIN items' |-> items'[i]]
    BY <1>1 DEF Lines!Restrict
  <2> QED
    BY <2>1, InItemTables DEF LTypes
<1>3. editor' \in [Editors -> EditorStates]
  BY <1>1 DEF LTypes, EditorStates
<1> QED
  BY <1>1, <1>2, <1>3 DEF LTypes

LEMMA WriteItemTyped ==
  ASSUME LinesAssumption, LTypes, NEW h \in Editors, NEW e \in editor[h].entries,
         Lines!WriteItem(h, e)
  PROVE  LTypes'
<1> DEFINE rest == editor[h].entries \ {e}
           fails == editor[h].fails \/ (e.id # None /\ e.id \notin DOMAIN items)
<1>1. /\ \/ /\ items' = Lines!With(items, lastId + 1, Lines!Item(e.title, e.amount, None, FALSE))
            /\ lastId' = lastId + 1
         \/ /\ e.id \in DOMAIN items
            /\ items' = [items EXCEPT ![e.id].title = e.title, ![e.id].amount = e.amount]
            /\ UNCHANGED lastId
         \/ UNCHANGED <<items, lastId>>
      /\ editor' = [editor EXCEPT ![h] =
           IF rest # {} THEN [@ EXCEPT !.entries = rest, !.fails = fails]
           ELSE IF fails THEN Lines!NoRequest
           ELSE [@ EXCEPT !.entries = {}, !.step = "sum"]]
      /\ UNCHANGED <<lines, lastRef, foreign, lQueue, lJob, import, raced, twins, broken>>
  BY DEF Lines!WriteItem, Lines!xeroVars
<1>2. editor[h] \in EditorStates /\ e \in Entry
  <2>1. editor[h] \in EditorStates
    BY DEF LTypes
  <2>2. editor[h].entries \in SUBSET Entry
    BY <2>1 DEF EditorStates
  <2> QED
    BY <2>1, <2>2
<1>3. editor' \in [Editors -> EditorStates]
  <2>1. fails \in BOOLEAN
    BY Zenon
  <2> HIDE DEF fails
  <2>2. [editor[h] EXCEPT !.entries = rest, !.fails = fails] \in EditorStates
    BY <1>2, <2>1 DEF EditorStates
  <2>3. [editor[h] EXCEPT !.entries = {}, !.step = "sum"] \in EditorStates
    BY <1>2 DEF EditorStates
  <2>4. PICK s : s = editor'[h]
    OBVIOUS
  <2>5. s \in EditorStates /\ editor' = [editor EXCEPT ![h] = s]
    <3>1. editor \in [Editors -> EditorStates]
      BY DEF LTypes
    <3> QED
      BY <1>1, <2>2, <2>3, <2>4, <3>1, IdleTyped
  <2> QED
    BY <2>5 DEF LTypes
<1>4. /\ lastId' \in Nat /\ lastId <= lastId'
      /\ items' \in ItemTables /\ DOMAIN items' \subseteq 1..lastId'
      /\ \A i \in DOMAIN items' : items'[i].ref = None \/ items'[i].ref \in 1..lastRef
  <2>1. CASE items' = Lines!With(items, lastId + 1, Lines!Item(e.title, e.amount, None, FALSE))
               /\ lastId' = lastId + 1
    <3>1. PICK row : row = Lines!Item(e.title, e.amount, None, FALSE)
      OBVIOUS
    <3>2. row \in Row /\ row.ref = None
      BY <1>2, <3>1 DEF Entry, Lines!Item, Row
    <3>3. /\ items' = [j \in DOMAIN items \cup {lastId + 1} |->
                         IF j = lastId + 1 THEN row ELSE items[j]]
      BY <2>1, <3>1 DEF Lines!With
    <3>4. /\ items \in [DOMAIN items -> Row] /\ DOMAIN items \subseteq Nat /\ lastId \in Nat
          /\ DOMAIN items \subseteq 1..lastId
          /\ \A i \in DOMAIN items : items[i].ref = None \/ items[i].ref \in 1..lastRef
      BY InItemTables DEF LTypes
    <3>5. lastId' = lastId + 1 /\ lastId' \in Nat /\ lastId <= lastId'
      BY <2>1, <3>4
    <3>6. DOMAIN items' = DOMAIN items \cup {lastId + 1}
      BY <3>3
    <3>7. DOMAIN items' \subseteq 1..lastId' /\ DOMAIN items' \subseteq Nat
      BY <3>4, <3>5, <3>6
    <3>8. items' \in [DOMAIN items' -> Row]
      BY <3>2, <3>3, <3>4, <3>6
    <3>9. \A i \in DOMAIN items' : items'[i].ref = None \/ items'[i].ref \in 1..lastRef
      BY <3>2, <3>3, <3>4, <3>6
    <3> QED
      BY <3>5, <3>7, <3>8, <3>9, InItemTables
  <2>2. CASE /\ e.id \in DOMAIN items
             /\ items' = [items EXCEPT ![e.id].title = e.title, ![e.id].amount = e.amount]
             /\ UNCHANGED lastId
    <3>1. items \in [DOMAIN items -> Row] /\ DOMAIN items \subseteq Nat
      BY InItemTables DEF LTypes
    <3>2. e.title \in Titles /\ e.amount \in Int
      BY <1>2 DEF Entry
    <3>3. DOMAIN items' = DOMAIN items /\ items' \in [DOMAIN items -> Row]
      BY <2>2, <3>1, <3>2 DEF Row
    <3>4. \A i \in DOMAIN items : items'[i].ref = items[i].ref
      BY <2>2, <3>1 DEF Row
    <3>5. lastId' = lastId /\ lastId \in Nat
      BY <2>2 DEF LTypes
    <3>6. items' \in ItemTables
      BY <3>1, <3>3, InItemTables
    <3>7. /\ DOMAIN items' \subseteq 1..lastId'
          /\ \A i \in DOMAIN items' : items'[i].ref = None \/ items'[i].ref \in 1..lastRef
      BY <3>3, <3>4, <3>5 DEF LTypes
    <3> QED
      BY <3>5, <3>6, <3>7
  <2>3. CASE UNCHANGED <<items, lastId>>
    BY <2>3 DEF LTypes
  <2> QED
    BY <1>1, <2>1, <2>2, <2>3
<1>5. DOMAIN lJob.rows \subseteq 1..lastId'
  BY <1>4 DEF LTypes
<1> QED
  BY <1>1, <1>3, <1>4, <1>5 DEF LTypes

LEMMA TotalTyped ==
  ASSUME LTypes, NEW h \in Editors,
         Lines!ReadTotal(h) \/ Lines!WriteTotal(h) \/ Lines!UpdateFails(h)
  PROVE  LTypes'
<1>1. CASE Lines!ReadTotal(h)
  <2>1. Lines!Sum(items) \in Int
    BY RowsFinite, SumType
  <2>2. editor' = [editor EXCEPT ![h].sum = Lines!Sum(items), ![h].step = "total"]
    BY <1>1 DEF Lines!ReadTotal
  <2>3. editor' \in [Editors -> EditorStates]
    BY <2>1, <2>2 DEF LTypes, EditorStates
  <2> QED
    BY <1>1, <2>3 DEF LTypes, Lines!ReadTotal, Lines!localVars, Lines!xeroVars
<1>2. CASE Lines!WriteTotal(h)
  <2>1. editor' \in [Editors -> EditorStates]
    BY <1>2, IdleTyped DEF LTypes, Lines!WriteTotal
  <2>2. lQueue' \in Nat
    BY <1>2 DEF LTypes, Lines!WriteTotal
  <2> QED
    BY <1>2, <2>1, <2>2 DEF LTypes, Lines!WriteTotal, Lines!xeroVars
<1>3. CASE Lines!UpdateFails(h)
  <2>1. editor' \in [Editors -> EditorStates] /\ broken' = TRUE
    BY <1>3, IdleTyped DEF LTypes, Lines!UpdateFails
  <2> QED
    BY <1>3, <2>1 DEF LTypes, Lines!UpdateFails, Lines!localVars, Lines!xeroVars
<1> QED
  BY <1>1, <1>2, <1>3

LEMMA MilestoneTyped ==
  ASSUME LTypes, NEW i \in DOMAIN items, Lines!completeMilestone(i)
  PROVE  LTypes'
<1>1. /\ items' = [items EXCEPT ![i].done = TRUE]
      /\ raced' = (raced \/ Lines!Importing)
      /\ UNCHANGED <<lastId, lines, lastRef, foreign, lQueue, lJob, editor, import, twins, broken>>
  BY DEF Lines!completeMilestone, Lines!xeroVars
<1>2. raced' \in BOOLEAN
  BY <1>1, Zenon
<1>3. items \in [DOMAIN items -> Row] /\ DOMAIN items \subseteq Nat
  BY InItemTables DEF LTypes
<1>4. /\ DOMAIN items' = DOMAIN items /\ items' \in [DOMAIN items -> Row]
      /\ \A j \in DOMAIN items : items'[j].ref = items[j].ref
  BY <1>1, <1>3 DEF Row
<1>5. items' \in ItemTables
  BY <1>3, <1>4, InItemTables
<1> QED
  BY <1>1, <1>2, <1>4, <1>5 DEF LTypes

LEMMA TakeTyped == ASSUME LTypes, Lines!Take PROVE LTypes'
<1>1. /\ lQueue > 0 /\ lQueue' = lQueue - 1
      /\ lJob' = [Lines!NoJob EXCEPT !.step = "push", !.rows = items]
      /\ raced' = (raced \/ Lines!Importing)
      /\ twins' = (twins \/ \E i, j \in DOMAIN items : i # j /\ items[i].title = items[j].title)
      /\ UNCHANGED <<items, lastId, lines, lastRef, foreign, editor, import, broken>>
  BY DEF Lines!Take, Lines!localVars, Lines!xeroVars
<1>2. raced' \in BOOLEAN /\ twins' \in BOOLEAN
  BY <1>1, Zenon
<1>3. lJob' \in JobStates /\ lJob'.rows = items /\ lJob'.todo = {}
  BY <1>1, IdleTyped DEF LTypes, JobStates
<1>4. lQueue' \in Nat
  BY <1>1 DEF LTypes
<1> QED
  BY <1>1, <1>2, <1>3, <1>4 DEF LTypes

(* References of lines are those of items, or new ones.                    *)
LEMMA NewRefs ==
  ASSUME LTypes, NEW rows1, rows1 = lJob.rows, NEW new,
         new = {i \in DOMAIN rows1 : rows1[i].ref \notin DOMAIN lines}
  PROVE  /\ IsFiniteSet(new) /\ Cardinality(new) \in Nat
         /\ \A i \in DOMAIN rows1 :
              /\ i \notin new => Lines!RefOf(rows1, i) = rows1[i].ref
                                   /\ Lines!RefOf(rows1, i) \in 1..lastRef
              /\ i \in new =>
                   /\ Lines!RefOf(rows1, i) = lastRef + Cardinality({j \in new : j <= i})
                   /\ Cardinality({j \in new : j <= i}) \in 1..Cardinality(new)
         /\ \A i, j \in new : i # j => Lines!RefOf(rows1, i) # Lines!RefOf(rows1, j)
<1> DEFINE upTo(i) == {j \in new : j <= i}
<1>1. lastRef \in Nat /\ lastId \in Nat /\ DOMAIN rows1 \subseteq 1..lastId /\ DOMAIN lines \subseteq 1..lastRef
  BY DEF LTypes
<1>2. IsFiniteSet(new) /\ Cardinality(new) \in Nat
  BY RowsFinite, FS_Subset, FS_CardinalityType
<1>3. ASSUME NEW i \in DOMAIN rows1, i \notin new
      PROVE  /\ Lines!RefOf(rows1, i) = rows1[i].ref /\ Lines!RefOf(rows1, i) \in 1..lastRef
  BY <1>1, <1>3 DEF Lines!RefOf
<1>4. ASSUME NEW i \in new
      PROVE  /\ Lines!RefOf(rows1, i) = lastRef + Cardinality(upTo(i))
             /\ IsFiniteSet(upTo(i)) /\ Cardinality(upTo(i)) \in 1..Cardinality(new)
  <2>1. Lines!RefOf(rows1, i) = lastRef + Cardinality(upTo(i))
    BY LinesCountAlike DEF Lines!RefOf
  <2>2. upTo(i) \subseteq new /\ i \in upTo(i)
    BY <1>1
  <2>3. IsFiniteSet(upTo(i)) /\ Cardinality(upTo(i)) <= Cardinality(new) /\ Cardinality(upTo(i)) \in Nat
    BY <1>2, <2>2, FS_Subset, FS_CardinalityType
  <2>4. Cardinality(upTo(i)) # 0
    BY <2>2, <2>3, FS_EmptySet
  <2> QED
    BY <1>2, <2>1, <2>3, <2>4
<1>5. ASSUME NEW i \in new, NEW j \in new, i < j
      PROVE  Lines!RefOf(rows1, i) # Lines!RefOf(rows1, j)
  <2>1. i \in Int /\ j \in Int
    BY <1>1
  <2>2. upTo(i) \subseteq upTo(j) /\ j \in upTo(j) /\ j \notin upTo(i)
    <3>1. \A l \in new : l \in Int
      BY <1>1
    <3>2. \A l \in new : l <= i => l <= j
      BY <1>5, <2>1, <3>1
    <3>3. j <= j /\ ~(j <= i)
      BY <1>5, <2>1
    <3> QED
      BY <3>2, <3>3
  <2>3. /\ IsFiniteSet(upTo(j)) /\ IsFiniteSet(upTo(i))
        /\ Cardinality(upTo(i)) \in Nat /\ Cardinality(upTo(j)) \in Nat
        /\ Lines!RefOf(rows1, i) = lastRef + Cardinality(upTo(i))
        /\ Lines!RefOf(rows1, j) = lastRef + Cardinality(upTo(j))
    BY <1>4, FS_CardinalityType
  <2>4. Cardinality(upTo(i)) # Cardinality(upTo(j))
    BY <2>2, <2>3, FS_Subset
  <2> QED
    BY <1>1, <2>3, <2>4
<1>6. ASSUME NEW i \in new, NEW j \in new, i # j
      PROVE  Lines!RefOf(rows1, i) # Lines!RefOf(rows1, j)
  <2>1. i < j \/ j < i
    BY <1>1, <1>6
  <2> QED
    BY <1>5, <2>1
<1> QED
  BY <1>2, <1>3, <1>4, <1>6

LEMMA PushTyped == ASSUME LinesAssumption, LTypes, Lines!Push PROVE LTypes'
<1> DEFINE rows1 == lJob.rows
           at(r) == CHOOSE i \in DOMAIN rows1 : Lines!RefOf(rows1, i) = r
<1>1. PICK new : new = {i \in DOMAIN rows1 : rows1[i].ref \notin DOMAIN lines}
  OBVIOUS
<1>2. /\ lines' = [r \in {Lines!RefOf(rows1, i) : i \in DOMAIN rows1} |-> Lines!Line(rows1[at(r)])]
      /\ \E f \in Lines!ToStore(rows1) :
           lJob' = IF f = Lines!NoRows THEN Lines!NoJob
                   ELSE [lJob EXCEPT !.step = "store", !.todo = {<<i, f[i]>> : i \in DOMAIN f}]
  BY DEF Lines!Push
<1>10. /\ foreign' = FALSE /\ UNCHANGED <<items, lastId, lQueue, editor, import, twins, broken>>
  BY DEF Lines!Push, Lines!localVars
<1>11. lastRef' = lastRef + Cardinality(new)
  <2>1. lastRef' = lastRef + Lines!Cardinality(new)
    BY <1>1, Zenon DEF Lines!Push
  <2> QED
    BY <2>1, LinesCountAlike
<1>3. raced' \in BOOLEAN
  <2>1. raced' = (raced \/ \E i \in DOMAIN lJob.rows : lJob.rows[i].ref \notin DOMAIN lines \cup {None})
    BY Zenon DEF Lines!Push
  <2> QED
    BY <2>1, Zenon
<1>4. /\ rows1 \in [DOMAIN rows1 -> Row] /\ DOMAIN rows1 \subseteq Nat /\ DOMAIN rows1 \subseteq 1..lastId
      /\ lJob \in JobStates /\ lastRef \in Nat
  BY <1>1, InItemTables DEF LTypes, JobStates
<1>5. lastRef' \in Nat /\ lastRef <= lastRef' /\ Cardinality(new) \in Nat
  BY <1>1, <1>4, <1>11, NewRefs
<1>6. \A i \in DOMAIN rows1 : Lines!RefOf(rows1, i) \in 1..lastRef'
  <2> SUFFICES ASSUME NEW i \in DOMAIN rows1 PROVE Lines!RefOf(rows1, i) \in 1..lastRef'
    OBVIOUS
  <2>1. CASE i \in new
    <3>1. PICK n : n = Cardinality({j \in new : j <= i})
      OBVIOUS
    <3>2. n \in 1..Cardinality(new) /\ Lines!RefOf(rows1, i) = lastRef + n
      BY <1>1, <2>1, <3>1, NewRefs
    <3> QED
      BY <1>4, <1>5, <1>11, <3>2
  <2>2. CASE i \notin new
    <3>1. Lines!RefOf(rows1, i) \in 1..lastRef
      BY <1>1, <2>2, NewRefs
    <3> QED
      BY <1>4, <1>5, <3>1
  <2> QED
    BY <2>1, <2>2
<1>7. lines' \in LineTables /\ DOMAIN lines' \subseteq 1..lastRef'
  <2>1. DOMAIN lines' = {Lines!RefOf(rows1, i) : i \in DOMAIN rows1}
    BY <1>2
  <2>2. DOMAIN lines' \subseteq 1..lastRef' /\ DOMAIN lines' \subseteq Nat
    BY <1>5, <1>6, <2>1
  <2>3. ASSUME NEW r \in DOMAIN lines' PROVE lines'[r] \in LineRow
    <3>1. \E i \in DOMAIN rows1 : Lines!RefOf(rows1, i) = r
      BY <2>1
    <3>2. at(r) \in DOMAIN rows1
      BY <3>1, Zenon
    <3>3. rows1[at(r)] \in Row
      BY <1>4, <3>2
    <3>4. lines'[r] = Lines!Line(rows1[at(r)])
      BY <1>2
    <3> HIDE DEF at
    <3> QED
      BY <3>3, <3>4 DEF Lines!Line, Row, LineRow
  <2>4. lines' = [r \in DOMAIN lines' |-> lines'[r]]
    BY <1>2
  <2>5. lines' \in [DOMAIN lines' -> LineRow]
    BY <2>3, <2>4
  <2> QED
    BY <2>2, <2>5, InLineTables
<1>8. lJob' \in JobStates /\ DOMAIN lJob'.rows \subseteq 1..lastId /\ \A t \in lJob'.todo : t[2] \in 1..lastRef'
  <2>1. PICK f \in Lines!ToStore(rows1) :
          lJob' = IF f = Lines!NoRows THEN Lines!NoJob
                  ELSE [lJob EXCEPT !.step = "store", !.todo = {<<i, f[i]>> : i \in DOMAIN f}]
    BY <1>2
  <2>2. DOMAIN f \subseteq DOMAIN rows1 /\ \A i \in DOMAIN f : f[i] \in 1..lastRef'
    <3>1. PICK first : /\ \A t \in DOMAIN first : first[t] \in DOMAIN rows1
                       /\ DOMAIN first = {rows1[i].title : i \in {j \in DOMAIN rows1 : rows1[j].ref = None}}
                       /\ f = [i \in {j \in DOMAIN rows1 : rows1[j].ref = None} |->
                                 Lines!RefOf(rows1, first[rows1[i].title])]
      BY DEF Lines!ToStore
    <3> QED
      BY <1>6, <3>1
  <2>3. {<<i, f[i]>> : i \in DOMAIN f} \in SUBSET (Nat \X Nat)
    BY <1>4, <1>5, <2>2
  <2>4. \A t \in {<<i, f[i]>> : i \in DOMAIN f} : t[2] \in 1..lastRef'
    BY <2>2
  <2>5. CASE f = Lines!NoRows
    BY <2>1, <2>5, IdleTyped
  <2>6. CASE f # Lines!NoRows
    <3>1. PICK todo1 : todo1 = {<<i, f[i]>> : i \in DOMAIN f}
      OBVIOUS
    <3>2. lJob' = [lJob EXCEPT !.step = "store", !.todo = todo1]
      BY <2>1, <2>6, <3>1
    <3>3. lJob' \in JobStates /\ lJob'.rows = rows1 /\ lJob'.todo = todo1
      BY <1>1, <1>4, <2>3, <3>1, <3>2 DEF JobStates
    <3> QED
      BY <1>4, <2>4, <3>1, <3>3
  <2> QED
    BY <2>5, <2>6
<1>9. /\ \A i \in DOMAIN items : items[i].ref = None \/ items[i].ref \in 1..lastRef'
      /\ \A k \in Imports : DOMAIN import[k].answer \subseteq 1..lastRef'
  BY <1>4, <1>5 DEF LTypes
<1> QED
  BY <1>3, <1>5, <1>7, <1>8, <1>9, <1>10 DEF LTypes

LEMMA StoreTyped ==
  ASSUME LTypes, NEW i, NEW r, Lines!Store(i, r)
  PROVE  LTypes'
<1>1. /\ <<i, r>> \in lJob.todo
      /\ items' = IF i \in DOMAIN items /\ ~\E j \in DOMAIN items : items[j].ref = r
                  THEN [items EXCEPT ![i].ref = r] ELSE items
      /\ lJob' = IF lJob.todo = {<<i, r>>} THEN Lines!NoJob
                 ELSE [lJob EXCEPT !.todo = @ \ {<<i, r>>}]
      /\ UNCHANGED <<lastId, lines, lastRef, foreign, lQueue, editor, import, raced, twins, broken>>
  BY DEF Lines!Store, Lines!xeroVars
<1>2. /\ items \in [DOMAIN items -> Row] /\ DOMAIN items \subseteq Nat /\ lJob \in JobStates
      /\ r \in 1..lastRef /\ lastRef \in Nat
  <2>1. <<i, r>>[2] \in 1..lastRef
    BY <1>1 DEF LTypes
  <2> QED
    BY <2>1, InItemTables DEF LTypes
<1>3. items' \in [DOMAIN items -> Row] /\ DOMAIN items' = DOMAIN items
  <2>1. r \in Int
    BY <1>2
  <2> QED
    BY <1>1, <1>2, <2>1 DEF Row
<1>4. \A j \in DOMAIN items : items'[j].ref = items[j].ref \/ items'[j].ref = r
  BY <1>1, <1>2 DEF Row
<1>5. items' \in ItemTables
  BY <1>2, <1>3, InItemTables
<1>6. lJob' \in JobStates /\ DOMAIN lJob'.rows \subseteq 1..lastId /\ \A t \in lJob'.todo : t[2] \in 1..lastRef
  <2>1. CASE lJob.todo = {<<i, r>>}
    BY <1>1, <2>1, IdleTyped
  <2>2. CASE lJob.todo # {<<i, r>>}
    <3>1. lJob' = [lJob EXCEPT !.todo = @ \ {<<i, r>>}]
      BY <1>1, <2>2
    <3> QED
      BY <1>2, <3>1 DEF LTypes, JobStates
  <2> QED
    BY <2>1, <2>2
<1> QED
  BY <1>1, <1>2, <1>3, <1>4, <1>5, <1>6 DEF LTypes

LEMMA JobFailsTyped == ASSUME LTypes, Lines!JobFails \/ Lines!Forget PROVE LTypes'
<1>1. CASE Lines!JobFails
  <2>1. lJob' = Lines!NoJob /\ broken' = TRUE
    BY <1>1 DEF Lines!JobFails
  <2> QED
    BY <1>1, <2>1, IdleTyped DEF LTypes, Lines!JobFails, Lines!localVars, Lines!xeroVars
<1>2. CASE Lines!Forget
  BY <1>2 DEF LTypes, Lines!Forget, Lines!localVars, Lines!xeroVars
<1> QED
  BY <1>1, <1>2

LEMMA AskTyped ==
  ASSUME LTypes, NEW k \in Imports, Lines!Receive(k) \/ Lines!getQuotes(k) \/ Lines!Ask(k)
  PROVE  LTypes'
<1>1. CASE Lines!Receive(k)
  <2>1. /\ import' = import \/ import' = [import EXCEPT ![k].step = "ask"]
        /\ raced' = raced \/ raced' = (raced \/ Lines!AtWork)
        /\ UNCHANGED <<items, lastId, lines, lastRef, foreign, lQueue, lJob, editor, twins, broken>>
    BY <1>1 DEF Lines!Receive, Lines!localVars
  <2>2. raced' \in BOOLEAN
    BY <2>1, Zenon DEF LTypes
  <2>3. import' \in [Imports -> ImportStates] /\ \A l \in Imports : import'[l].answer = import[l].answer
    BY <2>1 DEF LTypes, ImportStates
  <2> QED
    BY <2>1, <2>2, <2>3 DEF LTypes
<1>2. CASE Lines!getQuotes(k)
  <2>1. /\ import' = [import EXCEPT ![k].step = "ask"]
        /\ raced' = (raced \/ Lines!AtWork)
        /\ UNCHANGED <<items, lastId, lines, lastRef, foreign, lQueue, lJob, editor, twins, broken>>
    BY <1>2 DEF Lines!getQuotes, Lines!localVars, Lines!xeroVars
  <2>2. raced' \in BOOLEAN
    BY <2>1, Zenon
  <2>3. import' \in [Imports -> ImportStates] /\ \A l \in Imports : import'[l].answer = import[l].answer
    BY <2>1 DEF LTypes, ImportStates
  <2> QED
    BY <2>1, <2>2, <2>3 DEF LTypes
<1>3. CASE Lines!Ask(k)
  <2>1. /\ \/ import' = [import EXCEPT ![k] = Lines!NoImport] /\ UNCHANGED foreign
           \/ import' = [import EXCEPT ![k].answer = lines, ![k].step = "rows"] /\ foreign' = FALSE
        /\ UNCHANGED <<items, lastId, lines, lastRef, lQueue, lJob, editor, raced, twins, broken>>
    BY <1>3 DEF Lines!Ask, Lines!localVars
  <2>2. /\ import' \in [Imports -> ImportStates]
        /\ \A l \in Imports : DOMAIN import'[l].answer \subseteq 1..lastRef
    <3>1. CASE import' = [import EXCEPT ![k] = Lines!NoImport]
      BY <3>1, IdleTyped DEF LTypes
    <3>2. CASE import' = [import EXCEPT ![k].answer = lines, ![k].step = "rows"]
      <4>1. \A l \in Imports : import'[l].answer = IF l = k THEN lines ELSE import[l].answer
        BY <3>2 DEF LTypes, ImportStates
      <4>2. import' \in [Imports -> ImportStates]
        BY <3>2 DEF LTypes, ImportStates
      <4> QED
        BY <4>1, <4>2 DEF LTypes
    <3> QED
      BY <2>1, <3>1, <3>2
  <2>3. foreign' \in BOOLEAN
    BY <2>1 DEF LTypes
  <2> QED
    BY <2>1, <2>2, <2>3 DEF LTypes
<1> QED
  BY <1>1, <1>2, <1>3

LEMMA ImportTyped ==
  ASSUME LTypes, NEW k \in Imports, Lines!ReadRows(k) \/ Lines!WriteRow(k) \/ Lines!DeleteRows(k)
  PROVE  LTypes'
<1>1. CASE Lines!ReadRows(k)
  <2>1. /\ import' = [import EXCEPT ![k].rows = items, ![k].step = "row"]
        /\ UNCHANGED <<items, lastId, lines, lastRef, foreign, lQueue, lJob, editor, raced, twins,
                       broken>>
    BY <1>1 DEF Lines!ReadRows, Lines!localVars, Lines!xeroVars
  <2>2. import' \in [Imports -> ImportStates] /\ \A l \in Imports : import'[l].answer = import[l].answer
    BY <2>1 DEF LTypes, ImportStates
  <2> QED
    BY <2>1, <2>2 DEF LTypes
<1>2. CASE Lines!WriteRow(k)
  <2>1. /\ import' = [import EXCEPT ![k].step = "delete"]
        /\ UNCHANGED <<items, lastId, lines, lastRef, foreign, lQueue, lJob, editor, raced, twins,
                       broken>>
    BY <1>2 DEF Lines!WriteRow, Lines!xeroVars
  <2>2. import' \in [Imports -> ImportStates] /\ \A l \in Imports : import'[l].answer = import[l].answer
    BY <2>1 DEF LTypes, ImportStates
  <2> QED
    BY <2>1, <2>2 DEF LTypes
<1>3. CASE Lines!DeleteRows(k)
  <2>1. /\ items' = Lines!Restrict(items, DOMAIN items \ Lines!Unmatched(k))
        /\ import' = [import EXCEPT ![k] =
             IF @.answer = Lines!NoRows THEN Lines!NoImport
             ELSE [@ EXCEPT !.step = "write", !.todo = DOMAIN import[k].answer]]
        /\ UNCHANGED <<lastId, lines, lastRef, foreign, lQueue, lJob, editor, raced, twins, broken>>
    BY <1>3 DEF Lines!DeleteRows, Lines!xeroVars
  <2>2. /\ items' \in ItemTables /\ DOMAIN items' \subseteq 1..lastId
        /\ \A i \in DOMAIN items' : items'[i].ref = None \/ items'[i].ref \in 1..lastRef
    <3>1. /\ DOMAIN items' \subseteq DOMAIN items /\ \A i \in DOMAIN items' : items'[i] = items[i]
          /\ items' = [i \in DOMAIN items' |-> items'[i]]
      BY <2>1 DEF Lines!Restrict
    <3> QED
      BY <3>1, InItemTables DEF LTypes
  <2>3. import[k].answer \in LineTables /\ DOMAIN import[k].answer \subseteq Nat
    BY InLineTables DEF LTypes, ImportStates
  <2>4. /\ import' \in [Imports -> ImportStates]
        /\ \A l \in Imports : DOMAIN import'[l].answer \subseteq 1..lastRef
    <3>1. CASE import' = [import EXCEPT ![k] = Lines!NoImport]
      BY <3>1, IdleTyped DEF LTypes
    <3>2. CASE import' = [import EXCEPT ![k].step = "write", ![k].todo = DOMAIN import[k].answer]
      BY <2>3, <3>2 DEF LTypes, ImportStates
    <3> QED
      BY <2>1, <3>1, <3>2
  <2> QED
    BY <2>1, <2>2, <2>4 DEF LTypes
<1> QED
  BY <1>1, <1>2, <1>3

(* What a line becomes of the rows: one of them is written, or there is    *)
(* one more.                                                               *)
LEMMA LineWritten ==
  ASSUME LTypes, NEW k \in Imports, NEW r \in import[k].todo, Lines!WriteLine(k, r),
         r \in DOMAIN import[k].answer
  PROVE  \/ \E i \in Lines!ReadWith(k, r) :
               /\ items' = IF i \notin DOMAIN items THEN items
                           ELSE [items EXCEPT ![i] =
                                   Lines!Item(import[k].answer[r].title, import[k].answer[r].amount,
                                              r, import[k].rows[i].done)]
               /\ lastId' = lastId
         \/ /\ Lines!ReadWith(k, r) = {}
            /\ \E i \in DOMAIN items :
                 /\ items[i].ref = r /\ lastId' = lastId
                 /\ items' = [items EXCEPT ![i].title = import[k].answer[r].title,
                                           ![i].amount = import[k].answer[r].amount]
         \/ /\ Lines!ReadWith(k, r) = {} /\ \A i \in DOMAIN items : items[i].ref # r
            /\ items' = Lines!With(items, lastId + 1,
                          Lines!Item(import[k].answer[r].title, import[k].answer[r].amount, r, FALSE))
            /\ lastId' = lastId + 1
BY DEF Lines!WriteLine, Lines!After

LEMMA WriteLineTyped ==
  ASSUME LinesAssumption, LTypes, NEW k \in Imports, NEW r \in import[k].todo,
         r \in DOMAIN import[k].answer, Lines!WriteLine(k, r)
  PROVE  LTypes'
<1>1. /\ import' = [import EXCEPT ![k] =
           IF @.todo = {r} THEN Lines!NoImport ELSE [@ EXCEPT !.todo = import[k].todo \ {r}]]
      /\ UNCHANGED <<lines, lastRef, foreign, lQueue, lJob, editor, raced, twins, broken>>
  BY DEF Lines!WriteLine, Lines!xeroVars
<1>2. PICK line : line = import[k].answer[r]
  OBVIOUS
<1>3. /\ line.title \in Titles /\ line.amount \in Int /\ r \in 1..lastRef /\ r \in Int
      /\ import[k].rows \in [DOMAIN import[k].rows -> Row] /\ lastRef \in Nat
      /\ items \in [DOMAIN items -> Row] /\ DOMAIN items \subseteq Nat /\ lastId \in Nat
      /\ DOMAIN items \subseteq 1..lastId
      /\ \A i \in DOMAIN items : items[i].ref = None \/ items[i].ref \in 1..lastRef
  <2>1. import[k] \in ImportStates /\ DOMAIN import[k].answer \subseteq 1..lastRef /\ lastRef \in Nat
    BY DEF LTypes
  <2>2. import[k].answer \in LineTables /\ import[k].rows \in ItemTables
    BY <2>1 DEF ImportStates
  <2>3. line \in LineRow
    BY <1>2, <2>2, InLineTables
  <2>4. line.title \in Titles /\ line.amount \in Int
    BY <2>3 DEF LineRow
  <2> QED
    BY <2>1, <2>2, <2>4, InItemTables DEF LTypes
<1>4. /\ lastId' \in Nat /\ lastId <= lastId'
      /\ items' \in [DOMAIN items' -> Row] /\ DOMAIN items' \subseteq 1..lastId'
      /\ \A i \in DOMAIN items' : items'[i].ref = None \/ items'[i].ref \in 1..lastRef
  <2>1. CASE \E i \in Lines!ReadWith(k, r) :
               /\ items' = IF i \notin DOMAIN items THEN items
                           ELSE [items EXCEPT ![i] =
                                   Lines!Item(line.title, line.amount, r, import[k].rows[i].done)]
               /\ lastId' = lastId
    <3>4. PICK i \in Lines!ReadWith(k, r) :
            /\ items' = IF i \notin DOMAIN items THEN items
                        ELSE [items EXCEPT ![i] =
                                Lines!Item(line.title, line.amount, r, import[k].rows[i].done)]
            /\ lastId' = lastId
      BY <2>1
    <3>1. PICK row :
            /\ row = Lines!Item(line.title, line.amount, r, import[k].rows[i].done)
            /\ items' = IF i \notin DOMAIN items THEN items ELSE [items EXCEPT ![i] = row]
            /\ lastId' = lastId
      BY <3>4
    <3>2. import[k].rows[i] \in Row
      BY <1>3 DEF Lines!ReadWith
    <3>3. row \in Row /\ row.ref = r
      BY <1>3, <3>1, <3>2 DEF Lines!Item, Row
    <3> QED
      BY <1>3, <3>1, <3>3
  <2>2. CASE \E i \in DOMAIN items :
               /\ items[i].ref = r /\ lastId' = lastId
               /\ items' = [items EXCEPT ![i].title = line.title, ![i].amount = line.amount]
    <3>1. PICK i \in DOMAIN items :
            /\ lastId' = lastId
            /\ items' = [items EXCEPT ![i].title = line.title, ![i].amount = line.amount]
      BY <2>2
    <3>2. DOMAIN items' = DOMAIN items /\ items' \in [DOMAIN items -> Row]
      BY <1>3, <3>1 DEF Row
    <3>3. \A j \in DOMAIN items : items'[j].ref = items[j].ref
      BY <1>3, <3>1 DEF Row
    <3> QED
      BY <1>3, <3>1, <3>2, <3>3
  <2>3. CASE /\ items' = Lines!With(items, lastId + 1, Lines!Item(line.title, line.amount, r, FALSE))
             /\ lastId' = lastId + 1
    <3>1. PICK row : row = Lines!Item(line.title, line.amount, r, FALSE)
      OBVIOUS
    <3>2. row \in Row /\ row.ref = r
      BY <1>3, <3>1 DEF Lines!Item, Row
    <3>3. items' = [j \in DOMAIN items \cup {lastId + 1} |-> IF j = lastId + 1 THEN row ELSE items[j]]
      BY <2>3, <3>1 DEF Lines!With
    <3>4. DOMAIN items' = DOMAIN items \cup {lastId + 1}
      BY <3>3
    <3>8. lastId' = lastId + 1 /\ lastId' \in Nat /\ lastId <= lastId'
      BY <1>3, <2>3
    <3>5. DOMAIN items' \subseteq 1..lastId' /\ lastId' \in Nat /\ lastId <= lastId'
      BY <1>3, <3>4, <3>8
    <3>6. items' \in [DOMAIN items' -> Row]
      BY <1>3, <3>2, <3>3, <3>4
    <3>7. \A i \in DOMAIN items' : items'[i].ref = None \/ items'[i].ref \in 1..lastRef
      BY <1>3, <3>2, <3>3, <3>4
    <3> QED
      BY <3>5, <3>6, <3>7
  <2> QED
    BY <1>2, <2>1, <2>2, <2>3, LineWritten
<1>5. items' \in ItemTables
  <2>1. DOMAIN items' \subseteq Nat
    BY <1>4
  <2> QED
    BY <1>4, <2>1, InItemTables
<1>6. /\ import' \in [Imports -> ImportStates]
      /\ \A l \in Imports : DOMAIN import'[l].answer \subseteq 1..lastRef
  <2>1. CASE import' = [import EXCEPT ![k] = Lines!NoImport]
    BY <2>1, IdleTyped DEF LTypes
  <2>2. CASE import' = [import EXCEPT ![k] = [@ EXCEPT !.todo = import[k].todo \ {r}]]
    <3>1. import[k] \in ImportStates /\ DOMAIN import[k].answer \subseteq 1..lastRef
      BY DEF LTypes
    <3>2. PICK m : m = [import[k] EXCEPT !.todo = @ \ {r}]
      OBVIOUS
    <3>3. m \in ImportStates /\ m.answer = import[k].answer
      BY <3>1, <3>2 DEF ImportStates
    <3>4. import' = [import EXCEPT ![k] = m]
      BY <2>2, <3>2
    <3> QED
      BY <3>1, <3>3, <3>4 DEF LTypes
  <2>3. CASE import[k].todo = {r}
    BY <1>1, <2>1, <2>3
  <2>4. CASE import[k].todo # {r}
    BY <1>1, <2>2, <2>4
  <2> QED
    BY <2>3, <2>4
<1>7. DOMAIN lJob.rows \subseteq 1..lastId'
  BY <1>4 DEF LTypes
<1> QED
  BY <1>1, <1>4, <1>5, <1>6, <1>7 DEF LTypes

LEMMA ChangedInXeroTyped == ASSUME LTypes, Lines!ChangedInXero PROVE LTypes'
<1>1. /\ \/ \E r \in DOMAIN lines : lines' = [lines EXCEPT ![r].amount = 3 - @] /\ lastRef' = lastRef
         \/ \E r \in DOMAIN lines :
              lines' = Lines!Restrict(lines, DOMAIN lines \ {r}) /\ lastRef' = lastRef
         \/ \E t \in Titles :
              /\ lines' = Lines!With(lines, lastRef + 1, [title |-> t, amount |-> 1])
              /\ lastRef' = lastRef + 1
      /\ foreign' = TRUE
      /\ UNCHANGED <<items, lastId, lQueue, lJob, editor, import, raced, twins, broken>>
  BY DEF Lines!ChangedInXero, Lines!localVars
<1>2. /\ lines \in [DOMAIN lines -> LineRow] /\ DOMAIN lines \subseteq Nat /\ lastRef \in Nat
      /\ DOMAIN lines \subseteq 1..lastRef
  BY InLineTables DEF LTypes
<1> DEFINE Typed == /\ lastRef' \in Nat /\ lastRef <= lastRef'
                    /\ lines' \in [DOMAIN lines' -> LineRow] /\ DOMAIN lines' \subseteq 1..lastRef'
<1>3. Typed
  <2>1. ASSUME NEW r \in DOMAIN lines, lines' = [lines EXCEPT ![r].amount = 3 - @], lastRef' = lastRef
        PROVE  Typed
    BY <1>2, <2>1 DEF LineRow
  <2>2. ASSUME NEW r \in DOMAIN lines, lines' = Lines!Restrict(lines, DOMAIN lines \ {r}),
               lastRef' = lastRef
        PROVE  Typed
    BY <1>2, <2>2 DEF Lines!Restrict
  <2>3. ASSUME NEW t \in Titles, lines' = Lines!With(lines, lastRef + 1, [title |-> t, amount |-> 1]),
               lastRef' = lastRef + 1
        PROVE  Typed
    <3>1. PICK l : l = [title |-> t, amount |-> 1]
      OBVIOUS
    <3>2. l \in LineRow
      BY <3>1 DEF LineRow
    <3>3. lines' = [j \in DOMAIN lines \cup {lastRef + 1} |-> IF j = lastRef + 1 THEN l ELSE lines[j]]
      BY <2>3, <3>1 DEF Lines!With
    <3>4. DOMAIN lines' = DOMAIN lines \cup {lastRef + 1}
      BY <3>3
    <3>5. DOMAIN lines' \subseteq 1..lastRef' /\ lastRef' \in Nat /\ lastRef <= lastRef'
      BY <1>2, <2>3, <3>4
    <3> QED
      BY <1>2, <3>2, <3>3, <3>4, <3>5
  <2> QED
    BY <1>1, <2>1, <2>2, <2>3
<1>4. lines' \in LineTables
  <2>1. DOMAIN lines' \subseteq Nat
    BY <1>3
  <2> QED
    BY <1>3, <2>1, InLineTables
<1>5. /\ \A i \in DOMAIN items : items[i].ref = None \/ items[i].ref \in 1..lastRef'
      /\ \A k \in Imports : DOMAIN import[k].answer \subseteq 1..lastRef'
      /\ \A t \in lJob.todo : t[2] \in 1..lastRef'
  BY <1>2, <1>3 DEF LTypes
<1> QED
  BY <1>1, <1>3, <1>4, <1>5 DEF LTypes

\* What an import has still to write are lines it was answered.
TodoAnswered ==
  \A k \in Imports :
    /\ import[k].todo \subseteq DOMAIN import[k].answer
    /\ import[k].step # "write" => import[k].todo = {}

LEMMA TodoStep ==
  ASSUME LTypes, TodoAnswered, NEW k \in Imports,
         \/ Lines!Receive(k) \/ Lines!getQuotes(k) \/ Lines!Ask(k) \/ Lines!ReadRows(k)
         \/ Lines!WriteRow(k) \/ Lines!DeleteRows(k) \/ \E r \in import[k].todo : Lines!WriteLine(k, r)
  PROVE  TodoAnswered'
<1> DEFINE Ok(m) == m.todo \subseteq DOMAIN m.answer /\ (m.step # "write" => m.todo = {})
<1>1. import \in [Imports -> ImportStates] /\ import[k] \in ImportStates /\ Ok(import[k])
  BY DEF LTypes, TodoAnswered
<1>2. Ok(Lines!NoImport)
  BY IdleTyped DEF Lines!NoImport
<1>3. PICK m : import' = [import EXCEPT ![k] = m] /\ Ok(m)
  <2>1. CASE Lines!Receive(k)
    <3>1. \/ import' = [import EXCEPT ![k] = import[k]]
          \/ import' = [import EXCEPT ![k] = [import[k] EXCEPT !.step = "ask"]] /\ import[k] = Lines!NoImport
      BY <1>1, <2>1 DEF Lines!Receive
    <3>2. import[k] = Lines!NoImport => Ok([import[k] EXCEPT !.step = "ask"])
      BY <1>1, IdleTyped DEF ImportStates, Lines!NoImport
    <3> QED
      BY <1>1, <3>1, <3>2
  <2>2. CASE Lines!getQuotes(k)
    <3>1. import' = [import EXCEPT ![k] = [import[k] EXCEPT !.step = "ask"]] /\ import[k] = Lines!NoImport
      BY <1>1, <2>2 DEF Lines!getQuotes
    <3>2. Ok([import[k] EXCEPT !.step = "ask"])
      BY <1>1, <3>1, IdleTyped DEF ImportStates, Lines!NoImport
    <3> QED
      BY <3>1, <3>2
  <2>3. CASE Lines!Ask(k)
    <3>1. /\ import[k].step = "ask"
          /\ \/ import' = [import EXCEPT ![k] = Lines!NoImport]
             \/ import' = [import EXCEPT ![k] = [import[k] EXCEPT !.answer = lines, !.step = "rows"]]
      BY <1>1, <2>3 DEF Lines!Ask
    <3>2. Ok([import[k] EXCEPT !.answer = lines, !.step = "rows"])
      BY <1>1, <3>1 DEF ImportStates
    <3> QED
      BY <1>2, <3>1, <3>2
  <2>4. CASE Lines!ReadRows(k)
    <3>1. /\ import[k].step = "rows"
          /\ import' = [import EXCEPT ![k] = [import[k] EXCEPT !.rows = items, !.step = "row"]]
      BY <1>1, <2>4 DEF Lines!ReadRows
    <3>2. Ok([import[k] EXCEPT !.rows = items, !.step = "row"])
      BY <1>1, <3>1 DEF ImportStates
    <3> QED
      BY <3>1, <3>2
  <2>5. CASE Lines!WriteRow(k)
    <3>1. /\ import[k].step = "row"
          /\ import' = [import EXCEPT ![k] = [import[k] EXCEPT !.step = "delete"]]
      BY <1>1, <2>5 DEF Lines!WriteRow
    <3>2. Ok([import[k] EXCEPT !.step = "delete"])
      BY <1>1, <3>1 DEF ImportStates
    <3> QED
      BY <3>1, <3>2
  <2>6. CASE Lines!DeleteRows(k)
    <3>1. \/ import' = [import EXCEPT ![k] = Lines!NoImport]
          \/ import' = [import EXCEPT ![k] =
               [import[k] EXCEPT !.step = "write", !.todo = DOMAIN import[k].answer]]
      BY <1>1, <2>6 DEF Lines!DeleteRows
    <3>2. Ok([import[k] EXCEPT !.step = "write", !.todo = DOMAIN import[k].answer])
      BY <1>1 DEF ImportStates
    <3> QED
      BY <1>2, <3>1, <3>2
  <2>7. ASSUME NEW r \in import[k].todo, Lines!WriteLine(k, r)
        PROVE  \E m : import' = [import EXCEPT ![k] = m] /\ Ok(m)
    <3>1. /\ import[k].step = "write"
          /\ \/ import' = [import EXCEPT ![k] = Lines!NoImport]
             \/ import' = [import EXCEPT ![k] = [import[k] EXCEPT !.todo = import[k].todo \ {r}]]
      BY <1>1, <2>7 DEF Lines!WriteLine
    <3>2. Ok([import[k] EXCEPT !.todo = import[k].todo \ {r}])
      BY <1>1, <3>1 DEF ImportStates
    <3> QED
      BY <1>2, <3>1, <3>2
  <2> QED
    BY <2>1, <2>2, <2>3, <2>4, <2>5, <2>6, <2>7
<1> HIDE DEF Ok
<1>4. \A l \in Imports : Ok(import[l])
  BY DEF Ok, TodoAnswered
<1>5. \A l \in Imports : Ok(import'[l])
  BY <1>1, <1>3, <1>4
<1> QED
  BY <1>5 DEF Ok, TodoAnswered

\* The steps there are, by who takes them.
LEMMA LinesSteps ==
  ASSUME Lines!Next
  PROVE  \/ \E h \in Editors :
              \/ \E i \in DOMAIN items : \/ Lines!Update(h, DOMAIN items, i, {})
                                         \/ Lines!Update(h, DOMAIN items \ {i}, None, {})
              \/ \E t \in Titles : Lines!Update(h, DOMAIN items, None, {t})
         \/ \E h \in Editors :
              \/ Lines!DeleteOthers(h) \/ Lines!ReadTotal(h) \/ Lines!WriteTotal(h)
              \/ Lines!UpdateFails(h) \/ \E e \in editor[h].entries : Lines!WriteItem(h, e)
         \/ \E i \in DOMAIN items : Lines!completeMilestone(i)
         \/ Lines!Take \/ Lines!Push \/ Lines!JobFails \/ Lines!Forget
         \/ \E t \in lJob.todo : Lines!Store(t[1], t[2])
         \/ \E k \in Imports :
              \/ Lines!Receive(k) \/ Lines!getQuotes(k) \/ Lines!Ask(k) \/ Lines!ReadRows(k)
              \/ Lines!WriteRow(k) \/ Lines!DeleteRows(k) \/ \E r \in import[k].todo : Lines!WriteLine(k, r)
         \/ Lines!ChangedInXero
BY Zenon DEF Lines!Next

(* Types, step by step.                                                    *)
LEMMA LinesTypesStep ==
  ASSUME LinesAssumption, LTypes, TodoAnswered, Lines!Next
  PROVE  LTypes' /\ TodoAnswered'
<1>1. ASSUME NEW h \in Editors, NEW keep, NEW edited, NEW new, keep \subseteq DOMAIN items,
             new \subseteq Titles, Lines!Update(h, keep, edited, new)
      PROVE  LTypes' /\ TodoAnswered'
  <2>1. UNCHANGED import
    BY <1>1 DEF Lines!Update
  <2> QED
    BY <1>1, <2>1, UpdateTyped DEF TodoAnswered
<1>2. ASSUME NEW h \in Editors, Lines!DeleteOthers(h) PROVE LTypes' /\ TodoAnswered'
  <2>1. UNCHANGED import
    BY <1>2 DEF Lines!DeleteOthers
  <2> QED
    BY <1>2, <2>1, DeleteOthersTyped DEF TodoAnswered
<1>3. ASSUME NEW h \in Editors, NEW e \in editor[h].entries, Lines!WriteItem(h, e)
      PROVE  LTypes' /\ TodoAnswered'
  <2>1. UNCHANGED import
    BY <1>3 DEF Lines!WriteItem
  <2> QED
    BY <1>3, <2>1, WriteItemTyped DEF TodoAnswered
<1>4. ASSUME NEW h \in Editors, Lines!ReadTotal(h) \/ Lines!WriteTotal(h) \/ Lines!UpdateFails(h)
      PROVE  LTypes' /\ TodoAnswered'
  <2>1. UNCHANGED import
    BY <1>4 DEF Lines!ReadTotal, Lines!WriteTotal, Lines!UpdateFails
  <2> QED
    BY <1>4, <2>1, TotalTyped DEF TodoAnswered
<1>5. ASSUME NEW i \in DOMAIN items, Lines!completeMilestone(i) PROVE LTypes' /\ TodoAnswered'
  <2>1. UNCHANGED import
    BY <1>5 DEF Lines!completeMilestone
  <2> QED
    BY <1>5, <2>1, MilestoneTyped DEF TodoAnswered
<1>6. CASE Lines!Take \/ Lines!Push \/ Lines!JobFails \/ Lines!Forget
  <2>1. UNCHANGED import
    BY <1>6 DEF Lines!Take, Lines!Push, Lines!JobFails, Lines!Forget
  <2> QED
    BY <1>6, <2>1, TakeTyped, PushTyped, JobFailsTyped DEF TodoAnswered
<1>7. ASSUME NEW t \in lJob.todo, Lines!Store(t[1], t[2]) PROVE LTypes' /\ TodoAnswered'
  <2>1. UNCHANGED import
    BY <1>7 DEF Lines!Store
  <2> QED
    BY <1>7, <2>1, StoreTyped DEF TodoAnswered
<1>8. ASSUME NEW k \in Imports,
             \/ Lines!Receive(k) \/ Lines!getQuotes(k) \/ Lines!Ask(k) \/ Lines!ReadRows(k)
             \/ Lines!WriteRow(k) \/ Lines!DeleteRows(k) \/ \E r \in import[k].todo : Lines!WriteLine(k, r)
      PROVE  LTypes' /\ TodoAnswered'
  <2>1. LTypes'
    <3>1. ASSUME NEW r \in import[k].todo, Lines!WriteLine(k, r) PROVE LTypes'
      <4>1. r \in DOMAIN import[k].answer
        BY DEF TodoAnswered
      <4> QED
        BY <3>1, <4>1, WriteLineTyped
    <3> QED
      BY <1>8, <3>1, AskTyped, ImportTyped
  <2> QED
    BY <1>8, <2>1, TodoStep
<1>9. CASE Lines!ChangedInXero
  <2>1. UNCHANGED import
    BY <1>9 DEF Lines!ChangedInXero
  <2> QED
    BY <1>9, <2>1, ChangedInXeroTyped DEF TodoAnswered
<1>11. ASSUME NEW h \in Editors, NEW i \in DOMAIN items,
              \/ Lines!Update(h, DOMAIN items, i, {})
              \/ Lines!Update(h, DOMAIN items \ {i}, None, {})
       PROVE  LTypes' /\ TodoAnswered'
  <2>1. DOMAIN items \ {i} \subseteq DOMAIN items /\ {} \subseteq Titles
    OBVIOUS
  <2> QED
    BY <1>1, <1>11, <2>1
<1>12. ASSUME NEW h \in Editors, NEW t \in Titles, Lines!Update(h, DOMAIN items, None, {t})
       PROVE  LTypes' /\ TodoAnswered'
  <2>1. {t} \subseteq Titles
    OBVIOUS
  <2> QED
    BY <1>1, <1>12, <2>1
<1> QED
  BY <1>2, <1>3, <1>4, <1>5, <1>6, <1>7, <1>8, <1>9, <1>11, <1>12, LinesSteps, Zenon

(* The steps of a request.                                                 *)

\* What is under way where there is a job, a message or a request: no import.
LEMMA NoImports ==
  ASSUME OneAtATime, ~NoEditor \/ lJob.step # "idle" \/ lQueue # 0
  PROVE  \A k \in Imports : import[k].step = "idle"
BY DEF OneAtATime

LEMMA ImportsIdle ==
  ASSUME \A k \in Imports : import[k].step = "idle"
  PROVE  /\ \A k \in Imports : ImportsRows(k)
         /\ \A k, l \in Imports : import[k].step # "idle" /\ import[l].step # "idle" => k = l
BY DEF ImportsRows

LEMMA UpdateKeeps ==
  ASSUME LTypes, RowsOk, raced = FALSE, raced' = FALSE, NEW h \in Editors, NEW keep, NEW edited, NEW new,
         keep \subseteq DOMAIN items, new \subseteq Titles, Lines!Update(h, keep, edited, new)
  PROVE  /\ RowsOk'
         /\ SyncOk => SyncOk'
<1> DEFINE E1 == {[id |-> i, title |-> items[i].title,
                   amount |-> IF i = edited THEN 3 - items[i].amount ELSE items[i].amount] :
                    i \in keep}
                 \cup {[id |-> None, title |-> t, amount |-> 1] : t \in new}
           R == [Lines!NoRequest EXCEPT !.step = "delete", !.keep = keep, !.entries = E1]
<1>1. /\ editor' = [editor EXCEPT ![h] = R]
      /\ UNCHANGED <<items, lQueue, lJob, import, undone>>
  BY DEF Lines!Update, Lines!localVars, Lines!xeroVars
<1>2. (\A g \in Editors : editor[g].step = "idle") /\ \A k \in Imports : import[k].step = "idle"
  <2>1. raced' = (raced \/ Lines!Updating \/ Lines!Importing)
    BY DEF Lines!Update
  <2>2. ~Lines!Updating /\ ~Lines!Importing
    BY <2>1, Zenon
  <2> QED
    BY <2>2 DEF Lines!Updating, Lines!Importing
<1>3. /\ R.step = "delete" /\ R.fails = FALSE /\ R.keep = keep
      /\ \A e \in R.entries : e.id = None \/ e.id \in R.keep
  <2>1. \A e \in E1 : e.id = None \/ e.id \in keep
    OBVIOUS
  <2> HIDE DEF E1
  <2> QED
    BY <2>1 DEF Lines!NoRequest
<1> HIDE DEF R
<1>4. editor'[h] = R /\ (\A g \in Editors : g # h => editor'[g].step = "idle")
  BY <1>1, <1>2 DEF LTypes
<1>5. \A k \in Imports : import'[k].step = "idle"
  BY <1>1, <1>2
<1>6. \A g \in Editors : WritesRows(g)'
  BY <1>1, <1>3, <1>4 DEF WritesRows
<1>7. OneRef(items)' /\ \A k \in Imports : ImportsRows(k)'
  BY <1>1, <1>5, ImportsIdle DEF RowsOk, ImportsRows
<1>8. OneAtATime'
  BY <1>1, <1>4, <1>5 DEF OneAtATime
<1>9. NoEditor' = FALSE
  BY <1>3, <1>4 DEF NoEditor
<1> QED
  BY <1>1, <1>6, <1>7, <1>8, <1>9 DEF RowsOk, SyncOk, TotalOk, JobOk, IdleOk

\* One request goes on: the others, and the imports, are idle.
LEMMA EditorMoves ==
  ASSUME LTypes, RowsOk, NEW h \in Editors, editor[h].step # "idle",
         NEW s, editor' = [editor EXCEPT ![h] = s], UNCHANGED <<import, lJob>>,
         OneRef(items)', WritesRows(h)', UNCHANGED lQueue \/ s.step = "idle"
  PROVE  RowsOk' /\ (s.step # "idle" => NoEditor' = FALSE)
<1>1. /\ \A g \in Editors : g # h => editor[g].step = "idle"
      /\ \A k \in Imports : import[k].step = "idle"
  BY NoImports DEF RowsOk, OneAtATime, NoEditor
<1>2. editor'[h] = s /\ \A g \in Editors : g # h => editor'[g].step = "idle"
  BY <1>1 DEF LTypes
<1>3. \A k \in Imports : import'[k].step = "idle"
  BY <1>1
<1>4. \A g \in Editors : WritesRows(g)'
  BY <1>2 DEF WritesRows
<1>5. \A k \in Imports : ImportsRows(k)'
  BY <1>3 DEF ImportsRows
<1>6. OneAtATime'
  BY <1>2, <1>3 DEF OneAtATime
<1> QED
  BY <1>2, <1>4, <1>5, <1>6 DEF RowsOk, NoEditor

LEMMA DeleteOthersKeeps ==
  ASSUME LTypes, RowsOk, NEW h \in Editors, Lines!DeleteOthers(h)
  PROVE  RowsOk' /\ (SyncOk => SyncOk')
<1>1. /\ editor[h].step = "delete"
      /\ items' = Lines!Restrict(items, DOMAIN items \cap editor[h].keep)
      /\ editor' = [editor EXCEPT ![h].step = IF editor[h].entries = {} THEN "sum" ELSE "write"]
      /\ UNCHANGED <<lQueue, lJob, import, undone, broken>>
  BY DEF Lines!DeleteOthers, Lines!xeroVars
<1>2. PICK s : editor' = [editor EXCEPT ![h] = s] /\ s = editor'[h]
  BY <1>1
<1>3. s.step = (IF editor[h].entries = {} THEN "sum" ELSE "write") /\ s.entries = editor[h].entries
      /\ s.fails = editor[h].fails
  BY <1>1, <1>2 DEF LTypes, EditorStates
<1>4. DOMAIN items' = DOMAIN items \cap editor[h].keep /\ \A i \in DOMAIN items' : items'[i] = items[i]
  BY <1>1 DEF Lines!Restrict
<1>5. OneRef(items)'
  BY <1>4 DEF RowsOk, OneRef
<1>6. WritesRows(h)'
  BY <1>1, <1>2, <1>3, <1>4 DEF RowsOk, WritesRows
<1>7. RowsOk' /\ NoEditor' = FALSE
  BY <1>1, <1>2, <1>3, <1>5, <1>6, EditorMoves
<1> QED
  BY <1>1, <1>7 DEF SyncOk, TotalOk, JobOk, IdleOk

LEMMA WriteItemKeeps ==
  ASSUME LinesAssumption, LTypes, RowsOk, NEW h \in Editors, NEW e \in editor[h].entries,
         Lines!WriteItem(h, e)
  PROVE  RowsOk' /\ (SyncOk => SyncOk')
<1> DEFINE rest == editor[h].entries \ {e}
           fails == editor[h].fails \/ (e.id # None /\ e.id \notin DOMAIN items)
<1>1. /\ editor[h].step = "write"
      /\ \/ /\ items' = Lines!With(items, lastId + 1, Lines!Item(e.title, e.amount, None, FALSE))
         \/ /\ e.id \in DOMAIN items
            /\ items' = [items EXCEPT ![e.id].title = e.title, ![e.id].amount = e.amount]
         \/ e.id # None /\ e.id \notin DOMAIN items
      /\ editor' = [editor EXCEPT ![h] =
           IF rest # {} THEN [@ EXCEPT !.entries = rest, !.fails = fails]
           ELSE IF fails THEN Lines!NoRequest
           ELSE [@ EXCEPT !.entries = {}, !.step = "sum"]]
      /\ UNCHANGED <<lQueue, lJob, import, undone, broken>>
  BY DEF Lines!WriteItem, Lines!xeroVars
<1>2. editor[h].fails = FALSE /\ \A d \in editor[h].entries : d.id = None \/ d.id \in DOMAIN items
  BY <1>1 DEF RowsOk, WritesRows
<1>3. PICK s : editor' = [editor EXCEPT ![h] = s] /\ s = editor'[h]
  BY <1>1
<1>4. /\ s.step \in {"write", "sum"} /\ s.entries = rest
      /\ (s.step = "write") <=> (rest # {})
      /\ s.step = "write" => s.fails = FALSE
  <2>1. ~fails
    BY <1>2, Zenon
  <2>2. editor[h] \in EditorStates
    BY DEF LTypes
  <2>3. s = IF rest # {} THEN [editor[h] EXCEPT !.entries = rest, !.fails = FALSE]
            ELSE [editor[h] EXCEPT !.entries = {}, !.step = "sum"]
    <3>1. rest # {} => s = [editor[h] EXCEPT !.entries = rest, !.fails = fails]
      BY <1>1, <1>3 DEF LTypes
    <3>2. rest = {} => s = [editor[h] EXCEPT !.entries = {}, !.step = "sum"]
      BY <1>1, <1>3, <2>1 DEF LTypes
    <3>3. fails = FALSE
      BY <2>1 DEF LTypes, EditorStates
    <3> HIDE DEF fails
    <3> QED
      BY <3>1, <3>2, <3>3
  <2> HIDE DEF rest
  <2> QED
    BY <1>1, <2>2, <2>3 DEF EditorStates
<1>5. DOMAIN items \subseteq DOMAIN items' /\ OneRef(items)'
  <2>1. /\ items \in [DOMAIN items -> Row] /\ OneRef(items)
        /\ DOMAIN items \subseteq 1..lastId /\ lastId \in Nat
    BY InItemTables DEF LTypes, RowsOk
  <2>2. CASE items' = Lines!With(items, lastId + 1, Lines!Item(e.title, e.amount, None, FALSE))
    <3>1. PICK row : row = Lines!Item(e.title, e.amount, None, FALSE)
      OBVIOUS
    <3>2. row.ref = None
      BY <3>1 DEF Lines!Item
    <3>3. items' = [j \in DOMAIN items \cup {lastId + 1} |-> IF j = lastId + 1 THEN row ELSE items[j]]
      BY <2>2, <3>1 DEF Lines!With
    <3> QED
      BY <2>1, <3>2, <3>3 DEF OneRef
  <2>3. CASE e.id \in DOMAIN items
               /\ items' = [items EXCEPT ![e.id].title = e.title, ![e.id].amount = e.amount]
    <3>1. DOMAIN items' = DOMAIN items
      BY <2>3
    <3>2. \A i \in DOMAIN items : items'[i].ref = items[i].ref
      BY <2>1, <2>3 DEF Row
    <3> QED
      BY <2>1, <3>1, <3>2 DEF OneRef
  <2> QED
    BY <1>1, <1>2, <2>2, <2>3
<1>6. WritesRows(h)'
  BY <1>2, <1>3, <1>4, <1>5 DEF WritesRows
<1>7. RowsOk' /\ NoEditor' = FALSE
  BY <1>1, <1>3, <1>4, <1>5, <1>6, EditorMoves
<1> QED
  BY <1>1, <1>7 DEF SyncOk, TotalOk, JobOk, IdleOk

LEMMA TotalKeeps ==
  ASSUME LTypes, RowsOk, NEW h \in Editors,
         Lines!ReadTotal(h) \/ Lines!WriteTotal(h) \/ Lines!UpdateFails(h)
  PROVE  RowsOk' /\ (SyncOk => SyncOk')
<1>1. CASE Lines!ReadTotal(h)
  <2>1. /\ editor[h].step = "sum"
        /\ editor' = [editor EXCEPT ![h].sum = Lines!Sum(items), ![h].step = "total"]
        /\ UNCHANGED <<items, lQueue, lJob, import, undone, broken>>
    BY <1>1 DEF Lines!ReadTotal, Lines!localVars
  <2>2. PICK s : editor' = [editor EXCEPT ![h] = s] /\ s = editor'[h]
    BY <2>1
  <2>3. s.step = "total" /\ s.sum = Lines!Sum(items)
    BY <2>1, <2>2 DEF LTypes, EditorStates
  <2>4. Lines!Sum(items)' = Lines!Sum(items')
    OBVIOUS
  <2>5. WritesRows(h)'
    BY <2>1, <2>2, <2>3, <2>4 DEF WritesRows
  <2>6. RowsOk' /\ NoEditor' = FALSE
    BY <2>1, <2>2, <2>3, <2>5, EditorMoves DEF RowsOk
  <2> QED
    BY <2>1, <2>6 DEF SyncOk, TotalOk, JobOk, IdleOk
<1>2. CASE Lines!WriteTotal(h)
  <2>1. /\ editor[h].step = "total" /\ total' = editor[h].sum /\ lQueue' = lQueue + 1
        /\ editor' = [editor EXCEPT ![h] = Lines!NoRequest]
        /\ UNCHANGED <<items, lJob, import, undone, broken>>
    BY <1>2 DEF Lines!WriteTotal, Lines!xeroVars
  <2>2. editor'[h].step = "idle" /\ total' = Lines!Sum(items) /\ lQueue' # 0
    BY <2>1, IdleTyped DEF LTypes, RowsOk, WritesRows
  <2>3. WritesRows(h)'
    BY <2>2 DEF WritesRows
  <2>4. RowsOk'
    BY <2>1, <2>2, <2>3, EditorMoves, IdleTyped DEF RowsOk
  <2> QED
    BY <2>1, <2>2, <2>4 DEF SyncOk, TotalOk, JobOk, IdleOk
<1>3. CASE Lines!UpdateFails(h)
  <2>1. /\ editor[h].step # "idle" /\ editor' = [editor EXCEPT ![h] = Lines!NoRequest]
        /\ broken' = TRUE /\ UNCHANGED <<items, lQueue, lJob, import, undone>>
    BY <1>3 DEF Lines!UpdateFails, Lines!localVars
  <2>2. editor'[h].step = "idle"
    BY <2>1, IdleTyped DEF LTypes
  <2>3. WritesRows(h)'
    BY <2>2 DEF WritesRows
  <2>4. RowsOk'
    BY <2>1, <2>2, <2>3, EditorMoves, IdleTyped DEF RowsOk
  <2> QED
    BY <2>1, <2>4 DEF SyncOk, TotalOk, JobOk, IdleOk
<1> QED
  BY <1>1, <1>2, <1>3

(* A milestone, and the job.                                               *)
LEMMA SameRowsKept ==
  ASSUME LTypes, NEW f, SameRows(items, f)
  PROVE  /\ Lines!Sum(f) = Lines!Sum(items)
         /\ OneRef(items) => OneRef(f)
         /\ {f[i].ref : i \in DOMAIN f} = {items[i].ref : i \in DOMAIN items}
         /\ \A i \in DOMAIN items : Lines!Line(f[i]) = Lines!Line(items[i])
<1>1. SameAmounts(items, f) /\ Amounts(items)
  BY RowsFinite DEF SameRows, SameAmounts
<1>2. Lines!Sum(f) = Lines!Sum(items)
  BY <1>1, SumKept
<1>3. OneRef(items) => OneRef(f)
  BY DEF SameRows, OneRef
<1>4. \A i \in DOMAIN items : Lines!Line(f[i]) = Lines!Line(items[i])
  BY DEF SameRows, Lines!Line
<1>5. {f[i].ref : i \in DOMAIN f} = {items[i].ref : i \in DOMAIN items}
  BY DEF SameRows
<1> QED
  BY <1>2, <1>3, <1>4, <1>5

LEMMA MilestoneKeeps ==
  ASSUME LTypes, RowsOk, raced' = FALSE, NEW m \in DOMAIN items, Lines!completeMilestone(m)
  PROVE  RowsOk' /\ (SyncOk => SyncOk')
<1>1. /\ items' = [items EXCEPT ![m].done = TRUE]
      /\ UNCHANGED <<total, lines, foreign, lQueue, lJob, editor, import, twins, broken, undone>>
  BY DEF Lines!completeMilestone, Lines!xeroVars
<1>2. \A k \in Imports : import[k].step = "idle"
  <2>1. raced' = (raced \/ Lines!Importing)
    BY DEF Lines!completeMilestone
  <2>2. ~Lines!Importing
    BY <2>1, Zenon
  <2> QED
    BY <2>2 DEF Lines!Importing
<1>3. items \in [DOMAIN items -> Row]
  BY InItemTables DEF LTypes
<1>4. SameRows(items, items')
  BY <1>1, <1>3 DEF SameRows, Row
<1>5. /\ Lines!Sum(items') = Lines!Sum(items) /\ OneRef(items')
      /\ {items'[i].ref : i \in DOMAIN items'} = {items[i].ref : i \in DOMAIN items}
      /\ DOMAIN items' = DOMAIN items
      /\ \A i \in DOMAIN items : Lines!Line(items'[i]) = Lines!Line(items[i])
      /\ \A i \in DOMAIN items : items'[i].ref = items[i].ref
  <2>1. DOMAIN items' = DOMAIN items /\ \A i \in DOMAIN items : items'[i].ref = items[i].ref
    BY <1>4 DEF SameRows
  <2> QED
    BY <1>4, <2>1, SameRowsKept DEF RowsOk
<1>6. \A k \in Imports : ImportsRows(k)'
  BY <1>1, <1>2 DEF ImportsRows
<1>7. \A h \in Editors : WritesRows(h)'
  BY <1>1, <1>5 DEF WritesRows, RowsOk
<1>8. OneAtATime'
  BY <1>1 DEF OneAtATime, RowsOk, NoEditor
<1>9. RowsOk'
  BY <1>5, <1>6, <1>7, <1>8 DEF RowsOk, OneRef
<1>10. ASSUME SyncOk PROVE SyncOk'
  <2>1. NoEditor' = NoEditor
    BY <1>1 DEF NoEditor
  <2>2. TotalOk'
    BY <1>1, <1>5, <1>10, <2>1 DEF SyncOk, TotalOk
  <2>3. Pushes => Pushes'
    BY <1>1, <1>4, <1>5 DEF Pushes, SameRows
  <2>4. ASSUME Stores PROVE Stores'
    <3>1. /\ \A t, u \in lJob'.todo : t[1] = u[1] \/ t[2] = u[2] => t = u
          /\ \A t \in lJob'.todo :
               /\ t[1] \in DOMAIN items' /\ items'[t[1]].ref = None
               /\ \A i \in DOMAIN items' : items'[i].ref # t[2]
          /\ \A i \in DOMAIN items' : items'[i].ref = None => \E t \in lJob'.todo : t[1] = i
      BY <1>1, <1>5, <2>4 DEF Stores
    <3>2. ASSUME foreign' = FALSE
          PROVE  /\ \A r : r \in DOMAIN lines' <=>
                      \/ \E i \in DOMAIN items' : items'[i].ref = r /\ r # None
                      \/ \E t \in lJob'.todo : t[2] = r
                 /\ \A i \in DOMAIN items' :
                      items'[i].ref # None => Lines!Line(items'[i]) = lines'[items'[i].ref]
                 /\ \A t \in lJob'.todo : Lines!Line(items'[t[1]]) = lines'[t[2]]
      <4>1. \A r : r \in DOMAIN lines' <=>
                 \/ \E i \in DOMAIN items' : items'[i].ref = r /\ r # None
                 \/ \E t \in lJob'.todo : t[2] = r
        BY <1>1, <1>5, <2>4, <3>2 DEF Stores
      <4>2. \A i \in DOMAIN items' :
              items'[i].ref # None => Lines!Line(items'[i]) = lines'[items'[i].ref]
        BY <1>1, <1>5, <2>4, <3>2 DEF Stores
      <4>3. \A t \in lJob'.todo : Lines!Line(items'[t[1]]) = lines'[t[2]]
        BY <1>1, <1>5, <2>4, <3>2 DEF Stores
      <4> QED
        BY <4>1, <4>2, <4>3
    <3> QED
      BY <3>1, <3>2 DEF Stores
  <2>5. JobOk'
    BY <1>1, <1>10, <2>1, <2>3, <2>4 DEF SyncOk, JobOk
  <2>6. Matches => Matches'
    BY <1>1, <1>5 DEF Matches
  <2>7. IdleOk'
    BY <1>1, <1>5, <1>10, <2>1, <2>6 DEF SyncOk, IdleOk
  <2> QED
    BY <1>1, <1>10, <2>2, <2>5, <2>7 DEF SyncOk
<1> QED
  BY <1>9, <1>10

LEMMA TakeKeeps ==
  ASSUME LTypes, RowsOk, raced' = FALSE, twins = FALSE => SyncOk, Lines!Take
  PROVE  RowsOk' /\ (twins' = FALSE => SyncOk')
<1>1. /\ lQueue > 0 /\ lQueue' = lQueue - 1 /\ lJob = Lines!NoJob
      /\ lJob' = [Lines!NoJob EXCEPT !.step = "push", !.rows = items]
      /\ twins' = (twins \/ \E i, j \in DOMAIN items : i # j /\ items[i].title = items[j].title)
      /\ UNCHANGED <<items, total, lines, foreign, editor, import, broken, undone>>
  BY DEF Lines!Take, Lines!localVars, Lines!xeroVars
<1>2. \A k \in Imports : import[k].step = "idle"
  <2>1. lQueue # 0
    BY <1>1 DEF LTypes
  <2> QED
    BY <2>1, NoImports DEF RowsOk
<1>3. lJob'.step = "push" /\ lJob'.rows = items
  BY <1>1 DEF Lines!NoJob
<1>4. OneAtATime'
  BY <1>1, <1>2 DEF RowsOk, OneAtATime
<1>5. RowsOk'
  <2>1. \A h \in Editors : WritesRows(h)'
    BY <1>1 DEF RowsOk, WritesRows
  <2>2. \A k \in Imports : ImportsRows(k)'
    BY <1>1, <1>2 DEF ImportsRows
  <2> QED
    BY <1>1, <1>4, <2>1, <2>2 DEF RowsOk, OneRef
<1>6. ASSUME twins' = FALSE PROVE SyncOk'
  <2>1. ~twins /\ ~\E i, j \in DOMAIN items : i # j /\ items[i].title = items[j].title
    BY <1>1, <1>6, Zenon
  <2>2. SyncOk
    <3>1. twins = FALSE
      BY <2>1 DEF LTypes
    <3> QED
      BY <1>6, <3>1
  <2>3. OneTitle(lJob'.rows)
    BY <1>3, <2>1 DEF OneTitle
  <2>4. Pushes'
    BY <1>1, <1>3 DEF Pushes, SameRows
  <2>5. TotalOk'
    BY <1>1, <2>2 DEF SyncOk, TotalOk, NoEditor
  <2> QED
    BY <1>1, <1>3, <2>2, <2>3, <2>4, <2>5 DEF SyncOk, JobOk, IdleOk
<1> QED
  BY <1>5, <1>6

LEMMA JobFailsKeeps ==
  ASSUME LTypes, RowsOk, Lines!JobFails
  PROVE  RowsOk' /\ (SyncOk => SyncOk')
<1>1. /\ lJob.step # "idle" /\ lJob' = Lines!NoJob /\ broken' = TRUE
      /\ UNCHANGED <<items, total, lines, foreign, lQueue, editor, import, undone>>
  BY DEF Lines!JobFails, Lines!localVars, Lines!xeroVars
<1>2. \A k \in Imports : import[k].step = "idle"
  BY <1>1, NoImports DEF RowsOk
<1>3. lJob'.step = "idle"
  BY <1>1, IdleTyped
<1>4. OneAtATime'
  BY <1>1, <1>2 DEF RowsOk, OneAtATime
<1>5. RowsOk'
  <2>1. \A h \in Editors : WritesRows(h)'
    BY <1>1 DEF RowsOk, WritesRows
  <2>2. \A k \in Imports : ImportsRows(k)'
    BY <1>1, <1>2 DEF ImportsRows
  <2> QED
    BY <1>1, <1>4, <2>1, <2>2 DEF RowsOk, OneRef
<1> QED
  BY <1>1, <1>3, <1>5 DEF SyncOk, TotalOk, JobOk, IdleOk

LEMMA XeroKeeps ==
  ASSUME LTypes, RowsOk, Lines!Forget \/ Lines!ChangedInXero
  PROVE  RowsOk' /\ (SyncOk => SyncOk')
<1>1. /\ UNCHANGED <<items, total, lQueue, lJob, editor, import, broken, undone>>
      /\ foreign' = TRUE \/ UNCHANGED <<lines, foreign>>
  BY DEF Lines!Forget, Lines!ChangedInXero, Lines!localVars, Lines!xeroVars
<1>2. OneAtATime' /\ OneRef(items)' /\ \A h \in Editors : WritesRows(h)'
  BY <1>1 DEF RowsOk, OneAtATime, NoEditor, OneRef, WritesRows
<1>3. \A k \in Imports : ImportsRows(k)'
  BY <1>1 DEF RowsOk, ImportsRows, OneRef
<1>4. ASSUME SyncOk PROVE SyncOk'
  <2>1. NoEditor' = NoEditor /\ Pushes' = Pushes
    BY <1>1 DEF NoEditor, Pushes
  <2>2. TotalOk'
    BY <1>1, <1>4, <2>1 DEF SyncOk, TotalOk
  <2>3. JobOk'
    <3>1. Stores => Stores'
      BY <1>1 DEF Stores
    <3> QED
      BY <1>1, <1>4, <2>1, <3>1 DEF SyncOk, JobOk
  <2>4. IdleOk'
    <3>1. foreign' = FALSE /\ Matches => Matches'
      BY <1>1 DEF Matches
    <3> QED
      BY <1>1, <1>4, <2>1, <3>1 DEF SyncOk, IdleOk
  <2> QED
    BY <1>1, <1>4, <2>2, <2>3, <2>4 DEF SyncOk
<1> QED
  BY <1>2, <1>3, <1>4 DEF RowsOk

\* A job goes on: no import is under way, and none is by its step.
LEMMA JobMoves ==
  ASSUME LTypes, RowsOk, lJob.step # "idle", UNCHANGED <<import, editor, lQueue>>, OneRef(items)',
         DOMAIN items' = DOMAIN items, Lines!Sum(items') = Lines!Sum(items)
  PROVE  RowsOk' /\ NoEditor' = NoEditor /\ \A k \in Imports : import[k].step = "idle"
<1>1. \A k \in Imports : import[k].step = "idle"
  BY NoImports DEF RowsOk
<1>2. \A h \in Editors : WritesRows(h)'
  BY DEF RowsOk, WritesRows
<1>3. \A k \in Imports : ImportsRows(k)'
  BY <1>1 DEF ImportsRows
<1>4. OneAtATime'
  BY <1>1 DEF RowsOk, OneAtATime
<1> QED
  BY <1>1, <1>2, <1>3, <1>4 DEF RowsOk, NoEditor

(* What is pushed, if no title is there twice: every row becomes a line,   *)
(* and each row without a reference is to get that of its line.            *)
LEMMA PushedRows ==
  ASSUME LinesAssumption, LTypes, RowsOk, raced' = FALSE, OneTitle(lJob.rows), SameRows(lJob.rows, items),
         Lines!Push
  PROVE  \E f :
           /\ DOMAIN f = {i \in DOMAIN items : items[i].ref = None}
           /\ \A i, j \in DOMAIN f : f[i] = f[j] => i = j
           /\ \A i \in DOMAIN f :
                /\ f[i] # None /\ \A j \in DOMAIN items : items[j].ref # f[i]
                /\ Lines!Line(items[i]) = lines'[f[i]]
           /\ DOMAIN lines' = {items[i].ref : i \in DOMAIN items \ DOMAIN f} \cup {f[i] : i \in DOMAIN f}
           /\ \A i \in DOMAIN items \ DOMAIN f : Lines!Line(items[i]) = lines'[items[i].ref]
           /\ lJob' = IF f = Lines!NoRows THEN Lines!NoJob
                      ELSE [lJob EXCEPT !.step = "store", !.todo = {<<i, f[i]>> : i \in DOMAIN f}]
<1> DEFINE rows1 == lJob.rows
           at(r) == CHOOSE i \in DOMAIN rows1 : Lines!RefOf(rows1, i) = r
<1>1. PICK new : new = {i \in DOMAIN rows1 : rows1[i].ref \notin DOMAIN lines}
  OBVIOUS
<1>2. /\ lines' = [r \in {Lines!RefOf(rows1, i) : i \in DOMAIN rows1} |-> Lines!Line(rows1[at(r)])]
      /\ \E f \in Lines!ToStore(rows1) :
           lJob' = IF f = Lines!NoRows THEN Lines!NoJob
                   ELSE [lJob EXCEPT !.step = "store", !.todo = {<<i, f[i]>> : i \in DOMAIN f}]
  BY DEF Lines!Push
<1>3. /\ DOMAIN rows1 = DOMAIN items
      /\ \A i \in DOMAIN items : rows1[i].ref = items[i].ref /\ rows1[i].title = items[i].title
                                   /\ Lines!Line(rows1[i]) = Lines!Line(items[i])
  BY DEF SameRows, Lines!Line
<1>4. /\ lastRef \in Nat /\ DOMAIN lines \subseteq 1..lastRef /\ None \notin DOMAIN lines
      /\ OneRef(items)
      /\ \A i \in DOMAIN items : items[i].ref = None \/ items[i].ref \in 1..lastRef
  BY DEF LTypes, LinesAssumption, RowsOk
<1>5. \A i \in DOMAIN rows1 : i \in new <=> rows1[i].ref = None
  <2>1. raced' = (raced \/ \E i \in DOMAIN lJob.rows : lJob.rows[i].ref \notin DOMAIN lines \cup {None})
    BY Zenon DEF Lines!Push
  <2>2. ~\E i \in DOMAIN lJob.rows : lJob.rows[i].ref \notin DOMAIN lines \cup {None}
    BY <2>1, Zenon
  <2> QED
    BY <1>1, <1>4, <2>2
<1>6. ASSUME NEW i \in DOMAIN rows1
      PROVE  /\ i \notin new => Lines!RefOf(rows1, i) = items[i].ref /\ Lines!RefOf(rows1, i) \in 1..lastRef
             /\ i \in new => Lines!RefOf(rows1, i) \in Int /\ Lines!RefOf(rows1, i) > lastRef
  <2>1. CASE i \in new
    <3>1. PICK n : n = Cardinality({j \in new : j <= i})
      OBVIOUS
    <3>2. n \in 1..Cardinality(new) /\ Lines!RefOf(rows1, i) = lastRef + n /\ Cardinality(new) \in Nat
      BY <1>1, <2>1, <3>1, NewRefs
    <3> QED
      BY <1>4, <2>1, <3>2
  <2>2. CASE i \notin new
    BY <1>1, <1>3, <2>2, NewRefs
  <2> QED
    BY <2>1, <2>2
<1>7. ASSUME NEW i \in DOMAIN rows1, NEW j \in DOMAIN rows1,
             Lines!RefOf(rows1, i) = Lines!RefOf(rows1, j)
      PROVE  i = j
  <2>1. CASE i \in new /\ j \in new
    <3>1. \A m, n \in new : m # n => Lines!RefOf(rows1, m) # Lines!RefOf(rows1, n)
      BY <1>1, NewRefs
    <3> QED
      BY <1>7, <2>1, <3>1
  <2>2. CASE i \notin new /\ j \notin new
    <3>1. items[i].ref = items[j].ref /\ items[i].ref # None
      BY <1>3, <1>5, <1>6, <1>7, <2>2
    <3> QED
      BY <1>3, <1>4, <3>1 DEF OneRef
  <2>3. CASE i \in new /\ j \notin new
    BY <1>4, <1>6, <1>7, <2>3
  <2>4. CASE i \notin new /\ j \in new
    BY <1>4, <1>6, <1>7, <2>4
  <2> QED
    BY <2>1, <2>2, <2>3, <2>4
<1>8. \A i \in DOMAIN rows1 :
        /\ Lines!RefOf(rows1, i) \in DOMAIN lines'
        /\ lines'[Lines!RefOf(rows1, i)] = Lines!Line(items[i])
  <2> SUFFICES ASSUME NEW i \in DOMAIN rows1
               PROVE  /\ Lines!RefOf(rows1, i) \in DOMAIN lines'
                      /\ lines'[Lines!RefOf(rows1, i)] = Lines!Line(items[i])
    OBVIOUS
  <2>1. PICK r : r = Lines!RefOf(rows1, i)
    OBVIOUS
  <2>2. at(r) \in DOMAIN rows1 /\ Lines!RefOf(rows1, at(r)) = r
    BY <2>1, Zenon
  <2>3. at(r) = i
    BY <1>7, <2>1, <2>2
  <2>4. r \in DOMAIN lines' /\ lines'[r] = Lines!Line(rows1[at(r)])
    BY <1>2, <2>1
  <2> QED
    BY <1>3, <2>1, <2>3, <2>4
<1>9. PICK f \in Lines!ToStore(rows1) :
        lJob' = IF f = Lines!NoRows THEN Lines!NoJob
                ELSE [lJob EXCEPT !.step = "store", !.todo = {<<i, f[i]>> : i \in DOMAIN f}]
  BY <1>2
<1>10. DOMAIN f = {i \in DOMAIN items : items[i].ref = None}
       /\ \A i \in DOMAIN f : f[i] = Lines!RefOf(rows1, i)
  <2>1. PICK first : /\ DOMAIN first = {rows1[i].title : i \in {j \in DOMAIN rows1 : rows1[j].ref = None}}
                     /\ \A t \in DOMAIN first :
                          first[t] \in DOMAIN rows1 /\ rows1[first[t]].title = t
                     /\ f = [i \in {j \in DOMAIN rows1 : rows1[j].ref = None} |->
                               Lines!RefOf(rows1, first[rows1[i].title])]
    BY DEF Lines!ToStore
  <2>2. \A i \in DOMAIN rows1 : rows1[i].ref = None => first[rows1[i].title] = i
    BY <2>1 DEF OneTitle
  <2>3. {j \in DOMAIN rows1 : rows1[j].ref = None} = {i \in DOMAIN items : items[i].ref = None}
    BY <1>3
  <2> QED
    BY <2>1, <2>2, <2>3
<1>11. \A i \in DOMAIN items : i \in DOMAIN f <=> i \in new
  BY <1>3, <1>5, <1>10
<1>12. ASSUME NEW i \in DOMAIN f
       PROVE  /\ f[i] # None /\ (\A j \in DOMAIN items : items[j].ref # f[i])
              /\ Lines!Line(items[i]) = lines'[f[i]]
  <2>1. f[i] = Lines!RefOf(rows1, i) /\ f[i] \in Int /\ f[i] > lastRef /\ i \in DOMAIN rows1
    BY <1>3, <1>6, <1>10, <1>11
  <2>2. f[i] # None
    BY <2>1 DEF LinesAssumption
  <2>3. \A j \in DOMAIN items : items[j].ref # f[i]
    BY <1>4, <2>1, <2>2
  <2>4. Lines!Line(items[i]) = lines'[f[i]]
    BY <1>8, <2>1
  <2> QED
    BY <2>2, <2>3, <2>4
<1>13. \A i \in DOMAIN items \ DOMAIN f :
         Lines!RefOf(rows1, i) = items[i].ref /\ Lines!Line(items[i]) = lines'[items[i].ref]
  BY <1>3, <1>6, <1>8, <1>11
<1>14. DOMAIN lines' = {items[i].ref : i \in DOMAIN items \ DOMAIN f} \cup {f[i] : i \in DOMAIN f}
  <2>1. DOMAIN lines' = {Lines!RefOf(rows1, i) : i \in DOMAIN items}
    BY <1>2, <1>3
  <2>2. DOMAIN f \subseteq DOMAIN items
    BY <1>10
  <2> QED
    BY <1>10, <1>13, <2>1, <2>2
<1>15. \A i, j \in DOMAIN f : f[i] = f[j] => i = j
  BY <1>3, <1>7, <1>10
<1> DEFINE Ok(g) ==
             /\ DOMAIN g = {i \in DOMAIN items : items[i].ref = None}
             /\ \A i, j \in DOMAIN g : g[i] = g[j] => i = j
             /\ \A i \in DOMAIN g :
                  /\ g[i] # None /\ \A j \in DOMAIN items : items[j].ref # g[i]
                  /\ Lines!Line(items[i]) = lines'[g[i]]
             /\ DOMAIN lines' = {items[i].ref : i \in DOMAIN items \ DOMAIN g} \cup {g[i] : i \in DOMAIN g}
             /\ \A i \in DOMAIN items \ DOMAIN g : Lines!Line(items[i]) = lines'[items[i].ref]
             /\ lJob' = IF g = Lines!NoRows THEN Lines!NoJob
                        ELSE [lJob EXCEPT !.step = "store", !.todo = {<<i, g[i]>> : i \in DOMAIN g}]
<1>16. Ok(f)
  <2>1. \A i \in DOMAIN items \ DOMAIN f : Lines!Line(items[i]) = lines'[items[i].ref]
    BY <1>13
  <2>2. \A i \in DOMAIN f :
          /\ f[i] # None /\ \A j \in DOMAIN items : items[j].ref # f[i]
          /\ Lines!Line(items[i]) = lines'[f[i]]
    BY <1>12
  <2>3. DOMAIN f = {i \in DOMAIN items : items[i].ref = None}
    BY <1>10
  <2> QED
    BY <1>9, <1>14, <1>15, <2>1, <2>2, <2>3, Zenon
<1>17. \E g : Ok(g)
  <2> HIDE DEF Ok
  <2> QED
    BY <1>16
<1> QED
  BY <1>17

LEMMA PushKeeps ==
  ASSUME LinesAssumption, LTypes, RowsOk, raced' = FALSE, Lines!Push
  PROVE  RowsOk' /\ (SyncOk => SyncOk')
<1>1. /\ lJob.step = "push" /\ foreign' = FALSE
      /\ UNCHANGED <<items, total, lQueue, editor, import, broken, undone>>
  BY DEF Lines!Push, Lines!localVars
<1>2. RowsOk' /\ NoEditor' = NoEditor /\ \A k \in Imports : import[k].step = "idle"
  <2>1. OneRef(items)'
    BY <1>1 DEF RowsOk
  <2> QED
    BY <1>1, <2>1, JobMoves
<1>3. ASSUME SyncOk PROVE SyncOk'
  <2>1. TotalOk'
    BY <1>1, <1>2, <1>3 DEF SyncOk, TotalOk
  <2>2. lJob' = Lines!NoJob \/ lJob'.step = "store"
    <3>1. lJob \in JobStates
      BY DEF LTypes
    <3>2. PICK f \in Lines!ToStore(lJob.rows) :
            lJob' = IF f = Lines!NoRows THEN Lines!NoJob
                    ELSE [lJob EXCEPT !.step = "store", !.todo = {<<i, f[i]>> : i \in DOMAIN f}]
      BY DEF Lines!Push
    <3> QED
      BY <3>1, <3>2 DEF JobStates
  <2>3. lJob'.step \in {"idle", "store"}
    BY <2>2, IdleTyped
  <2>4. ASSUME broken = FALSE, NoEditor, lQueue = 0
        PROVE  /\ lJob'.step = "store" => Stores'
               /\ lJob'.step = "idle" => (\A i \in DOMAIN items : items[i].ref # None) /\ Matches'
    <3>1. OneTitle(lJob.rows) /\ SameRows(lJob.rows, items)
      BY <1>1, <1>3, <2>4 DEF SyncOk, JobOk, Pushes
    <3>2. PICK f :
           /\ DOMAIN f = {i \in DOMAIN items : items[i].ref = None}
           /\ \A i, j \in DOMAIN f : f[i] = f[j] => i = j
           /\ \A i \in DOMAIN f :
                /\ f[i] # None /\ \A j \in DOMAIN items : items[j].ref # f[i]
                /\ Lines!Line(items[i]) = lines'[f[i]]
           /\ DOMAIN lines' = {items[i].ref : i \in DOMAIN items \ DOMAIN f} \cup {f[i] : i \in DOMAIN f}
           /\ \A i \in DOMAIN items \ DOMAIN f : Lines!Line(items[i]) = lines'[items[i].ref]
           /\ lJob' = IF f = Lines!NoRows THEN Lines!NoJob
                      ELSE [lJob EXCEPT !.step = "store", !.todo = {<<i, f[i]>> : i \in DOMAIN f}]
      BY <3>1, PushedRows
    <3>3. CASE lJob'.step = "idle"
      <4>1. f = Lines!NoRows
        <5>1. lJob \in JobStates
          BY DEF LTypes
        <5>2. [lJob EXCEPT !.step = "store", !.todo = {<<i, f[i]>> : i \in DOMAIN f}].step = "store"
          BY <5>1 DEF JobStates
        <5> QED
          BY <3>2, <3>3, <5>2
      <4>2. DOMAIN f = {}
        BY <4>1 DEF Lines!NoRows
      <4>3. \A i \in DOMAIN items : items[i].ref # None
        BY <3>2, <4>2
      <4>4. DOMAIN lines' = {items[i].ref : i \in DOMAIN items}
        BY <3>2, <4>2
      <4>5. \A i \in DOMAIN items : Lines!Line(items[i]) = lines'[items[i].ref]
        BY <3>2, <4>2
      <4> QED
        BY <1>1, <3>3, <4>3, <4>4, <4>5 DEF Matches
    <3>4. CASE lJob'.step = "store"
      <4>1. PICK todo : todo = {<<i, f[i]>> : i \in DOMAIN f}
        OBVIOUS
      <4>2. lJob'.todo = todo
        <5>1. lJob \in JobStates
          BY DEF LTypes
        <5>2. [lJob EXCEPT !.step = "store", !.todo = todo].todo = todo
          BY <5>1 DEF JobStates
        <5>3. f # Lines!NoRows
          BY <3>2, <3>4, IdleTyped
        <5> QED
          BY <3>2, <4>1, <5>2, <5>3
      <4>3. \A t \in todo : t[1] \in DOMAIN f /\ t[2] = f[t[1]] /\ t = <<t[1], f[t[1]]>>
        BY <4>1
      <4>4. \A i \in DOMAIN f : <<i, f[i]>> \in todo
        BY <4>1
      <4>5. \A t, u \in todo : t[1] = u[1] \/ t[2] = u[2] => t = u
        BY <3>2, <4>3
      <4>6. \A t \in todo : /\ t[1] \in DOMAIN items /\ items[t[1]].ref = None
                            /\ \A i \in DOMAIN items : items[i].ref # t[2]
        BY <3>2, <4>3
      <4>7. \A i \in DOMAIN items : items[i].ref = None => \E t \in todo : t[1] = i
        <5> SUFFICES ASSUME NEW i \in DOMAIN items, items[i].ref = None
                     PROVE  \E t \in todo : t[1] = i
          OBVIOUS
        <5>1. i \in DOMAIN f
          BY <3>2
        <5>2. <<i, f[i]>> \in todo /\ <<i, f[i]>>[1] = i
          BY <4>4, <5>1
        <5> QED
          BY <5>2
      <4>8. ASSUME NEW r
            PROVE  r \in DOMAIN lines' <=>
                     (\E i \in DOMAIN items : items[i].ref = r /\ r # None) \/ \E t \in todo : t[2] = r
        <5>1. r \in DOMAIN lines' =>
                (\E i \in DOMAIN items : items[i].ref = r /\ r # None) \/ \E t \in todo : t[2] = r
          BY <3>2, <4>4
        <5>2. (\E i \in DOMAIN items : items[i].ref = r /\ r # None) => r \in DOMAIN lines'
          BY <3>2
        <5>3. (\E t \in todo : t[2] = r) => r \in DOMAIN lines'
          BY <3>2, <4>3
        <5> QED
          BY <5>1, <5>2, <5>3
      <4>9. \A i \in DOMAIN items : items[i].ref # None => Lines!Line(items[i]) = lines'[items[i].ref]
        BY <3>2
      <4>10. \A t \in todo : Lines!Line(items[t[1]]) = lines'[t[2]]
        BY <3>2, <4>3
      <4> QED
        BY <1>1, <3>4, <4>2, <4>5, <4>6, <4>7, <4>8, <4>9, <4>10 DEF Stores
    <3> QED
      BY <2>3, <3>3, <3>4
  <2>5. JobOk'
    BY <1>1, <1>2, <2>3, <2>4 DEF JobOk
  <2>6. IdleOk'
    BY <1>1, <1>2, <2>4 DEF IdleOk
  <2> QED
    BY <1>1, <1>3, <2>1, <2>3, <2>5, <2>6 DEF SyncOk
<1> QED
  BY <1>2, <1>3

LEMMA StoreKeeps ==
  ASSUME LinesAssumption, LTypes, RowsOk, NEW n, NEW r, Lines!Store(n, r)
  PROVE  RowsOk' /\ (SyncOk => SyncOk')
<1>1. /\ lJob.step = "store" /\ <<n, r>> \in lJob.todo
      /\ items' = IF n \in DOMAIN items /\ ~\E j \in DOMAIN items : items[j].ref = r
                  THEN [items EXCEPT ![n].ref = r] ELSE items
      /\ lJob' = IF lJob.todo = {<<n, r>>} THEN Lines!NoJob
                 ELSE [lJob EXCEPT !.todo = @ \ {<<n, r>>}]
      /\ UNCHANGED <<total, lines, foreign, lQueue, editor, import, broken, undone>>
  BY DEF Lines!Store, Lines!xeroVars
<1>2. items \in [DOMAIN items -> Row] /\ lJob \in JobStates /\ r # None
  <2>1. lJob \in JobStates /\ <<n, r>>[2] \in 1..lastRef /\ lastRef \in Nat
    BY <1>1 DEF LTypes
  <2> QED
    BY <2>1, InItemTables DEF LTypes, LinesAssumption
<1>3. /\ DOMAIN items' = DOMAIN items
      /\ \A i \in DOMAIN items :
           /\ items'[i].title = items[i].title /\ items'[i].amount = items[i].amount
           /\ items'[i].ref = items[i].ref
                \/ (i = n /\ items'[i].ref = r /\ \A j \in DOMAIN items : items[j].ref # r)
  BY <1>1, <1>2 DEF Row
<1>4. OneRef(items)'
  BY <1>2, <1>3 DEF RowsOk, OneRef
<1>5. Lines!Sum(items') = Lines!Sum(items)
  <2>1. SameAmounts(items, items')
    BY <1>3 DEF SameAmounts
  <2> QED
    BY <2>1, RowsFinite, SumKept
<1>6. RowsOk' /\ NoEditor' = NoEditor /\ \A k \in Imports : import[k].step = "idle"
  BY <1>1, <1>3, <1>4, <1>5, JobMoves
<1>7. \A i \in DOMAIN items : Lines!Line(items'[i]) = Lines!Line(items[i])
  BY <1>3 DEF Lines!Line
<1>8. \/ lJob'.step = "idle" /\ lJob.todo = {<<n, r>>}
      \/ lJob'.step = "store" /\ lJob'.todo = lJob.todo \ {<<n, r>>} /\ lJob.todo # {<<n, r>>}
  <2>1. CASE lJob.todo = {<<n, r>>}
    BY <1>1, <2>1, IdleTyped
  <2>2. CASE lJob.todo # {<<n, r>>}
    BY <1>1, <1>2, <2>2 DEF JobStates
  <2> QED
    BY <2>1, <2>2
<1>9. ASSUME Stores
      PROVE  /\ lJob'.step = "store" => Stores'
             /\ lJob'.step = "idle" => /\ \A i \in DOMAIN items' : items'[i].ref # None
                                       /\ foreign' = FALSE => Matches'
  <2>1. /\ n \in DOMAIN items /\ items[n].ref = None
        /\ \A i \in DOMAIN items : items[i].ref # r
    <3>1. <<n, r>>[1] = n /\ <<n, r>>[2] = r
      OBVIOUS
    <3> QED
      BY <1>1, <1>9, <3>1 DEF Stores
  <2>2. /\ items'[n].ref = r
        /\ \A i \in DOMAIN items : i # n => items'[i].ref = items[i].ref
    BY <1>1, <1>2, <1>3, <2>1 DEF Row
  <2>3. \A t \in lJob.todo : t # <<n, r>> => t[1] # n /\ t[2] # r
    <3>1. <<n, r>>[1] = n /\ <<n, r>>[2] = r
      OBVIOUS
    <3> QED
      BY <1>1, <1>9, <3>1 DEF Stores
  <2>4. ASSUME foreign' = FALSE
        PROVE  /\ \A s : s \in DOMAIN lines <=>
                    \/ \E i \in DOMAIN items : items'[i].ref = s /\ s # None
                    \/ \E t \in lJob.todo \ {<<n, r>>} : t[2] = s
               /\ \A i \in DOMAIN items :
                    items'[i].ref # None => Lines!Line(items'[i]) = lines[items'[i].ref]
               /\ \A t \in lJob.todo \ {<<n, r>>} : Lines!Line(items'[t[1]]) = lines[t[2]]
    <3>1. /\ \A s : s \in DOMAIN lines <=>
                    (\E i \in DOMAIN items : items[i].ref = s /\ s # None) \/ \E t \in lJob.todo : t[2] = s
          /\ \A i \in DOMAIN items : items[i].ref # None => Lines!Line(items[i]) = lines[items[i].ref]
          /\ \A t \in lJob.todo : t[1] \in DOMAIN items /\ Lines!Line(items[t[1]]) = lines[t[2]]
      BY <1>1, <1>9, <2>4 DEF Stores
    <3>2. <<n, r>>[1] = n /\ <<n, r>>[2] = r
      OBVIOUS
    <3>3. Lines!Line(items'[n]) = lines[r]
      BY <1>1, <1>7, <2>1, <3>1, <3>2
    <3>4. \A i \in DOMAIN items : items'[i].ref # None => Lines!Line(items'[i]) = lines[items'[i].ref]
      BY <1>7, <2>2, <3>1, <3>3
    <3>5. \A t \in lJob.todo \ {<<n, r>>} : Lines!Line(items'[t[1]]) = lines[t[2]]
      BY <1>7, <3>1
    <3>6. ASSUME NEW s \in DOMAIN lines
          PROVE  \/ \E i \in DOMAIN items : items'[i].ref = s /\ s # None
                 \/ \E t \in lJob.todo \ {<<n, r>>} : t[2] = s
      <4>1. CASE \E i \in DOMAIN items : items[i].ref = s /\ s # None
        BY <2>1, <2>2, <4>1
      <4>2. CASE \E t \in lJob.todo : t[2] = s
        <5>1. PICK t \in lJob.todo : t[2] = s
          BY <4>2
        <5>2. CASE t = <<n, r>>
          BY <1>2, <2>1, <2>2, <3>2, <5>1, <5>2
        <5> QED
          BY <5>1, <5>2
      <4> QED
        BY <3>1, <4>1, <4>2
    <3>7. ASSUME NEW s, NEW i \in DOMAIN items, items'[i].ref = s, s # None PROVE s \in DOMAIN lines
      <4>1. CASE i = n
        BY <1>1, <2>2, <3>1, <3>2, <3>7, <4>1
      <4>2. CASE i # n
        BY <2>2, <3>1, <3>7, <4>2
      <4> QED
        BY <4>1, <4>2
    <3>8. ASSUME NEW s, NEW t \in lJob.todo, t[2] = s PROVE s \in DOMAIN lines
      BY <3>1, <3>8
    <3> QED
      BY <3>4, <3>5, <3>6, <3>7, <3>8
  <2>5. \A i \in DOMAIN items : items'[i].ref = None => \E t \in lJob.todo \ {<<n, r>>} : t[1] = i
    <3>1. <<n, r>>[1] = n
      OBVIOUS
    <3>2. \A i \in DOMAIN items : items[i].ref = None => \E t \in lJob.todo : t[1] = i
      BY <1>9 DEF Stores
    <3> QED
      BY <1>2, <2>2, <3>1, <3>2
  <2>6. CASE lJob'.step = "store"
    <3>1. lJob'.todo = lJob.todo \ {<<n, r>>}
      BY <1>8, <2>6
    <3>2. \A t, u \in lJob'.todo : t[1] = u[1] \/ t[2] = u[2] => t = u
      BY <1>9, <3>1 DEF Stores
    <3>3. \A t \in lJob'.todo :
            /\ t[1] \in DOMAIN items' /\ items'[t[1]].ref = None
            /\ \A i \in DOMAIN items' : items'[i].ref # t[2]
      <4>1. \A t \in lJob'.todo : /\ t[1] \in DOMAIN items /\ items[t[1]].ref = None
                                  /\ t[1] # n /\ t[2] # r
                                  /\ \A i \in DOMAIN items : items[i].ref # t[2]
        BY <1>9, <2>3, <3>1 DEF Stores
      <4> QED
        BY <1>3, <2>2, <4>1
    <3> QED
      BY <1>1, <1>3, <2>4, <2>5, <2>6, <3>1, <3>2, <3>3 DEF Stores
  <2>7. CASE lJob'.step = "idle"
    <3>1. lJob.todo \ {<<n, r>>} = {}
      BY <1>8, <2>7
    <3>2. \A i \in DOMAIN items' : items'[i].ref # None
      BY <1>3, <2>5, <3>1
    <3>3. ASSUME foreign' = FALSE PROVE Matches'
      <4>1. /\ \A s : s \in DOMAIN lines <=> \E i \in DOMAIN items : items'[i].ref = s /\ s # None
            /\ \A i \in DOMAIN items :
                 items'[i].ref # None => Lines!Line(items'[i]) = lines[items'[i].ref]
        BY <2>4, <3>1, <3>3
      <4>2. {items'[i].ref : i \in DOMAIN items'} = DOMAIN lines
        <5>1. \A s \in DOMAIN lines : \E i \in DOMAIN items' : items'[i].ref = s
          BY <1>3, <4>1
        <5>2. \A i \in DOMAIN items' : items'[i].ref \in DOMAIN lines
          BY <1>3, <3>2, <4>1
        <5> QED
          BY <5>1, <5>2
      <4>3. \A i \in DOMAIN items' : Lines!Line(items'[i]) = lines[items'[i].ref]
        BY <1>3, <3>2, <4>1
      <4> QED
        BY <1>1, <4>2, <4>3 DEF Matches
    <3> QED
      BY <2>7, <3>2, <3>3
  <2> QED
    BY <2>6, <2>7
<1>10. ASSUME SyncOk PROVE SyncOk'
  <2>1. TotalOk'
    BY <1>1, <1>5, <1>6, <1>10 DEF SyncOk, TotalOk
  <2>2. broken' = FALSE /\ NoEditor' /\ lQueue' = 0 => Stores
    BY <1>1, <1>6, <1>10 DEF SyncOk, JobOk
  <2>3. JobOk'
    BY <1>8, <1>9, <2>2 DEF JobOk
  <2>4. IdleOk'
    BY <1>9, <2>2 DEF IdleOk
  <2> QED
    BY <1>1, <1>8, <1>10, <2>1, <2>3, <2>4 DEF SyncOk
<1> QED
  BY <1>6, <1>10

(* The steps of an import.                                                 *)

\* One import goes on: there is no request, no job, no message and no other import.
LEMMA Alone ==
  ASSUME RowsOk, NEW k \in Imports, import[k].step # "idle"
  PROVE  /\ NoEditor /\ lJob.step = "idle" /\ lQueue = 0
         /\ \A l \in Imports : l # k => import[l].step = "idle"
BY DEF RowsOk, OneAtATime

LEMMA ImportMoves ==
  ASSUME LTypes, NoEditor, lJob.step = "idle", lQueue = 0, OneRef(items)',
         NEW k \in Imports, \A l \in Imports : l # k => import[l].step = "idle",
         NEW m, import' = [import EXCEPT ![k] = m], ImportsRows(k)',
         UNCHANGED <<lQueue, lJob, editor>>
  PROVE  /\ RowsOk' /\ NoEditor'
         /\ import'[k] = m /\ \A l \in Imports : l # k => import'[l].step = "idle"
<1>1. import'[k] = m /\ \A l \in Imports : l # k => import'[l].step = "idle"
  BY DEF LTypes
<1>2. \A l \in Imports : ImportsRows(l)'
  BY <1>1 DEF ImportsRows
<1>3. OneAtATime' /\ NoEditor'
  BY <1>1 DEF OneAtATime, NoEditor
<1>4. \A h \in Editors : WritesRows(h)'
  BY <1>3 DEF WritesRows, NoEditor
<1> QED
  BY <1>1, <1>2, <1>3, <1>4 DEF RowsOk

LEMMA AskedKeeps ==
  ASSUME LTypes, RowsOk, raced = FALSE, raced' = FALSE, NEW k \in Imports,
         Lines!Receive(k) \/ Lines!getQuotes(k) \/ Lines!Ask(k)
  PROVE  RowsOk' /\ (SyncOk => SyncOk')
<1>1. CASE Lines!Receive(k) /\ UNCHANGED import
  <2>1. UNCHANGED <<items, total, lines, foreign, lQueue, lJob, editor, import, broken, undone>>
    BY <1>1 DEF Lines!Receive, Lines!localVars
  <2>2. OneAtATime' /\ OneRef(items)' /\ (\A h \in Editors : WritesRows(h)') /\ NoEditor' = NoEditor
    BY <2>1 DEF RowsOk, OneAtATime, NoEditor, WritesRows
  <2>3. \A l \in Imports : ImportsRows(l)'
    BY <2>1 DEF RowsOk, ImportsRows
  <2>4. (Pushes => Pushes') /\ (Stores => Stores') /\ (Matches => Matches')
    BY <2>1 DEF Pushes, Stores, Matches
  <2>5. SyncOk => TotalOk' /\ JobOk' /\ IdleOk'
    BY <2>1, <2>2, <2>4 DEF SyncOk, TotalOk, JobOk, IdleOk
  <2> QED
    BY <2>1, <2>2, <2>3, <2>5 DEF RowsOk, SyncOk
<1>2. CASE /\ import' = [import EXCEPT ![k].step = "ask"] /\ raced' = (raced \/ Lines!AtWork)
           /\ import[k].step = "idle"
           /\ UNCHANGED <<items, total, lines, foreign, lQueue, lJob, editor, broken, undone>>
  <2>1. ~Lines!AtWork
    BY <1>2, Zenon
  <2>2. NoEditor /\ lJob.step = "idle" /\ lQueue = 0 /\ \A l \in Imports : import[l].step = "idle"
    BY <2>1 DEF Lines!AtWork, Lines!Updating, Lines!Importing, NoEditor, LTypes
  <2>3. PICK m : import' = [import EXCEPT ![k] = m] /\ m = import'[k]
    BY <1>2
  <2>4. m.step = "ask"
    BY <1>2, <2>3 DEF LTypes, ImportStates
  <2>5. ImportsRows(k)'
    BY <2>3, <2>4 DEF ImportsRows
  <2>6. /\ RowsOk' /\ NoEditor'
        /\ import'[k] = m /\ \A l \in Imports : l # k => import'[l].step = "idle"
    BY <1>2, <2>2, <2>3, <2>5, ImportMoves DEF RowsOk
  <2>7. Matches => Matches'
    BY <1>2 DEF Matches
  <2>8. SyncOk => TotalOk' /\ JobOk' /\ IdleOk'
    <3>1. SyncOk => TotalOk'
      BY <1>2, <2>2 DEF SyncOk, TotalOk
    <3>2. JobOk'
      BY <1>2, <2>2 DEF JobOk
    <3>3. SyncOk => IdleOk'
      BY <1>2, <2>2, <2>7 DEF SyncOk, IdleOk
    <3> QED
      BY <3>1, <3>2, <3>3
  <2> QED
    BY <1>2, <2>2, <2>6, <2>8 DEF SyncOk
<1>3. CASE Lines!Ask(k)
  <2>1. /\ import[k].step = "ask"
        /\ \/ import' = [import EXCEPT ![k] = Lines!NoImport] /\ UNCHANGED foreign
           \/ import' = [import EXCEPT ![k].answer = lines, ![k].step = "rows"] /\ foreign' = FALSE
        /\ UNCHANGED <<items, total, lines, lQueue, lJob, editor, broken, undone>>
    BY <1>3 DEF Lines!Ask, Lines!localVars
  <2>2. NoEditor /\ lJob.step = "idle" /\ lQueue = 0 /\ \A l \in Imports : l # k => import[l].step = "idle"
    BY <2>1, Alone
  <2>3. PICK m : import' = [import EXCEPT ![k] = m] /\ m = import'[k]
    BY <2>1
  <2>4. \/ m.step = "idle" /\ UNCHANGED foreign
        \/ m.step = "rows" /\ m.answer = lines
    <3>1. CASE import' = [import EXCEPT ![k] = Lines!NoImport] /\ UNCHANGED foreign
      BY <2>3, <3>1, IdleTyped DEF LTypes
    <3>2. CASE import' = [import EXCEPT ![k].answer = lines, ![k].step = "rows"]
      BY <2>3, <3>2 DEF LTypes, ImportStates
    <3> QED
      BY <2>1, <3>1, <3>2
  <2>5. ImportsRows(k)'
    BY <2>1, <2>3, <2>4 DEF ImportsRows
  <2>6. /\ RowsOk' /\ NoEditor'
        /\ import'[k] = m /\ \A l \in Imports : l # k => import'[l].step = "idle"
    BY <2>1, <2>2, <2>3, <2>5, ImportMoves DEF RowsOk
  <2>7. Matches => Matches'
    BY <2>1 DEF Matches
  <2>8. ASSUME SyncOk PROVE TotalOk' /\ JobOk' /\ IdleOk'
    <3>1. \A l \in Imports : import[l].step \in {"idle", "ask"}
      BY <2>1, <2>2
    <3>2. TotalOk'
      BY <2>1, <2>2, <2>8, <3>1 DEF SyncOk, TotalOk
    <3>3. JobOk'
      BY <2>1, <2>2 DEF JobOk
    <3>4. IdleOk'
      BY <2>1, <2>2, <2>4, <2>6, <2>7, <2>8, <3>1 DEF SyncOk, IdleOk
    <3> QED
      BY <3>2, <3>3, <3>4
  <2> QED
    BY <2>1, <2>2, <2>6, <2>8 DEF SyncOk
<1>4. CASE Lines!Receive(k)
  <2>1. \/ UNCHANGED import
        \/ /\ import' = [import EXCEPT ![k].step = "ask"] /\ raced' = (raced \/ Lines!AtWork)
           /\ import[k].step = "idle"
           /\ UNCHANGED <<items, total, lines, foreign, lQueue, lJob, editor, broken, undone>>
    BY <1>4, IdleTyped DEF Lines!Receive, Lines!localVars
  <2> QED
    BY <1>1, <1>2, <1>4, <2>1
<1>5. CASE Lines!getQuotes(k)
  <2>1. /\ import' = [import EXCEPT ![k].step = "ask"] /\ raced' = (raced \/ Lines!AtWork)
        /\ import[k].step = "idle"
        /\ UNCHANGED <<items, total, lines, foreign, lQueue, lJob, editor, broken, undone>>
    BY <1>5, IdleTyped DEF Lines!getQuotes, Lines!localVars, Lines!xeroVars
  <2> QED
    BY <1>2, <2>1
<1> QED
  BY <1>3, <1>4, <1>5

LEMMA RowsReadKeeps ==
  ASSUME LTypes, RowsOk, NEW k \in Imports, Lines!ReadRows(k) \/ Lines!WriteRow(k)
  PROVE  RowsOk' /\ (SyncOk => SyncOk')
<1>1. /\ UNCHANGED <<items, lines, foreign, lQueue, lJob, editor, broken, undone>>
      /\ import[k].step # "idle"
      /\ import[k].step \in {"rows", "row"}
  BY DEF Lines!ReadRows, Lines!WriteRow, Lines!localVars, Lines!xeroVars
<1>2. NoEditor /\ lJob.step = "idle" /\ lQueue = 0 /\ \A l \in Imports : l # k => import[l].step = "idle"
  BY <1>1, Alone
<1>3. PICK m : /\ import' = [import EXCEPT ![k] = m] /\ m = import'[k] /\ m.answer = import[k].answer
               /\ \/ m.step = "row" /\ m.rows = items /\ UNCHANGED total
                  \/ /\ m.step = "delete" /\ m.rows = import[k].rows /\ import[k].step = "row"
                     /\ total' = Lines!Sum(m.answer)
  <2>1. CASE Lines!ReadRows(k)
    <3>1. UNCHANGED total /\ import' = [import EXCEPT ![k] = [import[k] EXCEPT !.rows = items, !.step = "row"]]
      BY <2>1 DEF Lines!ReadRows, Lines!localVars, LTypes
    <3>2. PICK m : m = [import[k] EXCEPT !.rows = items, !.step = "row"]
      OBVIOUS
    <3>3. m.step = "row" /\ m.rows = items /\ m.answer = import[k].answer
      BY <3>2 DEF LTypes, ImportStates
    <3>4. import' = [import EXCEPT ![k] = m] /\ m = import'[k]
      BY <3>1, <3>2 DEF LTypes
    <3> QED
      BY <3>1, <3>3, <3>4
  <2>2. CASE Lines!WriteRow(k)
    <3>1. /\ total' = Lines!Sum(import[k].answer) /\ import[k].step = "row"
          /\ import' = [import EXCEPT ![k] = [import[k] EXCEPT !.step = "delete"]]
      BY <2>2 DEF Lines!WriteRow, LTypes
    <3>2. PICK m : m = [import[k] EXCEPT !.step = "delete"]
      OBVIOUS
    <3>3. m.step = "delete" /\ m.rows = import[k].rows /\ m.answer = import[k].answer
      BY <3>2 DEF LTypes, ImportStates
    <3>4. import' = [import EXCEPT ![k] = m] /\ m = import'[k]
      BY <3>1, <3>2 DEF LTypes
    <3> QED
      BY <3>1, <3>3, <3>4
  <2> QED
    BY <2>1, <2>2
<1>4. ImportsRows(k)'
  <2>1. /\ foreign = FALSE => lines = import[k].answer
        /\ import[k].step = "row" => import[k].rows = items
    BY <1>1 DEF RowsOk, ImportsRows
  <2>2. import'[k].step # "write"
    BY <1>3
  <2>3. import'[k].step = "delete" => total' = Lines!Sum(import'[k].answer)
    BY <1>3
  <2> QED
    BY <1>1, <1>3, <2>1, <2>2, <2>3 DEF ImportsRows
<1>5. /\ RowsOk' /\ NoEditor'
      /\ import'[k] = m /\ \A l \in Imports : l # k => import'[l].step = "idle"
  BY <1>1, <1>2, <1>3, <1>4, ImportMoves DEF RowsOk
<1>6. ASSUME SyncOk PROVE TotalOk' /\ JobOk' /\ IdleOk'
  <2>1. TotalOk'
    BY <1>1, <1>2, <1>3, <1>5, <1>6 DEF SyncOk, TotalOk
  <2>2. JobOk'
    BY <1>1, <1>2 DEF JobOk
  <2>3. broken = FALSE => \A i \in DOMAIN items : items[i].ref # None
    BY <1>1, <1>2, <1>6 DEF SyncOk, IdleOk
  <2>4. ~ \A l \in Imports : import'[l].step \in {"idle", "ask"}
    BY <1>3
  <2>5. IdleOk'
    BY <1>1, <2>3, <2>4 DEF IdleOk
  <2> QED
    BY <2>1, <2>2, <2>5
<1> QED
  BY <1>1, <1>2, <1>5, <1>6 DEF SyncOk

LEMMA DeleteRowsKeeps ==
  ASSUME LinesAssumption, LTypes, RowsOk, NEW k \in Imports, Lines!DeleteRows(k)
  PROVE  RowsOk' /\ (SyncOk => SyncOk')
<1> DEFINE answer == import[k].answer
<1>1. /\ import[k].step = "delete"
      /\ items' = Lines!Restrict(items, DOMAIN items \ Lines!Unmatched(k))
      /\ undone' = undone \cup {i \in Lines!Unmatched(k) \cap DOMAIN items :
                                  ~broken /\ items[i].done /\ import[k].rows[i].ref = None}
      /\ UNCHANGED <<total, lines, foreign, lQueue, lJob, editor, broken>>
  BY DEF Lines!DeleteRows, Lines!xeroVars
<1>2. NoEditor /\ lJob.step = "idle" /\ lQueue = 0 /\ \A l \in Imports : l # k => import[l].step = "idle"
  BY <1>1, Alone
<1>3. /\ import[k].rows = items /\ total = Lines!Sum(answer) /\ OneRef(items)
      /\ foreign = FALSE => lines = answer
  BY <1>1 DEF RowsOk, ImportsRows
<1>4. /\ DOMAIN items' = {i \in DOMAIN items : items[i].ref \in DOMAIN answer}
      /\ \A i \in DOMAIN items' : items'[i] = items[i]
  BY <1>1, <1>3 DEF Lines!Restrict, Lines!Unmatched
<1>5. OneRef(items)'
  BY <1>3, <1>4 DEF OneRef
<1>6. PICK m : /\ import' = [import EXCEPT ![k] = m] /\ m = import'[k]
               /\ \/ m.step = "idle" /\ DOMAIN answer = {}
                  \/ m.step = "write" /\ m.answer = answer /\ m.rows = items /\ m.todo = DOMAIN answer
                       /\ DOMAIN answer # {}
  <2>1. CASE answer = Lines!NoRows
    <3>1. import' = [import EXCEPT ![k] = Lines!NoImport]
      BY <2>1 DEF Lines!DeleteRows, LTypes
    <3>2. import'[k] = Lines!NoImport
      BY <3>1 DEF LTypes
    <3>3. DOMAIN answer = {}
      BY <2>1 DEF Lines!NoRows
    <3> QED
      BY <3>1, <3>2, <3>3, IdleTyped
  <2>2. CASE answer # Lines!NoRows
    <3>1. import' = [import EXCEPT ![k] = [import[k] EXCEPT !.step = "write", !.todo = DOMAIN answer]]
      BY <2>2 DEF Lines!DeleteRows, LTypes
    <3>2. PICK m : m = [import[k] EXCEPT !.step = "write", !.todo = DOMAIN answer]
      OBVIOUS
    <3>3. m.step = "write" /\ m.answer = answer /\ m.rows = items /\ m.todo = DOMAIN answer
      BY <1>3, <3>2 DEF LTypes, ImportStates
    <3>4. import' = [import EXCEPT ![k] = m] /\ m = import'[k]
      BY <3>1, <3>2 DEF LTypes
    <3>5. DOMAIN answer # {}
      <4>1. import[k].answer \in LineTables
        BY DEF LTypes, ImportStates
      <4>2. answer \in [DOMAIN answer -> LineRow]
        BY <4>1, InLineTables
      <4> QED
        BY <2>2, <4>2 DEF Lines!NoRows
    <3> QED
      BY <3>3, <3>4, <3>5
  <2> QED
    BY <2>1, <2>2
<1> HIDE DEF answer
<1>7. ImportsRows(k)'
  <2>1. CASE m.step = "idle"
    BY <1>6, <2>1 DEF ImportsRows
  <2>2. CASE m.step = "write"
    <3>1. /\ m.answer = answer /\ m.rows = items /\ m.todo = DOMAIN answer /\ DOMAIN answer # {}
          /\ import'[k] = m
      BY <1>6, <2>2
    <3>2. OneRef(m.rows)
      BY <1>3, <3>1
    <3>3. \A i \in DOMAIN items' : items'[i].ref \in DOMAIN m.answer
      BY <1>4, <3>1
    <3>4. \A i \in DOMAIN items' : i \in DOMAIN m.rows /\ items'[i] = m.rows[i]
      BY <1>4, <3>1
    <3>5. \A i \in DOMAIN m.rows : m.rows[i].ref \in m.todo => i \in DOMAIN items' /\ items'[i] = m.rows[i]
      BY <1>4, <3>1
    <3>6. total' = Lines!Sum(m.answer) /\ (foreign' = FALSE => lines' = m.answer)
      BY <1>1, <1>3, <3>1
    <3> QED
      BY <2>2, <3>1, <3>2, <3>3, <3>4, <3>5, <3>6 DEF ImportsRows
  <2> QED
    BY <1>6, <2>1, <2>2
<1>8. /\ RowsOk' /\ NoEditor'
      /\ import'[k] = m /\ \A l \in Imports : l # k => import'[l].step = "idle"
  BY <1>1, <1>2, <1>5, <1>6, <1>7, ImportMoves, Zenon DEF Lines!DeleteRows
<1>9. ASSUME SyncOk PROVE SyncOk'
  <2>1. undone' = {}
    <3>1. broken = FALSE => \A i \in DOMAIN items : items[i].ref # None
      BY <1>1, <1>2, <1>9 DEF SyncOk, IdleOk
    <3>2. {i \in Lines!Unmatched(k) \cap DOMAIN items :
             ~broken /\ items[i].done /\ import[k].rows[i].ref = None} = {}
      <4>1. broken \in BOOLEAN
        BY DEF LTypes
      <4>2. CASE broken = FALSE
        BY <1>3, <3>1, <4>2
      <4>3. CASE broken = TRUE
        BY <4>3
      <4> QED
        BY <4>1, <4>2, <4>3
    <3> QED
      BY <1>1, <1>9, <3>2 DEF SyncOk
  <2>2. CASE m.step = "write"
    <3>1. TotalOk' /\ JobOk' /\ IdleOk'
      BY <1>1, <1>2, <1>8, <2>2 DEF TotalOk, JobOk, IdleOk
    <3> QED
      BY <1>1, <1>2, <2>1, <3>1 DEF SyncOk
  <2>3. CASE m.step = "idle"
    <3>1. DOMAIN answer = {} /\ DOMAIN items' = {}
      BY <1>4, <1>6, <2>3
    <3>2. total' = Lines!Sum(items')
      <4>1. Lines!Sum(answer) = 0
        BY <3>1, SumOfNone
      <4>2. Lines!Sum(items') = 0
        BY <3>1, SumOfNone
      <4> QED
        BY <1>1, <1>3, <4>1, <4>2
    <3>3. TotalOk'
      BY <3>2 DEF TotalOk
    <3>4. JobOk'
      BY <1>1, <1>2 DEF JobOk
    <3>5. foreign' = FALSE => Matches'
      BY <1>1, <1>3, <3>1 DEF Matches
    <3>6. IdleOk'
      BY <3>1, <3>5 DEF IdleOk
    <3> QED
      BY <1>1, <1>2, <2>1, <3>3, <3>4, <3>6 DEF SyncOk
  <2> QED
    BY <1>6, <2>2, <2>3
<1> QED
  BY <1>8, <1>9

\* A line is written over the row that has its reference, or becomes a row.
LEMMA LineIsWritten ==
  ASSUME LinesAssumption, LTypes, RowsOk, NEW k \in Imports, NEW r \in import[k].todo,
         r \in DOMAIN import[k].answer, Lines!WriteLine(k, r)
  PROVE  \E n :
           /\ DOMAIN items' = DOMAIN items \cup {n}
           /\ items'[n].ref = r /\ Lines!Line(items'[n]) = import[k].answer[r]
           /\ \A i \in DOMAIN items : i # n => items'[i] = items[i] /\ items[i].ref # r
           /\ n \in DOMAIN items => items[n].ref = r /\ items'[n].done = items[n].done
<1>1. /\ import[k].step = "write"
      /\ OneRef(items) /\ OneRef(import[k].rows)
      /\ \A i \in DOMAIN items :
           items[i].ref \in import[k].todo => i \in DOMAIN import[k].rows /\ items[i] = import[k].rows[i]
      /\ \A i \in DOMAIN import[k].rows :
           import[k].rows[i].ref \in import[k].todo => i \in DOMAIN items /\ items[i] = import[k].rows[i]
  BY DEF RowsOk, ImportsRows, Lines!WriteLine
<1>2. PICK line : line = import[k].answer[r]
  OBVIOUS
<1>3. /\ line = [title |-> line.title, amount |-> line.amount]
      /\ items \in [DOMAIN items -> Row] /\ DOMAIN items \subseteq 1..lastId /\ lastId \in Nat
      /\ r # None
  <2>1. import[k].answer \in LineTables
    BY DEF LTypes, ImportStates
  <2>2. line \in LineRow
    BY <1>2, <2>1, InLineTables
  <2> QED
    BY <2>2, InItemTables DEF LTypes, LineRow, LinesAssumption
<1>4. \/ \E i \in Lines!ReadWith(k, r) :
           items' = IF i \notin DOMAIN items THEN items
                    ELSE [items EXCEPT ![i] = Lines!Item(line.title, line.amount, r, import[k].rows[i].done)]
      \/ /\ Lines!ReadWith(k, r) = {}
         /\ \/ \E i \in DOMAIN items : items[i].ref = r
            \/ /\ \A i \in DOMAIN items : items[i].ref # r
               /\ items' = Lines!With(items, lastId + 1, Lines!Item(line.title, line.amount, r, FALSE))
  BY <1>2 DEF Lines!WriteLine, Lines!After
<1>5. CASE \E i \in Lines!ReadWith(k, r) :
           items' = IF i \notin DOMAIN items THEN items
                    ELSE [items EXCEPT ![i] = Lines!Item(line.title, line.amount, r, import[k].rows[i].done)]
  <2>1. PICK n \in DOMAIN import[k].rows :
           /\ import[k].rows[n].ref = r
           /\ items' = IF n \notin DOMAIN items THEN items
                      ELSE [items EXCEPT ![n] = Lines!Item(line.title, line.amount, r, import[k].rows[n].done)]
    BY <1>5 DEF Lines!ReadWith
  <2>2. n \in DOMAIN items /\ items[n] = import[k].rows[n] /\ items[n].ref = r
    BY <1>1, <2>1
  <2>3. PICK row : row = Lines!Item(line.title, line.amount, r, import[k].rows[n].done)
    OBVIOUS
  <2>4. row.ref = r /\ Lines!Line(row) = line /\ row.done = items[n].done
    BY <1>3, <2>2, <2>3 DEF Lines!Item, Lines!Line
  <2>5. items' = [items EXCEPT ![n] = row]
    BY <2>1, <2>2, <2>3
  <2>6. \A i \in DOMAIN items : i # n => items'[i] = items[i] /\ items[i].ref # r
    <3>1. \A i \in DOMAIN items : i # n => items'[i] = items[i]
      BY <1>3, <2>5
    <3>2. \A i \in DOMAIN items : i # n => items[i].ref # r
      BY <1>1, <1>3, <2>2 DEF OneRef
    <3> QED
      BY <3>1, <3>2
  <2>7. items'[n] = row /\ DOMAIN items' = DOMAIN items \cup {n}
    BY <1>3, <2>2, <2>5
  <2>8. n \in DOMAIN items => items[n].ref = r /\ items'[n].done = items[n].done
    BY <2>2, <2>4, <2>7
  <2>9. items'[n].ref = r /\ Lines!Line(items'[n]) = import[k].answer[r]
    BY <1>2, <2>4, <2>7
  <2> QED
    BY <2>6, <2>7, <2>8, <2>9
<1>6. CASE /\ Lines!ReadWith(k, r) = {}
           /\ \E i \in DOMAIN items : items[i].ref = r
  BY <1>1, <1>6 DEF Lines!ReadWith
<1>7. CASE /\ \A i \in DOMAIN items : items[i].ref # r
           /\ items' = Lines!With(items, lastId + 1, Lines!Item(line.title, line.amount, r, FALSE))
  <2>1. PICK row : row = Lines!Item(line.title, line.amount, r, FALSE)
    OBVIOUS
  <2>2. row.ref = r /\ Lines!Line(row) = line
    BY <1>3, <2>1 DEF Lines!Item, Lines!Line
  <2>3. items' = [j \in DOMAIN items \cup {lastId + 1} |-> IF j = lastId + 1 THEN row ELSE items[j]]
    BY <1>7, <2>1 DEF Lines!With
  <2>4. lastId + 1 \notin DOMAIN items
    BY <1>3
  <2>5. /\ DOMAIN items' = DOMAIN items \cup {lastId + 1} /\ items'[lastId + 1] = row
        /\ \A i \in DOMAIN items : i # lastId + 1 => items'[i] = items[i] /\ items[i].ref # r
    BY <1>7, <2>3
  <2> QED
    BY <1>2, <2>2, <2>4, <2>5
<1> QED
  BY <1>4, <1>5, <1>6, <1>7

(* The last line: the rows and the lines are one to one.                   *)
LEMMA AllWritten ==
  ASSUME NEW f, NEW g, Amounts(f), Amounts(g), OneRef(f), None \notin DOMAIN g,
         \A i \in DOMAIN f : f[i].ref \in DOMAIN g,
         \A r \in DOMAIN g : \E i \in DOMAIN f : f[i].ref = r /\ Lines!Line(f[i]) = g[r],
         \A r \in DOMAIN g : g[r] = [title |-> g[r].title, amount |-> g[r].amount]
  PROVE  /\ Lines!Sum(f) = Lines!Sum(g)
         /\ {f[i].ref : i \in DOMAIN f} = DOMAIN g
         /\ \A i \in DOMAIN f : Lines!Line(f[i]) = g[f[i].ref]
<1>1. \A i \in DOMAIN f : Lines!Line(f[i]) = g[f[i].ref]
  <2> SUFFICES ASSUME NEW i \in DOMAIN f PROVE Lines!Line(f[i]) = g[f[i].ref]
    OBVIOUS
  <2>1. PICK j \in DOMAIN f : f[j].ref = f[i].ref /\ Lines!Line(f[j]) = g[f[i].ref]
    OBVIOUS
  <2>2. j = i
    BY <2>1 DEF OneRef
  <2> QED
    BY <2>1, <2>2
<1>2. \A i \in DOMAIN f : f[i].amount = g[f[i].ref].amount
  <2> SUFFICES ASSUME NEW i \in DOMAIN f PROVE f[i].amount = g[f[i].ref].amount
    OBVIOUS
  <2>1. [title |-> f[i].title, amount |-> f[i].amount]
          = [title |-> g[f[i].ref].title, amount |-> g[f[i].ref].amount]
    BY <1>1 DEF Lines!Line
  <2> QED
    BY <2>1
<1> DEFINE b == [i \in DOMAIN f |-> f[i].ref]
<1>3. b \in [DOMAIN f -> DOMAIN g] /\ \A i \in DOMAIN f : b[i] = f[i].ref
  OBVIOUS
<1> HIDE DEF b
<1>4. /\ \A i, j \in DOMAIN f : b[i] = b[j] => i = j
      /\ \A r \in DOMAIN g : \E i \in DOMAIN f : b[i] = r
      /\ \A i \in DOMAIN f : f[i].amount = g[b[i]].amount
  <2>1. \A i, j \in DOMAIN f : b[i] = b[j] => i = j
    BY <1>3 DEF OneRef
  <2>2. \A r \in DOMAIN g : \E i \in DOMAIN f : b[i] = r
    BY <1>3
  <2>3. ASSUME NEW i \in DOMAIN f PROVE f[i].amount = g[b[i]].amount
    <3>1. b[i] = f[i].ref
      BY <1>3
    <3> QED
      BY <1>2, <3>1
  <2> QED
    BY <2>1, <2>2, <2>3
<1>5. Lines!Sum(f) = Lines!Sum(g)
  BY <1>3, <1>4, SumsAlike
<1>6. {f[i].ref : i \in DOMAIN f} = DOMAIN g
  OBVIOUS
<1> QED
  BY <1>1, <1>5, <1>6

LEMMA WriteLineKeeps ==
  ASSUME LinesAssumption, LTypes, LTypes', RowsOk, NEW k \in Imports, NEW r \in import[k].todo,
         r \in DOMAIN import[k].answer, Lines!WriteLine(k, r)
  PROVE  RowsOk' /\ (SyncOk => SyncOk')
<1> DEFINE answer == import[k].answer
           rest == import[k].todo \ {r}
<1>1. /\ import[k].step = "write"
      /\ undone' = undone \cup {i \in DOMAIN items : ~broken /\ items[i].done /\ ~items'[i].done}
      /\ UNCHANGED <<total, lines, foreign, lQueue, lJob, editor, broken>>
  BY DEF Lines!WriteLine, Lines!xeroVars
<1>2. NoEditor /\ lJob.step = "idle" /\ lQueue = 0 /\ \A l \in Imports : l # k => import[l].step = "idle"
  BY <1>1, Alone
<1>3. PICK n :
        /\ DOMAIN items' = DOMAIN items \cup {n}
        /\ items'[n].ref = r /\ Lines!Line(items'[n]) = answer[r]
        /\ \A i \in DOMAIN items : i # n => items'[i] = items[i] /\ items[i].ref # r
        /\ n \in DOMAIN items => items[n].ref = r /\ items'[n].done = items[n].done
  BY LineIsWritten
<1>4. /\ OneRef(items) /\ OneRef(import[k].rows)
      /\ total = Lines!Sum(answer)
      /\ foreign = FALSE => lines = answer
      /\ import[k].todo \subseteq DOMAIN answer
      /\ \A i \in DOMAIN items : items[i].ref \in DOMAIN answer
      /\ \A i \in DOMAIN items :
           items[i].ref \in import[k].todo => i \in DOMAIN import[k].rows /\ items[i] = import[k].rows[i]
      /\ \A i \in DOMAIN import[k].rows :
           import[k].rows[i].ref \in import[k].todo => i \in DOMAIN items /\ items[i] = import[k].rows[i]
      /\ \A s \in DOMAIN answer \ import[k].todo :
           \E i \in DOMAIN items : items[i].ref = s /\ Lines!Line(items[i]) = answer[s]
  BY <1>1 DEF RowsOk, ImportsRows
<1>5. PICK m : /\ import' = [import EXCEPT ![k] = m] /\ m = import'[k]
               /\ \/ m.step = "idle" /\ rest = {}
                  \/ m.step = "write" /\ m.answer = answer /\ m.rows = import[k].rows /\ m.todo = rest
                       /\ rest # {}
  <2>1. CASE import[k].todo = {r}
    <3>1. import' = [import EXCEPT ![k] = Lines!NoImport]
      BY <2>1 DEF Lines!WriteLine, LTypes
    <3>2. import'[k] = Lines!NoImport
      BY <3>1 DEF LTypes
    <3> QED
      BY <2>1, <3>1, <3>2, IdleTyped
  <2>2. CASE import[k].todo # {r}
    <3>1. import' = [import EXCEPT ![k] = [import[k] EXCEPT !.todo = rest]]
      BY <2>2 DEF Lines!WriteLine, LTypes
    <3>2. PICK m : m = [import[k] EXCEPT !.todo = rest]
      OBVIOUS
    <3>3. m.step = "write" /\ m.answer = answer /\ m.rows = import[k].rows /\ m.todo = rest
      BY <1>1, <3>2 DEF LTypes, ImportStates
    <3>4. import' = [import EXCEPT ![k] = m] /\ m = import'[k]
      BY <3>1, <3>2 DEF LTypes
    <3> QED
      BY <2>2, <3>3, <3>4
  <2> QED
    BY <2>1, <2>2
<1>6. /\ OneRef(items') /\ (\A i \in DOMAIN items' : items'[i].ref \in DOMAIN answer)
      /\ \A s \in DOMAIN answer \ rest :
           \E i \in DOMAIN items' : items'[i].ref = s /\ Lines!Line(items'[i]) = answer[s]
  <2>1. OneRef(items')
    BY <1>3, <1>4 DEF OneRef
  <2>2. \A i \in DOMAIN items' : items'[i].ref \in DOMAIN answer
    BY <1>3, <1>4
  <2>3. ASSUME NEW s \in DOMAIN answer, s \notin rest
        PROVE  \E i \in DOMAIN items' : items'[i].ref = s /\ Lines!Line(items'[i]) = answer[s]
    <3>1. CASE s = r
      BY <1>3, <3>1
    <3>2. CASE s # r
      <4>1. PICK i \in DOMAIN items : items[i].ref = s /\ Lines!Line(items[i]) = answer[s]
        BY <1>4, <2>3, <3>2
      <4>2. CASE i = n
        BY <1>3, <3>2, <4>1, <4>2
      <4>3. CASE i # n
        BY <1>3, <4>1, <4>3
      <4> QED
        BY <4>2, <4>3
    <3> QED
      BY <3>1, <3>2
  <2> QED
    BY <2>1, <2>2, <2>3
<1> HIDE DEF answer, rest
<1>7. rest \subseteq import[k].todo /\ r \notin rest /\ rest \subseteq DOMAIN answer
  BY <1>4 DEF rest
<1>8. ImportsRows(k)'
  <2>1. CASE m.step = "idle"
    BY <1>5, <2>1 DEF ImportsRows
  <2>2. CASE m.step = "write"
    <3>1. m.answer = answer /\ m.rows = import[k].rows /\ m.todo = rest /\ rest # {} /\ import'[k] = m
      BY <1>5, <2>2
    <3>2. \A i \in DOMAIN items' : items'[i].ref \in rest => i \in DOMAIN m.rows /\ items'[i] = m.rows[i]
      BY <1>3, <1>4, <1>7, <3>1
    <3>3. \A i \in DOMAIN m.rows : m.rows[i].ref \in rest => i \in DOMAIN items' /\ items'[i] = m.rows[i]
      BY <1>3, <1>4, <1>7, <3>1
    <3>4. OneRef(m.rows) /\ total' = Lines!Sum(m.answer) /\ (foreign' = FALSE => lines' = m.answer)
      BY <1>1, <1>4, <3>1
    <3> QED
      BY <1>6, <1>7, <2>2, <3>1, <3>2, <3>3, <3>4 DEF ImportsRows
  <2> QED
    BY <1>5, <2>1, <2>2
<1>9. /\ RowsOk' /\ NoEditor'
      /\ import'[k] = m /\ \A l \in Imports : l # k => import'[l].step = "idle"
  BY <1>1, <1>2, <1>5, <1>6, <1>8, ImportMoves
<1>10. undone' = undone
  <2>1. \A i \in DOMAIN items : items'[i].done = items[i].done
    BY <1>3
  <2>2. {i \in DOMAIN items : ~broken /\ items[i].done /\ ~items'[i].done} = {}
    BY <2>1, Zenon
  <2> QED
    BY <1>1, <2>2
<1>11. ASSUME SyncOk PROVE SyncOk'
  <2>1. CASE m.step = "write"
    <3>1. TotalOk' /\ JobOk' /\ IdleOk'
      BY <1>1, <1>2, <1>9, <2>1 DEF TotalOk, JobOk, IdleOk
    <3> QED
      BY <1>1, <1>2, <1>10, <1>11, <3>1 DEF SyncOk
  <2>2. CASE m.step = "idle"
    <3>1. rest = {}
      BY <1>5, <2>2
    <3>2. Amounts(items') /\ Amounts(answer)
      <4>1. Amounts(items')
        <5>1. IsFiniteSet(DOMAIN items \cup {n})
          BY RowsFinite, FS_AddElement DEF Amounts
        <5>2. \A i \in DOMAIN items' : items'[i].amount \in Int
          BY InItemTables DEF LTypes, Row
        <5> QED
          BY <1>3, <5>1, <5>2 DEF Amounts
      <4>2. Amounts(answer)
        BY RowsFinite DEF answer
      <4> QED
        BY <4>1, <4>2
    <3>3. /\ None \notin DOMAIN answer
          /\ \A s \in DOMAIN answer : answer[s] = [title |-> answer[s].title, amount |-> answer[s].amount]
      <4>1. import[k].answer \in LineTables /\ DOMAIN answer \subseteq 1..lastRef /\ lastRef \in Nat
        BY DEF LTypes, ImportStates, answer
      <4>2. answer \in [DOMAIN answer -> LineRow]
        BY <4>1, InLineTables DEF answer
      <4> QED
        BY <4>1, <4>2 DEF LinesAssumption, LineRow
    <3>4. \A s \in DOMAIN answer : \E i \in DOMAIN items' : items'[i].ref = s /\ Lines!Line(items'[i]) = answer[s]
      BY <1>6, <3>1
    <3>5. /\ Lines!Sum(items') = Lines!Sum(answer)
          /\ {items'[i].ref : i \in DOMAIN items'} = DOMAIN answer
          /\ \A i \in DOMAIN items' : Lines!Line(items'[i]) = answer[items'[i].ref]
      BY <1>6, <3>2, <3>3, <3>4, AllWritten
    <3>6. TotalOk'
      BY <1>1, <1>4, <3>5 DEF TotalOk
    <3>7. JobOk'
      BY <1>1, <1>2 DEF JobOk
    <3>8. foreign' = FALSE => Matches'
      BY <1>1, <1>4, <3>5 DEF Matches
    <3>9. \A i \in DOMAIN items' : items'[i].ref # None
      BY <1>6, <3>3
    <3>10. IdleOk'
      BY <3>8, <3>9 DEF IdleOk
    <3> QED
      BY <1>1, <1>2, <1>10, <1>11, <3>6, <3>7, <3>10 DEF SyncOk
  <2> QED
    BY <1>5, <2>1, <2>2
<1> QED
  BY <1>9, <1>11

LInv == LTypes /\ TodoAnswered /\ RowsInv /\ SyncInv

LEMMA LinesInit == LinesAssumption /\ Lines!Init => LInv
<1> SUFFICES ASSUME LinesAssumption, Lines!Init PROVE LInv
  OBVIOUS
<1>1. LTypes
  BY LinesInitTypes
<1>2. /\ lJob = Lines!NoJob /\ total = 1 /\ undone = {}
      /\ editor = [h \in Editors |-> Lines!NoRequest] /\ import = [k \in Imports |-> Lines!NoImport]
  BY DEF Lines!Init
<1>3. /\ lJob.step = "idle" /\ NoEditor /\ (\A k \in Imports : import[k].step = "idle")
      /\ TodoAnswered
  BY <1>2, IdleTyped DEF NoEditor, TodoAnswered, Lines!NoImport
<1>4. PICK title \in Titles :
        \/ /\ items = [i \in {1} |-> Lines!Item(title, 1, None, FALSE)] /\ lQueue = 1
        \/ /\ items = [i \in {1} |-> Lines!Item(title, 1, 1, FALSE)]
           /\ lines = [r \in {1} |-> Lines!Line(items[r])] /\ lQueue = 0
  BY Zenon DEF Lines!Init
<1>5. DOMAIN items = {1} /\ items[1].amount = 1
  BY <1>4 DEF Lines!Item
<1>6. total = Lines!Sum(items)
  BY <1>2, <1>5, SumOfOne
<1>7. OneRef(items)
  BY <1>5 DEF OneRef
<1>8. RowsOk
  BY <1>3, <1>7, ImportsIdle DEF RowsOk, OneAtATime, NoEditor, WritesRows
<1>9. lQueue = 0 => items[1].ref # None /\ Matches
  <2> SUFFICES ASSUME lQueue = 0 PROVE items[1].ref # None /\ Matches
    OBVIOUS
  <2>1. items[1].ref = 1 /\ lines = [r \in {1} |-> Lines!Line(items[r])]
    BY <1>4 DEF Lines!Item
  <2>2. 1 # None
    BY DEF LinesAssumption
  <2>3. {items[i].ref : i \in DOMAIN items} = DOMAIN lines
    BY <1>5, <2>1
  <2>4. \A i \in DOMAIN items : Lines!Line(items[i]) = lines[items[i].ref]
    BY <1>5, <2>1
  <2> QED
    BY <2>1, <2>2, <2>3, <2>4 DEF Matches
<1>10. SyncOk
  <2>1. TotalOk
    BY <1>6 DEF TotalOk
  <2>2. JobOk
    BY <1>3 DEF JobOk
  <2>3. IdleOk
    BY <1>5, <1>9 DEF IdleOk
  <2> QED
    BY <1>2, <1>3, <2>1, <2>2, <2>3 DEF SyncOk
<1> QED
  BY <1>1, <1>3, <1>8, <1>10 DEF LInv, RowsInv, SyncInv

\* What has raced, and the twins met, are not forgotten.
LEMMA Remembered ==
  ASSUME LTypes, Lines!Next
  PROVE  (raced' = FALSE => raced = FALSE) /\ (twins' = FALSE => twins = FALSE)
<1>1. (raced => raced') /\ (twins => twins')
  <2>1. ASSUME NEW h \in Editors, NEW keep, NEW edited, NEW new, Lines!Update(h, keep, edited, new)
        PROVE  (raced => raced') /\ (twins => twins')
    BY <2>1, Zenon DEF Lines!Update
  <2>2. ASSUME NEW h \in Editors,
               \/ Lines!DeleteOthers(h) \/ Lines!ReadTotal(h) \/ Lines!WriteTotal(h)
               \/ Lines!UpdateFails(h) \/ \E e \in editor[h].entries : Lines!WriteItem(h, e)
        PROVE  (raced => raced') /\ (twins => twins')
    <3>1. UNCHANGED <<raced, twins>>
      BY <2>2 DEF Lines!DeleteOthers, Lines!ReadTotal, Lines!WriteTotal, Lines!UpdateFails, Lines!WriteItem
    <3> QED
      BY <3>1, Zenon
  <2>3. ASSUME NEW i \in DOMAIN items, Lines!completeMilestone(i)
        PROVE  (raced => raced') /\ (twins => twins')
    BY <2>3, Zenon DEF Lines!completeMilestone
  <2>4. CASE Lines!Take
    BY <2>4, Zenon DEF Lines!Take
  <2>5. CASE Lines!Push
    BY <2>5, Zenon DEF Lines!Push
  <2>6. CASE Lines!JobFails \/ Lines!Forget \/ Lines!ChangedInXero
    <3>1. UNCHANGED <<raced, twins>>
      BY <2>6 DEF Lines!JobFails, Lines!Forget, Lines!ChangedInXero
    <3> QED
      BY <3>1, Zenon
  <2>7. ASSUME NEW t \in lJob.todo, Lines!Store(t[1], t[2]) PROVE (raced => raced') /\ (twins => twins')
    BY <2>7, Zenon DEF Lines!Store
  <2>8. ASSUME NEW k \in Imports,
               \/ Lines!Receive(k) \/ Lines!getQuotes(k) \/ Lines!Ask(k) \/ Lines!ReadRows(k)
               \/ Lines!WriteRow(k) \/ Lines!DeleteRows(k) \/ \E r \in import[k].todo : Lines!WriteLine(k, r)
        PROVE  (raced => raced') /\ (twins => twins')
    <3>1. twins' = twins /\ (raced' = raced \/ raced' = (raced \/ Lines!AtWork))
      BY <2>8 DEF Lines!Receive, Lines!getQuotes, Lines!Ask, Lines!ReadRows, Lines!WriteRow,
                  Lines!DeleteRows, Lines!WriteLine
    <3>2. CASE raced' = (raced \/ Lines!AtWork)
      BY <3>1, <3>2, Zenon
    <3>3. CASE raced' = raced
      BY <3>1, <3>3
    <3> QED
      BY <3>1, <3>2, <3>3
  <2> QED
    BY <2>1, <2>2, <2>3, <2>4, <2>5, <2>6, <2>7, <2>8, LinesSteps, Zenon
<1>2. raced \in BOOLEAN /\ twins \in BOOLEAN
  BY DEF LTypes
<1> QED
  BY <1>1, <1>2

LEMMA LinesStep ==
  ASSUME LinesAssumption, LInv, Lines!Next
  PROVE  LInv'
<1>1. LTypes /\ TodoAnswered /\ LTypes' /\ TodoAnswered'
  BY LinesTypesStep DEF LInv
<1>2. SUFFICES ASSUME raced' = FALSE PROVE RowsOk' /\ (twins' = FALSE => SyncOk')
  BY <1>1 DEF LInv, RowsInv, SyncInv
<1>3. /\ raced = FALSE /\ (twins' = FALSE => twins = FALSE) /\ RowsOk /\ (twins = FALSE => SyncOk)
  BY <1>1, <1>2, Remembered DEF LInv, RowsInv, SyncInv
<1>4. ASSUME NEW h \in Editors, NEW keep, NEW edited, NEW new, keep \subseteq DOMAIN items,
             new \subseteq Titles, Lines!Update(h, keep, edited, new)
      PROVE  RowsOk' /\ (SyncOk => SyncOk')
  BY <1>1, <1>2, <1>3, <1>4, UpdateKeeps
<1>5. ASSUME NEW h \in Editors,
             \/ Lines!DeleteOthers(h) \/ Lines!ReadTotal(h) \/ Lines!WriteTotal(h)
             \/ Lines!UpdateFails(h) \/ \E e \in editor[h].entries : Lines!WriteItem(h, e)
      PROVE  RowsOk' /\ (SyncOk => SyncOk')
  BY <1>1, <1>3, <1>5, DeleteOthersKeeps, TotalKeeps, WriteItemKeeps
<1>6. ASSUME NEW i \in DOMAIN items, Lines!completeMilestone(i)
      PROVE  RowsOk' /\ (SyncOk => SyncOk')
  BY <1>1, <1>2, <1>3, <1>6, MilestoneKeeps
<1>7. CASE Lines!Take
  BY <1>1, <1>2, <1>3, <1>7, TakeKeeps
<1>8. CASE Lines!Push \/ Lines!JobFails \/ Lines!Forget \/ Lines!ChangedInXero
  <2>1. RowsOk' /\ (SyncOk => SyncOk')
    BY <1>1, <1>2, <1>3, <1>8, PushKeeps, JobFailsKeeps, XeroKeeps
  <2> QED
    BY <1>3, <2>1
<1>9. ASSUME NEW t \in lJob.todo, Lines!Store(t[1], t[2])
      PROVE  RowsOk' /\ (SyncOk => SyncOk')
  BY <1>1, <1>3, <1>9, StoreKeeps
<1>10. ASSUME NEW k \in Imports,
              \/ Lines!Receive(k) \/ Lines!getQuotes(k) \/ Lines!Ask(k) \/ Lines!ReadRows(k)
              \/ Lines!WriteRow(k) \/ Lines!DeleteRows(k) \/ \E r \in import[k].todo : Lines!WriteLine(k, r)
       PROVE  RowsOk' /\ (SyncOk => SyncOk')
  <2>1. ASSUME NEW r \in import[k].todo, Lines!WriteLine(k, r) PROVE RowsOk' /\ (SyncOk => SyncOk')
    <3>1. r \in DOMAIN import[k].answer
      BY <1>1 DEF TodoAnswered
    <3> QED
      BY <1>1, <1>3, <2>1, <3>1, WriteLineKeeps
  <2> QED
    BY <1>1, <1>2, <1>3, <1>10, <2>1, AskedKeeps, RowsReadKeeps, DeleteRowsKeeps
<1>11. ASSUME NEW h \in Editors, NEW i \in DOMAIN items,
              \/ Lines!Update(h, DOMAIN items, i, {})
              \/ Lines!Update(h, DOMAIN items \ {i}, None, {})
       PROVE  RowsOk' /\ (SyncOk => SyncOk')
  <2>1. DOMAIN items \ {i} \subseteq DOMAIN items /\ {} \subseteq Titles
    OBVIOUS
  <2> QED
    BY <1>4, <1>11, <2>1
<1>12. ASSUME NEW h \in Editors, NEW t \in Titles, Lines!Update(h, DOMAIN items, None, {t})
       PROVE  RowsOk' /\ (SyncOk => SyncOk')
  <2>1. {t} \subseteq Titles
    OBVIOUS
  <2> QED
    BY <1>4, <1>12, <2>1
<1>13. ASSUME RowsOk' /\ (SyncOk => SyncOk') PROVE RowsOk' /\ (twins' = FALSE => SyncOk')
  BY <1>3, <1>13
<1> QED
  BY <1>5, <1>6, <1>7, <1>8, <1>9, <1>10, <1>11, <1>12, <1>13, LinesSteps, Zenon

LEMMA LinesStutter == ASSUME LInv, UNCHANGED Lines!vars PROVE LInv'
<1>1. UNCHANGED <<items, lastId, total, lines, lastRef, foreign, lQueue, lJob, editor, import,
                  raced, twins, broken, undone>>
  BY DEF Lines!vars, Lines!localVars, Lines!xeroVars
<1>2. LTypes' /\ TodoAnswered'
  BY <1>1 DEF LInv, LTypes, TodoAnswered
<1>3. RowsInv'
  <2>1. OneAtATime' = OneAtATime /\ OneRef(items)' = OneRef(items)
    BY <1>1 DEF OneAtATime, NoEditor, OneRef
  <2>2. \A h \in Editors : WritesRows(h) => WritesRows(h)'
    BY <1>1 DEF WritesRows
  <2>3. \A k \in Imports : ImportsRows(k) => ImportsRows(k)'
    BY <1>1 DEF ImportsRows
  <2> QED
    BY <1>1, <2>1, <2>2, <2>3 DEF LInv, RowsInv, RowsOk
<1>4. SyncInv'
  <2>1. NoEditor' = NoEditor /\ (Pushes => Pushes') /\ (Stores => Stores') /\ (Matches => Matches')
    BY <1>1 DEF NoEditor, Pushes, Stores, Matches
  <2>2. TotalOk => TotalOk'
    BY <1>1, <2>1 DEF TotalOk
  <2>3. JobOk => JobOk'
    BY <1>1, <2>1 DEF JobOk
  <2>4. IdleOk => IdleOk'
    BY <1>1, <2>1 DEF IdleOk
  <2> QED
    BY <1>1, <2>2, <2>3, <2>4 DEF LInv, SyncInv, SyncOk
<1> QED
  BY <1>2, <1>3, <1>4 DEF LInv

LEMMA LInvImplies ==
  ASSUME LInv
  PROVE  Lines!LinesAgree /\ Lines!ProgressStays
<1>1. raced \in BOOLEAN /\ twins \in BOOLEAN /\ broken \in BOOLEAN /\ foreign \in BOOLEAN
      /\ lQueue \in Nat
  BY DEF LInv, LTypes
<1>2. Lines!ProgressStays
  <2>1. raced = FALSE /\ twins = FALSE => undone = {}
    BY DEF LInv, SyncInv, SyncOk
  <2>2. raced = TRUE \/ twins = TRUE \/ undone = {}
    BY <1>1, <2>1
  <2> QED
    BY <2>2, Zenon DEF Lines!ProgressStays
<1>3. Lines!LinesAgree
  <2> SUFFICES ASSUME Lines!Quiet, ~raced, ~twins, ~broken
               PROVE  /\ total = Lines!Sum(items)
                      /\ {items[i].ref : i \in DOMAIN items} = DOMAIN lines
                      /\ \A i \in DOMAIN items : Lines!Line(items[i]) = lines[items[i].ref]
    BY Zenon DEF Lines!LinesAgree
  <2>1. raced = FALSE /\ twins = FALSE /\ broken = FALSE
    BY <1>1
  <2>2. ~Lines!Updating /\ ~Lines!Importing /\ lJob.step = "idle" /\ ~(lQueue > 0) /\ foreign = FALSE
    BY <1>1, Zenon DEF Lines!Quiet, Lines!AtWork
  <2>3. NoEditor /\ (\A k \in Imports : import[k].step = "idle") /\ lQueue = 0
    BY <1>1, <2>2 DEF Lines!Updating, Lines!Importing, NoEditor
  <2>4. TotalOk /\ IdleOk
    BY <2>1 DEF LInv, SyncInv, SyncOk
  <2>5. total = Lines!Sum(items)
    BY <2>1, <2>3, <2>4 DEF TotalOk
  <2>6. Matches
    BY <2>1, <2>2, <2>3, <2>4 DEF IdleOk
  <2> QED
    BY <2>5, <2>6 DEF Matches
<1> QED
  BY <1>2, <1>3

(* Once nothing is left to do, the lines in Xero are the items here and    *)
(* the total is their sum, and an import resets no milestone, but for the  *)
(* causes named: for any number of users, of imports, of titles, of edits  *)
(* and of failures (updateQuotation, syncInvoice, getQuotes, and their     *)
(* kin).                                                                   *)
THEOREM LinesComeToMatch ==
  LinesAssumption => (Lines!Spec => [](Lines!LinesAgree /\ Lines!ProgressStays))
<1> SUFFICES ASSUME LinesAssumption
             PROVE  Lines!Spec => [](Lines!LinesAgree /\ Lines!ProgressStays)
  OBVIOUS
<1>1. Lines!Init => LInv
  BY LinesInit
<1>2. LInv /\ [Lines!Next]_(Lines!vars) => LInv'
  BY LinesStep, LinesStutter
<1>3. LInv => Lines!LinesAgree /\ Lines!ProgressStays
  BY LInvImplies
<1> QED
  BY <1>1, <1>2, <1>3, PTL DEF Lines!Spec

(* What the composition checks of items and their lines.                   *)
THEOREM ItemsComeToMatch == LinesAssumption => (RecordsSpec => []ItemsMatchLines)
<1> SUFFICES ASSUME LinesAssumption PROVE RecordsSpec => []ItemsMatchLines
  OBVIOUS
<1>1. RecordsInit => Lines!Init
  BY DEF RecordsInit
<1>2. [RecordsNext]_<<which, taskVars, listVars, pageVars, vars, linesVars>>
        => [Lines!Next]_(Lines!vars)
  BY DEF RecordsNext, linesVars, Lines!vars, Lines!localVars, Lines!xeroVars
<1>3. Lines!LinesAgree /\ Lines!ProgressStays => ItemsMatchLines
  BY DEF ItemsMatchLines
<1> QED
  BY <1>1, <1>2, <1>3, LinesComeToMatch, PTL DEF RecordsSpec, Lines!Spec
=============================================================================
