--------------------------- MODULE InvoicingProofs ---------------------------
(***************************************************************************)
(* No milestone is marked sent, paid or canceled because of an invoice     *)
(* that never was, for any number of invoices, milestones, requests and    *)
(* failures; and, when nothing fails, no completed milestone goes without  *)
(* the hold it requires.  At the end, the order of tasks nobody moves.     *)
(***************************************************************************)
EXTENDS Billing, Integers, SequenceTheorems, TLAPS

LEMMA InitIInv == Init => IInv
<1> SUFFICES ASSUME Init PROVE IInv
  OBVIOUS
<1>1. /\ invoice \in [Invoices -> InvoiceStatus \cup {"none"}]
      /\ past \in [Invoices -> SUBSET InvoiceStatus]
      /\ held \subseteq Milestones /\ failures \in 0..MaxFailures
  BY InvoicingAssumption DEF Init
<1>2. onHold \in BOOLEAN
  BY DEF Init
<1>3. milestone \in [Milestones ->
        [status: MilestoneStatus, invoice: Invoices \cup {NoInvoice},
         completed: BOOLEAN]]
  BY DEF Init, MilestoneStatus
<1>4. handler \in [Handlers -> Handler]
  BY DEF Init, Idle, Handler, InvoiceStatus, PC
<1>5. MilestoneBackedByInvoice
  BY DEF Init, MilestoneBackedByInvoice
<1>6. HandlerJustified /\ HadStatus
  BY DEF Init, HandlerJustified, RequestJustified, HadStatus, Idle
<1> QED
  BY <1>1, <1>2, <1>3, <1>4, <1>5, <1>6 DEF IInv, TypeOK

-----------------------------------------------------------------------------
(* The two helpers.                                                        *)

(* Where GoTo takes request h.                                             *)
LEMMA GoToRecord ==
  ASSUME NEW h \in Handlers,
         NEW pc \in PC, NEW i \in Invoices \cup {NoInvoice},
         NEW s \in InvoiceStatus, NEW ms \in SUBSET Milestones,
         GoTo(h, pc, i, s, ms)
  PROVE  \E r \in Handler : /\ handler' = [handler EXCEPT ![h] = r]
                            /\ r.pc = pc /\ r.inv = i
<1> DEFINE r == [pc |-> pc, inv |-> i, to |-> s, ms |-> ms]
<1>1. r \in Handler /\ r.pc = pc /\ r.inv = i
  BY DEF Handler
<1>2. handler' = [handler EXCEPT ![h] = r]
  BY DEF GoTo
<1> QED
  BY <1>1, <1>2

(* A request that is over is justified, and the others are where they were.*)
LEMMA ReturnType ==
  ASSUME TypeOK, NEW h \in Handlers, Return(h)
  PROVE  /\ handler' \in [Handlers -> Handler]
         /\ handler'[h] = Idle
         /\ \A k \in Handlers \ {h} : handler'[k] = handler[k]
BY DEF TypeOK, Return, Handler, Idle, InvoiceStatus, PC

(* The history of an invoice grows, and has its current status.            *)
LEMMA SetStatusGrows ==
  ASSUME TypeOK, HadStatus, NEW i \in Invoices, NEW s \in InvoiceStatus,
         SetStatus(i, s)
  PROVE  /\ invoice' \in [Invoices -> InvoiceStatus \cup {"none"}]
         /\ past' \in [Invoices -> SUBSET InvoiceStatus]
         /\ HadStatus' /\ s \in past'[i]
         /\ \A j \in Invoices : past[j] \subseteq past'[j]
BY DEF TypeOK, HadStatus, SetStatus

(* What stays justified while the milestones and requests stay as they are.*)
LEMMA BackedGrows ==
  ASSUME TypeOK, MilestoneBackedByInvoice, UNCHANGED milestone,
         \A j \in Invoices : past[j] \subseteq past'[j]
  PROVE  MilestoneBackedByInvoice'
BY DEF TypeOK, MilestoneBackedByInvoice, Justifies

(* The milestones of an invoice take a status it has had.                  *)
LEMMA MarkBacked ==
  ASSUME TypeOK, MilestoneBackedByInvoice, NEW i \in Invoices,
         NEW s \in {"invoice_sent", "invoice_paid", "invoice_canceled"},
         MarkMilestones(i, s),
         \A j \in Invoices : past[j] \subseteq past'[j],
         s = "invoice_sent" => "sent" \in past'[i],
         s = "invoice_paid" => "paid" \in past'[i],
         s = "invoice_canceled" => "canceled" \in past'[i]
  PROVE  /\ MilestoneBackedByInvoice'
         /\ milestone' \in [Milestones ->
              [status: MilestoneStatus, invoice: Invoices \cup {NoInvoice},
               completed: BOOLEAN]]
<1>1. milestone' \in [Milestones ->
              [status: MilestoneStatus, invoice: Invoices \cup {NoInvoice},
               completed: BOOLEAN]]
  BY DEF TypeOK, MarkMilestones, MilestoneStatus
<1>2. ASSUME NEW m \in Milestones,
             milestone'[m].status \notin {"not_completed", "completed"}
      PROVE  /\ milestone'[m].invoice # NoInvoice
             /\ Justifies(m)' \subseteq past'[milestone'[m].invoice]
  <2>1. CASE milestone[m].invoice = i
    <3>1. milestone'[m].status = s /\ milestone'[m].invoice = i
      BY <2>1 DEF MarkMilestones
    <3> QED
      BY <3>1, InvoicingAssumption DEF Justifies
  <2>2. CASE milestone[m].invoice # i
    <3>1. milestone'[m] = milestone[m]
      BY <2>2 DEF MarkMilestones
    <3>2. /\ milestone[m].invoice \in Invoices
          /\ Justifies(m) \subseteq past[milestone[m].invoice]
      BY <1>2, <3>1 DEF TypeOK, MilestoneBackedByInvoice
    <3>3. Justifies(m)' = Justifies(m)
      BY <3>1 DEF Justifies
    <3> QED
      BY <3>1, <3>2, <3>3, InvoicingAssumption
  <2> QED
    BY <2>1, <2>2
<1> QED
  BY <1>1, <1>2 DEF MilestoneBackedByInvoice

-----------------------------------------------------------------------------
(* The steps.                                                              *)

LEMMA CreateKeeps ==
  ASSUME IInv, NEW h \in Handlers, NEW i \in Invoices,
         NEW ms \in SUBSET Milestones, Create(h, i, ms)
  PROVE  IInv'
<1>1. TypeOK /\ HadStatus /\ MilestoneBackedByInvoice /\ HandlerJustified
  BY DEF IInv
<1>2. /\ invoice' \in [Invoices -> InvoiceStatus \cup {"none"}]
      /\ past' \in [Invoices -> SUBSET InvoiceStatus]
      /\ HadStatus' /\ "generated" \in past'[i]
      /\ \A j \in Invoices : past[j] \subseteq past'[j]
  BY <1>1, SetStatusGrows DEF Create, InvoiceStatus
<1>3. MilestoneBackedByInvoice'
  BY <1>1, <1>2, BackedGrows DEF Create
<1>4. /\ handler' \in [Handlers -> Handler]
      /\ \A k \in Handlers \ {h} : handler'[k] = handler[k]
      /\ \/ handler'[h] = Idle
         \/ handler'[h] = [pc |-> "link", inv |-> i, to |-> "generated",
                           ms |-> ms]
  <2>1. CASE ms = {}
    BY <1>1, <2>1, ReturnType DEF Create
  <2>2. CASE ms # {}
    <3>1. GoTo(h, "link", i, "generated", ms)
      BY <2>2 DEF Create
    <3> QED
      BY <1>1, <3>1 DEF GoTo, TypeOK, Handler, InvoiceStatus, PC
  <2> QED
    BY <2>1, <2>2
<1>5. TypeOK'
  BY <1>1, <1>2, <1>4 DEF TypeOK, Create
<1>6. HandlerJustified'
  BY <1>1, <1>2, <1>4 DEF TypeOK, HandlerJustified, RequestJustified, Idle, Handler
<1> QED
  BY <1>2, <1>3, <1>5, <1>6 DEF IInv

(* A step that moves one request while the histories only grow.            *)
LEMMA StepKeeps ==
  ASSUME IInv, NEW h \in Handlers,
         invoice' \in [Invoices -> InvoiceStatus \cup {"none"}],
         past' \in [Invoices -> SUBSET InvoiceStatus], HadStatus',
         \A j \in Invoices : past[j] \subseteq past'[j],
         milestone' \in [Milestones ->
           [status: MilestoneStatus, invoice: Invoices \cup {NoInvoice},
            completed: BOOLEAN]],
         MilestoneBackedByInvoice',
         onHold' \in BOOLEAN, held' \subseteq Milestones,
         failures' \in 0..MaxFailures, handler' \in [Handlers -> Handler],
         \A k \in Handlers \ {h} : handler'[k] = handler[k],
         RequestJustified(h)'
  PROVE  IInv'
<1>1. TypeOK'
  BY DEF TypeOK
<1>2. ASSUME NEW k \in Handlers PROVE RequestJustified(k)'
  <2>1. CASE k = h
    BY <2>1
  <2>2. CASE k # h
    BY <2>2 DEF IInv, HandlerJustified, RequestJustified
  <2> QED
    BY <2>1, <2>2
<1> QED
  BY <1>1, <1>2 DEF IInv, HandlerJustified

(* One that leaves invoices and milestones alone.                          *)
LEMMA QuietKeeps ==
  ASSUME IInv, NEW h \in Handlers, UNCHANGED <<invoice, past, milestone>>,
         onHold' \in BOOLEAN, held' \subseteq Milestones,
         failures' \in 0..MaxFailures, handler' \in [Handlers -> Handler],
         \A k \in Handlers \ {h} : handler'[k] = handler[k],
         RequestJustified(h)'
  PROVE  IInv'
<1>1. MilestoneBackedByInvoice' /\ HadStatus'
  BY DEF IInv, MilestoneBackedByInvoice, Justifies, HadStatus
<1>2. /\ invoice' \in [Invoices -> InvoiceStatus \cup {"none"}]
      /\ past' \in [Invoices -> SUBSET InvoiceStatus]
      /\ \A j \in Invoices : past[j] \subseteq past'[j]
      /\ milestone' \in [Milestones ->
           [status: MilestoneStatus, invoice: Invoices \cup {NoInvoice},
            completed: BOOLEAN]]
  BY DEF IInv, TypeOK
<1> QED
  BY <1>1, <1>2, StepKeeps

LEMMA EditReadKeeps ==
  ASSUME IInv, NEW h \in Handlers, NEW i \in Invoices, NEW ms \in SUBSET Milestones,
         EditRead(h, i, ms)
  PROVE  IInv'
<1>1. PICK r \in Handler :
        handler' = [handler EXCEPT ![h] = r] /\ r.pc = "edit" /\ r.inv = i
  <2>1. GoTo(h, "edit", i, "generated", ms)
    BY DEF EditRead
  <2>2. "generated" \in InvoiceStatus /\ "edit" \in PC
    BY DEF InvoiceStatus, PC
  <2> QED
    BY <2>1, <2>2, GoToRecord
<1>2. UNCHANGED <<invoice, past, milestone, onHold, held, failures>>
      /\ invoice[i] = "generated"
  BY DEF EditRead
<1>3. /\ handler' \in [Handlers -> Handler] /\ handler'[h] = r
      /\ \A k \in Handlers \ {h} : handler'[k] = handler[k]
  BY <1>1 DEF IInv, TypeOK
<1>4. RequestJustified(h)'
  BY <1>1, <1>2, <1>3 DEF IInv, HadStatus, RequestJustified
<1> QED
  BY <1>2, <1>3, <1>4, QuietKeeps DEF IInv, TypeOK

LEMMA SubmitReadKeeps ==
  ASSUME IInv, NEW h \in Handlers, NEW i \in Invoices,
         SubmitRead(h, i)
  PROVE  IInv'
<1>1. PICK r \in Handler :
        handler' = [handler EXCEPT ![h] = r] /\ r.pc = "submit" /\ r.inv = i
  <2>1. GoTo(h, "submit", i, "sent", {})
    BY DEF SubmitRead
  <2>2. "sent" \in InvoiceStatus /\ "submit" \in PC
    BY DEF InvoiceStatus, PC
  <2> QED
    BY <2>1, <2>2, GoToRecord
<1>2. UNCHANGED <<invoice, past, milestone, onHold, held, failures>>
  BY DEF SubmitRead
<1>3. /\ handler' \in [Handlers -> Handler] /\ handler'[h] = r
      /\ \A k \in Handlers \ {h} : handler'[k] = handler[k]
  BY <1>1 DEF IInv, TypeOK
<1>4. RequestJustified(h)'
  BY <1>1, <1>2, <1>3 DEF IInv, HadStatus, RequestJustified
<1> QED
  BY <1>2, <1>3, <1>4, QuietKeeps DEF IInv, TypeOK

LEMMA CompleteReadKeeps ==
  ASSUME IInv, NEW h \in Handlers, NEW m \in Milestones,
         CompleteRead(h, m)
  PROVE  IInv'
<1>1. PICK r \in Handler :
        handler' = [handler EXCEPT ![h] = r] /\ r.pc = "complete" /\ r.inv = NoInvoice
  <2>1. GoTo(h, "complete", NoInvoice, "generated", {m})
    BY DEF CompleteRead
  <2>2. "generated" \in InvoiceStatus /\ "complete" \in PC
    BY DEF InvoiceStatus, PC
  <2> QED
    BY <2>1, <2>2, GoToRecord
<1>2. UNCHANGED <<invoice, past, milestone, onHold, held, failures>>
  BY DEF CompleteRead
<1>3. /\ handler' \in [Handlers -> Handler] /\ handler'[h] = r
      /\ \A k \in Handlers \ {h} : handler'[k] = handler[k]
  BY <1>1 DEF IInv, TypeOK
<1>4. RequestJustified(h)'
  BY <1>1, <1>2, <1>3 DEF IInv, HadStatus, RequestJustified
<1> QED
  BY <1>2, <1>3, <1>4, QuietKeeps DEF IInv, TypeOK

LEMMA SyncReadKeeps ==
  ASSUME IInv, NEW h \in Handlers, NEW i \in Invoices, NEW s \in InvoiceStatus,
         SyncRead(h, i, s)
  PROVE  IInv'
<1>1. PICK r \in Handler :
        /\ handler' = [handler EXCEPT ![h] = r]
        /\ r.pc \in {"sync", "sync_paid"} /\ r.inv = i
  <2> DEFINE pc == IF invoice[i] = "paid" THEN "sync_paid" ELSE "sync"
  <2>1. GoTo(h, pc, i, s, {}) /\ pc \in {"sync", "sync_paid"}
    BY DEF SyncRead
  <2>2. pc \in PC
    BY DEF PC
  <2> HIDE DEF pc
  <2>3. \E r \in Handler : /\ handler' = [handler EXCEPT ![h] = r]
                          /\ r.pc = pc /\ r.inv = i
    BY <2>1, <2>2, GoToRecord
  <2> QED
    BY <2>1, <2>3
<1>2. UNCHANGED <<invoice, past, milestone, onHold, held, failures>>
  BY DEF SyncRead
<1>3. /\ handler' \in [Handlers -> Handler] /\ handler'[h] = r
      /\ \A k \in Handlers \ {h} : handler'[k] = handler[k]
  BY <1>1 DEF IInv, TypeOK
<1>4. RequestJustified(h)'
  BY <1>1, <1>2, <1>3 DEF IInv, HadStatus, RequestJustified
<1> QED
  BY <1>2, <1>3, <1>4, QuietKeeps DEF IInv, TypeOK

LEMMA EditWriteKeeps ==
  ASSUME IInv, NEW h \in Handlers, EditWrite(h) PROVE IInv'
<1>1. /\ handler[h] \in Handler /\ handler[h].inv \in Invoices
      /\ "generated" \in past[handler[h].inv]
  BY DEF IInv, TypeOK, HandlerJustified, RequestJustified, EditWrite
<1>2. PICK r \in Handler :
        /\ handler' = [handler EXCEPT ![h] = r]
        /\ r = Idle \/ (r.pc = "link" /\ r.inv = handler[h].inv)
  <2>1. Idle \in Handler
    BY DEF Idle, Handler, InvoiceStatus, PC
  <2>2. CASE handler[h].ms = {}
    BY <2>1, <2>2 DEF EditWrite, Return
  <2>3. CASE handler[h].ms # {}
    <3>1. GoTo(h, "link", handler[h].inv, "generated", handler[h].ms)
      BY <2>3 DEF EditWrite
    <3>2. /\ "generated" \in InvoiceStatus /\ "link" \in PC
          /\ handler[h].ms \in SUBSET Milestones
      BY <1>1 DEF InvoiceStatus, PC, Handler
    <3>3. \E r \in Handler : /\ handler' = [handler EXCEPT ![h] = r]
                            /\ r.pc = "link" /\ r.inv = handler[h].inv
      BY <1>1, <3>1, <3>2, GoToRecord
    <3> QED
      BY <3>3
  <2> QED
    BY <2>2, <2>3
<1>3. UNCHANGED <<invoice, past, milestone, onHold, held, failures>>
  BY DEF EditWrite
<1>4. /\ handler' \in [Handlers -> Handler] /\ handler'[h] = r
      /\ \A k \in Handlers \ {h} : handler'[k] = handler[k]
  BY <1>2 DEF IInv, TypeOK
<1>5. RequestJustified(h)'
  BY <1>1, <1>2, <1>3, <1>4 DEF RequestJustified, Idle
<1> QED
  BY <1>3, <1>4, <1>5, QuietKeeps DEF IInv, TypeOK

LEMMA LinkKeeps ==
  ASSUME IInv, NEW h \in Handlers, LinkMilestones(h) PROVE IInv'
<1>1. /\ handler[h] \in Handler /\ handler[h].inv \in Invoices
      /\ "generated" \in past[handler[h].inv] /\ TypeOK
  BY DEF IInv, TypeOK, HandlerJustified, RequestJustified, LinkMilestones
<1>2. UNCHANGED <<invoice, past, onHold, held, failures>> /\ Return(h)
  BY DEF LinkMilestones
<1>3. milestone' \in [Milestones ->
        [status: MilestoneStatus, invoice: Invoices \cup {NoInvoice},
         completed: BOOLEAN]]
  BY <1>1 DEF TypeOK, LinkMilestones, MilestoneStatus
<1>4. MilestoneBackedByInvoice'
  <2> SUFFICES ASSUME NEW m \in Milestones,
                      milestone'[m].status \notin {"not_completed", "completed"}
               PROVE  /\ milestone'[m].invoice # NoInvoice
                      /\ Justifies(m)' \subseteq past'[milestone'[m].invoice]
    BY DEF MilestoneBackedByInvoice
  <2>1. CASE m \in handler[h].ms
    <3>1. /\ milestone'[m].status = "invoice_generated"
          /\ milestone'[m].invoice = handler[h].inv
      BY <2>1 DEF LinkMilestones
    <3> QED
      BY <1>1, <1>2, <3>1, InvoicingAssumption DEF Justifies
  <2>2. CASE m \notin handler[h].ms
    <3>1. milestone'[m] = milestone[m]
      BY <2>2 DEF LinkMilestones
    <3> QED
      BY <1>2, <3>1 DEF IInv, MilestoneBackedByInvoice, Justifies
  <2> QED
    BY <2>1, <2>2
<1>5. /\ handler' \in [Handlers -> Handler] /\ handler'[h] = Idle
      /\ \A k \in Handlers \ {h} : handler'[k] = handler[k]
  BY <1>1, <1>2, ReturnType
<1>6. RequestJustified(h)'
  BY <1>5 DEF RequestJustified, Idle
<1>7. HadStatus' /\ \A j \in Invoices : past[j] \subseteq past'[j]
  BY <1>2 DEF IInv, HadStatus
<1> QED
  BY <1>1, <1>2, <1>3, <1>4, <1>5, <1>6, <1>7, StepKeeps DEF TypeOK

LEMMA SubmitWriteKeeps ==
  ASSUME IInv, NEW h \in Handlers, SubmitWrite(h) PROVE IInv'
<1> DEFINE i == handler[h].inv
<1>1. i \in Invoices /\ TypeOK /\ HadStatus /\ MilestoneBackedByInvoice
  BY DEF IInv, HandlerJustified, RequestJustified, SubmitWrite
<1>2. /\ SetStatus(i, "sent") /\ MarkMilestones(i, "invoice_sent") /\ Return(h)
      /\ UNCHANGED <<onHold, held, failures>>
  BY DEF SubmitWrite
<1> HIDE DEF i
<1>3. /\ invoice' \in [Invoices -> InvoiceStatus \cup {"none"}]
      /\ past' \in [Invoices -> SUBSET InvoiceStatus]
      /\ HadStatus' /\ "sent" \in past'[i]
      /\ \A j \in Invoices : past[j] \subseteq past'[j]
  BY <1>1, <1>2, SetStatusGrows DEF InvoiceStatus
<1>4. /\ MilestoneBackedByInvoice'
      /\ milestone' \in [Milestones ->
           [status: MilestoneStatus, invoice: Invoices \cup {NoInvoice},
            completed: BOOLEAN]]
  BY <1>1, <1>2, <1>3, MarkBacked
<1>5. /\ handler' \in [Handlers -> Handler] /\ handler'[h] = Idle
      /\ \A k \in Handlers \ {h} : handler'[k] = handler[k]
  BY <1>1, <1>2, ReturnType
<1>6. RequestJustified(h)'
  BY <1>5 DEF RequestJustified, Idle
<1> QED
  BY <1>1, <1>2, <1>3, <1>4, <1>5, <1>6, StepKeeps DEF TypeOK

(* The milestones follow an invoice that was paid or canceled.             *)
LEMMA FollowKeeps ==
  ASSUME IInv, NEW h \in Handlers, PaidMilestones(h) \/ CanceledMilestones(h)
  PROVE  IInv'
<1> DEFINE i == handler[h].inv
<1>1. i \in Invoices /\ TypeOK /\ HadStatus /\ MilestoneBackedByInvoice
  BY DEF IInv, HandlerJustified, RequestJustified, PaidMilestones,
         CanceledMilestones
<1>2. UNCHANGED <<invoice, past, onHold, held, failures>>
  BY DEF PaidMilestones, CanceledMilestones
<1>3. HadStatus' /\ \A j \in Invoices : past[j] \subseteq past'[j]
  BY <1>1, <1>2 DEF HadStatus
<1>4. \/ MarkMilestones(i, "invoice_paid") /\ "paid" \in past'[i]
      \/ MarkMilestones(i, "invoice_canceled") /\ "canceled" \in past'[i]
  BY <1>2 DEF IInv, HandlerJustified, RequestJustified, PaidMilestones,
              CanceledMilestones
<1>5. PICK r \in Handler :
        handler' = [handler EXCEPT ![h] = r] /\ (r = Idle \/ r.pc = "resume")
        /\ (r.pc = "resume" => r.inv = i)
  <2>1. CASE Return(h)
    <3>1. Idle \in Handler /\ Idle.pc # "resume"
      BY DEF Idle, Handler, InvoiceStatus, PC
    <3> QED
      BY <2>1, <3>1 DEF Return
  <2>2. CASE GoTo(h, "resume", i, "paid", {})
    <3>1. "paid" \in InvoiceStatus /\ "resume" \in PC
      BY DEF InvoiceStatus, PC
    <3> HIDE DEF i
    <3>2. \E r \in Handler : /\ handler' = [handler EXCEPT ![h] = r]
                            /\ r.pc = "resume" /\ r.inv = i
      BY <1>1, <2>2, <3>1, GoToRecord
    <3> QED
      BY <3>2
  <2> QED
    BY <2>1, <2>2 DEF PaidMilestones, CanceledMilestones
<1> HIDE DEF i
<1>6. /\ MilestoneBackedByInvoice'
      /\ milestone' \in [Milestones ->
           [status: MilestoneStatus, invoice: Invoices \cup {NoInvoice},
            completed: BOOLEAN]]
  BY <1>1, <1>3, <1>4, MarkBacked
<1>7. /\ handler' \in [Handlers -> Handler] /\ handler'[h] = r
      /\ \A k \in Handlers \ {h} : handler'[k] = handler[k]
  BY <1>1, <1>5 DEF TypeOK
<1>8. RequestJustified(h)'
  BY <1>1, <1>5, <1>7 DEF RequestJustified, Idle
<1> QED
  BY <1>1, <1>2, <1>3, <1>6, <1>7, <1>8, StepKeeps DEF TypeOK

LEMMA ChangeStatusKeeps ==
  ASSUME IInv, NEW h \in Handlers, NEW i \in Invoices, NEW s \in InvoiceStatus,
         NEW b \in BOOLEAN, ChangeStatus(h, i, s, b)
  PROVE  IInv'
<1>1. /\ SetStatus(i, s) /\ UNCHANGED <<milestone, onHold, held, failures>>
      /\ s \in {"sent", "paid", "canceled"}
      /\ TypeOK /\ HadStatus /\ MilestoneBackedByInvoice
  BY DEF ChangeStatus, IInv
<1>2. /\ invoice' \in [Invoices -> InvoiceStatus \cup {"none"}]
      /\ past' \in [Invoices -> SUBSET InvoiceStatus]
      /\ HadStatus' /\ s \in past'[i]
      /\ \A j \in Invoices : past[j] \subseteq past'[j]
  BY <1>1, SetStatusGrows
<1>3. MilestoneBackedByInvoice'
  BY <1>1, <1>2, BackedGrows
<1>4. PICK r \in Handler :
        /\ handler' = [handler EXCEPT ![h] = r]
        /\ r = Idle \/ r.inv = i
        /\ r.pc \in {"paid", "paid_resume"} => s = "paid"
        /\ r.pc = "canceled" => s = "canceled"
        /\ r.pc \notin {"edit", "link"}
  <2> DEFINE paid == IF b /\ onHold THEN "paid_resume" ELSE "paid"
  <2>1. CASE s = "sent"
    <3>1. handler' = [handler EXCEPT ![h] = Idle]
      BY <2>1 DEF ChangeStatus, Return
    <3>2. Idle \in Handler /\ Idle.pc = "idle"
      BY DEF Idle, Handler, InvoiceStatus, PC
    <3> QED
      BY <3>1, <3>2
  <2>2. CASE s = "canceled"
    <3>1. GoTo(h, "canceled", i, s, {}) /\ "canceled" \in PC
      BY <2>2 DEF ChangeStatus, PC
    <3>2. \E r \in Handler : /\ handler' = [handler EXCEPT ![h] = r]
                            /\ r.pc = "canceled" /\ r.inv = i
      BY <3>1, GoToRecord
    <3> QED
      BY <2>2, <3>2
  <2>3. CASE s = "paid"
    <3>1. GoTo(h, paid, i, s, {}) /\ paid \in {"paid", "paid_resume"}
      BY <2>3 DEF ChangeStatus
    <3>2. paid \in PC
      BY DEF PC
    <3> HIDE DEF paid
    <3>3. \E r \in Handler : /\ handler' = [handler EXCEPT ![h] = r]
                            /\ r.pc = paid /\ r.inv = i
      BY <3>1, <3>2, GoToRecord
    <3> QED
      BY <2>3, <3>1, <3>3
  <2> QED
    BY <1>1, <2>1, <2>2, <2>3
<1>5. /\ handler' \in [Handlers -> Handler] /\ handler'[h] = r
      /\ \A k \in Handlers \ {h} : handler'[k] = handler[k]
  BY <1>1, <1>4 DEF TypeOK
<1>6. RequestJustified(h)'
  BY <1>2, <1>4, <1>5 DEF RequestJustified, Idle
<1> QED
  BY <1>1, <1>2, <1>3, <1>5, <1>6, StepKeeps DEF TypeOK

LEMMA SyncWriteKeeps ==
  ASSUME IInv, NEW h \in Handlers, SyncWrite(h) PROVE IInv'
<1> DEFINE i == handler[h].inv
           s == handler[h].to
<1>1. /\ i \in Invoices /\ s \in InvoiceStatus
      /\ TypeOK /\ HadStatus /\ MilestoneBackedByInvoice
      /\ SetStatus(i, s) /\ UNCHANGED <<milestone, onHold, held, failures>>
  BY DEF IInv, TypeOK, Handler, HandlerJustified, RequestJustified, SyncWrite
<1>2. PICK r \in Handler :
        handler' = [handler EXCEPT ![h] = r] /\ (r = Idle \/ r.pc = "resume")
        /\ (r.pc = "resume" => r.inv = i)
  <2>1. CASE Return(h)
    <3>1. Idle \in Handler /\ Idle.pc # "resume"
      BY DEF Idle, Handler, InvoiceStatus, PC
    <3> QED
      BY <2>1, <3>1 DEF Return
  <2>2. CASE GoTo(h, "resume", i, "paid", {})
    <3>1. "paid" \in InvoiceStatus /\ "resume" \in PC
      BY DEF InvoiceStatus, PC
    <3> HIDE DEF i
    <3>2. \E r \in Handler : /\ handler' = [handler EXCEPT ![h] = r]
                            /\ r.pc = "resume" /\ r.inv = i
      BY <1>1, <2>2, <3>1, GoToRecord
    <3> QED
      BY <3>2
  <2> QED
    BY <2>1, <2>2 DEF SyncWrite
<1> HIDE DEF i, s
<1>3. /\ invoice' \in [Invoices -> InvoiceStatus \cup {"none"}]
      /\ past' \in [Invoices -> SUBSET InvoiceStatus] /\ HadStatus'
      /\ \A j \in Invoices : past[j] \subseteq past'[j]
  BY <1>1, SetStatusGrows
<1>4. MilestoneBackedByInvoice'
  BY <1>1, <1>3, BackedGrows
<1>5. /\ handler' \in [Handlers -> Handler] /\ handler'[h] = r
      /\ \A k \in Handlers \ {h} : handler'[k] = handler[k]
  BY <1>1, <1>2 DEF TypeOK
<1>6. RequestJustified(h)'
  BY <1>1, <1>2, <1>5 DEF RequestJustified, Idle
<1> QED
  BY <1>1, <1>3, <1>4, <1>5, <1>6, StepKeeps DEF TypeOK

LEMMA CompleteWriteKeeps ==
  ASSUME IInv, NEW h \in Handlers, NEW m \in Milestones, CompleteWrite(h, m)
  PROVE  IInv'
<1>1. TypeOK /\ UNCHANGED <<invoice, past, onHold, held, failures>>
  BY DEF IInv, CompleteWrite
<1>2. milestone' = [milestone EXCEPT ![m] = [status |-> "completed",
                      invoice |-> milestone[m].invoice, completed |-> TRUE]]
  BY DEF CompleteWrite
<1>3. milestone' \in [Milestones ->
           [status: MilestoneStatus, invoice: Invoices \cup {NoInvoice},
            completed: BOOLEAN]]
  BY <1>1, <1>2 DEF TypeOK, MilestoneStatus
<1>4. MilestoneBackedByInvoice'
  <2>1. \A n \in Milestones : milestone'[n] = milestone[n] \/
                               milestone'[n].status = "completed"
    BY <1>1, <1>2 DEF TypeOK
  <2> QED
    BY <1>1, <2>1 DEF IInv, MilestoneBackedByInvoice, Justifies
<1>5. PICK r \in Handler :
        handler' = [handler EXCEPT ![h] = r] /\ r.pc \in {"idle", "hold"}
  <2>1. CASE Return(h)
    <3>1. Idle \in Handler /\ Idle.pc = "idle"
      BY DEF Idle, Handler, InvoiceStatus, PC
    <3> QED
      BY <2>1, <3>1 DEF Return
  <2>2. CASE GoTo(h, "hold", NoInvoice, "generated", {m})
    <3>1. "generated" \in InvoiceStatus /\ "hold" \in PC
      BY DEF InvoiceStatus, PC
    <3>2. \E r \in Handler : /\ handler' = [handler EXCEPT ![h] = r]
                            /\ r.pc = "hold" /\ r.inv = NoInvoice
      BY <2>2, <3>1, GoToRecord
    <3> QED
      BY <3>2
  <2> QED
    BY <2>1, <2>2 DEF CompleteWrite
<1>6. /\ handler' \in [Handlers -> Handler] /\ handler'[h] = r
      /\ \A k \in Handlers \ {h} : handler'[k] = handler[k]
  BY <1>1, <1>5 DEF TypeOK
<1>7. RequestJustified(h)'
  BY <1>5, <1>6 DEF RequestJustified
<1>8. HadStatus' /\ \A j \in Invoices : past[j] \subseteq past'[j]
  BY <1>1 DEF IInv, HadStatus
<1> QED
  BY <1>1, <1>3, <1>4, <1>6, <1>7, <1>8, StepKeeps DEF TypeOK

(* Steps that end a request without touching invoices or milestones.       *)
LEMMA EndKeeps ==
  ASSUME IInv, NEW h \in Handlers, Resume(h) \/ HoldForPayment(h) \/ Fail(h)
  PROVE  IInv'
<1>1. TypeOK /\ Return(h) /\ UNCHANGED <<invoice, past, milestone>>
  BY DEF IInv, Resume, HoldForPayment, Fail
<1>2. /\ handler' \in [Handlers -> Handler] /\ handler'[h] = Idle
      /\ \A k \in Handlers \ {h} : handler'[k] = handler[k]
  BY <1>1, ReturnType
<1>3. RequestJustified(h)'
  BY <1>2 DEF RequestJustified, Idle
<1>4. onHold' \in BOOLEAN
  BY <1>1 DEF TypeOK, Resume, HoldForPayment, Fail
<1>5. held' \subseteq Milestones
  BY <1>1 DEF TypeOK, Handler, Resume, HoldForPayment, Fail
<1>6. failures' \in 0..MaxFailures
  BY <1>1, InvoicingAssumption DEF TypeOK, Resume, HoldForPayment, Fail
<1> QED
  BY <1>1, <1>2, <1>3, <1>4, <1>5, <1>6, QuietKeeps

LEMMA StutterKeeps ==
  ASSUME IInv, UNCHANGED <<invoice, past, milestone, held, handler, failures>>,
         onHold' \in BOOLEAN
  PROVE  IInv'
BY DEF IInv, TypeOK, MilestoneBackedByInvoice, Justifies, HandlerJustified,
       RequestJustified, HadStatus

LEMMA NextIInv == IInv /\ [Next]_vars => IInv'
<1> SUFFICES ASSUME IInv, [Next]_vars PROVE IInv'
  OBVIOUS
<1>1. ASSUME NEW h \in Handlers, InvoiceStep(h) PROVE IInv'
  <2>1. ASSUME NEW i \in Invoices, NEW ms \in SUBSET Milestones,
               Create(h, i, ms) \/ EditRead(h, i, ms)
        PROVE  IInv'
    <3>1. CASE Create(h, i, ms)
      BY <3>1, CreateKeeps
    <3>2. CASE EditRead(h, i, ms)
      BY <3>2, EditReadKeeps
    <3> QED
      BY <2>1, <3>1, <3>2
  <2>2. ASSUME NEW i \in Invoices, SubmitRead(h, i) PROVE IInv'
    BY <2>2, SubmitReadKeeps
  <2>3. ASSUME NEW i \in Invoices, NEW s \in InvoiceStatus, NEW b \in BOOLEAN,
               ChangeStatus(h, i, s, b)
        PROVE  IInv'
    BY <2>3, ChangeStatusKeeps
  <2>4. CASE LinkMilestones(h) \/ EditWrite(h) \/ SubmitWrite(h)
    BY <2>4, LinkKeeps, EditWriteKeeps, SubmitWriteKeeps
  <2>5. CASE PaidMilestones(h) \/ CanceledMilestones(h) \/ Resume(h)
    BY <2>5, FollowKeeps, EndKeeps
  <2> QED
    BY <1>1, <2>1, <2>2, <2>3, <2>4, <2>5 DEF InvoiceStep
<1>2. ASSUME NEW h \in Handlers, MilestoneStep(h) PROVE IInv'
  BY <1>2, CompleteReadKeeps, CompleteWriteKeeps, EndKeeps DEF MilestoneStep
<1>3. ASSUME NEW h \in Handlers, XeroStep(h) PROVE IInv'
  BY <1>3, SyncReadKeeps, SyncWriteKeeps, InvoicingAssumption DEF XeroStep
<1>4. ASSUME NEW h \in Handlers, Fail(h) PROVE IInv'
  BY <1>4, EndKeeps
<1>5. ASSUME NEW b \in BOOLEAN, SetHold(b) PROVE IInv'
  BY <1>5, StutterKeeps DEF SetHold
<1>6. CASE UNCHANGED vars
  BY <1>6, StutterKeeps DEF vars, IInv, TypeOK
<1> QED
  BY <1>1, <1>2, <1>3, <1>4, <1>5, <1>6 DEF Next

-----------------------------------------------------------------------------
(* The inductive invariant: what is written about a milestone is justified *)
(* already when the request decides to write it.                           *)
THEOREM Invariant == Spec => []IInv
BY InitIInv, NextIInv, PTL DEF Spec

(* Every variable of the component always has its type.                    *)
THEOREM TypeCorrect == Spec => []TypeOK
<1>1. IInv => TypeOK
  BY DEF IInv
<1> QED
  BY <1>1, Invariant, PTL

(* No milestone is marked billed, sent, paid or canceled but for an invoice*)
(* that has been so.                                                       *)
THEOREM MilestonesBacked == Spec => []MilestoneBackedByInvoice
<1>1. IInv => MilestoneBackedByInvoice
  BY DEF IInv
<1> QED
  BY <1>1, Invariant, PTL

-----------------------------------------------------------------------------
(* The hold of a completed milestone that requires payment.                *)

(* A request that moves on leaves the others where they are.               *)
LEMMA OthersStay ==
  ASSUME TypeOK, NEW h \in Handlers,
         \/ Return(h)
         \/ \E pc \in PC, i \in Invoices \cup {NoInvoice}, s \in InvoiceStatus,
               ms \in SUBSET Milestones : GoTo(h, pc, i, s, ms)
  PROVE  \A k \in Handlers \ {h} : handler'[k] = handler[k]
BY DEF TypeOK, Return, GoTo

(* A step of a request that is not about to hold the project, and completes*)
(* no milestone.                                                           *)
LEMMA HoldKeeps ==
  ASSUME TypeOK, HoldComes, NEW h \in Handlers, handler[h].pc # "hold",
         \A k \in Handlers \ {h} : handler'[k] = handler[k],
         UNCHANGED held,
         \A m \in Milestones : milestone'[m].completed = milestone[m].completed
  PROVE  HoldComes'
<1> SUFFICES ASSUME NEW m \in RequirePayment, milestone'[m].completed
             PROVE  \/ m \in held'
                    \/ \E k \in Handlers :
                         handler'[k].pc = "hold" /\ m \in handler'[k].ms
  BY DEF HoldComes
<1>1. milestone[m].completed
  BY InvoicingAssumption
<1>2. CASE m \in held
  BY <1>2
<1>3. CASE \E k \in Handlers : handler[k].pc = "hold" /\ m \in handler[k].ms
  BY <1>3
<1> QED
  BY <1>1, <1>2, <1>3 DEF HoldComes

(* The steps that complete a milestone, or hold the project for one.       *)
LEMMA CompleteHolds ==
  ASSUME IInv, HoldComes, NEW h \in Handlers, NEW m \in Milestones,
         CompleteWrite(h, m)
  PROVE  HoldComes'
<1>1. TypeOK
  BY DEF IInv
<1>2. /\ handler[h].pc # "hold" /\ held' = held
      /\ \A k \in Handlers \ {h} : handler'[k] = handler[k]
  <2>1. {m} \in SUBSET Milestones /\ "hold" \in PC /\ "generated" \in InvoiceStatus
    BY DEF PC, InvoiceStatus
  <2>2. CASE Return(h)
    BY <1>1, <2>2, OthersStay DEF CompleteWrite
  <2>3. CASE GoTo(h, "hold", NoInvoice, "generated", {m})
    BY <1>1, <2>1, <2>3, OthersStay DEF CompleteWrite
  <2> QED
    BY <2>2, <2>3 DEF CompleteWrite
<1> SUFFICES ASSUME NEW n \in RequirePayment, milestone'[n].completed
             PROVE  \/ n \in held'
                    \/ \E k \in Handlers :
                         handler'[k].pc = "hold" /\ n \in handler'[k].ms
  BY DEF HoldComes
<1>3. CASE n = m
  <2>1. GoTo(h, "hold", NoInvoice, "generated", {m})
    BY <1>3 DEF CompleteWrite
  <2>2. handler'[h].pc = "hold" /\ m \in handler'[h].ms
    BY <1>1, <2>1 DEF GoTo, TypeOK
  <2> QED
    BY <1>3, <2>2
<1>4. CASE n # m
  <2>1. milestone'[n] = milestone[n]
    BY <1>1, <1>4, InvoicingAssumption DEF CompleteWrite, TypeOK
  <2>2. milestone[n].completed
    BY <2>1
  <2>3. CASE n \in held
    BY <1>2, <2>3
  <2>4. CASE \E k \in Handlers : handler[k].pc = "hold" /\ n \in handler[k].ms
    BY <1>2, <2>4
  <2> QED
    BY <2>2, <2>3, <2>4 DEF HoldComes
<1> QED
  BY <1>3, <1>4

LEMMA HoldHolds ==
  ASSUME IInv, HoldComes, NEW h \in Handlers, HoldForPayment(h)
  PROVE  HoldComes'
<1>1. /\ TypeOK /\ milestone' = milestone /\ held' = held \cup handler[h].ms
      /\ Return(h)
  BY DEF IInv, HoldForPayment
<1>2. \A k \in Handlers \ {h} : handler'[k] = handler[k]
  BY <1>1, OthersStay
<1> SUFFICES ASSUME NEW n \in RequirePayment, milestone'[n].completed
             PROVE  \/ n \in held'
                    \/ \E k \in Handlers :
                         handler'[k].pc = "hold" /\ n \in handler'[k].ms
  BY DEF HoldComes
<1>3. milestone[n].completed
  BY <1>1
<1>4. CASE n \in held
  BY <1>1, <1>4
<1>5. CASE \E k \in Handlers : handler[k].pc = "hold" /\ n \in handler[k].ms
  BY <1>1, <1>2, <1>5
<1> QED
  BY <1>3, <1>4, <1>5 DEF HoldComes

(* Every other step of a request: where it was, and what it leaves alone.  *)
LEMMA InvoiceHolds ==
  ASSUME IInv, HoldComes, NEW h \in Handlers, InvoiceStep(h) \/ XeroStep(h)
  PROVE  HoldComes'
<1>1. TypeOK /\ Idle.pc = "idle"
  BY DEF IInv, Idle
<1>2. handler[h] \in Handler /\ NoInvoice \in Invoices \cup {NoInvoice}
  BY <1>1 DEF TypeOK
<1>3. \A i \in Invoices, ms \in SUBSET Milestones :
        Create(h, i, ms) \/ EditRead(h, i, ms) => HoldComes'
  <2> SUFFICES ASSUME NEW i \in Invoices, NEW ms \in SUBSET Milestones,
                      Create(h, i, ms) \/ EditRead(h, i, ms)
               PROVE  HoldComes'
    OBVIOUS
  <2>1. /\ handler[h].pc # "hold" /\ UNCHANGED <<held, milestone>>
        /\ \/ Return(h) \/ GoTo(h, "link", i, "generated", ms)
           \/ GoTo(h, "edit", i, "generated", ms)
    BY <1>1 DEF Create, EditRead
  <2> QED
    BY <1>1, <2>1, OthersStay, HoldKeeps DEF PC, InvoiceStatus
<1>4. \A i \in Invoices : SubmitRead(h, i) => HoldComes'
  <2> SUFFICES ASSUME NEW i \in Invoices, SubmitRead(h, i) PROVE HoldComes'
    OBVIOUS
  <2>1. /\ handler[h].pc # "hold" /\ UNCHANGED <<held, milestone>>
        /\ GoTo(h, "submit", i, "sent", {})
    BY <1>1 DEF SubmitRead
  <2> QED
    BY <1>1, <2>1, OthersStay, HoldKeeps DEF PC, InvoiceStatus
<1>5. \A i \in Invoices, s \in InvoiceStatus, r \in BOOLEAN :
        ChangeStatus(h, i, s, r) => HoldComes'
  <2> SUFFICES ASSUME NEW i \in Invoices, NEW s \in InvoiceStatus,
                      NEW r \in BOOLEAN, ChangeStatus(h, i, s, r)
               PROVE  HoldComes'
    OBVIOUS
  <2>1. /\ handler[h].pc # "hold" /\ UNCHANGED <<held, milestone>>
        /\ \/ Return(h) \/ GoTo(h, "canceled", i, s, {})
           \/ GoTo(h, "paid_resume", i, s, {}) \/ GoTo(h, "paid", i, s, {})
    BY <1>1 DEF ChangeStatus
  <2> QED
    BY <1>1, <2>1, OthersStay, HoldKeeps DEF PC
<1>6. CASE LinkMilestones(h) \/ EditWrite(h)
  <2>1. handler[h].pc # "hold" /\ held' = held
    BY <1>6 DEF LinkMilestones, EditWrite
  <2>2. \A k \in Handlers \ {h} : handler'[k] = handler[k]
    <3>1. CASE Return(h)
      BY <1>1, <3>1, OthersStay
    <3>2. CASE GoTo(h, "link", handler[h].inv, "generated", handler[h].ms)
      BY <1>1, <1>2, <3>2, OthersStay DEF PC, InvoiceStatus, Handler
    <3> QED
      BY <1>6, <3>1, <3>2 DEF LinkMilestones, EditWrite
  <2>3. \A m \in Milestones : milestone'[m].completed = milestone[m].completed
    BY <1>6 DEF LinkMilestones, EditWrite
  <2> QED
    BY <1>1, <2>1, <2>2, <2>3, HoldKeeps
<1>7. CASE SubmitWrite(h) \/ CanceledMilestones(h) \/ Resume(h)
  <2>1. handler[h].pc # "hold" /\ held' = held /\ Return(h)
    BY <1>7 DEF SubmitWrite, CanceledMilestones, Resume
  <2>2. \A m \in Milestones : milestone'[m].completed = milestone[m].completed
    BY <1>7 DEF SubmitWrite, CanceledMilestones, Resume, MarkMilestones
  <2> QED
    BY <1>1, <2>1, <2>2, OthersStay, HoldKeeps
<1>8. CASE PaidMilestones(h)
  <2>1. handler[h].pc # "hold" /\ held' = held
    BY <1>8 DEF PaidMilestones
  <2>2. \A m \in Milestones : milestone'[m].completed = milestone[m].completed
    BY <1>8 DEF PaidMilestones, MarkMilestones
  <2>3. Return(h) \/ GoTo(h, "resume", handler[h].inv, "paid", {})
    BY <1>8 DEF PaidMilestones
  <2>4. \A k \in Handlers \ {h} : handler'[k] = handler[k]
    BY <1>1, <1>2, <2>3, OthersStay DEF PC, InvoiceStatus, Handler
  <2> QED
    BY <1>1, <2>1, <2>2, <2>4, HoldKeeps
<1>9. \A i \in InXero, s \in InvoiceStatus : SyncRead(h, i, s) => HoldComes'
  <2> SUFFICES ASSUME NEW i \in InXero, NEW s \in InvoiceStatus, SyncRead(h, i, s)
               PROVE  HoldComes'
    OBVIOUS
  <2>1. /\ handler[h].pc # "hold" /\ UNCHANGED <<held, milestone>>
        /\ i \in Invoices
        /\ GoTo(h, "sync_paid", i, s, {}) \/ GoTo(h, "sync", i, s, {})
    BY <1>1, InvoicingAssumption DEF SyncRead
  <2> QED
    BY <1>1, <2>1, OthersStay, HoldKeeps DEF PC
<1>10. CASE SyncWrite(h)
  <2>1. handler[h].pc # "hold" /\ UNCHANGED <<held, milestone>>
    BY <1>10 DEF SyncWrite
  <2>2. Return(h) \/ GoTo(h, "resume", handler[h].inv, "paid", {})
    BY <1>10 DEF SyncWrite
  <2>3. \A k \in Handlers \ {h} : handler'[k] = handler[k]
    BY <1>1, <1>2, <2>2, OthersStay DEF PC, InvoiceStatus, Handler
  <2> QED
    BY <1>1, <2>1, <2>3, HoldKeeps
<1> QED
  BY <1>3, <1>4, <1>5, <1>6, <1>7, <1>8, <1>9, <1>10 DEF InvoiceStep, XeroStep

LEMMA NextHolds ==
  ASSUME IInv, CompletionHolds, [Next]_vars
  PROVE  CompletionHolds'
<1> SUFFICES ASSUME failures' = 0 PROVE HoldComes'
  BY DEF CompletionHolds
<1>1. TypeOK /\ failures \in Nat
  BY InvoicingAssumption DEF IInv, TypeOK
<1>2. ASSUME NEW h \in Handlers, Fail(h) PROVE FALSE
  BY <1>1, <1>2 DEF Fail
<1>3. ASSUME NEW h \in Handlers, InvoiceStep(h) \/ XeroStep(h) PROVE HoldComes'
  <2>1. failures = 0
    BY <1>3 DEF InvoiceStep, XeroStep, Create, EditRead, SubmitRead, ChangeStatus, LinkMilestones,
      EditWrite, SubmitWrite, PaidMilestones, CanceledMilestones, Resume, SyncRead, SyncWrite
  <2> QED
    BY <1>3, <2>1, InvoiceHolds DEF CompletionHolds
<1>4. ASSUME NEW h \in Handlers, MilestoneStep(h) PROVE HoldComes'
  <2>1. HoldComes
    BY <1>4 DEF MilestoneStep, CompleteRead, CompleteWrite, HoldForPayment, CompletionHolds
  <2>2. ASSUME NEW m \in Milestones, CompleteRead(h, m) PROVE HoldComes'
    <3>1. /\ handler[h].pc # "hold" /\ UNCHANGED <<held, milestone>>
          /\ GoTo(h, "complete", NoInvoice, "generated", {m})
      BY <2>2 DEF CompleteRead, Idle
    <3> QED
      BY <1>1, <2>1, <3>1, OthersStay, HoldKeeps DEF PC, InvoiceStatus
  <2> QED
    BY <1>4, <2>1, <2>2, CompleteHolds, HoldHolds DEF MilestoneStep
<1>5. ASSUME NEW b \in BOOLEAN, SetHold(b) PROVE HoldComes'
  BY <1>5 DEF SetHold, HoldComes, CompletionHolds
<1>6. CASE UNCHANGED vars
  BY <1>6 DEF vars, HoldComes, CompletionHolds
<1> QED
  BY <1>2, <1>3, <1>4, <1>5, <1>6 DEF Next

(* Until a query fails, a request that completed a milestone requiring     *)
(* payment has put the project on hold or is about to, for any number of   *)
(* requests, invoices and milestones.                                      *)
THEOREM CompletionAlwaysHolds == Spec => []CompletionHolds
<1>1. Init => CompletionHolds
  BY InvoicingAssumption DEF Init, HoldComes, CompletionHolds
<1>2. IInv /\ CompletionHolds /\ [Next]_vars => CompletionHolds'
  BY NextHolds
<1> QED
  BY <1>1, <1>2, Invariant, PTL DEF Spec

-----------------------------------------------------------------------------
(* A client and its contact in Xero.                                       *)

\* None is neither a contact nor a client, and clients have a job of their own.
ContactAssumption ==
  /\ None \notin Contacts /\ \A n, d : None # [name |-> n, deleted |-> d]
  /\ "client" \notin DocumentJobs

IsClient(given) == given = [name |-> given.name, deleted |-> given.deleted]
IsSync(row) == row = [step |-> row.step, client |-> row.client, ref |-> row.ref]
IsHook(row) ==
  row = [step |-> row.step, of |-> row.of, answer |-> row.answer, known |-> row.known]

\* Whatever is referred to is in Xero.
ContactTyped ==
  /\ IsClient(client) /\ DOMAIN contact \subseteq Contacts
  /\ DOMAIN pending = Editors
  /\ DOMAIN cJob = Client!Jobs /\ DOMAIN cHook = Listeners
  /\ refs \cup cEvents \subseteq DOMAIN contact
  /\ \A j \in Client!Jobs :
       /\ IsSync(cJob[j]) /\ cJob[j].ref \in DOMAIN contact \cup {None}
       /\ cJob[j].step = "store" => cJob[j].ref \in DOMAIN contact
  /\ \A k \in Listeners :
       IsHook(cHook[k]) /\ (cHook[k].step # "idle" => cHook[k].of \in DOMAIN contact)

\* The contact is that of the client, or Xero will be asked for it.
Agrees(c) ==
  \/ c \in unseen
  \/ contact[c].name = client.name /\ (client.deleted => contact[c].archived)

NoTelling == cQueue = <<>> /\ \A h \in Editors : pending[h] = None
NoWriting == \A j \in Client!Jobs : cJob[j].step = "idle"
NoImport == \A k \in Listeners : cHook[k].step = "idle"

(* The only things that can be under way when nothing has crossed.         *)
AtRest == NoTelling /\ NoWriting /\ NoImport /\ \A c : refs = {c} => Agrees(c)

Told(h) ==
  /\ cQueue = <<>> /\ pending[h] = client /\ \A g \in Editors \ {h} : pending[g] = None
  /\ NoWriting /\ NoImport /\ refs # {}

Queued ==
  /\ cQueue = <<client>> /\ \A h \in Editors : pending[h] = None
  /\ NoWriting /\ NoImport /\ refs # {}

\* The job of clients overwrites the contact; any other job connects the first one.
Syncs(j) ==
  /\ NoTelling /\ NoImport /\ \A i \in Client!Jobs \ {j} : cJob[i].step = "idle"
  /\ cJob[j].step # "idle" /\ cJob[j].client = client
  /\ j = "client" =>
       /\ refs # {} /\ cJob[j].step \in {"connection", "push"}
       /\ cJob[j].step = "push" => cJob[j].ref \in refs
  /\ j # "client" => refs = {} /\ (cJob[j].step = "store" => Agrees(cJob[j].ref))

\* An import has the contact as it is, until it writes it over the client.
Brings(k) ==
  /\ NoTelling /\ NoWriting /\ \A g \in Listeners \ {k} : cHook[g].step = "idle"
  /\ cHook[k].step \in {"ask", "find", "write", "connect"}
  /\ cHook[k].step \in {"find", "write"} =>
       cHook[k].of \in unseen \/ cHook[k].answer = contact[cHook[k].of]
  /\ cHook[k].step = "write" /\ cHook[k].of \in refs => cHook[k].known
  /\ cHook[k].step = "connect" => Agrees(cHook[k].of)
  /\ cHook[k].step # "connect" =>
       \A c : refs = {c} /\ (c # cHook[k].of \/ cHook[k].step = "ask") => Agrees(c)

ContactInv ==
  /\ ContactTyped
  /\ ~crossed =>
       \/ AtRest \/ Queued \/ \E h \in Editors : Told(h)
       \/ \E j \in Client!Jobs : Syncs(j)
       \/ \E k \in Listeners : Brings(k)

LEMMA ContactInit == ContactAssumption /\ Client!Init => ContactInv
<1> SUFFICES ASSUME ContactAssumption, Client!Init PROVE ContactInv
  OBVIOUS
<1>1. /\ \E n \in Names : client = [name |-> n, deleted |-> FALSE]
      /\ pending = [h \in Editors |-> None] /\ cQueue = <<>>
      /\ cJob = [j \in Client!Jobs |-> Client!NoJob]
      /\ cHook = [h \in Listeners |-> Client!NoHook]
      /\ refs = {} /\ cEvents = {}
  BY DEF Client!Init
<1>2. IsClient(client)
  BY <1>1 DEF IsClient
<1>3. /\ IsSync(Client!NoJob) /\ Client!NoJob.ref = None /\ Client!NoJob.step = "idle"
      /\ IsHook(Client!NoHook) /\ Client!NoHook.step = "idle"
  BY DEF IsSync, IsHook, Client!NoJob, Client!NoHook
<1>4. DOMAIN contact \subseteq Contacts
  <2>1. \/ contact = [c \in {} |-> None]
        \/ \E c \in Contacts, n \in Names :
             contact = [d \in {c} |-> [name |-> n, archived |-> FALSE]]
    BY DEF Client!Init
  <2>2. CASE contact = [c \in {} |-> None]
    BY <2>2
  <2>3. ASSUME NEW c \in Contacts, NEW n \in Names,
               contact = [d \in {c} |-> [name |-> n, archived |-> FALSE]]
        PROVE  DOMAIN contact \subseteq Contacts
    BY <2>3
  <2> QED
    BY <2>1, <2>2, <2>3
<1>5. ContactTyped
  BY <1>1, <1>2, <1>3, <1>4 DEF ContactTyped
<1>6. AtRest
  BY <1>1, <1>3 DEF AtRest, NoTelling, NoWriting, NoImport
<1> QED
  BY <1>5, <1>6 DEF ContactInv

(* Which of the things under way it can be.                                *)
LEMMA OnlyOne ==
  ASSUME ContactAssumption, ContactInv, ~crossed
  PROVE  /\ ~Client!AtWork => AtRest
         /\ \A h \in Editors : pending[h] # None => Told(h)
         /\ cQueue # <<>> => Queued
         /\ \A j \in Client!Jobs : cJob[j].step # "idle" => Syncs(j)
         /\ \A k \in Listeners : cHook[k].step # "idle" => Brings(k)
<1>1. client # None
  BY DEF ContactAssumption, ContactInv, ContactTyped, IsClient
<1>2. /\ AtRest => NoTelling /\ NoWriting /\ NoImport
      /\ Queued => NoWriting /\ NoImport /\ cQueue # <<>> /\ \A h \in Editors : pending[h] = None
      /\ \A h \in Editors : Told(h) => /\ NoWriting /\ NoImport /\ cQueue = <<>> /\ pending[h] # None
                                       /\ \A g \in Editors \ {h} : pending[g] = None
      /\ \A j \in Client!Jobs : Syncs(j) => /\ NoTelling /\ NoImport /\ cJob[j].step # "idle"
                                            /\ \A i \in Client!Jobs \ {j} : cJob[i].step = "idle"
      /\ \A k \in Listeners : Brings(k) => /\ NoTelling /\ NoWriting /\ cHook[k].step # "idle"
                                           /\ \A g \in Listeners \ {k} : cHook[g].step = "idle"
  BY <1>1 DEF AtRest, Queued, Told, Syncs, Brings
<1>3. CASE AtRest
  BY <1>2, <1>3 DEF NoTelling, NoWriting, NoImport
<1>4. CASE Queued
  BY <1>2, <1>4 DEF NoWriting, NoImport, Client!AtWork, Client!Telling
<1>5. CASE \E h \in Editors : Told(h)
  BY <1>2, <1>5 DEF NoWriting, NoImport, Client!AtWork, Client!Telling
<1>6. CASE \E j \in Client!Jobs : Syncs(j)
  BY <1>2, <1>6 DEF NoTelling, NoImport, Client!AtWork, Client!Writing
<1>7. CASE \E k \in Listeners : Brings(k)
  BY <1>2, <1>7 DEF NoTelling, NoWriting, Client!AtWork, Client!Importing
<1> QED
  BY <1>3, <1>4, <1>5, <1>6, <1>7 DEF ContactInv

(* Requests of users.                                                      *)
LEMMA ContactChange ==
  ASSUME ContactAssumption, ContactInv, NEW h \in Editors, NEW after, IsClient(after),
         Client!Change(h, after)
  PROVE  ContactInv'
<1>1. /\ client' = after /\ pending[h] = None
      /\ crossed' = (Client!AtWork \/ (crossed /\ refs = {}))
      /\ pending' = IF refs = {} THEN pending ELSE [pending EXCEPT ![h] = after]
      /\ UNCHANGED <<refs, others, cQueue, cJob, contact, unseen, cEvents, cHook>>
  BY DEF Client!Change, Client!xeroVars
<1>2. ContactTyped'
  BY <1>1 DEF ContactInv, ContactTyped, IsSync, IsHook, IsClient, Client!Jobs
<1>3. ASSUME ~crossed' PROVE AtRest' \/ Told(h)'
  <2>1. ~Client!AtWork
    BY <1>1, <1>3
  <2>2. NoTelling /\ NoWriting /\ NoImport
    BY <2>1 DEF Client!AtWork, Client!Telling, Client!Writing, Client!Importing,
                NoTelling, NoWriting, NoImport, Client!Jobs
  <2>3. CASE refs = {}
    BY <1>1, <2>2, <2>3 DEF AtRest, NoTelling, NoWriting, NoImport
  <2>4. CASE refs # {}
    <3>1. pending'[h] = after /\ \A g \in Editors \ {h} : pending'[g] = pending[g]
      BY <1>1, <2>4 DEF ContactInv, ContactTyped
    <3> QED
      BY <1>1, <2>2, <2>4, <3>1 DEF Told, NoTelling, NoWriting, NoImport
  <2> QED
    BY <2>3, <2>4
<1> QED
  BY <1>2, <1>3 DEF ContactInv

LEMMA ContactTell ==
  ASSUME ContactAssumption, ContactInv, NEW h \in Editors, Client!Tell(h)
  PROVE  ContactInv'
<1>1. /\ pending[h] # None /\ cQueue' = Append(cQueue, pending[h])
      /\ pending' = [pending EXCEPT ![h] = None]
      /\ UNCHANGED <<client, refs, cJob, contact, unseen, cEvents, cHook, crossed>>
  BY DEF Client!Tell, Client!localVars, Client!xeroVars
<1>2. ContactTyped'
  BY <1>1 DEF ContactInv, ContactTyped, IsSync, IsHook, IsClient, Client!Jobs
<1>3. ASSUME ~crossed PROVE Queued'
  <2>1. Told(h)
    BY <1>1, <1>3, OnlyOne
  <2>2. pending'[h] = None /\ \A g \in Editors \ {h} : pending'[g] = pending[g]
    BY <1>1 DEF ContactInv, ContactTyped
  <2>3. cQueue' = <<client>>
    BY <1>1, <2>1 DEF Told
  <2> QED
    BY <1>1, <2>1, <2>2, <2>3 DEF Told, Queued, NoWriting, NoImport
<1> QED
  BY <1>1, <1>2, <1>3 DEF ContactInv

(* The next row of a job, and of a hook.                                   *)
LEMMA SyncMoves ==
  ASSUME ContactTyped, NEW j \in Client!Jobs, NEW row, IsSync(row),
         row.ref \in (DOMAIN contact)' \cup {None},
         row.step = "store" => row.ref \in (DOMAIN contact)',
         cJob' = [cJob EXCEPT ![j] = row],
         UNCHANGED <<client, pending, cHook>>, DOMAIN contact \subseteq (DOMAIN contact)',
         (DOMAIN contact)' \subseteq Contacts, (refs \cup cEvents)' \subseteq (DOMAIN contact)'
  PROVE  /\ ContactTyped' /\ cJob'[j] = row
         /\ \A i \in Client!Jobs \ {j} : cJob'[i] = cJob[i]
<1>1. /\ DOMAIN cJob' = Client!Jobs /\ cJob'[j] = row
      /\ \A i \in Client!Jobs \ {j} : cJob'[i] = cJob[i]
  BY DEF ContactTyped
<1>2. \A i \in Client!Jobs :
        /\ IsSync(cJob'[i]) /\ cJob'[i].ref \in (DOMAIN contact)' \cup {None}
        /\ cJob'[i].step = "store" => cJob'[i].ref \in (DOMAIN contact)'
  BY <1>1 DEF ContactTyped
<1> QED
  BY <1>1, <1>2 DEF ContactTyped, IsSync, IsHook, IsClient, Client!Jobs

LEMMA HookMoves ==
  ASSUME ContactTyped, NEW k \in Listeners, NEW row, IsHook(row),
         row.step # "idle" => row.of \in (DOMAIN contact)', cHook' = [cHook EXCEPT ![k] = row],
         UNCHANGED <<pending, cJob, contact>>, IsClient(client)',
         (refs \cup cEvents)' \subseteq DOMAIN contact
  PROVE  /\ ContactTyped' /\ cHook'[k] = row
         /\ \A g \in Listeners \ {k} : cHook'[g] = cHook[g]
<1>1. /\ DOMAIN cHook' = Listeners /\ cHook'[k] = row
      /\ \A g \in Listeners \ {k} : cHook'[g] = cHook[g]
  BY DEF ContactTyped
<1>2. \A g \in Listeners :
        IsHook(cHook'[g]) /\ (cHook'[g].step # "idle" => cHook'[g].of \in (DOMAIN contact)')
  BY <1>1 DEF ContactTyped
<1> QED
  BY <1>1, <1>2 DEF ContactTyped, IsSync, IsHook, IsClient, Client!Jobs

(* A job takes up work: the message of a client, or a document of one      *)
(* without a contact.                                                      *)
LEMMA SyncBegins ==
  ASSUME ContactAssumption, ContactInv, NEW j \in Client!Jobs, NEW given,
         cJob' = [cJob EXCEPT ![j] = [Client!NoJob EXCEPT !.step = "connection",
                                                          !.client = given]],
         UNCHANGED <<client, refs, pending, contact, unseen, cEvents, cHook>>,
         cQueue' = cQueue \/ cQueue' = Tail(cQueue),
         ~crossed' => /\ NoTelling' /\ NoWriting /\ NoImport /\ given = client
                      /\ j = "client" <=> refs # {}
  PROVE  ContactInv'
<1>1. PICK row : row = [Client!NoJob EXCEPT !.step = "connection", !.client = given]
  OBVIOUS
<1>2. IsSync(row) /\ row.step = "connection" /\ row.ref = None /\ row.client = given
  BY <1>1 DEF IsSync, Client!NoJob
<1>3. cJob' = [cJob EXCEPT ![j] = row]
  BY <1>1
<1>4. /\ ContactTyped' /\ cJob'[j] = row
      /\ \A i \in Client!Jobs \ {j} : cJob'[i] = cJob[i]
  BY <1>2, <1>3, SyncMoves DEF ContactInv, ContactTyped
<1>5. ASSUME ~crossed' PROVE Syncs(j)'
  BY <1>2, <1>4, <1>5 DEF Syncs, NoWriting, NoImport, Client!Jobs
<1> QED
  BY <1>4, <1>5 DEF ContactInv

LEMMA ContactTake ==
  ASSUME ContactAssumption, ContactInv, Client!Take
  PROVE  ContactInv'
<1>1. /\ cQueue # <<>> /\ cQueue' = Tail(cQueue)
      /\ cJob' = [cJob EXCEPT !["client"] =
                    [Client!NoJob EXCEPT !.step = "connection", !.client = Head(cQueue)]]
      /\ crossed' = (crossed \/ Client!Writing \/ Client!Importing)
      /\ UNCHANGED <<client, refs, pending, contact, unseen, cEvents, cHook>>
  BY DEF Client!Take, Client!localVars, Client!xeroVars
<1>2. "client" \in Client!Jobs
  BY DEF Client!Jobs
<1>3. ASSUME ~crossed'
      PROVE  /\ NoTelling' /\ NoWriting /\ NoImport /\ Head(cQueue) = client /\ refs # {}
  <2>1. Queued
    BY <1>1, <1>3, OnlyOne
  <2>2. Head(<<client>>) = client /\ Tail(<<client>>) = <<>>
    OBVIOUS
  <2> QED
    BY <1>1, <2>1, <2>2 DEF Queued, NoTelling
<1> QED
  BY <1>1, <1>2, <1>3, SyncBegins

LEMMA ContactDocument ==
  ASSUME ContactAssumption, ContactInv, NEW j \in Client!Jobs, Client!WriteDocument(j)
  PROVE  ContactInv'
<1>1. /\ refs = {} /\ j # "client"
      /\ cJob' = [cJob EXCEPT ![j] =
                    [Client!NoJob EXCEPT !.step = "connection", !.client = client]]
      /\ crossed' = (crossed \/ Client!AtWork)
      /\ UNCHANGED <<client, refs, pending, cQueue, contact, unseen, cEvents, cHook>>
  BY DEF Client!WriteDocument, Client!localVars, Client!xeroVars, ContactAssumption
<1>2. ASSUME ~crossed' PROVE NoTelling' /\ NoWriting /\ NoImport
  BY <1>1, <1>2, OnlyOne DEF AtRest, NoTelling
<1> QED
  BY <1>1, <1>2, SyncBegins

(* The steps of a job before it writes.                                    *)
LEMMA SyncGoes ==
  ASSUME ContactAssumption, ContactInv, NEW j \in Client!Jobs, cJob[j].step # "idle",
         NEW row, IsSync(row), row.client = cJob[j].client,
         row.ref \in DOMAIN contact \cup {None}, row.step \in {"email", "push"},
         ~crossed /\ j = "client" => row.step = "push" /\ row.ref \in refs,
         cJob' = [cJob EXCEPT ![j] = row],
         UNCHANGED <<client, refs, pending, cQueue, contact, unseen, cEvents, cHook, crossed>>
  PROVE  ContactInv'
<1>1. /\ ContactTyped' /\ cJob'[j] = row
      /\ \A i \in Client!Jobs \ {j} : cJob'[i] = cJob[i]
  BY SyncMoves DEF ContactInv, ContactTyped
<1>2. ASSUME ~crossed PROVE Syncs(j)'
  <2>1. Syncs(j)
    BY <1>2, OnlyOne
  <2> QED
    BY <1>1, <1>2, <2>1 DEF Syncs, NoTelling, NoImport, Client!Jobs
<1> QED
  BY <1>1, <1>2 DEF ContactInv

LEMMA ContactFind ==
  ASSUME ContactAssumption, ContactInv, NEW j \in Client!Jobs,
         Client!FindConnection(j) \/ Client!FindByEmail(j)
  PROVE  ContactInv'
<1>1. PICK old : old = cJob[j] /\ IsSync(old) /\ old.ref \in DOMAIN contact \cup {None}
  BY DEF ContactInv, ContactTyped
<1>2. UNCHANGED <<client, refs, pending, cQueue, contact, unseen, cEvents, cHook, crossed>>
  BY DEF Client!FindConnection, Client!FindByEmail, Client!localVars, Client!xeroVars
<1>3. old.step # "idle"
  BY <1>1 DEF Client!FindConnection, Client!FindByEmail
<1>4. ASSUME NEW c \in DOMAIN contact, ~crossed /\ j = "client" => c \in refs,
             cJob' = [cJob EXCEPT ![j].step = "push", ![j].ref = c]
      PROVE  ContactInv'
  <2>1. PICK row : row = [old EXCEPT !.step = "push", !.ref = c]
    OBVIOUS
  <2>2. IsSync(row) /\ row.client = old.client /\ row.ref = c /\ row.step = "push"
    BY <1>1, <2>1 DEF IsSync
  <2>3. cJob' = [cJob EXCEPT ![j] = row]
    BY <1>1, <1>4, <2>1 DEF ContactInv, ContactTyped
  <2> QED
    BY <1>1, <1>2, <1>3, <1>4, <2>2, <2>3, SyncGoes
<1>5. ASSUME NEW to \in {"email", "push"}, crossed \/ j # "client",
             cJob' = [cJob EXCEPT ![j].step = to]
      PROVE  ContactInv'
  <2>1. PICK row : row = [old EXCEPT !.step = to]
    OBVIOUS
  <2>2. IsSync(row) /\ row.client = old.client /\ row.ref = old.ref /\ row.step = to
    BY <1>1, <2>1 DEF IsSync
  <2>3. cJob' = [cJob EXCEPT ![j] = row]
    BY <1>1, <1>5, <2>1
  <2> QED
    BY <1>1, <1>2, <1>3, <1>5, <2>2, <2>3, SyncGoes
<1>6. ~crossed => Syncs(j)
  BY <1>1, <1>3, OnlyOne
<1>7. CASE Client!FindConnection(j)
  <2>1. \/ \E c \in refs : cJob' = [cJob EXCEPT ![j].step = "push", ![j].ref = c]
        \/ refs = {} /\ \E to \in {"email", "push"} : cJob' = [cJob EXCEPT ![j].step = to]
    BY <1>7 DEF Client!FindConnection
  <2>2. refs \subseteq DOMAIN contact
    BY DEF ContactInv, ContactTyped
  <2>3. refs = {} => crossed \/ j # "client"
    BY <1>6 DEF Syncs
  <2> QED
    BY <1>4, <1>5, <2>1, <2>2, <2>3
<1>8. CASE Client!FindByEmail(j)
  <2>1. \/ \E c \in DOMAIN contact : cJob' = [cJob EXCEPT ![j].step = "push", ![j].ref = c]
        \/ cJob' = [cJob EXCEPT ![j].step = "push"]
    BY <1>8 DEF Client!FindByEmail
  <2>2. crossed \/ j # "client"
    BY <1>6, <1>8 DEF Syncs, Client!FindByEmail
  <2> QED
    BY <1>4, <1>5, <2>1, <2>2
<1> QED
  BY <1>7, <1>8

LEMMA ContactPush ==
  ASSUME ContactAssumption, ContactInv, NEW j \in Client!Jobs, Client!Push(j)
  PROVE  ContactInv'
<1>1. PICK old : /\ old = cJob[j] /\ IsSync(old) /\ old.ref \in DOMAIN contact \cup {None}
                 /\ old.step = "push"
  BY DEF ContactInv, ContactTyped, Client!Push
<1>2. PICK c \in Contacts :
        /\ IF old.ref = None THEN c \notin DOMAIN contact ELSE c = old.ref
        /\ contact' = [d \in DOMAIN contact \cup {c} |->
                         IF d = c THEN Client!ContactOf(old.client) ELSE contact[d]]
        /\ unseen' = unseen \ {c} /\ cEvents' = cEvents \cup {c}
        /\ cJob' = [cJob EXCEPT ![j] =
             IF c \in refs THEN Client!NoJob ELSE [old EXCEPT !.step = "store", !.ref = c]]
  BY <1>1 DEF Client!Push
<1>3. UNCHANGED <<client, refs, pending, cQueue, cHook, crossed>>
  BY DEF Client!Push, Client!localVars
<1>4. PICK next : next = [old EXCEPT !.step = "store", !.ref = c]
  OBVIOUS
<1>5. IsSync(next) /\ next.client = old.client /\ next.ref = c /\ next.step = "store"
  BY <1>1, <1>4 DEF IsSync
<1>6. IsSync(Client!NoJob) /\ Client!NoJob.ref = None /\ Client!NoJob.step = "idle"
  BY DEF IsSync, Client!NoJob
<1>7. PICK row : /\ cJob' = [cJob EXCEPT ![j] = row]
                 /\ row = IF c \in refs THEN Client!NoJob ELSE next
  BY <1>2, <1>4
<1>8. DOMAIN contact' = DOMAIN contact \cup {c}
  BY <1>2
<1>9. /\ IsSync(row) /\ row.ref \in (DOMAIN contact)' \cup {None}
      /\ row.step = "store" => row.ref \in (DOMAIN contact)'
  BY <1>5, <1>6, <1>7, <1>8
<1>10. /\ ContactTyped' /\ cJob'[j] = row
       /\ \A i \in Client!Jobs \ {j} : cJob'[i] = cJob[i]
  BY <1>2, <1>3, <1>7, <1>8, <1>9, SyncMoves DEF ContactInv, ContactTyped
<1>11. ASSUME ~crossed PROVE AtRest' \/ Syncs(j)'
  <2>1. Syncs(j)
    BY <1>1, <1>11, OnlyOne
  <2>2. contact'[c].name = client.name /\ (client.deleted => contact'[c].archived)
    BY <1>1, <1>2, <2>1 DEF Syncs, Client!ContactOf
  <2>3. contact'[c].name = client'.name /\ (client'.deleted => contact'[c].archived)
    BY <1>3, <2>2
  <2>4. CASE j = "client"
    <3>1. c \in refs
      <4>1. old.ref \in refs /\ refs \subseteq Contacts
        BY <1>1, <2>1, <2>4 DEF Syncs, ContactInv, ContactTyped
      <4> QED
        BY <1>2, <4>1 DEF ContactAssumption
    <3>2. NoWriting' /\ NoTelling' /\ NoImport'
      BY <1>3, <1>6, <1>7, <1>10, <2>1, <3>1 DEF Syncs, NoWriting, NoTelling, NoImport, Client!Jobs
    <3>3. \A d : refs' = {d} => d = c
      BY <1>3, <3>1
    <3>4. \A d : refs' = {d} => Agrees(d)'
      BY <2>3, <3>3 DEF Agrees
    <3> QED
      BY <3>2, <3>4 DEF AtRest
  <2>5. CASE j # "client"
    <3>1. refs = {} /\ row = next
      BY <1>7, <2>1, <2>5 DEF Syncs
    <3>2. NoTelling' /\ NoImport' /\ row.client = client
      BY <1>1, <1>3, <1>5, <2>1, <3>1 DEF Syncs, NoTelling, NoImport
    <3>3. Agrees(row.ref)'
      BY <1>5, <2>3, <3>1 DEF Agrees
    <3>4. Agrees(cJob[j].ref)'
      BY <1>10, <3>3
    <3> QED
      BY <1>3, <1>5, <1>10, <2>1, <2>5, <3>1, <3>2, <3>4 DEF Syncs, Client!Jobs
  <2> QED
    BY <2>4, <2>5
<1> QED
  BY <1>3, <1>10, <1>11 DEF ContactInv

LEMMA ContactStore ==
  ASSUME ContactAssumption, ContactInv, NEW j \in Client!Jobs, Client!Store(j)
  PROVE  ContactInv'
<1>1. /\ cJob[j].step = "store" /\ refs' = refs \cup {cJob[j].ref}
      /\ cJob' = [cJob EXCEPT ![j] = Client!NoJob]
      /\ UNCHANGED <<client, pending, cQueue, contact, unseen, cEvents, cHook, crossed>>
  BY DEF Client!Store, Client!xeroVars
<1>2. IsSync(Client!NoJob) /\ Client!NoJob.ref = None /\ Client!NoJob.step = "idle"
  BY DEF IsSync, Client!NoJob
<1>3. refs' \subseteq DOMAIN contact
  BY <1>1 DEF ContactInv, ContactTyped
<1>4. /\ ContactTyped' /\ cJob'[j] = Client!NoJob
      /\ \A i \in Client!Jobs \ {j} : cJob'[i] = cJob[i]
  BY <1>1, <1>2, <1>3, SyncMoves DEF ContactInv, ContactTyped
<1>5. ASSUME ~crossed PROVE AtRest'
  <2>1. Syncs(j)
    BY <1>1, <1>5, OnlyOne
  <2>2. PICK c : c = cJob[j].ref
    OBVIOUS
  <2>3. refs' = {c} /\ Agrees(c)
    BY <1>1, <2>1, <2>2 DEF Syncs
  <2>4. \A d : refs' = {d} => Agrees(d)'
    BY <1>1, <2>3 DEF Agrees
  <2> QED
    BY <1>1, <1>2, <1>4, <2>1, <2>4 DEF Syncs, AtRest, NoTelling, NoWriting, NoImport, Client!Jobs
<1> QED
  BY <1>1, <1>4, <1>5 DEF ContactInv

(* A job or a hook that fails.                                             *)
LEMMA ContactFails ==
  ASSUME ContactInv,
         \/ \E j \in Client!Jobs : Client!JobFails(j)
         \/ \E k \in Listeners : Client!HookFails(k)
  PROVE  ContactInv'
<1>1. crossed'
  BY DEF Client!JobFails, Client!HookFails
<1>2. ASSUME NEW j \in Client!Jobs, Client!JobFails(j) PROVE ContactTyped'
  <2>1. IsSync(Client!NoJob) /\ Client!NoJob.ref = None /\ Client!NoJob.step = "idle"
    BY DEF IsSync, Client!NoJob
  <2> QED
    BY <1>2, <2>1, SyncMoves
    DEF Client!JobFails, Client!localVars, Client!xeroVars, ContactInv, ContactTyped
<1>3. ASSUME NEW k \in Listeners, Client!HookFails(k) PROVE ContactTyped'
  <2>1. IsHook(Client!NoHook) /\ Client!NoHook.step = "idle"
    BY DEF IsHook, Client!NoHook
  <2>2. IsClient(client)'
    BY <1>3 DEF Client!HookFails, Client!localVars, ContactInv, ContactTyped, IsClient
  <2> QED
    BY <1>3, <2>1, <2>2, HookMoves
    DEF Client!HookFails, Client!localVars, Client!xeroVars, ContactInv, ContactTyped
<1> QED
  BY <1>1, <1>2, <1>3 DEF ContactInv

LEMMA ContactReceive ==
  ASSUME ContactAssumption, ContactInv, NEW k \in Listeners, NEW c \in cEvents,
         Client!Receive(k, c)
  PROVE  ContactInv'
<1>1. /\ cEvents' = cEvents \ {c} /\ c \in DOMAIN contact
      /\ UNCHANGED <<client, refs, pending, cQueue, cJob, contact, unseen>>
  BY DEF Client!Receive, Client!localVars, ContactInv, ContactTyped
<1>2. PICK row : row = [Client!NoHook EXCEPT !.step = "ask", !.of = c]
  OBVIOUS
<1>3. IsHook(row) /\ row.step = "ask" /\ row.of = c
  BY <1>2 DEF IsHook, Client!NoHook
<1>4. IsClient(client)'
  BY <1>1 DEF ContactInv, ContactTyped, IsClient
<1>5. CASE UNCHANGED <<cHook, crossed>>
  <2>1. ContactTyped'
    BY <1>1, <1>5 DEF ContactInv, ContactTyped, IsSync, IsHook, IsClient, Client!Jobs
  <2>2. /\ AtRest' = AtRest /\ Queued' = Queued
        /\ \A h \in Editors : Told(h)' = Told(h)
        /\ \A j \in Client!Jobs : Syncs(j)' = Syncs(j)
        /\ \A g \in Listeners : Brings(g)' = Brings(g)
    BY <1>1, <1>5
    DEF AtRest, Queued, Told, Syncs, Brings, NoTelling, NoWriting, NoImport, Agrees
  <2> QED
    BY <1>5, <2>1, <2>2 DEF ContactInv, Client!Jobs
<1>6. CASE cHook' = [cHook EXCEPT ![k] = row] /\ crossed' = (crossed \/ Client!AtWork)
  <2>1. /\ ContactTyped' /\ cHook'[k] = row
        /\ \A g \in Listeners \ {k} : cHook'[g] = cHook[g]
    BY <1>1, <1>3, <1>4, <1>6, HookMoves DEF ContactInv, ContactTyped
  <2>2. ASSUME ~crossed' PROVE Brings(k)'
    <3>1. AtRest
      BY <1>6, <2>2, OnlyOne
    <3> QED
      BY <1>1, <1>3, <2>1, <3>1 DEF AtRest, Brings, NoTelling, NoWriting, NoImport, Agrees
  <2> QED
    BY <2>1, <2>2 DEF ContactInv
<1> QED
  BY <1>2, <1>5, <1>6 DEF Client!Receive

LEMMA ContactAsk ==
  ASSUME ContactAssumption, ContactInv, NEW k \in Listeners, Client!Ask(k)
  PROVE  ContactInv'
<1>1. PICK old : old = cHook[k] /\ IsHook(old) /\ old.step = "ask" /\ old.of \in DOMAIN contact
  BY DEF ContactInv, ContactTyped, Client!Ask
<1>2. /\ cHook' = [cHook EXCEPT ![k].answer = contact[old.of], ![k].step = "find"]
      /\ unseen' = unseen \ {old.of}
      /\ UNCHANGED <<client, refs, pending, cQueue, cJob, contact, cEvents, crossed>>
  BY <1>1 DEF Client!Ask, Client!localVars
<1>3. PICK row : row = [old EXCEPT !.answer = contact[old.of], !.step = "find"]
  OBVIOUS
<1>4. IsHook(row) /\ row.step = "find" /\ row.of = old.of /\ row.answer = contact[old.of]
  BY <1>1, <1>3 DEF IsHook
<1>5. cHook' = [cHook EXCEPT ![k] = row]
  BY <1>1, <1>2, <1>3 DEF ContactInv, ContactTyped
<1>6. IsClient(client)'
  BY <1>2 DEF ContactInv, ContactTyped, IsClient
<1>7. /\ ContactTyped' /\ cHook'[k] = row
      /\ \A g \in Listeners \ {k} : cHook'[g] = cHook[g]
  BY <1>1, <1>2, <1>4, <1>5, <1>6, HookMoves DEF ContactInv, ContactTyped
<1>8. ASSUME ~crossed PROVE Brings(k)'
  <2>1. Brings(k)
    BY <1>1, <1>8, OnlyOne
  <2>2. \A c : refs = {c} /\ c # old.of => Agrees(c)'
    BY <1>1, <1>2, <2>1 DEF Brings, Agrees
  <2> QED
    BY <1>2, <1>4, <1>7, <2>1, <2>2 DEF Brings, NoTelling, NoWriting
<1> QED
  BY <1>2, <1>7, <1>8 DEF ContactInv

LEMMA ContactMatch ==
  ASSUME ContactAssumption, ContactInv, NEW k \in Listeners, Client!Find(k)
  PROVE  ContactInv'
<1>1. PICK old : old = cHook[k] /\ IsHook(old) /\ old.step = "find" /\ old.of \in DOMAIN contact
  BY DEF ContactInv, ContactTyped, Client!Find
<1>2. PICK known : known = (old.of \in refs \/ (old.of \notin others /\ emailed))
  OBVIOUS
<1>3. /\ cHook' = [cHook EXCEPT ![k].step = "write", ![k].known = known]
      /\ UNCHANGED <<client, refs, pending, cQueue, cJob, contact, unseen, cEvents, crossed>>
  BY <1>1, <1>2 DEF Client!Find, Client!localVars, Client!xeroVars
<1>4. PICK row : row = [old EXCEPT !.step = "write", !.known = known]
  OBVIOUS
<1>5. /\ IsHook(row) /\ row.step = "write" /\ row.of = old.of /\ row.answer = old.answer
      /\ row.known = known
  BY <1>1, <1>4 DEF IsHook
<1>6. cHook' = [cHook EXCEPT ![k] = row]
  BY <1>1, <1>3, <1>4 DEF ContactInv, ContactTyped
<1>7. IsClient(client)'
  BY <1>3 DEF ContactInv, ContactTyped, IsClient
<1>8. /\ ContactTyped' /\ cHook'[k] = row
      /\ \A g \in Listeners \ {k} : cHook'[g] = cHook[g]
  BY <1>1, <1>3, <1>5, <1>6, <1>7, HookMoves DEF ContactInv, ContactTyped
<1>9. old.of \in refs => row.known
  BY <1>2, <1>5
<1>10. ASSUME ~crossed PROVE Brings(k)'
  <2>1. Brings(k)
    BY <1>1, <1>10, OnlyOne
  <2>2. \A c : refs = {c} /\ c # old.of => Agrees(c)'
    BY <1>1, <1>3, <2>1 DEF Brings, Agrees
  <2> QED
    <3>1. row.of \in refs' => row.known
      BY <1>3, <1>5, <1>9
    <3>2. cHook'[k].of \in refs' => cHook'[k].known
      BY <1>8, <3>1, Zenon
    <3>3. cHook'[k].of \in unseen' \/ cHook'[k].answer = contact'[cHook'[k].of]
      BY <1>1, <1>3, <1>5, <1>8, <2>1 DEF Brings
    <3>4. /\ cHook'[k].step = "write" /\ cHook'[k].of = old.of /\ NoTelling' /\ NoWriting'
          /\ \A g \in Listeners \ {k} : cHook'[g].step = "idle"
      BY <1>3, <1>5, <1>8, <2>1 DEF Brings, NoTelling, NoWriting, Client!Jobs
    <3> QED
      BY <1>3, <2>2, <3>2, <3>3, <3>4 DEF Brings
<1> QED
  BY <1>3, <1>8, <1>10 DEF ContactInv

LEMMA ContactWrite ==
  ASSUME ContactAssumption, ContactInv, NEW k \in Listeners, Client!WriteClient(k)
  PROVE  ContactInv'
<1>1. PICK old : old = cHook[k] /\ IsHook(old) /\ old.step = "write" /\ old.of \in DOMAIN contact
  BY DEF ContactInv, ContactTyped, Client!WriteClient
<1>2. UNCHANGED <<refs, pending, cQueue, cJob, contact, unseen, cEvents, crossed>>
  BY DEF Client!WriteClient, Client!xeroVars
<1>3. CASE ~old.known
  <2>1. client' = client /\ cHook' = [cHook EXCEPT ![k] = Client!NoHook]
    BY <1>1, <1>3 DEF Client!WriteClient
  <2>2. IsHook(Client!NoHook) /\ Client!NoHook.step = "idle"
    BY DEF IsHook, Client!NoHook
  <2>3. IsClient(client)'
    BY <2>1 DEF ContactInv, ContactTyped, IsClient
  <2>4. /\ ContactTyped' /\ cHook'[k] = Client!NoHook
        /\ \A g \in Listeners \ {k} : cHook'[g] = cHook[g]
    BY <1>2, <2>1, <2>2, <2>3, HookMoves DEF ContactInv, ContactTyped
  <2>5. ASSUME ~crossed PROVE AtRest'
    <3>1. Brings(k)
      BY <1>1, <2>5, OnlyOne
    <3>2. old.of \notin refs
      BY <1>1, <1>3, <3>1 DEF Brings
    <3>3. \A c : refs = {c} => Agrees(c)
      BY <1>1, <3>1, <3>2 DEF Brings
    <3>4. \A c : refs' = {c} => Agrees(c)'
      BY <1>2, <2>1, <3>3 DEF Agrees
    <3> QED
      BY <1>2, <2>2, <2>4, <3>1, <3>4 DEF Brings, AtRest, NoTelling, NoWriting, NoImport
  <2> QED
    BY <1>2, <2>4, <2>5 DEF ContactInv
<1>4. CASE old.known
  <2>1. PICK gone : gone = Client!Deleted(old.answer)
    OBVIOUS
  <2>2. gone => old.answer.archived
    BY <2>1 DEF Client!Deleted
  <2>3. /\ client' = [name |-> old.answer.name, deleted |-> gone]
        /\ cHook' = [cHook EXCEPT ![k].step = "connect"]
    BY <1>1, <1>4, <2>1 DEF Client!WriteClient
  <2>4. PICK row : row = [old EXCEPT !.step = "connect"]
    OBVIOUS
  <2>5. IsHook(row) /\ row.step = "connect" /\ row.of = old.of
    BY <1>1, <2>4 DEF IsHook
  <2>6. cHook' = [cHook EXCEPT ![k] = row]
    BY <1>1, <2>3, <2>4
  <2>7. IsClient(client)'
    BY <2>3 DEF IsClient
  <2>8. /\ ContactTyped' /\ cHook'[k] = row
        /\ \A g \in Listeners \ {k} : cHook'[g] = cHook[g]
    BY <1>1, <1>2, <2>5, <2>6, <2>7, HookMoves DEF ContactInv, ContactTyped
  <2>9. ASSUME ~crossed PROVE Brings(k)'
    <3>1. Brings(k)
      BY <1>1, <2>9, OnlyOne
    <3>2. PICK c : c = old.of
      OBVIOUS
    <3>3. c \in unseen \/ old.answer = contact[c]
      BY <1>1, <3>1, <3>2 DEF Brings
    <3>4. client'.name = old.answer.name /\ (client'.deleted => old.answer.archived)
      BY <2>2, <2>3
    <3>5. Agrees(c)'
      BY <1>2, <3>3, <3>4 DEF Agrees
    <3>6. Agrees(cHook[k].of)'
      BY <2>5, <2>8, <3>2, <3>5
    <3> QED
      BY <1>2, <2>5, <2>8, <3>1, <3>6 DEF Brings, NoTelling, NoWriting
  <2> QED
    BY <1>2, <2>8, <2>9 DEF ContactInv
<1> QED
  BY <1>3, <1>4

LEMMA ContactConnect ==
  ASSUME ContactAssumption, ContactInv, NEW k \in Listeners, Client!Connect(k)
  PROVE  ContactInv'
<1>1. PICK c \in DOMAIN contact : c = cHook[k].of /\ cHook[k].step = "connect"
  BY DEF ContactInv, ContactTyped, Client!Connect
<1>2. /\ refs' = refs \cup {c} /\ cHook' = [cHook EXCEPT ![k] = Client!NoHook]
      /\ UNCHANGED <<client, pending, cQueue, cJob, contact, unseen, cEvents, crossed>>
  BY <1>1 DEF Client!Connect, Client!xeroVars
<1>3. IsHook(Client!NoHook) /\ Client!NoHook.step = "idle"
  BY DEF IsHook, Client!NoHook
<1>4. IsClient(client)' /\ (refs \cup cEvents)' \subseteq DOMAIN contact
  BY <1>2 DEF ContactInv, ContactTyped, IsClient
<1>5. /\ ContactTyped' /\ cHook'[k] = Client!NoHook
      /\ \A g \in Listeners \ {k} : cHook'[g] = cHook[g]
  BY <1>2, <1>3, <1>4, HookMoves DEF ContactInv
<1>6. ASSUME ~crossed PROVE AtRest'
  <2>1. Brings(k)
    BY <1>1, <1>6, OnlyOne
  <2>2. Agrees(c)
    BY <1>1, <2>1 DEF Brings
  <2>3. \A d : refs' = {d} => d = c
    BY <1>2
  <2>4. \A d : refs' = {d} => Agrees(d)'
    BY <1>2, <2>2, <2>3 DEF Agrees
  <2> QED
    BY <1>2, <1>3, <1>5, <2>1, <2>4 DEF Brings, AtRest, NoTelling, NoWriting, NoImport
<1> QED
  BY <1>2, <1>5, <1>6 DEF ContactInv

(* Accountants change a contact, and Xero will be asked for it.            *)
LEMMA ContactChangedInXero ==
  ASSUME ContactInv, NEW c \in Contacts, Client!ChangedInXero(c)
  PROVE  ContactInv'
<1>1. /\ c \in DOMAIN contact /\ unseen' = unseen \cup {c} /\ cEvents' = cEvents \cup {c}
      /\ UNCHANGED <<client, refs, pending, cQueue, cJob, cHook, crossed>>
  BY DEF Client!ChangedInXero, Client!localVars
<1>2. DOMAIN contact' = DOMAIN contact /\ \A d \in DOMAIN contact \ {c} : contact'[d] = contact[d]
  <2>1. \/ \E n \in Names : contact' = [contact EXCEPT ![c].name = n]
        \/ contact' = [contact EXCEPT ![c].archived = ~@]
    BY DEF Client!ChangedInXero
  <2>2. ASSUME NEW n \in Names, contact' = [contact EXCEPT ![c].name = n]
        PROVE  /\ DOMAIN contact' = DOMAIN contact
               /\ \A d \in DOMAIN contact \ {c} : contact'[d] = contact[d]
    BY <2>2
  <2>3. CASE contact' = [contact EXCEPT ![c].archived = ~@]
    BY <2>3
  <2> QED
    BY <2>1, <2>2, <2>3
<1>3. ContactTyped'
  BY <1>1, <1>2 DEF ContactInv, ContactTyped, IsSync, IsHook, IsClient, Client!Jobs
<1>4. /\ refs \subseteq DOMAIN contact
      /\ \A k \in Listeners : cHook[k].step # "idle" => cHook[k].of \in DOMAIN contact
      /\ \A j \in Client!Jobs : cJob[j].step = "store" => cJob[j].ref \in DOMAIN contact
  BY DEF ContactInv, ContactTyped
<1>5. \A d \in DOMAIN contact : Agrees(d) => Agrees(d)'
  BY <1>1, <1>2 DEF Agrees
<1>6. AtRest => AtRest'
  BY <1>1, <1>4, <1>5 DEF AtRest, NoTelling, NoWriting, NoImport, Client!Jobs
<1>7. Queued => Queued'
  BY <1>1 DEF Queued, NoWriting, NoImport, Client!Jobs
<1>8. \A h \in Editors : Told(h) => Told(h)'
  BY <1>1 DEF Told, NoWriting, NoImport, Client!Jobs
<1>9. ASSUME NEW j \in Client!Jobs, Syncs(j) PROVE Syncs(j)'
  <2>1. PICK d : d = cJob[j].ref /\ d = cJob'[j].ref
    BY <1>1
  <2>2. cJob[j].step = "store" /\ Agrees(d) => Agrees(d)'
    BY <1>4, <1>5, <2>1
  <2>3. j # "client" => (cJob[j].step = "store" => Agrees(d)')
    BY <1>9, <2>1, <2>2 DEF Syncs
  <2> QED
    BY <1>1, <1>9, <2>1, <2>3 DEF Syncs, NoTelling, NoImport, Client!Jobs
<1>10. ASSUME NEW k \in Listeners, Brings(k) PROVE Brings(k)'
  <2>1. PICK d \in DOMAIN contact : d = cHook[k].of /\ d = cHook'[k].of
    BY <1>1, <1>4, <1>10 DEF Brings
  <2>2. cHook[k].step = "connect" => Agrees(d)'
    BY <1>5, <1>10, <2>1 DEF Brings
  <2>3. \A e : /\ cHook[k].step # "connect" /\ refs = {e}
               /\ e # d \/ cHook[k].step = "ask"
               => Agrees(e)'
    BY <1>4, <1>5, <1>10, <2>1 DEF Brings
  <2>4. cHook[k].step \in {"find", "write"} => d \in unseen' \/ cHook[k].answer = contact'[d]
    BY <1>1, <1>2, <1>10, <2>1 DEF Brings
  <2> QED
    BY <1>1, <1>10, <2>1, <2>2, <2>3, <2>4 DEF Brings, NoTelling, NoWriting, Client!Jobs
<1> QED
  BY <1>1, <1>3, <1>6, <1>7, <1>8, <1>9, <1>10 DEF ContactInv, Client!Jobs

LEMMA ContactNext ==
  ASSUME ContactAssumption, ContactInv, [Client!Next]_(Client!vars)
  PROVE  ContactInv'
<1>1. ASSUME NEW h \in Editors, Client!update(h) \/ Client!remove(h) PROVE ContactInv'
  <2>1. PICK after : /\ Client!Change(h, after)
                     /\ \/ \E n \in Names : after = [client EXCEPT !.name = n]
                        \/ after = [client EXCEPT !.deleted = TRUE]
    BY <1>1 DEF Client!update, Client!remove
  <2>2. IsClient(after)
    BY <2>1 DEF ContactInv, ContactTyped, IsClient
  <2> QED
    BY <2>1, <2>2, ContactChange
<1>2. ASSUME UNCHANGED <<client, refs, pending, cQueue, cJob, contact, unseen, cEvents, cHook,
                         crossed>>
      PROVE  ContactInv'
  <2>1. ContactTyped'
    BY <1>2 DEF ContactInv, ContactTyped, IsSync, IsHook, IsClient, Client!Jobs
  <2>2. /\ AtRest' = AtRest /\ Queued' = Queued
        /\ \A h \in Editors : Told(h)' = Told(h)
        /\ \A j \in Client!Jobs : Syncs(j)' = Syncs(j)
        /\ \A g \in Listeners : Brings(g)' = Brings(g)
    BY <1>2
    DEF AtRest, Queued, Told, Syncs, Brings, NoTelling, NoWriting, NoImport, Agrees
  <2> QED
    BY <1>2, <2>1, <2>2 DEF ContactInv, Client!Jobs
<1>3. CASE Client!Forget \/ UNCHANGED Client!vars
  BY <1>2, <1>3 DEF Client!Forget, Client!vars, Client!localVars, Client!xeroVars
<1>4. ASSUME NEW j \in Client!Jobs,
             \/ Client!WriteDocument(j) \/ Client!FindConnection(j) \/ Client!FindByEmail(j)
             \/ Client!Push(j) \/ Client!Store(j) \/ Client!JobFails(j)
      PROVE  ContactInv'
  BY <1>4, ContactDocument, ContactFind, ContactPush, ContactStore, ContactFails
<1>5. ASSUME NEW k \in Listeners,
             \/ \E c \in cEvents : Client!Receive(k, c)
             \/ Client!Ask(k) \/ Client!Find(k) \/ Client!WriteClient(k)
             \/ Client!Connect(k) \/ Client!HookFails(k)
      PROVE  ContactInv'
  BY <1>5, ContactReceive, ContactAsk, ContactMatch, ContactWrite, ContactConnect, ContactFails
<1> QED
  BY <1>1, <1>3, <1>4, <1>5, ContactTell, ContactTake, ContactChangedInXero DEF Client!Next

(* When nothing is under way, the contact of a client has its name, and is *)
(* archived if the client was removed, unless something met something      *)
(* else, or failed, since the last change that was made with nothing under *)
(* way: for any requests, jobs and events, whatever accountants do.        *)
THEOREM ContactsAgree == ContactAssumption => (Client!Spec => []Client!ContactAgrees)
<1> SUFFICES ASSUME ContactAssumption PROVE Client!Spec => []Client!ContactAgrees
  OBVIOUS
<1>1. Client!Init => ContactInv
  BY ContactInit
<1>2. ContactInv /\ [Client!Next]_(Client!vars) => ContactInv'
  BY ContactNext
<1>3. ContactInv => Client!ContactAgrees
  <2>1. ASSUME ContactInv, Client!Quiet, ~crossed, NEW c \in Contacts, refs = {c}
        PROVE  contact[c].name = client.name /\ (client.deleted => contact[c].archived)
    <3>1. ~Client!AtWork /\ unseen = {}
      BY <2>1 DEF Client!Quiet
    <3>2. AtRest
      BY <2>1, <3>1, OnlyOne
    <3> QED
      BY <2>1, <3>1, <3>2 DEF AtRest, Agrees
  <2> QED
    BY <2>1 DEF Client!ContactAgrees
<1> QED
  BY <1>1, <1>2, <1>3, PTL DEF Client!Spec

(* The contact of a client agrees with it: ContactsAgree, of what is       *)
(* composed in Billing.                                                    *)
THEOREM ContactsFollowClients == ContactAssumption => (BillingSpec => []ContactAgrees)
<1>1. BillingInit => Client!Init
  BY DEF BillingInit
<1>2. [BillingNext]_<<which, vars, contactVars>> => [Client!Next]_(Client!vars)
  <2>1. UNCHANGED contactVars => UNCHANGED Client!vars
    BY DEF contactVars, Client!vars, Client!localVars, Client!xeroVars
  <2> QED
    BY <2>1 DEF BillingNext
<1>3. Client!ContactAgrees => ContactAgrees
  BY DEF ContactAgrees
<1> QED
  BY <1>1, <1>2, <1>3, ContactsAgree, PTL DEF BillingSpec, Client!Spec
=============================================================================
