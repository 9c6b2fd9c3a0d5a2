------------------------------ MODULE TaskOrder ------------------------------
(***************************************************************************)
(* The order of the tasks of a column: src/src/modules/task.               *)
(*                                                                         *)
(* The tasks of a status form a column, shown by ascending order.  To move *)
(* a task to position k, the service reads the task, then the k-th row of  *)
(* its column, shifts in one statement everything from that row on, or up  *)
(* to it, and gives the task the order of that row in another.  Other      *)
(* requests may come in between.  The rows it counts include the deleted   *)
(* ones and those of the other type, which the listing leaves out.         *)
(***************************************************************************)
EXTENDS Integers, FiniteSets

CONSTANTS
  Tasks,        \* the ids of table Task
  Columns,      \* the values of status
  Handlers,     \* requests to the server in progress at once
  New,          \* the order of a row that was just inserted: 999
  Far,          \* the order of a task that is moved behind the last row: 9999
  MaxActions,   \* bound on the requests to the server
  MaxFailures   \* bound on the queries that fail

VARIABLES
  rows,         \* the ids that exist
  status, order, deleted,
  support,      \* the tasks of type techSupport, which have a listing of their own
  handler,
  actions, failures

vars == <<rows, status, order, deleted, support, handler, actions, failures>>

\* task, status and order: as read; to: the position asked; target: the order found there.
\* before: the listing when it was read; alone: nobody else has written since.
Handler ==
  [pc: {"idle", "new", "find", "shift", "place", "moved"}, task: Tasks, status: Columns,
   order: Int, to: Nat, target: Int, before: UNION {[some -> Nat] : some \in SUBSET Tasks},
   plain: BOOLEAN, alone: BOOLEAN]

Idle ==
  [pc |-> "idle", task |-> CHOOSE t \in Tasks : TRUE, status |-> CHOOSE s \in Columns : TRUE,
   order |-> 0, to |-> 0, target |-> 0, before |-> << >>, plain |-> FALSE, alone |-> FALSE]

TypeOK ==
  /\ rows \subseteq Tasks /\ deleted \subseteq rows /\ support \subseteq rows
  /\ status \in [Tasks -> Columns] /\ order \in [Tasks -> Int]
  /\ handler \in [Handlers -> Handler]
  /\ actions \in 0..MaxActions /\ failures \in 0..MaxFailures

(* A column to which nothing but create has been applied: the order of a   *)
(* task is its id.                                                         *)
Init ==
  /\ \E n \in Tasks : rows = {t \in Tasks : t <= n}
  /\ status = [t \in Tasks |-> CHOOSE s \in Columns : TRUE]
  /\ order = [t \in Tasks |-> t]
  /\ deleted = {} /\ support = {}
  /\ handler = [h \in Handlers |-> Idle]
  /\ actions = 0 /\ failures = 0

Column(s) == {t \in rows : status[t] = s}

\* The rows the listing does not show with t: deleted ones and those of the other type.
HiddenWith(t, u) == u \in deleted \/ (u \in support) # (t \in support)

\* The rows of a column that the listing shows with t.
Shown(t, s) == {u \in Column(s) : ~HiddenWith(t, u)}

\* How many of some rows come before each of them, by some order, then by id.
Positions(some, by) ==
  [u \in some |-> Cardinality({v \in some : by[v] < by[u] \/ (by[v] = by[u] /\ v < u)})]

(* What findAll returns, sorted by order (the default): who comes where.   *)
Listing(t, s) == Positions(Shown(t, s), order)

\* The listing shows the whole column, no two rows have the same order, none is beyond Far.
Plain(t, s) ==
  /\ \A u \in Column(s) : ~HiddenWith(t, u) /\ order[u] < Far
  /\ \A u, v \in Column(s) : order[u] = order[v] => u = v

\* The rows that may be returned as the k-th of the column: among equals, any.
At(k, s) ==
  {u \in Column(s) :
     /\ Cardinality({v \in Column(s) : order[v] < order[u]}) <= k
     /\ Cardinality({v \in Column(s) : order[v] <= order[u]}) > k}

Starts(h, new) ==
  /\ handler[h].pc = "idle" /\ actions < MaxActions
  /\ actions' = actions + 1
  /\ handler' = [handler EXCEPT ![h] = new]

Goes(h, new) == handler' = [handler EXCEPT ![h] = new]

\* h writes and goes on as new: for the others, the table has changed.
Writes(h, new) ==
  handler' = [g \in Handlers |->
                IF g = h THEN new
                ELSE IF handler[g].pc = "idle" THEN Idle
                ELSE [handler[g] EXCEPT !.alone = FALSE]]

(* create: the row with the default order; its own id follows (Place).     *)
Create(h, t, s) ==
  /\ handler[h].pc = "idle" /\ actions < MaxActions
  /\ t \notin rows /\ \A u \in Tasks : u < t => u \in rows
  /\ rows' = rows \cup {t}
  /\ status' = [status EXCEPT ![t] = s]
  /\ order' = [order EXCEPT ![t] = New]
  /\ Writes(h, [Idle EXCEPT !.pc = "new", !.task = t, !.target = t])
  /\ support' \in {support, support \cup {t}}
  /\ actions' = actions + 1
  /\ UNCHANGED <<deleted, failures>>

(* updateTaskOrder: the task is read.                                      *)
Move(h, t, k) ==
  /\ t \in rows
  /\ Starts(h, [Idle EXCEPT
       !.pc = "find", !.task = t, !.status = status[t], !.order = order[t], !.to = k,
       !.before = Listing(t, status[t]), !.plain = Plain(t, status[t]), !.alone = TRUE])
  /\ UNCHANGED <<support, rows, status, order, deleted, failures>>

(* The k-th row of its column, or far behind.                              *)
Find(h) ==
  LET m == handler[h]
      found == At(m.to, m.status)
  IN /\ m.pc = "find"
     /\ \/ \E u \in found : Goes(h, [m EXCEPT !.pc = "shift", !.target = order[u]])
        \/ found = {} /\ Goes(h, [m EXCEPT !.pc = "shift", !.target = Far])
     /\ UNCHANGED <<support, rows, status, order, deleted, actions, failures>>

\* A mutated form of Shifted: the row found stays where it is.
ShiftedBeyond(m, u) ==
  CASE m.target > m.order /\ order[u] < m.target -> order[u] - 1
    [] m.target <= m.order /\ order[u] > m.target -> order[u] + 1
    [] OTHER -> order[u]

\* A mutated form of Shifted: the branch that moves down keeps the comparison of the other.
ShiftedCopied(m, u) ==
  IF order[u] < m.target THEN order[u]
  ELSE IF m.target > m.order THEN order[u] - 1 ELSE order[u] + 1

\* By how much a row is shifted: up to make room before the row found, or down to follow it.
Shifted(m, u) ==
  CASE m.target > m.order /\ order[u] <= m.target -> order[u] - 1
    [] m.target <= m.order /\ order[u] >= m.target -> order[u] + 1
    [] OTHER -> order[u]

(* The shift, one statement over the rows that have the status now.        *)
Shift(h) ==
  LET m == handler[h]
  IN /\ m.pc = "shift"
     /\ order' = [u \in Tasks |->
                    IF u \in Column(m.status) \ {m.task} THEN Shifted(m, u) ELSE order[u]]
     /\ Writes(h, [m EXCEPT !.pc = "place"])
     /\ UNCHANGED <<support, rows, status, deleted, actions, failures>>

(* The task gets the order found, or, when it is new, its id.              *)
Place(h) ==
  LET m == handler[h]
  IN /\ m.pc \in {"new", "place"}
     /\ order' = [order EXCEPT ![m.task] = m.target]
     /\ Writes(h, IF m.pc = "place" THEN [m EXCEPT !.pc = "moved"] ELSE Idle)
     /\ UNCHANGED <<support, rows, status, deleted, actions, failures>>

Answer(h) ==
  /\ handler[h].pc = "moved"
  /\ Goes(h, Idle)
  /\ UNCHANGED <<support, rows, status, order, deleted, actions, failures>>

(* update: a task changes its column and keeps its order.                  *)
Update(h, t, s) ==
  /\ handler[h].pc = "idle" /\ actions < MaxActions
  /\ t \in rows /\ status[t] # s
  /\ status' = [status EXCEPT ![t] = s]
  /\ Writes(h, Idle)
  /\ actions' = actions + 1
  /\ UNCHANGED <<support, rows, order, deleted, failures>>

(* remove marks the row.                                                   *)
RemoveTask(h, t) ==
  /\ handler[h].pc = "idle" /\ actions < MaxActions
  /\ t \in rows \ deleted
  /\ deleted' = deleted \cup {t}
  /\ Writes(h, Idle)
  /\ actions' = actions + 1
  /\ UNCHANGED <<support, rows, status, order, failures>>

(* A query fails: what was written before it stays.                        *)
QueryFails(h) ==
  /\ handler[h].pc \notin {"idle", "moved"} /\ failures < MaxFailures
  /\ failures' = failures + 1
  /\ Goes(h, Idle)
  /\ UNCHANGED <<support, rows, status, order, deleted, actions>>

Next ==
  \E h \in Handlers :
    \/ \E t \in Tasks, s \in Columns : Create(h, t, s) \/ Update(h, t, s)
    \/ \E t \in Tasks, k \in 0..Cardinality(Tasks) : Move(h, t, k)
    \/ \E t \in Tasks : RemoveTask(h, t)
    \/ Find(h) \/ Shift(h) \/ Place(h) \/ Answer(h) \/ QueryFails(h)

Spec == Init /\ [][Next]_vars

-----------------------------------------------------------------------------
(* Properties.                                                             *)

\* The positions when t is taken out and put in again at position k, or last.
Moved(before, t, k) ==
  LET last == Cardinality(DOMAIN before) - 1
      place == IF k > last THEN last ELSE k
      Without(u) == IF before[u] > before[t] THEN before[u] - 1 ELSE before[u]
  IN [u \in DOMAIN before |->
        CASE u = t -> place
          [] u # t /\ Without(u) < place -> Without(u)
          [] OTHER -> Without(u) + 1]

(* A move that nobody disturbs does to the listing what a list would do:   *)
(* the task comes to the position asked and the others keep theirs.  It    *)
(* holds in a plain column only: hidden rows are counted as positions,     *)
(* rows of equal order cannot be told apart, and "last" is order Far.      *)
MoveLands ==
  \A h \in Handlers :
    LET m == handler[h]
    IN m.pc = "moved" /\ m.alone /\ m.plain
         => Listing(m.task, m.status) = Moved(m.before, m.task, m.to)

\* The tasks that are being created or moved.
InHand == {handler[h].task : h \in {g \in Handlers : handler[g].pc # "idle"}}

(* Whatever requests interleave and wherever they fail, two rows of a      *)
(* column that nobody moves keep their order relative to each other.       *)
OthersKeepOrder ==
  [][\A u, v \in rows \ (InHand \cup InHand') :
       status[u] = status[v] => (order[u] < order[v]) = (order'[u] < order'[v])]_vars
=============================================================================
