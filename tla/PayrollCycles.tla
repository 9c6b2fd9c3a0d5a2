---------------------------- MODULE PayrollCycles ----------------------------
(***************************************************************************)
(* The dates of the cycles payrolls are made for:                          *)
(* src/src/modules/payroll-cycle.                                          *)
(*                                                                         *)
(* The controller validates the dates of a new cycle in one query and      *)
(* creates it in another. What the processing of a cycle does is the       *)
(* module Payroll: here it is one step. Times of day are left out.         *)
(***************************************************************************)
EXTENDS Integers

CONSTANTS
  Days,         \* the last day
  MaxAge,       \* how many days in the past a cycle may begin (60)
  Cycles,
  Handlers,     \* requests to the server in progress at once
  None,
  MaxActions,   \* bound on the requests to the server
  MaxFailures   \* bound on the queries that fail

Day == 1..Days
Span == {s \in Day \X Day : s[1] <= s[2]}

VARIABLES
  today,
  cycle,      \* the rows of table PayrollCycle
  processed,  \* the cycles that have been
  paid,       \* history: for each cycle, the days it was processed for
  handler,
  unchecked,  \* history: the cycles of which nobody made sure that they overlap no other
  actions, failures

vars == <<today, cycle, processed, paid, handler, unchecked, actions, failures>>

Idle == [cycle |-> None, span |-> None]

TypeOK ==
  /\ today \in Day
  /\ cycle \in [Cycles -> Span \cup {None}]
  /\ processed \subseteq Cycles
  /\ paid \in [Cycles -> Span \cup {None}]
  /\ handler \in [Handlers -> [cycle: Cycles \cup {None}, span: Span \cup {None}]]
  /\ unchecked \subseteq Cycles
  /\ actions \in 0..MaxActions /\ failures \in 0..MaxFailures

Init ==
  /\ today = 1
  /\ cycle = [c \in Cycles |-> None]
  /\ processed = {}
  /\ paid = [c \in Cycles |-> None]
  /\ handler = [h \in Handlers |-> Idle]
  /\ unchecked = {}
  /\ actions = 0 /\ failures = 0

Rows == {c \in Cycles : cycle[c] # None}
Creating == {handler[h].cycle : h \in Handlers} \ {None}

Counted == actions < MaxActions /\ actions' = actions + 1

DayPasses ==
  /\ today < Days /\ today' = today + 1
  /\ UNCHANGED <<cycle, processed, paid, handler, unchecked, actions, failures>>

\* A mutated form of Overlap: a cycle may begin on the last day of another.
OverlapInside(s, t) == s[1] < t[2] /\ s[2] > t[1]

\* The first arm of the query of validateDates, which includes the second.
Overlap(s, t) == s[1] <= t[2] /\ s[2] >= t[1]

(* validateDates: the cycle is not too old, and overlaps none that exists. *)
(* A cycle that has been validated and not yet created is not seen.        *)
ValidateDates(h) ==
  \E c \in Cycles \ (Rows \cup Creating), s \in Span :
    /\ handler[h] = Idle /\ Counted
    /\ today - s[1] <= MaxAge
    /\ \A d \in Rows : ~Overlap(cycle[d], s)
    /\ handler' = [handler EXCEPT ![h] = [cycle |-> c, span |-> s]]
    /\ unchecked' = IF Creating # {} THEN unchecked \cup {c} ELSE unchecked \ {c}
    /\ UNCHANGED <<today, cycle, processed, paid, failures>>

CreateCycle(h) ==
  /\ handler[h] # Idle
  /\ cycle' = [cycle EXCEPT ![handler[h].cycle] = handler[h].span]
  /\ handler' = [handler EXCEPT ![h] = Idle]
  /\ UNCHANGED <<today, processed, paid, unchecked, actions, failures>>

QueryFails(h) ==
  /\ handler[h] # Idle /\ failures < MaxFailures
  /\ failures' = failures + 1
  /\ handler' = [handler EXCEPT ![h] = Idle]
  /\ UNCHANGED <<today, cycle, processed, paid, unchecked, actions>>

\* The dates of any cycle, a processed one too, are changed without being validated.
UpdateCycle ==
  \E c \in Rows, s \in Span :
    /\ Counted
    /\ cycle' = [cycle EXCEPT ![c] = s]
    /\ unchecked' = unchecked \cup {c}
    /\ UNCHANGED <<today, processed, paid, handler, failures>>

RemoveCycle ==
  \E c \in Rows \ processed :
    /\ Counted
    /\ cycle' = [cycle EXCEPT ![c] = None]
    /\ UNCHANGED <<today, processed, paid, handler, unchecked, failures>>

(* A cycle is processed once, and not before the day before its last.      *)
ProcessCycle ==
  \E c \in Rows \ processed :
    /\ Counted
    /\ cycle[c][2] <= today + 1
    /\ processed' = processed \cup {c}
    /\ paid' = [paid EXCEPT ![c] = cycle[c]]
    /\ UNCHANGED <<today, cycle, handler, unchecked, failures>>

Next ==
  \/ DayPasses
  \/ \E h \in Handlers : ValidateDates(h) \/ CreateCycle(h) \/ QueryFails(h)
  \/ UpdateCycle \/ RemoveCycle \/ ProcessCycle

Spec == Init /\ [][Next]_vars

-----------------------------------------------------------------------------
(* Properties.                                                             *)

PaidDays(c) == paid[c][1]..paid[c][2]

(* Nobody is paid twice for a day: the cycles that were processed share    *)
(* none (validateDates, and the controller's process and remove). Excepted *)
(* are a cycle validated while another had been and was not yet created,   *)
(* and one whose dates were changed, which update does not validate.       *)
DayPaidOnce ==
  \A c, d \in processed \ unchecked : c # d => PaidDays(c) \cap PaidDays(d) = {}
=============================================================================
