-------------------------- MODULE NotificationQueue --------------------------
(***************************************************************************)
(* The worker that turns notification events into notifications and mail   *)
(* (src/src/modules/notification/processor).  Events wait in a Bull queue; *)
(* the processor hands an event to the service if its isProcessing flag is *)
(* clear and otherwise appends it to an in-memory jobQueue, from which     *)
(* handleNext takes the next one.  handleNext is called by sendNotification*)
(* when a handler returns and, a second time, by most handlers themselves. *)
(*                                                                         *)
(* JavaScript runs to the next await, so a step here is what happens       *)
(* between two awaits; everything a handler does before it returns         *)
(* (queries, notification.create, mail) is one wait.                       *)
(***************************************************************************)
EXTENDS Integers, Sequences, FiniteSets

CONSTANTS
  Events,      \* notification events
  Kind,        \* how the handler of an event calls handleNext
  Slots,       \* Bull jobs processed at a time: one per @Process method
  MaxMembers,  \* bound on the members added to a project by one event
  MaxCrashes   \* bound on the restarts of the server

(* "always"  invoice, reimbursement, project hold and resume, daily: in a  *)
(*           finally block, so on success and on failure                   *)
(* "success" new project: after the work, so only when nothing threw       *)
(* "never"   quotation, milestone, enquiry: left to sendNotification       *)
(* "members" project members: once per member, in tasks nobody awaits      *)
Kinds == {"always", "success", "never", "members"}

ASSUME QueueAssumption ==
  /\ Kind \in [Events -> Kinds]
  /\ Slots \in Nat \ {0}
  /\ MaxMembers \in Nat
  /\ MaxCrashes \in Nat

VARIABLES
  place,         \* where each event is
  slot,          \* events whose Bull job is active
  jobQueue,      \* events accepted while another was being sent
  isProcessing,  \* the flag of the service
  members,       \* members[e]: member tasks of e still running
  starts,        \* starts[e]: how often the handler of e was started
  crashes

vars == <<place, slot, jobQueue, isProcessing, members, starts, crashes>>

\* "handler": inside the handler; "wrapper": the handler returned and
\* sendNotification is about to call handleNext.
Places == {"absent", "bull", "queued", "handler", "wrapper", "done", "lost"}

Running == {e \in Events : place[e] \in {"handler", "wrapper"}}

TypeOK ==
  /\ place \in [Events -> Places]
  /\ slot \subseteq Events
  /\ jobQueue \in Seq(Events)
  /\ isProcessing \in BOOLEAN
  /\ members \in [Events -> 0..MaxMembers]
  /\ starts \in [Events -> Nat]
  /\ crashes \in 0..MaxCrashes

Init ==
  /\ place = [e \in Events |-> "absent"]
  /\ slot = {}
  /\ jobQueue = <<>>
  /\ isProcessing = FALSE
  /\ members = [e \in Events |-> 0]
  /\ starts = [e \in Events |-> 0]
  /\ crashes = 0

-----------------------------------------------------------------------------

\* The listener (or the cron job) adds a delayed Bull job.
Emit(e) ==
  /\ place[e] = "absent"
  /\ place' = [place EXCEPT ![e] = "bull"]
  /\ UNCHANGED <<slot, jobQueue, isProcessing, members, starts, crashes>>

\* The processor gets a job while nothing is being sent ...
Accept(e) ==
  /\ place[e] = "bull"
  /\ Cardinality(slot) < Slots
  /\ ~ isProcessing
  /\ isProcessing' = TRUE
  /\ place' = [place EXCEPT ![e] = "handler"]
  /\ starts' = [starts EXCEPT ![e] = @ + 1]
  /\ slot' = slot \cup {e}
  /\ UNCHANGED <<jobQueue, members, crashes>>

\* Mutated forms of Postpone: the event is appended whatever the flag says;
\* the job is kept in Bull as well.
PostponeAlways(e) ==
  /\ place[e] = "bull"
  /\ Cardinality(slot) < Slots
  /\ jobQueue' = Append(jobQueue, e)
  /\ place' = [place EXCEPT ![e] = "queued"]
  /\ UNCHANGED <<slot, isProcessing, members, starts, crashes>>

PostponeKeepsJob(e) ==
  /\ place[e] = "bull"
  /\ Cardinality(slot) < Slots
  /\ isProcessing
  /\ jobQueue' = Append(jobQueue, e)
  /\ UNCHANGED <<place, slot, isProcessing, members, starts, crashes>>

\* ... or while something is: the job completes and the event is in memory.
Postpone(e) ==
  /\ place[e] = "bull"
  /\ Cardinality(slot) < Slots
  /\ isProcessing
  /\ jobQueue' = Append(jobQueue, e)
  /\ place' = [place EXCEPT ![e] = "queued"]
  /\ UNCHANGED <<slot, isProcessing, members, starts, crashes>>

\* Mutated forms of HandleNext: the flag is cleared whenever an event is
\* taken; the next event is read and not removed; an empty queue leaves the
\* flag set.
HandleNextClears(p) ==
  /\ isProcessing' = FALSE
  /\ IF jobQueue = <<>>
       THEN place' = p /\ UNCHANGED <<jobQueue, starts>>
       ELSE /\ place' = [p EXCEPT ![Head(jobQueue)] = "handler"]
            /\ starts' = [starts EXCEPT ![Head(jobQueue)] = @ + 1]
            /\ jobQueue' = Tail(jobQueue)

HandleNextPeeks(p) ==
  IF jobQueue = <<>>
    THEN /\ isProcessing' = FALSE
         /\ place' = p
         /\ UNCHANGED <<jobQueue, starts>>
    ELSE /\ place' = [p EXCEPT ![Head(jobQueue)] = "handler"]
         /\ starts' = [starts EXCEPT ![Head(jobQueue)] = @ + 1]
         /\ UNCHANGED <<jobQueue, isProcessing>>

HandleNextKeepsFlag(p) ==
  IF jobQueue = <<>>
    THEN /\ place' = p
         /\ UNCHANGED <<jobQueue, starts, isProcessing>>
    ELSE /\ place' = [p EXCEPT ![Head(jobQueue)] = "handler"]
         /\ starts' = [starts EXCEPT ![Head(jobQueue)] = @ + 1]
         /\ jobQueue' = Tail(jobQueue)
         /\ UNCHANGED isProcessing

\* handleNext, called when the places of the events are p.
HandleNext(p) ==
  IF jobQueue = <<>>
    THEN /\ isProcessing' = FALSE
         /\ place' = p
         /\ UNCHANGED <<jobQueue, starts>>
    ELSE /\ place' = [p EXCEPT ![Head(jobQueue)] = "handler"]
         /\ starts' = [starts EXCEPT ![Head(jobQueue)] = @ + 1]
         /\ jobQueue' = Tail(jobQueue)
         /\ UNCHANGED isProcessing

\* A handler that calls handleNext itself before it returns.
ReturnCalling(e, ok) ==
  /\ place[e] = "handler"
  /\ Kind[e] = "always" \/ (Kind[e] = "success" /\ ok)
  /\ HandleNext([place EXCEPT ![e] = "wrapper"])
  /\ UNCHANGED <<slot, members, crashes>>

\* One that does not: it threw, or it leaves the call to sendNotification; the
\* members' handler starts its tasks and returns without awaiting them.
ReturnPlain(e, ok) ==
  /\ place[e] = "handler"
  /\ Kind[e] \in {"never", "members"} \/ (Kind[e] = "success" /\ ~ ok)
  /\ place' = [place EXCEPT ![e] = "wrapper"]
  /\ \E k \in 0..MaxMembers :
       /\ Kind[e] # "members" \/ ~ ok => k = members[e]
       /\ members' = [members EXCEPT ![e] = k]
  /\ UNCHANGED <<slot, jobQueue, isProcessing, starts, crashes>>

\* The finally block of sendNotification; a Bull job that waited is over.
Finish(e) ==
  /\ place[e] = "wrapper"
  /\ HandleNext([place EXCEPT ![e] = "done"])
  /\ slot' = slot \ {e}
  /\ UNCHANGED <<members, crashes>>

\* A member task ends: it calls handleNext, unless it threw.
MemberDone(e) ==
  /\ members[e] > 0
  /\ members' = [members EXCEPT ![e] = @ - 1]
  /\ HandleNext(place)
  /\ UNCHANGED <<slot, crashes>>

MemberThrows(e) ==
  /\ members[e] > 0
  /\ members' = [members EXCEPT ![e] = @ - 1]
  /\ UNCHANGED <<place, slot, jobQueue, isProcessing, starts, crashes>>

\* The server stops and comes back with a fresh service.  Bull takes a stalled
\* job up again, a limited number of times; what was only in memory is lost.
Crash ==
  /\ crashes < MaxCrashes
  /\ crashes' = crashes + 1
  /\ \E retried \in SUBSET slot :
       place' = [e \in Events |->
         IF e \in retried THEN "bull"
         ELSE IF place[e] \in {"queued", "handler", "wrapper"} THEN "lost"
         ELSE place[e]]
  /\ slot' = {}
  /\ jobQueue' = <<>>
  /\ isProcessing' = FALSE
  /\ members' = [e \in Events |-> 0]
  /\ UNCHANGED starts

EventStep(e) ==
  \/ Accept(e)
  \/ Postpone(e)
  \/ \E ok \in BOOLEAN : ReturnCalling(e, ok) \/ ReturnPlain(e, ok)
  \/ Finish(e)

MemberStep(e) == MemberDone(e) \/ MemberThrows(e)

Next ==
  \/ \E e \in Events : Emit(e) \/ EventStep(e) \/ MemberStep(e)
  \/ Crash

\* Bull hands out waiting jobs and every awaited call returns.
Fairness ==
  \A e \in Events : WF_vars(EventStep(e)) /\ WF_vars(MemberStep(e))

Spec == Init /\ [][Next]_vars
FairSpec == Spec /\ Fairness

-----------------------------------------------------------------------------
(* Properties.                                                             *)

(* The flag is never left set with nobody to clear it: while isProcessing  *)
(* holds some event is being sent, whose end calls handleNext.  The double *)
(* calls may clear it too early, never too late.                           *)
FlagHasOwner == isProcessing => Running # {}

(* Events in the in-memory queue are never stranded: the flag holds, so    *)
(* (FlagHasOwner) somebody will take them.                                 *)
QueueHasOwner == jobQueue # <<>> => isProcessing

(* The in-memory queue holds exactly the postponed events, once each:      *)
(* however many calls of handleNext interleave, none is dropped or doubled.*)
QueueIsExact ==
  /\ \A i \in 1..Len(jobQueue) : place[jobQueue[i]] = "queued"
  /\ \A e \in Events :
       place[e] = "queued" => \E i \in 1..Len(jobQueue) : jobQueue[i] = e
  /\ \A i, j \in 1..Len(jobQueue) : jobQueue[i] = jobQueue[j] => i = j

(* An event is sent once; only a restart can have Bull send it again.      *)
SentOnce == \A e \in Events : starts[e] <= 1 + crashes

(* Every event the queue receives is sent to the end, unless a restart     *)
(* loses the queue kept in memory.                                         *)
EventuallySent ==
  \A e \in Events : place[e] = "bull" ~> (place[e] = "done" \/ crashes > 0)

-----------------------------------------------------------------------------
(* The inductive invariant of the proofs: an event that is yet to be       *)
(* started has been started only before a restart.                         *)
StartsBefore ==
  \A e \in Events :
    place[e] \in {"absent", "bull", "queued"} => starts[e] <= crashes

IInv ==
  /\ TypeOK
  /\ FlagHasOwner
  /\ QueueHasOwner
  /\ QueueIsExact
  /\ SentOnce
  /\ StartsBefore
=============================================================================
