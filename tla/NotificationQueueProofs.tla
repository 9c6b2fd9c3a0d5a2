---------------------- MODULE NotificationQueueProofs ----------------------
(***************************************************************************)
(* The in-memory notification queue never strands an event, for any number *)
(* of events, member tasks and restarts.  At the end, the notifications as *)
(* people read them (Announcements), and the conversation of a project     *)
(* with the sockets that are told of it (Conversation).                    *)
(***************************************************************************)
EXTENDS Notifications, SequenceTheorems, TLAPS

LEMMA InitIInv == Init => IInv
<1> SUFFICES ASSUME Init PROVE IInv
  OBVIOUS
<1>1. TypeOK
  <2>1. place \in [Events -> Places] /\ slot \subseteq Events
    BY DEF Init, Places
  <2>2. jobQueue \in Seq(Events)
    <3>1. <<>> \in Seq(Events)
      BY EmptySeq
    <3>2. jobQueue = <<>>
      BY DEF Init
    <3> QED
      BY <3>1, <3>2
  <2>3. isProcessing \in BOOLEAN
    BY DEF Init
  <2>4. members \in [Events -> 0..MaxMembers]
    BY QueueAssumption DEF Init
  <2>5. starts \in [Events -> Nat] /\ crashes \in 0..MaxCrashes
    BY QueueAssumption DEF Init
  <2> QED
    BY <2>1, <2>2, <2>3, <2>4, <2>5 DEF TypeOK
<1>2. jobQueue = <<>> /\ Len(jobQueue) = 0 /\ isProcessing = FALSE
  BY DEF Init
<1>3. \A e \in Events : place[e] = "absent" /\ starts[e] = 0 /\ crashes = 0
  BY DEF Init
<1>4. QueueIsExact
  BY <1>2, <1>3 DEF QueueIsExact
<1>5. FlagHasOwner /\ QueueHasOwner
  BY <1>2 DEF FlagHasOwner, QueueHasOwner
<1>6. SentOnce /\ StartsBefore
  BY <1>3 DEF SentOnce, StartsBefore
<1> QED
  BY <1>1, <1>4, <1>5, <1>6 DEF IInv

(* What every caller of handleNext relies on: p is the places with the     *)
(* caller moved on, so the same events are queued.                         *)
LEMMA HandleNextKeeps ==
  ASSUME IInv, NEW p \in [Events -> Places],
         \A e \in Events : p[e] = "queued" <=> place[e] = "queued",
         \A e \in Events : p[e] \in {"absent", "bull"} => p[e] = place[e],
         HandleNext(p), crashes' = crashes
  PROVE  /\ place' \in [Events -> Places]
         /\ jobQueue' \in Seq(Events)
         /\ isProcessing' \in BOOLEAN
         /\ starts' \in [Events -> Nat]
         /\ FlagHasOwner' /\ QueueHasOwner' /\ QueueIsExact'
         /\ SentOnce' /\ StartsBefore'
<1>1. CASE jobQueue = <<>>
  <2>1. isProcessing' = FALSE /\ place' = p /\ jobQueue' = <<>> /\ starts' = starts
    BY <1>1 DEF HandleNext
  <2>2. QueueIsExact'
    BY <1>1, <2>1 DEF IInv, QueueIsExact
  <2>3. place' \in [Events -> Places] /\ jobQueue' \in Seq(Events)
        /\ isProcessing' \in BOOLEAN /\ starts' \in [Events -> Nat]
    BY <1>1, <2>1 DEF IInv, TypeOK
  <2>4. FlagHasOwner' /\ QueueHasOwner'
    BY <2>1 DEF FlagHasOwner, QueueHasOwner
  <2>5. SentOnce' /\ StartsBefore'
    BY <2>1 DEF IInv, SentOnce, StartsBefore
  <2> QED
    BY <2>2, <2>3, <2>4, <2>5
<1>2. CASE jobQueue # <<>>
  <2> DEFINE n == Head(jobQueue)
  <2>1. /\ isProcessing' = isProcessing
        /\ place' = [p EXCEPT ![n] = "handler"]
        /\ starts' = [starts EXCEPT ![n] = @ + 1]
        /\ jobQueue' = Tail(jobQueue)
    BY <1>2 DEF HandleNext
  <2>2. /\ jobQueue \in Seq(Events) /\ n \in Events /\ n = jobQueue[1]
        /\ Len(jobQueue) \in Nat /\ Len(jobQueue) >= 1
    BY <1>2 DEF IInv, TypeOK
  <2>3. place[n] = "queued" /\ starts[n] <= crashes
    BY <2>2 DEF IInv, QueueIsExact, StartsBefore
  <2>4. /\ jobQueue' \in Seq(Events) /\ Len(jobQueue') = Len(jobQueue) - 1
        /\ \A i \in 1..Len(jobQueue') : jobQueue'[i] = jobQueue[i + 1]
    BY <1>2, <2>1, <2>2
  <2>5. place' \in [Events -> Places] /\ starts' \in [Events -> Nat]
    BY <2>1, <2>2 DEF IInv, TypeOK, Places
  <2>6. FlagHasOwner' /\ QueueHasOwner'
    <3>1. n \in Running'
      BY <2>1, <2>2 DEF Running
    <3>2. isProcessing'
      BY <1>2, <2>1 DEF IInv, QueueHasOwner
    <3> QED
      BY <3>1, <3>2 DEF FlagHasOwner, QueueHasOwner
  <2>7. QueueIsExact'
    <3>1. \A i \in 1..Len(jobQueue') : place'[jobQueue'[i]] = "queued"
      <4> SUFFICES ASSUME NEW i \in 1..Len(jobQueue')
                   PROVE  place'[jobQueue'[i]] = "queued"
        OBVIOUS
      <4>1. i + 1 \in 1..Len(jobQueue) /\ i + 1 # 1 /\ jobQueue'[i] = jobQueue[i + 1]
        BY <2>2, <2>4
      <4>2. place[jobQueue[i + 1]] = "queued" /\ jobQueue[i + 1] # n
        BY <2>2, <4>1 DEF IInv, QueueIsExact
      <4>3. jobQueue[i + 1] \in Events
        BY <2>2, <4>1
      <4> QED
        BY <2>1, <4>1, <4>2, <4>3
    <3>2. ASSUME NEW e \in Events, place'[e] = "queued"
          PROVE  \E i \in 1..Len(jobQueue') : jobQueue'[i] = e
      <4>1. e # n /\ place[e] = "queued"
        BY <2>1, <2>2, <3>2
      <4>2. PICK k \in 1..Len(jobQueue) : jobQueue[k] = e
        BY <4>1 DEF IInv, QueueIsExact
      <4>3. k # 1
        BY <2>2, <4>1, <4>2
      <4>4. k - 1 \in 1..Len(jobQueue') /\ jobQueue'[k - 1] = e
        BY <2>2, <2>4, <4>2, <4>3
      <4> QED
        BY <4>4
    <3>3. ASSUME NEW i \in 1..Len(jobQueue'), NEW j \in 1..Len(jobQueue'),
                 jobQueue'[i] = jobQueue'[j]
          PROVE  i = j
      <4>1. /\ i + 1 \in 1..Len(jobQueue) /\ j + 1 \in 1..Len(jobQueue)
            /\ jobQueue[i + 1] = jobQueue[j + 1]
        BY <2>2, <2>4, <3>3
      <4>2. i + 1 = j + 1
        BY <4>1 DEF IInv, QueueIsExact
      <4> QED
        BY <4>2
    <3> QED
      BY <3>1, <3>2, <3>3 DEF QueueIsExact
  <2>8. SentOnce' /\ StartsBefore'
    BY <2>1, <2>2, <2>3 DEF IInv, TypeOK, SentOnce, StartsBefore
  <2> QED
    BY <2>1, <2>4, <2>5, <2>6, <2>7, <2>8 DEF IInv, TypeOK
<1> QED
  BY <1>1, <1>2

-----------------------------------------------------------------------------
(* The steps, one lemma per action that disturbs the queue or a place.     *)

(* An event that is not in the in-memory queue may move anywhere else.     *)
LEMMA QueueUntouched ==
  ASSUME IInv, NEW e \in Events, NEW x \in Places, place[e] # "queued",
         x # "queued", place' = [place EXCEPT ![e] = x], jobQueue' = jobQueue
  PROVE  QueueIsExact'
<1>1. place \in [Events -> Places] /\ jobQueue \in Seq(Events)
  BY DEF IInv, TypeOK
<1>2. \A i \in 1..Len(jobQueue) : jobQueue[i] \in Events /\ jobQueue[i] # e
  BY <1>1 DEF IInv, QueueIsExact
<1> QED
  BY <1>1, <1>2 DEF IInv, QueueIsExact

LEMMA EmitKeeps ==
  ASSUME IInv, NEW e \in Events, Emit(e) PROVE IInv'
<1>1. place' = [place EXCEPT ![e] = "bull"] /\ place[e] = "absent"
  BY DEF Emit
<1>2. TypeOK'
  BY DEF IInv, TypeOK, Emit, Places
<1>3. QueueIsExact'
  BY <1>1, QueueUntouched DEF Emit, Places
<1>4. FlagHasOwner'
  BY <1>1 DEF IInv, TypeOK, FlagHasOwner, Running, Emit
<1>5. QueueHasOwner'
  BY DEF IInv, QueueHasOwner, Emit
<1>6. SentOnce' /\ StartsBefore'
  BY <1>1 DEF IInv, TypeOK, SentOnce, StartsBefore, Emit
<1> QED
  BY <1>2, <1>3, <1>4, <1>5, <1>6 DEF IInv

LEMMA AcceptKeeps ==
  ASSUME IInv, NEW e \in Events, Accept(e) PROVE IInv'
<1>1. place' = [place EXCEPT ![e] = "handler"] /\ place[e] = "bull"
  BY DEF Accept
<1>2. TypeOK'
  BY DEF IInv, TypeOK, Accept, Places
<1>3. QueueIsExact'
  BY <1>1, QueueUntouched DEF Accept, Places
<1>4. FlagHasOwner' /\ QueueHasOwner'
  BY <1>1 DEF IInv, TypeOK, FlagHasOwner, QueueHasOwner, Running, Accept
<1>5. SentOnce' /\ StartsBefore'
  BY <1>1 DEF IInv, TypeOK, SentOnce, StartsBefore, Accept
<1> QED
  BY <1>2, <1>3, <1>4, <1>5 DEF IInv

LEMMA PostponeKeeps ==
  ASSUME IInv, NEW e \in Events, Postpone(e) PROVE IInv'
<1>1. /\ place' = [place EXCEPT ![e] = "queued"] /\ place[e] = "bull"
      /\ jobQueue' = Append(jobQueue, e)
  BY DEF Postpone
<1>2. jobQueue \in Seq(Events) /\ place \in [Events -> Places]
  BY DEF IInv, TypeOK
<1>3. /\ jobQueue' \in Seq(Events) /\ Len(jobQueue') = Len(jobQueue) + 1
      /\ \A i \in 1..Len(jobQueue) : jobQueue'[i] = jobQueue[i]
      /\ jobQueue'[Len(jobQueue) + 1] = e /\ Len(jobQueue) \in Nat
  BY <1>1, <1>2
<1>4. \A i \in 1..Len(jobQueue) :
        jobQueue[i] # e /\ jobQueue[i] \in Events /\ place[jobQueue[i]] = "queued"
  BY <1>1, <1>2 DEF IInv, QueueIsExact
<1>5. TypeOK'
  BY <1>1, <1>3 DEF IInv, TypeOK, Postpone, Places
<1>6. QueueIsExact'
  <2>1. \A i \in 1..Len(jobQueue') :
          i \in 1..Len(jobQueue) \/ (i = Len(jobQueue) + 1 /\ jobQueue'[i] = e)
    BY <1>3
  <2>2. \A i \in 1..Len(jobQueue') : place'[jobQueue'[i]] = "queued"
    BY <1>1, <1>2, <1>3, <1>4, <2>1
  <2>3. ASSUME NEW f \in Events, place'[f] = "queued"
        PROVE  \E i \in 1..Len(jobQueue') : jobQueue'[i] = f
    <3>1. CASE f = e
      <4>1. Len(jobQueue) + 1 \in 1..Len(jobQueue')
        BY <1>3
      <4> QED
        BY <1>3, <3>1, <4>1
    <3>2. CASE f # e
      <4>1. place[f] = "queued"
        BY <1>1, <1>2, <2>3, <3>2
      <4>2. PICK i \in 1..Len(jobQueue) : jobQueue[i] = f
        BY <4>1 DEF IInv, QueueIsExact
      <4>3. i \in 1..Len(jobQueue') /\ jobQueue'[i] = f
        BY <1>3, <4>2
      <4> QED
        BY <4>3
    <3> QED
      BY <3>1, <3>2
  <2>4. \A i, j \in 1..Len(jobQueue') : jobQueue'[i] = jobQueue'[j] => i = j
    BY <1>3, <1>4, <2>1 DEF IInv, QueueIsExact
  <2> QED
    BY <2>2, <2>3, <2>4 DEF QueueIsExact
<1>7. FlagHasOwner' /\ QueueHasOwner'
  BY <1>1 DEF IInv, TypeOK, FlagHasOwner, QueueHasOwner, Running, Postpone
<1>8. SentOnce' /\ StartsBefore'
  BY <1>1 DEF IInv, TypeOK, SentOnce, StartsBefore, Postpone
<1> QED
  BY <1>5, <1>6, <1>7, <1>8 DEF IInv

LEMMA ReturnKeeps ==
  ASSUME IInv, NEW e \in Events, NEW ok \in BOOLEAN,
         ReturnCalling(e, ok) \/ ReturnPlain(e, ok)
  PROVE  IInv'
<1>1. CASE ReturnCalling(e, ok)
  <2> DEFINE p == [place EXCEPT ![e] = "wrapper"]
  <2>1. /\ p \in [Events -> Places] /\ HandleNext(p) /\ place[e] = "handler"
        /\ \A f \in Events : f # e => p[f] = place[f]
        /\ p[e] = "wrapper" /\ UNCHANGED <<slot, members, crashes>>
    BY <1>1 DEF IInv, TypeOK, ReturnCalling, Places
  <2> HIDE DEF p
  <2> QED
    BY <2>1, HandleNextKeeps DEF IInv, TypeOK
<1>2. CASE ReturnPlain(e, ok)
  <2>1. place' = [place EXCEPT ![e] = "wrapper"] /\ place[e] = "handler"
    BY <1>2 DEF ReturnPlain
  <2>2. members' \in [Events -> 0..MaxMembers]
    BY <1>2 DEF IInv, TypeOK, ReturnPlain
  <2>3. TypeOK'
    BY <1>2, <2>1, <2>2 DEF IInv, TypeOK, ReturnPlain, Places
  <2>4. QueueIsExact'
    BY <1>2, <2>1, QueueUntouched DEF ReturnPlain, Places
  <2>5. FlagHasOwner' /\ QueueHasOwner'
    BY <1>2, <2>1
       DEF IInv, TypeOK, FlagHasOwner, QueueHasOwner, Running, ReturnPlain
  <2>6. SentOnce' /\ StartsBefore'
    BY <1>2, <2>1 DEF IInv, TypeOK, SentOnce, StartsBefore, ReturnPlain
  <2> QED
    BY <2>3, <2>4, <2>5, <2>6 DEF IInv
<1> QED
  BY <1>1, <1>2

LEMMA FinishKeeps ==
  ASSUME IInv, NEW e \in Events, Finish(e) PROVE IInv'
<1> DEFINE p == [place EXCEPT ![e] = "done"]
<1>1. /\ p \in [Events -> Places] /\ HandleNext(p) /\ place[e] = "wrapper"
      /\ \A f \in Events : f # e => p[f] = place[f]
      /\ p[e] = "done" /\ UNCHANGED <<members, crashes>>
      /\ slot' \subseteq Events
  BY DEF IInv, TypeOK, Finish, Places
<1> HIDE DEF p
<1> QED
  BY <1>1, HandleNextKeeps DEF IInv, TypeOK

LEMMA MemberKeeps ==
  ASSUME IInv, NEW e \in Events, MemberStep(e) PROVE IInv'
<1>1. members' \in [Events -> 0..MaxMembers]
  <2>1. members[e] > 0 /\ members' = [members EXCEPT ![e] = @ - 1]
    BY DEF MemberStep, MemberDone, MemberThrows
  <2>2. members \in [Events -> 0..MaxMembers]
    BY DEF IInv, TypeOK
  <2>3. members[e] - 1 \in 0..MaxMembers
    BY <2>1, <2>2, QueueAssumption
  <2> QED
    BY <2>1, <2>2, <2>3
<1>2. CASE MemberDone(e)
  <2>1. /\ HandleNext(place) /\ place \in [Events -> Places]
        /\ UNCHANGED <<slot, crashes>>
    BY <1>2 DEF MemberDone, IInv, TypeOK
  <2> QED
    BY <1>1, <2>1, HandleNextKeeps DEF IInv, TypeOK
<1>3. CASE MemberThrows(e)
  BY <1>1, <1>3 DEF MemberThrows, IInv, TypeOK, FlagHasOwner, Running,
     QueueHasOwner, QueueIsExact, SentOnce, StartsBefore
<1> QED
  BY <1>2, <1>3 DEF MemberStep

LEMMA CrashKeeps == ASSUME IInv, Crash PROVE IInv'
<1>1. PICK retried \in SUBSET slot :
        place' = [e \in Events |->
          IF e \in retried THEN "bull"
          ELSE IF place[e] \in {"queued", "handler", "wrapper"} THEN "lost"
          ELSE place[e]]
  BY DEF Crash
<1>2. /\ place' \in [Events -> Places]
      /\ \A e \in Events : place'[e] # "queued"
  BY <1>1 DEF IInv, TypeOK, Places
<1>3. jobQueue' = <<>> /\ jobQueue' \in Seq(Events) /\ isProcessing' = FALSE
      /\ starts' = starts /\ crashes' = crashes + 1
  BY DEF Crash
<1>4. TypeOK'
  <2>1. members' \in [Events -> 0..MaxMembers] /\ slot' \subseteq Events
    BY QueueAssumption DEF Crash
  <2>2. crashes' \in 0..MaxCrashes
    BY QueueAssumption DEF Crash, IInv, TypeOK
  <2> QED
    BY <1>2, <1>3, <2>1, <2>2 DEF IInv, TypeOK
<1>5. QueueIsExact'
  BY <1>2, <1>3 DEF QueueIsExact
<1>6. FlagHasOwner' /\ QueueHasOwner'
  BY <1>3 DEF FlagHasOwner, QueueHasOwner
<1>7. SentOnce' /\ StartsBefore'
  <2>1. crashes \in Nat /\ \A e \in Events : starts[e] \in Nat
    BY QueueAssumption DEF IInv, TypeOK
  <2> QED
    BY <1>3, <2>1 DEF IInv, SentOnce, StartsBefore
<1> QED
  BY <1>4, <1>5, <1>6, <1>7 DEF IInv

LEMMA NextIInv == IInv /\ [Next]_vars => IInv'
<1> SUFFICES ASSUME IInv, [Next]_vars PROVE IInv'
  OBVIOUS
<1>1. ASSUME NEW e \in Events, Emit(e) PROVE IInv'
  BY <1>1, EmitKeeps
<1>2. ASSUME NEW e \in Events, EventStep(e) PROVE IInv'
  BY <1>2, AcceptKeeps, PostponeKeeps, ReturnKeeps, FinishKeeps DEF EventStep
<1>3. ASSUME NEW e \in Events, MemberStep(e) PROVE IInv'
  BY <1>3, MemberKeeps
<1>4. CASE Crash
  BY <1>4, CrashKeeps
<1>5. CASE UNCHANGED vars
  BY <1>5 DEF vars, IInv, TypeOK, FlagHasOwner, Running, QueueHasOwner,
              QueueIsExact, SentOnce, StartsBefore
<1> QED
  BY <1>1, <1>2, <1>3, <1>4, <1>5 DEF Next

-----------------------------------------------------------------------------
(* The inductive invariant: besides the properties themselves, an event    *)
(* not yet started was started only before a restart.                      *)
THEOREM Invariant == Spec => []IInv
BY InitIInv, NextIInv, PTL DEF Spec

(* Every variable of the worker always has its type.                       *)
THEOREM TypeCorrect == Spec => []TypeOK
<1>1. IInv => TypeOK
  BY DEF IInv
<1> QED
  BY <1>1, Invariant, PTL

(* While isProcessing is set, a running event will clear it, however many  *)
(* calls of handleNext interleave.                                         *)
THEOREM FlagNeverStranded == Spec => []FlagHasOwner
<1>1. IInv => FlagHasOwner
  BY DEF IInv
<1> QED
  BY <1>1, Invariant, PTL

(* Events wait in memory only while somebody will take them.               *)
THEOREM QueueNeverStranded == Spec => []QueueHasOwner
<1>1. IInv => QueueHasOwner
  BY DEF IInv
<1> QED
  BY <1>1, Invariant, PTL

(* No call of handleNext drops or doubles a postponed event.               *)
THEOREM QueueHoldsPostponed == Spec => []QueueIsExact
<1>1. IInv => QueueIsExact
  BY DEF IInv
<1> QED
  BY <1>1, Invariant, PTL

(* Every event is sent at most once between two restarts.                  *)
THEOREM SendsOnce == Spec => []SentOnce
<1>1. IInv => SentOnce
  BY DEF IInv
<1> QED
  BY <1>1, Invariant, PTL

-----------------------------------------------------------------------------
(* Notifications as people read them, which Notifications adds.             *)

Notice ==
  [type: {"user", "department", "broadcast"}, users: SUBSET Users,
   department: Notices!AllDepartments \cup {None}]

\* Whom a notification is for.
IsFor(a, u) ==
  \/ a.type = "broadcast"
  \/ a.type = "department" /\ a.department = DepartmentOf[u]
  \/ a.type = "user" /\ u \in a.users

Numbers == 1..Len(sent)

NoticesTyped ==
  /\ sent \in Seq(Notice)
  /\ halfway \subseteq Numbers /\ removed \subseteq Numbers
  /\ unread \subseteq Users \X Numbers /\ read \subseteq Users \X Numbers
  /\ reading \in [Readers -> [user: Users \cup {None}, step: {"free", "marking"}, all: BOOLEAN,
                              todo: SUBSET Numbers, failed: BOOLEAN]]
  /\ before \in [Readers -> SUBSET Numbers]
  /\ \A k \in Readers : reading[k].todo # {} => reading[k].user \in Users

\* A notification whose rows are still to be written has none, and nobody is marking it.
HalfwayHasNoRows ==
  \A n \in halfway :
    /\ sent[n].type = "user"
    /\ \A u \in Users : <<u, n>> \notin unread \cup read
    /\ \A k \in Readers : n \notin reading[k].todo

\* The users a notification is for have their rows.
UsersHaveRows ==
  \A n \in Numbers \ (removed \cup halfway) :
    sent[n].type = "user" => \A u \in sent[n].users : <<u, n>> \in unread \cup read

RowsAreRight ==
  /\ \A u \in Users, n \in Numbers :
       <<u, n>> \in unread \cup read => n \notin removed /\ IsFor(sent[n], u)
  /\ unread \cap read = {}

\* What is being marked is for who marks it.
MarkedIsRight ==
  \A k \in Readers : \A n \in reading[k].todo \ removed : IsFor(sent[n], reading[k].user)

ReadsAll(k) == reading[k].step = "marking" /\ reading[k].all = TRUE /\ reading[k].failed = FALSE

\* What was unread when a request began is still to be marked by it, or is read.
UnreadIsMarked ==
  \A k \in Readers : ReadsAll(k) =>
    \A n \in before[k] \ removed : n \in reading[k].todo \/ <<reading[k].user, n>> \in read

NInv ==
  /\ NoticesTyped /\ HalfwayHasNoRows /\ UsersHaveRows
  /\ RowsAreRight /\ MarkedIsRight /\ UnreadIsMarked

LEMMA NoticesInit == Notices!Init => NInv
<1> SUFFICES ASSUME Notices!Init PROVE NInv
  OBVIOUS
<1>1. sent \in Seq(Notice) /\ Len(sent) = 0 /\ Numbers = {}
  BY DEF Notices!Init, Numbers
<1> QED
  BY <1>1 DEF Notices!Init, NInv, NoticesTyped, HalfwayHasNoRows, UsersHaveRows, RowsAreRight,
     MarkedIsRight, UnreadIsMarked, ReadsAll

\* A notification is written, with its rows or without.
LEMMA Grows ==
  ASSUME NInv, NEW a \in Notice, NEW rows \in BOOLEAN, sent' = Append(sent, a),
         unread' = IF rows THEN unread \cup (a.users \X {Len(sent')}) ELSE unread,
         halfway' = IF rows \/ a.type # "user" THEN halfway ELSE halfway \cup {Len(sent')},
         rows => a.type = "user",
         UNCHANGED <<removed, read, reading, before>>
  PROVE  NInv'
<1>1. PICK m \in Nat : m = Len(sent)
  BY DEF NInv, NoticesTyped
<1>2. /\ sent' \in Seq(Notice) /\ Len(sent') = m + 1 /\ sent'[m + 1] = a
      /\ \A n \in 1..m : sent'[n] = sent[n]
  BY <1>1, AppendProperties DEF NInv, NoticesTyped
<1>3. Numbers = 1..m /\ Numbers' = 1..m + 1 /\ m + 1 \notin 1..m
  BY <1>1, <1>2 DEF Numbers
<1>4. \A n \in 1..m + 1 : n \in 1..m \/ n = m + 1
  OBVIOUS
<1>5. a.users \subseteq Users
  BY DEF Notice
<1>6. NoticesTyped'
  <2>1. unread' \subseteq Users \X (1..m + 1) /\ halfway' \subseteq 1..m + 1
    BY <1>2, <1>3, <1>5 DEF NInv, NoticesTyped
  <2> QED
    BY <1>2, <1>3, <2>1 DEF NInv, NoticesTyped
<1>7. \A u : <<u, m + 1>> \notin unread \cup read
  BY <1>3 DEF NInv, NoticesTyped
<1>8. HalfwayHasNoRows'
  <2> SUFFICES ASSUME NEW n \in halfway'
               PROVE  /\ sent'[n].type = "user"
                      /\ \A u \in Users : <<u, n>> \notin unread' \cup read'
                      /\ \A k \in Readers : n \notin reading'[k].todo
    BY DEF HalfwayHasNoRows
  <2>1. CASE n \in halfway
    <3>1. n \in 1..m /\ n # m + 1
      BY <1>3, <2>1 DEF NInv, NoticesTyped
    <3> QED
      BY <1>2, <2>1, <3>1 DEF NInv, HalfwayHasNoRows
  <2>2. CASE n = m + 1 /\ a.type = "user" /\ ~rows
    <3>1. \A k \in Readers : n \notin reading[k].todo
      BY <1>3, <2>2 DEF NInv, NoticesTyped
    <3> QED
      BY <1>2, <1>7, <2>2, <3>1
  <2> QED
    BY <1>2, <2>1, <2>2
<1>9. UsersHaveRows'
  <2> SUFFICES ASSUME NEW n \in 1..m + 1, n \notin removed, n \notin halfway',
                      sent'[n].type = "user", NEW u \in sent'[n].users
               PROVE  <<u, n>> \in unread' \cup read
    BY <1>3 DEF UsersHaveRows
  <2>1. CASE n \in 1..m
    BY <1>2, <1>3, <2>1 DEF NInv, UsersHaveRows
  <2>2. CASE n = m + 1
    BY <1>2, <2>2
  <2> QED
    BY <1>4, <2>1, <2>2
<1>10. RowsAreRight'
  <2>1. ASSUME NEW u \in Users, NEW n \in 1..m + 1, <<u, n>> \in unread' \cup read
        PROVE  n \notin removed /\ IsFor(sent'[n], u)
    <3>1. CASE n \in 1..m
      <4>1. <<u, n>> \in unread \cup read
        BY <1>2, <1>3, <2>1, <3>1
      <4> QED
        BY <1>2, <1>3, <3>1, <4>1 DEF NInv, RowsAreRight
    <3>2. CASE n = m + 1
      <4>1. rows /\ u \in a.users
        BY <1>2, <1>7, <2>1, <3>2
      <4>2. n \notin removed
        BY <1>3, <3>2 DEF NInv, NoticesTyped
      <4> QED
        BY <1>2, <3>2, <4>1, <4>2 DEF IsFor
    <3> QED
      BY <1>4, <3>1, <3>2
  <2>2. unread' \cap read = {}
    BY <1>2, <1>7 DEF NInv, RowsAreRight
  <2> QED
    BY <1>3, <2>1, <2>2 DEF RowsAreRight
<1>11. MarkedIsRight' /\ UnreadIsMarked'
  <2>1. \A k \in Readers : reading[k].todo \subseteq 1..m
    BY <1>3 DEF NInv, NoticesTyped
  <2>2. MarkedIsRight'
    BY <1>2, <2>1 DEF NInv, MarkedIsRight
  <2>3. UnreadIsMarked'
    BY DEF NInv, UnreadIsMarked, ReadsAll
  <2> QED
    BY <2>2, <2>3
<1> QED
  BY <1>6, <1>8, <1>9, <1>10, <1>11 DEF NInv

LEMMA CreateNotice ==
  ASSUME NInv, Notices!create \/ \E users \in SUBSET Users \ {{}} : Notices!Notify(users)
  PROVE  NInv'
<1>1. PICK a \in Notice, rows \in BOOLEAN :
        /\ sent' = Append(sent, a) /\ (rows => a.type = "user")
        /\ unread' = IF rows THEN unread \cup (a.users \X {Len(sent')}) ELSE unread
        /\ halfway' = IF rows \/ a.type # "user" THEN halfway ELSE halfway \cup {Len(sent')}
  <2>1. CASE Notices!create
    <3>1. CASE Notices!Write(Notices!Announced("broadcast", {}, None)) /\ UNCHANGED halfway
      <4>1. Notices!Announced("broadcast", {}, None) \in Notice
        BY DEF Notices!Announced, Notice
      <4>2. Notices!Announced("broadcast", {}, None).type = "broadcast"
        BY DEF Notices!Announced
      <4> QED
        BY <2>1, <3>1, <4>1, <4>2 DEF Notices!create, Notices!Write
    <3>2. ASSUME NEW d \in Notices!AllDepartments,
                 Notices!Write(Notices!Announced("department", {}, d)), UNCHANGED halfway
          PROVE  \E a \in Notice, rows \in BOOLEAN :
                   /\ sent' = Append(sent, a) /\ (rows => a.type = "user")
                   /\ unread' = IF rows THEN unread \cup (a.users \X {Len(sent')}) ELSE unread
                   /\ halfway' = IF rows \/ a.type # "user" THEN halfway
                                 ELSE halfway \cup {Len(sent')}
      <4>1. Notices!Announced("department", {}, d) \in Notice
        BY DEF Notices!Announced, Notice
      <4>2. Notices!Announced("department", {}, d).type = "department"
        BY DEF Notices!Announced
      <4> QED
        BY <2>1, <3>2, <4>1, <4>2 DEF Notices!create, Notices!Write
    <3>3. ASSUME NEW users \in SUBSET Users,
                 Notices!Write(Notices!Announced("user", users, None)),
                 halfway' = halfway \cup {Len(sent')}
          PROVE  \E a \in Notice, rows \in BOOLEAN :
                   /\ sent' = Append(sent, a) /\ (rows => a.type = "user")
                   /\ unread' = IF rows THEN unread \cup (a.users \X {Len(sent')}) ELSE unread
                   /\ halfway' = IF rows \/ a.type # "user" THEN halfway
                                 ELSE halfway \cup {Len(sent')}
      <4>1. Notices!Announced("user", users, None) \in Notice
        BY DEF Notices!Announced, Notice
      <4>2. Notices!Announced("user", users, None).type = "user"
        BY DEF Notices!Announced
      <4> QED
        BY <2>1, <3>3, <4>1, <4>2 DEF Notices!create, Notices!Write
    <3> QED
      BY <2>1, <3>1, <3>2, <3>3 DEF Notices!create
  <2>2. ASSUME NEW users \in SUBSET Users, Notices!Notify(users)
        PROVE  \E a \in Notice, rows \in BOOLEAN :
                 /\ sent' = Append(sent, a) /\ (rows => a.type = "user")
                 /\ unread' = IF rows THEN unread \cup (a.users \X {Len(sent')}) ELSE unread
                 /\ halfway' = IF rows \/ a.type # "user" THEN halfway
                               ELSE halfway \cup {Len(sent')}
    <3>1. Notices!Announced("user", users, None) \in Notice
      BY DEF Notices!Announced, Notice
    <3>2. /\ Notices!Announced("user", users, None).type = "user"
          /\ Notices!Announced("user", users, None).users = users
      BY DEF Notices!Announced
    <3> QED
      BY <2>2, <3>1, <3>2 DEF Notices!Notify, Notices!Write
  <2> QED
    BY <2>1, <2>2
<1>2. UNCHANGED <<removed, read, reading, before>>
  BY DEF Notices!create, Notices!Notify
<1> QED
  BY <1>1, <1>2, Grows

LEMMA SubscribeStep ==
  ASSUME NInv, NEW n \in Notices!Notifications, Notices!Subscribe(n) PROVE NInv'
<1>1. /\ n \in halfway /\ n \in Numbers /\ n \notin removed
      /\ halfway' = halfway \ {n} /\ unread' = unread \cup (sent[n].users \X {n})
      /\ UNCHANGED <<sent, removed, read, reading, before>>
  BY DEF Notices!Subscribe, Notices!There, Numbers
<1>2. sent[n] \in Notice /\ sent[n].users \subseteq Users /\ sent[n].type = "user"
  <2>1. sent[n] \in Notice
    BY <1>1 DEF NInv, NoticesTyped, Numbers
  <2> QED
    BY <1>1, <2>1 DEF NInv, HalfwayHasNoRows, Notice
<1>3. \A u \in Users : <<u, n>> \notin unread \cup read
  BY <1>1 DEF NInv, HalfwayHasNoRows
<1>4. Numbers' = Numbers
  BY <1>1 DEF Numbers
<1>5. NoticesTyped'
  BY <1>1, <1>2, <1>4 DEF NInv, NoticesTyped
<1>6. HalfwayHasNoRows'
  BY <1>1 DEF NInv, HalfwayHasNoRows
<1>7. UsersHaveRows'
  BY <1>1, <1>4 DEF NInv, UsersHaveRows
<1>8. RowsAreRight'
  BY <1>1, <1>2, <1>3, <1>4 DEF NInv, RowsAreRight, IsFor
<1>9. MarkedIsRight' /\ UnreadIsMarked'
  BY <1>1 DEF NInv, MarkedIsRight, UnreadIsMarked, ReadsAll
<1> QED
  BY <1>5, <1>6, <1>7, <1>8, <1>9 DEF NInv

LEMMA SubscribeFailsStep ==
  ASSUME NInv, NEW n \in Notices!Notifications, Notices!SubscribeFails(n) PROVE NInv'
<1>1. /\ n \in halfway /\ n \in Numbers /\ halfway' = halfway \ {n}
      /\ sent' = [sent EXCEPT ![n].users = {}]
      /\ UNCHANGED <<removed, unread, read, reading, before>>
  BY DEF Notices!SubscribeFails, NInv, NoticesTyped
<1>2. PICK a \in Notice : a = [sent[n] EXCEPT !.users = {}]
  <2>1. sent[n] \in Notice
    BY <1>1 DEF NInv, NoticesTyped, Numbers
  <2> QED
    BY <2>1 DEF Notice
<1>3. a.type = "user" /\ a.users = {}
  <2>1. sent[n] \in Notice /\ sent[n].type = "user"
    BY <1>1 DEF NInv, NoticesTyped, Numbers, HalfwayHasNoRows
  <2> QED
    BY <1>2, <2>1 DEF Notice
<1>4. /\ sent' \in Seq(Notice) /\ Numbers' = Numbers
      /\ \A i \in Numbers : sent'[i] = IF i = n THEN a ELSE sent[i]
  <2>1. sent' = [sent EXCEPT ![n] = a]
    BY <1>1, <1>2
  <2>2. sent \in Seq(Notice) /\ n \in 1..Len(sent) /\ DOMAIN sent = 1..Len(sent)
    BY <1>1 DEF NInv, NoticesTyped, Numbers
  <2>3. sent' \in Seq(Notice) /\ Len(sent') = Len(sent)
    BY <2>1, <2>2, ExceptSeq, Zenon
  <2> QED
    BY <2>1, <2>2, <2>3 DEF Numbers
<1>5. \A u \in Users : <<u, n>> \notin unread \cup read
  BY <1>1 DEF NInv, HalfwayHasNoRows
<1>6. \A k \in Readers : n \notin reading[k].todo
  BY <1>1 DEF NInv, HalfwayHasNoRows
<1>7. NoticesTyped'
  BY <1>1, <1>4 DEF NInv, NoticesTyped
<1>8. HalfwayHasNoRows'
  BY <1>1, <1>4, <1>7 DEF NInv, HalfwayHasNoRows, NoticesTyped
<1>9. UsersHaveRows'
  BY <1>1, <1>3, <1>4 DEF NInv, UsersHaveRows
<1>10. RowsAreRight'
  BY <1>1, <1>4, <1>5 DEF NInv, RowsAreRight
<1>11. MarkedIsRight' /\ UnreadIsMarked'
  <2>1. \A k \in Readers : reading[k].todo \subseteq Numbers
    BY DEF NInv, NoticesTyped
  <2> QED
    BY <1>1, <1>4, <1>6, <2>1 DEF NInv, MarkedIsRight, UnreadIsMarked, ReadsAll
<1> QED
  BY <1>7, <1>8, <1>9, <1>10, <1>11 DEF NInv

LEMMA RemoveNotice ==
  ASSUME NInv, NEW n \in Notices!Notifications, Notices!remove(n) PROVE NInv'
<1>1. /\ n \in Numbers /\ removed' = removed \cup {n}
      /\ unread' = {row \in unread : row[2] # n} /\ read' = {row \in read : row[2] # n}
      /\ UNCHANGED <<sent, halfway, reading, before>>
  BY DEF Notices!remove, Notices!There, Numbers
<1>2. Numbers' = Numbers
  BY <1>1 DEF Numbers
<1>3. \A u, i : (<<u, i>> \in unread' <=> <<u, i>> \in unread /\ i # n)
             /\ (<<u, i>> \in read' <=> <<u, i>> \in read /\ i # n)
  BY <1>1
<1>4. NoticesTyped'
  BY <1>1, <1>2 DEF NInv, NoticesTyped
<1>5. HalfwayHasNoRows'
  BY <1>1, <1>3 DEF NInv, HalfwayHasNoRows
<1>6. UsersHaveRows'
  BY <1>1, <1>2, <1>3 DEF NInv, UsersHaveRows
<1>7. RowsAreRight'
  <2>1. unread' \cap read' = {}
    BY <1>1 DEF NInv, RowsAreRight
  <2> QED
    BY <1>1, <1>2, <1>3, <2>1 DEF NInv, RowsAreRight
<1>8. MarkedIsRight' /\ UnreadIsMarked'
  BY <1>1, <1>3 DEF NInv, MarkedIsRight, UnreadIsMarked, ReadsAll
<1> QED
  BY <1>4, <1>5, <1>6, <1>7, <1>8 DEF NInv

\* What there is for a user was written for them, and is not halfway.
LEMMA ReadableIsRight ==
  ASSUME NInv, NEW u \in Users, NEW n \in Numbers \ removed,
         Notices!HasRow(u, n) \/ Notices!ForAll(n) \/ Notices!ForDepartment(u, n)
  PROVE  IsFor(sent[n], u) /\ n \notin halfway
  BY DEF NInv, RowsAreRight, HalfwayHasNoRows, IsFor, Notices!HasRow, Notices!ForAll,
     Notices!ForDepartment

LEMMA BeginReading ==
  ASSUME NInv, NEW k \in Readers, NEW u \in Users, NEW all \in BOOLEAN, NEW some,
         Notices!Begin(k, u, all, some), some \subseteq Numbers \ removed,
         \A n \in some : IsFor(sent[n], u) /\ n \notin halfway,
         all => Notices!UnreadOnly(u) \subseteq some
  PROVE  NInv'
<1>1. /\ reading[k].step = "free"
      /\ reading' = [reading EXCEPT ![k].user = u, ![k].step = "marking", ![k].all = all,
                               ![k].todo = some]
      /\ before' = [before EXCEPT ![k] = Notices!UnreadOnly(u)]
      /\ UNCHANGED <<sent, halfway, removed, unread, read>>
  BY DEF Notices!Begin
<1>2. Numbers' = Numbers
  BY <1>1 DEF Numbers
<1>3. /\ reading'[k].user = u /\ reading'[k].todo = some /\ reading'[k].all = all
      /\ before'[k] = Notices!UnreadOnly(u)
      /\ \A j \in Readers \ {k} : reading'[j] = reading[j] /\ before'[j] = before[j]
  BY <1>1 DEF NInv, NoticesTyped
<1>4. Notices!UnreadOnly(u) \subseteq Numbers
  BY DEF Notices!UnreadOnly, Notices!There, Numbers
<1>5. NoticesTyped'
  <2>1. reading' \in [Readers -> [user: Users \cup {None}, step: {"free", "marking"}, all: BOOLEAN,
                                  todo: SUBSET Numbers, failed: BOOLEAN]]
    BY <1>1 DEF NInv, NoticesTyped
  <2>2. before' \in [Readers -> SUBSET Numbers]
    BY <1>1, <1>4 DEF NInv, NoticesTyped
  <2>3. \A j \in Readers : reading'[j].todo # {} => reading'[j].user \in Users
    BY <1>3 DEF NInv, NoticesTyped
  <2> QED
    BY <1>1, <1>2, <2>1, <2>2, <2>3 DEF NInv, NoticesTyped
<1>6. HalfwayHasNoRows'
  BY <1>1, <1>3 DEF NInv, HalfwayHasNoRows
<1>7. UsersHaveRows' /\ RowsAreRight'
  BY <1>1, <1>2 DEF NInv, UsersHaveRows, RowsAreRight
<1>8. MarkedIsRight'
  BY <1>1, <1>3 DEF NInv, MarkedIsRight
<1>9. UnreadIsMarked'
  <2> SUFFICES ASSUME NEW j \in Readers, ReadsAll(j)', NEW n \in before'[j] \ removed'
               PROVE  n \in reading'[j].todo \/ <<reading'[j].user, n>> \in read'
    BY DEF UnreadIsMarked
  <2>1. CASE j = k
    BY <1>3, <2>1 DEF ReadsAll
  <2>2. CASE j # k
    <3>1. ReadsAll(j)
      BY <1>3, <2>2, Zenon DEF ReadsAll
    <3>2. n \in before[j] \ removed
      BY <1>1, <1>3, <2>2
    <3>3. n \in reading[j].todo \/ <<reading[j].user, n>> \in read
      BY <3>1, <3>2 DEF NInv, UnreadIsMarked
    <3>4. reading'[j].todo = reading[j].todo /\ reading'[j].user = reading[j].user
      BY <1>3, <2>2, Zenon
    <3>5. read' = read
      BY <1>1
    <3> QED
      BY <3>3, <3>4, <3>5
  <2> QED
    BY <2>1, <2>2
<1> QED
  BY <1>5, <1>6, <1>7, <1>8, <1>9 DEF NInv

LEMMA ReadStep ==
  ASSUME NInv, NEW k \in Readers, NEW u \in Users,
         \/ Notices!readAllNotification(k, u)
         \/ \E n \in Notices!Notifications : Notices!readNotification(k, u, n)
  PROVE  NInv'
<1>1. Notices!There = Numbers \ removed
  BY DEF Notices!There, Numbers
<1>2. CASE Notices!readAllNotification(k, u)
  <2>1. Notices!Begin(k, u, TRUE, Notices!AllFor(u))
    BY <1>2 DEF Notices!readAllNotification
  <2>2. Notices!UnreadOnly(u) \subseteq Notices!AllFor(u)
    BY DEF Notices!UnreadOnly, Notices!AllFor, Notices!HasRow
  <2>3. Notices!AllFor(u) \subseteq Numbers \ removed
    BY <1>1 DEF Notices!AllFor
  <2>4. \A n \in Notices!AllFor(u) : IsFor(sent[n], u) /\ n \notin halfway
    BY <1>1, ReadableIsRight DEF Notices!AllFor
  <2> QED
    BY <2>1, <2>2, <2>3, <2>4, BeginReading
<1>3. ASSUME NEW n \in Notices!Notifications, Notices!readNotification(k, u, n) PROVE NInv'
  <2>1. Notices!Begin(k, u, FALSE, {n}) /\ Notices!Readable(u, n)
    BY <1>3 DEF Notices!readNotification
  <2>2. n \in Numbers \ removed /\ IsFor(sent[n], u) /\ n \notin halfway
    BY <1>1, <2>1, ReadableIsRight DEF Notices!Readable
  <2> QED
    BY <2>1, <2>2, BeginReading
<1> QED
  BY <1>2, <1>3

LEMMA MarkNotice ==
  ASSUME NInv, NEW k \in Readers, NEW n \in Notices!Notifications, Notices!Mark(k, n) PROVE NInv'
<1> DEFINE u == reading[k].user
<1>1. /\ n \in reading[k].todo /\ n \in Numbers /\ n \notin removed
      /\ reading' = [reading EXCEPT ![k].todo = reading[k].todo \ {n}]
      /\ unread' = unread \ {<<u, n>>} /\ read' = read \cup {<<u, n>>}
      /\ UNCHANGED <<sent, halfway, removed, before>>
  BY DEF Notices!Mark, Notices!There, Numbers
<1>2. Numbers' = Numbers
  BY <1>1 DEF Numbers
<1>3. u \in Users /\ IsFor(sent[n], u) /\ n \notin halfway
  BY <1>1 DEF NInv, NoticesTyped, MarkedIsRight, HalfwayHasNoRows
<1>4. /\ reading'[k].todo = reading[k].todo \ {n}
      /\ \A j \in Readers : /\ reading'[j].user = reading[j].user
                            /\ reading'[j].step = reading[j].step
                            /\ reading'[j].all = reading[j].all
                            /\ reading'[j].failed = reading[j].failed
      /\ \A j \in Readers \ {k} : reading'[j].todo = reading[j].todo
  BY <1>1 DEF NInv, NoticesTyped
<1>5. NoticesTyped'
  <2>1. reading' \in [Readers -> [user: Users \cup {None}, step: {"free", "marking"}, all: BOOLEAN,
                                  todo: SUBSET Numbers, failed: BOOLEAN]]
    BY <1>1 DEF NInv, NoticesTyped
  <2>2. \A j \in Readers : reading'[j].todo # {} => reading'[j].user \in Users
    BY <1>3, <1>4 DEF NInv, NoticesTyped
  <2>3. unread' \subseteq Users \X Numbers /\ read' \subseteq Users \X Numbers
    BY <1>1, <1>3 DEF NInv, NoticesTyped
  <2> QED
    BY <1>1, <1>2, <2>1, <2>2, <2>3 DEF NInv, NoticesTyped
<1> HIDE DEF u
<1>6. HalfwayHasNoRows'
  <2>1. \A j \in Readers : reading'[j].todo \subseteq reading[j].todo
    BY <1>4
  <2> QED
    BY <1>1, <1>3, <2>1 DEF NInv, HalfwayHasNoRows
<1>7. UsersHaveRows'
  BY <1>1, <1>2 DEF NInv, UsersHaveRows
<1>8. RowsAreRight'
  BY <1>1, <1>2, <1>3 DEF NInv, RowsAreRight
<1>9. MarkedIsRight'
  <2>1. \A j \in Readers : reading'[j].todo \subseteq reading[j].todo
    BY <1>4
  <2> QED
    BY <1>1, <1>4, <2>1 DEF NInv, MarkedIsRight
<1>10. UnreadIsMarked'
  <2> SUFFICES ASSUME NEW j \in Readers, ReadsAll(j)', NEW i \in before'[j] \ removed'
               PROVE  i \in reading'[j].todo \/ <<reading'[j].user, i>> \in read'
    BY DEF UnreadIsMarked
  <2>1. i \in reading[j].todo \/ <<reading[j].user, i>> \in read
    BY <1>1, <1>4 DEF NInv, UnreadIsMarked, ReadsAll
  <2>2. CASE j = k /\ i = n
    BY <1>1, <1>4, <2>2 DEF u
  <2>3. CASE j # k \/ i # n
    BY <1>1, <1>4, <2>1, <2>3
  <2> QED
    BY <2>2, <2>3
<1> QED
  BY <1>5, <1>6, <1>7, <1>8, <1>9, <1>10 DEF NInv

LEMMA MarkNoticeFails ==
  ASSUME NInv, NEW k \in Readers, NEW n \in Notices!Notifications, Notices!MarkFails(k, n)
  PROVE  NInv'
<1>1. /\ reading' = [reading EXCEPT ![k].todo = reading[k].todo \ {n}, ![k].failed = TRUE]
      /\ UNCHANGED <<sent, halfway, removed, unread, read, before>>
  BY DEF Notices!MarkFails
<1>2. Numbers' = Numbers
  BY <1>1 DEF Numbers
<1>3. /\ reading'[k].failed = TRUE
      /\ \A j \in Readers : reading'[j].user = reading[j].user
                         /\ reading'[j].todo \subseteq reading[j].todo
      /\ \A j \in Readers \ {k} : reading'[j] = reading[j]
  BY <1>1 DEF NInv, NoticesTyped
<1>4. NoticesTyped'
  <2>1. reading' \in [Readers -> [user: Users \cup {None}, step: {"free", "marking"}, all: BOOLEAN,
                                  todo: SUBSET Numbers, failed: BOOLEAN]]
    <3> DEFINE Row == [user: Users \cup {None}, step: {"free", "marking"}, all: BOOLEAN,
                       todo: SUBSET Numbers, failed: BOOLEAN]
               row == [reading[k] EXCEPT !.todo = reading[k].todo \ {n}, !.failed = TRUE]
    <3>1. reading \in [Readers -> Row]
      BY DEF NInv, NoticesTyped
    <3>2. row \in Row
      BY <3>1
    <3>3. reading' = [reading EXCEPT ![k] = row]
      BY <1>1, <3>1
    <3> HIDE DEF Row, row
    <3>4. reading' \in [Readers -> Row]
      BY <3>1, <3>2, <3>3
    <3> QED
      BY <3>4 DEF Row
  <2>2. \A j \in Readers : reading'[j].todo # {} => reading'[j].user \in Users
    BY <1>3 DEF NInv, NoticesTyped
  <2> QED
    BY <1>1, <1>2, <2>1, <2>2 DEF NInv, NoticesTyped
<1>5. HalfwayHasNoRows' /\ MarkedIsRight'
  BY <1>1, <1>3 DEF NInv, HalfwayHasNoRows, MarkedIsRight
<1>6. UsersHaveRows' /\ RowsAreRight'
  BY <1>1, <1>2 DEF NInv, UsersHaveRows, RowsAreRight
<1>7. UnreadIsMarked'
  <2> SUFFICES ASSUME NEW j \in Readers, ReadsAll(j)', NEW i \in before'[j] \ removed'
               PROVE  i \in reading'[j].todo \/ <<reading'[j].user, i>> \in read'
    BY DEF UnreadIsMarked
  <2>1. j # k
    BY <1>3 DEF ReadsAll
  <2>2. ReadsAll(j)
    BY <1>3, <2>1, Zenon DEF ReadsAll
  <2>3. i \in before[j] \ removed
    BY <1>1
  <2>4. i \in reading[j].todo \/ <<reading[j].user, i>> \in read
    BY <2>2, <2>3 DEF NInv, UnreadIsMarked
  <2> QED
    <3>1. reading'[j].todo = reading[j].todo /\ reading'[j].user = reading[j].user
      BY <1>3, <2>1, Zenon
    <3>2. read' = read
      BY <1>1
    <3> QED
      BY <2>4, <3>1, <3>2
<1> QED
  BY <1>4, <1>5, <1>6, <1>7 DEF NInv

LEMMA NoticesNext == NInv /\ [Notices!Next]_(Notices!vars) => NInv'
<1> SUFFICES ASSUME NInv, [Notices!Next]_(Notices!vars) PROVE NInv'
  OBVIOUS
<1>1. CASE UNCHANGED Notices!vars
  BY <1>1 DEF Notices!vars, NInv, NoticesTyped, HalfwayHasNoRows, UsersHaveRows, RowsAreRight,
     MarkedIsRight, UnreadIsMarked, ReadsAll, Numbers
<1>2. CASE Notices!create \/ \E users \in SUBSET Users \ {{}} : Notices!Notify(users)
  BY <1>2, CreateNotice
<1>3. ASSUME NEW n \in Notices!Notifications,
             Notices!Subscribe(n) \/ Notices!SubscribeFails(n) \/ Notices!remove(n)
      PROVE  NInv'
  BY <1>3, SubscribeStep, SubscribeFailsStep, RemoveNotice
<1>4. ASSUME NEW k \in Readers, NEW u \in Users,
             \/ Notices!readAllNotification(k, u)
             \/ \E n \in Notices!Notifications : Notices!readNotification(k, u, n)
      PROVE  NInv'
  BY <1>4, ReadStep
<1>5. ASSUME NEW k \in Readers, NEW n \in Notices!Notifications,
             Notices!Mark(k, n) \/ Notices!MarkFails(k, n)
      PROVE  NInv'
  BY <1>5, MarkNotice, MarkNoticeFails
<1> QED
  BY <1>1, <1>2, <1>3, <1>4, <1>5 DEF Notices!Next

(* Who a notification is written for finds it unread, or has read it; has  *)
(* no row of another; and has nothing unread left after reading all, for   *)
(* any number of notifications, users and requests at once, whatever is    *)
(* removed meanwhile and whatever fails (create, findAll,                  *)
(* readAllNotification and remove of notification.service.ts).             *)
THEOREM NoticesReachTheirs ==
  Notices!Spec =>
    [](Notices!NobodyIsForgotten /\ Notices!OnlyForThose /\ Notices!ReadingAllClears)
<1>1. Notices!Init => NInv
  BY NoticesInit
<1>2. NInv /\ [Notices!Next]_(Notices!vars) => NInv'
  BY NoticesNext
<1>3. NInv => Notices!NobodyIsForgotten /\ Notices!OnlyForThose /\ Notices!ReadingAllClears
  <2> SUFFICES ASSUME NInv
               PROVE  Notices!NobodyIsForgotten /\ Notices!OnlyForThose /\ Notices!ReadingAllClears
    OBVIOUS
  <2>1. Notices!There = Numbers \ removed
    BY DEF Notices!There, Numbers
  <2>2. ASSUME NEW n \in Numbers, NEW u PROVE Notices!For(u, n) <=> IsFor(sent[n], u)
    <3>1. sent[n].type \in {"user", "department", "broadcast"}
      <4>1. sent[n] \in Notice
        BY DEF NInv, NoticesTyped, Numbers
      <4> QED
        BY <4>1 DEF Notice
    <3> QED
      BY <3>1 DEF Notices!For, IsFor
  <2>3. Notices!NobodyIsForgotten
    <3> SUFFICES ASSUME NEW u \in Users, NEW n \in Numbers, n \notin removed, n \notin halfway,
                        IsFor(sent[n], u)
                 PROVE  n \in Notices!UnreadOnly(u) \/ <<u, n>> \in read
      BY <2>1, <2>2 DEF Notices!NobodyIsForgotten
    <3> QED
      BY <2>1 DEF NInv, UsersHaveRows, IsFor, Notices!UnreadOnly, Notices!ForAll,
         Notices!ForDepartment
  <2>4. Notices!OnlyForThose
    <3>1. ASSUME NEW row \in unread \cup read
          PROVE  row[2] \in Notices!There /\ Notices!For(row[1], row[2])
      <4>1. PICK u \in Users, n \in Numbers : row = <<u, n>>
        BY DEF NInv, NoticesTyped
      <4>2. n \notin removed /\ IsFor(sent[n], u)
        BY <4>1 DEF NInv, RowsAreRight
      <4> QED
        BY <2>1, <2>2, <4>1, <4>2
    <3> QED
      BY <3>1 DEF NInv, RowsAreRight, Notices!OnlyForThose
  <2>5. Notices!ReadingAllClears
    <3> SUFFICES ASSUME NEW k \in Readers, ReadsAll(k), reading[k].todo = {}, NEW n \in before[k],
                        n \in Notices!UnreadOnly(reading[k].user)
                 PROVE  FALSE
      BY DEF Notices!ReadingAllClears, ReadsAll, NInv, NoticesTyped
    <3>1. <<reading[k].user, n>> \in read /\ <<reading[k].user, n>> \notin unread
      BY <2>1 DEF NInv, UnreadIsMarked, RowsAreRight, Notices!UnreadOnly
    <3> QED
      BY <2>1, <3>1 DEF NInv, RowsAreRight, IsFor, Notices!UnreadOnly, Notices!ForAll,
         Notices!ForDepartment
  <2> QED
    BY <2>3, <2>4, <2>5
<1> QED
  BY <1>1, <1>2, <1>3, PTL DEF Notices!Spec

-----------------------------------------------------------------------------
(* The conversation of a project, which Notifications adds as well.      *)

Marking ==
  [user: Users \cup {None}, step: {"free", "asking", "marking", "lost"}, todo: SUBSET Nat,
   failed: BOOLEAN]

\* What a message was known with has not been unmarked, and what was shown is written.
ChatTyped ==
  /\ author \in Seq(Users) /\ Chat!Written \subseteq Chat!Messages
  /\ socket \in [Sockets -> {"away", "open", "gone"}] /\ clients \subseteq Sockets
  /\ telling \in [Chat!Messages -> [Audience -> {"none", "counting", "counted", "told", "lost"}]]
  /\ number \in [Chat!Messages -> [Audience -> SUBSET Nat]]
  /\ got \in [Sockets -> SUBSET Chat!Messages]
  /\ marking \in [Chat!Reads -> Marking]
  /\ present \in [Chat!Messages -> SUBSET Sockets]
  /\ known \in [Chat!Messages -> SUBSET marks]
  /\ shown \in [Chat!Reads -> SUBSET Chat!Written]

OpenAreEntered == \A s \in Sockets : socket[s] = "open" => s \in clients

PresentAreOpen == \A m \in Chat!Messages : \A s \in present[m] : socket[s] = "open"

ToldHaveIt ==
  \A m \in Chat!Messages, u \in Audience : telling[m][u] = "told" =>
    \A s \in present[m] : Browser[s].user = u => m \in got[s]

CountIsRight(m, u) ==
  /\ number[m][u] \subseteq Chat!Written
  /\ \A x \in number[m][u] : author[x] # u /\ <<u, x>> \notin known[m]
  /\ Chat!UnreadListed(u) \cap 1..m \subseteq number[m][u]

CountsAreRight ==
  \A m \in Chat!Written, u \in Audience : telling[m][u] = "counted" => CountIsRight(m, u)

\* What a user was answered is on its way to be marked, or need not be.
ComesOut(k, x) ==
  \/ author[x] = marking[k].user \/ x \in deleted \/ <<marking[k].user, x>> \in marks
  \/ x \in marking[k].todo

AnswersAreMarked ==
  \A k \in Chat!Reads : marking[k].step = "marking" /\ marking[k].failed = FALSE =>
    \A x \in shown[k] : ComesOut(k, x)

ChatInv ==
  /\ ChatTyped /\ OpenAreEntered /\ Chat!OneSocketPerBrowser /\ PresentAreOpen /\ ToldHaveIt
  /\ CountsAreRight /\ AnswersAreMarked

LEMMA ChatInit == Chat!Init => ChatInv
<1> SUFFICES ASSUME Chat!Init PROVE ChatInv
  OBVIOUS
<1>1. author \in Seq(Users) /\ Chat!Written = {}
  BY DEF Chat!Init, Chat!Written
<1>2. [user |-> None, step |-> "free", todo |-> {}, failed |-> FALSE] \in Marking
  BY DEF Marking
<1>3. ChatTyped
  <2>1. marking \in [Chat!Reads -> Marking]
    BY <1>2 DEF Chat!Init
  <2>2. telling \in [Chat!Messages -> [Audience -> {"none", "counting", "counted", "told", "lost"}]]
    BY DEF Chat!Init
  <2>3. number \in [Chat!Messages -> [Audience -> SUBSET Nat]]
    BY DEF Chat!Init
  <2>4. /\ socket \in [Sockets -> {"away", "open", "gone"}] /\ clients \subseteq Sockets
        /\ got \in [Sockets -> SUBSET Chat!Messages]
    BY DEF Chat!Init
  <2>5. /\ present \in [Chat!Messages -> SUBSET Sockets] /\ known \in [Chat!Messages -> SUBSET marks]
        /\ shown \in [Chat!Reads -> SUBSET Chat!Written]
    BY DEF Chat!Init
  <2> QED
    BY <1>1, <2>1, <2>2, <2>3, <2>4, <2>5 DEF ChatTyped
<1>4. OpenAreEntered /\ Chat!OneSocketPerBrowser
  BY DEF Chat!Init, OpenAreEntered, Chat!OneSocketPerBrowser
<1>5. PresentAreOpen /\ ToldHaveIt
  BY DEF Chat!Init, PresentAreOpen, ToldHaveIt
<1>6. CountsAreRight
  BY <1>1 DEF CountsAreRight
<1>7. AnswersAreMarked
  BY DEF Chat!Init, AnswersAreMarked
<1> QED
  BY <1>3, <1>4, <1>5, <1>6, <1>7 DEF ChatInv

\* What the markings and the counts rest on stays as it is.
LEMMA CountsStay ==
  ASSUME CountsAreRight, UNCHANGED <<author, deleted, marks, telling, number, known>>
  PROVE  CountsAreRight'
BY DEF CountsAreRight, CountIsRight, Chat!Written, Chat!UnreadListed, Chat!OfOthers, Chat!Unmarked

LEMMA MarkingsStay ==
  ASSUME AnswersAreMarked, UNCHANGED <<author, deleted, marks, marking, shown>>
  PROVE  AnswersAreMarked'
BY DEF AnswersAreMarked, ComesOut

LEMMA SocketStep ==
  ASSUME ChatInv, NEW s \in Sockets, Chat!Connect(s) \/ Chat!Refuse(s) \/ Chat!Disconnect(s)
  PROVE  ChatInv'
<1>1. UNCHANGED <<author, deleted, marks, telling, number, got, marking, known, shown>>
  BY DEF Chat!Connect, Chat!Refuse, Chat!Disconnect
<1>2. CountsAreRight' /\ AnswersAreMarked'
  BY <1>1, CountsStay, MarkingsStay DEF ChatInv
<1>3. /\ socket' \in [Sockets -> {"away", "open", "gone"}] /\ clients' \subseteq Sockets
      /\ present' \in [Chat!Messages -> SUBSET Sockets]
      /\ \A m \in Chat!Messages : present'[m] \subseteq present[m]
  BY DEF ChatInv, ChatTyped, Chat!Connect, Chat!Refuse, Chat!Disconnect, Chat!Forget
<1>4. ChatTyped'
  BY <1>1, <1>3 DEF ChatInv, ChatTyped, Chat!Written
<1>5. OpenAreEntered' /\ Chat!OneSocketPerBrowser'
  <2>1. CASE Chat!Connect(s)
    <3>1. /\ clients \cup {s} = clients' /\ \A t \in Sockets \ {s} : socket'[t] = socket[t]
          /\ socket'[s] = "open" => \A c \in clients \ {s} : Browser[c] # Browser[s]
      BY <2>1 DEF ChatInv, ChatTyped, Chat!Connect, Chat!Forget
    <3> QED
      BY <3>1 DEF ChatInv, OpenAreEntered, Chat!OneSocketPerBrowser
  <2>2. CASE Chat!Refuse(s) \/ Chat!Disconnect(s)
    BY <2>2 DEF ChatInv, ChatTyped, OpenAreEntered, Chat!OneSocketPerBrowser, Chat!Refuse,
       Chat!Disconnect, Chat!Forget
  <2> QED
    BY <2>1, <2>2
<1>6. PresentAreOpen'
  <2>1. CASE Chat!Connect(s) \/ Chat!Refuse(s)
    <3>1. present' = present /\ socket[s] = "away" /\ \A t \in Sockets \ {s} : socket'[t] = socket[t]
      BY <2>1 DEF ChatInv, ChatTyped, Chat!Connect, Chat!Refuse
    <3> QED
      BY <1>3, <3>1 DEF ChatInv, PresentAreOpen
  <2>2. CASE Chat!Disconnect(s)
    <3>1. /\ \A t \in Sockets \ {s} : socket'[t] = socket[t]
          /\ \A m \in Chat!Messages : present'[m] = present[m] \ {s}
      BY <2>2 DEF ChatInv, ChatTyped, Chat!Disconnect
    <3> QED
      BY <1>3, <3>1 DEF ChatInv, PresentAreOpen
  <2> QED
    BY <2>1, <2>2
<1>7. ToldHaveIt'
  BY <1>1, <1>3 DEF ChatInv, ToldHaveIt
<1> QED
  BY <1>2, <1>4, <1>5, <1>6, <1>7 DEF ChatInv

\* A message was written and nothing unwritten, marks and removals stay.
LEMMA CountsRemain ==
  ASSUME ChatInv, Chat!Written \subseteq Chat!Written', marks \subseteq marks',
         deleted \subseteq deleted', \A x \in Chat!Written : author'[x] = author[x],
         NEW m \in Chat!Written, NEW u \in Audience, CountIsRight(m, u),
         number'[m][u] = number[m][u], known'[m] = known[m]
  PROVE  CountIsRight(m, u)'
<1>1. \A x \in 1..m : x \in Chat!Written
  BY DEF ChatInv, ChatTyped, Chat!Written
<1> QED
  BY <1>1 DEF CountIsRight, Chat!UnreadListed, Chat!OfOthers, Chat!Unmarked

LEMMA WriteMessage ==
  ASSUME ChatInv, NEW u \in Users, NEW k \in Chat!Reads, Chat!createProjectNote(u, k)
  PROVE  ChatInv'
<1>1. PICK m \in Nat : m = Len(author) + 1 /\ m \in Chat!Messages
  BY DEF ChatInv, ChatTyped, Chat!createProjectNote
<1>2. /\ author' = Append(author, u)
      /\ telling' = [telling EXCEPT ![m] = [v \in Audience |-> "counting"]]
      /\ present' = [present EXCEPT ![m] = {s \in clients : socket[s] = "open"}]
      /\ known' = [known EXCEPT ![m] = marks]
      /\ marking[k].step = "free"
      /\ marking' = [marking EXCEPT ![k].user = u, ![k].step = "asking"]
      /\ shown' = [shown EXCEPT ![k] = {m}]
      /\ UNCHANGED <<deleted, marks, socket, clients, number, got>>
  BY <1>1 DEF Chat!createProjectNote, Chat!Begin
<1>3. /\ author' \in Seq(Users) /\ Chat!Written = 1..(m - 1) /\ Chat!Written' = 1..m
      /\ \A x \in Chat!Written : author'[x] = author[x]
  BY <1>1, <1>2, AppendProperties DEF ChatInv, ChatTyped, Chat!Written
<1>4. /\ Chat!Written \subseteq Chat!Written' /\ m \in Chat!Written' /\ m \notin Chat!Written
      /\ \A x \in Chat!Written' : x \in Chat!Written \/ x = m
  BY <1>1, <1>3
<1>5. ChatTyped'
  <2>1. Chat!Written' \subseteq Chat!Messages
    BY <1>1, <1>4 DEF ChatInv, ChatTyped
  <2>2. telling' \in [Chat!Messages -> [Audience -> {"none", "counting", "counted", "told", "lost"}]]
    BY <1>1, <1>2 DEF ChatInv, ChatTyped
  <2>3. marking' \in [Chat!Reads -> Marking]
    BY <1>2 DEF ChatInv, ChatTyped, Marking
  <2>4. present' \in [Chat!Messages -> SUBSET Sockets]
    <3>1. {s \in clients : socket[s] = "open"} \in SUBSET Sockets
      BY DEF ChatInv, ChatTyped
    <3> QED
      BY <1>2, <3>1 DEF ChatInv, ChatTyped
  <2>5. known' \in [Chat!Messages -> SUBSET marks]
    BY <1>2 DEF ChatInv, ChatTyped
  <2>6. shown' \in [Chat!Reads -> SUBSET Chat!Written']
    BY <1>2, <1>4 DEF ChatInv, ChatTyped
  <2> QED
    BY <1>2, <1>3, <2>1, <2>2, <2>3, <2>4, <2>5, <2>6 DEF ChatInv, ChatTyped
<1>6. OpenAreEntered' /\ Chat!OneSocketPerBrowser'
  BY <1>2 DEF ChatInv, OpenAreEntered, Chat!OneSocketPerBrowser
<1>7. PresentAreOpen'
  BY <1>2 DEF ChatInv, ChatTyped, PresentAreOpen
<1>8. ToldHaveIt'
  BY <1>2 DEF ChatInv, ChatTyped, ToldHaveIt
<1>9. CountsAreRight'
  <2> SUFFICES ASSUME NEW i \in Chat!Written', NEW v \in Audience, telling'[i][v] = "counted"
               PROVE  CountIsRight(i, v)'
    BY DEF CountsAreRight
  <2>1. i # m
    BY <1>1, <1>2 DEF ChatInv, ChatTyped
  <2>2. i \in Chat!Written /\ telling[i][v] = "counted" /\ known'[i] = known[i]
    BY <1>2, <1>4, <2>1 DEF ChatInv, ChatTyped
  <2>3. CountIsRight(i, v)
    BY <2>2 DEF ChatInv, CountsAreRight
  <2> QED
    BY <1>2, <1>3, <1>4, <2>2, <2>3, CountsRemain
<1>10. AnswersAreMarked'
  <2> SUFFICES ASSUME NEW j \in Chat!Reads, marking'[j].step = "marking", marking'[j].failed = FALSE,
                      NEW x \in shown'[j]
               PROVE  ComesOut(j, x)'
    BY DEF AnswersAreMarked
  <2>1. j # k
    BY <1>2 DEF ChatInv, ChatTyped, Marking
  <2>2. marking'[j] = marking[j] /\ shown'[j] = shown[j]
    BY <1>2, <2>1 DEF ChatInv, ChatTyped
  <2>3. ComesOut(j, x) /\ x \in Chat!Written
    BY <2>2 DEF ChatInv, ChatTyped, AnswersAreMarked
  <2>4. author'[x] = author[x] /\ UNCHANGED <<deleted, marks>>
    BY <1>2, <1>3, <2>3
  <2> QED
    BY <2>2, <2>3, <2>4 DEF ComesOut
<1> QED
  BY <1>5, <1>6, <1>7, <1>8, <1>9, <1>10 DEF ChatInv

LEMMA RemoveMessage ==
  ASSUME ChatInv, NEW m \in Chat!Messages, Chat!removeNote(m) PROVE ChatInv'
<1>1. /\ deleted \subseteq deleted'
      /\ UNCHANGED <<author, marks, socket, clients, telling, number, got, marking, present, known,
                     shown>>
  BY DEF Chat!removeNote
<1>2. ChatTyped' /\ OpenAreEntered' /\ Chat!OneSocketPerBrowser' /\ PresentAreOpen' /\ ToldHaveIt'
  BY <1>1 DEF ChatInv, ChatTyped, OpenAreEntered, Chat!OneSocketPerBrowser, PresentAreOpen, ToldHaveIt,
     Chat!Written
<1>3. Chat!Written' = Chat!Written
  BY <1>1 DEF Chat!Written
<1>4. CountsAreRight'
  BY <1>1, <1>3, CountsRemain DEF ChatInv, CountsAreRight
<1>5. AnswersAreMarked'
  BY <1>1 DEF ChatInv, AnswersAreMarked, ComesOut
<1> QED
  BY <1>2, <1>4, <1>5 DEF ChatInv

LEMMA ReadPage ==
  ASSUME ChatInv, NEW u \in Users, NEW k \in Chat!Reads, Chat!findProjectNotes(u, k)
  PROVE  ChatInv'
<1>1. /\ marking[k].step = "free"
      /\ marking' = [marking EXCEPT ![k].user = u, ![k].step = "asking"]
      /\ shown' = [shown EXCEPT ![k] = Chat!Written \ deleted]
      /\ UNCHANGED <<author, deleted, marks, socket, clients, telling, number, got, present, known>>
  BY DEF Chat!findProjectNotes, Chat!Begin
<1>2. Chat!Written' = Chat!Written
  BY <1>1 DEF Chat!Written
<1>3. ChatTyped'
  <2>1. marking' \in [Chat!Reads -> Marking]
    BY <1>1 DEF ChatInv, ChatTyped, Marking
  <2>2. shown' \in [Chat!Reads -> SUBSET Chat!Written]
    BY <1>1 DEF ChatInv, ChatTyped
  <2> QED
    BY <1>1, <1>2, <2>1, <2>2 DEF ChatInv, ChatTyped
<1>4. OpenAreEntered' /\ Chat!OneSocketPerBrowser' /\ PresentAreOpen' /\ ToldHaveIt'
  BY <1>1 DEF ChatInv, OpenAreEntered, Chat!OneSocketPerBrowser, PresentAreOpen, ToldHaveIt
<1>5. CountsAreRight'
  BY <1>1, CountsStay DEF ChatInv
<1>6. AnswersAreMarked'
  <2> SUFFICES ASSUME NEW j \in Chat!Reads, marking'[j].step = "marking", marking'[j].failed = FALSE,
                      NEW x \in shown'[j]
               PROVE  ComesOut(j, x)'
    BY DEF AnswersAreMarked
  <2>1. j # k
    BY <1>1 DEF ChatInv, ChatTyped, Marking
  <2>2. marking'[j] = marking[j] /\ shown'[j] = shown[j]
    BY <1>1, <2>1 DEF ChatInv, ChatTyped
  <2>3. ComesOut(j, x)
    BY <2>2 DEF ChatInv, AnswersAreMarked
  <2>4. UNCHANGED <<author, deleted, marks>>
    BY <1>1
  <2> QED
    BY <2>2, <2>3, <2>4 DEF ComesOut
<1> QED
  BY <1>3, <1>4, <1>5, <1>6 DEF ChatInv

\* A marking of k goes on: it has marked, or need not mark, what it no longer has to do.
LEMMA MarkingGoesOn ==
  ASSUME ChatInv, NEW k \in Chat!Reads, marking' \in [Chat!Reads -> Marking],
         \A j \in Chat!Reads \ {k} : marking'[j] = marking[j], marks \subseteq marks',
         UNCHANGED <<author, deleted, socket, clients, telling, number, got, present, known, shown>>,
         marking'[k].step = "marking" /\ marking'[k].failed = FALSE =>
           \A x \in shown[k] : ComesOut(k, x)'
  PROVE  ChatInv'
<1>1. Chat!Written' = Chat!Written
  BY DEF Chat!Written
<1>2. ChatTyped'
  <2>1. known' \in [Chat!Messages -> SUBSET marks']
    BY DEF ChatInv, ChatTyped
  <2> QED
    BY <1>1, <2>1 DEF ChatInv, ChatTyped
<1>3. OpenAreEntered' /\ Chat!OneSocketPerBrowser' /\ PresentAreOpen' /\ ToldHaveIt'
  BY DEF ChatInv, OpenAreEntered, Chat!OneSocketPerBrowser, PresentAreOpen, ToldHaveIt
<1>4. CountsAreRight'
  BY <1>1, CountsRemain DEF ChatInv, CountsAreRight
<1>5. AnswersAreMarked'
  <2> SUFFICES ASSUME NEW j \in Chat!Reads, j # k, marking'[j].step = "marking",
                      marking'[j].failed = FALSE, NEW x \in shown'[j]
               PROVE  ComesOut(j, x)'
    BY DEF AnswersAreMarked
  <2>1. marking'[j] = marking[j] /\ ComesOut(j, x)
    BY DEF ChatInv, AnswersAreMarked
  <2> QED
    BY <2>1 DEF ComesOut
<1> QED
  BY <1>2, <1>3, <1>4, <1>5 DEF ChatInv

LEMMA ListStep ==
  ASSUME ChatInv, NEW k \in Chat!Reads, Chat!ListNotRead(k) PROVE ChatInv'
<1>1. /\ marking' = [marking EXCEPT ![k].step = "marking", ![k].todo = Chat!NotRead(marking[k].user)]
      /\ UNCHANGED <<author, deleted, marks, socket, clients, telling, number, got, present, known,
                     shown>>
  BY DEF Chat!ListNotRead
<1>2. Chat!NotRead(marking[k].user) \in SUBSET Nat
  BY DEF Chat!NotRead, Chat!OfOthers, Chat!Written
<1>3. /\ marking' \in [Chat!Reads -> Marking]
      /\ \A j \in Chat!Reads \ {k} : marking'[j] = marking[j]
      /\ marking'[k].user = marking[k].user
      /\ marking'[k].todo = Chat!NotRead(marking[k].user)
  BY <1>1, <1>2 DEF ChatInv, ChatTyped, Marking
<1>4. ASSUME NEW x \in shown[k] PROVE ComesOut(k, x)'
  <2>1. x \in Chat!Written
    BY DEF ChatInv, ChatTyped
  <2>2. UNCHANGED <<author, deleted, marks>>
    BY <1>1
  <2> QED
    BY <1>3, <2>1, <2>2 DEF ComesOut, Chat!NotRead, Chat!OfOthers, Chat!Unmarked
<1> QED
  BY <1>1, <1>3, <1>4, MarkingGoesOn

LEMMA MarkStep ==
  ASSUME ChatInv, NEW k \in Chat!Reads, Chat!Mark(k) PROVE ChatInv'
<1>1. PICK m \in marking[k].todo :
        /\ marking' = [marking EXCEPT ![k].todo = marking[k].todo \ {m}]
        /\ marks' = marks \cup {<<marking[k].user, m>>}
  BY DEF Chat!Mark
<1>2. UNCHANGED <<author, deleted, socket, clients, telling, number, got, present, known, shown>>
  BY DEF Chat!Mark
<1>3. /\ marking' \in [Chat!Reads -> Marking]
      /\ \A j \in Chat!Reads \ {k} : marking'[j] = marking[j]
      /\ marking'[k].user = marking[k].user /\ marking'[k].todo = marking[k].todo \ {m}
      /\ marking'[k].step = marking[k].step /\ marking'[k].failed = marking[k].failed
  BY <1>1 DEF ChatInv, ChatTyped, Marking
<1>4. ASSUME marking[k].step = "marking", marking[k].failed = FALSE, NEW x \in shown[k]
      PROVE  ComesOut(k, x)'
  <2>1. ComesOut(k, x)
    BY <1>4 DEF ChatInv, AnswersAreMarked
  <2>2. UNCHANGED <<author, deleted>>
    BY <1>2
  <2> QED
    BY <1>1, <1>3, <2>1, <2>2 DEF ComesOut
<1> QED
  BY <1>1, <1>2, <1>3, <1>4, MarkingGoesOn

LEMMA MarkFailsStep ==
  ASSUME ChatInv, NEW k \in Chat!Reads, Chat!MarkFails(k) PROVE ChatInv'
<1>1. PICK m \in marking[k].todo :
        marking' = [marking EXCEPT ![k].todo = marking[k].todo \ {m}, ![k].failed = TRUE]
  BY DEF Chat!MarkFails
<1>2. UNCHANGED <<author, deleted, marks, socket, clients, telling, number, got, present, known,
                  shown>>
  BY DEF Chat!MarkFails
<1>3. /\ marking' \in [Chat!Reads -> Marking]
      /\ \A j \in Chat!Reads \ {k} : marking'[j] = marking[j]
      /\ marking'[k].failed = TRUE
  <2> DEFINE row == [marking[k] EXCEPT !.todo = marking[k].todo \ {m}, !.failed = TRUE]
  <2>1. marking \in [Chat!Reads -> Marking]
    BY DEF ChatInv, ChatTyped
  <2>2. row \in Marking /\ row.failed = TRUE
    BY <2>1 DEF Marking
  <2>3. marking' = [marking EXCEPT ![k] = row]
    BY <1>1, <2>1
  <2> HIDE DEF row
  <2> QED
    BY <2>1, <2>2, <2>3
<1> QED
  BY <1>2, <1>3, MarkingGoesOn

LEMMA CountStep ==
  ASSUME ChatInv, NEW m \in Chat!Messages, NEW u \in Audience, Chat!Count(m, u) PROVE ChatInv'
<1>1. /\ telling' = [telling EXCEPT ![m][u] = "counted"]
      /\ number' = [number EXCEPT ![m][u] = Chat!UnreadTold(u)]
      /\ UNCHANGED <<author, deleted, marks, socket, clients, got, marking, present, known, shown>>
  BY DEF Chat!Count
<1>2. Chat!Written' = Chat!Written
  BY <1>1 DEF Chat!Written
<1>3. /\ telling'[m][u] = "counted" /\ number'[m][u] = Chat!UnreadTold(u)
      /\ \A i \in Chat!Messages, v \in Audience : i # m \/ v # u =>
           telling'[i][v] = telling[i][v] /\ number'[i][v] = number[i][v]
  BY <1>1 DEF ChatInv, ChatTyped
<1>4. ChatTyped'
  <2>1. telling' \in [Chat!Messages -> [Audience -> {"none", "counting", "counted", "told", "lost"}]]
    BY <1>1 DEF ChatInv, ChatTyped
  <2>2. Chat!UnreadTold(u) \in SUBSET Nat
    BY DEF Chat!UnreadTold, Chat!OfOthers, Chat!Written
  <2>3. number' \in [Chat!Messages -> [Audience -> SUBSET Nat]]
    BY <1>1, <2>2 DEF ChatInv, ChatTyped
  <2> QED
    BY <1>1, <1>2, <2>1, <2>3 DEF ChatInv, ChatTyped
<1>5. OpenAreEntered' /\ Chat!OneSocketPerBrowser' /\ PresentAreOpen'
  BY <1>1 DEF ChatInv, OpenAreEntered, Chat!OneSocketPerBrowser, PresentAreOpen
<1>6. ToldHaveIt'
  <2> SUFFICES ASSUME NEW i \in Chat!Messages, NEW v \in Audience, telling'[i][v] = "told"
               PROVE  \A s \in present'[i] : Browser[s].user = v => i \in got'[s]
    BY DEF ToldHaveIt
  <2>1. telling[i][v] = "told"
    BY <1>3
  <2> QED
    BY <1>1, <2>1 DEF ChatInv, ToldHaveIt
<1>7. CountsAreRight'
  <2> SUFFICES ASSUME NEW i \in Chat!Written, NEW v \in Audience, telling'[i][v] = "counted"
               PROVE  CountIsRight(i, v)'
    BY <1>2 DEF CountsAreRight
  <2>1. CASE i = m /\ v = u
    <3>1. known[i] \subseteq marks
      BY DEF ChatInv, ChatTyped
    <3>2. /\ Chat!UnreadTold(u) \subseteq Chat!Written
          /\ \A x \in Chat!UnreadTold(u) : author[x] # u /\ <<u, x>> \notin marks
          /\ Chat!UnreadListed(u) \subseteq Chat!UnreadTold(u)
      BY DEF Chat!UnreadTold, Chat!UnreadListed, Chat!OfOthers, Chat!Unmarked
    <3>3. Chat!UnreadListed(u)' = Chat!UnreadListed(u)
      BY <1>1, <1>2 DEF Chat!UnreadListed, Chat!OfOthers, Chat!Unmarked
    <3>4. author' = author /\ known' = known
      BY <1>1
    <3> QED
      BY <1>2, <1>3, <2>1, <3>1, <3>2, <3>3, <3>4 DEF CountIsRight
  <2>2. CASE i # m \/ v # u
    <3>1. i \in Chat!Messages
      BY DEF ChatInv, ChatTyped
    <3>2. telling[i][v] = "counted" /\ number'[i][v] = number[i][v]
      BY <1>3, <2>2, <3>1
    <3>3. CountIsRight(i, v)
      BY <3>2 DEF ChatInv, CountsAreRight
    <3> QED
      BY <1>1, <1>2, <3>2, <3>3, CountsRemain
  <2> QED
    BY <2>1, <2>2
<1>8. AnswersAreMarked'
  BY <1>1, MarkingsStay DEF ChatInv
<1> QED
  BY <1>4, <1>5, <1>6, <1>7, <1>8 DEF ChatInv

LEMMA EmitStep ==
  ASSUME ChatInv, NEW m \in Chat!Messages, NEW u \in Audience, Chat!Emit(m, u) PROVE ChatInv'
<1>1. /\ telling' = [telling EXCEPT ![m][u] = "told"]
      /\ number' = [number EXCEPT ![m][u] = {}]
      /\ got' = [s \in Sockets |-> IF s \in Chat!ConnectedClients(u) THEN got[s] \cup {m} ELSE got[s]]
      /\ UNCHANGED <<author, deleted, marks, socket, clients, marking, present, known, shown>>
  BY DEF Chat!Emit
<1>2. Chat!Written' = Chat!Written
  BY <1>1 DEF Chat!Written
<1>3. /\ telling'[m][u] = "told"
      /\ \A i \in Chat!Messages, v \in Audience : i # m \/ v # u =>
           telling'[i][v] = telling[i][v] /\ number'[i][v] = number[i][v]
      /\ \A s \in Sockets : got[s] \subseteq got'[s]
      /\ \A s \in Chat!ConnectedClients(u) : s \in Sockets => m \in got'[s]
  BY <1>1 DEF ChatInv, ChatTyped
<1>4. ChatTyped'
  <2>1. telling' \in [Chat!Messages -> [Audience -> {"none", "counting", "counted", "told", "lost"}]]
    BY <1>1 DEF ChatInv, ChatTyped
  <2>2. number' \in [Chat!Messages -> [Audience -> SUBSET Nat]]
    BY <1>1 DEF ChatInv, ChatTyped
  <2>3. got' \in [Sockets -> SUBSET Chat!Messages]
    BY <1>1 DEF ChatInv, ChatTyped
  <2> QED
    BY <1>1, <1>2, <2>1, <2>2, <2>3 DEF ChatInv, ChatTyped
<1>5. OpenAreEntered' /\ Chat!OneSocketPerBrowser' /\ PresentAreOpen'
  BY <1>1 DEF ChatInv, OpenAreEntered, Chat!OneSocketPerBrowser, PresentAreOpen
<1>6. ToldHaveIt'
  <2> SUFFICES ASSUME NEW i \in Chat!Messages, NEW v \in Audience, telling'[i][v] = "told",
                      NEW s \in present[i], Browser[s].user = v
               PROVE  i \in got'[s]
    BY <1>1 DEF ToldHaveIt
  <2>1. s \in Sockets /\ socket[s] = "open" /\ s \in clients
    BY DEF ChatInv, ChatTyped, PresentAreOpen, OpenAreEntered
  <2>2. CASE i = m /\ v = u
    BY <1>3, <2>1, <2>2 DEF Chat!ConnectedClients
  <2>3. CASE i # m \/ v # u
    BY <1>3, <2>1, <2>3 DEF ChatInv, ToldHaveIt
  <2> QED
    BY <2>2, <2>3
<1>7. CountsAreRight'
  <2> SUFFICES ASSUME NEW i \in Chat!Written, NEW v \in Audience, telling'[i][v] = "counted"
               PROVE  CountIsRight(i, v)'
    BY <1>2 DEF CountsAreRight
  <2>1. i \in Chat!Messages
    BY DEF ChatInv, ChatTyped
  <2>2. telling[i][v] = "counted" /\ number'[i][v] = number[i][v]
    BY <1>3, <2>1
  <2>3. CountIsRight(i, v)
    BY <2>2 DEF ChatInv, CountsAreRight
  <2> QED
    BY <1>1, <1>2, <2>2, <2>3, CountsRemain
<1>8. AnswersAreMarked'
  BY <1>1, MarkingsStay DEF ChatInv
<1> QED
  BY <1>4, <1>5, <1>6, <1>7, <1>8 DEF ChatInv

LEMMA EndStep ==
  ASSUME ChatInv, Chat!ProcessEnds PROVE ChatInv'
<1>1. /\ socket' = [s \in Sockets |-> IF socket[s] = "open" THEN "away" ELSE socket[s]]
      /\ clients' = {} /\ present' = [m \in Chat!Messages |-> {}]
      /\ telling' = [m \in Chat!Messages |-> [u \in Audience |->
           IF telling[m][u] \in {"counting", "counted"} THEN "lost" ELSE telling[m][u]]]
      /\ marking' = [k \in Chat!Reads |->
           IF marking[k].step = "asking" \/ marking[k].todo # {}
             THEN [marking[k] EXCEPT !.step = "lost", !.todo = {}] ELSE marking[k]]
      /\ number' = [m \in Chat!Messages |-> [u \in Audience |-> {}]]
      /\ UNCHANGED <<author, deleted, marks, got, known, shown>>
  BY DEF Chat!ProcessEnds
<1>2. Chat!Written' = Chat!Written
  BY <1>1 DEF Chat!Written
<1>3. ChatTyped'
  <2>1. telling' \in [Chat!Messages -> [Audience -> {"none", "counting", "counted", "told", "lost"}]]
    BY <1>1 DEF ChatInv, ChatTyped
  <2>2. number' \in [Chat!Messages -> [Audience -> SUBSET Nat]]
    BY <1>1
  <2>3. marking' \in [Chat!Reads -> Marking]
    BY <1>1 DEF ChatInv, ChatTyped, Marking
  <2>4. socket' \in [Sockets -> {"away", "open", "gone"}] /\ clients' \subseteq Sockets
    BY <1>1 DEF ChatInv, ChatTyped
  <2>5. present' \in [Chat!Messages -> SUBSET Sockets]
    BY <1>1
  <2> QED
    BY <1>1, <1>2, <2>1, <2>2, <2>3, <2>4, <2>5 DEF ChatInv, ChatTyped
<1>4. \A s \in Sockets : socket'[s] # "open"
  BY <1>1
<1>5. OpenAreEntered' /\ Chat!OneSocketPerBrowser'
  BY <1>4 DEF OpenAreEntered, Chat!OneSocketPerBrowser
<1>6. PresentAreOpen' /\ ToldHaveIt'
  BY <1>1 DEF PresentAreOpen, ToldHaveIt
<1>7. CountsAreRight'
  <2>1. \A m \in Chat!Messages, u \in Audience : telling'[m][u] # "counted"
    BY <1>1
  <2> QED
    BY <1>2, <2>1 DEF ChatInv, ChatTyped, CountsAreRight
<1>8. AnswersAreMarked'
  <2> SUFFICES ASSUME NEW k \in Chat!Reads, marking'[k].step = "marking", marking'[k].failed = FALSE,
                      NEW x \in shown'[k]
               PROVE  ComesOut(k, x)'
    BY DEF AnswersAreMarked
  <2>1. marking'[k] = marking[k]
    BY <1>1 DEF ChatInv, ChatTyped, Marking
  <2>2. ComesOut(k, x)
    BY <1>1, <2>1 DEF ChatInv, AnswersAreMarked
  <2>3. UNCHANGED <<author, deleted, marks>>
    BY <1>1
  <2> QED
    BY <2>1, <2>2, <2>3 DEF ComesOut
<1> QED
  BY <1>3, <1>5, <1>6, <1>7, <1>8 DEF ChatInv

LEMMA ChatNext == ChatInv /\ [Chat!Next]_(Chat!vars) => ChatInv'
<1> SUFFICES ASSUME ChatInv, [Chat!Next]_(Chat!vars) PROVE ChatInv'
  OBVIOUS
<1>1. CASE UNCHANGED Chat!vars
  <2>1. UNCHANGED <<author, deleted, marks, socket, clients, telling, number, got, marking, present,
                    known, shown>>
    BY <1>1 DEF Chat!vars
  <2>2. CountsAreRight' /\ AnswersAreMarked'
    BY <2>1, CountsStay, MarkingsStay DEF ChatInv
  <2> QED
    BY <2>1, <2>2 DEF ChatInv, ChatTyped, OpenAreEntered, Chat!OneSocketPerBrowser, PresentAreOpen,
       ToldHaveIt, Chat!Written
<1>2. ASSUME NEW s \in Sockets, Chat!Connect(s) \/ Chat!Refuse(s) \/ Chat!Disconnect(s)
      PROVE  ChatInv'
  BY <1>2, SocketStep
<1>3. ASSUME NEW u \in Users, NEW k \in Chat!Reads,
             Chat!createProjectNote(u, k) \/ Chat!findProjectNotes(u, k)
      PROVE  ChatInv'
  BY <1>3, WriteMessage, ReadPage
<1>4. ASSUME NEW m \in Chat!Messages, Chat!removeNote(m) PROVE ChatInv'
  BY <1>4, RemoveMessage
<1>5. ASSUME NEW k \in Chat!Reads, Chat!ListNotRead(k) \/ Chat!Mark(k) \/ Chat!MarkFails(k)
      PROVE  ChatInv'
  BY <1>5, ListStep, MarkStep, MarkFailsStep
<1>6. ASSUME NEW m \in Chat!Messages, NEW u \in Audience, Chat!Count(m, u) \/ Chat!Emit(m, u)
      PROVE  ChatInv'
  BY <1>6, CountStep, EmitStep
<1>7. CASE Chat!ProcessEnds
  BY <1>7, EndStep
<1> QED
  BY <1>1, <1>2, <1>3, <1>4, <1>5, <1>6, <1>7 DEF Chat!Next

(* Whoever was there when a message was written, and still is, has got it  *)
(* when it was told; a browser has one socket; the number that comes with  *)
(* a message is right; and reading clears what was answered: for any       *)
(* number of users, sockets, messages and readings at once, whoever comes  *)
(* and goes, and whatever is removed or fails (chat.gateway.ts and the     *)
(* conversations of project.service.ts).                                   *)
THEOREM ConversationHolds ==
  Chat!Spec =>
    [](/\ Chat!EveryoneIsTold /\ Chat!OneSocketPerBrowser
       /\ Chat!NumbersAreRight /\ Chat!ReadingClears)
<1>1. Chat!Init => ChatInv
  BY ChatInit
<1>2. ChatInv /\ [Chat!Next]_(Chat!vars) => ChatInv'
  BY ChatNext
<1>3. ChatInv => /\ Chat!EveryoneIsTold /\ Chat!OneSocketPerBrowser
                 /\ Chat!NumbersAreRight /\ Chat!ReadingClears
  <2> SUFFICES ASSUME ChatInv
               PROVE  /\ Chat!EveryoneIsTold /\ Chat!OneSocketPerBrowser
                      /\ Chat!NumbersAreRight /\ Chat!ReadingClears
    OBVIOUS
  <2>1. Chat!EveryoneIsTold
    BY DEF ChatInv, ChatTyped, ToldHaveIt, Chat!EveryoneIsTold
  <2>2. Chat!NumbersAreRight
    BY DEF ChatInv, CountsAreRight, CountIsRight, Chat!NumbersAreRight
  <2>3. Chat!ReadingClears
    <3> SUFFICES ASSUME NEW k \in Chat!Reads, marking[k].step = "marking", marking[k].todo = {},
                        marking[k].failed = FALSE
                 PROVE  /\ shown[k] \cap Chat!UnreadListed(marking[k].user) = {}
                        /\ shown[k] \cap Chat!UnreadTold(marking[k].user) \subseteq deleted
                        /\ \A x \in shown[k] \cap Chat!UnreadFirst(marking[k].user) :
                             author[x] = marking[k].user
      <4>1. \A k \in Chat!Reads : marking[k].failed \in BOOLEAN
        BY DEF ChatInv, ChatTyped, Marking
      <4> QED
        BY <4>1 DEF Chat!ReadingClears
    <3>1. \A x \in shown[k] : author[x] = marking[k].user \/ x \in deleted
                               \/ <<marking[k].user, x>> \in marks
      BY DEF ChatInv, AnswersAreMarked, ComesOut
    <3> QED
      BY <3>1 DEF Chat!UnreadListed, Chat!UnreadTold, Chat!UnreadFirst, Chat!OfOthers, Chat!Unmarked
  <2> QED
    BY <2>1, <2>2, <2>3 DEF ChatInv
<1> QED
  BY <1>1, <1>2, <1>3, PTL DEF Chat!Spec

(* Nobody misses a message or a notification, and the numbers are right:   *)
(* NoticesReachTheirs and ConversationHolds, of what is composed in        *)
(* Notifications.                                                          *)
THEOREM EverythingReachesPeople == NotificationsSpec => []NothingIsMissed
<1>1. NotificationsInit => Notices!Init /\ Chat!Init
  BY DEF NotificationsInit
<1>2. [NotificationsNext]_<<which, vars, noticeVars, chatVars>>
        => [Notices!Next]_(Notices!vars) /\ [Chat!Next]_(Chat!vars)
  <2> SUFFICES ASSUME [NotificationsNext]_<<which, vars, noticeVars, chatVars>>
               PROVE  [Notices!Next]_(Notices!vars) /\ [Chat!Next]_(Chat!vars)
    OBVIOUS
  <2>1. UNCHANGED noticeVars => UNCHANGED Notices!vars
    BY DEF noticeVars, Notices!vars
  <2>2. UNCHANGED chatVars => UNCHANGED Chat!vars
    BY DEF chatVars, Chat!vars
  <2> QED
    BY <2>1, <2>2 DEF NotificationsNext
<1>3. /\ Notices!NobodyIsForgotten /\ Notices!OnlyForThose /\ Notices!ReadingAllClears
      /\ Chat!EveryoneIsTold /\ Chat!OneSocketPerBrowser
      /\ Chat!NumbersAreRight /\ Chat!ReadingClears
      => NothingIsMissed
  BY DEF NothingIsMissed
<1> QED
  BY <1>1, <1>2, <1>3, NoticesReachTheirs, ConversationHolds, PTL
     DEF NotificationsSpec, Notices!Spec, Chat!Spec
=============================================================================
