---------------------------- MODULE Announcements ----------------------------
(***************************************************************************)
(* Notifications as people read them (notification.service.ts): for some   *)
(* users, for a department, or for everybody.  A row says whether a user   *)
(* has read a notification.  The users it is for get theirs when it is     *)
(* written; the others get one when they read it.                          *)
(*                                                                         *)
(* Reading all is a query for what there is and an upsert for each of      *)
(* them, all at once, so that a notification removed in between fails the  *)
(* request while the others are marked.                                    *)
(***************************************************************************)
EXTENDS Integers, Sequences

CONSTANTS
  Users,
  DepartmentOf, \* of every user
  Readers,      \* requests that read all
  None,
  MaxSent,      \* bound on the notifications, numbered as they are written
  MaxRequests,  \* bound on what is asked
  MaxFailures   \* bound on the queries that fail

VARIABLES
  sent,         \* the notifications, in the order they were written
  halfway,      \* those whose rows are still to be written
  removed,
  unread, read, \* the rows: <<u, n>>
  reading,      \* of every reader: its user, step, the notifications still to mark
  before,       \* history: of every reader, what was there for its user when it began
  requests, failures

vars == <<sent, halfway, removed, unread, read, reading, before, requests, failures>>

Notifications == 1..MaxSent
There == (1..Len(sent)) \ removed
AllDepartments == {DepartmentOf[u] : u \in Users}
Announced(type, users, department) == [type |-> type, users |-> users, department |-> department]

Init ==
  /\ sent = <<>> /\ halfway = {} /\ removed = {} /\ unread = {} /\ read = {}
  /\ reading = [k \in Readers |->
       [user |-> None, step |-> "free", all |-> FALSE, todo |-> {}, failed |-> FALSE]]
  /\ before = [k \in Readers |-> {}]
  /\ requests = 0 /\ failures = 0

Asks == requests < MaxRequests /\ requests' = requests + 1

-----------------------------------------------------------------------------
(* What there is for a user: readNotification, readAllNotification, and    *)
(* applyFilters, of all notifications and of the unread ones.              *)

HasRow(u, n) == <<u, n>> \in unread \cup read
ForAll(n) == sent[n].type = "broadcast"
ForDepartment(u, n) == sent[n].type = "department" /\ sent[n].department = DepartmentOf[u]

\* Mutants: whatever there is; what has a row, or is for everybody; what has an unread row, or
\* is for everybody.
ReadableIfThere(u, n) == n \in There
AllButDepartment(u) == {n \in There : HasRow(u, n) \/ ForAll(n)}
UnreadRows(u) == {n \in There : <<u, n>> \in unread \/ (ForAll(n) /\ <<u, n>> \notin read)}

Readable(u, n) == n \in There /\ (HasRow(u, n) \/ ForAll(n) \/ ForDepartment(u, n))

AllFor(u) == {n \in There : HasRow(u, n) \/ ForAll(n) \/ ForDepartment(u, n)}

UnreadOnly(u) ==
  {n \in There : \/ sent[n].type = "user" /\ <<u, n>> \in unread
                 \/ ForAll(n) /\ <<u, n>> \notin read
                 \/ ForDepartment(u, n) /\ <<u, n>> \notin read}

-----------------------------------------------------------------------------
(* Writing and removing.                                                   *)

Write(notification) == Len(sent) < MaxSent /\ sent' = Append(sent, notification)

create ==
  /\ \/ Write(Announced("broadcast", {}, None)) /\ UNCHANGED halfway
     \/ \E d \in AllDepartments : Write(Announced("department", {}, d)) /\ UNCHANGED halfway
     \/ \E users \in SUBSET Users \ {{}} :
          Write(Announced("user", users, None)) /\ halfway' = halfway \cup {Len(sent')}
  /\ Asks
  /\ UNCHANGED <<removed, unread, read, reading, before, failures>>

\* The second query of create, in which the rows come together.
Subscribe(n) ==
  /\ n \in halfway /\ n \in There
  /\ halfway' = halfway \ {n}
  /\ unread' = unread \cup (sent[n].users \X {n})
  /\ UNCHANGED <<sent, removed, read, reading, before, requests, failures>>

\* It fails, or there is no such notification any more: what there is is for nobody.
SubscribeFails(n) ==
  /\ n \in halfway
  /\ IF n \in There THEN failures < MaxFailures /\ failures' = failures + 1
                    ELSE UNCHANGED failures
  /\ halfway' = halfway \ {n}
  /\ sent' = [sent EXCEPT ![n].users = {}]
  /\ UNCHANGED <<removed, unread, read, reading, before, requests>>

\* The notifications of the processor come with their rows, in one query.
Notify(users) ==
  /\ Write(Announced("user", users, None))
  /\ unread' = unread \cup (users \X {Len(sent')})
  /\ Asks
  /\ UNCHANGED <<halfway, removed, read, reading, before, failures>>

\* The rows of a notification go with it.
remove(n) ==
  /\ n \in There
  /\ removed' = removed \cup {n}
  /\ unread' = {row \in unread : row[2] # n} /\ read' = {row \in read : row[2] # n}
  /\ Asks
  /\ UNCHANGED <<sent, halfway, reading, before, failures>>

-----------------------------------------------------------------------------
(* Reading.                                                                *)

Begin(k, u, all, notifications) ==
  /\ reading[k].step = "free"
  /\ reading' = [reading EXCEPT ![k].user = u, ![k].step = "marking", ![k].all = all,
                           ![k].todo = notifications]
  /\ before' = [before EXCEPT ![k] = UnreadOnly(u)]
  /\ Asks
  /\ UNCHANGED <<sent, halfway, removed, unread, read, failures>>

readNotification(k, u, n) == Readable(u, n) /\ Begin(k, u, FALSE, {n})

readAllNotification(k, u) == Begin(k, u, TRUE, AllFor(u))

Mark(k, n) ==
  /\ n \in reading[k].todo \cap There
  /\ reading' = [reading EXCEPT ![k].todo = @ \ {n}]
  /\ unread' = unread \ {<<reading[k].user, n>>}
  /\ read' = read \cup {<<reading[k].user, n>>}
  /\ UNCHANGED <<sent, halfway, removed, before, requests, failures>>

\* The others are marked all the same; the request answers an error.
MarkFails(k, n) ==
  /\ n \in reading[k].todo
  /\ IF n \in There THEN failures < MaxFailures /\ failures' = failures + 1
                    ELSE UNCHANGED failures
  /\ reading' = [reading EXCEPT ![k].todo = @ \ {n}, ![k].failed = TRUE]
  /\ UNCHANGED <<sent, halfway, removed, unread, read, before, requests>>

Next ==
  \/ create
  \/ \E users \in SUBSET Users \ {{}} : Notify(users)
  \/ \E n \in Notifications : Subscribe(n) \/ SubscribeFails(n) \/ remove(n)
  \/ \E k \in Readers, u \in Users :
       \/ readAllNotification(k, u)
       \/ \E n \in Notifications : readNotification(k, u, n)
  \/ \E k \in Readers, n \in Notifications : Mark(k, n) \/ MarkFails(k, n)

Spec == Init /\ [][Next]_vars

-----------------------------------------------------------------------------
(* Properties.                                                             *)

TypeOK ==
  /\ Len(sent) \in 0..MaxSent
  /\ \A n \in DOMAIN sent :
       /\ sent[n].type \in {"user", "department", "broadcast"}
       /\ sent[n].users \subseteq Users /\ sent[n].department \in AllDepartments \cup {None}
  /\ halfway \subseteq Notifications /\ removed \subseteq Notifications
  /\ unread \subseteq Users \X Notifications /\ read \subseteq Users \X Notifications
  /\ reading \in [Readers -> [user : Users \cup {None}, step : {"free", "marking"},
                              all : BOOLEAN, todo : SUBSET Notifications, failed : BOOLEAN]]
  /\ before \in [Readers -> SUBSET Notifications]
  /\ requests \in 0..MaxRequests /\ failures \in 0..MaxFailures

For(u, n) ==
  CASE sent[n].type = "broadcast"  -> TRUE
    [] sent[n].type = "department" -> sent[n].department = DepartmentOf[u]
    [] sent[n].type = "user"       -> u \in sent[n].users

(* What was written for a user, and is there, is among the unread ones of   *)
(* that user, or they have read it (notification.service.ts 19-45,          *)
(* 195-243).                                                                *)
NobodyIsForgotten ==
  \A u \in Users, n \in There \ halfway :
    For(u, n) => n \in UnreadOnly(u) \/ <<u, n>> \in read

(* Nobody has a row of what was not for them, unread and read at once, or   *)
(* of what is removed (notification.service.ts 89-130).                     *)
OnlyForThose ==
  /\ \A row \in unread \cup read : row[2] \in There /\ For(row[1], row[2])
  /\ unread \cap read = {}

(* Once a request to read all has answered well, nothing that was unread    *)
(* when it began is still (notification.service.ts 132-191).                *)
ReadingAllClears ==
  \A k \in Readers :
    reading[k].step = "marking" /\ reading[k].todo = {} /\ ~reading[k].failed /\ reading[k].all =>
      before[k] \cap UnreadOnly(reading[k].user) = {}
=============================================================================
