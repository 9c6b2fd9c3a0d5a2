----------------------------- MODULE ProjectTeam -----------------------------
(***************************************************************************)
(* The team of a project: src/src/modules/project/project.service.ts.      *)
(*                                                                         *)
(* A project has members with a role and clients, one of which represents  *)
(* the others. A request reads the team, decides from what it read which   *)
(* writes it needs, and makes them one by one; other requests come in      *)
(* between, and a write that fails ends the request where it is.           *)
(***************************************************************************)
EXTENDS Integers

CONSTANTS
  Projects, Users, Clients,
  Requests,     \* requests in progress at once
  Asks,         \* the teams that requests ask for, a set of Ask
  None,         \* no role, no client, no project
  MaxRequests,  \* bound on the requests
  MaxFailures   \* bound on the queries that fail

Roles == {"incharge", "support"}

\* The body of a request; both: does it have both lists of users, empty or not?
Ask ==
  [incharge: SUBSET Users, support: SUBSET Users, both: BOOLEAN,
   rep: Clients \cup {None}, clients: SUBSET Clients]

ASSUME ProjectTeamAssumption ==
  /\ None \notin Projects \cup Clients \cup Roles \cup {"client", "rep"}
  /\ Asks \subseteq Ask
  /\ MaxRequests \in Nat /\ MaxFailures \in Nat

VARIABLES
  made,      \* the projects created so far
  member,    \* table ProjectMembers: the role of each user in each project
  client,    \* table ProjectClient: is a client of the project, does it represent it?
  request,
  unreset,   \* history: projects with a representative added and the others not reset
  requests, failures

vars == <<made, member, client, request, unreset, requests, failures>>

\* The writes of a request, in the order of the code.
AddIncharge == 1   \* createMany of new incharges
SetIncharge == 2   \* updateMany of members with the other role
AddSupport == 3
SetSupport == 4
Appoint == 5       \* the row of the representative, created or updated
Reset == 6         \* updateMany of every other client
AddClients == 7    \* createMany of new clients
CreateTeam == 8    \* createMany of create
CreateClients == 9
Writes == 1..9

\* project: None when idle. todo: the writes still to be made; add, set: the
\* users they concern; enroll: is the representative's row to be created?
\* clean: has no write failed, and nothing else touched a team, since it began?
Request ==
  [project: Projects \cup {None}, ask: Ask, todo: SUBSET Writes,
   add: [Roles -> SUBSET Users], set: [Roles -> SUBSET Users],
   enroll: BOOLEAN, clients: SUBSET Clients, clean: BOOLEAN]

NoAsk == [incharge |-> {}, support |-> {}, both |-> TRUE, rep |-> None, clients |-> {}]

Idle ==
  [project |-> None, ask |-> NoAsk, todo |-> {}, add |-> [r \in Roles |-> {}],
   set |-> [r \in Roles |-> {}], enroll |-> FALSE, clients |-> {}, clean |-> TRUE]

TypeOK ==
  /\ made \subseteq Projects
  /\ member \in [Projects -> [Users -> Roles \cup {None}]]
  /\ client \in [Projects -> [Clients -> {"client", "rep", None}]]
  /\ request \in [Requests -> Request]
  /\ unreset \subseteq Projects
  /\ requests \in 0..MaxRequests /\ failures \in 0..MaxFailures

Init ==
  /\ made = {}
  /\ member = [p \in Projects |-> [u \in Users |-> None]]
  /\ client = [p \in Projects |-> [c \in Clients |-> None]]
  /\ request = [q \in Requests |-> Idle]
  /\ unreset = {}
  /\ requests = 0 /\ failures = 0

Members(p) == {u \in Users : member[p][u] # None}
ClientsOf(p) == {c \in Clients : client[p][c] # None}
Reps(p) == {c \in Clients : client[p][c] = "rep"}

Live(q) == request[q].project # None

-----------------------------------------------------------------------------
(* What a request decides from the team it has read.                       *)

\* The users asked for a role. update leaves out those in both lists.
Wanted(ask, role, update) ==
  LET list == IF role = "incharge" THEN ask.incharge ELSE ask.support
  IN  IF update THEN list \ (ask.incharge \cap ask.support) ELSE list

ToAdd(p, ask, role, update) == Wanted(ask, role, update) \ Members(p)

\* A mutated form of ToSet: the comparison of the roles is the wrong way round.
ToSetAgain(p, ask, role, update) ==
  {u \in Wanted(ask, role, update) : member[p][u] = role}

ToSet(p, ask, role, update) ==
  {u \in Wanted(ask, role, update) : member[p][u] \in Roles \ {role}}

ToEnroll(p, ask) == ask.clients \ (ClientsOf(p) \cup {ask.rep})

Represented(p, ask) == ask.rep = None \/ client[p][ask.rep] = "rep"

\* update and updateProjectMember make only the writes that change something.
WritesFor(p, ask, update) ==
  {w \in {AddIncharge} : ToAdd(p, ask, "incharge", update) # {}}
  \cup {w \in {SetIncharge} : ToSet(p, ask, "incharge", update) # {}}
  \cup {w \in {AddSupport} : ToAdd(p, ask, "support", update) # {}}
  \cup {w \in {SetSupport} : ToSet(p, ask, "support", update) # {}}
  \cup {w \in {Appoint, Reset} : ~Represented(p, ask)}
  \cup {w \in {AddClients} : ToEnroll(p, ask) # {}}

\* Given one list of users and not the other, update throws at the list it
\* does not have, before any of these writes.
Throws(ask, update) == update /\ ~ask.both /\ ask.incharge \cup ask.support # {}

\* Every request on a team disturbs those that are in progress.
Disturbed == [q \in Requests |-> [request[q] EXCEPT !.clean = FALSE]]

Others(q) == {o \in Requests \ {q} : Live(o)}

Begin(q, p, ask, todo, add, set, enroll, clients) ==
  /\ ~Live(q) /\ requests < MaxRequests
  /\ requests' = requests + 1
  /\ request' = [Disturbed EXCEPT ![q] =
       [project |-> p, ask |-> ask, todo |-> todo, add |-> add, set |-> set,
        enroll |-> enroll, clients |-> clients, clean |-> Others(q) = {}]]

(* updateProjectMember, and update with the project's own row.             *)
ReadTeam(q, p, ask, update) ==
  /\ p \in made /\ ~Throws(ask, update)
  /\ Begin(q, p, ask, WritesFor(p, ask, update),
           [r \in Roles |-> ToAdd(p, ask, r, update)],
           [r \in Roles |-> ToSet(p, ask, r, update)],
           ask.rep # None /\ ask.rep \notin ClientsOf(p), ToEnroll(p, ask))
  /\ UNCHANGED <<made, member, client, unreset, failures>>

(* create: the project, then its members, then its clients.                *)
Create(q, p, ask) ==
  /\ p \notin made
  /\ made' = made \cup {p}
  /\ Begin(q, p, ask, {CreateTeam, CreateClients},
           [r \in Roles |-> Wanted(ask, r, FALSE)], [r \in Roles |-> {}],
           ask.rep # None, ask.clients \ {ask.rep})
  /\ UNCHANGED <<member, client, unreset, failures>>

-----------------------------------------------------------------------------
(* The writes, one at a time.                                              *)

\* q's next write is w.
At(q, w) == w \in request[q].todo /\ \A v \in request[q].todo : w <= v

Goes(q, w) == request' = [request EXCEPT ![q].todo = @ \ {w}]

Ends(q) == request' = [request EXCEPT ![q] = Idle]

\* createMany: no row may exist already (projectId, userId).
AddMembers(q, w, role) ==
  LET p == request[q].project
      new == request[q].add[role]
  IN  /\ At(q, w) /\ new \cap Members(p) = {}
      /\ member' = [member EXCEPT ![p] = [u \in Users |-> IF u \in new THEN role ELSE @[u]]]
      /\ Goes(q, w)
      /\ UNCHANGED <<made, client, unreset, requests, failures>>

\* updateMany by userId alone: the rows of these users in every project.
SetRole(q, w, role) ==
  LET users == request[q].set[role]
  IN  /\ At(q, w)
      /\ member' = [p \in Projects |-> [u \in Users |->
           IF u \in users /\ member[p][u] # None THEN role ELSE member[p][u]]]
      /\ Goes(q, w)
      /\ UNCHANGED <<made, client, unreset, requests, failures>>

AppointRepresentative(q) ==
  LET p == request[q].project
      rep == request[q].ask.rep
  IN  /\ At(q, Appoint) /\ request[q].enroll = (client[p][rep] = None)
      /\ client' = [client EXCEPT ![p][rep] = "rep"]
      /\ Goes(q, Appoint)
      /\ UNCHANGED <<made, member, unreset, requests, failures>>

\* A mutated form of ResetOthers: only the clients of the list are reset, not those there are.
ResetListed(q) ==
  LET p == request[q].project
      rep == request[q].ask.rep
  IN  /\ At(q, Reset)
      /\ client' = [client EXCEPT ![p] = [c \in Clients |->
           IF c # rep /\ c \in request[q].ask.clients /\ @[c] # None THEN "client" ELSE @[c]]]
      /\ unreset' = unreset \ {p}
      /\ Goes(q, Reset)
      /\ UNCHANGED <<made, member, requests, failures>>

\* A mutated form of ResetOthers: the condition on the representative is left out: every client is reset.
ResetAll(q) ==
  LET p == request[q].project
  IN  /\ At(q, Reset)
      /\ client' = [client EXCEPT ![p] = [c \in Clients |->
           IF @[c] # None THEN "client" ELSE @[c]]]
      /\ unreset' = unreset \ {p}
      /\ Goes(q, Reset)
      /\ UNCHANGED <<made, member, requests, failures>>

ResetOthers(q) ==
  LET p == request[q].project
      rep == request[q].ask.rep
  IN  /\ At(q, Reset)
      /\ client' = [client EXCEPT ![p] = [c \in Clients |->
           IF c # rep /\ @[c] # None THEN "client" ELSE @[c]]]
      /\ unreset' = unreset \ {p}
      /\ Goes(q, Reset)
      /\ UNCHANGED <<made, member, requests, failures>>

EnrollClients(q) ==
  LET p == request[q].project
      new == request[q].clients
  IN  /\ At(q, AddClients) /\ new \cap ClientsOf(p) = {}
      /\ client' = [client EXCEPT ![p] = [c \in Clients |-> IF c \in new THEN "client" ELSE @[c]]]
      /\ Goes(q, AddClients)
      /\ UNCHANGED <<made, member, unreset, requests, failures>>

\* All members in one createMany: a user of both lists makes it fail.
InsertTeam(q) ==
  LET p == request[q].project
      add == request[q].add
  IN  /\ At(q, CreateTeam)
      /\ add["incharge"] \cap add["support"] = {}
      /\ (add["incharge"] \cup add["support"]) \cap Members(p) = {}
      /\ member' = [member EXCEPT ![p] = [u \in Users |->
           IF u \in add["incharge"] THEN "incharge"
           ELSE IF u \in add["support"] THEN "support" ELSE @[u]]]
      /\ Goes(q, CreateTeam)
      /\ UNCHANGED <<made, client, unreset, requests, failures>>

InsertClients(q) ==
  LET p == request[q].project
      rep == request[q].ask.rep
      new == request[q].clients
  IN  /\ At(q, CreateClients)
      /\ (new \cup {rep}) \cap ClientsOf(p) = {}
      /\ client' = [client EXCEPT ![p] = [c \in Clients |->
           IF c = rep THEN "rep" ELSE IF c \in new THEN "client" ELSE @[c]]]
      /\ unreset' = IF rep # None /\ Reps(p) # {} THEN unreset \cup {p} ELSE unreset
      /\ Goes(q, CreateClients)
      /\ UNCHANGED <<made, member, requests, failures>>

\* May the write fail of itself: a row that exists, or that is gone?
Conflicts(q, w) ==
  LET p == request[q].project
      add == request[q].add
      new == request[q].clients \cup {request[q].ask.rep}
  IN  \/ w = AddIncharge /\ add["incharge"] \cap Members(p) # {}
      \/ w = AddSupport /\ add["support"] \cap Members(p) # {}
      \/ w = Appoint /\ request[q].enroll # (client[p][request[q].ask.rep] = None)
      \/ w = AddClients /\ request[q].clients \cap ClientsOf(p) # {}
      \/ w = CreateTeam /\ \/ add["incharge"] \cap add["support"] # {}
                           \/ (add["incharge"] \cup add["support"]) \cap Members(p) # {}
      \/ w = CreateClients /\ new \cap ClientsOf(p) # {}

\* create only logs what fails and goes on; the others stop and answer an error.
WriteFails(q, w) ==
  /\ At(q, w)
  /\ \/ Conflicts(q, w) /\ UNCHANGED failures
     \/ failures < MaxFailures /\ failures' = failures + 1
  /\ IF w \in {CreateTeam, CreateClients}
     THEN request' = [request EXCEPT ![q].todo = @ \ {w}, ![q].clean = FALSE]
     ELSE Ends(q)
  /\ unreset' = IF w = Reset THEN unreset \cup {request[q].project} ELSE unreset
  /\ UNCHANGED <<made, member, client, requests>>

Answer(q) ==
  /\ Live(q) /\ request[q].todo = {}
  /\ Ends(q)
  /\ UNCHANGED <<made, member, client, unreset, requests, failures>>

-----------------------------------------------------------------------------
(* The other changes of a team, each a single query.                       *)

RemoveMember(p, u) ==
  /\ member[p][u] # None
  /\ requests < MaxRequests /\ requests' = requests + 1
  /\ member' = [member EXCEPT ![p][u] = None]
  /\ request' = Disturbed
  /\ UNCHANGED <<made, client, unreset, failures>>

RemoveClient(p, c) ==
  /\ client[p][c] # None
  /\ requests < MaxRequests /\ requests' = requests + 1
  /\ client' = [client EXCEPT ![p][c] = None]
  /\ request' = Disturbed
  /\ UNCHANGED <<made, member, unreset, failures>>

\* A further quotation of the project is approved: the representative of its
\* lead becomes one of the project, and no other is reset.
QuotationApproved(p, c) ==
  /\ p \in made /\ client[p][c] # "rep"
  /\ requests < MaxRequests /\ requests' = requests + 1
  /\ client' = [client EXCEPT ![p][c] = "rep"]
  /\ unreset' = unreset \cup {p}
  /\ request' = Disturbed
  /\ UNCHANGED <<made, member, failures>>

Write(q) ==
  \/ AddMembers(q, AddIncharge, "incharge") \/ AddMembers(q, AddSupport, "support")
  \/ SetRole(q, SetIncharge, "incharge") \/ SetRole(q, SetSupport, "support")
  \/ AppointRepresentative(q) \/ ResetOthers(q) \/ EnrollClients(q)
  \/ InsertTeam(q) \/ InsertClients(q)
  \/ \E w \in Writes : WriteFails(q, w)

Next ==
  \/ \E q \in Requests, p \in Projects, ask \in Asks :
       \/ \E update \in BOOLEAN : ReadTeam(q, p, ask, update)
       \/ Create(q, p, ask)
  \/ \E q \in Requests : Write(q) \/ Answer(q)
  \/ \E p \in Projects, u \in Users : RemoveMember(p, u)
  \/ \E p \in Projects, c \in Clients : RemoveClient(p, c) \/ QuotationApproved(p, c)

Spec == Init /\ [][Next]_vars

-----------------------------------------------------------------------------
(* Properties.                                                             *)

\* q has appointed the representative of p and has still to reset the others.
Resetting(q, p) ==
  request[q].project = p /\ Reset \in request[q].todo /\ Appoint \notin request[q].todo

(* A project never has two representatives, except while a request is      *)
(* between the two queries that appoint one and reset the others, after a  *)
(* request failed there, and after one came along with a further quotation *)
(* or with a creation that was overtaken: project.service.ts 1826-1875,    *)
(* whatever requests overlap.                                              *)
AtMostOneRepresentative ==
  \A p \in Projects : \A c, d \in Reps(p) :
    c # d => p \in unreset \/ \E q \in Requests : Resetting(q, p)

(* A request that nothing disturbed, and whose writes succeeded, leaves the *)
(* team it was asked for (project.service.ts 788-1022 and 1675-1904): each *)
(* user of one list only has its role, each client is there, and the       *)
(* representative represents.                                              *)
TeamAsAsked ==
  \A q \in Requests :
    LET p == request[q].project
        ask == request[q].ask
    IN  Live(q) /\ request[q].clean /\ request[q].todo = {} =>
          /\ \A u \in ask.incharge \ ask.support : member[p][u] = "incharge"
          /\ \A u \in ask.support \ ask.incharge : member[p][u] = "support"
          /\ ask.clients \subseteq ClientsOf(p)
          /\ ask.rep # None => ask.rep \in Reps(p)

(* A project that has a representative is left without one only by the     *)
(* removal of a client, or by two requests that overlapped, each of which  *)
(* reset the other's (project.service.ts:1842, 1863).                      *)
RepresentativeLost(q) == At(q, Reset) /\ ~request[q].clean

RepresentativeKept ==
  [][\A p \in Projects :
       Reps(p) # {} /\ Reps(p)' = {} =>
         \/ \E q \in Requests : RepresentativeLost(q) /\ request'[q] # request[q]
         \/ \E c \in ClientsOf(p) : ClientsOf(p)' = ClientsOf(p) \ {c}]_vars
=============================================================================
