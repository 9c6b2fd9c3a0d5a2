-------------------------- MODULE ProjectTeamProofs --------------------------
(***************************************************************************)
(* A project has one representative, for any number of projects, clients,  *)
(* users, requests and failures: two only while one of them is about to be *)
(* reset, or where the code does not reset it. A request that nothing      *)
(* disturbed leaves the team it was asked for, and a project keeps its     *)
(* representative but for the causes that are named. At the end, the       *)
(* enquiry that becomes a lead, and the quotations of a lead.              *)
(***************************************************************************)
EXTENDS Sales, SequenceTheorems, FiniteSetTheorems, TLAPS

(* A request that is to appoint is to reset right after, and one that is   *)
(* idle has nothing to write.                                              *)
ResetFollows ==
  \A q \in Requests :
    /\ Appoint \in request[q].todo => Reset \in request[q].todo
    /\ Reset \in request[q].todo =>
         Appoint \in request[q].todo \/ \A v \in request[q].todo : Reset <= v
    /\ request[q].project = None => request[q].todo = {}

Inv == TypeOK /\ ResetFollows /\ AtMostOneRepresentative

(* A property over the numbers of the writes.                              *)
LEMMA WritesAreNumbers ==
  /\ Writes \subseteq Nat /\ Appoint \in Writes /\ Reset \in Writes
  /\ AddIncharge \in Writes /\ SetIncharge \in Writes /\ AddSupport \in Writes
  /\ SetSupport \in Writes /\ AddClients \in Writes
  /\ CreateTeam \in Writes /\ CreateClients \in Writes
  /\ Appoint < Reset
BY DEF Writes, AddIncharge, SetIncharge, AddSupport, SetSupport, Appoint, Reset,
       AddClients, CreateTeam, CreateClients

LEMMA InitHolds == Init => Inv
<1> SUFFICES ASSUME Init PROVE Inv
  OBVIOUS
<1>1. Idle \in Request
  BY DEF Idle, Request, Ask, NoAsk, Roles
<1>2. TypeOK
  BY <1>1, ProjectTeamAssumption DEF Init, TypeOK
<1>3. ResetFollows
  BY DEF Init, ResetFollows, Idle
<1>4. AtMostOneRepresentative
  BY ProjectTeamAssumption DEF Init, AtMostOneRepresentative, Reps
<1> QED
  BY <1>2, <1>3, <1>4 DEF Inv

-----------------------------------------------------------------------------
(* The shape of a request.                                                 *)

(* What a request plans stays among the users, clients and writes.         *)
LEMMA PlanType ==
  ASSUME TypeOK, NEW p \in Projects, NEW ask \in Asks, NEW update \in BOOLEAN
  PROVE  /\ WritesFor(p, ask, update) \in SUBSET Writes
         /\ \A r \in Roles : /\ ToAdd(p, ask, r, update) \in SUBSET Users
                             /\ ToSet(p, ask, r, update) \in SUBSET Users
                             /\ Wanted(ask, r, FALSE) \in SUBSET Users
         /\ ToEnroll(p, ask) \in SUBSET Clients
         /\ ask \in Ask
<1>1. ask \in Ask
  BY ProjectTeamAssumption
<1>2. ASSUME NEW r \in Roles, NEW b \in BOOLEAN
      PROVE  Wanted(ask, r, b) \in SUBSET Users
  BY <1>1 DEF Ask, Wanted
<1>3. \A r \in Roles : ToAdd(p, ask, r, update) \in SUBSET Users
  BY <1>2 DEF ToAdd
<1>4. \A r \in Roles : ToSet(p, ask, r, update) \in SUBSET Users
  BY <1>2 DEF ToSet
<1>5. ToEnroll(p, ask) \in SUBSET Clients
  BY <1>1 DEF Ask, ToEnroll
<1>6. WritesFor(p, ask, update) \in SUBSET Writes
  BY WritesAreNumbers DEF WritesFor
<1> QED
  BY <1>1, <1>2, <1>3, <1>4, <1>5, <1>6

LEMMA DisturbedType ==
  ASSUME TypeOK
  PROVE  /\ Disturbed \in [Requests -> Request]
         /\ \A q \in Requests : /\ Disturbed[q].project = request[q].project
                                /\ Disturbed[q].todo = request[q].todo
BY DEF TypeOK, Disturbed, Request

(* A request that goes on or ends keeps its type.                          *)
LEMMA GoesType ==
  ASSUME TypeOK, NEW q \in Requests, NEW w \in Writes, Goes(q, w)
  PROVE  /\ request' \in [Requests -> Request]
         /\ request'[q].project = request[q].project
         /\ request'[q].todo = request[q].todo \ {w}
         /\ \A o \in Requests \ {q} : request'[o] = request[o]
BY DEF TypeOK, Goes, Request

LEMMA EndsType ==
  ASSUME TypeOK, NEW q \in Requests, Ends(q)
  PROVE  /\ request' \in [Requests -> Request]
         /\ request'[q].project = None
         /\ request'[q].todo = {}
         /\ \A o \in Requests \ {q} : request'[o] = request[o]
<1>1. Idle \in Request
  BY DEF Idle, Request, Ask, NoAsk, Roles
<1>2. request' = [request EXCEPT ![q] = Idle] /\ Idle.project = None /\ Idle.todo = {}
  BY DEF Ends, Idle
<1> QED
  BY <1>1, <1>2 DEF TypeOK

LEMMA BeginType ==
  ASSUME TypeOK, NEW q \in Requests, NEW p \in Projects, NEW ask \in Ask,
         NEW todo \in SUBSET Writes, NEW add \in [Roles -> SUBSET Users],
         NEW set \in [Roles -> SUBSET Users], NEW enroll \in BOOLEAN,
         NEW clients \in SUBSET Clients,
         Begin(q, p, ask, todo, add, set, enroll, clients)
  PROVE  /\ request' \in [Requests -> Request]
         /\ requests' \in 0..MaxRequests
         /\ request[q].project = None
         /\ request'[q].project = p
         /\ request'[q].todo = todo
         /\ \A o \in Requests \ {q} : /\ request'[o].project = request[o].project
                                      /\ request'[o].todo = request[o].todo
<1> DEFINE new == [project |-> p, ask |-> ask, todo |-> todo, add |-> add, set |-> set,
                   enroll |-> enroll, clients |-> clients, clean |-> Others(q) = {}]
<1>1. new \in Request /\ new.todo = todo /\ new.project = p
  BY DEF Request
<1>2. request' = [Disturbed EXCEPT ![q] = new]
  BY DEF Begin
<1>3. requests' \in 0..MaxRequests
  BY ProjectTeamAssumption DEF Begin, TypeOK
<1>4. request[q].project = None
  BY DEF Begin, Live
<1> HIDE DEF new
<1> QED
  BY <1>1, <1>2, <1>3, <1>4, DisturbedType

-----------------------------------------------------------------------------
(* Steps that leave the clients alone.                                     *)

(* The order of appointing and resetting survives a write of the request.  *)
LEMMA OrderKept ==
  ASSUME TypeOK, ResetFollows, NEW q \in Requests, NEW w \in Writes, At(q, w), w # Reset,
         \A o \in Requests : request'[o].project = request[o].project,
         \A o \in Requests \ {q} : request'[o].todo = request[o].todo,
         request'[q].todo = request[q].todo \ {w}
  PROVE  ResetFollows'
<1> SUFFICES ASSUME NEW o \in Requests
             PROVE  /\ Appoint \in request'[o].todo => Reset \in request'[o].todo
                    /\ Reset \in request'[o].todo =>
                         \/ Appoint \in request'[o].todo
                         \/ \A v \in request'[o].todo : Reset <= v
                    /\ request'[o].project = None => request'[o].todo = {}
  BY DEF ResetFollows
<1>1. CASE o # q
  BY <1>1 DEF ResetFollows
<1>2. CASE o = q
  <2>1. request[q].todo \subseteq Writes
    BY DEF TypeOK, Request
  <2>2. CASE w = Appoint
    <3>1. \A v \in request'[q].todo : v \in Nat /\ Appoint <= v /\ v # Appoint
      BY <2>1, <2>2, WritesAreNumbers DEF At
    <3>2. \A v \in request'[q].todo : Reset <= v
      BY <3>1 DEF Appoint, Reset
    <3> QED
      BY <1>2, <2>2, <3>2 DEF ResetFollows
  <2>3. CASE w # Appoint
    BY <1>2, <2>3 DEF ResetFollows
  <2> QED
    BY <2>2, <2>3
<1> QED
  BY <1>1, <1>2

(* A write of a request that leaves the clients alone.                     *)
LEMMA OtherWrite ==
  ASSUME Inv, NEW q \in Requests, NEW w \in Writes, At(q, w), w # Reset, w # Appoint,
         \A o \in Requests : request'[o].project = request[o].project,
         \A o \in Requests \ {q} : request'[o].todo = request[o].todo,
         request'[q].todo = request[q].todo \ {w},
         \A p \in Projects : Reps(p)' \subseteq Reps(p),
         unreset \subseteq unreset'
  PROVE  ResetFollows' /\ AtMostOneRepresentative'
<1>1. ResetFollows'
  BY OrderKept DEF Inv
<1>2. ASSUME NEW p \in Projects, NEW o \in Requests, Resetting(o, p)
      PROVE  Resetting(o, p)'
  BY <1>2 DEF Resetting
<1>3. AtMostOneRepresentative'
  BY <1>2 DEF Inv, AtMostOneRepresentative
<1> QED
  BY <1>1, <1>3

(* A request on no project that begins, or a change that disturbs requests.*)
LEMMA OtherStep ==
  ASSUME Inv,
         \A o \in Requests : \/ /\ request'[o].project = request[o].project
                                /\ request'[o].todo = request[o].todo
                             \/ /\ request[o].project = None
                                /\ request'[o].project # None
                                /\ Appoint \in request'[o].todo <=> Reset \in request'[o].todo,
         \A p \in Projects : Reps(p)' \subseteq Reps(p),
         unreset \subseteq unreset'
  PROVE  ResetFollows' /\ AtMostOneRepresentative'
<1>1. ResetFollows'
  BY DEF Inv, ResetFollows
<1>2. ASSUME NEW p \in Projects, NEW o \in Requests, Resetting(o, p)
      PROVE  Resetting(o, p)'
  BY <1>2, ProjectTeamAssumption DEF Resetting
<1>3. AtMostOneRepresentative'
  BY <1>2 DEF Inv, AtMostOneRepresentative
<1> QED
  BY <1>1, <1>3

LEMMA SameReps ==
  ASSUME UNCHANGED client
  PROVE  \A p \in Projects : Reps(p)' \subseteq Reps(p)
BY DEF Reps

-----------------------------------------------------------------------------
(* The actions.                                                            *)

LEMMA ReadTeamStep ==
  ASSUME Inv, NEW q \in Requests, NEW p \in Projects, NEW ask \in Asks,
         NEW update \in BOOLEAN, ReadTeam(q, p, ask, update)
  PROVE  Inv'
<1> DEFINE todo == WritesFor(p, ask, update)
<1>1. TypeOK
  BY DEF Inv
<1>2. /\ request' \in [Requests -> Request]
      /\ requests' \in 0..MaxRequests
      /\ request[q].project = None
      /\ request'[q].project = p
      /\ request'[q].todo = todo
      /\ \A o \in Requests \ {q} : /\ request'[o].project = request[o].project
                                   /\ request'[o].todo = request[o].todo
  <2> DEFINE add == [r \in Roles |-> ToAdd(p, ask, r, update)]
             set == [r \in Roles |-> ToSet(p, ask, r, update)]
             enroll == ask.rep # None /\ ask.rep \notin ClientsOf(p)
             clients == ToEnroll(p, ask)
  <2>1. enroll \in BOOLEAN
    OBVIOUS
  <2>2. /\ todo \in SUBSET Writes /\ clients \in SUBSET Clients /\ ask \in Ask
        /\ \A r \in Roles : /\ ToAdd(p, ask, r, update) \in SUBSET Users
                            /\ ToSet(p, ask, r, update) \in SUBSET Users
    BY <1>1, PlanType, Zenon
  <2>3. Begin(q, p, ask, todo, add, set, enroll, clients)
    BY DEF ReadTeam
  <2>4. add \in [Roles -> SUBSET Users] /\ set \in [Roles -> SUBSET Users]
    BY <2>2
  <2> HIDE DEF todo, add, set, enroll, clients
  <2> QED
    BY <1>1, <2>1, <2>2, <2>3, <2>4, BeginType
<1>3. Appoint \in todo <=> Reset \in todo
  BY DEF WritesFor, AddIncharge, SetIncharge, AddSupport, SetSupport, Appoint, Reset, AddClients
<1>4. TypeOK'
  BY <1>1, <1>2 DEF ReadTeam, TypeOK
<1>5. ResetFollows' /\ AtMostOneRepresentative'
  <2> HIDE DEF todo
  <2>1. unreset' = unreset /\ UNCHANGED client
    BY DEF ReadTeam
  <2> QED
    BY <1>2, <1>3, <2>1, OtherStep, SameReps, ProjectTeamAssumption
<1> QED
  BY <1>4, <1>5 DEF Inv

LEMMA CreateStep ==
  ASSUME Inv, NEW q \in Requests, NEW p \in Projects, NEW ask \in Asks, Create(q, p, ask)
  PROVE  Inv'
<1>1. TypeOK
  BY DEF Inv
<1>2. /\ request' \in [Requests -> Request]
      /\ requests' \in 0..MaxRequests
      /\ request[q].project = None
      /\ request'[q].project = p
      /\ request'[q].todo = {CreateTeam, CreateClients}
      /\ \A o \in Requests \ {q} : /\ request'[o].project = request[o].project
                                   /\ request'[o].todo = request[o].todo
  <2>1. (ask.rep # None) \in BOOLEAN
    OBVIOUS
  <2>2. {CreateTeam, CreateClients} \in SUBSET Writes
    BY WritesAreNumbers
  <2>3. [r \in Roles |-> {}] \in [Roles -> SUBSET Users]
    OBVIOUS
  <2>4. /\ ask \in Ask /\ ask.clients \ {ask.rep} \in SUBSET Clients
        /\ [r \in Roles |-> Wanted(ask, r, FALSE)] \in [Roles -> SUBSET Users]
    <3>1. ask \in Ask /\ \A r \in Roles : Wanted(ask, r, FALSE) \in SUBSET Users
      BY <1>1, PlanType
    <3> QED
      BY <3>1 DEF Ask
  <2> QED
    BY <1>1, <2>1, <2>2, <2>3, <2>4, BeginType DEF Create
<1>3. Appoint \notin {CreateTeam, CreateClients} /\ Reset \notin {CreateTeam, CreateClients}
  BY DEF CreateTeam, CreateClients, Appoint, Reset
<1>4. TypeOK'
  BY <1>1, <1>2 DEF Create, TypeOK
<1>5. ResetFollows' /\ AtMostOneRepresentative'
  <2>1. unreset' = unreset /\ UNCHANGED client
    BY DEF Create
  <2> QED
    BY <1>2, <1>3, <2>1, OtherStep, SameReps, ProjectTeamAssumption
<1> QED
  BY <1>4, <1>5 DEF Inv
LEMMA AddMembersStep ==
  ASSUME Inv, NEW q \in Requests, NEW w \in {AddIncharge, AddSupport}, NEW role \in Roles,
         AddMembers(q, w, role)
  PROVE  Inv'
<1>1. w \in Writes /\ w # Reset /\ w # Appoint
  BY WritesAreNumbers DEF AddIncharge, AddSupport, Appoint, Reset
<1>2. At(q, w) /\ Goes(q, w) /\ TypeOK
  BY DEF AddMembers, Inv
<1>3. /\ request' \in [Requests -> Request]
      /\ request'[q].project = request[q].project
      /\ request'[q].todo = request[q].todo \ {w}
      /\ \A o \in Requests \ {q} : request'[o] = request[o]
  BY <1>1, <1>2, GoesType
<1>4. TypeOK'
  <2>1. member' \in [Projects -> [Users -> Roles \cup {None}]]
    BY <1>2 DEF AddMembers, TypeOK
  <2> QED
    BY <1>2, <1>3, <2>1 DEF AddMembers, TypeOK
<1>5. ResetFollows' /\ AtMostOneRepresentative'
  <2>1. unreset' = unreset /\ UNCHANGED client
    BY DEF AddMembers
  <2> QED
    BY <1>1, <1>2, <1>3, <2>1, OtherWrite, SameReps
<1> QED
  BY <1>4, <1>5 DEF Inv

LEMMA SetRoleStep ==
  ASSUME Inv, NEW q \in Requests, NEW w \in {SetIncharge, SetSupport}, NEW role \in Roles,
         SetRole(q, w, role)
  PROVE  Inv'
<1>1. w \in Writes /\ w # Reset /\ w # Appoint
  BY WritesAreNumbers DEF SetIncharge, SetSupport, Appoint, Reset
<1>2. At(q, w) /\ Goes(q, w) /\ TypeOK
  BY DEF SetRole, Inv
<1>3. /\ request' \in [Requests -> Request]
      /\ request'[q].project = request[q].project
      /\ request'[q].todo = request[q].todo \ {w}
      /\ \A o \in Requests \ {q} : request'[o] = request[o]
  BY <1>1, <1>2, GoesType
<1>4. TypeOK'
  <2>1. member' \in [Projects -> [Users -> Roles \cup {None}]]
    BY <1>2 DEF SetRole, TypeOK
  <2> QED
    BY <1>2, <1>3, <2>1 DEF SetRole, TypeOK
<1>5. ResetFollows' /\ AtMostOneRepresentative'
  <2>1. unreset' = unreset /\ UNCHANGED client
    BY DEF SetRole
  <2> QED
    BY <1>1, <1>2, <1>3, <2>1, OtherWrite, SameReps
<1> QED
  BY <1>4, <1>5 DEF Inv

LEMMA InsertTeamStep ==
  ASSUME Inv, NEW q \in Requests, InsertTeam(q)
  PROVE  Inv'
<1>1. CreateTeam \in Writes /\ CreateTeam # Reset /\ CreateTeam # Appoint
  BY WritesAreNumbers DEF CreateTeam, Appoint, Reset
<1>2. At(q, CreateTeam) /\ Goes(q, CreateTeam) /\ TypeOK
  BY DEF InsertTeam, Inv
<1>3. /\ request' \in [Requests -> Request]
      /\ request'[q].project = request[q].project
      /\ request'[q].todo = request[q].todo \ {CreateTeam}
      /\ \A o \in Requests \ {q} : request'[o] = request[o]
  BY <1>1, <1>2, GoesType
<1>4. TypeOK'
  <2>1. member' \in [Projects -> [Users -> Roles \cup {None}]]
    BY <1>2 DEF InsertTeam, TypeOK, Roles
  <2> QED
    BY <1>2, <1>3, <2>1 DEF InsertTeam, TypeOK
<1>5. ResetFollows' /\ AtMostOneRepresentative'
  <2>1. unreset' = unreset /\ UNCHANGED client
    BY DEF InsertTeam
  <2> QED
    BY <1>1, <1>2, <1>3, <2>1, OtherWrite, SameReps
<1> QED
  BY <1>4, <1>5 DEF Inv

LEMMA EnrollClientsStep ==
  ASSUME Inv, NEW q \in Requests, EnrollClients(q)
  PROVE  Inv'
<1>1. AddClients \in Writes /\ AddClients # Reset /\ AddClients # Appoint
  BY WritesAreNumbers DEF AddClients, Appoint, Reset
<1>2. At(q, AddClients) /\ Goes(q, AddClients) /\ TypeOK
  BY DEF EnrollClients, Inv
<1>3. /\ request' \in [Requests -> Request]
      /\ request'[q].project = request[q].project
      /\ request'[q].todo = request[q].todo \ {AddClients}
      /\ \A o \in Requests \ {q} : request'[o] = request[o]
  BY <1>1, <1>2, GoesType
<1>4. TypeOK'
  <2>1. client' \in [Projects -> [Clients -> {"client", "rep", None}]]
    BY <1>2 DEF EnrollClients, TypeOK
  <2> QED
    BY <1>2, <1>3, <2>1 DEF EnrollClients, TypeOK
<1>5. ResetFollows' /\ AtMostOneRepresentative'
  <2>1. unreset' = unreset
    BY DEF EnrollClients
  <2>2. \A p \in Projects : Reps(p)' \subseteq Reps(p)
    BY <1>2 DEF EnrollClients, Reps, TypeOK
  <2> QED
    BY <1>1, <1>2, <1>3, <2>1, <2>2, OtherWrite
<1> QED
  BY <1>4, <1>5 DEF Inv

-----------------------------------------------------------------------------
(* The writes that move the representative.                                *)

LEMMA AppointStep ==
  ASSUME Inv, NEW q \in Requests, AppointRepresentative(q)
  PROVE  Inv'
<1> DEFINE p == request[q].project
           rep == request[q].ask.rep
<1>1. Appoint \in Writes /\ Reset # Appoint
  BY WritesAreNumbers DEF Appoint, Reset
<1>2. At(q, Appoint) /\ Goes(q, Appoint) /\ TypeOK
  BY DEF AppointRepresentative, Inv
<1>3. /\ request' \in [Requests -> Request]
      /\ request'[q].project = request[q].project
      /\ request'[q].todo = request[q].todo \ {Appoint}
      /\ \A o \in Requests \ {q} : request'[o] = request[o]
  BY <1>1, <1>2, GoesType
<1>4. client' = [client EXCEPT ![p][rep] = "rep"]
  BY DEF AppointRepresentative
<1>5. TypeOK'
  <2>1. client' \in [Projects -> [Clients -> {"client", "rep", None}]]
    BY <1>2, <1>4 DEF TypeOK
  <2> QED
    BY <1>2, <1>3, <2>1 DEF AppointRepresentative, TypeOK
<1>6. ResetFollows'
  BY <1>1, <1>2, <1>3, OrderKept DEF Inv
<1>7. Reset \in request'[q].todo /\ Appoint \notin request'[q].todo
  BY <1>1, <1>2, <1>3 DEF At, Inv, ResetFollows
<1>8. AtMostOneRepresentative'
  <2>1. ASSUME NEW s \in Projects, s # p
        PROVE  Reps(s)' = Reps(s)
    BY <1>2, <1>4, <2>1 DEF Reps, TypeOK
  <2>2. ASSUME NEW s \in Projects, s = p
        PROVE  Resetting(q, s)'
    BY <1>3, <1>7, <2>2 DEF Resetting
  <2>3. ASSUME NEW s \in Projects, NEW o \in Requests, Resetting(o, s)
        PROVE  Resetting(o, s)'
    BY <1>3, <1>7, <2>3 DEF Resetting
  <2>4. unreset' = unreset
    BY DEF AppointRepresentative
  <2>5. ASSUME NEW s \in Projects, NEW c \in Reps(s)', NEW d \in Reps(s)', c # d
        PROVE  s \in unreset' \/ \E o \in Requests : Resetting(o, s)'
    <3>1. CASE s = p
      BY <2>2, <3>1
    <3>2. CASE s # p
      <4>1. c \in Reps(s) /\ d \in Reps(s)
        BY <2>1, <3>2
      <4>2. s \in unreset \/ \E o \in Requests : Resetting(o, s)
        BY <2>5, <4>1 DEF Inv, AtMostOneRepresentative
      <4> QED
        BY <2>3, <2>4, <4>2
    <3> QED
      BY <3>1, <3>2
  <2> QED
    BY <2>5 DEF AtMostOneRepresentative
<1> QED
  BY <1>5, <1>6, <1>8 DEF Inv

LEMMA ResetStep ==
  ASSUME Inv, NEW q \in Requests, ResetOthers(q)
  PROVE  Inv'
<1> DEFINE p == request[q].project
           rep == request[q].ask.rep
<1>1. Reset \in Writes /\ Reset # Appoint
  BY WritesAreNumbers DEF Appoint, Reset
<1>2. At(q, Reset) /\ Goes(q, Reset) /\ TypeOK
  BY DEF ResetOthers, Inv
<1>3. /\ request' \in [Requests -> Request]
      /\ request'[q].project = request[q].project
      /\ request'[q].todo = request[q].todo \ {Reset}
      /\ \A o \in Requests \ {q} : request'[o] = request[o]
  BY <1>1, <1>2, GoesType
<1>4. client' = [client EXCEPT ![p] = [c \in Clients |->
        IF c # rep /\ @[c] # None THEN "client" ELSE @[c]]]
  BY DEF ResetOthers
<1>5. TypeOK'
  <2>1. client' \in [Projects -> [Clients -> {"client", "rep", None}]]
    BY <1>2, <1>4 DEF TypeOK
  <2> QED
    BY <1>2, <1>3, <2>1 DEF ResetOthers, TypeOK
<1>6. ResetFollows'
  <2>1. Appoint \notin request[q].todo
    BY <1>2, WritesAreNumbers DEF At, Appoint, Reset
  <2> QED
    BY <1>3, <2>1 DEF Inv, ResetFollows
<1>7. AtMostOneRepresentative'
  <2> SUFFICES ASSUME NEW s \in Projects, NEW c \in Reps(s)', NEW d \in Reps(s)', c # d
               PROVE  s \in unreset' \/ \E o \in Requests : Resetting(o, s)'
    BY DEF AtMostOneRepresentative
  <2>1. s # p
    BY <1>2, <1>4, ProjectTeamAssumption DEF Reps, TypeOK
  <2>2. Reps(s)' = Reps(s)
    BY <1>2, <1>4, <2>1 DEF Reps, TypeOK
  <2>3. ASSUME NEW o \in Requests, Resetting(o, s)
        PROVE  Resetting(o, s)'
    BY <1>3, <2>1, <2>3 DEF Resetting
  <2>4. s \in unreset => s \in unreset'
    BY <2>1 DEF ResetOthers
  <2> QED
    BY <2>2, <2>3, <2>4 DEF Inv, AtMostOneRepresentative
<1> QED
  BY <1>5, <1>6, <1>7 DEF Inv

LEMMA InsertClientsStep ==
  ASSUME Inv, NEW q \in Requests, InsertClients(q)
  PROVE  Inv'
<1> DEFINE p == request[q].project
           rep == request[q].ask.rep
           new == request[q].clients
<1>1. CreateClients \in Writes /\ CreateClients # Reset /\ CreateClients # Appoint
  BY WritesAreNumbers DEF CreateClients, Appoint, Reset
<1>2. At(q, CreateClients) /\ Goes(q, CreateClients) /\ TypeOK
  BY DEF InsertClients, Inv
<1>3. /\ request' \in [Requests -> Request]
      /\ request'[q].project = request[q].project
      /\ request'[q].todo = request[q].todo \ {CreateClients}
      /\ \A o \in Requests \ {q} : request'[o] = request[o]
  BY <1>1, <1>2, GoesType
<1>4. client' = [client EXCEPT ![p] = [c \in Clients |->
        IF c = rep THEN "rep" ELSE IF c \in new THEN "client" ELSE @[c]]]
  BY DEF InsertClients
<1>5. unreset' = IF rep # None /\ Reps(p) # {} THEN unreset \cup {p} ELSE unreset
  BY DEF InsertClients
<1>6. TypeOK'
  <2>1. client' \in [Projects -> [Clients -> {"client", "rep", None}]]
    BY <1>2, <1>4 DEF TypeOK
  <2>2. p \in Projects
    BY <1>2 DEF TypeOK, Request, At, Inv, ResetFollows
  <2>3. unreset' \in SUBSET Projects
    BY <1>2, <1>5, <2>2 DEF TypeOK
  <2> QED
    BY <1>2, <1>3, <2>1, <2>3 DEF InsertClients, TypeOK
<1>7. ResetFollows'
  BY <1>1, <1>2, <1>3, OrderKept DEF Inv
<1>8. AtMostOneRepresentative'
  <2> SUFFICES ASSUME NEW s \in Projects, NEW c \in Reps(s)', NEW d \in Reps(s)', c # d
               PROVE  s \in unreset' \/ \E o \in Requests : Resetting(o, s)'
    BY DEF AtMostOneRepresentative
  <2>1. ASSUME NEW o \in Requests, Resetting(o, s)
        PROVE  Resetting(o, s)'
    BY <1>1, <1>3, <2>1 DEF Resetting
  <2>2. unreset \subseteq unreset'
    BY <1>5
  <2>3. CASE Reps(s)' \subseteq Reps(s)
    BY <2>1, <2>2, <2>3 DEF Inv, AtMostOneRepresentative
  <2>4. CASE s # p
    <3>1. Reps(s)' = Reps(s)
      BY <1>2, <1>4, <2>4 DEF Reps, TypeOK
    <3> QED
      BY <2>3, <3>1
  <2>5. CASE s = p /\ rep = None
    <3>1. Reps(s)' \subseteq Reps(s)
      BY <1>2, <1>4, <2>5, ProjectTeamAssumption DEF Reps, TypeOK
    <3> QED
      BY <2>3, <3>1
  <2>6. CASE s = p /\ rep # None /\ Reps(p) = {}
    <3>1. Reps(s)' \subseteq {rep}
      BY <1>2, <1>4, <2>6 DEF Reps, TypeOK
    <3> QED
      BY <3>1
  <2>7. CASE s = p /\ rep # None /\ Reps(p) # {}
    BY <1>5, <2>7
  <2> QED
    BY <2>4, <2>5, <2>6, <2>7
<1> QED
  BY <1>6, <1>7, <1>8 DEF Inv
-----------------------------------------------------------------------------
(* A request that ends, and the other changes.                             *)

LEMMA EndedStep ==
  ASSUME Inv, NEW q \in Requests, Ends(q),
         \A p \in Projects : Reps(p)' \subseteq Reps(p),
         unreset \subseteq unreset',
         \A p \in Projects : Resetting(q, p) => p \in unreset'
  PROVE  ResetFollows' /\ AtMostOneRepresentative'
<1>1. /\ request'[q].project = None
      /\ request'[q].todo = {}
      /\ \A o \in Requests \ {q} : request'[o] = request[o]
  BY EndsType DEF Inv
<1>2. ResetFollows'
  BY <1>1 DEF Inv, ResetFollows
<1>3. ASSUME NEW p \in Projects, NEW c \in Reps(p)', NEW d \in Reps(p)', c # d
      PROVE  p \in unreset' \/ \E o \in Requests : Resetting(o, p)'
  <2>1. p \in unreset \/ \E o \in Requests : Resetting(o, p)
    BY <1>3 DEF Inv, AtMostOneRepresentative
  <2>2. ASSUME NEW o \in Requests \ {q}, Resetting(o, p)
        PROVE  Resetting(o, p)'
    BY <1>1, <2>2 DEF Resetting
  <2> QED
    BY <2>1, <2>2
<1> QED
  BY <1>2, <1>3 DEF AtMostOneRepresentative

LEMMA WriteFailsStep ==
  ASSUME Inv, NEW q \in Requests, NEW w \in Writes, WriteFails(q, w)
  PROVE  Inv'
<1>1. TypeOK /\ At(q, w) /\ UNCHANGED <<made, member, client, requests>>
  BY DEF Inv, WriteFails
<1>2. failures' \in 0..MaxFailures
  BY <1>1, ProjectTeamAssumption DEF WriteFails, TypeOK
<1>3. unreset \subseteq unreset'
  BY DEF WriteFails
<1>4. unreset' \in SUBSET Projects
  <2>1. request[q].project \in Projects
    BY <1>1 DEF TypeOK, Request, At, Inv, ResetFollows
  <2> QED
    BY <1>1, <2>1 DEF WriteFails, TypeOK
<1>5. CASE w \in {CreateTeam, CreateClients}
  <2>1. w # Reset /\ w # Appoint
    BY <1>5 DEF CreateTeam, CreateClients, Appoint, Reset
  <2>2. request' = [request EXCEPT ![q].todo = @ \ {w}, ![q].clean = FALSE]
    BY <1>5 DEF WriteFails
  <2>3. /\ request' \in [Requests -> Request]
        /\ request'[q].project = request[q].project
        /\ request'[q].todo = request[q].todo \ {w}
        /\ \A o \in Requests \ {q} : request'[o] = request[o]
    <3> DEFINE row == [request[q] EXCEPT !.todo = @ \ {w}, !.clean = FALSE]
    <3>1. request \in [Requests -> Request] /\ request[q] \in Request
      BY <1>1 DEF TypeOK
    <3>2. row \in Request /\ row.project = request[q].project /\ row.todo = request[q].todo \ {w}
      BY <3>1 DEF Request
    <3>3. request' = [request EXCEPT ![q] = row]
      BY <2>2, <3>1 DEF Request
    <3> HIDE DEF row
    <3> QED
      BY <3>1, <3>2, <3>3
  <2>4. ResetFollows' /\ AtMostOneRepresentative'
    BY <1>1, <1>3, <2>1, <2>3, OtherWrite, SameReps
  <2>5. TypeOK'
    BY <1>1, <1>2, <1>4, <2>3 DEF TypeOK
  <2> QED
    BY <2>4, <2>5 DEF Inv
<1>6. CASE w \notin {CreateTeam, CreateClients}
  <2>1. Ends(q)
    BY <1>6 DEF WriteFails
  <2>2. ASSUME NEW p \in Projects, Resetting(q, p)
        PROVE  p \in unreset'
    <3>1. \A v \in request[q].todo : Reset <= v
      BY <2>2 DEF Resetting, Inv, ResetFollows
    <3>2. w = Reset
      <4>1. w \in request[q].todo /\ w <= Reset
        BY <1>1, <2>2 DEF At, Resetting
      <4>2. Reset <= w
        BY <3>1, <4>1
      <4> QED
        BY <4>1, <4>2 DEF Writes, Reset
    <3> QED
      BY <2>2, <3>2 DEF WriteFails, Resetting
  <2>3. ResetFollows' /\ AtMostOneRepresentative'
    BY <1>1, <1>3, <2>1, <2>2, EndedStep, SameReps
  <2>4. request' \in [Requests -> Request]
    BY <1>1, <2>1, EndsType
  <2>5. TypeOK'
    BY <1>1, <1>2, <1>4, <2>4 DEF TypeOK
  <2> QED
    BY <2>3, <2>5 DEF Inv
<1> QED
  BY <1>5, <1>6

LEMMA AnswerStep ==
  ASSUME Inv, NEW q \in Requests, Answer(q)
  PROVE  Inv'
<1>1. TypeOK /\ Ends(q) /\ request[q].todo = {}
      /\ UNCHANGED <<made, member, client, unreset, requests, failures>>
  BY DEF Inv, Answer
<1>2. request' \in [Requests -> Request]
  BY <1>1, EndsType
<1>3. \A p \in Projects : ~Resetting(q, p)
  BY <1>1 DEF Resetting
<1>4. ResetFollows' /\ AtMostOneRepresentative'
  BY <1>1, <1>3, EndedStep, SameReps
<1>5. TypeOK'
  BY <1>1, <1>2 DEF TypeOK
<1> QED
  BY <1>4, <1>5 DEF Inv

LEMMA RemoveMemberStep ==
  ASSUME Inv, NEW p \in Projects, NEW u \in Users, RemoveMember(p, u)
  PROVE  Inv'
<1>1. TypeOK
  BY DEF Inv
<1>2. request' = Disturbed /\ UNCHANGED <<client, unreset>>
  BY DEF RemoveMember
<1>3. /\ request' \in [Requests -> Request]
      /\ \A o \in Requests : /\ request'[o].project = request[o].project
                             /\ request'[o].todo = request[o].todo
  BY <1>1, <1>2, DisturbedType
<1>4. ResetFollows' /\ AtMostOneRepresentative'
  BY <1>2, <1>3, OtherStep, SameReps
<1>5. TypeOK'
  BY <1>1, <1>3, ProjectTeamAssumption DEF RemoveMember, TypeOK
<1> QED
  BY <1>4, <1>5 DEF Inv

LEMMA RemoveClientStep ==
  ASSUME Inv, NEW p \in Projects, NEW c \in Clients, RemoveClient(p, c)
  PROVE  Inv'
<1>1. TypeOK
  BY DEF Inv
<1>2. request' = Disturbed /\ UNCHANGED unreset /\ client' = [client EXCEPT ![p][c] = None]
  BY DEF RemoveClient
<1>3. /\ request' \in [Requests -> Request]
      /\ \A o \in Requests : /\ request'[o].project = request[o].project
                             /\ request'[o].todo = request[o].todo
  BY <1>1, <1>2, DisturbedType
<1>4. \A s \in Projects : Reps(s)' \subseteq Reps(s)
  BY <1>1, <1>2, ProjectTeamAssumption DEF Reps, TypeOK
<1>5. ResetFollows' /\ AtMostOneRepresentative'
  BY <1>2, <1>3, <1>4, OtherStep
<1>6. TypeOK'
  BY <1>1, <1>3, ProjectTeamAssumption DEF RemoveClient, TypeOK
<1> QED
  BY <1>5, <1>6 DEF Inv

LEMMA QuotationApprovedStep ==
  ASSUME Inv, NEW p \in Projects, NEW c \in Clients, QuotationApproved(p, c)
  PROVE  Inv'
<1>1. TypeOK
  BY DEF Inv
<1>2. /\ request' = Disturbed /\ unreset' = unreset \cup {p}
      /\ client' = [client EXCEPT ![p][c] = "rep"]
  BY DEF QuotationApproved
<1>3. /\ request' \in [Requests -> Request]
      /\ \A o \in Requests : /\ request'[o].project = request[o].project
                             /\ request'[o].todo = request[o].todo
  BY <1>1, <1>2, DisturbedType
<1>4. ResetFollows'
  BY <1>3 DEF Inv, ResetFollows
<1>5. ASSUME NEW s \in Projects, NEW a \in Reps(s)', NEW b \in Reps(s)', a # b
      PROVE  s \in unreset' \/ \E o \in Requests : Resetting(o, s)'
  <2>1. CASE s = p
    BY <1>2, <2>1
  <2>2. CASE s # p
    <3>1. a \in Reps(s) /\ b \in Reps(s)
      BY <1>1, <1>2, <2>2 DEF Reps, TypeOK
    <3>2. s \in unreset \/ \E o \in Requests : Resetting(o, s)
      BY <1>5, <3>1 DEF Inv, AtMostOneRepresentative
    <3>3. ASSUME NEW o \in Requests, Resetting(o, s)
          PROVE  Resetting(o, s)'
      BY <1>3, <3>3 DEF Resetting
    <3> QED
      BY <1>2, <3>2, <3>3
  <2> QED
    BY <2>1, <2>2
<1>6. TypeOK'
  BY <1>1, <1>3, ProjectTeamAssumption DEF QuotationApproved, TypeOK
<1> QED
  BY <1>4, <1>5, <1>6 DEF Inv, AtMostOneRepresentative

LEMMA StutterStep == Inv /\ UNCHANGED vars => Inv'
<1> SUFFICES ASSUME Inv, UNCHANGED vars PROVE Inv'
  OBVIOUS
<1>1. TypeOK'
  BY DEF Inv, TypeOK, vars
<1>2. ResetFollows' /\ AtMostOneRepresentative'
  BY DEF Inv, ResetFollows, AtMostOneRepresentative, Resetting, Reps, vars
<1> QED
  BY <1>1, <1>2 DEF Inv

LEMMA StepKeeps == Inv /\ [Next]_vars => Inv'
<1> SUFFICES ASSUME Inv, [Next]_vars PROVE Inv'
  OBVIOUS
<1>1. ASSUME NEW q \in Requests, Write(q)
      PROVE  Inv'
  <2>1. "incharge" \in Roles /\ "support" \in Roles
    BY DEF Roles
  <2>2. CASE AddMembers(q, AddIncharge, "incharge") \/ AddMembers(q, AddSupport, "support")
    BY <2>1, <2>2, AddMembersStep
  <2>3. CASE SetRole(q, SetIncharge, "incharge") \/ SetRole(q, SetSupport, "support")
    BY <2>1, <2>3, SetRoleStep
  <2>4. CASE AppointRepresentative(q) \/ ResetOthers(q) \/ EnrollClients(q)
    BY <2>4, AppointStep, ResetStep, EnrollClientsStep
  <2>5. CASE InsertTeam(q) \/ InsertClients(q)
    BY <2>5, InsertTeamStep, InsertClientsStep
  <2>6. CASE \E w \in Writes : WriteFails(q, w)
    BY <2>6, WriteFailsStep
  <2> QED
    BY <1>1, <2>2, <2>3, <2>4, <2>5, <2>6 DEF Write
<1>2. ASSUME NEW q \in Requests, NEW p \in Projects, NEW ask \in Asks,
             NEW update \in BOOLEAN, ReadTeam(q, p, ask, update)
      PROVE  Inv'
  BY <1>2, ReadTeamStep
<1>3. ASSUME NEW q \in Requests, NEW p \in Projects, NEW ask \in Asks, Create(q, p, ask)
      PROVE  Inv'
  BY <1>3, CreateStep
<1>4. ASSUME NEW q \in Requests, Answer(q)
      PROVE  Inv'
  BY <1>4, AnswerStep
<1>5. ASSUME NEW p \in Projects, NEW u \in Users, RemoveMember(p, u)
      PROVE  Inv'
  BY <1>5, RemoveMemberStep
<1>6. ASSUME NEW p \in Projects, NEW c \in Clients, RemoveClient(p, c)
      PROVE  Inv'
  BY <1>6, RemoveClientStep
<1>7. ASSUME NEW p \in Projects, NEW c \in Clients, QuotationApproved(p, c)
      PROVE  Inv'
  BY <1>7, QuotationApprovedStep
<1> QED
  BY <1>1, <1>2, <1>3, <1>4, <1>5, <1>6, <1>7, StutterStep DEF Next

-----------------------------------------------------------------------------
(* Type correctness of the teams, for any number of projects and requests. *)
THEOREM TypeCorrect == Spec => []TypeOK
<1>1. Spec => []Inv
  BY InitHolds, StepKeeps, PTL DEF Spec
<1>2. Inv => TypeOK
  BY DEF Inv
<1> QED
  BY <1>1, <1>2, PTL

(* Whatever requests overlap and fail, a project has two representatives   *)
(* only while the reset of the others is pending or where the code makes   *)
(* none (updateProjectMember and update of project.service.ts).            *)
THEOREM OneRepresentative == Spec => []AtMostOneRepresentative
<1>1. Spec => []Inv
  BY InitHolds, StepKeeps, PTL DEF Spec
<1>2. Inv => AtMostOneRepresentative
  BY DEF Inv
<1> QED
  BY <1>1, <1>2, PTL

-----------------------------------------------------------------------------
(* A team is as it was asked for.                                          *)

List(ask, role) == IF role = "incharge" THEN ask.incharge ELSE ask.support

AddOf(role) == IF role = "incharge" THEN AddIncharge ELSE AddSupport
SetOf(role) == IF role = "incharge" THEN SetIncharge ELSE SetSupport

(* A request writes no more than it was asked for, never makes its         *)
(* representative a plain client, and resets only when it has one.         *)
Planned(r) ==
  /\ \A role \in Roles : /\ r.add[role] \subseteq List(r.ask, role)
                         /\ r.set[role] \subseteq List(r.ask, role)
  /\ r.clients \subseteq r.ask.clients \ {r.ask.rep}
  /\ Reset \in r.todo => r.ask.rep # None /\ CreateClients \notin r.todo

PlansHold == \A q \in Requests : Planned(request[q])

Clean(q) == Live(q) /\ request[q].clean

(* Nothing is in progress next to a request that was not disturbed.        *)
Alone == \A q, o \in Requests : Clean(q) /\ Live(o) => q = o

(* With the members m and the clients k of its project, request r has made *)
(* what it was asked for, or has it still to write.                        *)
MemberComes(r, u, role, m) ==
  \/ m[u] = role
  \/ (AddOf(role) \in r.todo \/ CreateTeam \in r.todo) /\ u \in r.add[role]
  \/ SetOf(role) \in r.todo /\ u \in r.set[role] /\ m[u] # None

ClientComes(r, c, k) ==
  \/ k[c] # None
  \/ (AddClients \in r.todo \/ CreateClients \in r.todo) /\ c \in r.clients
  \/ (Appoint \in r.todo \/ CreateClients \in r.todo) /\ c = r.ask.rep

RepComes(r, k) ==
  \/ r.ask.rep = None
  \/ k[r.ask.rep] = "rep"
  \/ Appoint \in r.todo \/ CreateClients \in r.todo

OnlyIn(ask, role) == {u \in List(ask, role) : \A o \in Roles \ {role} : u \notin List(ask, o)}

MembersCome(r, m) == \A role \in Roles : \A u \in OnlyIn(r.ask, role) : MemberComes(r, u, role, m)

ClientsCome(r, k) == \A c \in r.ask.clients : ClientComes(r, c, k)

Arrives(q) ==
  /\ MembersCome(request[q], member[request[q].project])
  /\ ClientsCome(request[q], client[request[q].project])
  /\ RepComes(request[q], client[request[q].project])

TInv ==
  /\ Inv /\ PlansHold /\ Alone
  /\ \A q \in Requests : Clean(q) => Arrives(q)

LEMMA InitTeam == Init => TInv
<1> SUFFICES ASSUME Init PROVE TInv
  OBVIOUS
<1>1. Inv
  BY InitHolds
<1>2. \A q \in Requests : request[q] = Idle
  BY DEF Init
<1>3. Planned(Idle)
  BY DEF Planned, Idle, NoAsk
<1>4. Idle.project = None
  BY DEF Idle
<1> QED
  BY <1>1, <1>2, <1>3, <1>4 DEF TInv, PlansHold, Alone, Clean, Live

(* The row of a request that goes on.                                      *)
LEMMA GoesRow ==
  ASSUME TypeOK, NEW q \in Requests, NEW w \in Writes, Goes(q, w)
  PROVE  /\ request'[q].project = request[q].project
         /\ request'[q].ask = request[q].ask
         /\ request'[q].add = request[q].add
         /\ request'[q].set = request[q].set
         /\ request'[q].clients = request[q].clients
         /\ request'[q].clean = request[q].clean
         /\ request'[q].todo = request[q].todo \ {w}
         /\ \A o \in Requests \ {q} : request'[o] = request[o]
BY DEF TypeOK, Goes, Request

(* A plan with less to do is still a plan.                                 *)
LEMMA PlanShrinks ==
  ASSUME NEW r, NEW s, Planned(r), s.ask = r.ask, s.add = r.add, s.set = r.set,
         s.clients = r.clients, s.todo \subseteq r.todo
  PROVE  Planned(s)
BY DEF Planned

LEMMA AtIsLive ==
  ASSUME Inv, NEW q \in Requests, NEW w \in Writes, At(q, w)
  PROVE  Live(q) /\ request[q].project \in Projects
BY DEF Inv, ResetFollows, At, Live, TypeOK, Request

(* What a write of q leaves to be shown: that q goes where it is to go.    *)
LEMMA WriteMade ==
  ASSUME TInv, NEW q \in Requests, NEW w \in Writes, At(q, w), Goes(q, w), Inv',
         Clean(q) => Arrives(q)'
  PROVE  TInv'
<1>1. Inv /\ TypeOK /\ Live(q)
  BY AtIsLive DEF TInv, Inv
<1>2. /\ request'[q].project = request[q].project
      /\ request'[q].ask = request[q].ask
      /\ request'[q].add = request[q].add
      /\ request'[q].set = request[q].set
      /\ request'[q].clients = request[q].clients
      /\ request'[q].clean = request[q].clean
      /\ request'[q].todo = request[q].todo \ {w}
      /\ \A o \in Requests \ {q} : request'[o] = request[o]
  BY <1>1, GoesRow
<1>3. PlansHold'
  <2> SUFFICES ASSUME NEW o \in Requests PROVE Planned(request'[o])
    BY DEF PlansHold
  <2>1. Planned(request[o])
    BY DEF TInv, PlansHold
  <2>2. CASE o = q
    BY <1>2, <2>1, <2>2, PlanShrinks
  <2> QED
    BY <1>2, <2>1, <2>2
<1>4. \A o \in Requests : (Clean(o)' <=> Clean(o)) /\ (Live(o)' <=> Live(o))
  BY <1>2 DEF Clean, Live
<1>5. Alone'
  BY <1>4 DEF TInv, Alone
<1>6. ASSUME NEW o \in Requests, Clean(o)'
      PROVE  Arrives(o)'
  <2>1. o = q
    BY <1>1, <1>4, <1>6 DEF TInv, Alone
  <2> QED
    BY <1>4, <1>6, <2>1
<1> QED
  BY <1>3, <1>5, <1>6 DEF TInv

LEMMA Ended ==
  ASSUME TInv, NEW q \in Requests, Ends(q), Inv', UNCHANGED <<member, client>>
  PROVE  TInv'
<1>1. request'[q] = Idle /\ \A o \in Requests \ {q} : request'[o] = request[o]
  BY DEF Ends, TInv, Inv, TypeOK
<1>2. Planned(Idle) /\ Idle.project = None
  BY DEF Planned, Idle, NoAsk
<1>3. PlansHold'
  BY <1>1, <1>2 DEF TInv, PlansHold
<1>4. \A o \in Requests : Live(o)' => o # q /\ Live(o)
  BY <1>1, <1>2 DEF Live
<1>5. \A o \in Requests : Clean(o)' => o # q /\ Clean(o)
  BY <1>1, <1>4 DEF Clean
<1>6. Alone'
  BY <1>4, <1>5 DEF TInv, Alone
<1>7. \A o \in Requests : Clean(o)' => Arrives(o)'
  BY <1>1, <1>5 DEF TInv, Arrives
<1> QED
  BY <1>3, <1>6, <1>7 DEF TInv

LEMMA DisturbedRow ==
  ASSUME TypeOK, NEW q \in Requests
  PROVE  /\ Disturbed[q].project = request[q].project
         /\ Disturbed[q].ask = request[q].ask
         /\ Disturbed[q].add = request[q].add
         /\ Disturbed[q].set = request[q].set
         /\ Disturbed[q].clients = request[q].clients
         /\ Disturbed[q].todo = request[q].todo
         /\ Disturbed[q].clean = FALSE
BY DEF TypeOK, Disturbed, Request

LEMMA OthersDisturb ==
  ASSUME TInv, Inv', request' = Disturbed
  PROVE  TInv'
<1>1. ASSUME NEW q \in Requests
      PROVE  Planned(Disturbed[q]) /\ Disturbed[q].clean = FALSE
  <2>1. Planned(request[q]) /\ TypeOK
    BY DEF TInv, PlansHold, Inv
  <2> QED
    BY <2>1, DisturbedRow, PlanShrinks
<1>2. \A q \in Requests : ~Clean(q)'
  BY <1>1 DEF Clean
<1>3. PlansHold'
  BY <1>1 DEF PlansHold
<1> QED
  BY <1>2, <1>3 DEF TInv, Alone

-----------------------------------------------------------------------------
(* Each write brings the team nearer to what was asked for.                *)

(* What a write does not touch comes as before.                            *)
LEMMA MembersKept ==
  ASSUME NEW q \in Requests, NEW w \in Writes, TypeOK, Goes(q, w), Arrives(q),
         w \notin {AddIncharge, SetIncharge, AddSupport, SetSupport, CreateTeam},
         UNCHANGED member
  PROVE  MembersCome(request[q], member[request[q].project])'
BY GoesRow DEF Arrives, MembersCome, MemberComes, OnlyIn, AddOf, SetOf

LEMMA ClientsKept ==
  ASSUME NEW q \in Requests, NEW w \in Writes, TypeOK, Goes(q, w), Arrives(q),
         w \notin {AddClients, CreateClients, Appoint},
         UNCHANGED client
  PROVE  /\ ClientsCome(request[q], client[request[q].project])'
         /\ RepComes(request[q], client[request[q].project])'
BY GoesRow DEF Arrives, ClientsCome, ClientComes, RepComes

LEMMA AddMembersArrives ==
  ASSUME TInv, NEW q \in Requests, NEW role \in Roles, AddMembers(q, AddOf(role), role)
  PROVE  TInv'
<1> DEFINE w == AddOf(role)
<1>1. /\ w \in Writes /\ w \in {AddIncharge, AddSupport}
      /\ w \notin {AddClients, CreateClients, Appoint, CreateTeam, SetIncharge, SetSupport}
  BY DEF Roles, AddOf, Writes, AddIncharge, AddSupport, AddClients, CreateClients, Appoint,
         CreateTeam, SetIncharge, SetSupport
<1>2. At(q, w) /\ Goes(q, w) /\ UNCHANGED client
  BY DEF AddMembers
<1>3. Inv /\ TypeOK /\ Inv'
  BY <1>1, AddMembersStep DEF TInv, Inv
<1> HIDE DEF w
<1>4. request[q].project \in Projects
  BY <1>1, <1>2, <1>3, AtIsLive
<1>5. ASSUME Clean(q)
      PROVE  Arrives(q)'
  <2>1. Arrives(q) /\ Planned(request[q])
    BY <1>5 DEF TInv, PlansHold
  <2>2. \A u \in Users : member'[request[q].project][u]
          = IF u \in request[q].add[role] THEN role ELSE member[request[q].project][u]
    BY <1>3, <1>4 DEF AddMembers, TypeOK
  <2>3. /\ request'[q].project = request[q].project /\ request'[q].ask = request[q].ask
        /\ request'[q].add = request[q].add /\ request'[q].set = request[q].set
        /\ request'[q].todo = request[q].todo \ {w}
    BY <1>1, <1>2, <1>3, GoesRow
  <2>4. ASSUME NEW s \in Roles, NEW u \in OnlyIn(request[q].ask, s)
        PROVE  MemberComes(request[q], u, s, member[request[q].project])'
    <3>1. u \in Users
      BY <1>3, <2>4 DEF OnlyIn, List, TypeOK, Request, Ask
    <3>2. MemberComes(request[q], u, s, member[request[q].project])
      BY <2>1, <2>4 DEF Arrives, MembersCome
    <3>3. CASE u \in request[q].add[role]
      <4>1. s = role
        BY <2>1, <2>4, <3>3 DEF Planned, OnlyIn
      <4> QED
        BY <2>2, <2>3, <3>1, <3>3, <4>1 DEF MemberComes
    <3>4. CASE u \notin request[q].add[role]
      <4>1. member'[request[q].project][u] = member[request[q].project][u]
        BY <2>2, <3>1, <3>4
      <4>2. s # role => AddOf(s) # w
        BY DEF w, AddOf, Roles, AddIncharge, AddSupport
      <4>3. SetOf(s) # w
        BY <1>1 DEF SetOf
      <4> QED
        BY <1>1, <2>3, <3>2, <3>4, <4>1, <4>2, <4>3 DEF MemberComes
    <3> QED
      BY <3>3, <3>4
  <2>5. MembersCome(request[q], member[request[q].project])'
    BY <2>3, <2>4 DEF MembersCome
  <2>6. /\ ClientsCome(request[q], client[request[q].project])'
        /\ RepComes(request[q], client[request[q].project])'
    BY <1>1, <1>2, <1>3, <2>1, ClientsKept
  <2> QED
    BY <2>5, <2>6 DEF Arrives
<1> QED
  BY <1>1, <1>2, <1>3, <1>5, WriteMade

LEMMA SetRoleArrives ==
  ASSUME TInv, NEW q \in Requests, NEW role \in Roles, SetRole(q, SetOf(role), role)
  PROVE  TInv'
<1> DEFINE w == SetOf(role)
<1>1. /\ w \in Writes /\ w \in {SetIncharge, SetSupport}
      /\ w \notin {AddClients, CreateClients, Appoint, CreateTeam, AddIncharge, AddSupport}
  BY DEF Roles, SetOf, Writes, AddIncharge, AddSupport, AddClients, CreateClients, Appoint,
         CreateTeam, SetIncharge, SetSupport
<1>2. At(q, w) /\ Goes(q, w) /\ UNCHANGED client
  BY DEF SetRole
<1>3. Inv /\ TypeOK /\ Inv'
  BY <1>1, SetRoleStep DEF TInv, Inv
<1> HIDE DEF w
<1>4. request[q].project \in Projects
  BY <1>1, <1>2, <1>3, AtIsLive
<1>5. ASSUME Clean(q)
      PROVE  Arrives(q)'
  <2>1. Arrives(q) /\ Planned(request[q])
    BY <1>5 DEF TInv, PlansHold
  <2>2. \A u \in Users : member'[request[q].project][u]
          = IF u \in request[q].set[role] /\ member[request[q].project][u] # None
            THEN role ELSE member[request[q].project][u]
    BY <1>3, <1>4 DEF SetRole, TypeOK
  <2>3. /\ request'[q].project = request[q].project /\ request'[q].ask = request[q].ask
        /\ request'[q].add = request[q].add /\ request'[q].set = request[q].set
        /\ request'[q].todo = request[q].todo \ {w}
    BY <1>1, <1>2, <1>3, GoesRow
  <2>4. ASSUME NEW s \in Roles, NEW u \in OnlyIn(request[q].ask, s)
        PROVE  MemberComes(request[q], u, s, member[request[q].project])'
    <3>1. u \in Users
      BY <1>3, <2>4 DEF OnlyIn, List, TypeOK, Request, Ask
    <3>2. MemberComes(request[q], u, s, member[request[q].project])
      BY <2>1, <2>4 DEF Arrives, MembersCome
    <3>3. AddOf(s) # w
      BY <1>1 DEF AddOf
    <3>4. CASE u \in request[q].set[role]
      <4>1. s = role
        BY <2>1, <2>4, <3>4 DEF Planned, OnlyIn
      <4>2. member[request[q].project][u] # None => member'[request[q].project][u] = s
        BY <2>2, <3>1, <3>4, <4>1
      <4>3. member[request[q].project][u] = None
              => AddOf(s) \in request[q].todo \/ CreateTeam \in request[q].todo
        BY <3>2, <4>1, ProjectTeamAssumption DEF MemberComes
      <4> QED
        BY <1>1, <2>3, <3>2, <3>3, <4>2, ProjectTeamAssumption DEF MemberComes
    <3>5. CASE u \notin request[q].set[role]
      <4>1. member'[request[q].project][u] = member[request[q].project][u]
        BY <2>2, <3>1, <3>5
      <4>2. s # role => SetOf(s) # w
        BY DEF w, SetOf, Roles, SetIncharge, SetSupport
      <4> QED
        BY <1>1, <2>3, <3>2, <3>3, <3>5, <4>1, <4>2 DEF MemberComes
    <3> QED
      BY <3>4, <3>5
  <2>5. MembersCome(request[q], member[request[q].project])'
    BY <2>3, <2>4 DEF MembersCome
  <2>6. /\ ClientsCome(request[q], client[request[q].project])'
        /\ RepComes(request[q], client[request[q].project])'
    BY <1>1, <1>2, <1>3, <2>1, ClientsKept
  <2> QED
    BY <2>5, <2>6 DEF Arrives
<1> QED
  BY <1>1, <1>2, <1>3, <1>5, WriteMade

LEMMA InsertTeamArrives ==
  ASSUME TInv, NEW q \in Requests, InsertTeam(q)
  PROVE  TInv'
<1>1. /\ CreateTeam \in Writes
      /\ CreateTeam \notin {AddClients, CreateClients, Appoint}
      /\ CreateTeam \notin {AddIncharge, AddSupport, SetIncharge, SetSupport}
  BY DEF Writes, AddClients, CreateClients, Appoint, CreateTeam, AddIncharge, AddSupport,
         SetIncharge, SetSupport
<1>2. At(q, CreateTeam) /\ Goes(q, CreateTeam) /\ UNCHANGED client
  BY DEF InsertTeam
<1>3. Inv /\ TypeOK /\ Inv'
  BY InsertTeamStep DEF TInv, Inv
<1>4. request[q].project \in Projects
  BY <1>1, <1>2, <1>3, AtIsLive
<1>5. ASSUME Clean(q)
      PROVE  Arrives(q)'
  <2>1. Arrives(q) /\ Planned(request[q])
    BY <1>5 DEF TInv, PlansHold
  <2>2. \A u \in Users : member'[request[q].project][u]
          = IF u \in request[q].add["incharge"] THEN "incharge"
            ELSE IF u \in request[q].add["support"] THEN "support"
            ELSE member[request[q].project][u]
    BY <1>3, <1>4 DEF InsertTeam, TypeOK
  <2>3. /\ request'[q].project = request[q].project /\ request'[q].ask = request[q].ask
        /\ request'[q].add = request[q].add /\ request'[q].set = request[q].set
        /\ request'[q].todo = request[q].todo \ {CreateTeam}
    BY <1>1, <1>2, <1>3, GoesRow
  <2>4. ASSUME NEW s \in Roles, NEW u \in OnlyIn(request[q].ask, s)
        PROVE  MemberComes(request[q], u, s, member[request[q].project])'
    <3>1. u \in Users
      BY <1>3, <2>4 DEF OnlyIn, List, TypeOK, Request, Ask
    <3>2. MemberComes(request[q], u, s, member[request[q].project])
      BY <2>1, <2>4 DEF Arrives, MembersCome
    <3>3. \A o \in Roles \ {s} : u \notin request[q].add[o]
      BY <2>1, <2>4 DEF Planned, OnlyIn
    <3>4. CASE u \in request[q].add[s]
      <4>1. member'[request[q].project][u] = s
        BY <2>2, <3>1, <3>3, <3>4 DEF Roles
      <4> QED
        BY <2>3, <4>1 DEF MemberComes
    <3>5. CASE u \notin request[q].add[s]
      <4>1. member'[request[q].project][u] = member[request[q].project][u]
        BY <2>2, <3>1, <3>3, <3>5 DEF Roles
      <4>2. SetOf(s) # CreateTeam
        BY <1>1 DEF SetOf
      <4> QED
        BY <2>3, <3>2, <3>5, <4>1, <4>2 DEF MemberComes
    <3> QED
      BY <3>4, <3>5
  <2>5. MembersCome(request[q], member[request[q].project])'
    BY <2>3, <2>4 DEF MembersCome
  <2>6. /\ ClientsCome(request[q], client[request[q].project])'
        /\ RepComes(request[q], client[request[q].project])'
    BY <1>1, <1>2, <1>3, <2>1, ClientsKept
  <2> QED
    BY <2>5, <2>6 DEF Arrives
<1> QED
  BY <1>1, <1>2, <1>3, <1>5, WriteMade

(* The row of an appointed representative is written where it belongs.     *)
LEMMA AppointArrives ==
  ASSUME TInv, NEW q \in Requests, AppointRepresentative(q)
  PROVE  TInv'
<1> DEFINE p == request[q].project
<1>1. /\ Appoint \in Writes
      /\ Appoint \notin {AddClients, CreateClients}
      /\ Appoint \notin {AddIncharge, AddSupport, SetIncharge, SetSupport, CreateTeam}
  BY DEF Writes, AddClients, CreateClients, Appoint, CreateTeam, AddIncharge, AddSupport,
         SetIncharge, SetSupport
<1>2. At(q, Appoint) /\ Goes(q, Appoint) /\ UNCHANGED member
      /\ client' = [client EXCEPT ![p][request[q].ask.rep] = "rep"]
  BY DEF AppointRepresentative
<1>3. Inv /\ TypeOK /\ Inv'
  BY AppointStep DEF TInv, Inv
<1>4. p \in Projects
  BY <1>1, <1>2, <1>3, AtIsLive
<1>5. ASSUME Clean(q)
      PROVE  Arrives(q)'
  <2>1. Arrives(q)
    BY <1>5 DEF TInv
  <2>2. \A c \in Clients : client'[p][c] = IF c = request[q].ask.rep THEN "rep" ELSE client[p][c]
    BY <1>2, <1>3, <1>4 DEF TypeOK
  <2>3. /\ request'[q].project = p /\ request'[q].ask = request[q].ask
        /\ request'[q].clients = request[q].clients
        /\ request'[q].todo = request[q].todo \ {Appoint}
    BY <1>1, <1>2, <1>3, GoesRow
  <2>4. request[q].ask.clients \subseteq Clients /\ request[q].ask.rep \in Clients \cup {None}
    BY <1>3 DEF TypeOK, Request, Ask
  <2> HIDE DEF p
  <2>5. ASSUME NEW c \in request[q].ask.clients
        PROVE  ClientComes(request[q], c, client[request[q].project])'
    <3>1. ClientComes(request[q], c, client[p])
      BY <2>1 DEF Arrives, ClientsCome, p
    <3> QED
      BY <1>1, <2>2, <2>3, <2>4, <3>1, ProjectTeamAssumption DEF ClientComes
  <2>6. RepComes(request[q], client[request[q].project])'
    BY <2>2, <2>3, <2>4 DEF RepComes
  <2>7. MembersCome(request[q], member[request[q].project])'
    BY <1>1, <1>2, <1>3, <2>1, MembersKept
  <2> QED
    BY <2>3, <2>5, <2>6, <2>7 DEF Arrives, ClientsCome
<1> QED
  BY <1>1, <1>2, <1>3, <1>5, WriteMade

(* The reset leaves the representative of the request alone.               *)
LEMMA ResetArrives ==
  ASSUME TInv, NEW q \in Requests, ResetOthers(q)
  PROVE  TInv'
<1> DEFINE p == request[q].project
<1>1. /\ Reset \in Writes
      /\ Reset \notin {AddClients, CreateClients, Appoint}
      /\ Reset \notin {AddIncharge, AddSupport, SetIncharge, SetSupport, CreateTeam}
  BY DEF Writes, AddClients, CreateClients, Appoint, CreateTeam, AddIncharge, AddSupport,
         SetIncharge, SetSupport, Reset
<1>2. At(q, Reset) /\ Goes(q, Reset) /\ UNCHANGED member
  BY DEF ResetOthers
<1>3. Inv /\ TypeOK /\ Inv'
  BY ResetStep DEF TInv, Inv
<1>4. p \in Projects
  BY <1>1, <1>2, <1>3, AtIsLive
<1>5. ASSUME Clean(q)
      PROVE  Arrives(q)'
  <2>1. Arrives(q)
    BY <1>5 DEF TInv
  <2>2. \A c \in Clients : client'[p][c]
          = IF c # request[q].ask.rep /\ client[p][c] # None THEN "client" ELSE client[p][c]
    BY <1>3, <1>4 DEF ResetOthers, TypeOK
  <2>3. /\ request'[q].project = p /\ request'[q].ask = request[q].ask
        /\ request'[q].clients = request[q].clients
        /\ request'[q].todo = request[q].todo \ {Reset}
    BY <1>1, <1>2, <1>3, GoesRow
  <2>4. request[q].ask.clients \subseteq Clients /\ request[q].ask.rep \in Clients \cup {None}
    BY <1>3 DEF TypeOK, Request, Ask
  <2> HIDE DEF p
  <2>5. ASSUME NEW c \in request[q].ask.clients
        PROVE  ClientComes(request[q], c, client[request[q].project])'
    <3>1. ClientComes(request[q], c, client[p])
      BY <2>1 DEF Arrives, ClientsCome, p
    <3> QED
      BY <1>1, <2>2, <2>3, <2>4, <3>1, ProjectTeamAssumption DEF ClientComes
  <2>6. RepComes(request[q], client[request[q].project])'
    <3>1. RepComes(request[q], client[p])
      BY <2>1 DEF Arrives, p
    <3> QED
      BY <1>1, <2>2, <2>3, <2>4, <3>1 DEF RepComes
  <2>7. MembersCome(request[q], member[request[q].project])'
    BY <1>1, <1>2, <1>3, <2>1, MembersKept
  <2> QED
    BY <2>3, <2>5, <2>6, <2>7 DEF Arrives, ClientsCome
<1> QED
  BY <1>1, <1>2, <1>3, <1>5, WriteMade

LEMMA EnrollClientsArrives ==
  ASSUME TInv, NEW q \in Requests, EnrollClients(q)
  PROVE  TInv'
<1> DEFINE p == request[q].project
<1>1. /\ AddClients \in Writes
      /\ AddClients \notin {CreateClients, Appoint}
      /\ AddClients \notin {AddIncharge, AddSupport, SetIncharge, SetSupport, CreateTeam}
  BY DEF Writes, AddClients, CreateClients, Appoint, CreateTeam, AddIncharge, AddSupport,
         SetIncharge, SetSupport
<1>2. At(q, AddClients) /\ Goes(q, AddClients) /\ UNCHANGED member
  BY DEF EnrollClients
<1>3. Inv /\ TypeOK /\ Inv'
  BY EnrollClientsStep DEF TInv, Inv
<1>4. p \in Projects
  BY <1>1, <1>2, <1>3, AtIsLive
<1>5. ASSUME Clean(q)
      PROVE  Arrives(q)'
  <2>1. Arrives(q) /\ Planned(request[q])
    BY <1>5 DEF TInv, PlansHold
  <2>2. \A c \in Clients : client'[p][c]
          = IF c \in request[q].clients THEN "client" ELSE client[p][c]
    BY <1>3, <1>4 DEF EnrollClients, TypeOK
  <2>3. /\ request'[q].project = p /\ request'[q].ask = request[q].ask
        /\ request'[q].clients = request[q].clients
        /\ request'[q].todo = request[q].todo \ {AddClients}
    BY <1>1, <1>2, <1>3, GoesRow
  <2>4. request[q].ask.clients \subseteq Clients /\ request[q].ask.rep \in Clients \cup {None}
    BY <1>3 DEF TypeOK, Request, Ask
  <2> HIDE DEF p
  <2>5. ASSUME NEW c \in request[q].ask.clients
        PROVE  ClientComes(request[q], c, client[request[q].project])'
    <3>1. ClientComes(request[q], c, client[p])
      BY <2>1 DEF Arrives, ClientsCome, p
    <3> QED
      BY <1>1, <2>2, <2>3, <2>4, <3>1, ProjectTeamAssumption DEF ClientComes
  <2>6. RepComes(request[q], client[request[q].project])'
    <3>1. RepComes(request[q], client[p])
      BY <2>1 DEF Arrives, p
    <3>2. request[q].ask.rep \notin request[q].clients
      BY <2>1 DEF Planned
    <3> QED
      BY <1>1, <2>2, <2>3, <2>4, <3>1, <3>2 DEF RepComes
  <2>7. MembersCome(request[q], member[request[q].project])'
    BY <1>1, <1>2, <1>3, <2>1, MembersKept
  <2> QED
    BY <2>3, <2>5, <2>6, <2>7 DEF Arrives, ClientsCome
<1> QED
  BY <1>1, <1>2, <1>3, <1>5, WriteMade

LEMMA InsertClientsArrives ==
  ASSUME TInv, NEW q \in Requests, InsertClients(q)
  PROVE  TInv'
<1> DEFINE p == request[q].project
<1>1. /\ CreateClients \in Writes
      /\ CreateClients \notin {AddClients, Appoint}
      /\ CreateClients \notin {AddIncharge, AddSupport, SetIncharge, SetSupport, CreateTeam}
  BY DEF Writes, AddClients, CreateClients, Appoint, CreateTeam, AddIncharge, AddSupport,
         SetIncharge, SetSupport
<1>2. At(q, CreateClients) /\ Goes(q, CreateClients) /\ UNCHANGED member
  BY DEF InsertClients
<1>3. Inv /\ TypeOK /\ Inv'
  BY InsertClientsStep DEF TInv, Inv
<1>4. p \in Projects
  BY <1>1, <1>2, <1>3, AtIsLive
<1>5. ASSUME Clean(q)
      PROVE  Arrives(q)'
  <2>1. Arrives(q)
    BY <1>5 DEF TInv
  <2>2. \A c \in Clients : client'[p][c]
          = IF c = request[q].ask.rep THEN "rep"
            ELSE IF c \in request[q].clients THEN "client" ELSE client[p][c]
    BY <1>3, <1>4 DEF InsertClients, TypeOK
  <2>3. /\ request'[q].project = p /\ request'[q].ask = request[q].ask
        /\ request'[q].clients = request[q].clients
        /\ request'[q].todo = request[q].todo \ {CreateClients}
    BY <1>1, <1>2, <1>3, GoesRow
  <2>4. request[q].ask.clients \subseteq Clients /\ request[q].ask.rep \in Clients \cup {None}
    BY <1>3 DEF TypeOK, Request, Ask
  <2> HIDE DEF p
  <2>5. ASSUME NEW c \in request[q].ask.clients
        PROVE  ClientComes(request[q], c, client[request[q].project])'
    <3>1. ClientComes(request[q], c, client[p])
      BY <2>1 DEF Arrives, ClientsCome, p
    <3> QED
      BY <1>1, <2>2, <2>3, <2>4, <3>1, ProjectTeamAssumption DEF ClientComes
  <2>6. RepComes(request[q], client[request[q].project])'
    BY <2>2, <2>3, <2>4 DEF RepComes
  <2>7. MembersCome(request[q], member[request[q].project])'
    BY <1>1, <1>2, <1>3, <2>1, MembersKept
  <2> QED
    BY <2>3, <2>5, <2>6, <2>7 DEF Arrives, ClientsCome
<1> QED
  BY <1>1, <1>2, <1>3, <1>5, WriteMade

(* A creation that failed is not a clean request; the others end.          *)
LEMMA WriteFailsArrives ==
  ASSUME TInv, NEW q \in Requests, NEW w \in Writes, WriteFails(q, w)
  PROVE  TInv'
<1>1. Inv /\ TypeOK /\ Inv' /\ At(q, w) /\ UNCHANGED <<member, client>>
  BY WriteFailsStep DEF TInv, Inv, WriteFails
<1>2. CASE w \notin {CreateTeam, CreateClients}
  <2>1. Ends(q)
    BY <1>2 DEF WriteFails
  <2> QED
    BY <1>1, <2>1, Ended
<1>3. CASE w \in {CreateTeam, CreateClients}
  <2>1. request' = [request EXCEPT ![q].todo = @ \ {w}, ![q].clean = FALSE]
    BY <1>3 DEF WriteFails
  <2>2. /\ request'[q].ask = request[q].ask /\ request'[q].add = request[q].add
        /\ request'[q].set = request[q].set /\ request'[q].clients = request[q].clients
        /\ request'[q].todo \subseteq request[q].todo /\ request'[q].clean = FALSE
        /\ request'[q].project = request[q].project
        /\ \A o \in Requests \ {q} : request'[o] = request[o]
    <3> DEFINE row == [request[q] EXCEPT !.todo = @ \ {w}, !.clean = FALSE]
    <3>1. request \in [Requests -> Request] /\ request[q] \in Request
      BY <1>1 DEF TypeOK
    <3>2. /\ row.ask = request[q].ask /\ row.add = request[q].add
          /\ row.set = request[q].set /\ row.clients = request[q].clients
          /\ row.todo \subseteq request[q].todo /\ row.clean = FALSE
          /\ row.project = request[q].project
      BY <3>1 DEF Request
    <3>3. request' = [request EXCEPT ![q] = row]
      BY <2>1, <3>1 DEF Request
    <3> HIDE DEF row
    <3> QED
      BY <3>1, <3>2, <3>3
  <2>3. PlansHold'
    <3>1. Planned(request'[q])
      BY <2>2, PlanShrinks DEF TInv, PlansHold
    <3> QED
      BY <2>2, <3>1 DEF TInv, PlansHold
  <2>4. \A o \in Requests : Clean(o)' => o # q /\ Clean(o)
    BY <2>2 DEF Clean, Live
  <2>5. \A o \in Requests : Live(o)' <=> Live(o)
    BY <2>2 DEF Live
  <2>6. Alone'
    BY <2>4, <2>5 DEF TInv, Alone
  <2>7. \A o \in Requests : Clean(o)' => Arrives(o)'
    BY <1>1, <2>2, <2>4 DEF TInv, Arrives
  <2> QED
    BY <1>1, <2>3, <2>6, <2>7 DEF TInv
<1> QED
  BY <1>2, <1>3

-----------------------------------------------------------------------------
(* Requests that begin.                                                    *)

(* A request that begins with a plan that does what it was asked for.      *)
LEMMA BeginArrives ==
  ASSUME TInv, Inv', NEW q \in Requests, NEW p \in Projects, NEW ask, NEW todo, NEW add,
         NEW set, NEW enroll, NEW clients,
         Begin(q, p, ask, todo, add, set, enroll, clients),
         NEW row, row = [project |-> p, ask |-> ask, todo |-> todo, add |-> add, set |-> set,
                         enroll |-> enroll, clients |-> clients, clean |-> Others(q) = {}],
         Planned(row), UNCHANGED <<member, client>>,
         MembersCome(row, member[p]), ClientsCome(row, client[p]), RepComes(row, client[p])
  PROVE  TInv'
<1>1. TypeOK
  BY DEF TInv, Inv
<1>2. /\ row.project = p /\ row.clean = (Others(q) = {})
      /\ request' = [Disturbed EXCEPT ![q] = row]
  BY DEF Begin
<1>3. request'[q] = row /\ \A o \in Requests \ {q} : request'[o] = Disturbed[o]
  BY <1>2 DEF Disturbed
<1>4. \A o \in Requests \ {q} : Planned(request'[o])
  BY <1>1, <1>3, DisturbedRow, PlanShrinks DEF TInv, PlansHold
<1>5. PlansHold'
  BY <1>3, <1>4 DEF PlansHold
<1>6. \A o \in Requests \ {q} : ~Clean(o)' /\ (Live(o)' <=> Live(o))
  BY <1>1, <1>3, DisturbedRow DEF Clean, Live
<1>7. Clean(q)' => \A o \in Requests \ {q} : ~Live(o)
  BY <1>2, <1>3 DEF Clean, Others
<1>8. Alone'
  BY <1>6, <1>7 DEF Alone
<1>9. Arrives(q)'
  BY <1>2, <1>3 DEF Arrives
<1> QED
  BY <1>5, <1>6, <1>8, <1>9 DEF TInv

LEMMA ReadTeamArrives ==
  ASSUME TInv, NEW q \in Requests, NEW p \in Projects, NEW ask \in Asks,
         NEW update \in BOOLEAN, ReadTeam(q, p, ask, update)
  PROVE  TInv'
<1>1. Inv /\ TypeOK /\ Inv' /\ UNCHANGED <<member, client>> /\ ask \in Ask
  BY ReadTeamStep, ProjectTeamAssumption DEF TInv, Inv, ReadTeam
<1>2. PICK todo, add, set, enroll, clients, row :
        /\ todo = WritesFor(p, ask, update)
        /\ add = [r \in Roles |-> ToAdd(p, ask, r, update)]
        /\ set = [r \in Roles |-> ToSet(p, ask, r, update)]
        /\ enroll = (ask.rep # None /\ ask.rep \notin ClientsOf(p))
        /\ clients = ToEnroll(p, ask)
        /\ row = [project |-> p, ask |-> ask, todo |-> todo, add |-> add, set |-> set,
                  enroll |-> enroll, clients |-> clients, clean |-> Others(q) = {}]
  OBVIOUS
<1>3. Begin(q, p, ask, todo, add, set, enroll, clients)
  BY <1>2 DEF ReadTeam
<1>4. /\ row.ask = ask /\ row.todo = todo /\ row.add = add /\ row.set = set
      /\ row.clients = clients
  BY <1>2
<1>5. /\ \A s \in Roles : ToAdd(p, ask, s, update) # {} => AddOf(s) \in todo
      /\ \A s \in Roles : ToSet(p, ask, s, update) # {} => SetOf(s) \in todo
  BY <1>2 DEF WritesFor, Roles, AddOf, SetOf
<1>6. /\ ~Represented(p, ask) <=> Appoint \in todo
      /\ ToEnroll(p, ask) # {} => AddClients \in todo
      /\ Reset \in todo => ~Represented(p, ask)
      /\ CreateClients \notin todo
  BY <1>2 DEF WritesFor, AddIncharge, SetIncharge, AddSupport, SetSupport, Appoint, Reset,
              AddClients, CreateClients
<1>7. Planned(row)
  <2>1. \A s \in Roles : /\ add[s] \subseteq List(ask, s) /\ set[s] \subseteq List(ask, s)
    BY <1>2 DEF ToAdd, ToSet, Wanted, List
  <2>2. clients \subseteq ask.clients \ {ask.rep}
    BY <1>2 DEF ToEnroll
  <2> QED
    BY <1>4, <1>6, <2>1, <2>2 DEF Planned, Represented
<1>8. MembersCome(row, member[p])
  <2> SUFFICES ASSUME NEW s \in Roles, NEW u \in OnlyIn(ask, s)
               PROVE  MemberComes(row, u, s, member[p])
    BY <1>4 DEF MembersCome
  <2>1. u \in Users /\ u \in Wanted(ask, s, update)
    BY <1>1 DEF OnlyIn, List, Ask, Roles, Wanted
  <2>2. member[p][u] \in Roles \cup {None}
    BY <1>1, <2>1 DEF TypeOK
  <2>3. CASE member[p][u] = None
    <3>1. u \in ToAdd(p, ask, s, update)
      BY <2>1, <2>3 DEF ToAdd, Members
    <3> QED
      BY <1>2, <1>4, <1>5, <3>1 DEF MemberComes
  <2>4. CASE member[p][u] \in Roles \ {s}
    <3>1. u \in ToSet(p, ask, s, update)
      BY <2>1, <2>4 DEF ToSet
    <3>2. member[p][u] # None
      BY <2>4, ProjectTeamAssumption
    <3> QED
      BY <1>2, <1>4, <1>5, <3>1, <3>2 DEF MemberComes
  <2>5. CASE member[p][u] = s
    BY <2>5 DEF MemberComes
  <2> QED
    BY <2>2, <2>3, <2>4, <2>5
<1>9. ClientsCome(row, client[p])
  <2> SUFFICES ASSUME NEW c \in ask.clients
               PROVE  ClientComes(row, c, client[p])
    BY <1>4 DEF ClientsCome
  <2>1. c \in Clients
    BY <1>1 DEF Ask
  <2>2. CASE c \in ToEnroll(p, ask)
    BY <1>2, <1>4, <1>6, <2>2 DEF ClientComes
  <2>3. CASE c \in ClientsOf(p)
    BY <2>3 DEF ClientComes, ClientsOf
  <2>4. CASE c = ask.rep
    <3>1. Represented(p, ask) => client[p][c] # None
      BY <2>1, <2>4, ProjectTeamAssumption DEF Represented
    <3> QED
      BY <1>4, <1>6, <2>4, <3>1 DEF ClientComes
  <2> QED
    BY <2>2, <2>3, <2>4 DEF ToEnroll
<1>10. RepComes(row, client[p])
  BY <1>4, <1>6 DEF RepComes, Represented
<1> QED
  BY <1>1, <1>2, <1>3, <1>7, <1>8, <1>9, <1>10, BeginArrives

LEMMA CreateArrives ==
  ASSUME TInv, NEW q \in Requests, NEW p \in Projects, NEW ask \in Asks, Create(q, p, ask)
  PROVE  TInv'
<1>1. Inv /\ TypeOK /\ Inv' /\ UNCHANGED <<member, client>> /\ ask \in Ask
  BY CreateStep, ProjectTeamAssumption DEF TInv, Inv, Create
<1>2. PICK todo, add, set, enroll, clients, row :
        /\ todo = {CreateTeam, CreateClients}
        /\ add = [r \in Roles |-> Wanted(ask, r, FALSE)]
        /\ set = [r \in Roles |-> {}]
        /\ enroll = (ask.rep # None)
        /\ clients = ask.clients \ {ask.rep}
        /\ row = [project |-> p, ask |-> ask, todo |-> todo, add |-> add, set |-> set,
                  enroll |-> enroll, clients |-> clients, clean |-> Others(q) = {}]
  OBVIOUS
<1>3. Begin(q, p, ask, todo, add, set, enroll, clients)
  BY <1>2 DEF Create
<1>4. /\ row.ask = ask /\ row.todo = todo /\ row.add = add /\ row.set = set
      /\ row.clients = clients
  BY <1>2
<1>5. \A s \in Roles : add[s] = List(ask, s) /\ set[s] = {}
  BY <1>2 DEF Wanted, List
<1>6. CreateTeam \in todo /\ CreateClients \in todo /\ Reset \notin todo
  BY <1>2 DEF CreateTeam, CreateClients, Reset
<1>7. Planned(row)
  BY <1>2, <1>4, <1>5, <1>6 DEF Planned
<1>8. MembersCome(row, member[p])
  BY <1>4, <1>5, <1>6 DEF MembersCome, MemberComes, OnlyIn
<1>9. ClientsCome(row, client[p])
  BY <1>2, <1>4, <1>6 DEF ClientsCome, ClientComes
<1>10. RepComes(row, client[p])
  BY <1>4, <1>6 DEF RepComes
<1> QED
  BY <1>1, <1>2, <1>3, <1>7, <1>8, <1>9, <1>10, BeginArrives

LEMMA TeamStep == TInv /\ [Next]_vars => TInv'
<1> SUFFICES ASSUME TInv, [Next]_vars PROVE TInv'
  OBVIOUS
<1>0. Inv /\ Inv'
  BY StepKeeps DEF TInv
<1>1. ASSUME NEW q \in Requests, Write(q)
      PROVE  TInv'
  <2>1. CASE AddMembers(q, AddIncharge, "incharge")
    BY <2>1, AddMembersArrives DEF AddOf, Roles
  <2>2. CASE AddMembers(q, AddSupport, "support")
    BY <2>2, AddMembersArrives DEF AddOf, Roles
  <2>3. CASE SetRole(q, SetIncharge, "incharge")
    BY <2>3, SetRoleArrives DEF SetOf, Roles
  <2>4. CASE SetRole(q, SetSupport, "support")
    BY <2>4, SetRoleArrives DEF SetOf, Roles
  <2>5. CASE AppointRepresentative(q) \/ ResetOthers(q) \/ EnrollClients(q)
    BY <2>5, AppointArrives, ResetArrives, EnrollClientsArrives
  <2>6. CASE InsertTeam(q) \/ InsertClients(q)
    BY <2>6, InsertTeamArrives, InsertClientsArrives
  <2>7. CASE \E w \in Writes : WriteFails(q, w)
    BY <2>7, WriteFailsArrives
  <2> QED
    BY <1>1, <2>1, <2>2, <2>3, <2>4, <2>5, <2>6, <2>7 DEF Write
<1>2. ASSUME NEW q \in Requests, NEW p \in Projects, NEW ask \in Asks,
             NEW update \in BOOLEAN, ReadTeam(q, p, ask, update)
      PROVE  TInv'
  BY <1>2, ReadTeamArrives
<1>3. ASSUME NEW q \in Requests, NEW p \in Projects, NEW ask \in Asks, Create(q, p, ask)
      PROVE  TInv'
  BY <1>3, CreateArrives
<1>4. ASSUME NEW q \in Requests, Answer(q)
      PROVE  TInv'
  BY <1>0, <1>4, Ended DEF Answer
<1>5. ASSUME NEW p \in Projects, NEW u \in Users, RemoveMember(p, u)
      PROVE  TInv'
  BY <1>0, <1>5, OthersDisturb DEF RemoveMember
<1>6. ASSUME NEW p \in Projects, NEW c \in Clients,
             RemoveClient(p, c) \/ QuotationApproved(p, c)
      PROVE  TInv'
  BY <1>0, <1>6, OthersDisturb DEF RemoveClient, QuotationApproved
<1>7. CASE UNCHANGED vars
  BY <1>0, <1>7 DEF vars, TInv, PlansHold, Alone, Clean, Live, Arrives
<1> QED
  BY <1>1, <1>2, <1>3, <1>4, <1>5, <1>6, <1>7 DEF Next

(* A request that nothing disturbed and whose writes succeeded leaves the  *)
(* team it was asked for, for any team it finds and any team it is asked   *)
(* for (update, updateProjectMember and create of project.service.ts).     *)
THEOREM TeamComesOut == Spec => []TeamAsAsked
<1>1. TInv => TeamAsAsked
  <2> SUFFICES ASSUME TInv, NEW q \in Requests, Live(q), request[q].clean,
                      request[q].todo = {}
               PROVE  LET p == request[q].project
                          ask == request[q].ask
                      IN  /\ \A u \in ask.incharge \ ask.support : member[p][u] = "incharge"
                          /\ \A u \in ask.support \ ask.incharge : member[p][u] = "support"
                          /\ ask.clients \subseteq ClientsOf(p)
                          /\ ask.rep # None => ask.rep \in Reps(p)
    BY DEF TeamAsAsked
  <2>1. Arrives(q)
    BY DEF TInv, Clean
  <2>2. request[q].ask \in Ask
    BY DEF TInv, Inv, TypeOK, Request
  <2>3. \A s \in Roles : \A u \in OnlyIn(request[q].ask, s) : member[request[q].project][u] = s
    BY <2>1 DEF Arrives, MembersCome, MemberComes
  <2>4. request[q].ask.clients \subseteq ClientsOf(request[q].project)
    BY <2>1, <2>2 DEF Arrives, ClientsCome, ClientComes, ClientsOf, Ask
  <2>5. request[q].ask.rep # None => request[q].ask.rep \in Reps(request[q].project)
    BY <2>1, <2>2 DEF Arrives, RepComes, Reps, Ask
  <2> QED
    BY <2>3, <2>4, <2>5 DEF OnlyIn, List, Roles
<1> QED
  BY <1>1, InitTeam, TeamStep, PTL DEF Spec

-----------------------------------------------------------------------------
(* The representative is kept.                                             *)

LEMMA RepsKept ==
  ASSUME TInv, Next, NEW p \in Projects, Reps(p) # {}, Reps(p)' = {}
  PROVE  \/ \E q \in Requests : RepresentativeLost(q) /\ request'[q] # request[q]
         \/ \E c \in ClientsOf(p) : ClientsOf(p)' = ClientsOf(p) \ {c}
<1>0. Inv /\ TypeOK
  BY DEF TInv, Inv
<1>1. ASSUME UNCHANGED client
      PROVE  FALSE
  BY <1>1 DEF Reps
<1>2. ASSUME NEW q \in Requests, AppointRepresentative(q)
      PROVE  FALSE
  BY <1>0, <1>2 DEF AppointRepresentative, Reps, TypeOK
<1>3. ASSUME NEW q \in Requests, EnrollClients(q)
      PROVE  FALSE
  BY <1>0, <1>3, ProjectTeamAssumption DEF EnrollClients, Reps, ClientsOf, TypeOK
<1>4. ASSUME NEW q \in Requests, InsertClients(q)
      PROVE  FALSE
  BY <1>0, <1>4, ProjectTeamAssumption DEF InsertClients, Reps, ClientsOf, TypeOK
<1>5. ASSUME NEW s \in Projects, NEW c \in Clients, QuotationApproved(s, c)
      PROVE  FALSE
  BY <1>0, <1>5 DEF QuotationApproved, Reps, TypeOK
<1>6. ASSUME NEW s \in Projects, NEW c \in Clients, RemoveClient(s, c)
      PROVE  \E d \in ClientsOf(p) : ClientsOf(p)' = ClientsOf(p) \ {d}
  <2>1. client[s][c] # None /\ client' = [client EXCEPT ![s][c] = None]
    BY <1>6 DEF RemoveClient
  <2>2. s = p
    BY <1>0, <2>1 DEF Reps, TypeOK
  <2>3. c \in ClientsOf(p) /\ ClientsOf(p)' = ClientsOf(p) \ {c}
    BY <1>0, <2>1, <2>2 DEF ClientsOf, TypeOK
  <2> QED
    BY <2>3
<1>7. ASSUME NEW q \in Requests, ResetOthers(q)
      PROVE  RepresentativeLost(q) /\ request'[q] # request[q]
  <2>1. At(q, Reset) /\ Goes(q, Reset) /\ Reset \in Writes
    BY <1>7, WritesAreNumbers DEF ResetOthers
  <2>2. request'[q] # request[q]
    BY <1>0, <2>1, GoesRow DEF At
  <2>3. Live(q) /\ request[q].project \in Projects
    BY <1>0, <2>1, AtIsLive
  <2>4. CASE request[q].clean
    <3>1. Arrives(q) /\ Planned(request[q])
      BY <2>3, <2>4 DEF TInv, Clean, PlansHold
    <3>2. Appoint \notin request[q].todo
      BY <2>1, WritesAreNumbers DEF At, Appoint, Reset
    <3>3. CreateClients \notin request[q].todo /\ request[q].ask.rep # None
      BY <2>1, <3>1 DEF Planned, At
    <3>4. client[request[q].project][request[q].ask.rep] = "rep"
      BY <3>1, <3>2, <3>3 DEF Arrives, RepComes
    <3>5. request[q].ask.rep \in Clients
      BY <1>0, <3>3 DEF TypeOK, Request, Ask
    <3>6. PICK s \in Projects : s = request[q].project
      BY <2>3
    <3>7. PICK rep \in Clients : rep = request[q].ask.rep
      BY <3>5
    <3>8. \A c \in Clients :
            client'[s][c] = IF c # rep /\ client[s][c] # None THEN "client" ELSE client[s][c]
      BY <1>0, <1>7, <3>6, <3>7 DEF ResetOthers, TypeOK
    <3>9. rep \in Reps(s)'
      BY <3>4, <3>6, <3>7, <3>8 DEF Reps
    <3>10. p # s
      BY <3>9
    <3>11. client'[p] = client[p]
      BY <1>0, <1>7, <3>6, <3>10 DEF ResetOthers, TypeOK
    <3>12. Reps(p)' = Reps(p)
      BY <3>11 DEF Reps
    <3> QED
      BY <3>12
  <2> QED
    BY <2>1, <2>2, <2>4 DEF RepresentativeLost
<1>8. ASSUME NEW q \in Requests, Write(q), ~AppointRepresentative(q), ~EnrollClients(q),
             ~InsertClients(q), ~ResetOthers(q)
      PROVE  UNCHANGED client
  BY <1>8 DEF Write, AddMembers, SetRole, InsertTeam, WriteFails
<1>9. ASSUME NEW q \in Requests, Answer(q) PROVE UNCHANGED client
  BY <1>9 DEF Answer
<1>10. ASSUME NEW s \in Projects, NEW u \in Users, RemoveMember(s, u) PROVE UNCHANGED client
  BY <1>10 DEF RemoveMember
<1>11. ASSUME NEW q \in Requests, NEW s \in Projects, NEW ask \in Asks,
              Create(q, s, ask) \/ \E update \in BOOLEAN : ReadTeam(q, s, ask, update)
       PROVE  UNCHANGED client
  BY <1>11 DEF Create, ReadTeam
<1> QED
  BY <1>1, <1>2, <1>3, <1>4, <1>5, <1>6, <1>7, <1>8, <1>9, <1>10, <1>11 DEF Next

(* A project that has a representative loses it only with the client that  *)
(* is removed, or to two requests that overlapped: a request that was not  *)
(* disturbed resets no representative but those it replaced.               *)
THEOREM RepresentativeStays == Spec => RepresentativeKept
<1>1. TInv /\ [Next]_vars =>
        [\A p \in Projects :
           Reps(p) # {} /\ Reps(p)' = {} =>
             \/ \E q \in Requests : RepresentativeLost(q) /\ request'[q] # request[q]
             \/ \E c \in ClientsOf(p) : ClientsOf(p)' = ClientsOf(p) \ {c}]_vars
  BY RepsKept
<1> QED
  BY <1>1, InitTeam, TeamStep, PTL DEF Spec, RepresentativeKept

-----------------------------------------------------------------------------
(* The enquiry on its way to a lead,                                       *)

\* What a request may have to do, or to do still.
ToCreate == <<"create", "notes", "files">>
ToMove == <<"notes", "files">>
ToMoveFiles == <<"files">>
Converting ==
  {<<"disconnect", "qualify", "create", "notes", "files">>,
   <<"qualify", "create", "notes", "files">>, ToCreate, ToMove, ToMoveFiles}
Todos == {<<>>, <<"status">>, <<"insert">>} \cup Converting

Asking ==
  [todo: Todos, lead: Leads \cup {None}, item: Enquiry!Items \cup {None}, enquiry: BOOLEAN,
   to: Enquiry!EnquiryStatus]

EnquiryTyped ==
  /\ eStatus \in Enquiry!EnquiryStatus
  /\ item \in [Enquiry!Items -> [there: BOOLEAN, enquiry: BOOLEAN, lead: Leads \cup {None}]]
  /\ eHandler \in [Askers -> Asking]
  /\ \A h \in Askers : eHandler[h].todo \in Converting => eHandler[h].lead \in Leads

\* Leads.enquiryId is unique.
OneLead == enquiryOf = {} \/ \E l \in Leads : enquiryOf = {l}

\* Who is to create a lead has qualified the enquiry.
Qualifies ==
  (enquiryOf # {} \/ \E h \in Askers : eHandler[h].todo = ToCreate)
    => overtaken \/ eStatus = "Qualified"

Moves(h, i) ==
  \/ i \in Notes /\ eHandler[h].todo = ToMove
  \/ i \in Files /\ eHandler[h].todo \in {ToMove, ToMoveFiles}

\* What is not with the lead is about to be moved to it.
With(l, i) ==
  item[i].there /\ item[i].enquiry =>
    \/ item[i].lead = l
    \/ \E h \in Askers : eHandler[h].lead = l /\ Moves(h, i)

MovedOrWill == halfway \/ \A l \in enquiryOf : \A i \in Enquiry!Items \ stale : With(l, i)

EInv == EnquiryTyped /\ OneLead /\ Qualifies /\ MovedOrWill

LEMMA LeadIs ==
  ASSUME OneLead, NEW l \in enquiryOf
  PROVE  Enquiry!LeadOf = l
BY DEF OneLead, Enquiry!LeadOf

LEMMA TodoIs ==
  ASSUME NEW t \in Todos, t # <<>>
  PROVE  /\ Head(t) = "status" => t = <<"status">> /\ Len(t) = 1
         /\ Head(t) = "insert" => t = <<"insert">> /\ Len(t) = 1
         /\ Head(t) = "disconnect" =>
              Len(t) # 1 /\ Tail(t) = <<"qualify", "create", "notes", "files">>
         /\ Head(t) = "qualify" => Len(t) # 1 /\ Tail(t) = ToCreate
         /\ Head(t) = "create" => Len(t) # 1 /\ t = ToCreate /\ Tail(t) = ToMove
         /\ Head(t) = "notes" => Len(t) # 1 /\ t = ToMove /\ Tail(t) = ToMoveFiles
         /\ Head(t) = "files" => t = ToMoveFiles /\ Len(t) = 1
         /\ Head(t) \in {"status", "insert", "disconnect", "qualify", "create", "notes", "files"}
<1>1. CASE t = <<"status">>
  BY <1>1
<1>2. CASE t = <<"insert">>
  BY <1>2
<1>3. CASE t = <<"disconnect", "qualify", "create", "notes", "files">>
  BY <1>3
<1>4. CASE t = <<"qualify", "create", "notes", "files">>
  BY <1>4 DEF ToCreate
<1>5. CASE t = <<"create", "notes", "files">>
  BY <1>5 DEF ToCreate, ToMove
<1>6. CASE t = <<"notes", "files">>
  BY <1>6 DEF ToMove, ToMoveFiles
<1>7. CASE t = <<"files">>
  BY <1>7 DEF ToMoveFiles
<1> QED
  BY <1>1, <1>2, <1>3, <1>4, <1>5, <1>6, <1>7
  DEF Todos, Converting, ToCreate, ToMove, ToMoveFiles

LEMMA TodosDiffer ==
  /\ <<>> \notin Converting /\ <<"status">> \notin Converting /\ <<"insert">> \notin Converting
  /\ <<"disconnect", "qualify", "create", "notes", "files">> \notin {ToCreate, ToMove, ToMoveFiles}
  /\ <<"qualify", "create", "notes", "files">> \notin {ToCreate, ToMove, ToMoveFiles}
  /\ ToCreate \notin {ToMove, ToMoveFiles} /\ ToMove # ToMoveFiles
<1>1. /\ <<>> # <<"disconnect", "qualify", "create", "notes", "files">>
      /\ <<>> # <<"qualify", "create", "notes", "files">>
      /\ <<>> # ToCreate /\ <<>> # ToMove /\ <<>> # ToMoveFiles
  BY DEF ToCreate, ToMove, ToMoveFiles
<1>2. /\ <<"status">> # <<"disconnect", "qualify", "create", "notes", "files">>
      /\ <<"status">> # <<"qualify", "create", "notes", "files">>
      /\ <<"status">> # ToCreate /\ <<"status">> # ToMove /\ <<"status">> # ToMoveFiles
  BY DEF ToCreate, ToMove, ToMoveFiles
<1>3. /\ <<"insert">> # <<"disconnect", "qualify", "create", "notes", "files">>
      /\ <<"insert">> # <<"qualify", "create", "notes", "files">>
      /\ <<"insert">> # ToCreate /\ <<"insert">> # ToMove /\ <<"insert">> # ToMoveFiles
  BY DEF ToCreate, ToMove, ToMoveFiles
<1>4. <<"disconnect", "qualify", "create", "notes", "files">>
        \notin {ToCreate, ToMove, ToMoveFiles}
  BY DEF ToCreate, ToMove, ToMoveFiles
<1>5. <<"qualify", "create", "notes", "files">> \notin {ToCreate, ToMove, ToMoveFiles}
  BY DEF ToCreate, ToMove, ToMoveFiles
<1>6. ToCreate \notin {ToMove, ToMoveFiles} /\ ToMove # ToMoveFiles
  BY DEF ToCreate, ToMove, ToMoveFiles
<1> QED
  BY <1>1, <1>2, <1>3, <1>4, <1>5, <1>6 DEF Converting

LEMMA IdleAsking ==
  /\ Enquiry!Idle \in Asking /\ Enquiry!Idle.todo = <<>>
  /\ Enquiry!Idle.todo \notin Converting
BY TodosDiffer DEF Asking, Enquiry!Idle, Todos, Enquiry!EnquiryStatus

(* The request after one of its queries: it is done, or goes on.           *)
LEMMA RestRow ==
  ASSUME EInv, NEW h \in Askers, eHandler[h].todo # <<>>, Enquiry!Rest(h)
  PROVE  /\ eHandler' \in [Askers -> Asking]
         /\ \A g \in Askers \ {h} : eHandler'[g] = eHandler[g]
         /\ IF Len(eHandler[h].todo) = 1 THEN eHandler'[h] = Enquiry!Idle
            ELSE /\ eHandler'[h].lead = eHandler[h].lead
                 /\ eHandler'[h].todo = Tail(eHandler[h].todo)
         /\ \A g \in Askers : eHandler'[g].todo \in Converting => eHandler'[g].lead \in Leads
<1>1. /\ eHandler \in [Askers -> Asking] /\ eHandler[h] \in Asking
      /\ eHandler[h].todo \in Todos
  BY DEF EInv, EnquiryTyped, Asking
<1> DEFINE row == [eHandler[h] EXCEPT !.todo = Tail(eHandler[h].todo)]
<1>2. eHandler' = [eHandler EXCEPT ![h] =
                     IF Len(eHandler[h].todo) = 1 THEN Enquiry!Idle ELSE row]
  BY DEF Enquiry!Rest
<1>3. Len(eHandler[h].todo) # 1 =>
        Tail(eHandler[h].todo) \in Todos /\ eHandler[h].todo \in Converting
  BY <1>1, TodoIs DEF Todos, Converting
<1>4. /\ row.lead = eHandler[h].lead /\ row.todo = Tail(eHandler[h].todo)
      /\ Tail(eHandler[h].todo) \in Todos => row \in Asking
  BY <1>1 DEF Asking
<1> HIDE DEF row
<1>5. IF Len(eHandler[h].todo) = 1 THEN eHandler'[h] = Enquiry!Idle ELSE eHandler'[h] = row
  BY <1>1, <1>2
<1>6. \A g \in Askers \ {h} : eHandler'[g] = eHandler[g]
  BY <1>1, <1>2
<1>7. eHandler' \in [Askers -> Asking]
  BY <1>1, <1>2, <1>3, <1>4, IdleAsking
<1>8. \A g \in Askers : eHandler'[g].todo \in Converting => eHandler'[g].lead \in Leads
  BY <1>3, <1>4, <1>5, <1>6, IdleAsking DEF EInv, EnquiryTyped
<1> QED
  BY <1>4, <1>5, <1>6, <1>7, <1>8

LEMMA EnquiryInit == None \notin Leads /\ Enquiry!Init => EInv
<1> SUFFICES ASSUME None \notin Leads, Enquiry!Init PROVE EInv
  OBVIOUS
<1>1. /\ eStatus = "New" /\ enquiryOf = {}
      /\ item = [i \in Enquiry!Items |-> Enquiry!NoItem]
      /\ eHandler = [h \in Askers |-> Enquiry!Idle]
  BY DEF Enquiry!Init
<1>2. Enquiry!NoItem \in [there: BOOLEAN, enquiry: BOOLEAN, lead: Leads \cup {None}]
  BY DEF Enquiry!NoItem
<1>3. EnquiryTyped
  BY <1>1, <1>2, IdleAsking DEF EnquiryTyped, Enquiry!EnquiryStatus
<1>4. \A h \in Askers : eHandler[h].todo # ToCreate
  BY <1>1, IdleAsking DEF Converting
<1> QED
  BY <1>1, <1>3, <1>4 DEF EInv, OneLead, Qualifies, MovedOrWill

(* A request begins, which is neither to create a lead at once nor to move *)
(* anything.                                                               *)
LEMMA EnquiryBegins ==
  ASSUME EInv, NEW h \in Askers, NEW row \in Asking, Enquiry!Begin(h, row),
         row.todo \notin {ToCreate, ToMove, ToMoveFiles},
         row.todo \in Converting => row.lead \in Leads
  PROVE  EInv'
<1>1. /\ eHandler[h] = Enquiry!Idle
      /\ eHandler' = [eHandler EXCEPT ![h] = row]
      /\ UNCHANGED <<eStatus, enquiryOf, item, stale, halfway, overtaken>>
  BY DEF Enquiry!Begin
<1>2. /\ eHandler' \in [Askers -> Asking] /\ eHandler'[h] = row
      /\ \A g \in Askers \ {h} : eHandler'[g] = eHandler[g]
  BY <1>1 DEF EInv, EnquiryTyped
<1>3. EnquiryTyped'
  <2>1. Asking' = Asking /\ Enquiry!Items' = Enquiry!Items /\ Enquiry!EnquiryStatus' = Enquiry!EnquiryStatus
    BY DEF Asking, Todos, Converting, ToCreate, ToMove, ToMoveFiles, Enquiry!Items, Enquiry!EnquiryStatus
  <2> QED
    BY <1>1, <1>2, <2>1 DEF EInv, EnquiryTyped, Converting, ToCreate, ToMove, ToMoveFiles
<1>4. OneLead' /\ Qualifies'
  BY <1>1, <1>2 DEF EInv, OneLead, Qualifies, ToCreate
<1>5. \A i : \A g \in Askers : Moves(g, i) => g # h
  BY <1>1, IdleAsking DEF Moves, Converting
<1>6. MovedOrWill'
  <2>1. \A i : \A l \in enquiryOf : With(l, i) => With(l, i)'
    BY <1>1, <1>2, <1>5 DEF With, Moves, ToMove, ToMoveFiles
  <2> QED
    BY <1>1, <2>1 DEF EInv, MovedOrWill, Enquiry!Items
<1> QED
  BY <1>3, <1>4, <1>6 DEF EInv

LEMMA RequestBegins ==
  ASSUME EInv, NEW h \in Askers,
         \/ \E to \in Enquiry!EnquiryStatus : Enquiry!UpdateStatus(h, to)
         \/ \E l \in Leads : Enquiry!AutoCreateLead(h, l)
         \/ \E i \in Enquiry!Items :
              Enquiry!AddToEnquiry(h, i) \/ \E l \in Leads : Enquiry!AddToLead(h, i, l)
  PROVE  EInv'
<1> DEFINE Says(row) ==
      /\ Enquiry!Begin(h, row) /\ row \in Asking
      /\ row.todo \notin {ToCreate, ToMove, ToMoveFiles}
      /\ row.todo \in Converting => row.lead \in Leads
<1>0. Enquiry!Idle \in Asking
  BY IdleAsking
<1>1. ASSUME NEW to \in Enquiry!EnquiryStatus, Enquiry!UpdateStatus(h, to)
      PROVE  \E row : Says(row)
  <2> DEFINE row == [Enquiry!Idle EXCEPT !.todo = <<"status">>, !.to = to]
  <2>1. row \in Asking /\ row.todo = <<"status">>
    BY <1>0 DEF Asking, Todos
  <2>2. Enquiry!Begin(h, row)
    BY <1>1 DEF Enquiry!UpdateStatus
  <2> HIDE DEF row
  <2> QED
    BY <2>1, <2>2, TodosDiffer DEF Converting
<1>2. ASSUME NEW l \in Leads, Enquiry!AutoCreateLead(h, l)
      PROVE  \E row : Says(row)
  <2> DEFINE again == [Enquiry!Idle EXCEPT !.todo = Enquiry!Conversion, !.lead = l]
             first == [Enquiry!Idle EXCEPT !.todo = Tail(Enquiry!Conversion), !.lead = l]
  <2>1. /\ Enquiry!Conversion = <<"disconnect", "qualify", "create", "notes", "files">>
        /\ Tail(Enquiry!Conversion) = <<"qualify", "create", "notes", "files">>
    BY DEF Enquiry!Conversion
  <2>2. /\ again \in Asking /\ again.todo = Enquiry!Conversion /\ again.lead = l
        /\ first \in Asking /\ first.todo = Tail(Enquiry!Conversion) /\ first.lead = l
    BY <1>0, <2>1 DEF Asking, Todos, Converting
  <2>3. Enquiry!Begin(h, again) \/ Enquiry!Begin(h, first)
    BY <1>2 DEF Enquiry!AutoCreateLead
  <2> HIDE DEF again, first
  <2> QED
    BY <2>1, <2>2, <2>3, TodosDiffer
<1>3. ASSUME NEW i \in Enquiry!Items, Enquiry!AddToEnquiry(h, i)
      PROVE  \E row : Says(row)
  <2> DEFINE row == [Enquiry!Idle EXCEPT !.todo = <<"insert">>, !.item = i, !.enquiry = TRUE,
                                         !.lead = Enquiry!LeadOf]
  <2>1. Enquiry!LeadOf \in Leads \cup {None}
    BY DEF EInv, OneLead, Enquiry!LeadOf
  <2>2. row \in Asking /\ row.todo = <<"insert">>
    BY <1>0, <2>1 DEF Asking, Todos
  <2>3. Enquiry!Begin(h, row)
    BY <1>3 DEF Enquiry!AddToEnquiry
  <2> HIDE DEF row
  <2> QED
    BY <2>2, <2>3, TodosDiffer DEF Converting
<1>4. ASSUME NEW i \in Enquiry!Items, NEW l \in Leads, Enquiry!AddToLead(h, i, l)
      PROVE  \E row : Says(row)
  <2> DEFINE row == [Enquiry!Idle EXCEPT !.todo = <<"insert">>, !.item = i, !.lead = l,
                                         !.enquiry = l \in enquiryOf]
  <2>1. row \in Asking /\ row.todo = <<"insert">>
    <3>1. PICK b \in BOOLEAN : b = (l \in enquiryOf)
      BY (l \in enquiryOf) \in BOOLEAN, Zenon
    <3>2. row = [Enquiry!Idle EXCEPT !.todo = <<"insert">>, !.item = i, !.lead = l, !.enquiry = b]
      BY <3>1
    <3> HIDE DEF row
    <3> QED
      BY <1>0, <3>2 DEF Asking, Todos
  <2>2. Enquiry!Begin(h, row)
    BY <1>4 DEF Enquiry!AddToLead
  <2> HIDE DEF row
  <2> QED
    BY <2>1, <2>2, TodosDiffer DEF Converting
<1>5. PICK row : Says(row)
  BY <1>1, <1>2, <1>3, <1>4
<1> QED
  BY <1>5, EnquiryBegins

(* A query of h that creates no lead keeps what holds of the others when   *)
(* it keeps the leads of the items, or leaves it to h to move them.        *)
LEMMA OthersMove ==
  ASSUME EInv, NEW h \in Askers, NEW l, NEW i, With(l, i), item'[i] = item[i],
         \A g \in Askers \ {h} : eHandler'[g] = eHandler[g],
         Moves(h, i) => Moves(h, i)' /\ eHandler'[h].lead = eHandler[h].lead
  PROVE  With(l, i)'
<1>1. CASE item[i].there /\ item[i].enquiry
  <2>1. CASE item[i].lead = l
    BY <2>1 DEF With
  <2>2. CASE \E g \in Askers : eHandler[g].lead = l /\ Moves(g, i)
    <3>1. PICK g \in Askers : eHandler[g].lead = l /\ Moves(g, i)
      BY <2>2
    <3>2. eHandler'[g].lead = l /\ Moves(g, i)'
      BY <3>1 DEF Moves, ToMove, ToMoveFiles
    <3> QED
      BY <3>2 DEF With
  <2> QED
    BY <1>1, <2>1, <2>2 DEF With
<1>2. CASE ~(item[i].there /\ item[i].enquiry)
  BY <1>2, Zenon DEF With
<1> QED
  BY <1>1, <1>2

LEMMA TypedAfter ==
  ASSUME EInv, eHandler' \in [Askers -> Asking],
         \A g \in Askers : eHandler'[g].todo \in Converting => eHandler'[g].lead \in Leads,
         eStatus' \in Enquiry!EnquiryStatus,
         item' \in [Enquiry!Items -> [there: BOOLEAN, enquiry: BOOLEAN, lead: Leads \cup {None}]]
  PROVE  EnquiryTyped'
<1>1. Asking' = Asking /\ Enquiry!Items' = Enquiry!Items
      /\ Enquiry!EnquiryStatus' = Enquiry!EnquiryStatus /\ Converting' = Converting
  BY DEF Asking, Todos, Converting, ToCreate, ToMove, ToMoveFiles, Enquiry!Items,
         Enquiry!EnquiryStatus
<1> QED
  BY <1>1 DEF EnquiryTyped

LEMMA EnquiryWriteStatus ==
  ASSUME EInv, NEW h \in Askers, Enquiry!WriteStatus(h)
  PROVE  EInv'
<1>1. /\ eHandler[h].todo # <<>> /\ Head(eHandler[h].todo) = "status" /\ Enquiry!Rest(h)
      /\ eStatus' = eHandler[h].to /\ overtaken' = (overtaken \/ eStatus = "Qualified")
      /\ UNCHANGED <<enquiryOf, item, stale, halfway>>
  BY DEF Enquiry!WriteStatus, Enquiry!Next1
<1>2. eHandler[h] \in Asking
  BY DEF EInv, EnquiryTyped
<1>3. eHandler[h].todo = <<"status">> /\ Len(eHandler[h].todo) = 1
  BY <1>1, <1>2, TodoIs DEF Asking
<1>4. /\ eHandler' \in [Askers -> Asking]
      /\ \A g \in Askers \ {h} : eHandler'[g] = eHandler[g]
      /\ eHandler'[h] = Enquiry!Idle
      /\ \A g \in Askers : eHandler'[g].todo \in Converting => eHandler'[g].lead \in Leads
  BY <1>1, <1>3, RestRow
<1>5. EnquiryTyped'
  BY <1>1, <1>2, <1>4, TypedAfter DEF EInv, EnquiryTyped, Asking
<1>6. eHandler[h].todo \notin Converting /\ eHandler'[h].todo \notin Converting
  BY <1>3, <1>4, TodosDiffer, IdleAsking
<1>7. OneLead'
  BY <1>1 DEF EInv, OneLead
<1>8. Qualifies'
  <2>1. (\E g \in Askers : eHandler'[g].todo = ToCreate)
          => \E g \in Askers : eHandler[g].todo = ToCreate
    BY <1>4, <1>6 DEF Converting
  <2>2. overtaken \/ eStatus = "Qualified" => overtaken'
    BY <1>1, Zenon
  <2> QED
    BY <1>1, <2>1, <2>2 DEF EInv, Qualifies, ToCreate
<1>9. MovedOrWill'
  <2>1. \A i : ~Moves(h, i)
    BY <1>6 DEF Moves, Converting
  <2>2. \A l \in enquiryOf : \A i : With(l, i) => With(l, i)'
    BY <1>1, <1>4, <2>1, OthersMove
  <2> QED
    BY <1>1, <2>2 DEF EInv, MovedOrWill, Enquiry!Items
<1> QED
  BY <1>5, <1>7, <1>8, <1>9 DEF EInv

(* What is inserted with another lead than the enquiry's is stale.         *)
LEMMA EnquiryInsert ==
  ASSUME EInv, NEW h \in Askers, Enquiry!InsertItem(h)
  PROVE  EInv'
<1>1. /\ eHandler[h].todo # <<>> /\ Head(eHandler[h].todo) = "insert" /\ Enquiry!Rest(h)
      /\ item' = [item EXCEPT ![eHandler[h].item] =
           [there |-> TRUE, enquiry |-> eHandler[h].enquiry, lead |-> eHandler[h].lead]]
      /\ stale' = IF eHandler[h].lead # Enquiry!LeadOf THEN stale \cup {eHandler[h].item} ELSE stale
      /\ UNCHANGED <<eStatus, enquiryOf, halfway, overtaken>>
  BY DEF Enquiry!InsertItem, Enquiry!Next1
<1>2. eHandler[h] \in Asking
  BY DEF EInv, EnquiryTyped
<1>3. eHandler[h].todo = <<"insert">> /\ Len(eHandler[h].todo) = 1
  BY <1>1, <1>2, TodoIs DEF Asking
<1>4. /\ eHandler' \in [Askers -> Asking]
      /\ \A g \in Askers \ {h} : eHandler'[g] = eHandler[g]
      /\ eHandler'[h] = Enquiry!Idle
      /\ \A g \in Askers : eHandler'[g].todo \in Converting => eHandler'[g].lead \in Leads
  BY <1>1, <1>3, RestRow
<1>5. PICK new, k : /\ new = [there |-> TRUE, enquiry |-> eHandler[h].enquiry,
                              lead |-> eHandler[h].lead]
                    /\ k = eHandler[h].item
  OBVIOUS
<1>6. /\ new \in [there: BOOLEAN, enquiry: BOOLEAN, lead: Leads \cup {None}]
      /\ new.lead = eHandler[h].lead
  BY <1>2, <1>5 DEF Asking
<1>7. /\ item' = [item EXCEPT ![k] = new]
      /\ stale' = IF new.lead # Enquiry!LeadOf THEN stale \cup {k} ELSE stale
  BY <1>1, <1>5, <1>6
<1>8. /\ item' \in [Enquiry!Items -> [there: BOOLEAN, enquiry: BOOLEAN, lead: Leads \cup {None}]]
      /\ \A i \in Enquiry!Items : IF i = k THEN item'[i] = new ELSE item'[i] = item[i]
  BY <1>6, <1>7 DEF EInv, EnquiryTyped
<1>9. EnquiryTyped'
  BY <1>1, <1>4, <1>8, TypedAfter DEF EInv, EnquiryTyped
<1>10. eHandler[h].todo \notin Converting /\ eHandler'[h].todo \notin Converting
  BY <1>3, <1>4, TodosDiffer, IdleAsking
<1>11. OneLead'
  BY <1>1 DEF EInv, OneLead
<1>12. Qualifies'
  <2>1. (\E g \in Askers : eHandler'[g].todo = ToCreate)
          => \E g \in Askers : eHandler[g].todo = ToCreate
    BY <1>4, <1>10 DEF Converting
  <2> QED
    BY <1>1, <2>1 DEF EInv, Qualifies, ToCreate
<1>13. ASSUME NEW l \in enquiryOf, NEW i \in Enquiry!Items \ stale', i \notin stale => With(l, i)
       PROVE  With(l, i)'
  <2>1. ~Moves(h, i)
    BY <1>10 DEF Moves, Converting
  <2>2. CASE i = k
    <3>1. new.lead = l
      BY <1>7, <1>13, <2>2, LeadIs DEF EInv
    <3> QED
      BY <1>8, <1>13, <2>2, <3>1 DEF With
  <2>3. CASE i # k
    BY <1>4, <1>7, <1>8, <1>13, <2>1, <2>3, OthersMove
  <2> QED
    BY <2>2, <2>3
<1>14. MovedOrWill'
  BY <1>1, <1>13 DEF EInv, MovedOrWill, Enquiry!Items
<1> QED
  BY <1>9, <1>11, <1>12, <1>14 DEF EInv

LEMMA EnquiryDisconnect ==
  ASSUME EInv, NEW h \in Askers, Enquiry!Disconnect(h)
  PROVE  EInv'
<1>1. /\ eHandler[h].todo # <<>> /\ Head(eHandler[h].todo) = "disconnect" /\ Enquiry!Rest(h)
      /\ enquiryOf' \subseteq enquiryOf
      /\ UNCHANGED <<eStatus, item, stale, halfway, overtaken>>
  BY DEF Enquiry!Disconnect, Enquiry!Next1
<1>2. eHandler[h] \in Asking
  BY DEF EInv, EnquiryTyped
<1>3. /\ Len(eHandler[h].todo) # 1
      /\ Tail(eHandler[h].todo) = <<"qualify", "create", "notes", "files">>
      /\ eHandler[h].todo \notin {ToMove, ToMoveFiles}
  BY <1>1, <1>2, TodoIs DEF Asking, ToMove, ToMoveFiles
<1>4. /\ eHandler' \in [Askers -> Asking]
      /\ \A g \in Askers \ {h} : eHandler'[g] = eHandler[g]
      /\ eHandler'[h].todo = <<"qualify", "create", "notes", "files">>
      /\ \A g \in Askers : eHandler'[g].todo \in Converting => eHandler'[g].lead \in Leads
  BY <1>1, <1>3, RestRow
<1>5. EnquiryTyped'
  BY <1>1, <1>4, TypedAfter DEF EInv, EnquiryTyped
<1>6. OneLead'
  BY <1>1 DEF EInv, OneLead
<1>7. Qualifies'
  <2>1. (\E g \in Askers : eHandler'[g].todo = ToCreate)
          => \E g \in Askers : eHandler[g].todo = ToCreate
    BY <1>4, TodosDiffer
  <2>2. enquiryOf' # {} => enquiryOf # {}
    BY <1>1
  <2> QED
    BY <1>1, <2>1, <2>2 DEF EInv, Qualifies, ToCreate
<1>8. MovedOrWill'
  <2>1. \A i : ~Moves(h, i)
    BY <1>3 DEF Moves
  <2>2. \A l \in enquiryOf : \A i : With(l, i) => With(l, i)'
    BY <1>1, <1>4, <2>1, OthersMove
  <2> QED
    BY <1>1, <2>2 DEF EInv, MovedOrWill, Enquiry!Items
<1> QED
  BY <1>5, <1>6, <1>7, <1>8 DEF EInv

LEMMA EnquiryQualify ==
  ASSUME EInv, NEW h \in Askers, Enquiry!Qualify(h)
  PROVE  EInv'
<1>1. /\ eHandler[h].todo # <<>> /\ Head(eHandler[h].todo) = "qualify" /\ Enquiry!Rest(h)
      /\ eStatus' = "Qualified"
      /\ UNCHANGED <<enquiryOf, item, stale, halfway, overtaken>>
  BY DEF Enquiry!Qualify, Enquiry!Next1
<1>2. eHandler[h] \in Asking
  BY DEF EInv, EnquiryTyped
<1>3. /\ Len(eHandler[h].todo) # 1 /\ eHandler[h].todo \notin {ToMove, ToMoveFiles}
  BY <1>1, <1>2, TodoIs DEF Asking, ToMove, ToMoveFiles
<1>4. /\ eHandler' \in [Askers -> Asking]
      /\ \A g \in Askers \ {h} : eHandler'[g] = eHandler[g]
      /\ \A g \in Askers : eHandler'[g].todo \in Converting => eHandler'[g].lead \in Leads
  BY <1>1, <1>3, RestRow
<1>5. EnquiryTyped'
  BY <1>1, <1>4, TypedAfter DEF EInv, EnquiryTyped, Enquiry!EnquiryStatus
<1>6. OneLead' /\ Qualifies'
  BY <1>1 DEF EInv, OneLead, Qualifies
<1>7. MovedOrWill'
  <2>1. \A i : ~Moves(h, i)
    BY <1>3 DEF Moves
  <2>2. \A l \in enquiryOf : \A i : With(l, i) => With(l, i)'
    BY <1>1, <1>4, <2>1, OthersMove
  <2> QED
    BY <1>1, <2>2 DEF EInv, MovedOrWill, Enquiry!Items
<1> QED
  BY <1>5, <1>6, <1>7 DEF EInv

(* The lead is the enquiry's, and who created it is to move everything.    *)
LEMMA EnquiryCreate ==
  ASSUME EInv, NEW h \in Askers, Enquiry!CreateLead(h)
  PROVE  EInv'
<1>1. /\ eHandler[h].todo # <<>> /\ Head(eHandler[h].todo) = "create"
      /\ \/ enquiryOf = {} /\ enquiryOf' = {eHandler[h].lead} /\ Enquiry!Rest(h)
         \/ enquiryOf # {} /\ enquiryOf' = enquiryOf
            /\ eHandler' = [eHandler EXCEPT ![h] = Enquiry!Idle]
      /\ UNCHANGED <<eStatus, item, stale, halfway, overtaken>>
  BY DEF Enquiry!CreateLead, Enquiry!Next1
<1>2. eHandler[h] \in Asking
  BY DEF EInv, EnquiryTyped
<1>3. /\ Len(eHandler[h].todo) # 1 /\ eHandler[h].todo = ToCreate
      /\ Tail(eHandler[h].todo) = ToMove
  BY <1>1, <1>2, TodoIs DEF Asking
<1>4. eHandler[h].todo \in Converting /\ eHandler[h].lead \in Leads
  BY <1>3 DEF EInv, EnquiryTyped, Converting
<1>5. overtaken \/ eStatus = "Qualified"
  BY <1>3, Zenon DEF EInv, Qualifies
<1>6. Qualifies'
  BY <1>1, <1>5, Zenon DEF Qualifies
<1>7. CASE enquiryOf = {} /\ enquiryOf' = {eHandler[h].lead} /\ Enquiry!Rest(h)
  <2>1. /\ eHandler' \in [Askers -> Asking]
        /\ eHandler'[h].lead = eHandler[h].lead /\ eHandler'[h].todo = ToMove
        /\ \A g \in Askers : eHandler'[g].todo \in Converting => eHandler'[g].lead \in Leads
    BY <1>1, <1>3, <1>7, RestRow
  <2>2. EnquiryTyped'
    BY <1>1, <2>1, TypedAfter DEF EInv, EnquiryTyped
  <2>3. OneLead'
    BY <1>4, <1>7 DEF OneLead
  <2>4. \A l \in enquiryOf', i \in Enquiry!Items : With(l, i)'
    BY <1>7, <2>1 DEF With, Moves, ToMove, Enquiry!Items
  <2>5. MovedOrWill'
    BY <2>4 DEF MovedOrWill, Enquiry!Items
  <2> QED
    BY <1>6, <2>2, <2>3, <2>5 DEF EInv
<1>8. CASE enquiryOf # {} /\ enquiryOf' = enquiryOf
           /\ eHandler' = [eHandler EXCEPT ![h] = Enquiry!Idle]
  <2>1. /\ eHandler' \in [Askers -> Asking] /\ eHandler'[h] = Enquiry!Idle
        /\ \A g \in Askers \ {h} : eHandler'[g] = eHandler[g]
    BY <1>8, IdleAsking DEF EInv, EnquiryTyped
  <2>2. \A g \in Askers : eHandler'[g].todo \in Converting => eHandler'[g].lead \in Leads
    BY <2>1, IdleAsking DEF EInv, EnquiryTyped
  <2>3. EnquiryTyped'
    BY <1>1, <2>1, <2>2, TypedAfter DEF EInv, EnquiryTyped
  <2>4. OneLead'
    BY <1>8 DEF EInv, OneLead
  <2>5. \A i : ~Moves(h, i)
    BY <1>3, TodosDiffer DEF Moves
  <2>6. \A l \in enquiryOf : \A i : With(l, i) => With(l, i)'
    BY <1>1, <2>1, <2>5, OthersMove
  <2>7. MovedOrWill'
    BY <1>1, <1>8, <2>6 DEF EInv, MovedOrWill, Enquiry!Items
  <2> QED
    BY <1>6, <2>3, <2>4, <2>7 DEF EInv
<1> QED
  BY <1>1, <1>7, <1>8

(* Of what is moved to a lead that is no longer the enquiry's nothing is   *)
(* claimed; what is not moved is left to others, or to the next query.     *)
LEMMA EnquiryMove ==
  ASSUME EInv, NEW h \in Askers, NEW some, NEW w,
         \/ some = Notes /\ w = "notes"
         \/ some = Files /\ w = "files",
         Enquiry!Move(h, w, some)
  PROVE  EInv'
<1> DEFINE moved == {i \in some : item[i].there /\ item[i].enquiry}
<1>1. /\ eHandler[h].todo # <<>> /\ Head(eHandler[h].todo) = w /\ Enquiry!Rest(h)
      /\ item' = [i \in Enquiry!Items |->
           IF i \in moved THEN [item[i] EXCEPT !.lead = eHandler[h].lead] ELSE item[i]]
      /\ stale' = IF eHandler[h].lead # Enquiry!LeadOf THEN stale \cup moved ELSE stale
      /\ UNCHANGED <<eStatus, enquiryOf, halfway, overtaken>>
  BY DEF Enquiry!Move, Enquiry!Next1
<1>2. /\ \A i \in moved : i \in some
      /\ \A i \in some \ moved : ~(item[i].there /\ item[i].enquiry)
  OBVIOUS
<1> HIDE DEF moved
<1>3. eHandler[h] \in Asking
  BY DEF EInv, EnquiryTyped
<1>4. \/ /\ some = Notes /\ eHandler[h].todo = ToMove /\ Len(eHandler[h].todo) # 1
         /\ Tail(eHandler[h].todo) = ToMoveFiles
      \/ some = Files /\ eHandler[h].todo = ToMoveFiles /\ Len(eHandler[h].todo) = 1
  BY <1>1, <1>3, TodoIs DEF Asking
<1>5. eHandler[h].lead \in Leads
  BY <1>4 DEF EInv, EnquiryTyped, Converting
<1>6. /\ eHandler' \in [Askers -> Asking]
      /\ \A g \in Askers \ {h} : eHandler'[g] = eHandler[g]
      /\ \A g \in Askers : eHandler'[g].todo \in Converting => eHandler'[g].lead \in Leads
      /\ \/ /\ some = Notes /\ eHandler[h].todo = ToMove
            /\ eHandler'[h].todo = ToMoveFiles /\ eHandler'[h].lead = eHandler[h].lead
         \/ some = Files /\ eHandler[h].todo = ToMoveFiles /\ eHandler'[h] = Enquiry!Idle
  BY <1>1, <1>4, RestRow
<1>7. \A i \in Enquiry!Items :
        /\ item[i] \in [there: BOOLEAN, enquiry: BOOLEAN, lead: Leads \cup {None}]
        /\ i \in moved => item'[i] = [item[i] EXCEPT !.lead = eHandler[h].lead]
        /\ i \notin moved => item'[i] = item[i]
  BY <1>1 DEF EInv, EnquiryTyped
<1>8. \A i \in Enquiry!Items :
        /\ item'[i] \in [there: BOOLEAN, enquiry: BOOLEAN, lead: Leads \cup {None}]
        /\ i \in moved => item'[i].lead = eHandler[h].lead
  BY <1>5, <1>7
<1>9. EnquiryTyped'
  <2>1. item' \in [Enquiry!Items -> [there: BOOLEAN, enquiry: BOOLEAN, lead: Leads \cup {None}]]
    BY <1>1, <1>8
  <2> QED
    BY <1>1, <1>6, <2>1, TypedAfter DEF EInv, EnquiryTyped
<1>10. OneLead'
  BY <1>1 DEF EInv, OneLead
<1>11. Qualifies'
  <2>1. eHandler'[h].todo # ToCreate
    BY <1>6, TodosDiffer, IdleAsking DEF Converting
  <2>2. (\E g \in Askers : eHandler'[g].todo = ToCreate)
          => \E g \in Askers : eHandler[g].todo = ToCreate
    BY <1>6, <2>1
  <2> QED
    BY <1>1, <2>2 DEF EInv, Qualifies, ToCreate
<1>12. ASSUME NEW l \in enquiryOf, NEW i \in Enquiry!Items \ stale', i \notin stale => With(l, i)
       PROVE  With(l, i)'
  <2>1. i \notin stale
    BY <1>1
  <2>2. CASE i \in moved
    <3>1. eHandler[h].lead = l
      BY <1>1, <1>12, <2>2, LeadIs DEF EInv
    <3> QED
      BY <1>8, <1>12, <2>2, <3>1 DEF With
  <2>3. CASE i \in some \ moved
    BY <1>2, <1>7, <1>12, <2>3, Zenon DEF With
  <2>4. CASE i \notin some
    <3>1. item'[i] = item[i]
      BY <1>2, <1>7, <1>12, <2>4
    <3>2. Moves(h, i) => Moves(h, i)' /\ eHandler'[h].lead = eHandler[h].lead
      BY <1>6, <2>4, TodosDiffer DEF Moves, ToMove, ToMoveFiles
    <3> QED
      BY <1>6, <1>12, <2>1, <3>1, <3>2, OthersMove
  <2> QED
    BY <2>2, <2>3, <2>4
<1>13. MovedOrWill'
  BY <1>1, <1>12 DEF EInv, MovedOrWill, Enquiry!Items
<1> QED
  BY <1>9, <1>10, <1>11, <1>13 DEF EInv

(* A conversion that stops with something to move has stopped halfway.     *)
LEMMA EnquiryFails ==
  ASSUME EInv, NEW h \in Askers, Enquiry!Fail(h)
  PROVE  EInv'
<1>1. /\ eHandler[h].todo # <<>>
      /\ halfway' = (halfway \/ Head(eHandler[h].todo) \in {"notes", "files"})
      /\ eHandler' = [eHandler EXCEPT ![h] = Enquiry!Idle]
      /\ UNCHANGED <<eStatus, enquiryOf, item, stale, overtaken>>
  BY DEF Enquiry!Fail
<1>2. /\ eHandler' \in [Askers -> Asking] /\ eHandler'[h] = Enquiry!Idle
      /\ \A g \in Askers \ {h} : eHandler'[g] = eHandler[g]
  BY <1>1, IdleAsking DEF EInv, EnquiryTyped
<1>3. \A g \in Askers : eHandler'[g].todo \in Converting => eHandler'[g].lead \in Leads
  BY <1>2, IdleAsking DEF EInv, EnquiryTyped
<1>4. EnquiryTyped'
  BY <1>1, <1>2, <1>3, TypedAfter DEF EInv, EnquiryTyped
<1>5. OneLead'
  BY <1>1 DEF EInv, OneLead
<1>6. Qualifies'
  <2>1. (\E g \in Askers : eHandler'[g].todo = ToCreate)
          => \E g \in Askers : eHandler[g].todo = ToCreate
    BY <1>2, IdleAsking DEF Converting
  <2> QED
    BY <1>1, <2>1 DEF EInv, Qualifies, ToCreate
<1>7. MovedOrWill'
  <2>1. CASE halfway \/ Head(eHandler[h].todo) \in {"notes", "files"}
    BY <1>1, <2>1, Zenon DEF MovedOrWill
  <2>2. CASE ~halfway /\ Head(eHandler[h].todo) \notin {"notes", "files"}
    <3>1. eHandler[h].todo \notin {ToMove, ToMoveFiles}
      BY <2>2 DEF ToMove, ToMoveFiles
    <3>2. \A i : ~Moves(h, i)
      BY <3>1 DEF Moves
    <3>3. \A l \in enquiryOf : \A i : With(l, i) => With(l, i)'
      BY <1>1, <1>2, <3>2, OthersMove
    <3>4. \A l \in enquiryOf : \A i \in Enquiry!Items \ stale : With(l, i)
      BY <2>2 DEF EInv, MovedOrWill
    <3> QED
      BY <1>1, <3>3, <3>4 DEF MovedOrWill, Enquiry!Items
  <2> QED
    BY <2>1, <2>2
<1> QED
  BY <1>4, <1>5, <1>6, <1>7 DEF EInv

LEMMA EnquiryStays ==
  ASSUME EInv, UNCHANGED <<eStatus, enquiryOf, item, eHandler, stale, halfway, overtaken>>
  PROVE  EInv'
<1>1. EnquiryTyped'
  BY TypedAfter DEF EInv, EnquiryTyped
<1>2. OneLead' /\ Qualifies'
  BY DEF EInv, OneLead, Qualifies, ToCreate
<1>3. MovedOrWill'
  <2>1. \A l, i : With(l, i) => With(l, i)'
    BY Zenon DEF With, Moves, ToMove, ToMoveFiles
  <2>2. MovedOrWill => MovedOrWill'
    BY <2>1 DEF MovedOrWill, Enquiry!Items
  <2> QED
    BY <2>2 DEF EInv
<1> QED
  BY <1>1, <1>2, <1>3 DEF EInv

LEMMA EnquiryNext == EInv /\ [Enquiry!Next]_(Enquiry!vars) => EInv'
<1> SUFFICES ASSUME EInv, [Enquiry!Next]_(Enquiry!vars) PROVE EInv'
  OBVIOUS
<1>1. CASE UNCHANGED Enquiry!vars
  BY <1>1, EnquiryStays DEF Enquiry!vars
<1>2. CASE Enquiry!RemoveEnquiry
  BY <1>2, EnquiryStays DEF Enquiry!RemoveEnquiry
<1>3. ASSUME NEW l \in Leads, Enquiry!RemoveLead(l) PROVE EInv'
  BY <1>3, EnquiryStays DEF Enquiry!RemoveLead
<1>4. ASSUME NEW h \in Askers,
             \/ \E to \in Enquiry!EnquiryStatus : Enquiry!UpdateStatus(h, to)
             \/ \E l \in Leads : Enquiry!AutoCreateLead(h, l)
             \/ \E i \in Enquiry!Items :
                  Enquiry!AddToEnquiry(h, i) \/ \E l \in Leads : Enquiry!AddToLead(h, i, l)
      PROVE  EInv'
  BY <1>4, RequestBegins
<1>5. ASSUME NEW h \in Askers,
             \/ Enquiry!WriteStatus(h) \/ Enquiry!InsertItem(h) \/ Enquiry!Disconnect(h)
             \/ Enquiry!Qualify(h) \/ Enquiry!CreateLead(h) \/ Enquiry!Fail(h)
      PROVE  EInv'
  BY <1>5, EnquiryWriteStatus, EnquiryInsert, EnquiryDisconnect, EnquiryQualify, EnquiryCreate,
     EnquiryFails
<1>6. ASSUME NEW h \in Askers, Enquiry!MoveNotes(h) \/ Enquiry!MoveFiles(h) PROVE EInv'
  BY <1>6, EnquiryMove DEF Enquiry!MoveNotes, Enquiry!MoveFiles
<1> QED
  BY <1>1, <1>2, <1>3, <1>4, <1>5, <1>6 DEF Enquiry!Next

(* However conversions, changes of the status, notes and documents         *)
(* interleave and fail (autoCreateLeadUsingEnquiry, updateStatus, addNote, *)
(* handleDocuments): an enquiry that has a lead is qualified, and its      *)
(* items are with the lead once nothing is in progress, but for the causes *)
(* named. For any number of leads, items, requests and failures.           *)
THEOREM EnquiryFollowed ==
  None \notin Leads => (Enquiry!Spec => [](Enquiry!ItemsFollowLead /\ Enquiry!LeadIsQualified))
<1> SUFFICES ASSUME None \notin Leads
             PROVE  Enquiry!Spec => [](Enquiry!ItemsFollowLead /\ Enquiry!LeadIsQualified)
  OBVIOUS
<1>1. Enquiry!Init => EInv
  BY EnquiryInit
<1>2. EInv /\ [Enquiry!Next]_(Enquiry!vars) => EInv'
  BY EnquiryNext
<1>3. EInv => Enquiry!ItemsFollowLead /\ Enquiry!LeadIsQualified
  <2> SUFFICES ASSUME EInv PROVE Enquiry!ItemsFollowLead /\ Enquiry!LeadIsQualified
    OBVIOUS
  <2>1. Enquiry!LeadOf # None => \E l \in enquiryOf : Enquiry!LeadOf = l
    BY LeadIs DEF EInv, OneLead, Enquiry!LeadOf
  <2>2. Enquiry!LeadIsQualified
    BY <2>1 DEF EInv, Qualifies, Enquiry!LeadIsQualified
  <2>3. ASSUME Enquiry!Quiet, ~halfway, NEW l \in enquiryOf, NEW i \in Enquiry!Items \ stale,
               item[i].there, item[i].enquiry
        PROVE  item[i].lead = l
    <3>1. \A h \in Askers : ~Moves(h, i)
      BY <2>3, IdleAsking DEF Enquiry!Quiet, Moves, Converting
    <3>2. With(l, i)
      BY <2>3 DEF EInv, MovedOrWill
    <3> QED
      BY <2>3, <3>1, <3>2 DEF With
  <2>4. Enquiry!ItemsFollowLead
    BY <2>1, <2>3 DEF Enquiry!ItemsFollowLead
  <2> QED
    BY <2>2, <2>4
<1> QED
  BY <1>1, <1>2, <1>3, PTL DEF Enquiry!Spec

(* A lead takes its enquiry along: EnquiryFollowed, of what is composed in *)
(* Sales.                                                                  *)
THEOREM EnquiryTakenAlong == None \notin Leads => (SalesSpec => []EnquiryBecomesLead)
<1>1. SalesInit => Enquiry!Init
  BY DEF SalesInit
<1>2. [SalesNext]_<<which, quoteVars, enquiryVars, vars>> => [Enquiry!Next]_(Enquiry!vars)
  BY DEF SalesNext, enquiryVars, Enquiry!vars
<1>3. Enquiry!ItemsFollowLead /\ Enquiry!LeadIsQualified => EnquiryBecomesLead
  BY DEF EnquiryBecomesLead
<1> QED
  BY <1>1, <1>2, <1>3, EnquiryFollowed, PTL DEF SalesSpec, Enquiry!Spec

-----------------------------------------------------------------------------
(* The quotations of a lead and its project.                               *)

Todo == [todo: Seq(Quotes!Write), works: SUBSET Quotations, prev: Quotations \cup {None}]

QuoteTyped ==
  /\ qStatus \in [Quotations -> Quotes!Status \cup {"none"}]
  /\ replaces \in [Quotations -> Quotations \cup {None}]
  /\ seller \in [Sellers -> Todo]

Succeeded(q) == \E r \in Quotations : Quotes!Exists(r) /\ replaces[r] = q

\* A quotation is inserted first, and before the one it replaces is marked.
InOrder(row) ==
  \A i \in 1..Len(row.todo) :
    /\ row.todo[i].w = "insert" =>
         /\ i = 1 /\ row.todo[i].q \in row.works /\ row.todo[i].s = "created"
         /\ ~Quotes!Exists(row.todo[i].q)
    /\ row.todo[i].w \in {"set", "revise"} =>
         row.todo[i].q \in Quotations /\ Quotes!Exists(row.todo[i].q)
    /\ row.todo[i].w = "set" => row.todo[i].s \notin {"none", "revised"}
    /\ row.todo[i].w = "revise" =>
         /\ row.todo[i].s = "revised"
         /\ \/ Succeeded(row.todo[i].q)
            \/ i = 2 /\ row.todo[1].w = "insert" /\ row.prev = row.todo[i].q

\* The quotation a request is to insert, if there is one.
Inserts(h, q) ==
  Len(seller[h].todo) > 0 /\ seller[h].todo[1].w = "insert" /\ seller[h].todo[1].q = q

InsertedOnce ==
  \A q \in Quotations : \A g, h \in Sellers : Inserts(g, q) /\ Inserts(h, q) => g = h

QInv ==
  /\ QuoteTyped /\ InsertedOnce /\ Quotes!RevisedHasSuccessor
  /\ \A h \in Sellers : InOrder(seller[h])

\* No request loses a quotation, nor what one that is there replaces.
Remains ==
  \A r \in Quotations : Quotes!Exists(r) => Quotes!Exists(r)' /\ replaces'[r] = replaces[r]

LEMMA SuccessorsRemain ==
  ASSUME Remains, NEW q, Succeeded(q)
  PROVE  Succeeded(q)'
BY DEF Remains, Succeeded

LEMMA QuotesInit == QuoteAssumption /\ Quotes!Init => QInv
<1> SUFFICES ASSUME QuoteAssumption, Quotes!Init PROVE QInv
  OBVIOUS
<1>1. /\ qStatus = [q \in Quotations |-> "none"]
      /\ replaces = [q \in Quotations |-> None]
      /\ seller = [h \in Sellers |-> Quotes!Idle]
  BY DEF Quotes!Init, Quotes!LocalInit
<1>2. Quotes!Idle \in Todo /\ Quotes!Idle.todo = <<>> /\ Len(Quotes!Idle.todo) = 0
  BY DEF Quotes!Idle, Todo
<1>3. QuoteTyped
  BY <1>1, <1>2 DEF QuoteTyped
<1>4. InsertedOnce
  BY <1>1, <1>2 DEF InsertedOnce, Inserts
<1>5. Quotes!RevisedHasSuccessor
  BY <1>1 DEF Quotes!RevisedHasSuccessor
<1>6. \A h \in Sellers : InOrder(seller[h])
  BY <1>1, <1>2 DEF InOrder
<1> QED
  BY <1>3, <1>4, <1>5, <1>6 DEF QInv

(* A step that touches neither the rows nor what requests have to do.      *)
LEMMA QuotesStay ==
  ASSUME QInv, UNCHANGED <<qStatus, replaces, seller>>
  PROVE  QInv'
<1>1. QuoteTyped'
  BY DEF QInv, QuoteTyped, Todo, Quotes!Status, Quotes!Write
<1>2. InsertedOnce' /\ Quotes!RevisedHasSuccessor'
  BY DEF QInv, InsertedOnce, Inserts, Quotes!RevisedHasSuccessor, Quotes!Exists
<1>3. \A row : InOrder(row) => InOrder(row)'
  BY DEF InOrder, Succeeded, Quotes!Exists
<1>4. \A h \in Sellers : InOrder(seller[h])'
  BY <1>3 DEF QInv
<1> QED
  BY <1>1, <1>2, <1>4 DEF QInv

(* What holds of the rows of the others when quotations remain and only    *)
(* `new`, whom nobody is to insert, comes to be.                           *)
LEMMA RowStays ==
  ASSUME Remains, NEW row, InOrder(row),
         \A i \in 1..Len(row.todo) :
           row.todo[i].w = "insert" => ~Quotes!Exists(row.todo[i].q)'
  PROVE  InOrder(row)'
<1>1. \A q : Succeeded(q) => Succeeded(q)'
  BY SuccessorsRemain
<1>2. \A q \in Quotations : Quotes!Exists(q) => Quotes!Exists(q)'
  BY DEF Remains
<1> QED
  BY <1>1, <1>2 DEF InOrder

(* A request begins with a row that is in order.                           *)
LEMMA QuoteBegins ==
  ASSUME QuoteAssumption, QInv, NEW h \in Sellers, NEW row \in Todo, InOrder(row),
         seller' = [seller EXCEPT ![h] = row], UNCHANGED <<qStatus, replaces>>,
         \A q \in Quotations :
           Len(row.todo) > 0 /\ row.todo[1].w = "insert" /\ row.todo[1].q = q
             => \A g \in Sellers : q \notin seller[g].works
  PROVE  QInv'
<1>1. /\ seller \in [Sellers -> Todo] /\ seller' \in [Sellers -> Todo] /\ seller'[h] = row
      /\ \A g \in Sellers \ {h} : seller'[g] = seller[g]
  BY DEF QInv, QuoteTyped
<1>2. QuoteTyped'
  BY <1>1 DEF QInv, QuoteTyped, Todo, Quotes!Status, Quotes!Write
<1>3. \A r : InOrder(r) => InOrder(r)'
  BY DEF InOrder, Succeeded, Quotes!Exists
<1>4. \A g \in Sellers : InOrder(seller'[g])
  BY <1>1 DEF QInv
<1>5. \A g \in Sellers : InOrder(seller[g])'
  BY <1>3, <1>4
<1>6. Quotes!RevisedHasSuccessor'
  BY DEF QInv, Quotes!RevisedHasSuccessor, Quotes!Exists
<1>7. InsertedOnce'
  <2>1. \A q \in Quotations : \A g \in Sellers : Inserts(g, q) => q \in seller[g].works
    BY <1>1 DEF QInv, InOrder, Inserts, Todo
  <2>2. \A q \in Quotations : Inserts(h, q)' => \A g \in Sellers \ {h} : ~Inserts(g, q)
    BY <1>1, <2>1 DEF Inserts
  <2>3. \A q \in Quotations : \A g \in Sellers \ {h} : Inserts(g, q)' <=> Inserts(g, q)
    BY <1>1 DEF Inserts
  <2> QED
    BY <2>2, <2>3 DEF QInv, InsertedOnce
<1> QED
  BY <1>2, <1>5, <1>6, <1>7 DEF QInv

LEMMA TwoElements ==
  ASSUME NEW S, NEW a \in S, NEW b \in S
  PROVE  /\ <<a, b>> \in Seq(S) /\ Len(<<a, b>>) = 2 /\ <<a, b>>[1] = a
         /\ \A i \in 2..2 : <<a, b>>[i] = b
OBVIOUS

LEMMA ThreeElements ==
  ASSUME NEW S, NEW a \in S, NEW b \in S, NEW c \in S
  PROVE  /\ <<a, b, c>> \in Seq(S) /\ Len(<<a, b, c>>) = 3 /\ <<a, b, c>>[1] = a
         /\ \A i \in 2..3 : <<a, b, c>>[i] = b \/ <<a, b, c>>[i] = c
OBVIOUS

LEMMA Appended ==
  ASSUME NEW S, NEW u \in Seq(S), NEW v \in Seq(S), NEW k, Len(u) > 0, NEW T \in SUBSET S,
         u[1] = k, \A i \in 2..Len(u) : u[i] \in T, \A i \in 1..Len(v) : v[i] \in T
  PROVE  /\ u \o v \in Seq(S) /\ Len(u \o v) > 0 /\ (u \o v)[1] = k
         /\ \A i \in 2..Len(u \o v) : (u \o v)[i] \in T
<1> DEFINE w == u \o v
<1>1. w \in Seq(S) /\ Len(w) = Len(u) + Len(v)
  BY ConcatProperties, Zenon
<1>2. \A i \in 1 .. Len(u) + Len(v) : w[i] = IF i <= Len(u) THEN u[i] ELSE v[i - Len(u)]
  BY ConcatProperties, Zenon
<1> HIDE DEF w
<1>3. PICK m \in Nat, n \in Nat : m = Len(u) /\ n = Len(v)
  OBVIOUS
<1>4. w[1] = k
  BY <1>2, <1>3
<1>5. \A i \in 2..(m + n) : w[i] \in T
  <2> SUFFICES ASSUME NEW i \in 2..(m + n) PROVE w[i] \in T
    OBVIOUS
  <2>1. CASE i <= m
    BY <1>2, <1>3, <2>1
  <2>2. CASE i > m
    <3>1. i - m \in 1..n
      BY <2>2
    <3>2. w[i] = v[i - m]
      BY <1>2, <1>3, <2>2
    <3> QED
      BY <1>3, <3>1, <3>2
  <2> QED
    BY <2>1, <2>2
<1>6. Len(w) > 0 /\ Len(w) = m + n
  BY <1>1, <1>3
<1> QED
  BY <1>1, <1>4, <1>5, <1>6 DEF w

LEMMA WriteIs ==
  ASSUME NEW w \in {"insert", "revise", "set", "lead", "tell", "sync", "syncProject"},
         NEW q \in Quotations \cup {None}, NEW s \in Quotes!Status \cup {"none"}
  PROVE  /\ Quotes!W(w, q, s) \in Quotes!Write
         /\ Quotes!W(w, q, s).w = w /\ Quotes!W(w, q, s).q = q /\ Quotes!W(w, q, s).s = s
BY DEF Quotes!W, Quotes!Write

(* A new quotation, and the one it replaces.                               *)
LEMMA QuoteCreate ==
  ASSUME QuoteAssumption, QInv, NEW h \in Sellers, NEW q \in Quotations,
         NEW prev \in Quotations \cup {None}, q # prev, Quotes!Create(h, q, prev)
  PROVE  QInv'
<1>1. /\ ~Quotes!Exists(q) /\ \A g \in Sellers : q \notin seller[g].works
      /\ prev # None => Quotes!Exists(prev)
      /\ UNCHANGED <<qStatus, replaces>>
  BY DEF Quotes!Create
<1>2. /\ "created" \in Quotes!Status /\ "revised" \in Quotes!Status
      /\ None \notin Quotations
  BY DEF Quotes!Status, QuoteAssumption
<1>3. PICK a \in Quotes!Write, d \in Quotes!Write :
        /\ a = Quotes!W("insert", q, "created") /\ a.w = "insert" /\ a.q = q /\ a.s = "created"
        /\ d = Quotes!W("sync", q, "none") /\ d.w = "sync"
  BY <1>2, WriteIs
<1>4. PICK b \in Quotes!Write, c \in Quotes!Write :
        /\ b = Quotes!W("revise", prev, "revised") /\ b.w = "revise" /\ b.q = prev
        /\ b.s = "revised"
        /\ c = Quotes!W("tell", prev, "revised") /\ c.w = "tell"
  BY <1>2, WriteIs
<1>5. PICK works \in SUBSET Quotations : works = {q, prev} \ {None} /\ q \in works
  <2>1. {q, prev} \ {None} \in SUBSET Quotations /\ q \in {q, prev} \ {None}
    BY <1>2
  <2> QED
    BY <2>1
<1>6. CASE prev = None
  <2> DEFINE row == [todo |-> <<a, d>>, works |-> works, prev |-> prev]
  <2>1. seller' = [seller EXCEPT ![h] = row]
    BY <1>3, <1>5, <1>6 DEF Quotes!Create, Quotes!Begin
  <2>2. /\ row \in Todo /\ row.todo = <<a, d>> /\ row.works = works
        /\ Len(row.todo) = 2 /\ row.todo[1] = a /\ row.todo[2] = d
    BY DEF Todo
  <2> HIDE DEF row
  <2>3. \A i \in 1..Len(row.todo) : i = 1 \/ i = 2
    BY <2>2
  <2>4. InOrder(row)
    BY <1>1, <1>3, <1>5, <2>2, <2>3 DEF InOrder
  <2> QED
    BY <1>1, <1>3, <2>1, <2>2, <2>4, QuoteBegins
<1>7. CASE prev # None
  <2> DEFINE row == [todo |-> <<a, b, c, d>>, works |-> works, prev |-> prev]
  <2>1. seller' = [seller EXCEPT ![h] = row]
    BY <1>3, <1>4, <1>5, <1>7 DEF Quotes!Create, Quotes!Begin
  <2>2. /\ row \in Todo /\ row.todo = <<a, b, c, d>> /\ row.works = works /\ row.prev = prev
        /\ Len(row.todo) = 4 /\ row.todo[1] = a /\ row.todo[2] = b
        /\ row.todo[3] = c /\ row.todo[4] = d
    BY DEF Todo
  <2> HIDE DEF row
  <2>3. \A i \in 1..Len(row.todo) : i = 1 \/ i = 2 \/ i = 3 \/ i = 4
    BY <2>2
  <2>4. InOrder(row)
    BY <1>1, <1>3, <1>4, <1>5, <1>7, <2>2, <2>3 DEF InOrder
  <2> QED
    BY <1>1, <1>3, <2>1, <2>2, <2>4, QuoteBegins
<1> QED
  BY <1>6, <1>7

(* A decision on a quotation that is there.                                *)
LEMMA QuoteDecision ==
  ASSUME QuoteAssumption, QInv, NEW h \in Sellers, NEW q \in Quotations, Quotes!Exists(q),
         NEW to \in {"submitted", "confirmed", "rejected"}, NEW todo \in Seq(Quotes!Write),
         Len(todo) > 0, todo[1] = Quotes!W("set", q, to),
         \A i \in 2..Len(todo) : todo[i].w \in {"lead", "tell", "syncProject"},
         seller' = [seller EXCEPT ![h] = [todo |-> todo, works |-> {q}, prev |-> None]],
         UNCHANGED <<qStatus, replaces>>
  PROVE  QInv'
<1> DEFINE row == [todo |-> todo, works |-> {q}, prev |-> None]
<1>1. row \in Todo /\ row.todo = todo
  BY DEF Todo
<1>2. todo[1].w = "set" /\ todo[1].q = q /\ todo[1].s = to
  BY WriteIs DEF Quotes!Status
<1>3. seller' = [seller EXCEPT ![h] = row]
  OBVIOUS
<1> HIDE DEF row
<1>4. \A i \in 1..Len(todo) : i = 1 \/ i \in 2..Len(todo)
  OBVIOUS
<1>5. InOrder(row)
  BY <1>1, <1>2, <1>4 DEF InOrder
<1> QED
  BY <1>1, <1>2, <1>3, <1>5, QuoteBegins

LEMMA QuoteDecides ==
  ASSUME QuoteAssumption, QInv, NEW h \in Sellers, NEW q \in Quotations,
         \/ Quotes!Submit(h, q) \/ Quotes!Approve(h, q)
         \/ \E to \in {"confirmed", "rejected"} : Quotes!UpdateStatus(h, q, to)
  PROVE  QInv'
<1>1. /\ {"submitted", "confirmed", "rejected"} \subseteq Quotes!Status
      /\ \A s \in Quotes!Status : s # "none"
  BY DEF Quotes!Status
<1>2. PICK l \in Quotes!Write, p \in Quotes!Write :
        /\ l = Quotes!W("lead", None, "none") /\ l.w = "lead"
        /\ p = Quotes!W("syncProject", None, "none") /\ p.w = "syncProject"
  <2>1. /\ Quotes!W("lead", None, "none") \in Quotes!Write
        /\ Quotes!W("lead", None, "none").w = "lead"
    BY WriteIs
  <2>2. /\ Quotes!W("syncProject", None, "none") \in Quotes!Write
        /\ Quotes!W("syncProject", None, "none").w = "syncProject"
    BY WriteIs
  <2> QED
    BY <2>1, <2>2
<1>3. ASSUME NEW to \in {"submitted", "confirmed", "rejected"}
      PROVE  \E a \in Quotes!Write, t \in Quotes!Write :
               a = Quotes!W("set", q, to) /\ t = Quotes!W("tell", q, to) /\ t.w = "tell"
  BY <1>1, WriteIs
<1>4. ASSUME Quotes!Submit(h, q) PROVE QInv'
  <2>1. PICK a \in Quotes!Write, t \in Quotes!Write :
          a = Quotes!W("set", q, "submitted") /\ t = Quotes!W("tell", q, "submitted")
          /\ t.w = "tell"
    BY <1>3
  <2>2. /\ seller' = [seller EXCEPT ![h] = [todo |-> <<a, t>>, works |-> {q}, prev |-> None]]
        /\ UNCHANGED <<qStatus, replaces>> /\ Quotes!Exists(q)
    BY <1>4, <2>1 DEF Quotes!Submit, Quotes!Begin, Quotes!Exists
  <2> DEFINE todo == <<a, t>>
  <2>3. /\ todo \in Seq(Quotes!Write) /\ Len(todo) = 2 /\ todo[1] = a
        /\ \A i \in 2..2 : todo[i] = t
    BY TwoElements
  <2> HIDE DEF todo
  <2>4. \A i \in 2..Len(todo) : todo[i].w = "tell"
    BY <2>1, <2>3
  <2>5. seller' = [seller EXCEPT ![h] = [todo |-> todo, works |-> {q}, prev |-> None]]
    BY <2>2 DEF todo
  <2> QED
    <3>1. PICK to \in {"submitted", "confirmed", "rejected"} : to = "submitted"
      OBVIOUS
    <3>2. todo[1] = Quotes!W("set", q, to) /\ Len(todo) > 0
      BY <2>1, <2>3, <3>1
    <3> QED
      BY <2>2, <2>3, <2>4, <2>5, <3>2, QuoteDecision
<1>5. ASSUME NEW to \in {"confirmed", "rejected"}, Quotes!UpdateStatus(h, q, to) PROVE QInv'
  <2>1. PICK a \in Quotes!Write, t \in Quotes!Write :
          a = Quotes!W("set", q, to) /\ t = Quotes!W("tell", q, to) /\ t.w = "tell"
    BY <1>3
  <2>2. /\ \/ seller' = [seller EXCEPT ![h] = [todo |-> <<a, l, t>>, works |-> {q}, prev |-> None]]
           \/ seller' = [seller EXCEPT ![h] = [todo |-> <<a, t>>, works |-> {q}, prev |-> None]]
        /\ UNCHANGED <<qStatus, replaces>> /\ Quotes!Exists(q)
    BY <1>2, <1>5, <2>1 DEF Quotes!UpdateStatus, Quotes!Begin, Quotes!Exists
  <2>3. PICK todo \in {<<a, l, t>>, <<a, t>>} :
          seller' = [seller EXCEPT ![h] = [todo |-> todo, works |-> {q}, prev |-> None]]
    BY <2>2
  <2>4. /\ todo \in Seq(Quotes!Write) /\ Len(todo) > 0 /\ todo[1] = a
        /\ \A i \in 2..Len(todo) : todo[i] = l \/ todo[i] = t
    <3>1. CASE todo = <<a, l, t>>
      BY <3>1, ThreeElements
    <3>2. CASE todo = <<a, t>>
      BY <3>2, TwoElements
    <3> QED
      BY <3>1, <3>2
  <2>5. \A i \in 2..Len(todo) : todo[i].w \in {"lead", "tell"}
    BY <1>2, <2>1, <2>4
  <2> QED
    BY <2>1, <2>2, <2>3, <2>4, <2>5, QuoteDecision
<1>6. ASSUME Quotes!Approve(h, q) PROVE QInv'
  <2>1. PICK a \in Quotes!Write, t \in Quotes!Write :
          a = Quotes!W("set", q, "confirmed") /\ t = Quotes!W("tell", q, "confirmed")
          /\ t.w = "tell"
    BY <1>3
  <2>2. /\ seller' = [seller EXCEPT ![h] =
             [todo |-> <<a, t>> \o (IF lead = "confirmed" THEN <<>> ELSE <<l>>) \o <<p>>,
              works |-> {q}, prev |-> None]]
        /\ UNCHANGED <<qStatus, replaces>> /\ Quotes!Exists(q)
    BY <1>2, <1>6, <2>1 DEF Quotes!Approve, Quotes!Begin
  <2> DEFINE mid == IF lead = "confirmed" THEN <<>> ELSE <<l>>
             head == <<a, t>> \o mid
             todo == head \o <<p>>
             rest == {t, l, p}
  <2>3. mid \in Seq(Quotes!Write) /\ \A i \in 1..Len(mid) : mid[i] \in rest
    OBVIOUS
  <2>4. seller' = [seller EXCEPT ![h] = [todo |-> todo, works |-> {q}, prev |-> None]]
    BY <2>2
  <2>5. /\ todo \in Seq(Quotes!Write) /\ Len(todo) > 0 /\ todo[1] = a
        /\ \A i \in 2..Len(todo) : todo[i] \in rest
    <3>1. PICK two : two = <<a, t>>
      OBVIOUS
    <3>2. PICK one : one = <<p>>
      OBVIOUS
    <3>3. /\ two \in Seq(Quotes!Write) /\ Len(two) > 0 /\ two[1] = a
          /\ \A i \in 2..Len(two) : two[i] \in rest
      BY <3>1, TwoElements
    <3>4. one \in Seq(Quotes!Write) /\ \A i \in 1..Len(one) : one[i] \in rest
      BY <3>2
    <3>5. rest \in SUBSET Quotes!Write /\ head = two \o mid /\ todo = head \o one
      BY <3>1, <3>2
    <3> HIDE DEF mid, head, todo, rest
    <3>6. /\ head \in Seq(Quotes!Write) /\ Len(head) > 0 /\ head[1] = a
          /\ \A i \in 2..Len(head) : head[i] \in rest
      <4>1. /\ two \o mid \in Seq(Quotes!Write) /\ Len(two \o mid) > 0 /\ (two \o mid)[1] = a
            /\ \A i \in 2..Len(two \o mid) : (two \o mid)[i] \in rest
        <5>1. PICK m \in Seq(Quotes!Write), T \in SUBSET Quotes!Write :
                m = mid /\ T = rest /\ \A i \in 1..Len(m) : m[i] \in T
          BY <2>3, <3>5
        <5>2. /\ two \o m \in Seq(Quotes!Write) /\ Len(two \o m) > 0 /\ (two \o m)[1] = a
              /\ \A i \in 2..Len(two \o m) : (two \o m)[i] \in T
          BY <3>3, <5>1, Appended
        <5> QED
          BY <5>1, <5>2
      <4>2. head = two \o mid
        BY <3>5
      <4>3. head \in Seq(Quotes!Write) /\ Len(head) > 0 /\ head[1] = a
        BY <4>1, <4>2
      <4>4. \A i \in 2..Len(head) : head[i] \in rest
        BY <4>1, <4>2, Zenon
      <4> QED
        BY <4>3, <4>4
    <3>7. /\ head \o one \in Seq(Quotes!Write) /\ Len(head \o one) > 0 /\ (head \o one)[1] = a
          /\ \A i \in 2..Len(head \o one) : (head \o one)[i] \in rest
      BY <3>4, <3>5, <3>6, Appended
    <3> QED
      BY <3>5, <3>7
  <2> HIDE DEF mid, head, todo
  <2>6. \A i \in 2..Len(todo) : todo[i].w \in {"tell", "lead", "syncProject"}
    BY <1>2, <2>1, <2>5
  <2> QED
    <3>1. PICK to \in {"submitted", "confirmed", "rejected"} : to = "confirmed"
      OBVIOUS
    <3>2. todo[1] = Quotes!W("set", q, to) /\ Len(todo) > 0
      BY <2>1, <2>5, <3>1
    <3> QED
      BY <2>2, <2>4, <2>5, <2>6, <3>2, QuoteDecision
<1> QED
  BY <1>4, <1>5, <1>6

(* A draft is there at once, and nobody was to insert it.                  *)
LEMMA QuoteDraft ==
  ASSUME QuoteAssumption, QInv, NEW q \in Quotations, NEW prev \in Quotations \cup {None},
         Quotes!SaveAsDraft(q, prev)
  PROVE  QInv'
<1>1. /\ ~Quotes!Exists(q) /\ \A g \in Sellers : q \notin seller[g].works
      /\ qStatus' = [qStatus EXCEPT ![q] = "draft"]
      /\ replaces' = [replaces EXCEPT ![q] = prev] /\ seller' = seller
  BY DEF Quotes!SaveAsDraft
<1>2. /\ qStatus' \in [Quotations -> Quotes!Status \cup {"none"}] /\ qStatus'[q] = "draft"
      /\ replaces' \in [Quotations -> Quotations \cup {None}]
      /\ \A r \in Quotations \ {q} : qStatus'[r] = qStatus[r] /\ replaces'[r] = replaces[r]
  BY <1>1 DEF QInv, QuoteTyped, Quotes!Status
<1>3. QuoteTyped'
  BY <1>1, <1>2 DEF QInv, QuoteTyped, Todo, Quotes!Status, Quotes!Write
<1>4. Remains
  BY <1>1, <1>2 DEF Remains, Quotes!Exists
<1>5. ASSUME NEW g \in Sellers PROVE InOrder(seller[g])'
  <2>1. \A i \in 1..Len(seller[g].todo) : seller[g].todo[i].w = "insert" =>
          seller[g].todo[i].q \in Quotations \ {q} /\ ~Quotes!Exists(seller[g].todo[i].q)
    BY <1>1 DEF QInv, QuoteTyped, Todo, InOrder
  <2>2. \A i \in 1..Len(seller[g].todo) : seller[g].todo[i].w = "insert" =>
          ~(qStatus'[seller[g].todo[i].q] # "none")
    BY <1>2, <2>1 DEF Quotes!Exists
  <2>3. PICK row : row = seller[g]
    OBVIOUS
  <2>4. InOrder(row)'
    BY <1>4, <2>2, <2>3, RowStays DEF QInv, Quotes!Exists
  <2> QED
    BY <1>1, <2>3, <2>4
<1>6. InsertedOnce'
  BY <1>1 DEF QInv, InsertedOnce, Inserts
<1>7. Quotes!RevisedHasSuccessor'
  <2>1. \A r \in Quotations : qStatus'[r] = "revised" => Succeeded(r)
    BY <1>2 DEF QInv, Quotes!RevisedHasSuccessor, Succeeded
  <2>2. \A r \in Quotations : qStatus'[r] = "revised" => Succeeded(r)'
    BY <1>4, <2>1, SuccessorsRemain
  <2> QED
    BY <2>2 DEF Quotes!RevisedHasSuccessor, Succeeded
<1> QED
  BY <1>3, <1>5, <1>6, <1>7 DEF QInv

LEMMA QuoteLeadCloses == ASSUME QuoteAssumption, QInv, Quotes!CloseLead PROVE QInv'
<1>1. /\ qStatus' = [q \in Quotations |-> IF Quotes!Exists(q) THEN "rejected" ELSE "none"]
      /\ replaces' = replaces /\ seller' = seller
  BY DEF Quotes!CloseLead
<1>2. /\ qStatus' \in [Quotations -> Quotes!Status \cup {"none"}]
      /\ \A q \in Quotations : qStatus'[q] # "revised" /\ (qStatus'[q] # "none" <=> Quotes!Exists(q))
  BY <1>1 DEF Quotes!Status
<1>3. QuoteTyped'
  BY <1>1, <1>2 DEF QInv, QuoteTyped, Todo, Quotes!Status, Quotes!Write
<1>4. Remains
  BY <1>1, <1>2 DEF Remains, Quotes!Exists
<1>5. ASSUME NEW g \in Sellers PROVE InOrder(seller[g])'
  <2>1. PICK row : row = seller[g]
    OBVIOUS
  <2>2. \A i \in 1..Len(row.todo) : row.todo[i].w = "insert" => ~Quotes!Exists(row.todo[i].q)'
    BY <1>2, <2>1 DEF QInv, QuoteTyped, Todo, InOrder, Quotes!Exists
  <2>3. InOrder(row)'
    BY <1>4, <2>1, <2>2, RowStays DEF QInv
  <2> QED
    BY <1>1, <2>1, <2>3
<1>6. InsertedOnce'
  BY <1>1 DEF QInv, InsertedOnce, Inserts
<1>7. Quotes!RevisedHasSuccessor'
  BY <1>2 DEF Quotes!RevisedHasSuccessor
<1> QED
  BY <1>3, <1>5, <1>6, <1>7 DEF QInv

(* What is left to do after a query is in order, when the quotation it was *)
(* to insert has taken the place of the one it replaces.                   *)
LEMMA RestInOrder ==
  ASSUME Remains, NEW row \in Todo, Len(row.todo) > 0, InOrder(row), NEW new \in Todo,
         new.todo = Tail(row.todo), new.prev = row.prev,
         row.todo[1].w = "insert" => Succeeded(row.prev)'
  PROVE  InOrder(new)'
<1>1. PICK n \in Nat : n = Len(row.todo) /\ Len(new.todo) = n - 1
  BY DEF Todo
<1>2. \A i \in 1..(n - 1) : new.todo[i] = row.todo[i + 1] /\ i + 1 \in 2..n
  BY <1>1 DEF Todo
<1>3. \A q : Succeeded(q) => Succeeded(q)'
  BY SuccessorsRemain
<1>4. \A q \in Quotations : Quotes!Exists(q) => Quotes!Exists(q)'
  BY DEF Remains
<1>5. ASSUME NEW i \in 1..(n - 1)
      PROVE  /\ new.todo[i].w # "insert"
             /\ new.todo[i].w \in {"set", "revise"} =>
                  new.todo[i].q \in Quotations /\ Quotes!Exists(new.todo[i].q)'
             /\ new.todo[i].w = "set" => new.todo[i].s \notin {"none", "revised"}
             /\ new.todo[i].w = "revise" =>
                  new.todo[i].s = "revised" /\ Succeeded(new.todo[i].q)'
  <2>1. PICK k \in 2..n : k = i + 1 /\ new.todo[i] = row.todo[k]
    BY <1>2
  <2>2. k \in 1..Len(row.todo) /\ k # 1
    BY <1>1
  <2> QED
    BY <1>3, <1>4, <2>1, <2>2 DEF InOrder
<1> QED
  BY <1>1, <1>5 DEF InOrder

(* What a request has to do after a query.                                 *)
LEMMA QuoteRests ==
  ASSUME QInv, NEW h \in Sellers, seller[h].todo # <<>>, Quotes!Rest(h)
  PROVE  /\ Len(seller[h].todo) > 0 /\ Head(seller[h].todo) = seller[h].todo[1]
         /\ seller[h].todo[1] \in Quotes!Write
         /\ seller' \in [Sellers -> Todo] /\ \A g \in Sellers \ {h} : seller'[g] = seller[g]
         /\ \/ Len(seller'[h].todo) = 0
            \/ seller'[h].todo = Tail(seller[h].todo) /\ seller'[h].prev = seller[h].prev
<1>1. PICK row \in Todo : row = seller[h]
  BY DEF QInv, QuoteTyped
<1>2. row.todo \in Seq(Quotes!Write) /\ row.todo # <<>>
  BY <1>1 DEF Todo
<1>3. Len(row.todo) > 0 /\ Head(row.todo) = row.todo[1] /\ row.todo[1] \in Quotes!Write
  BY <1>2
<1>4. Tail(row.todo) \in Seq(Quotes!Write)
  BY <1>2
<1>5. Quotes!Idle \in Todo /\ Len(Quotes!Idle.todo) = 0
  BY DEF Quotes!Idle, Todo
<1>6. PICK new \in Todo :
        /\ new = [row EXCEPT !.todo = Tail(row.todo)]
        /\ new.todo = Tail(row.todo) /\ new.prev = row.prev
  <2>1. /\ [row EXCEPT !.todo = Tail(row.todo)] \in Todo
        /\ [row EXCEPT !.todo = Tail(row.todo)].todo = Tail(row.todo)
        /\ [row EXCEPT !.todo = Tail(row.todo)].prev = row.prev
    BY <1>4 DEF Todo
  <2> QED
    BY <2>1
<1>7. seller' = [seller EXCEPT ![h] = IF Len(row.todo) = 1 THEN Quotes!Idle ELSE new]
  BY <1>1, <1>6 DEF Quotes!Rest
<1>8. /\ seller' \in [Sellers -> Todo] /\ \A g \in Sellers \ {h} : seller'[g] = seller[g]
      /\ seller'[h] = Quotes!Idle \/ seller'[h] = new
  BY <1>5, <1>6, <1>7 DEF QInv, QuoteTyped
<1> QED
  BY <1>1, <1>3, <1>5, <1>6, <1>8

(* A query of a request, whatever it writes.                               *)
LEMMA AfterQuery ==
  ASSUME QInv, Remains, NEW h \in Sellers, seller[h].todo # <<>>, Quotes!Rest(h),
         qStatus' \in [Quotations -> Quotes!Status \cup {"none"}],
         replaces' \in [Quotations -> Quotations \cup {None}],
         \A g \in Sellers \ {h} : \A i \in 1..Len(seller[g].todo) :
           seller[g].todo[i].w = "insert" => qStatus'[seller[g].todo[i].q] = "none",
         seller[h].todo[1].w = "insert" =>
           \E r \in Quotations : qStatus'[r] # "none" /\ replaces'[r] = seller[h].prev,
         \A r \in Quotations : qStatus'[r] = "revised" => Succeeded(r)'
  PROVE  QInv'
<1>1. /\ Len(seller[h].todo) > 0 /\ seller \in [Sellers -> Todo]
      /\ seller' \in [Sellers -> Todo] /\ \A g \in Sellers \ {h} : seller'[g] = seller[g]
      /\ \/ Len(seller'[h].todo) = 0
         \/ seller'[h].todo = Tail(seller[h].todo) /\ seller'[h].prev = seller[h].prev
  BY QuoteRests DEF QInv, QuoteTyped
<1>2. QuoteTyped'
  BY <1>1 DEF QuoteTyped, Todo, Quotes!Status, Quotes!Write
<1>3. InOrder(seller[h])'
  <2>1. PICK row \in Todo, new \in Todo : row = seller[h] /\ new = seller'[h]
    BY <1>1
  <2>2. CASE Len(new.todo) = 0
    <3>1. InOrder(new)'
      BY <2>2 DEF InOrder
    <3> QED
      BY <2>1, <3>1
  <2>3. CASE new.todo = Tail(row.todo) /\ new.prev = row.prev
    <3>1. InOrder(row) /\ Len(row.todo) > 0
      BY <1>1, <2>1 DEF QInv
    <3>2. PICK p : p = row.prev
      OBVIOUS
    <3>3. row.todo[1].w = "insert" => Succeeded(p)'
      BY <2>1, <3>2 DEF Succeeded, Quotes!Exists
    <3>4. InOrder(new)'
      BY <2>3, <3>1, <3>2, <3>3, RestInOrder
    <3> QED
      BY <2>1, <3>4
  <2> QED
    BY <1>1, <2>1, <2>2, <2>3
<1>4. ASSUME NEW g \in Sellers \ {h} PROVE InOrder(seller[g])'
  <2>1. PICK row : row = seller[g]
    OBVIOUS
  <2>2. \A i \in 1..Len(row.todo) : row.todo[i].w = "insert" => ~Quotes!Exists(row.todo[i].q)'
    BY <2>1 DEF Quotes!Exists
  <2>3. InOrder(row)'
    BY <2>1, <2>2, RowStays DEF QInv
  <2> QED
    BY <1>1, <2>1, <2>3
<1>5. InsertedOnce'
  <2>1. \A q \in Quotations : ~Inserts(h, q)'
    <3>1. CASE Len(seller'[h].todo) = 0
      BY <3>1 DEF Inserts
    <3>2. CASE seller'[h].todo = Tail(seller[h].todo)
      <4>1. PICK todo \in Seq(Quotes!Write), tail \in Seq(Quotes!Write) :
              todo = seller[h].todo /\ tail = seller'[h].todo
        BY <1>1 DEF Todo
      <4>2. Len(tail) > 0 => tail[1] = todo[2] /\ 2 \in 1..Len(todo)
        BY <1>1, <3>2, <4>1
      <4>3. Len(tail) > 0 => tail[1].w # "insert"
        BY <4>1, <4>2 DEF QInv, InOrder
      <4> QED
        BY <4>1, <4>3 DEF Inserts
    <3> QED
      BY <1>1, <3>1, <3>2
  <2>2. \A q \in Quotations : \A g \in Sellers \ {h} : Inserts(g, q)' <=> Inserts(g, q)
    BY <1>1 DEF Inserts
  <2> QED
    BY <2>1, <2>2 DEF QInv, InsertedOnce
<1>6. Quotes!RevisedHasSuccessor'
  BY DEF Quotes!RevisedHasSuccessor, Succeeded
<1> QED
  BY <1>2, <1>3, <1>4, <1>5, <1>6 DEF QInv

LEMMA QuoteStep ==
  ASSUME QuoteAssumption, QInv, NEW h \in Sellers, Quotes!Step(h)
  PROVE  QInv'
<1>1. seller[h].todo # <<>> /\ Quotes!Rest(h)
  BY DEF Quotes!Step
<1>2. PICK e \in Quotes!Write : e = Head(seller[h].todo) /\ e = seller[h].todo[1]
  BY <1>1, QuoteRests
<1>3. /\ Len(seller[h].todo) > 0 /\ 1 \in 1..Len(seller[h].todo) /\ InOrder(seller[h])
      /\ seller[h] \in Todo
  <2>1. InOrder(seller[h]) /\ seller[h] \in Todo
    BY DEF QInv, QuoteTyped
  <2>2. Len(seller[h].todo) \in Nat
    BY <2>1 DEF Todo
  <2> QED
    BY <1>1, <2>1, <2>2, QuoteRests
<1>4. Quotes!Insert(h, e) \/ Quotes!SetStatus(h, e) \/ Quotes!ConfirmLead(h, e) \/ Quotes!Tell(h, e)
  BY <1>2 DEF Quotes!Step
<1>5. \A g \in Sellers : \A i \in 1..Len(seller[g].todo) :
        seller[g].todo[i].w = "insert" =>
          seller[g].todo[i].q \in Quotations /\ ~Quotes!Exists(seller[g].todo[i].q)
          /\ Inserts(g, seller[g].todo[i].q)
  <2> SUFFICES ASSUME NEW g \in Sellers, NEW i \in 1..Len(seller[g].todo),
                      seller[g].todo[i].w = "insert"
               PROVE  /\ seller[g].todo[i].q \in Quotations
                      /\ ~Quotes!Exists(seller[g].todo[i].q) /\ Inserts(g, seller[g].todo[i].q)
    OBVIOUS
  <2>1. PICK row \in Todo : row = seller[g] /\ InOrder(row)
    BY DEF QInv, QuoteTyped
  <2>2. i = 1 /\ row.todo[i].q \in row.works /\ ~Quotes!Exists(row.todo[i].q)
    BY <2>1 DEF InOrder
  <2>3. Len(row.todo) > 0
    BY <2>1 DEF Todo
  <2> QED
    BY <2>1, <2>2, <2>3 DEF Todo, Inserts
<1>6. \A r \in Quotations : qStatus[r] = "revised" => Succeeded(r)
  BY DEF QInv, Quotes!RevisedHasSuccessor, Succeeded
<1>7. CASE Quotes!Insert(h, e)
  <2>1. PICK q \in Quotations, prev \in Quotations \cup {None} :
          q = e.q /\ prev = seller[h].prev
    BY <1>2, <1>3, <1>7 DEF InOrder, Todo, Quotes!Insert
  <2>2. e.s = "created" /\ ~Quotes!Exists(q) /\ Inserts(h, q)
    BY <1>2, <1>3, <1>7, <2>1 DEF InOrder, Inserts, Quotes!Insert
  <2>3. /\ qStatus' = [qStatus EXCEPT ![q] = "created"]
        /\ replaces' = [replaces EXCEPT ![q] = prev]
    BY <1>7, <2>1, <2>2 DEF Quotes!Insert
  <2>4. /\ qStatus' \in [Quotations -> Quotes!Status \cup {"none"}] /\ qStatus'[q] = "created"
        /\ replaces' \in [Quotations -> Quotations \cup {None}] /\ replaces'[q] = prev
        /\ \A r \in Quotations \ {q} : qStatus'[r] = qStatus[r] /\ replaces'[r] = replaces[r]
    BY <2>3 DEF QInv, QuoteTyped, Quotes!Status
  <2>5. Remains
    BY <2>2, <2>4 DEF Remains, Quotes!Exists
  <2>6. \A g \in Sellers \ {h} : \A i \in 1..Len(seller[g].todo) :
          seller[g].todo[i].w = "insert" => qStatus'[seller[g].todo[i].q] = "none"
    BY <1>5, <2>2, <2>4 DEF QInv, InsertedOnce, Quotes!Exists
  <2>9. \A r \in Quotations : qStatus'[r] = "revised" => Succeeded(r)'
    <3>1. \A r \in Quotations : qStatus'[r] = "revised" => Succeeded(r)
      BY <1>6, <2>4
    <3> QED
      BY <2>5, <3>1, SuccessorsRemain
  <2>10. qStatus'[q] # "none" /\ replaces'[q] = seller[h].prev
    BY <2>1, <2>4
  <2> QED
    BY <1>1, <2>4, <2>5, <2>6, <2>9, <2>10, AfterQuery
<1>8. CASE Quotes!SetStatus(h, e)
  <2>1. PICK q \in Quotations, s \in Quotes!Status :
          /\ q = e.q /\ s = e.s /\ Quotes!Exists(q) /\ s # "none"
          /\ s = "revised" => Succeeded(q)
    BY <1>2, <1>3, <1>8 DEF InOrder, Quotes!SetStatus, Quotes!Write, Quotes!Status
  <2>2. qStatus' = [qStatus EXCEPT ![q] = s] /\ replaces' = replaces
    BY <1>8, <2>1 DEF Quotes!SetStatus
  <2>3. /\ qStatus' \in [Quotations -> Quotes!Status \cup {"none"}] /\ qStatus'[q] = s
        /\ replaces' \in [Quotations -> Quotations \cup {None}]
        /\ \A r \in Quotations \ {q} : qStatus'[r] = qStatus[r]
    BY <2>2 DEF QInv, QuoteTyped
  <2>4. Remains
    BY <2>1, <2>2, <2>3 DEF Remains, Quotes!Exists
  <2>5. \A r \in Quotations : ~(qStatus[r] # "none") => ~(qStatus'[r] # "none")
    BY <2>1, <2>3 DEF Quotes!Exists
  <2>6. \A g \in Sellers \ {h} : \A i \in 1..Len(seller[g].todo) :
          seller[g].todo[i].w = "insert" => qStatus'[seller[g].todo[i].q] = "none"
    BY <1>5, <2>5 DEF Quotes!Exists
  <2>8. \A r \in Quotations : qStatus'[r] = "revised" => Succeeded(r)'
    <3>1. \A r \in Quotations : qStatus'[r] = "revised" => Succeeded(r)
      BY <1>6, <2>1, <2>3
    <3> QED
      BY <2>4, <3>1, SuccessorsRemain
  <2>9. seller[h].todo[1].w # "insert"
    BY <1>2, <1>8 DEF Quotes!SetStatus
  <2> QED
    BY <1>1, <1>2, <2>3, <2>4, <2>6, <2>8, <2>9, AfterQuery
<1>9. CASE Quotes!ConfirmLead(h, e) \/ Quotes!Tell(h, e)
  <2>1. qStatus' = qStatus /\ replaces' = replaces /\ e.w # "insert"
    BY <1>9 DEF Quotes!ConfirmLead, Quotes!Tell
  <2>2. Remains
    BY <2>1 DEF Remains, Quotes!Exists
  <2>3. /\ qStatus' \in [Quotations -> Quotes!Status \cup {"none"}]
        /\ replaces' \in [Quotations -> Quotations \cup {None}]
    BY <2>1 DEF QInv, QuoteTyped
  <2>4. \A g \in Sellers \ {h} : \A i \in 1..Len(seller[g].todo) :
          seller[g].todo[i].w = "insert" => qStatus'[seller[g].todo[i].q] = "none"
    BY <1>5, <2>1 DEF Quotes!Exists
  <2>6. \A r \in Quotations : qStatus'[r] = "revised" => Succeeded(r)'
    BY <1>6, <2>1, <2>2, SuccessorsRemain
  <2> QED
    BY <1>1, <1>2, <2>1, <2>2, <2>3, <2>4, <2>6, AfterQuery
<1> QED
  BY <1>4, <1>7, <1>8, <1>9

(* A request that fails, or all of them when the server stops.             *)
LEMMA QuoteForgets ==
  ASSUME QInv, UNCHANGED <<qStatus, replaces>>, seller' \in [Sellers -> Todo],
         \A g \in Sellers : seller'[g] = seller[g] \/ seller'[g].todo = <<>>
  PROVE  QInv'
<1>1. QuoteTyped'
  BY DEF QInv, QuoteTyped, Todo, Quotes!Status, Quotes!Write
<1>2. Quotes!RevisedHasSuccessor'
  BY DEF QInv, Quotes!RevisedHasSuccessor, Quotes!Exists
<1>3. ASSUME NEW g \in Sellers PROVE InOrder(seller[g])'
  <2>1. PICK row, new : row = seller[g] /\ new = seller'[g]
    OBVIOUS
  <2>2. InOrder(row) => InOrder(row)'
    BY DEF InOrder, Succeeded, Quotes!Exists
  <2>3. new.todo = <<>> => InOrder(new)'
    BY DEF InOrder
  <2> QED
    BY <2>1, <2>2, <2>3 DEF QInv
<1>4. InsertedOnce'
  <2>1. \A g \in Sellers, q \in Quotations : Inserts(g, q)' => Inserts(g, q)
    BY DEF Inserts
  <2> QED
    BY <2>1 DEF QInv, InsertedOnce
<1> QED
  BY <1>1, <1>2, <1>3, <1>4 DEF QInv

LEMMA QuotesNext == ASSUME QuoteAssumption, QInv, Quotes!Next PROVE QInv'
<1>1. CASE Quotes!Request
  <2>1. ASSUME NEW q \in Quotations, NEW prev \in Quotations \cup {None}, q # prev,
               \/ Quotes!SaveAsDraft(q, prev) \/ \E h \in Sellers : Quotes!Create(h, q, prev)
        PROVE  QInv'
    BY <2>1, QuoteDraft, QuoteCreate
  <2>2. ASSUME NEW q \in Quotations, Quotes!Update(q) \/ Quotes!ApproveWithoutProject(q)
        PROVE  QInv'
    BY <2>2, QuotesStay DEF Quotes!Update, Quotes!ApproveWithoutProject
  <2>3. ASSUME NEW q \in Quotations, NEW h \in Sellers, 
               \/ Quotes!Submit(h, q) \/ Quotes!Approve(h, q)
               \/ \E to \in {"confirmed", "rejected"} : Quotes!UpdateStatus(h, q, to)
        PROVE  QInv'
    BY <2>3, QuoteDecides
  <2>4. CASE Quotes!CloseLead
    BY <2>4, QuoteLeadCloses
  <2>5. CASE Quotes!CreateProject \/ Quotes!RemoveProject
    BY <2>5, QuotesStay DEF Quotes!CreateProject, Quotes!RemoveProject
  <2> QED
    BY <1>1, <2>1, <2>2, <2>3, <2>4, <2>5 DEF Quotes!Request
<1>2. ASSUME NEW h \in Sellers, Quotes!Step(h) PROVE QInv'
  BY <1>2, QuoteStep
<1>3. Quotes!Idle \in Todo /\ Quotes!Idle.todo = <<>>
  BY DEF Quotes!Idle, Todo
<1>4. ASSUME NEW h \in Sellers, Quotes!Fail(h) PROVE QInv'
  <2>1. UNCHANGED <<qStatus, replaces>> /\ seller' = [seller EXCEPT ![h] = Quotes!Idle]
    BY <1>4 DEF Quotes!Fail
  <2> QED
    BY <1>3, <2>1, QuoteForgets DEF QInv, QuoteTyped
<1>5. ASSUME NEW w \in QuoteWorkers,
             Quotes!Take(w) \/ Quotes!Push(w) \/ Quotes!Store(w) \/ Quotes!JobFails(w)
      PROVE  QInv'
  BY <1>5, QuotesStay
  DEF Quotes!Take, Quotes!Push, Quotes!Store, Quotes!JobFails, Quotes!localVars
<1>6. CASE Quotes!Restart
  <2>1. UNCHANGED <<qStatus, replaces>> /\ seller' = [h \in Sellers |-> Quotes!Idle]
    BY <1>6 DEF Quotes!Restart
  <2> QED
    BY <1>3, <2>1, QuoteForgets
<1> QED
  BY <1>1, <1>2, <1>4, <1>5, <1>6 DEF Quotes!Next, Quotes!LocalNext

IsJob(row) ==
  row = [doc |-> row.doc, step |-> row.step, s |-> row.s, new |-> row.new, m |-> row.m]

OnProject(w) == qJob[w].doc = "project"

\* One job at most is at work on the project; it has been created when it is referred to or a
\* job is to store the reference; and whoever is to create it has found it not created.
OnceInv ==
  /\ DOMAIN qJob = QuoteWorkers /\ \A w \in QuoteWorkers : IsJob(qJob[w])
  /\ "project" \notin jobRaced \cup jobBroken =>
       /\ \A v, w \in QuoteWorkers : OnProject(v) /\ OnProject(w) => v = w
       /\ \/ created = 0
          \/ /\ created = 1
             /\ \/ "project" \in qRef
                \/ \E w \in QuoteWorkers : OnProject(w) /\ qJob[w].step = "store"
       /\ \A w \in QuoteWorkers :
            OnProject(w) /\ qJob[w].step = "push" /\ qJob[w].new => created = 0

LEMMA OnceInit == QuoteAssumption /\ Quotes!Init => OnceInv
<1> SUFFICES ASSUME QuoteAssumption, Quotes!Init PROVE OnceInv
  OBVIOUS
<1>1. /\ qJob = [w \in QuoteWorkers |-> Quotes!NoJob] /\ created = 0
      /\ Quotes!NoJob.doc = None /\ IsJob(Quotes!NoJob) /\ None # "project"
  BY DEF Quotes!Init, Quotes!NoJob, IsJob, QuoteAssumption
<1> QED
  BY <1>1 DEF OnceInv, OnProject

LEMMA OnceStays ==
  ASSUME OnceInv, UNCHANGED <<qRef, qJob, created, jobRaced, jobBroken>>
  PROVE  OnceInv'
BY DEF OnceInv, OnProject

(* The next row of a job.                                                  *)
LEMMA JobMoves ==
  ASSUME OnceInv, NEW w \in QuoteWorkers, NEW row, IsJob(row),
         qJob' = [qJob EXCEPT ![w] = row]
  PROVE  /\ DOMAIN qJob' = QuoteWorkers /\ \A v \in QuoteWorkers : IsJob(qJob'[v])
         /\ qJob'[w] = row /\ \A v \in QuoteWorkers \ {w} : qJob'[v] = qJob[v]
BY DEF OnceInv

LEMMA ProjectTaken ==
  ASSUME OnceInv, NEW w \in QuoteWorkers, Quotes!Take(w)
  PROVE  OnceInv'
<1>1. qJob[w].step # "store" /\ UNCHANGED <<qRef, created, jobBroken>>
  BY DEF Quotes!Take
<1>2. PICK m, d : m = Head(qQueue) /\ d = Quotes!Doc(m)
  OBVIOUS
<1>3. PICK row :
        row = [doc |-> d, step |-> "push", s |-> Quotes!StatusFor(m), new |-> d \notin qRef,
               m |-> m]
  OBVIOUS
<1>4. /\ qJob' = [qJob EXCEPT ![w] = row]
      /\ jobRaced' = IF \E v \in QuoteWorkers : qJob[v].doc = d THEN jobRaced \cup {d}
                     ELSE jobRaced
  BY <1>2, <1>3 DEF Quotes!Take
<1>5. row.doc = d /\ IsJob(row)
  BY <1>3 DEF IsJob
<1>6. row.new <=> d \notin qRef
  BY <1>3
<1>7. /\ DOMAIN qJob' = QuoteWorkers /\ \A v \in QuoteWorkers : IsJob(qJob'[v])
      /\ qJob'[w] = row /\ \A v \in QuoteWorkers \ {w} : qJob'[v] = qJob[v]
  BY <1>4, <1>5, JobMoves
<1>8. CASE d = "project" /\ \E v \in QuoteWorkers : qJob[v].doc = d
  <2>1. "project" \in jobRaced'
    BY <1>4, <1>8
  <2> QED
    BY <1>7, <2>1 DEF OnceInv
<1>9. CASE d = "project" /\ \A v \in QuoteWorkers : qJob[v].doc # d
  <2>1. jobRaced' = jobRaced /\ \A v \in QuoteWorkers : ~OnProject(v)
    BY <1>4, <1>9 DEF OnProject
  <2>2. \A v \in QuoteWorkers : OnProject(v)' => v = w
    BY <1>7, <2>1 DEF OnProject
  <2> QED
    BY <1>1, <1>6, <1>7, <1>9, <2>1, <2>2 DEF OnceInv
<1>10. CASE d # "project"
  <2>1. ~OnProject(w)' /\ \A v \in QuoteWorkers \ {w} : OnProject(v)' <=> OnProject(v)
    BY <1>5, <1>7, <1>10 DEF OnProject
  <2>2. "project" \in jobRaced' <=> "project" \in jobRaced
    BY <1>4, <1>10
  <2> QED
    BY <1>1, <1>7, <2>1, <2>2 DEF OnceInv
<1> QED
  BY <1>8, <1>9, <1>10

LEMMA ProjectPushed ==
  ASSUME QuoteAssumption, OnceInv, NEW w \in QuoteWorkers, Quotes!Push(w)
  PROVE  OnceInv'
<1>1. qJob[w].step = "push" /\ UNCHANGED <<qRef, jobRaced, jobBroken>>
  BY DEF Quotes!Push
<1>2. PICK old : old = qJob[w] /\ IsJob(old) /\ old.step = "push"
  BY <1>1 DEF OnceInv
<1>3. PICK next : next = [old EXCEPT !.step = "store"]
  OBVIOUS
<1>4. IsJob(next) /\ next.doc = old.doc /\ next.step = "store"
  BY <1>2, <1>3 DEF IsJob
<1>5. IsJob(Quotes!NoJob) /\ Quotes!NoJob.doc # "project"
  BY DEF IsJob, Quotes!NoJob, QuoteAssumption
<1>6. created' = IF old.doc = "project" /\ old.new THEN created + 1 ELSE created
  BY <1>2 DEF Quotes!Push
<1>7. PICK row : /\ qJob' = [qJob EXCEPT ![w] = row] /\ IsJob(row)
                 /\ row = IF old.new THEN next ELSE Quotes!NoJob
  BY <1>2, <1>3, <1>4, <1>5 DEF Quotes!Push
<1>8. /\ DOMAIN qJob' = QuoteWorkers /\ \A v \in QuoteWorkers : IsJob(qJob'[v])
      /\ qJob'[w] = row /\ \A v \in QuoteWorkers \ {w} : qJob'[v] = qJob[v]
  BY <1>7, JobMoves
<1>9. \A v \in QuoteWorkers \ {w} : OnProject(v)' <=> OnProject(v)
  BY <1>8 DEF OnProject
<1>10. CASE old.doc = "project" /\ old.new
  <2>1. OnProject(w) /\ OnProject(w)' /\ qJob'[w].step = "store" /\ created' = created + 1
    BY <1>2, <1>4, <1>6, <1>7, <1>8, <1>10 DEF OnProject
  <2>2. "project" \notin jobRaced \cup jobBroken => created = 0
    BY <1>1, <1>2, <1>10, <2>1 DEF OnceInv
  <2> QED
    BY <1>1, <1>8, <1>9, <2>1, <2>2 DEF OnceInv
<1>11. CASE old.doc = "project" /\ ~old.new
  <2>1. OnProject(w) /\ ~OnProject(w)' /\ created' = created /\ qJob[w].step # "store"
    BY <1>1, <1>2, <1>5, <1>6, <1>7, <1>8, <1>11 DEF OnProject
  <2> QED
    BY <1>1, <1>8, <1>9, <2>1 DEF OnceInv
<1>12. CASE old.doc # "project"
  <2>1. ~OnProject(w) /\ ~OnProject(w)' /\ created' = created
    BY <1>2, <1>4, <1>5, <1>6, <1>7, <1>8, <1>12 DEF OnProject
  <2> QED
    BY <1>1, <1>8, <1>9, <2>1 DEF OnceInv
<1> QED
  BY <1>10, <1>11, <1>12

(* A job that is over, whichever way.                                      *)
LEMMA ProjectJobEnds ==
  ASSUME QuoteAssumption, OnceInv, NEW w \in QuoteWorkers,
         Quotes!Store(w) \/ Quotes!JobFails(w)
  PROVE  OnceInv'
<1>1. IsJob(Quotes!NoJob) /\ Quotes!NoJob.doc # "project"
  BY DEF IsJob, Quotes!NoJob, QuoteAssumption
<1>2. /\ qJob' = [qJob EXCEPT ![w] = Quotes!NoJob]
      /\ UNCHANGED <<created, jobRaced>>
      /\ \/ qRef' = qRef \cup {qJob[w].doc} /\ UNCHANGED jobBroken
         \/ jobBroken' = jobBroken \cup {qJob[w].doc} /\ UNCHANGED qRef
  BY DEF Quotes!Store, Quotes!JobFails
<1>3. /\ DOMAIN qJob' = QuoteWorkers /\ \A v \in QuoteWorkers : IsJob(qJob'[v])
      /\ qJob'[w] = Quotes!NoJob /\ \A v \in QuoteWorkers \ {w} : qJob'[v] = qJob[v]
  BY <1>1, <1>2, JobMoves
<1>4. ~OnProject(w)' /\ \A v \in QuoteWorkers \ {w} : OnProject(v)' <=> OnProject(v)
  BY <1>1, <1>3 DEF OnProject
<1>5. CASE OnProject(w)
  <2>1. "project" \in jobBroken' \/ ("project" \in qRef' /\ UNCHANGED jobBroken)
    BY <1>2, <1>5 DEF OnProject
  <2> QED
    BY <1>2, <1>3, <1>4, <2>1 DEF OnceInv
<1>6. CASE ~OnProject(w)
  <2>1. /\ "project" \in jobBroken' <=> "project" \in jobBroken
        /\ "project" \in qRef' <=> "project" \in qRef
    BY <1>2, <1>6 DEF OnProject
  <2> QED
    BY <1>2, <1>3, <1>4, <1>6, <2>1 DEF OnceInv
<1> QED
  BY <1>5, <1>6

LEMMA ProjectRestart ==
  ASSUME QuoteAssumption, OnceInv, Quotes!Restart
  PROVE  OnceInv'
<1>1. /\ IsJob(Quotes!NoJob) /\ Quotes!NoJob.doc # "project" /\ None # "project"
      /\ Quotes!NoJob.step # "push"
  BY DEF IsJob, Quotes!NoJob, QuoteAssumption
<1>2. /\ qJob' = [w \in QuoteWorkers |-> Quotes!NoJob]
      /\ jobBroken' = jobBroken \cup Quotes!AtWork
      /\ UNCHANGED <<qRef, created, jobRaced>>
  BY DEF Quotes!Restart
<1>3. \A w \in QuoteWorkers : OnProject(w) => "project" \in jobBroken'
  BY <1>1, <1>2 DEF Quotes!AtWork, OnProject
<1>4. \A w \in QuoteWorkers : ~OnProject(w)' /\ IsJob(qJob'[w])
  BY <1>1, <1>2 DEF OnProject
<1>5. DOMAIN qJob' = QuoteWorkers
  BY <1>2
<1> QED
  BY <1>2, <1>3, <1>4, <1>5 DEF OnceInv

LEMMA OnceNext == ASSUME QuoteAssumption, OnceInv, Quotes!Next PROVE OnceInv'
<1>1. CASE UNCHANGED Quotes!xeroVars
  BY <1>1, OnceStays DEF Quotes!xeroVars
<1>2. ASSUME NEW w \in QuoteWorkers,
             Quotes!Take(w) \/ Quotes!Push(w) \/ Quotes!Store(w) \/ Quotes!JobFails(w)
      PROVE  OnceInv'
  BY <1>2, ProjectTaken, ProjectPushed, ProjectJobEnds
<1> QED
  BY <1>1, <1>2, ProjectRestart DEF Quotes!Next

(* A quotation is marked revised only when its successor is there,         *)
(* whichever query of create fails and whoever else is at work; and the    *)
(* project is created in Xero once, unless two jobs were at work on it or  *)
(* one failed: for any quotations, requests and jobs.                      *)
THEOREM QuotesReplacedInOrder ==
  QuoteAssumption => (Quotes!Spec => [](Quotes!RevisedHasSuccessor /\ Quotes!ProjectCreatedOnce))
<1> SUFFICES ASSUME QuoteAssumption
             PROVE  Quotes!Spec => [](Quotes!RevisedHasSuccessor /\ Quotes!ProjectCreatedOnce)
  OBVIOUS
<1>1. Quotes!Init => QInv /\ OnceInv
  BY QuotesInit, OnceInit
<1>2. QInv /\ OnceInv /\ [Quotes!Next]_(Quotes!vars) => QInv' /\ OnceInv'
  <2> SUFFICES ASSUME QInv, OnceInv, [Quotes!Next]_(Quotes!vars) PROVE QInv' /\ OnceInv'
    OBVIOUS
  <2>1. CASE Quotes!Next
    BY <2>1, QuotesNext, OnceNext
  <2>2. CASE UNCHANGED Quotes!vars
    <3>1. /\ UNCHANGED <<qStatus, replaces, seller>>
          /\ UNCHANGED <<qRef, qJob, created, jobRaced, jobBroken>>
      BY <2>2 DEF Quotes!vars, Quotes!localVars, Quotes!xeroVars
    <3> QED
      BY <3>1, QuotesStay, OnceStays
  <2> QED
    BY <2>1, <2>2
<1>3. QInv /\ OnceInv => Quotes!RevisedHasSuccessor /\ Quotes!ProjectCreatedOnce
  BY DEF QInv, OnceInv, Quotes!ProjectCreatedOnce
<1> QED
  BY <1>1, <1>2, <1>3, PTL DEF Quotes!Spec

-----------------------------------------------------------------------------
(* What Xero shows of a quotation.                                         *)

\* What a message for Xero says of a quotation that has status s.
Match(s) == Quotes!matchLocalQuoteStatusToXero(s)
Right(m, s) == m.kind = "sync" \/ Match(m.s) = Match(s)

Silent(queue, q) == \A i \in 1..Len(queue) : Quotes!Doc(queue[i]) # q

LastRight(queue, q, s) ==
  \A i \in 1..Len(queue) :
    /\ Quotes!Doc(queue[i]) = q
    /\ \A j \in (i + 1)..Len(queue) : Quotes!Doc(queue[j]) # q
    => Right(queue[i], s)

\* Xero has the status s of q, or the job that is at work on q brings it.
Shown(jobs, xero, q, s) ==
  /\ \A w \in QuoteWorkers : jobs[w].doc = q =>
       \/ jobs[w].step = "push" /\ jobs[w].s = Match(s)
       \/ jobs[w].step = "store" /\ xero[q] = Match(s)
  /\ (\A w \in QuoteWorkers : jobs[w].doc # q) => xero[q] = Match(s)

\* Xero has been told of the status s of q, or need not be.
Reports(queue, jobs, xero, q, s) ==
  \/ s \in {"none", "draft"}
  \/ LastRight(queue, q, s) /\ (Silent(queue, q) => Shown(jobs, xero, q, s))

\* A request writes a quotation before it tells Xero of it, and says what it has written.
Changing == {"insert", "set", "revise"}
Telling == {"tell", "sync"}

TellsAfter(todo, q, s) ==
  \A i \in 1..Len(todo) : todo[i].q = q =>
    /\ todo[i].w \in Changing \cup Telling
    /\ todo[i].w \in Changing =>
         \E j \in (i + 1)..Len(todo) : todo[j].q = q /\ todo[j].w \in Telling
    /\ todo[i].w = "tell" =>
         /\ \A j \in 1..(i - 1) :
              todo[j].q = q /\ todo[j].w \in Changing => todo[j].s = todo[i].s
         /\ \/ todo[i].s = s
            \/ \E j \in 1..(i - 1) : todo[j].q = q /\ todo[j].w \in Changing

Concerns(todo, q) == \E i \in 1..Len(todo) : todo[i].q = q

\* What Xero is told is about a quotation.
Named(todo) == \A i \in 1..Len(todo) : todo[i].w \in Telling => todo[i].q \in Quotations

Undisturbed(q) == q \notin raced \cup broken \cup jobRaced \cup jobBroken \cup closed

JobKnows(row) ==
  \/ row.step = "idle" /\ row.doc = None
  \/ row.step \in {"push", "store"} /\ row.m \in Quotes!Message /\ Quotes!Doc(row.m) = row.doc

\* Of an undisturbed quotation, whatever a request has still to say will be right when it is said,
\* and Xero is told, or there is a request that has still to tell it.
AgreeInv ==
  /\ qQueue \in Seq(Quotes!Message) /\ DOMAIN qXero = Quotations
  /\ \A w \in QuoteWorkers : JobKnows(qJob[w])
  /\ \A h \in Sellers : Named(seller[h].todo)
  /\ \A h \in Sellers, q \in Quotations : Concerns(seller[h].todo, q) => q \in seller[h].works
  /\ \A q \in Quotations \ raced : \A g, h \in Sellers :
       q \in seller[g].works /\ q \in seller[h].works => g = h
  /\ \A q \in Quotations : Undisturbed(q) =>
       /\ \A v, w \in QuoteWorkers : qJob[v].doc = q /\ qJob[w].doc = q => v = w
       /\ \A h \in Sellers : TellsAfter(seller[h].todo, q, qStatus[q])
       /\ \/ Reports(qQueue, qJob, qXero, q, qStatus[q])
          \/ \E h \in Sellers : Concerns(seller[h].todo, q)

LEMMA MessageAppended ==
  ASSUME NEW queue \in Seq(Quotes!Message), NEW m \in Quotes!Message, NEW q, NEW s
  PROVE  /\ Append(queue, m) \in Seq(Quotes!Message)
         /\ Quotes!Doc(m) = q /\ Right(m, s) =>
              LastRight(Append(queue, m), q, s) /\ ~Silent(Append(queue, m), q)
         /\ Quotes!Doc(m) # q /\ LastRight(queue, q, s) => LastRight(Append(queue, m), q, s)
         /\ Quotes!Doc(m) # q /\ Silent(Append(queue, m), q) => Silent(queue, q)
<1> DEFINE after == Append(queue, m)
<1>1. PICK n \in Nat : n = Len(queue)
  OBVIOUS
<1>2. /\ after \in Seq(Quotes!Message) /\ Len(after) = n + 1 /\ after[n + 1] = m
      /\ \A i \in 1..n : after[i] = queue[i]
  BY <1>1, AppendProperties
<1> HIDE DEF after
<1>3. ASSUME Quotes!Doc(m) = q, Right(m, s) PROVE LastRight(after, q, s) /\ ~Silent(after, q)
  <2>1. n + 1 \in 1..Len(after) /\ Quotes!Doc(after[n + 1]) = q
    BY <1>2, <1>3
  <2>2. ~Silent(after, q)
    BY <2>1 DEF Silent
  <2>3. \A i \in 1..Len(after) : i = n + 1 \/ n + 1 \in (i + 1)..Len(after)
    BY <1>2
  <2>4. LastRight(after, q, s)
    BY <1>2, <1>3, <2>1, <2>3 DEF LastRight
  <2> QED
    BY <2>2, <2>4
<1>4. ASSUME Quotes!Doc(m) # q, LastRight(queue, q, s) PROVE LastRight(after, q, s)
  <2> SUFFICES ASSUME NEW i \in 1..(n + 1), Quotes!Doc(after[i]) = q,
                      \A j \in (i + 1)..(n + 1) : Quotes!Doc(after[j]) # q
               PROVE  Right(after[i], s)
    BY <1>2 DEF LastRight
  <2>1. i \in 1..n /\ after[i] = queue[i]
    BY <1>2, <1>4
  <2>2. \A j \in (i + 1)..n : j \in (i + 1)..(n + 1) /\ after[j] = queue[j]
    BY <1>2
  <2>3. \A j \in (i + 1)..n : Quotes!Doc(queue[j]) # q
    BY <2>2
  <2> QED
    BY <1>1, <1>4, <2>1, <2>3 DEF LastRight
<1>5. ASSUME Silent(after, q) PROVE Silent(queue, q)
  BY <1>1, <1>2, <1>5 DEF Silent
<1> QED
  BY <1>2, <1>3, <1>4, <1>5 DEF after

LEMMA MessageTaken ==
  ASSUME NEW queue \in Seq(Quotes!Message), queue # <<>>, NEW q, NEW s
  PROVE  /\ Tail(queue) \in Seq(Quotes!Message) /\ Head(queue) \in Quotes!Message
         /\ LastRight(queue, q, s) => LastRight(Tail(queue), q, s)
         /\ Silent(Tail(queue), q) /\ Quotes!Doc(Head(queue)) # q => Silent(queue, q)
         /\ Silent(Tail(queue), q) /\ Quotes!Doc(Head(queue)) = q /\ LastRight(queue, q, s) =>
              Right(Head(queue), s)
<1> DEFINE rest == Tail(queue)
<1>1. PICK n \in Nat : n + 1 = Len(queue)
  <2>1. Len(queue) \in Nat /\ Len(queue) > 0
    OBVIOUS
  <2>2. Len(queue) - 1 \in Nat /\ (Len(queue) - 1) + 1 = Len(queue)
    BY <2>1
  <2> QED
    BY <2>2
<1>2. /\ rest \in Seq(Quotes!Message) /\ Len(rest) = n
      /\ \A i \in 1..n : rest[i] = queue[i + 1]
      /\ Head(queue) = queue[1] /\ Head(queue) \in Quotes!Message
  BY <1>1, HeadTailProperties
<1> HIDE DEF rest
<1>3. ASSUME LastRight(queue, q, s) PROVE LastRight(rest, q, s)
  <2> SUFFICES ASSUME NEW i \in 1..n, Quotes!Doc(rest[i]) = q,
                      \A j \in (i + 1)..n : Quotes!Doc(rest[j]) # q
               PROVE  Right(rest[i], s)
    BY <1>2 DEF LastRight
  <2>1. PICK k \in 1..(n + 1) : k = i + 1 /\ queue[k] = rest[i]
    BY <1>2
  <2>2. ASSUME NEW j \in (k + 1)..(n + 1) PROVE Quotes!Doc(queue[j]) # q
    <3>1. PICK l \in (i + 1)..n : j = l + 1
      BY <2>1
    <3>2. l \in 1..n
      OBVIOUS
    <3>3. queue[j] = rest[l]
      BY <1>2, <3>1, <3>2
    <3> QED
      BY <3>3
  <2> QED
    BY <1>1, <1>3, <2>1, <2>2 DEF LastRight
<1>4. \A i \in 1..(n + 1) : i = 1 \/ (i - 1 \in 1..n /\ queue[i] = rest[i - 1])
  BY <1>2
<1>5. ASSUME Silent(rest, q), Quotes!Doc(Head(queue)) # q PROVE Silent(queue, q)
  BY <1>1, <1>2, <1>4, <1>5 DEF Silent
<1>6. ASSUME Silent(rest, q), Quotes!Doc(Head(queue)) = q, LastRight(queue, q, s)
      PROVE  Right(Head(queue), s)
  <2>1. \A j \in 2..(n + 1) : Quotes!Doc(queue[j]) # q
    BY <1>2, <1>4, <1>6 DEF Silent
  <2>2. 1 \in 1..(n + 1) /\ 1 + 1 = 2
    OBVIOUS
  <2> QED
    BY <1>1, <1>2, <1>6, <2>1, <2>2 DEF LastRight
<1> QED
  BY <1>2, <1>3, <1>5, <1>6 DEF rest

(* Messages of other quotations that are put in front of a queue.          *)
LEMMA MessagesBack ==
  ASSUME NEW front \in Seq(Quotes!Message), NEW queue \in Seq(Quotes!Message), NEW q, NEW s,
         Silent(front, q)
  PROVE  /\ front \o queue \in Seq(Quotes!Message)
         /\ LastRight(queue, q, s) => LastRight(front \o queue, q, s)
         /\ Silent(front \o queue, q) => Silent(queue, q)
<1> DEFINE all == front \o queue
<1>1. PICK m \in Nat, n \in Nat : m = Len(front) /\ n = Len(queue)
  OBVIOUS
<1>2. all \in Seq(Quotes!Message) /\ Len(all) = Len(front) + Len(queue)
  BY ConcatProperties, Zenon
<1>3. \A i \in 1 .. Len(front) + Len(queue) :
        all[i] = IF i <= Len(front) THEN front[i] ELSE queue[i - Len(front)]
  BY ConcatProperties, Zenon
<1> HIDE DEF all
<1>4. /\ \A i \in 1..m : all[i] = front[i]
      /\ \A i \in 1..n : m + i \in 1..(m + n) /\ all[m + i] = queue[i]
  <2>1. \A i \in 1..m : i \in 1 .. m + n /\ i <= m
    OBVIOUS
  <2>2. \A i \in 1..n : m + i \in 1 .. m + n /\ ~(m + i <= m) /\ (m + i) - m = i
    OBVIOUS
  <2> QED
    BY <1>1, <1>3, <2>1, <2>2
<1>5. ASSUME LastRight(queue, q, s) PROVE LastRight(all, q, s)
  <2> SUFFICES ASSUME NEW i \in 1..(m + n), Quotes!Doc(all[i]) = q,
                      \A j \in (i + 1)..(m + n) : Quotes!Doc(all[j]) # q
               PROVE  Right(all[i], s)
    BY <1>1, <1>2 DEF LastRight
  <2>1. ~(i \in 1..m)
    BY <1>1, <1>4 DEF Silent
  <2>2. PICK k \in 1..n : i = m + k
    <3>1. i - m \in 1..n /\ i = m + (i - m)
      BY <2>1
    <3> QED
      BY <3>1
  <2>3. ASSUME NEW j \in (k + 1)..n PROVE Quotes!Doc(queue[j]) # q
    <3>1. j \in 1..n /\ m + j \in (i + 1)..(m + n)
      BY <2>2
    <3> QED
      BY <1>4, <3>1
  <2> QED
    BY <1>1, <1>4, <1>5, <2>2, <2>3 DEF LastRight
<1>6. ASSUME Silent(all, q) PROVE Silent(queue, q)
  BY <1>1, <1>2, <1>4, <1>6 DEF Silent
<1> QED
  BY <1>2, <1>5, <1>6 DEF all

(* What a request has to do once the first of its queries is done.         *)
LEMMA TellsStill ==
  ASSUME NEW todo \in Seq(Quotes!Write), todo # <<>>, NEW q, NEW s, NEW t,
         TellsAfter(todo, q, s),
         Head(todo).q = q /\ Head(todo).w \in Changing => t = Head(todo).s,
         ~(Head(todo).q = q /\ Head(todo).w \in Changing) => t = s
  PROVE  /\ TellsAfter(Tail(todo), q, t)
         /\ Concerns(Tail(todo), q) => Concerns(todo, q)
         /\ Concerns(todo, q) /\ Head(todo).q # q => Concerns(Tail(todo), q)
         /\ Head(todo).q = q =>
              /\ Concerns(todo, q)
              /\ Head(todo).w \in Changing => Concerns(Tail(todo), q)
              /\ Head(todo).w \in Changing \cup Telling
              /\ Head(todo).w = "tell" => Head(todo).s = s
<1> DEFINE rest == Tail(todo)
<1>1. PICK n \in Nat : n + 1 = Len(todo)
  <2>1. Len(todo) \in Nat /\ Len(todo) > 0
    OBVIOUS
  <2>2. Len(todo) - 1 \in Nat /\ (Len(todo) - 1) + 1 = Len(todo)
    BY <2>1
  <2> QED
    BY <2>2
<1>2. /\ rest \in Seq(Quotes!Write) /\ Len(rest) = n
      /\ \A i \in 1..n : rest[i] = todo[i + 1]
      /\ Head(todo) = todo[1]
  BY <1>1, HeadTailProperties
<1> HIDE DEF rest
<1>3. \A i \in 1..(n + 1) : i = 1 \/ (i - 1 \in 1..n /\ todo[i] = rest[i - 1])
  BY <1>2
<1>4. \A i \in 1..n : i + 1 \in 1..(n + 1) /\ rest[i] = todo[i + 1]
  BY <1>2
<1>5. Concerns(rest, q) => Concerns(todo, q)
  BY <1>1, <1>2, <1>4 DEF Concerns
<1>6. Concerns(todo, q) /\ todo[1].q # q => Concerns(rest, q)
  BY <1>1, <1>2, <1>3 DEF Concerns
<1>7. 1 \in 1..(n + 1) /\ 1 + 1 = 2 /\ 1 - 1 = 0
  OBVIOUS
<1>8. ASSUME todo[1].q = q
      PROVE  /\ Concerns(todo, q) /\ todo[1].w \in Changing \cup Telling
             /\ todo[1].w \in Changing => Concerns(rest, q)
             /\ todo[1].w = "tell" => todo[1].s = s
  <2>1. Concerns(todo, q)
    BY <1>1, <1>7, <1>8 DEF Concerns
  <2>2. /\ todo[1].w \in Changing \cup Telling
        /\ todo[1].w \in Changing => \E j \in 2..(n + 1) : todo[j].q = q
        /\ todo[1].w = "tell" => todo[1].s = s \/ \E j \in 1..0 : todo[j].q = q
    BY <1>1, <1>7, <1>8 DEF TellsAfter
  <2>3. \A j \in 2..(n + 1) : j - 1 \in 1..n /\ todo[j] = rest[j - 1]
    BY <1>3
  <2>4. todo[1].w \in Changing => Concerns(rest, q)
    BY <1>2, <2>2, <2>3 DEF Concerns
  <2> QED
    BY <2>1, <2>2, <2>4
<1>9. ASSUME NEW i \in 1..n, rest[i].q = q
      PROVE  /\ rest[i].w \in Changing \cup Telling
             /\ rest[i].w \in Changing =>
                  \E j \in (i + 1)..n : rest[j].q = q /\ rest[j].w \in Telling
             /\ rest[i].w = "tell" =>
                  /\ \A j \in 1..(i - 1) :
                       rest[j].q = q /\ rest[j].w \in Changing => rest[j].s = rest[i].s
                  /\ \/ rest[i].s = t
                     \/ \E j \in 1..(i - 1) : rest[j].q = q /\ rest[j].w \in Changing
  <2>1. PICK k \in 1..(n + 1) : k = i + 1 /\ todo[k] = rest[i] /\ k - 1 = i
    BY <1>4
  <2>2. /\ todo[k].w \in Changing \cup Telling
        /\ todo[k].w \in Changing =>
             \E j \in (k + 1)..(n + 1) : todo[j].q = q /\ todo[j].w \in Telling
        /\ todo[k].w = "tell" =>
             /\ \A j \in 1..i :
                  todo[j].q = q /\ todo[j].w \in Changing => todo[j].s = todo[k].s
             /\ \/ todo[k].s = s
                \/ \E j \in 1..i : todo[j].q = q /\ todo[j].w \in Changing
    BY <1>1, <1>9, <2>1 DEF TellsAfter
  <2>3. \A j \in (k + 1)..(n + 1) : j - 1 \in (i + 1)..n /\ todo[j] = rest[j - 1]
    <3>1. \A j \in (k + 1)..(n + 1) : j \in 1..(n + 1) /\ j # 1 /\ j - 1 \in (i + 1)..n
      BY <2>1
    <3> QED
      BY <1>3, <3>1
  <2>4. \A j \in 1..(i - 1) : j + 1 \in 1..i /\ rest[j] = todo[j + 1]
    BY <1>4
  <2>5. \A j \in 1..i : j = 1 \/ (j - 1 \in 1..(i - 1) /\ todo[j] = rest[j - 1])
    BY <1>3
  <2>6. rest[i].w \in Changing =>
          \E j \in (i + 1)..n : rest[j].q = q /\ rest[j].w \in Telling
    BY <2>1, <2>2, <2>3
  <2>7. ASSUME rest[i].w = "tell"
        PROVE  \A j \in 1..(i - 1) :
                 rest[j].q = q /\ rest[j].w \in Changing => rest[j].s = rest[i].s
    BY <2>1, <2>2, <2>4, <2>7
  <2>8. ASSUME rest[i].w = "tell"
        PROVE  \/ rest[i].s = t
               \/ \E j \in 1..(i - 1) : rest[j].q = q /\ rest[j].w \in Changing
    <3>1. 1 \in 1..i
      OBVIOUS
    <3>2. CASE todo[1].q = q /\ todo[1].w \in Changing
      BY <1>2, <2>1, <2>2, <2>8, <3>1, <3>2
    <3>3. CASE ~(todo[1].q = q /\ todo[1].w \in Changing)
      BY <1>2, <2>1, <2>2, <2>5, <2>8, <3>3
    <3> QED
      BY <3>2, <3>3
  <2> QED
    BY <2>1, <2>2, <2>6, <2>7, <2>8
<1>10. TellsAfter(rest, q, t)
  BY <1>2, <1>9 DEF TellsAfter
<1> QED
  BY <1>2, <1>5, <1>6, <1>8, <1>10 DEF rest

(* What requests begin with.                                               *)
LEMMA CreationTells ==
  ASSUME QuoteAssumption, NEW q \in Quotations, NEW prev \in Quotations, q # prev,
         NEW r \in Quotations, NEW s
  PROVE  /\ TellsAfter(<<Quotes!W("insert", q, "created"), Quotes!W("sync", q, "none")>>, r, s)
         /\ TellsAfter(<<Quotes!W("insert", q, "created"), Quotes!W("revise", prev, "revised"),
                         Quotes!W("tell", prev, "revised"), Quotes!W("sync", q, "none")>>, r, s)
<1>1. PICK a, b, c, d :
        /\ a = Quotes!W("insert", q, "created") /\ d = Quotes!W("sync", q, "none")
        /\ b = Quotes!W("revise", prev, "revised") /\ c = Quotes!W("tell", prev, "revised")
  OBVIOUS
<1>2. /\ a.w = "insert" /\ a.q = q /\ d.w = "sync" /\ d.q = q
      /\ b.w = "revise" /\ b.q = prev /\ b.s = "revised"
      /\ c.w = "tell" /\ c.q = prev /\ c.s = "revised"
  BY <1>1 DEF Quotes!W
<1>3. TellsAfter(<<a, d>>, r, s)
  <2>1. PICK two : two = <<a, d>>
    OBVIOUS
  <2>2. Len(two) = 2 /\ two[1] = a /\ two[2] = d
    BY <2>1
  <2>3. 2 \in (1 + 1)..2 /\ \A i \in 1..2 : i = 1 \/ i = 2
    OBVIOUS
  <2>4. TellsAfter(two, r, s)
    BY <1>2, <2>2, <2>3 DEF TellsAfter, Changing, Telling
  <2> QED
    BY <2>1, <2>4
<1>4. TellsAfter(<<a, b, c, d>>, r, s)
  <2>1. PICK four : four = <<a, b, c, d>>
    OBVIOUS
  <2>2. Len(four) = 4 /\ four[1] = a /\ four[2] = b /\ four[3] = c /\ four[4] = d
    BY <2>1
  <2>3. /\ 4 \in (1 + 1)..4 /\ 3 \in (2 + 1)..4 /\ 2 \in 1..(3 - 1)
        /\ \A i \in 1..4 : i = 1 \/ i = 2 \/ i = 3 \/ i = 4
        /\ \A i \in 1..(3 - 1) : i = 1 \/ i = 2
    OBVIOUS
  <2>4. TellsAfter(four, r, s)
    BY <1>2, <2>2, <2>3 DEF TellsAfter, Changing, Telling
  <2> QED
    BY <2>1, <2>4
<1> QED
  BY <1>1, <1>3, <1>4

LEMMA DecisionTells ==
  ASSUME QuoteAssumption, NEW q \in Quotations, NEW to, NEW todo, NEW k \in 2..Len(todo),
         Len(todo) \in Nat,
         todo[1] = Quotes!W("set", q, to), todo[k] = Quotes!W("tell", q, to),
         \A i \in 1..Len(todo) : i = 1 \/ i = k \/ todo[i].q = None,
         NEW r \in Quotations, NEW s
  PROVE  TellsAfter(todo, r, s)
<1>1. /\ todo[1].w = "set" /\ todo[1].q = q /\ todo[1].s = to
      /\ todo[k].w = "tell" /\ todo[k].q = q /\ todo[k].s = to
  BY DEF Quotes!W
<1>2. PICK n \in Nat : n = Len(todo) /\ k \in (1 + 1)..n /\ 1 \in 1..(k - 1)
  OBVIOUS
<1>3. \A i \in 1..n : todo[i].q = r => r = q /\ (i = 1 \/ i = k)
  BY <1>1, <1>2 DEF QuoteAssumption
<1>4. \A i \in 1..(k - 1) : i \in 1..n /\ i # k
  BY <1>2
<1> QED
  BY <1>1, <1>2, <1>3, <1>4 DEF TellsAfter, Changing, Telling

LEMMA Joined ==
  ASSUME NEW S, NEW u \in Seq(S), NEW v \in Seq(S)
  PROVE  /\ u \o v \in Seq(S) /\ Len(u \o v) = Len(u) + Len(v)
         /\ \A i \in 1..Len(u) : (u \o v)[i] = u[i]
         /\ \A i \in 1..(Len(u) + Len(v)) :
              i \in 1..Len(u) \/ \E j \in 1..Len(v) : (u \o v)[i] = v[j]
<1> DEFINE w == u \o v
<1>1. w \in Seq(S) /\ Len(w) = Len(u) + Len(v)
  BY ConcatProperties, Zenon
<1>2. \A i \in 1 .. Len(u) + Len(v) : w[i] = IF i <= Len(u) THEN u[i] ELSE v[i - Len(u)]
  BY ConcatProperties, Zenon
<1> HIDE DEF w
<1>3. PICK m \in Nat, n \in Nat : m = Len(u) /\ n = Len(v)
  OBVIOUS
<1>4. \A i \in 1..m : i \in 1 .. m + n /\ i <= m
  OBVIOUS
<1>5. \A i \in 1 .. m + n : i \in 1..m \/ (~(i <= m) /\ i - m \in 1..n)
  OBVIOUS
<1> QED
  BY <1>1, <1>2, <1>3, <1>4, <1>5 DEF w

(* What an approval writes: the lead in between, or not.                   *)
LEMMA ApprovalTells ==
  ASSUME QuoteAssumption, NEW q \in Quotations, NEW r \in Quotations, NEW s, NEW todo,
         todo = <<Quotes!W("set", q, "confirmed"), Quotes!W("tell", q, "confirmed")>>
                \o (IF lead = "confirmed" THEN <<>> ELSE <<Quotes!W("lead", None, "none")>>)
                \o <<Quotes!W("syncProject", None, "none")>>
  PROVE  /\ TellsAfter(todo, r, s)
         /\ Concerns(todo, r) => r = q
         /\ Named(todo)
<1>1. PICK a, t, l, p :
        /\ a = Quotes!W("set", q, "confirmed") /\ t = Quotes!W("tell", q, "confirmed")
        /\ l = Quotes!W("lead", None, "none") /\ p = Quotes!W("syncProject", None, "none")
  OBVIOUS
<1>2. a.q = q /\ t.q = q /\ l.q = None /\ p.q = None
  BY <1>1 DEF Quotes!W
<1>3. PICK mid : mid = IF lead = "confirmed" THEN <<>> ELSE <<l>>
  OBVIOUS
<1>4. PICK two, one : two = <<a, t>> /\ one = <<p>>
  OBVIOUS
<1>5. PICK S : S = {a, t, l, p}
  OBVIOUS
<1>6. /\ two \in Seq(S) /\ Len(two) = 2 /\ two[1] = a /\ two[2] = t
      /\ one \in Seq(S) /\ Len(one) = 1 /\ one[1] = p
      /\ mid \in Seq(S) /\ \A i \in 1..Len(mid) : mid[i] = l
  <2>1. a \in S /\ t \in S /\ l \in S /\ p \in S
    BY <1>5
  <2>2. two \in Seq(S) /\ Len(two) = 2 /\ two[1] = a /\ two[2] = t
    BY <1>4, <2>1
  <2>3. one \in Seq(S) /\ Len(one) = 1 /\ one[1] = p
    BY <1>4, <2>1
  <2>4. mid \in Seq(S) /\ \A i \in 1..Len(mid) : mid[i] = l
    <3>1. CASE mid = <<>>
      BY <3>1
    <3>2. CASE mid = <<l>>
      BY <2>1, <3>2
    <3> QED
      BY <1>3, <3>1, <3>2
  <2> QED
    BY <2>2, <2>3, <2>4
<1>7. PICK first : first = two \o mid
  OBVIOUS
<1>8. todo = first \o one
  BY <1>1, <1>3, <1>4, <1>7
<1>9. /\ first \in Seq(S) /\ Len(first) = 2 + Len(mid)
      /\ \A i \in 1..2 : first[i] = two[i]
      /\ \A i \in 1..(2 + Len(mid)) : i \in 1..2 \/ \E j \in 1..Len(mid) : first[i] = mid[j]
  <2>1. two \in Seq(S) /\ mid \in Seq(S)
    BY <1>6
  <2>2. /\ two \o mid \in Seq(S) /\ Len(two \o mid) = Len(two) + Len(mid)
        /\ \A i \in 1..Len(two) : (two \o mid)[i] = two[i]
        /\ \A i \in 1..(Len(two) + Len(mid)) :
             i \in 1..Len(two) \/ \E j \in 1..Len(mid) : (two \o mid)[i] = mid[j]
    BY <2>1, Joined
  <2> QED
    BY <1>6, <1>7, <2>2
<1>10. PICK k \in Nat : k = Len(mid)
  BY <1>6
<1>11. /\ Len(first) = k + 2 /\ first[1] = a /\ first[2] = t
       /\ \A i \in 1..(k + 2) : i = 1 \/ i = 2 \/ first[i] = l
  BY <1>6, <1>9, <1>10
<1>12. /\ Len(todo) = (k + 2) + 1
       /\ \A i \in 1..(k + 2) : todo[i] = first[i]
       /\ \A i \in 1..((k + 2) + 1) : i \in 1..(k + 2) \/ \E j \in 1..1 : todo[i] = one[j]
  <2>1. first \in Seq(S) /\ one \in Seq(S)
    BY <1>6, <1>9
  <2>2. /\ Len(first \o one) = Len(first) + Len(one)
        /\ \A i \in 1..Len(first) : (first \o one)[i] = first[i]
        /\ \A i \in 1..(Len(first) + Len(one)) :
             i \in 1..Len(first) \/ \E j \in 1..Len(one) : (first \o one)[i] = one[j]
    BY <2>1, Joined
  <2> QED
    BY <1>6, <1>8, <1>11, <2>2
<1>13. /\ Len(todo) \in Nat /\ 2 \in 2..Len(todo) /\ todo[1] = a /\ todo[2] = t
       /\ \A i \in 1..Len(todo) : i = 1 \/ i = 2 \/ todo[i] = l \/ todo[i] = p
  <2>1. /\ (k + 2) + 1 \in Nat /\ 2 \in 2..((k + 2) + 1) /\ 1 \in 1..(k + 2) /\ 2 \in 1..(k + 2)
    OBVIOUS
  <2>2. \A i \in 1..((k + 2) + 1) : i \in 1..(k + 2) \/ todo[i] = p
    BY <1>6, <1>12
  <2> QED
    BY <1>11, <1>12, <2>1, <2>2
<1>14. TellsAfter(todo, r, s)
  BY <1>1, <1>2, <1>13, DecisionTells
<1>15. Concerns(todo, r) => r = q
  BY <1>2, <1>13 DEF Concerns, QuoteAssumption
<1>16. Named(todo)
  <2>1. l.w \notin Telling /\ p.w \notin Telling
    BY <1>1 DEF Quotes!W, Telling
  <2> QED
    BY <1>2, <1>13, <2>1 DEF Named
<1> QED
  BY <1>14, <1>15, <1>16

LEMMA ToldAgain ==
  ASSUME NEW queue \in Seq(Quotes!Message), NEW m \in Quotes!Message,
         NEW jobs, NEW xero, NEW q, NEW s
  PROVE  /\ Append(queue, m) \in Seq(Quotes!Message)
         /\ Quotes!Doc(m) # q /\ Reports(queue, jobs, xero, q, s) =>
              Reports(Append(queue, m), jobs, xero, q, s)
         /\ Quotes!Doc(m) = q /\ Right(m, s) => Reports(Append(queue, m), jobs, xero, q, s)
BY MessageAppended DEF Reports

LEMMA NothingToTell ==
  ASSUME NEW todo, NEW q, NEW s, ~Concerns(todo, q)
  PROVE  TellsAfter(todo, q, s)
BY DEF TellsAfter, Concerns

LEMMA AgreeInit == QuoteAssumption /\ Quotes!Init => AgreeInv
<1> SUFFICES ASSUME QuoteAssumption, Quotes!Init PROVE AgreeInv
  OBVIOUS
<1>1. /\ qStatus = [q \in Quotations |-> "none"] /\ qQueue = <<>>
      /\ seller = [h \in Sellers |-> Quotes!Idle]
      /\ qXero = [q \in Quotations |-> "none"] /\ qJob = [w \in QuoteWorkers |-> Quotes!NoJob]
  BY DEF Quotes!Init, Quotes!LocalInit
<1>2. /\ Quotes!Idle.todo = <<>> /\ Quotes!Idle.works = {}
      /\ Quotes!NoJob.doc = None /\ Quotes!NoJob.step = "idle"
  BY DEF Quotes!Idle, Quotes!NoJob
<1>3. \A q : ~Concerns(<<>>, q)
  BY DEF Concerns
<1>4. \A q, s : TellsAfter(<<>>, q, s)
  BY <1>3, NothingToTell
<1>5. qQueue \in Seq(Quotes!Message)
  BY <1>1
<1>6. \A q \in Quotations : Reports(qQueue, qJob, qXero, q, qStatus[q])
  BY <1>1 DEF Reports
<1>7. \A w \in QuoteWorkers : JobKnows(qJob[w]) /\ qJob[w].doc = None
  BY <1>1, <1>2 DEF JobKnows
<1>8. \A h \in Sellers : seller[h].todo = <<>> /\ seller[h].works = {} /\ Named(seller[h].todo)
  BY <1>1, <1>2 DEF Named
<1>9. None \notin Quotations /\ DOMAIN qXero = Quotations
  BY <1>1 DEF QuoteAssumption
<1> QED
  BY <1>3, <1>4, <1>5, <1>6, <1>7, <1>8, <1>9 DEF AgreeInv

LEMMA AgreeStays ==
  ASSUME AgreeInv,
         UNCHANGED <<qStatus, qQueue, seller, raced, broken, closed, qXero, qJob, jobRaced,
                     jobBroken>>
  PROVE  AgreeInv'
BY DEF AgreeInv, Undisturbed

(* A request begins.                                                       *)
LEMMA AgreeBegins ==
  ASSUME QInv, AgreeInv, NEW h \in Sellers, NEW todo, NEW works, NEW prev,
         seller[h].todo = <<>>,
         seller' = [seller EXCEPT ![h] = [todo |-> todo, works |-> works, prev |-> prev]],
         raced' = raced \cup (works \cap UNION {seller[g].works : g \in Sellers}),
         \A r \in Quotations : Concerns(todo, r) => r \in works,
         \A r \in Quotations : TellsAfter(todo, r, qStatus[r]), Named(todo),
         UNCHANGED <<qStatus, qQueue, broken, closed, qXero, qJob, jobRaced, jobBroken>>
  PROVE  AgreeInv'
<1>1. /\ seller'[h].todo = todo /\ seller'[h].works = works
      /\ \A g \in Sellers \ {h} : seller'[g] = seller[g]
  BY DEF QInv, QuoteTyped
<1>2. \A q : ~Concerns(seller[h].todo, q)
  BY DEF Concerns
<1>3. /\ raced \subseteq raced'
      /\ \A q \in works \ raced' : \A g \in Sellers : q \notin seller[g].works
  OBVIOUS
<1>4. \A g \in Sellers, q \in Quotations : Concerns(seller'[g].todo, q) => q \in seller'[g].works
  BY <1>1 DEF AgreeInv
<1>5. \A q \in Quotations \ raced' : \A f, g \in Sellers :
        q \in seller'[f].works /\ q \in seller'[g].works => f = g
  BY <1>1, <1>3 DEF AgreeInv
<1>6. ASSUME NEW q \in Quotations, Undisturbed(q)'
      PROVE  /\ \A v, w \in QuoteWorkers : qJob[v].doc = q /\ qJob[w].doc = q => v = w
             /\ \A g \in Sellers : TellsAfter(seller'[g].todo, q, qStatus[q])
             /\ \/ Reports(qQueue, qJob, qXero, q, qStatus[q])
                \/ \E g \in Sellers : Concerns(seller'[g].todo, q)
  <2>1. Undisturbed(q)
    BY <1>3, <1>6 DEF Undisturbed
  <2> QED
    BY <1>1, <1>2, <2>1 DEF AgreeInv
<1>7. \A g \in Sellers : Named(seller'[g].todo)
  BY <1>1 DEF AgreeInv
<1> QED
  BY <1>4, <1>5, <1>6, <1>7 DEF AgreeInv

LEMMA AgreeCreates ==
  ASSUME QuoteAssumption, QInv, AgreeInv, NEW h \in Sellers, NEW q \in Quotations,
         NEW prev \in Quotations \cup {None}, q # prev, Quotes!Create(h, q, prev),
         UNCHANGED Quotes!xeroVars
  PROVE  AgreeInv'
<1>1. UNCHANGED <<qStatus, qQueue, broken, closed, qXero, qJob, jobRaced, jobBroken>>
  BY DEF Quotes!Create, Quotes!xeroVars
<1>2. PICK todo :
        todo = IF prev = None THEN <<Quotes!W("insert", q, "created"), Quotes!W("sync", q, "none")>>
               ELSE <<Quotes!W("insert", q, "created"), Quotes!W("revise", prev, "revised"),
                      Quotes!W("tell", prev, "revised"), Quotes!W("sync", q, "none")>>
  OBVIOUS
<1>3. /\ seller[h].todo = <<>>
      /\ seller' = [seller EXCEPT ![h] =
           [todo |-> todo, works |-> {q, prev} \ {None}, prev |-> prev]]
      /\ raced' = raced \cup (({q, prev} \ {None}) \cap UNION {seller[g].works : g \in Sellers})
  BY <1>2 DEF Quotes!Create, Quotes!Begin
<1>4. ASSUME NEW r \in Quotations
      PROVE  /\ Concerns(todo, r) => r \in {q, prev}
             /\ TellsAfter(todo, r, qStatus[r]) /\ Named(todo)
  <2>1. CASE prev = None
    <3>1. PICK p \in Quotations \cup {None} : p # q /\ p = prev
      OBVIOUS
    <3>2. PICK a, b : a = Quotes!W("insert", q, "created") /\ b = Quotes!W("sync", q, "none")
      OBVIOUS
    <3>3. a.w = "insert" /\ a.q = q /\ b.w = "sync" /\ b.q = q
      BY <3>2 DEF Quotes!W
    <3>4. todo = <<a, b>> /\ Len(todo) = 2 /\ todo[1] = a /\ todo[2] = b
      BY <1>2, <2>1, <3>2
    <3>5. 2 \in (1 + 1)..2 /\ \A i \in 1..2 : i = 1 \/ i = 2
      OBVIOUS
    <3> QED
      BY <3>3, <3>4, <3>5 DEF TellsAfter, Concerns, Changing, Telling, Named
  <2>2. CASE prev # None
    <3>1. prev \in Quotations
      BY <2>2
    <3>2. TellsAfter(todo, r, qStatus[r])
      BY <1>2, <2>2, <3>1, CreationTells
    <3>3. PICK a, b, c, d :
            /\ a = Quotes!W("insert", q, "created") /\ d = Quotes!W("sync", q, "none")
            /\ b = Quotes!W("revise", prev, "revised") /\ c = Quotes!W("tell", prev, "revised")
      OBVIOUS
    <3>4. a.q = q /\ b.q = prev /\ c.q = prev /\ d.q = q
      BY <3>3 DEF Quotes!W
    <3>5. /\ Len(todo) = 4 /\ todo[1] = a /\ todo[2] = b /\ todo[3] = c /\ todo[4] = d
          /\ \A i \in 1..4 : i = 1 \/ i = 2 \/ i = 3 \/ i = 4
      BY <1>2, <2>2, <3>3
    <3> QED
      BY <3>1, <3>2, <3>4, <3>5 DEF Concerns, Named
  <2> QED
    BY <2>1, <2>2
<1>5. /\ \A r \in Quotations : Concerns(todo, r) => r \in {q, prev} \ {None}
      /\ Named(todo)
  BY <1>4 DEF QuoteAssumption
<1> QED
  BY <1>1, <1>3, <1>4, <1>5, AgreeBegins

LEMMA AgreeDecides ==
  ASSUME QuoteAssumption, QInv, AgreeInv, NEW h \in Sellers, NEW q \in Quotations,
         \/ Quotes!Submit(h, q) \/ Quotes!Approve(h, q)
         \/ \E to \in {"confirmed", "rejected"} : Quotes!UpdateStatus(h, q, to),
         UNCHANGED Quotes!xeroVars
  PROVE  AgreeInv'
<1>1. UNCHANGED <<qStatus, qQueue, broken, closed, qXero, qJob, jobRaced, jobBroken>>
  BY DEF Quotes!Submit, Quotes!Approve, Quotes!UpdateStatus, Quotes!xeroVars
<1>2. ASSUME NEW todo,
             \A r \in Quotations :
               (Concerns(todo, r) => r = q) /\ TellsAfter(todo, r, qStatus[r]),
             Named(todo), Quotes!Begin(h, todo, {q}, None)
      PROVE  AgreeInv'
  <2>1. /\ seller[h].todo = <<>>
        /\ seller' = [seller EXCEPT ![h] = [todo |-> todo, works |-> {q}, prev |-> None]]
        /\ raced' = raced \cup ({q} \cap UNION {seller[g].works : g \in Sellers})
    BY <1>2 DEF Quotes!Begin
  <2>2. \A r \in Quotations : Concerns(todo, r) => r \in {q}
    BY <1>2
  <2>3. \A r \in Quotations : TellsAfter(todo, r, qStatus[r])
    BY <1>2
  <2> QED
    BY <1>1, <1>2, <2>1, <2>2, <2>3, AgreeBegins
<1>3. ASSUME NEW todo, NEW to, NEW k \in 2..Len(todo), Len(todo) \in Nat,
             todo[1] = Quotes!W("set", q, to), todo[k] = Quotes!W("tell", q, to),
             \A i \in 1..Len(todo) :
               i = 1 \/ i = k \/ (todo[i].q = None /\ todo[i].w \notin Telling)
      PROVE  /\ \A r \in Quotations :
                  (Concerns(todo, r) => r = q) /\ TellsAfter(todo, r, qStatus[r])
             /\ Named(todo)
  <2> SUFFICES ASSUME NEW r \in Quotations
               PROVE  /\ (Concerns(todo, r) => r = q) /\ TellsAfter(todo, r, qStatus[r])
                      /\ Named(todo)
    OBVIOUS
  <2>1. PICK s : s = qStatus[r]
    OBVIOUS
  <2>2. TellsAfter(todo, r, s)
    BY <1>3, DecisionTells
  <2>3. todo[1].q = q /\ todo[k].q = q
    BY <1>3 DEF Quotes!W
  <2>4. Concerns(todo, r) => r = q
    BY <1>3, <2>3 DEF Concerns, QuoteAssumption
  <2>5. Named(todo)
    BY <1>3, <2>3 DEF Named
  <2> QED
    BY <2>1, <2>2, <2>4, <2>5
<1>4. ASSUME NEW to PROVE
        /\ \A r \in Quotations :
             /\ Concerns(<<Quotes!W("set", q, to), Quotes!W("tell", q, to)>>, r) => r = q
             /\ TellsAfter(<<Quotes!W("set", q, to), Quotes!W("tell", q, to)>>, r, qStatus[r])
        /\ Named(<<Quotes!W("set", q, to), Quotes!W("tell", q, to)>>)
  <2>1. PICK todo : todo = <<Quotes!W("set", q, to), Quotes!W("tell", q, to)>>
    OBVIOUS
  <2>2. /\ Len(todo) = 2 /\ todo[1] = Quotes!W("set", q, to) /\ todo[2] = Quotes!W("tell", q, to)
        /\ 2 \in 2..2 /\ \A i \in 1..2 : i = 1 \/ i = 2
    BY <2>1
  <2>3. PICK k \in 2..Len(todo) : k = 2
    BY <2>2
  <2> QED
    BY <1>3, <2>1, <2>2, <2>3
<1>5. ASSUME NEW to PROVE
        /\ \A r \in Quotations :
             /\ Concerns(<<Quotes!W("set", q, to), Quotes!W("lead", None, "none"),
                           Quotes!W("tell", q, to)>>, r) => r = q
             /\ TellsAfter(<<Quotes!W("set", q, to), Quotes!W("lead", None, "none"),
                             Quotes!W("tell", q, to)>>, r, qStatus[r])
        /\ Named(<<Quotes!W("set", q, to), Quotes!W("lead", None, "none"),
                   Quotes!W("tell", q, to)>>)
  <2>1. PICK todo : todo = <<Quotes!W("set", q, to), Quotes!W("lead", None, "none"),
                             Quotes!W("tell", q, to)>>
    OBVIOUS
  <2>2. /\ Len(todo) = 3 /\ todo[1] = Quotes!W("set", q, to)
        /\ todo[2] = Quotes!W("lead", None, "none") /\ todo[3] = Quotes!W("tell", q, to)
        /\ 3 \in 2..3 /\ \A i \in 1..3 : i = 1 \/ i = 2 \/ i = 3
    BY <2>1
  <2>3. PICK k \in 2..Len(todo) : k = 3
    BY <2>2
  <2>4. todo[2].q = None /\ todo[2].w \notin Telling
    BY <2>2 DEF Quotes!W, Telling
  <2> QED
    BY <1>3, <2>1, <2>2, <2>3, <2>4
<1>6. CASE Quotes!Submit(h, q)
  BY <1>2, <1>4, <1>6 DEF Quotes!Submit
<1>7. ASSUME NEW to \in {"confirmed", "rejected"}, Quotes!UpdateStatus(h, q, to) PROVE AgreeInv'
  <2>1. CASE to = "confirmed"
    <3>1. Quotes!Begin(h, <<Quotes!W("set", q, to), Quotes!W("lead", None, "none"),
                            Quotes!W("tell", q, to)>>, {q}, None)
      BY <1>7, <2>1 DEF Quotes!UpdateStatus
    <3> QED
      BY <1>2, <1>5, <3>1
  <2>2. CASE to # "confirmed"
    <3>1. Quotes!Begin(h, <<Quotes!W("set", q, to), Quotes!W("tell", q, to)>>, {q}, None)
      BY <1>7, <2>2 DEF Quotes!UpdateStatus
    <3> QED
      BY <1>2, <1>4, <3>1
  <2> QED
    BY <2>1, <2>2
<1>8. CASE Quotes!Approve(h, q)
  <2>1. PICK todo :
          todo = <<Quotes!W("set", q, "confirmed"), Quotes!W("tell", q, "confirmed")>>
                 \o (IF lead = "confirmed" THEN <<>> ELSE <<Quotes!W("lead", None, "none")>>)
                 \o <<Quotes!W("syncProject", None, "none")>>
    OBVIOUS
  <2>2. Quotes!Begin(h, todo, {q}, None)
    BY <1>8, <2>1 DEF Quotes!Approve
  <2>3. /\ \A r \in Quotations :
             (Concerns(todo, r) => r = q) /\ TellsAfter(todo, r, qStatus[r])
        /\ Named(todo)
    BY <2>1, ApprovalTells
  <2> QED
    BY <1>2, <2>2, <2>3
<1> QED
  BY <1>6, <1>7, <1>8

(* A draft, which Xero need not know, and which nobody is at work on.      *)
LEMMA AgreeDraft ==
  ASSUME QInv, AgreeInv, NEW q \in Quotations, NEW prev, Quotes!SaveAsDraft(q, prev),
         UNCHANGED Quotes!xeroVars
  PROVE  AgreeInv'
<1>1. /\ \A g \in Sellers : q \notin seller[g].works
      /\ qStatus' = [qStatus EXCEPT ![q] = "draft"]
      /\ UNCHANGED <<qQueue, seller, raced, broken, closed, qXero, qJob, jobRaced, jobBroken>>
  BY DEF Quotes!SaveAsDraft, Quotes!xeroVars
<1>2. qStatus'[q] = "draft" /\ \A r \in Quotations \ {q} : qStatus'[r] = qStatus[r]
  BY <1>1 DEF QInv, QuoteTyped
<1>3. \A s : Reports(qQueue, qJob, qXero, q, "draft")
  BY DEF Reports
<1>4. \A g \in Sellers : TellsAfter(seller[g].todo, q, "draft")
  BY <1>1, NothingToTell DEF AgreeInv
<1> QED
  BY <1>1, <1>2, <1>3, <1>4 DEF AgreeInv, Undisturbed

(* A message for Xero with nothing written before it.                      *)
LEMMA AgreeTold ==
  ASSUME AgreeInv, NEW m \in Quotes!Message, qQueue' = Append(qQueue, m),
         \A q \in Quotations : \A s : Quotes!Doc(m) = q => Right(m, s),
         UNCHANGED <<qStatus, seller, raced, broken, closed, qXero, qJob, jobRaced, jobBroken>>
  PROVE  AgreeInv'
<1>1. qQueue \in Seq(Quotes!Message)
  BY DEF AgreeInv
<1>2. qQueue' \in Seq(Quotes!Message)
  BY <1>1, MessageAppended
<1>3. ASSUME NEW q \in Quotations, NEW s, Reports(qQueue, qJob, qXero, q, s)
      PROVE  Reports(qQueue', qJob, qXero, q, s)
  BY <1>1, <1>3, ToldAgain
<1> QED
  BY <1>2, <1>3 DEF AgreeInv, Undisturbed

LEMMA AgreeLeadCloses ==
  ASSUME QInv, AgreeInv, Quotes!CloseLead, UNCHANGED Quotes!xeroVars
  PROVE  AgreeInv'
<1>1. /\ qStatus' = [q \in Quotations |-> IF Quotes!Exists(q) THEN "rejected" ELSE "none"]
      /\ closed' = closed \cup {q \in Quotations : Quotes!Exists(q)}
      /\ UNCHANGED <<qQueue, seller, raced, broken, qXero, qJob, jobRaced, jobBroken>>
  BY DEF Quotes!CloseLead, Quotes!xeroVars
<1>2. \A q \in Quotations : Undisturbed(q)' => Undisturbed(q) /\ qStatus'[q] = qStatus[q]
  BY <1>1 DEF Undisturbed, Quotes!Exists
<1> QED
  BY <1>1, <1>2 DEF AgreeInv

(* A query of a request: what it writes is told afterwards, what it tells  *)
(* has been written.                                                       *)
LEMMA AgreeQuery ==
  ASSUME QInv, AgreeInv, NEW h \in Sellers, NEW todo \in Seq(Quotes!Write), todo # <<>>,
         todo = seller[h].todo, NEW e, e = Head(todo),
         seller'[h].todo = Tail(todo),
         \/ seller'[h].works = seller[h].works
         \/ seller'[h].works = {} /\ Tail(todo) = <<>>,
         \A g \in Sellers \ {h} : seller'[g] = seller[g],
         \A q \in Quotations :
           IF e.q = q /\ e.w \in Changing THEN qStatus'[q] = e.s ELSE qStatus'[q] = qStatus[q],
         \/ qQueue' = qQueue /\ e.w \notin Telling
         \/ \E m \in Quotes!Message :
              /\ qQueue' = Append(qQueue, m) /\ e.w \notin Changing
              /\ \A q \in Quotations : Quotes!Doc(m) = q <=> e.q = q /\ e.w \in Telling
              /\ e.w \in Telling => m.kind = "sync" \/ (e.w = "tell" /\ m.s = e.s),
         UNCHANGED <<raced, broken, closed, qXero, qJob, jobRaced, jobBroken>>
  PROVE  AgreeInv'
<1>1. qQueue \in Seq(Quotes!Message)
  BY DEF AgreeInv
<1>2. qQueue' \in Seq(Quotes!Message)
  BY <1>1, ToldAgain
<1>3. \A q : ~Concerns(<<>>, q)
  BY DEF Concerns
<1>4. /\ \A q \in Quotations : Concerns(Tail(todo), q) => Concerns(todo, q)
      /\ Named(todo) => Named(Tail(todo))
  <2>1. PICK rest : rest = Tail(todo)
    OBVIOUS
  <2>2. PICK n \in Nat : n + 1 = Len(todo)
    <3>1. Len(todo) \in Nat /\ Len(todo) > 0
      OBVIOUS
    <3>2. Len(todo) - 1 \in Nat /\ (Len(todo) - 1) + 1 = Len(todo)
      BY <3>1
    <3> QED
      BY <3>2
  <2>3. Len(rest) = n /\ \A i \in 1..n : rest[i] = todo[i + 1]
    BY <2>1, <2>2, HeadTailProperties
  <2>4. \A i \in 1..n : i + 1 \in 1..(n + 1)
    OBVIOUS
  <2> QED
    BY <2>1, <2>2, <2>3, <2>4 DEF Concerns, Named
<1>5. ASSUME NEW g \in Sellers
      PROVE  /\ \A q \in Quotations : Concerns(seller'[g].todo, q) => q \in seller'[g].works
             /\ Named(seller'[g].todo)
  <2>1. CASE g # h
    BY <2>1 DEF AgreeInv
  <2>2. CASE g = h
    <3>1. \A q \in Quotations : Concerns(todo, q) => q \in seller[h].works
      BY DEF AgreeInv
    <3>2. Named(todo)
      BY DEF AgreeInv
    <3>3. CASE seller'[h].works = seller[h].works
      BY <1>4, <2>2, <3>1, <3>2, <3>3
    <3>4. CASE Tail(todo) = <<>>
      BY <1>3, <1>4, <2>2, <3>2, <3>4
    <3> QED
      BY <3>3, <3>4
  <2> QED
    BY <2>1, <2>2
<1>6. \A q \in Quotations \ raced' : \A f, g \in Sellers :
        q \in seller'[f].works /\ q \in seller'[g].works => f = g
  <2>1. \A g \in Sellers, q \in Quotations : q \in seller'[g].works => q \in seller[g].works
    OBVIOUS
  <2> QED
    BY <2>1 DEF AgreeInv
<1>7. ASSUME NEW q \in Quotations, Undisturbed(q)'
      PROVE  /\ \A v, w \in QuoteWorkers : qJob[v].doc = q /\ qJob[w].doc = q => v = w
             /\ \A g \in Sellers : TellsAfter(seller'[g].todo, q, qStatus'[q])
             /\ \/ Reports(qQueue', qJob, qXero, q, qStatus'[q])
                \/ \E g \in Sellers : Concerns(seller'[g].todo, q)
  <2>1. Undisturbed(q)
    BY <1>7 DEF Undisturbed
  <2>2. PICK s, t : s = qStatus[q] /\ t = qStatus'[q]
    OBVIOUS
  <2>3. TellsAfter(todo, q, s)
    BY <2>1, <2>2 DEF AgreeInv
  <2>4. /\ TellsAfter(Tail(todo), q, t)
        /\ Concerns(todo, q) /\ e.q # q => Concerns(Tail(todo), q)
        /\ e.q = q =>
             /\ Concerns(todo, q)
             /\ e.w \in Changing => Concerns(Tail(todo), q)
             /\ e.w \in Changing \cup Telling
             /\ e.w = "tell" => e.s = s
    <3>1. e = Head(todo) /\ todo # <<>>
      OBVIOUS
    <3>2. /\ e.q = q /\ e.w \in Changing => t = e.s
          /\ ~(e.q = q /\ e.w \in Changing) => t = s
      BY <2>2
    <3>3. /\ TellsAfter(Tail(todo), q, t)
          /\ Concerns(todo, q) /\ Head(todo).q # q => Concerns(Tail(todo), q)
          /\ Head(todo).q = q =>
               /\ Concerns(todo, q)
               /\ Head(todo).w \in Changing => Concerns(Tail(todo), q)
               /\ Head(todo).w \in Changing \cup Telling
               /\ Head(todo).w = "tell" => Head(todo).s = s
      BY <2>3, <3>1, <3>2, TellsStill, Zenon
    <3> QED
      BY <3>1, <3>3, Zenon
  <2>5. ASSUME NEW g \in Sellers PROVE TellsAfter(seller'[g].todo, q, t)
    <3>1. CASE g = h
      BY <2>4, <3>1
    <3>2. CASE g # h /\ ~Concerns(seller[g].todo, q)
      BY <3>2, NothingToTell
    <3>3. CASE g # h /\ Concerns(seller[g].todo, q)
      <4>1. ~Concerns(todo, q)
        BY <2>1, <3>3 DEF AgreeInv, Undisturbed
      <4>2. s = t
        BY <2>2, <2>4, <4>1
      <4> QED
        <5>1. TellsAfter(seller[g].todo, q, qStatus[q]) /\ seller'[g] = seller[g]
          BY <2>1, <3>3 DEF AgreeInv
        <5> QED
          BY <2>2, <4>2, <5>1
    <3> QED
      BY <3>1, <3>2, <3>3
  <2>6. \/ Reports(qQueue', qJob, qXero, q, t)
        \/ \E g \in Sellers : Concerns(seller'[g].todo, q)
    <3>1. CASE e.q = q /\ e.w \in Changing
      BY <2>4, <3>1
    <3>2. CASE e.q = q /\ e.w \notin Changing
      <4>1. e.w \in Telling /\ t = s /\ (e.w = "tell" => e.s = s)
        BY <2>2, <2>4, <3>2
      <4>2. PICK m \in Quotes!Message :
              /\ qQueue' = Append(qQueue, m) /\ Quotes!Doc(m) = q
              /\ m.kind = "sync" \/ (e.w = "tell" /\ m.s = e.s)
        BY <3>2, <4>1
      <4>3. Right(m, t)
        BY <4>1, <4>2 DEF Right
      <4> QED
        BY <1>1, <4>2, <4>3, ToldAgain
    <3>3. CASE e.q # q
      <4>1. t = s
        BY <2>2, <3>3
      <4>2. Reports(qQueue, qJob, qXero, q, s) => Reports(qQueue', qJob, qXero, q, t)
        <5>1. CASE qQueue' = qQueue
          BY <4>1, <5>1
        <5>2. ASSUME NEW m \in Quotes!Message, qQueue' = Append(qQueue, m), Quotes!Doc(m) # q
              PROVE  Reports(qQueue, qJob, qXero, q, s) => Reports(qQueue', qJob, qXero, q, t)
          BY <1>1, <4>1, <5>2, ToldAgain
        <5> QED
          BY <3>3, <5>1, <5>2
      <4>3. (\E g \in Sellers : Concerns(seller[g].todo, q)) =>
              \E g \in Sellers : Concerns(seller'[g].todo, q)
        BY <2>4, <3>3
      <4> QED
        BY <2>1, <2>2, <4>2, <4>3 DEF AgreeInv
    <3> QED
      BY <3>1, <3>2, <3>3
  <2> QED
    BY <2>1, <2>2, <2>5, <2>6 DEF AgreeInv
<1> QED
  BY <1>2, <1>5, <1>6, <1>7 DEF AgreeInv

LEMMA AgreeStep ==
  ASSUME QuoteAssumption, QInv, AgreeInv, NEW h \in Sellers, Quotes!Step(h),
         UNCHANGED Quotes!xeroVars
  PROVE  AgreeInv'
<1>1. /\ seller[h].todo # <<>> /\ Quotes!Rest(h)
      /\ UNCHANGED <<raced, broken, closed, qXero, qJob, jobRaced, jobBroken>>
  BY DEF Quotes!Step, Quotes!xeroVars
<1>2. PICK row \in Todo : row = seller[h]
  BY DEF QInv, QuoteTyped
<1>3. PICK todo \in Seq(Quotes!Write) : todo = seller[h].todo /\ todo # <<>>
  BY <1>1, <1>2 DEF Todo
<1>4. PICK e \in Quotes!Write : e = Head(todo)
  BY <1>3
<1>5. /\ \A g \in Sellers \ {h} : seller'[g] = seller[g]
      /\ seller'[h].todo = Tail(todo)
      /\ \/ seller'[h].works = seller[h].works
         \/ seller'[h].works = {} /\ Tail(todo) = <<>>
  <2>1. Quotes!Idle.todo = <<>> /\ Quotes!Idle.works = {}
    BY DEF Quotes!Idle
  <2>2. PICK new : new = [row EXCEPT !.todo = Tail(todo)]
    OBVIOUS
  <2>3. new.todo = Tail(todo) /\ new.works = row.works
    BY <2>2 DEF Todo
  <2>4. seller' = [seller EXCEPT ![h] = IF Len(todo) = 1 THEN Quotes!Idle ELSE new]
    BY <1>1, <1>2, <1>3, <2>2 DEF Quotes!Rest
  <2>5. Len(todo) = 1 => Tail(todo) = <<>>
    <3>1. Tail(todo) \in Seq(Quotes!Write) /\ Len(Tail(todo)) = Len(todo) - 1
      BY <1>3, HeadTailProperties
    <3> QED
      BY <3>1, EmptySeq
  <2> QED
    BY <1>2, <2>1, <2>3, <2>4, <2>5 DEF QInv, QuoteTyped
<1>6. \/ Quotes!Insert(h, e) \/ Quotes!SetStatus(h, e)
      \/ Quotes!ConfirmLead(h, e) \/ Quotes!Tell(h, e)
  BY <1>3, <1>4 DEF Quotes!Step
<1>7. DOMAIN qStatus = Quotations
  BY DEF QInv, QuoteTyped
<1>8. CASE Quotes!Insert(h, e) \/ Quotes!SetStatus(h, e)
  <2>1. e.w \in Changing /\ e.w \notin Telling /\ qQueue' = qQueue
    BY <1>8 DEF Quotes!Insert, Quotes!SetStatus, Changing, Telling
  <2>2. qStatus' = [qStatus EXCEPT ![e.q] = e.s]
    BY <1>8 DEF Quotes!Insert, Quotes!SetStatus
  <2>3. \A q \in Quotations :
          IF e.q = q /\ e.w \in Changing THEN qStatus'[q] = e.s ELSE qStatus'[q] = qStatus[q]
    BY <1>7, <2>1, <2>2
  <2> QED
    BY <1>1, <1>3, <1>4, <1>5, <2>1, <2>3, AgreeQuery
<1>9. CASE Quotes!ConfirmLead(h, e)
  <2>1. e.w \notin Changing /\ e.w \notin Telling /\ qQueue' = qQueue /\ qStatus' = qStatus
    BY <1>9 DEF Quotes!ConfirmLead, Changing, Telling
  <2> QED
    BY <1>1, <1>3, <1>4, <1>5, <2>1, AgreeQuery
<1>10. CASE Quotes!Tell(h, e)
  <2>1. e.w \notin Changing /\ qStatus' = qStatus /\ e.w \in {"tell", "sync", "syncProject"}
    BY <1>10 DEF Quotes!Tell, Changing
  <2>2. e.w \in Telling => e.q \in Quotations
    <3>1. 1 \in 1..Len(todo) /\ e = todo[1]
      BY <1>3, <1>4
    <3> QED
      BY <1>3, <3>1 DEF AgreeInv, Named
  <2>3. PICK m : m = CASE e.w = "tell" -> [kind |-> "status", q |-> e.q, s |-> e.s]
                       [] e.w = "sync" -> [kind |-> "sync", q |-> e.q, s |-> "none"]
                       [] OTHER -> [kind |-> "project"]
    OBVIOUS
  <2>4. qQueue' = Append(qQueue, m)
    BY <1>10, <2>3 DEF Quotes!Tell
  <2>5. CASE e.w = "tell"
    <3>1. m = [kind |-> "status", q |-> e.q, s |-> e.s] /\ e.w \in Telling
      BY <2>3, <2>5 DEF Telling
    <3>2. m \in Quotes!Message /\ m.kind = "status" /\ m.q = e.q /\ m.s = e.s
      BY <2>2, <3>1 DEF Quotes!Message, Quotes!Write
    <3>3. Quotes!Doc(m) = e.q
      BY <3>2 DEF Quotes!Doc
    <3> QED
      BY <1>1, <1>3, <1>4, <1>5, <2>1, <2>4, <2>5, <3>1, <3>2, <3>3, AgreeQuery
  <2>6. CASE e.w = "sync"
    <3>1. m = [kind |-> "sync", q |-> e.q, s |-> "none"] /\ e.w \in Telling
      BY <2>3, <2>6 DEF Telling
    <3>2. m \in Quotes!Message /\ m.kind = "sync" /\ m.q = e.q
      BY <2>2, <3>1 DEF Quotes!Message
    <3>3. Quotes!Doc(m) = e.q
      BY <3>2 DEF Quotes!Doc
    <3> QED
      BY <1>1, <1>3, <1>4, <1>5, <2>1, <2>4, <3>1, <3>2, <3>3, AgreeQuery
  <2>7. CASE e.w = "syncProject"
    <3>1. m = [kind |-> "project"] /\ e.w \notin Telling
      BY <2>3, <2>7 DEF Telling
    <3>2. m \in Quotes!Message /\ m.kind = "project"
      BY <3>1 DEF Quotes!Message
    <3>3. \A q \in Quotations : Quotes!Doc(m) # q
      BY <3>2 DEF Quotes!Doc, QuoteAssumption
    <3> QED
      BY <1>1, <1>3, <1>4, <1>5, <2>1, <2>4, <3>1, <3>2, <3>3, AgreeQuery
  <2> QED
    BY <2>1, <2>5, <2>6, <2>7
<1> QED
  BY <1>6, <1>8, <1>9, <1>10

(* What jobs and failures leave of what has been told.                     *)
LEMMA JobElsewhere ==
  ASSUME NEW jobs, NEW next, NEW xero, NEW after, NEW q, NEW s,
         \A w \in QuoteWorkers : jobs[w].doc = q \/ next[w].doc = q => next[w] = jobs[w],
         after[q] = xero[q], Shown(jobs, xero, q, s)
  PROVE  Shown(next, after, q, s)
BY DEF Shown

LEMMA AgreeCarries ==
  ASSUME AgreeInv, UNCHANGED <<qStatus, raced, closed>>,
         broken \subseteq broken', jobRaced \subseteq jobRaced', jobBroken \subseteq jobBroken',
         \A h \in Sellers :
           \/ seller'[h] = seller[h]
           \/ /\ seller'[h].todo = <<>> /\ seller'[h].works = {}
              /\ seller[h].works \subseteq broken',
         qQueue' \in Seq(Quotes!Message), DOMAIN qXero' = Quotations,
         \A w \in QuoteWorkers : JobKnows(qJob'[w]),
         \A q \in Quotations : Undisturbed(q) /\ Undisturbed(q)' =>
           /\ \A v, w \in QuoteWorkers : qJob'[v].doc = q /\ qJob'[w].doc = q => v = w
           /\ Reports(qQueue, qJob, qXero, q, qStatus[q]) =>
                Reports(qQueue', qJob', qXero', q, qStatus[q])
  PROVE  AgreeInv'
<1>1. \A q : ~Concerns(<<>>, q)
  BY DEF Concerns
<1>2. Named(<<>>)
  BY DEF Named
<1>3. ASSUME NEW h \in Sellers
      PROVE  /\ Named(seller'[h].todo)
             /\ \A q \in Quotations : Concerns(seller'[h].todo, q) => q \in seller'[h].works
             /\ \A q \in Quotations : q \in seller'[h].works => q \in seller[h].works
  <2>1. CASE seller'[h] = seller[h]
    BY <2>1 DEF AgreeInv
  <2>2. CASE seller'[h].todo = <<>> /\ seller'[h].works = {}
    BY <1>1, <1>2, <2>2
  <2> QED
    BY <2>1, <2>2
<1>4. \A q \in Quotations \ raced' : \A g, h \in Sellers :
        q \in seller'[g].works /\ q \in seller'[h].works => g = h
  BY <1>3 DEF AgreeInv
<1>5. ASSUME NEW q \in Quotations, Undisturbed(q)'
      PROVE  /\ \A v, w \in QuoteWorkers : qJob'[v].doc = q /\ qJob'[w].doc = q => v = w
             /\ \A h \in Sellers : TellsAfter(seller'[h].todo, q, qStatus[q])
             /\ \/ Reports(qQueue', qJob', qXero', q, qStatus[q])
                \/ \E h \in Sellers : Concerns(seller'[h].todo, q)
  <2>1. Undisturbed(q) /\ q \notin broken'
    BY <1>5 DEF Undisturbed
  <2>2. PICK s : s = qStatus[q]
    OBVIOUS
  <2>3. ASSUME NEW h \in Sellers PROVE TellsAfter(seller'[h].todo, q, s)
    <3>1. CASE seller'[h] = seller[h]
      BY <2>1, <2>2, <3>1 DEF AgreeInv
    <3>2. CASE seller'[h].todo = <<>>
      BY <1>1, <3>2, NothingToTell
    <3> QED
      BY <3>1, <3>2
  <2>4. ASSUME NEW h \in Sellers, Concerns(seller[h].todo, q)
        PROVE  Concerns(seller'[h].todo, q)
    <3>1. q \in seller[h].works
      BY <2>4 DEF AgreeInv
    <3> QED
      BY <2>1, <2>4, <3>1
  <2>5. \/ Reports(qQueue, qJob, qXero, q, s)
        \/ \E h \in Sellers : Concerns(seller[h].todo, q)
    BY <2>1, <2>2 DEF AgreeInv
  <2> QED
    BY <1>5, <2>1, <2>2, <2>3, <2>4, <2>5
<1> QED
  BY <1>3, <1>4, <1>5 DEF AgreeInv

LEMMA AgreeFails ==
  ASSUME QInv, AgreeInv, NEW h \in Sellers, Quotes!Fail(h), UNCHANGED Quotes!xeroVars
  PROVE  AgreeInv'
<1>1. /\ UNCHANGED <<qStatus, raced, closed, qQueue, qXero, qJob, jobRaced, jobBroken>>
      /\ broken' = broken \cup seller[h].works
      /\ seller' = [seller EXCEPT ![h] = Quotes!Idle]
  BY DEF Quotes!Fail, Quotes!xeroVars
<1>2. Quotes!Idle.todo = <<>> /\ Quotes!Idle.works = {}
  BY DEF Quotes!Idle
<1>3. \A g \in Sellers :
        \/ seller'[g] = seller[g]
        \/ /\ seller'[g].todo = <<>> /\ seller'[g].works = {}
           /\ seller[g].works \subseteq broken'
  BY <1>1, <1>2 DEF QInv, QuoteTyped
<1>4. qQueue \in Seq(Quotes!Message) /\ DOMAIN qXero = Quotations
  BY DEF AgreeInv
<1>5. \A w \in QuoteWorkers : JobKnows(qJob[w])
  BY DEF AgreeInv
<1>6. \A q \in Quotations : Undisturbed(q) =>
        \A v, w \in QuoteWorkers : qJob[v].doc = q /\ qJob[w].doc = q => v = w
  BY DEF AgreeInv
<1> QED
  BY <1>1, <1>3, <1>4, <1>5, <1>6, AgreeCarries

(* A job goes on.                                                          *)
LEMMA AgreeJobMoves ==
  ASSUME OnceInv, AgreeInv, NEW w \in QuoteWorkers, NEW row, IsJob(row), JobKnows(row),
         qJob' = [qJob EXCEPT ![w] = row],
         UNCHANGED <<qStatus, seller, raced, broken, closed>>,
         jobRaced \subseteq jobRaced', jobBroken \subseteq jobBroken',
         qQueue' \in Seq(Quotes!Message), DOMAIN qXero' = Quotations,
         \A q \in Quotations : Undisturbed(q) /\ Undisturbed(q)' =>
           /\ row.doc = q => \A v \in QuoteWorkers \ {w} : qJob[v].doc # q
           /\ Reports(qQueue, qJob, qXero, q, qStatus[q]) =>
                Reports(qQueue', qJob', qXero', q, qStatus[q])
  PROVE  AgreeInv'
<1>1. qJob'[w] = row /\ \A v \in QuoteWorkers \ {w} : qJob'[v] = qJob[v]
  BY JobMoves
<1>2. \A v \in QuoteWorkers : JobKnows(qJob'[v])
  BY <1>1 DEF AgreeInv
<1>3. ASSUME NEW q \in Quotations, Undisturbed(q), Undisturbed(q)'
      PROVE  \A u, v \in QuoteWorkers : qJob'[u].doc = q /\ qJob'[v].doc = q => u = v
  BY <1>1, <1>3 DEF AgreeInv
<1> QED
  BY <1>2, <1>3, AgreeCarries

LEMMA AgreeTakes ==
  ASSUME QuoteAssumption, OnceInv, AgreeInv, NEW w \in QuoteWorkers, Quotes!Take(w)
  PROVE  AgreeInv'
<1>1. /\ qJob[w].step = "idle" /\ qQueue # <<>> /\ qQueue' = Tail(qQueue)
      /\ UNCHANGED <<qStatus, seller, raced, broken, closed, qXero, jobBroken>>
  BY DEF Quotes!Take
<1>2. qQueue \in Seq(Quotes!Message) /\ DOMAIN qXero = Quotations /\ JobKnows(qJob[w])
  BY DEF AgreeInv
<1>3. PICK m, d : m = Head(qQueue) /\ d = Quotes!Doc(m)
  OBVIOUS
<1>4. PICK row :
        row = [doc |-> d, step |-> "push", s |-> Quotes!StatusFor(m), new |-> d \notin qRef,
               m |-> m]
  OBVIOUS
<1>5. /\ qJob' = [qJob EXCEPT ![w] = row]
      /\ jobRaced' = IF \E v \in QuoteWorkers : qJob[v].doc = d THEN jobRaced \cup {d}
                     ELSE jobRaced
  BY <1>3, <1>4 DEF Quotes!Take
<1>6. row.doc = d /\ row.step = "push" /\ row.s = Quotes!StatusFor(m) /\ row.m = m
  BY <1>4
<1>7. IsJob(row)
  BY <1>4 DEF IsJob
<1>8. qQueue' \in Seq(Quotes!Message) /\ m \in Quotes!Message
  BY <1>1, <1>2, <1>3, MessageTaken
<1>9. JobKnows(row)
  BY <1>3, <1>6, <1>8 DEF JobKnows
<1>10. qJob'[w] = row /\ \A v \in QuoteWorkers \ {w} : qJob'[v] = qJob[v]
  BY <1>5, <1>7, JobMoves
<1>11. ASSUME NEW q \in Quotations, Undisturbed(q)'
       PROVE  /\ row.doc = q => \A v \in QuoteWorkers : qJob[v].doc # q
              /\ Reports(qQueue, qJob, qXero, q, qStatus[q]) =>
                   Reports(qQueue', qJob', qXero', q, qStatus[q])
  <2>1. d = q => \A v \in QuoteWorkers : qJob[v].doc # q
    BY <1>5, <1>11 DEF Undisturbed
  <2>2. PICK s : s = qStatus[q]
    OBVIOUS
  <2>3. ASSUME LastRight(qQueue, q, s), Silent(qQueue, q) => Shown(qJob, qXero, q, s)
        PROVE  /\ LastRight(qQueue', q, s)
               /\ Silent(qQueue', q) => Shown(qJob', qXero', q, s)
    <3>1. LastRight(qQueue', q, s)
      BY <1>1, <1>2, <2>3, MessageTaken
    <3>2. ASSUME Silent(qQueue', q), d # q PROVE Shown(qJob', qXero', q, s)
      <4>1. Silent(qQueue, q)
        BY <1>1, <1>2, <1>3, <3>2, MessageTaken
      <4>2. qJob[w].doc # q
        BY <1>1, <1>2 DEF JobKnows, QuoteAssumption
      <4>3. \A v \in QuoteWorkers : qJob[v].doc = q \/ qJob'[v].doc = q => qJob'[v] = qJob[v]
        BY <1>6, <1>10, <3>2, <4>2
      <4> QED
        BY <1>1, <2>3, <4>1, <4>3, JobElsewhere
    <3>3. ASSUME Silent(qQueue', q), d = q PROVE Shown(qJob', qXero', q, s)
      <4>1. Right(m, s)
        BY <1>1, <1>2, <1>3, <2>3, <3>3, MessageTaken
      <4>2. m.kind \in {"sync", "status"} /\ m.q = q
        BY <1>3, <1>8, <3>3 DEF Quotes!Doc, Quotes!Message, QuoteAssumption
      <4>3. Quotes!StatusFor(m) = Match(s)
        BY <2>2, <4>1, <4>2 DEF Quotes!StatusFor, Right, Match
      <4>4. \A v \in QuoteWorkers : qJob'[v].doc = q <=> v = w
        BY <1>6, <1>10, <2>1, <3>3
      <4> QED
        BY <1>6, <1>10, <4>3, <4>4 DEF Shown
    <3> QED
      BY <3>1, <3>2, <3>3
  <2> QED
    BY <1>6, <2>1, <2>2, <2>3 DEF Reports
<1>12. jobRaced \subseteq jobRaced' /\ jobBroken \subseteq jobBroken'
  BY <1>1, <1>5
<1>13. \A q \in Quotations : Undisturbed(q)' =>
         /\ row.doc = q => \A v \in QuoteWorkers \ {w} : qJob[v].doc # q
         /\ Reports(qQueue, qJob, qXero, q, qStatus[q]) =>
              Reports(qQueue', qJob', qXero', q, qStatus[q])
  BY <1>11
<1> QED
  BY <1>1, <1>2, <1>5, <1>7, <1>8, <1>9, <1>12, <1>13, AgreeJobMoves

LEMMA AgreePushes ==
  ASSUME QuoteAssumption, OnceInv, AgreeInv, NEW w \in QuoteWorkers, Quotes!Push(w)
  PROVE  AgreeInv'
<1>1. /\ qJob[w].step = "push"
      /\ UNCHANGED <<qStatus, qQueue, seller, raced, broken, closed, jobRaced, jobBroken>>
  BY DEF Quotes!Push, Quotes!localVars
<1>2. /\ qQueue \in Seq(Quotes!Message) /\ DOMAIN qXero = Quotations
  BY DEF AgreeInv
<1>3. PICK old : old = qJob[w] /\ IsJob(old) /\ old.step = "push"
  BY <1>1 DEF OnceInv
<1>4. /\ JobKnows(old)
      /\ old.m \in Quotes!Message /\ Quotes!Doc(old.m) = old.doc
  <2>1. JobKnows(old)
    BY <1>3 DEF AgreeInv
  <2> QED
    BY <1>3, <2>1 DEF JobKnows
<1>5. old.doc = "project" \/ old.doc \in Quotations
  BY <1>4 DEF Quotes!Doc, Quotes!Message
<1>6. PICK next : next = [old EXCEPT !.step = "store"]
  OBVIOUS
<1>7. IsJob(next) /\ next.doc = old.doc /\ next.step = "store" /\ next.m = old.m
  BY <1>3, <1>6 DEF IsJob
<1>8. JobKnows(next)
  BY <1>4, <1>7 DEF JobKnows
<1>9. IsJob(Quotes!NoJob) /\ JobKnows(Quotes!NoJob) /\ Quotes!NoJob.doc = None
  BY DEF IsJob, JobKnows, Quotes!NoJob
<1>10. PICK row : /\ qJob' = [qJob EXCEPT ![w] = row] /\ IsJob(row) /\ JobKnows(row)
                  /\ row = next \/ row = Quotes!NoJob
  BY <1>3, <1>6, <1>7, <1>8, <1>9 DEF Quotes!Push
<1>11. qJob'[w] = row /\ \A v \in QuoteWorkers \ {w} : qJob'[v] = qJob[v]
  BY <1>10, JobMoves
<1>12. /\ qXero' = IF old.doc = "project" THEN qXero ELSE [qXero EXCEPT ![old.doc] = old.s]
       /\ DOMAIN qXero' = Quotations
  BY <1>2, <1>3 DEF Quotes!Push
<1>13. ASSUME NEW q \in Quotations, Undisturbed(q)
       PROVE  /\ row.doc = q => \A v \in QuoteWorkers \ {w} : qJob[v].doc # q
              /\ Reports(qQueue, qJob, qXero, q, qStatus[q]) =>
                   Reports(qQueue', qJob', qXero', q, qStatus[q])
  <2>1. old.doc = q => \A v \in QuoteWorkers \ {w} : qJob[v].doc # q
    BY <1>3, <1>13 DEF AgreeInv
  <2>2. row.doc = old.doc \/ row.doc = None
    BY <1>7, <1>9, <1>10
  <2>3. None # q
    BY DEF QuoteAssumption
  <2>4. ASSUME NEW s, Shown(qJob, qXero, q, s) PROVE Shown(qJob', qXero', q, s)
    <3>1. CASE old.doc = q
      <4>1. old.s = Match(s)
        BY <1>3, <2>4, <3>1 DEF Shown
      <4>2. qXero'[q] = Match(s)
        BY <1>2, <1>12, <3>1, <4>1 DEF QuoteAssumption
      <4>3. \A v \in QuoteWorkers : qJob'[v].doc = q => v = w /\ row = next
        BY <1>9, <1>10, <1>11, <2>1, <2>3, <3>1
      <4> QED
        BY <1>7, <1>11, <4>2, <4>3 DEF Shown
    <3>2. CASE old.doc # q
      <4>1. qXero'[q] = qXero[q]
        BY <1>2, <1>12, <3>2
      <4>2. \A v \in QuoteWorkers : qJob[v].doc = q \/ qJob'[v].doc = q => qJob'[v] = qJob[v]
        BY <1>3, <1>11, <2>2, <2>3, <3>2
      <4> QED
        BY <2>4, <4>1, <4>2, JobElsewhere
    <3> QED
      BY <3>1, <3>2
  <2> QED
    BY <1>1, <2>1, <2>2, <2>3, <2>4 DEF Reports
<1> QED
  BY <1>1, <1>2, <1>10, <1>12, <1>13, AgreeJobMoves

LEMMA AgreeJobEnds ==
  ASSUME QuoteAssumption, OnceInv, AgreeInv, NEW w \in QuoteWorkers,
         Quotes!Store(w) \/ Quotes!JobFails(w)
  PROVE  AgreeInv'
<1>1. /\ qJob[w].step # "idle" /\ qJob' = [qJob EXCEPT ![w] = Quotes!NoJob]
      /\ UNCHANGED <<qStatus, qQueue, seller, raced, broken, closed, qXero, jobRaced>>
      /\ \/ jobBroken' = jobBroken /\ qJob[w].step = "store"
         \/ jobBroken' = jobBroken \cup {qJob[w].doc}
  BY DEF Quotes!Store, Quotes!JobFails, Quotes!localVars
<1>2. IsJob(Quotes!NoJob) /\ JobKnows(Quotes!NoJob) /\ Quotes!NoJob.doc = None
  BY DEF IsJob, JobKnows, Quotes!NoJob
<1>3. qQueue \in Seq(Quotes!Message) /\ DOMAIN qXero = Quotations
  BY DEF AgreeInv
<1>4. qJob'[w] = Quotes!NoJob /\ \A v \in QuoteWorkers \ {w} : qJob'[v] = qJob[v]
  BY <1>1, <1>2, JobMoves
<1>5. ASSUME NEW q \in Quotations, Undisturbed(q), Undisturbed(q)', NEW s,
             Shown(qJob, qXero, q, s)
      PROVE  Shown(qJob', qXero', q, s)
  <2>1. None # q
    BY DEF QuoteAssumption
  <2>2. CASE qJob[w].doc = q
    <3>1. qJob[w].step = "store"
      BY <1>1, <1>5, <2>2 DEF Undisturbed
    <3>2. qXero[q] = Match(s)
      BY <1>5, <2>2, <3>1 DEF Shown
    <3>3. \A v \in QuoteWorkers \ {w} : qJob[v].doc # q
      BY <1>5, <2>2 DEF AgreeInv
    <3>4. \A v \in QuoteWorkers : qJob'[v].doc # q
      BY <1>2, <1>4, <2>1, <3>3
    <3> QED
      BY <1>1, <3>2, <3>4 DEF Shown
  <2>3. CASE qJob[w].doc # q
    <3>1. \A v \in QuoteWorkers : qJob[v].doc = q \/ qJob'[v].doc = q => qJob'[v] = qJob[v]
      BY <1>2, <1>4, <2>1, <2>3
    <3> QED
      BY <1>1, <1>5, <3>1, JobElsewhere
  <2> QED
    BY <2>2, <2>3
<1>6. \A q \in Quotations : Undisturbed(q) /\ Undisturbed(q)' =>
        (Reports(qQueue, qJob, qXero, q, qStatus[q]) =>
           Reports(qQueue', qJob', qXero', q, qStatus[q]))
  BY <1>1, <1>5 DEF Reports
<1>7. \A q \in Quotations : Quotes!NoJob.doc # q
  BY <1>2 DEF QuoteAssumption
<1>8. jobBroken \subseteq jobBroken' /\ jobRaced \subseteq jobRaced'
  BY <1>1
<1> QED
  BY <1>1, <1>2, <1>3, <1>6, <1>7, <1>8, AgreeJobMoves

LEMMA AgreeRestarts ==
  ASSUME QuoteAssumption, QInv, OnceInv, AgreeInv, Quotes!Restart
  PROVE  AgreeInv'
<1> DEFINE S == {w \in QuoteWorkers : qJob[w].step # "idle"}
<1>1. /\ UNCHANGED <<qStatus, raced, closed, qXero, jobRaced>>
      /\ seller' = [h \in Sellers |-> Quotes!Idle]
      /\ broken' = broken \cup Quotes!Busy /\ jobBroken' = jobBroken \cup Quotes!AtWork
      /\ qJob' = [w \in QuoteWorkers |-> Quotes!NoJob]
  BY DEF Quotes!Restart
<1>2. PICK ws \in Quotes!SetToSeqs(S) : qQueue' = [i \in DOMAIN ws |-> qJob[ws[i]].m] \o qQueue
  BY DEF Quotes!Restart
<1>3. Quotes!Cardinality(S) = Cardinality(S)
  BY DEF Quotes!Cardinality, Cardinality
<1>4. PICK n \in Nat : n = Cardinality(S)
  <2>1. S \subseteq QuoteWorkers /\ IsFiniteSet(QuoteWorkers)
    BY DEF QuoteAssumption
  <2>2. IsFiniteSet(S)
    BY <2>1, FS_Subset
  <2> QED
    BY <2>2, FS_CardinalityType
<1>5. ws \in [1..n -> S]
  BY <1>2, <1>3, <1>4 DEF Quotes!SetToSeqs
<1>6. PICK front : front = [i \in 1..n |-> qJob[ws[i]].m]
  OBVIOUS
<1>7. qQueue' = front \o qQueue
  BY <1>2, <1>5, <1>6
<1>8. ASSUME NEW i \in 1..n
      PROVE  /\ front[i] \in Quotes!Message
             /\ \E w \in QuoteWorkers : qJob[w].step # "idle" /\ Quotes!Doc(front[i]) = qJob[w].doc
  <2>1. PICK w \in QuoteWorkers : w = ws[i] /\ qJob[w].step # "idle"
    BY <1>5
  <2>2. JobKnows(qJob[w])
    BY DEF AgreeInv
  <2> QED
    BY <1>6, <2>1, <2>2 DEF JobKnows
<1>9. front \in Seq(Quotes!Message) /\ Len(front) = n
  <2>1. front = [i \in 1..n |-> front[i]]
    BY <1>6
  <2>2. front \in [1..n -> Quotes!Message]
    BY <1>8, <2>1
  <2> QED
    BY <2>2
<1>10. qQueue \in Seq(Quotes!Message) /\ DOMAIN qXero = Quotations
  BY DEF AgreeInv
<1>11. qQueue' \in Seq(Quotes!Message)
  BY <1>7, <1>9, <1>10, ConcatProperties
<1>12. JobKnows(Quotes!NoJob) /\ Quotes!NoJob.doc = None
  BY DEF JobKnows, Quotes!NoJob
<1>13. Quotes!Idle.todo = <<>> /\ Quotes!Idle.works = {}
  BY DEF Quotes!Idle
<1>14. \A h \in Sellers : /\ seller'[h].todo = <<>> /\ seller'[h].works = {}
                          /\ seller[h].works \subseteq broken'
  BY <1>1, <1>13 DEF Quotes!Busy
<1>15. ASSUME NEW q \in Quotations, Undisturbed(q)'
       PROVE  /\ \A w \in QuoteWorkers : qJob'[w].doc # q
              /\ Reports(qQueue, qJob, qXero, q, qStatus[q]) =>
                   Reports(qQueue', qJob', qXero', q, qStatus[q])
  <2>1. \A w \in QuoteWorkers : qJob'[w].doc # q
    BY <1>1, <1>12 DEF QuoteAssumption
  <2>2. \A w \in QuoteWorkers : qJob[w].doc # q
    <3>1. q \notin Quotes!AtWork /\ q # None
      BY <1>1, <1>15 DEF Undisturbed, QuoteAssumption
    <3> QED
      BY <3>1 DEF Quotes!AtWork
  <2>3. \A s : Shown(qJob, qXero, q, s) => Shown(qJob', qXero', q, s)
    BY <1>1, <2>1, <2>2, JobElsewhere
  <2>4. Silent(front, q)
    BY <1>8, <1>9, <2>2 DEF Silent
  <2>5. \A s : /\ LastRight(qQueue, q, s) => LastRight(qQueue', q, s)
               /\ Silent(qQueue', q) => Silent(qQueue, q)
    BY <1>7, <1>9, <1>10, <2>4, MessagesBack
  <2> QED
    BY <2>1, <2>3, <2>5 DEF Reports
<1>16. \A w \in QuoteWorkers : JobKnows(qJob'[w])
  BY <1>1, <1>12
<1>17. /\ broken \subseteq broken' /\ jobRaced \subseteq jobRaced' /\ jobBroken \subseteq jobBroken'
       /\ DOMAIN qXero' = Quotations
  BY <1>1, <1>10
<1> QED
  BY <1>1, <1>11, <1>14, <1>15, <1>16, <1>17, AgreeCarries

LEMMA AgreeNext ==
  ASSUME QuoteAssumption, QInv, OnceInv, AgreeInv, Quotes!Next
  PROVE  AgreeInv'
<1>1. ASSUME Quotes!Request, UNCHANGED Quotes!xeroVars PROVE AgreeInv'
  <2>1. UNCHANGED <<qXero, qJob, jobRaced, jobBroken>>
    BY <1>1 DEF Quotes!xeroVars
  <2>2. ASSUME NEW q \in Quotations, NEW prev \in Quotations \cup {None}, q # prev,
               \/ Quotes!SaveAsDraft(q, prev) \/ \E h \in Sellers : Quotes!Create(h, q, prev)
        PROVE  AgreeInv'
    BY <1>1, <2>2, AgreeDraft, AgreeCreates
  <2>3. ASSUME NEW q \in Quotations, Quotes!Update(q) PROVE AgreeInv'
    <3>1. PICK m : m = [kind |-> "sync", q |-> q, s |-> "none"]
      OBVIOUS
    <3>2. m \in Quotes!Message /\ m.kind = "sync"
      BY <3>1 DEF Quotes!Message
    <3>3. /\ qQueue' = Append(qQueue, m)
          /\ UNCHANGED <<qStatus, seller, raced, broken, closed>>
      BY <2>3, <3>1 DEF Quotes!Update
    <3> QED
      BY <2>1, <3>2, <3>3, AgreeTold DEF Right
  <2>4. CASE Quotes!CreateProject
    <3>1. PICK m : m = [kind |-> "project"]
      OBVIOUS
    <3>2. m \in Quotes!Message /\ \A q \in Quotations : Quotes!Doc(m) # q
      BY <3>1 DEF Quotes!Message, Quotes!Doc, QuoteAssumption
    <3>3. /\ qQueue' = Append(qQueue, m)
          /\ UNCHANGED <<qStatus, seller, raced, broken, closed>>
      BY <2>4, <3>1 DEF Quotes!CreateProject
    <3> QED
      BY <2>1, <3>2, <3>3, AgreeTold
  <2>5. ASSUME NEW q \in Quotations, Quotes!ApproveWithoutProject(q) PROVE AgreeInv'
    BY <2>1, <2>5, AgreeStays DEF Quotes!ApproveWithoutProject
  <2>6. CASE Quotes!RemoveProject
    BY <2>1, <2>6, AgreeStays DEF Quotes!RemoveProject
  <2>7. ASSUME NEW q \in Quotations, NEW h \in Sellers,
               \/ Quotes!Submit(h, q) \/ Quotes!Approve(h, q)
               \/ \E to \in {"confirmed", "rejected"} : Quotes!UpdateStatus(h, q, to)
        PROVE  AgreeInv'
    BY <1>1, <2>7, AgreeDecides
  <2>8. CASE Quotes!CloseLead
    BY <1>1, <2>8, AgreeLeadCloses
  <2> QED
    BY <1>1, <2>2, <2>3, <2>4, <2>5, <2>6, <2>7, <2>8 DEF Quotes!Request
<1>2. ASSUME NEW h \in Sellers, Quotes!Step(h) \/ Quotes!Fail(h), UNCHANGED Quotes!xeroVars
      PROVE  AgreeInv'
  BY <1>2, AgreeStep, AgreeFails
<1>3. ASSUME NEW w \in QuoteWorkers,
             Quotes!Take(w) \/ Quotes!Push(w) \/ Quotes!Store(w) \/ Quotes!JobFails(w)
      PROVE  AgreeInv'
  BY <1>3, AgreeTakes, AgreePushes, AgreeJobEnds
<1> QED
  BY <1>1, <1>2, <1>3, AgreeRestarts DEF Quotes!Next, Quotes!LocalNext

LEMMA QuotesMove ==
  ASSUME QuoteAssumption, QInv, OnceInv, AgreeInv, [Quotes!Next]_(Quotes!vars)
  PROVE  QInv' /\ OnceInv' /\ AgreeInv'
<1>1. CASE Quotes!Next
  BY <1>1, QuotesNext, OnceNext, AgreeNext
<1>2. CASE UNCHANGED Quotes!vars
  <2>1. UNCHANGED <<qStatus, replaces, seller, qRef, created, qQueue, raced, broken, closed,
                    qXero, qJob, jobRaced, jobBroken>>
    BY <1>2 DEF Quotes!vars, Quotes!localVars, Quotes!xeroVars
  <2> QED
    BY <2>1, QuotesStay, OnceStays, AgreeStays
<1> QED
  BY <1>1, <1>2

LEMMA AgreeShows == QuoteAssumption /\ AgreeInv => Quotes!QuotesAgree
<1> SUFFICES ASSUME QuoteAssumption, AgreeInv, qQueue = <<>>, Quotes!AtWork = {},
                    NEW q \in Quotations,
                    q \notin Quotes!Busy \cup raced \cup broken \cup jobRaced \cup jobBroken \cup closed
             PROVE  qStatus[q] \in {"none", "draft"} \/ qXero[q] = Match(qStatus[q])
  BY DEF Quotes!QuotesAgree, Match
<1>1. Undisturbed(q) /\ q # None
  BY DEF Undisturbed, QuoteAssumption
<1>2. \A h \in Sellers : ~Concerns(seller[h].todo, q)
  BY DEF AgreeInv, Quotes!Busy
<1>3. Reports(qQueue, qJob, qXero, q, qStatus[q])
  BY <1>1, <1>2 DEF AgreeInv
<1>4. Silent(qQueue, q)
  BY DEF Silent
<1>5. \A w \in QuoteWorkers : qJob[w].doc # q
  BY <1>1 DEF Quotes!AtWork
<1> QED
  BY <1>3, <1>4, <1>5 DEF Reports, Shown

(* Once nothing is left to do, Xero shows each quotation with the status   *)
(* it has, but for the causes QuotesAgree names: what is written is told   *)
(* afterwards, and the last that is told of a quotation arrives, for any   *)
(* quotations, requests and jobs.                                          *)
THEOREM QuotesShown == QuoteAssumption => (Quotes!Spec => []Quotes!QuotesAgree)
<1> SUFFICES ASSUME QuoteAssumption PROVE Quotes!Spec => []Quotes!QuotesAgree
  OBVIOUS
<1>1. Quotes!Init => QInv /\ OnceInv /\ AgreeInv
  BY QuotesInit, OnceInit, AgreeInit
<1>2. QInv /\ OnceInv /\ AgreeInv /\ [Quotes!Next]_(Quotes!vars) => QInv' /\ OnceInv' /\ AgreeInv'
  BY QuotesMove
<1>3. AgreeInv => Quotes!QuotesAgree
  BY AgreeShows
<1> QED
  BY <1>1, <1>2, <1>3, PTL DEF Quotes!Spec

(* The same of the specification that is model-checked, of which the       *)
(* quotations of a lead are one behaviour.                                 *)
THEOREM OffersAreRight == QuoteAssumption => (SalesSpec => []OffersAgree)
<1> SUFFICES ASSUME QuoteAssumption PROVE SalesSpec => []OffersAgree
  OBVIOUS
<1>1. SalesInit => QInv /\ OnceInv /\ AgreeInv
  BY QuotesInit, OnceInit, AgreeInit DEF SalesInit
<1>2. QInv /\ OnceInv /\ AgreeInv /\ [SalesNext]_<<which, quoteVars, enquiryVars, vars>>
        => QInv' /\ OnceInv' /\ AgreeInv'
  <2> SUFFICES ASSUME [SalesNext]_<<which, quoteVars, enquiryVars, vars>>
               PROVE  [Quotes!Next]_(Quotes!vars)
    BY QuotesMove
  <2>1. UNCHANGED quoteVars => UNCHANGED Quotes!vars
    BY DEF quoteVars, Quotes!vars, Quotes!localVars, Quotes!xeroVars
  <2> QED
    BY <2>1 DEF SalesNext
<1>3. QInv /\ OnceInv /\ AgreeInv => OffersAgree
  BY AgreeShows DEF OffersAgree, QInv, OnceInv, Quotes!ProjectCreatedOnce
<1> QED
  BY <1>1, <1>2, <1>3, PTL DEF SalesSpec
=============================================================================
