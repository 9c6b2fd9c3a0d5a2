----------------------------- MODULE Conversation -----------------------------
(***************************************************************************)
(* The conversation of one project: its messages and the marks of who has  *)
(* read them (project.service.ts), and the sockets that are told of a new  *)
(* message (chat.gateway.ts).                                              *)
(*                                                                         *)
(* Writing a message answers at once and leaves two things going on: every *)
(* user of the project is told of it with a number of unread messages, and *)
(* the writer's own unread messages are marked.  Nobody waits for either,  *)
(* so a query of theirs that fails ends the process.  Reading a page of    *)
(* the conversation leaves the marking behind in the same way.             *)
(***************************************************************************)
EXTENDS Integers, Sequences

CONSTANTS
  Users,        \* those who may write and read: members, and those allowed all projects
  Audience,     \* those the gateway's query finds: not who may only change all projects
  Sockets,
  Browser,      \* of every socket: its user, and the browser and address it comes from
  MaxReads,     \* bound on the markings, numbered: one for a page that is read or a message
  None,
  MaxMessages,  \* bound on the messages, numbered as they are written
  MaxActions,   \* bound on what people do: they come and go, write, read, remove
  MaxFailures   \* bound on the queries that fail

VARIABLES
  author,       \* of the messages, in the order they were written
  removed,      \* the messages that are removed
  marks,        \* <<u, m>>: u has read m
  socket,       \* of every socket: "away", "open", "gone"
  clients,      \* the sockets the gateway has entered
  telling,      \* of every message and user: "none", "counting", "counted", "told", "lost"
  number,       \* of the same: the messages that were counted
  got,          \* of every socket: the messages it was told of
  reading,      \* of every marking: its user, its step, the messages still to mark
  present,      \* history: of every message, the sockets entered since before it was written
  known,        \* history: of every message, the marks when it was written
  shown,        \* history: of every marking, the messages its user was answered
  actions, failures

vars ==
  <<author, removed, marks, socket, clients, telling, number, got, reading, present, known,
    shown, actions, failures>>

Messages == 1..MaxMessages
Written == 1..Len(author)
Reads == 1..MaxReads

Init ==
  /\ author = <<>> /\ removed = {} /\ marks = {}
  /\ socket = [s \in Sockets |-> "away"] /\ clients = {} /\ got = [s \in Sockets |-> {}]
  /\ telling = [m \in Messages |-> [u \in Audience |-> "none"]]
  /\ number = [m \in Messages |-> [u \in Audience |-> {}]]
  /\ reading = [k \in Reads |-> [user |-> None, step |-> "free", todo |-> {}, failed |-> FALSE]]
  /\ present = [m \in Messages |-> {}] /\ known = [m \in Messages |-> {}]
  /\ shown = [k \in Reads |-> {}]
  /\ actions = 0 /\ failures = 0

-----------------------------------------------------------------------------
(* What counts as unread.  Every row of the read log says it was read.     *)

OfOthers(u) == {m \in Written : author[m] # u}
Unmarked(u) == {m \in Written : <<u, m>> \notin marks}

\* Mutants: the user's own too; the newest only.
ToldWithOwn(u) == Unmarked(u)
NewestNotRead(u) ==
  {m \in OfOthers(u) \ removed : m \in Unmarked(u) /\ OfOthers(u) \cap (m + 1)..Len(author) = {}}

\* In the listing of conversations; of the one it is asked to begin with; to
\* the gateway; and to the request that marks them.
UnreadListed(u) == (OfOthers(u) \cap Unmarked(u)) \ removed
UnreadFirst(u) == Unmarked(u) \ removed
UnreadTold(u) == OfOthers(u) \cap Unmarked(u)
NotRead(u) == (OfOthers(u) \cap Unmarked(u)) \ removed

Acts == actions < MaxActions /\ actions' = actions + 1

-----------------------------------------------------------------------------
(* Sockets.  Verifying a token does not let another event in.              *)

\* A mutant: the user is forgotten, with all of their sockets.
ForgetUser(s) == {c \in clients : Browser[c].user # Browser[s].user}

Forget(s) == clients \ {s}

\* The socket that is found to be the second of its browser is closed, and
\* entered after that.
Connect(s) ==
  /\ socket[s] = "away"
  /\ IF \E c \in clients \ {s} : Browser[c] = Browser[s]
       THEN socket' = [socket EXCEPT ![s] = "gone"] /\ clients' = Forget(s) \cup {s}
       ELSE socket' = [socket EXCEPT ![s] = "open"] /\ clients' = clients \cup {s}
  /\ Acts
  /\ UNCHANGED <<author, removed, marks, telling, number, got, reading, present, known, shown,
                 failures>>

\* No token, or a wrong one.
Refuse(s) ==
  /\ socket[s] = "away"
  /\ socket' = [socket EXCEPT ![s] = "gone"]
  /\ clients' = Forget(s)
  /\ Acts
  /\ UNCHANGED <<author, removed, marks, telling, number, got, reading, present, known, shown,
                 failures>>

Disconnect(s) ==
  /\ socket[s] = "open"
  /\ socket' = [socket EXCEPT ![s] = "gone"]
  /\ clients' = Forget(s)
  /\ present' = [m \in Messages |-> present[m] \ {s}]
  /\ Acts
  /\ UNCHANGED <<author, removed, marks, telling, number, got, reading, known, shown, failures>>

-----------------------------------------------------------------------------
(* Messages.                                                               *)

Begin(k, u, messages) ==
  /\ reading[k].step = "free" /\ \A j \in 1..(k - 1) : reading[j].step # "free"
  /\ reading' = [reading EXCEPT ![k].user = u, ![k].step = "asking"]
  /\ shown' = [shown EXCEPT ![k] = messages]

createProjectNote(u, k) ==
  LET m == Len(author) + 1
  IN  /\ m \in Messages
      /\ author' = Append(author, u)
      /\ telling' = [telling EXCEPT ![m] = [v \in Audience |-> "counting"]]
      /\ present' = [present EXCEPT ![m] = {s \in clients : socket[s] = "open"}]
      /\ known' = [known EXCEPT ![m] = marks]
      /\ Begin(k, u, {m})
      /\ Acts
      /\ UNCHANGED <<removed, marks, socket, clients, number, got, failures>>

\* Within a quarter of an hour.  A message may be removed twice.
removeNote(m) ==
  /\ m \in Written
  /\ removed' = removed \cup {m}
  /\ Acts
  /\ UNCHANGED <<author, marks, socket, clients, telling, number, got, reading, present, known,
                 shown, failures>>

\* The answer holds a page, whichever: the marking does not know.
findProjectNotes(u, k) ==
  /\ Begin(k, u, Written \ removed)
  /\ Acts
  /\ UNCHANGED <<author, removed, marks, socket, clients, telling, number, got, present, known,
                 failures>>

-----------------------------------------------------------------------------
(* readAllConversation: the list of what to mark, and the marks, up to ten *)
(* at a time.  A mark that fails is only logged.                           *)

ListNotRead(k) ==
  /\ reading[k].step = "asking"
  /\ reading' = [reading EXCEPT ![k].step = "marking", ![k].todo = NotRead(reading[k].user)]
  /\ UNCHANGED <<author, removed, marks, socket, clients, telling, number, got, present, known,
                 shown, actions, failures>>

Mark(k) ==
  /\ \E m \in reading[k].todo :
       /\ reading' = [reading EXCEPT ![k].todo = @ \ {m}]
       /\ marks' = marks \cup {<<reading[k].user, m>>}
  /\ UNCHANGED <<author, removed, socket, clients, telling, number, got, present, known, shown,
                 actions, failures>>

MarkFails(k) ==
  /\ failures < MaxFailures
  /\ \E m \in reading[k].todo :
       reading' = [reading EXCEPT ![k].todo = @ \ {m}, ![k].failed = TRUE]
  /\ failures' = failures + 1
  /\ UNCHANGED <<author, removed, marks, socket, clients, telling, number, got, present, known,
                 shown, actions>>

-----------------------------------------------------------------------------
(* sendMessage: a count for every user, up to ten at a time, and the       *)
(* message with that number to each of their sockets there is by then.     *)

Count(m, u) ==
  /\ telling[m][u] = "counting"
  /\ telling' = [telling EXCEPT ![m][u] = "counted"]
  /\ number' = [number EXCEPT ![m][u] = UnreadTold(u)]
  /\ UNCHANGED <<author, removed, marks, socket, clients, got, reading, present, known, shown,
                 actions, failures>>

\* A mutant: the first that is found.
FirstClient(u) ==
  LET all == {s \in clients : Browser[s].user = u /\ socket[s] = "open"}
  IN  IF all = {} THEN {} ELSE {CHOOSE s \in all : TRUE}

ConnectedClients(u) == {s \in clients : Browser[s].user = u /\ socket[s] = "open"}

Emit(m, u) ==
  /\ telling[m][u] = "counted"
  /\ telling' = [telling EXCEPT ![m][u] = "told"]
  /\ number' = [number EXCEPT ![m][u] = {}]
  /\ got' = [s \in Sockets |-> IF s \in ConnectedClients(u) THEN got[s] \cup {m} ELSE got[s]]
  /\ UNCHANGED <<author, removed, marks, socket, clients, reading, present, known, shown,
                 actions, failures>>

\* A count, or the list of what to mark, fails: nobody handles it, and the
\* process ends.  Its sockets connect again, to an empty list.
ProcessEnds ==
  /\ failures < MaxFailures
  /\ \/ \E m \in Written, u \in Audience : telling[m][u] = "counting"
     \/ \E k \in Reads : reading[k].step = "asking"
  /\ failures' = failures + 1
  /\ socket' = [s \in Sockets |-> IF socket[s] = "open" THEN "away" ELSE socket[s]]
  /\ clients' = {}
  /\ present' = [m \in Messages |-> {}]
  /\ telling' = [m \in Messages |-> [u \in Audience |->
       IF telling[m][u] \in {"counting", "counted"} THEN "lost" ELSE telling[m][u]]]
  /\ reading' = [k \in Reads |->
       IF reading[k].step = "asking" \/ reading[k].todo # {}
         THEN [reading[k] EXCEPT !.step = "lost", !.todo = {}] ELSE reading[k]]
  /\ number' = [m \in Messages |-> [u \in Audience |-> {}]]
  /\ UNCHANGED <<author, removed, marks, got, known, shown, actions>>

Next ==
  \/ \E s \in Sockets : Connect(s) \/ Refuse(s) \/ Disconnect(s)
  \/ \E u \in Users, k \in Reads : createProjectNote(u, k) \/ findProjectNotes(u, k)
  \/ \E m \in Messages : removeNote(m)
  \/ \E k \in Reads : ListNotRead(k) \/ Mark(k) \/ MarkFails(k)
  \/ \E m \in Messages, u \in Audience : Count(m, u) \/ Emit(m, u)
  \/ ProcessEnds

Spec == Init /\ [][Next]_vars

-----------------------------------------------------------------------------
(* Properties.                                                             *)

TypeOK ==
  /\ author \in UNION {[1..n -> Users] : n \in 0..MaxMessages}
  /\ removed \subseteq Messages /\ marks \subseteq Users \X Messages
  /\ socket \in [Sockets -> {"away", "open", "gone"}] /\ clients \subseteq Sockets
  /\ telling \in [Messages -> [Audience -> {"none", "counting", "counted", "told", "lost"}]]
  /\ number \in [Messages -> [Audience -> SUBSET Messages]]
  /\ got \in [Sockets -> SUBSET Messages]
  /\ reading \in [Reads -> [user : Users \cup {None}, todo : SUBSET Messages,
                            step : {"free", "asking", "marking", "lost"}, failed : BOOLEAN]]
  /\ present \in [Messages -> SUBSET Sockets]
  /\ known \in [Messages -> SUBSET (Users \X Messages)]
  /\ shown \in [Reads -> SUBSET Messages]
  /\ actions \in 0..MaxActions /\ failures \in 0..MaxFailures

(* A socket that was there before a message was written and still is when  *)
(* its user has been told of it has got it, whoever came and went meanwhile *)
(* (chat.gateway.ts 24-56, 140-175).                                       *)
EveryoneIsTold ==
  \A m \in Written, u \in Audience : telling[m][u] = "told" =>
    \A s \in present[m] : Browser[s].user = u => m \in got[s]

(* A browser never has two sockets open (chat.gateway.ts:37).              *)
OneSocketPerBrowser ==
  \A s, t \in Sockets :
    Browser[s] = Browser[t] /\ socket[s] = "open" /\ socket[t] = "open" => s = t

(* The number that goes with a message leaves out what its user had read   *)
(* before it was written and what is their own, and misses nothing that    *)
(* was written until then and is still unread (chat.gateway.ts 111-136).   *)
NumbersAreRight ==
  \A m \in Written, u \in Audience : telling[m][u] = "counted" =>
    /\ \A x \in number[m][u] : author[x] # u /\ <<u, x>> \notin known[m]
    /\ UnreadListed(u) \cap 1..m \subseteq number[m][u]

(* What a user was answered is unread to none of the three counts once     *)
(* their marking has ended well, but for their own messages, and for those *)
(* removed in time (project.controller.ts:559, project.service.ts 2298,    *)
(* 2367-2429).                                                             *)
ReadingClears ==
  \A k \in Reads :
    LET u == reading[k].user
    IN  reading[k].step = "marking" /\ reading[k].todo = {} /\ ~reading[k].failed =>
          /\ shown[k] \cap UnreadListed(u) = {}
          /\ shown[k] \cap UnreadTold(u) \subseteq removed
          /\ \A x \in shown[k] \cap UnreadFirst(u) : author[x] = u
=============================================================================
