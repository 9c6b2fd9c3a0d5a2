----------------------------- MODULE Notifications -----------------------------
(***************************************************************************)
(* How people learn of things: the queue of what is sent to them           *)
(* (NotificationQueue), the notifications they find unread (Announcements) *)
(* and the conversation of a project (Conversation).  They share no state, *)
(* so each behaviour is one of them, chosen at the beginning.              *)
(***************************************************************************)
EXTENDS NotificationQueue

CONSTANTS
  Users, None, MaxFailures,
  DepartmentOf, Readers, MaxSent, MaxRequests,                  \* of notifications
  Audience, Sockets, Browser, MaxReads, MaxMessages, MaxActions \* of the conversation

VARIABLES
  which,
  sent, halfway, removed, unread, read, reading, before, requests, failures,
  author, deleted, marks, socket, clients, telling, number, got, marking, present, known, shown,
  actions, cFailures

noticeVars == <<sent, halfway, removed, unread, read, reading, before, requests, failures>>
chatVars ==
  <<author, deleted, marks, socket, clients, telling, number, got, marking, present, known,
    shown, actions, cFailures>>

Notices == INSTANCE Announcements

Chat == INSTANCE Conversation WITH removed <- deleted, reading <- marking, failures <- cFailures

NotificationsInit ==
  /\ which \in {"queue", "notice", "chat"}
  /\ Init /\ Notices!Init /\ Chat!Init

NotificationsNext ==
  \/ which = "queue" /\ Next /\ UNCHANGED <<which, noticeVars, chatVars>>
  \/ which = "notice" /\ Notices!Next /\ UNCHANGED <<which, vars, chatVars>>
  \/ which = "chat" /\ Chat!Next /\ UNCHANGED <<which, vars, noticeVars>>

NotificationsSpec ==
  NotificationsInit /\ [][NotificationsNext]_<<which, vars, noticeVars, chatVars>>

\* The fairness is that of the queue.
FairNotificationsSpec == NotificationsSpec /\ Fairness

(* Whoever is connected is told of every message, once in every browser,   *)
(* with the right numbers, and reading clears them; nobody misses a        *)
(* notification or sees that of others, but for the causes Conversation    *)
(* and Announcements name.                                                 *)
NothingIsMissed ==
  /\ which = "chat" => /\ Chat!EveryoneIsTold /\ Chat!OneSocketPerBrowser
                      /\ Chat!NumbersAreRight /\ Chat!ReadingClears
  /\ which = "notice" =>
       Notices!NobodyIsForgotten /\ Notices!OnlyForThose /\ Notices!ReadingAllClears
-----------------------------------------------------------------------------
(* What TLC checks: one event of each kind of handler; two people of        *)
(* different departments; two tabs of one browser and another browser, of  *)
(* the first of them: the second may write, and is not told.               *)
MCKind ==
  [hold |-> "always", newProject |-> "success", quotation |-> "never", added |-> "members"]

MCDepartmentOf == [u1 |-> "d1", u2 |-> "d2"]

MCBrowser == [s \in Sockets |-> [user |-> "u1", name |-> IF s = "s3" THEN 2 ELSE 1]]
=============================================================================
