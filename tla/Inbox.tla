------------------------------- MODULE Inbox -------------------------------
(***************************************************************************)
(* The notifications of the history as users see them: read marks, cleared *)
(* marks, and their deletion (NotificationsService).                       *)
(*                                                                         *)
(* A mark is a row per user and notification, written by a save() of a     *)
(* plain object: a SELECT by the primary key and then an INSERT, or an     *)
(* UPDATE of the columns it brings that differ.                            *)
(***************************************************************************)
EXTENDS FiniteSets, Naturals

CONSTANTS
  Readers,  \* users
  Items,    \* ids of notifications
  Marks,    \* requests of users, each made once
  NoUser    \* the user of a request that has not begun

VARIABLES
  readers,   \* the rows of the user table
  items,     \* the notification rows
  used,      \* the ids given out: they are never given again
  status,    \* the status row of each user and notification
  markStep,  \* what a request does next, or how it ended
  marker,    \* its user
  clears,    \* whether it brings isCleared beside isRead
  targets,   \* the notifications it is about
  inserts,   \* those of which its SELECT found no status row
  answered   \* history: what has been answered as cleared

vars == <<readers, items, used, status, markStep, marker, clears, targets, inserts, answered>>

Running == {"findall", "select", "write"}

\* No row, or a row that is unread, read or cleared (and read).
StatusRows == {"none", "unread", "read", "cleared"}

TypeOK ==
  /\ readers \subseteq Readers
  /\ items \subseteq used
  /\ used \subseteq Items
  /\ status \in [Readers \X Items -> StatusRows]
  /\ markStep \in [Marks -> Running \cup {"idle", "done", "error"}]
  /\ marker \in [Marks -> Readers \cup {NoUser}]
  /\ clears \in [Marks -> BOOLEAN]
  /\ {targets, inserts} \subseteq [Marks -> SUBSET Items]
  /\ answered \subseteq Readers \X Items
  /\ \A u \in Readers : \A n \in Items : status[<<u, n>>] # "none" => u \in readers /\ n \in items
  /\ \A m \in Marks : inserts[m] \subseteq targets[m]

Init ==
  /\ readers = Readers
  /\ items = {}
  /\ used = {}
  /\ status = [p \in Readers \X Items |-> "none"]
  /\ markStep = [m \in Marks |-> "idle"]
  /\ marker = [m \in Marks |-> NoUser]
  /\ clears = [m \in Marks |-> FALSE]
  /\ targets = [m \in Marks |-> {}]
  /\ inserts = [m \in Marks |-> {}]
  /\ answered = {}

-----------------------------------------------------------------------------
\* A broadcast has saved its history row.
Record(n) ==
  /\ n \notin used
  /\ used' = used \cup {n}
  /\ items' = items \cup {n}
  /\ UNCHANGED <<readers, status, markStep, marker, clears, targets, inserts, answered>>

Goto(m, s) == markStep' = [markStep EXCEPT ![m] = s]

Ask(m, u, first, clear, T) ==
  /\ markStep[m] = "idle"
  /\ u \in readers
  /\ Goto(m, first)
  /\ marker' = [marker EXCEPT ![m] = u]
  /\ clears' = [clears EXCEPT ![m] = clear]
  /\ targets' = [targets EXCEPT ![m] = T]
  /\ UNCHANGED <<readers, items, used, status, inserts, answered>>

\* The id is the client's: the notification may be gone by now.
MarkNotificationAsRead(m, u) == \E n \in used : Ask(m, u, "select", FALSE, {n})

ClearNotificationForUser(m, u) == \E n \in used : Ask(m, u, "select", TRUE, {n})

ClearAllNotificationsForUser(m, u) == Ask(m, u, "findall", TRUE, {})

\* All notifications there are; the ones the user has cleared as well.
FindAll(m) ==
  /\ markStep[m] = "findall"
  /\ targets' = [targets EXCEPT ![m] = items]
  /\ Goto(m, IF items = {} THEN "done" ELSE "select")
  /\ UNCHANGED <<readers, items, used, status, marker, clears, inserts, answered>>

SelectStatus(m) ==
  /\ markStep[m] = "select"
  /\ inserts' = [inserts EXCEPT ![m] = {n \in targets[m] : status[<<marker[m], n>>] = "none"}]
  /\ Goto(m, "write")
  /\ UNCHANGED <<readers, items, used, status, marker, clears, targets, answered>>

\* An INSERT fails on the primary key when the row is there by now, and on a
\* foreign key when the user or the notification is gone.
Refused(m) ==
  \E n \in inserts[m] :
    \/ status[<<marker[m], n>>] # "none"
    \/ marker[m] \notin readers
    \/ n \notin items

\* Mutant: a status that is read is saved with its default, not cleared.
WithDefault(old, clear) == IF clear THEN "cleared" ELSE "read"

\* The columns that the request brings; the others stay.
With(old, clear) == IF clear \/ old = "cleared" THEN "cleared" ELSE "read"

\* The statements of one save() are one transaction: one that fails undoes
\* them all.  An UPDATE touches nothing when its row is gone.
WriteStatus(m) ==
  /\ markStep[m] = "write"
  /\ IF Refused(m) THEN Goto(m, "error") /\ UNCHANGED <<status, answered>>
     ELSE /\ status' = [p \in Readers \X Items |->
               IF p[1] = marker[m] /\ p[2] \in targets[m]
                  /\ (p[2] \in inserts[m] \/ status[p] # "none")
               THEN With(status[p], clears[m]) ELSE status[p]]
          /\ Goto(m, "done")
          /\ answered' = IF clears[m] THEN answered \cup ({marker[m]} \X targets[m])
                         ELSE answered
  /\ UNCHANGED <<readers, items, used, marker, clears, targets, inserts>>

MarkFails(m) ==
  /\ markStep[m] \in Running
  /\ Goto(m, "error")
  /\ UNCHANGED <<readers, items, used, status, marker, clears, targets, inserts, answered>>

\* Mutant: the notification goes and the status rows stay.
DeleteItemOnly(n) ==
  /\ n \in items
  /\ items' = items \ {n}
  /\ UNCHANGED <<readers, used, status, markStep, marker, clears, targets, inserts, answered>>

\* The status rows of a deleted notification, or user, are deleted with it.
DeleteNotification(n) ==
  /\ n \in items
  /\ items' = items \ {n}
  /\ status' = [p \in Readers \X Items |-> IF p[2] = n THEN "none" ELSE status[p]]
  /\ UNCHANGED <<readers, used, markStep, marker, clears, targets, inserts, answered>>

RemoveUser(u) ==
  /\ u \in readers
  /\ readers' = readers \ {u}
  /\ status' = [p \in Readers \X Items |-> IF p[1] = u THEN "none" ELSE status[p]]
  /\ UNCHANGED <<items, used, markStep, marker, clears, targets, inserts, answered>>

Next ==
  \/ \E n \in Items : Record(n) \/ DeleteNotification(n)
  \/ \E u \in Readers :
       \/ RemoveUser(u)
       \/ \E m \in Marks : \/ MarkNotificationAsRead(m, u)
                          \/ ClearNotificationForUser(m, u)
                          \/ ClearAllNotificationsForUser(m, u)
  \/ \E m \in Marks : FindAll(m) \/ SelectStatus(m) \/ WriteStatus(m) \/ MarkFails(m)

Spec == Init /\ [][Next]_vars

-----------------------------------------------------------------------------
\* getNotificationsForUser: what the user sees.
Visible(u) == {n \in items : status[<<u, n>>] # "cleared"}

\* What a user has been told is cleared stays out of the list, however reads
\* and clears of it overlap, and none of another user's is cleared with it.
ClearedStaysCleared ==
  \A u \in readers : \A n \in items : <<u, n>> \in answered <=> n \notin Visible(u)
=============================================================================
