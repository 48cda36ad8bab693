------------------------------ MODULE RoleSeed ------------------------------
(***************************************************************************)
(* What every start-up seeds before the server listens: permissions, the   *)
(* default roles, the admin account and the reminders (SeedService), with  *)
(* servers that start side by side, admins who change roles (AdminService) *)
(* and accounts that come, change their address and go.                    *)
(*                                                                         *)
(* bootstrap awaits the seeding and nothing catches what it throws: a row  *)
(* that the database refuses ends the process, which is started again.     *)
(***************************************************************************)
EXTENDS Naturals, Sequences

CONSTANTS
  Permissions,  \* PERMISSIONS
  RoleNames,    \* the names of the default roles, and Custom
  Custom,       \* the name of a role that admins create
  ReminderIds,  \* ReminderId
  Plan,         \* what a start-up seeds, in this order: a sequence of rows
                \* [kind, name, permissions]; the permissions are those of a role
  Starters,     \* servers that start on one database
  Requests,     \* requests of admins about roles, each made once
  Changes,      \* bound on registrations, changes and removals of accounts
  Faults,       \* bound on failing statements and crashes of servers
  NoRole        \* a role that is not stored, no server

VARIABLES
  stored,       \* the names of the stored permissions and reminders
  granted,      \* the permissions of each stored role: role_permissions
  accounts,     \* the accounts that have the admin's address or number
  phase,        \* what each server does
  next,         \* the position of the row it seeds next
  asked,        \* what a request of an admin is about, and on which server
  reqStep,      \* its next await, or its answer
  diff,         \* the join rows a save() found to insert and to delete
  changes,      \* how often accounts have changed
  faults        \* how many statements have failed and servers crashed

vars == <<stored, granted, accounts, phase, next, asked, reqStep, diff, changes, faults>>

Row(s) == Plan[next[s]]

\* Accounts with ADMIN_EMAIL, or with the number an admin is created with.
AccountRows == [adminEmail : BOOLEAN, seedPhone : BOOLEAN] \
                 {[adminEmail |-> FALSE, seedPhone |-> FALSE]}

Differences == [add : SUBSET Permissions, del : SUBSET Permissions]
NoDifference == [add |-> {}, del |-> {}]

Seeding == {"find", "insert", "select", "write"}
Running == {"create", "assign", "save"}

TypeOK ==
  /\ stored \subseteq Permissions \cup ReminderIds
  /\ granted \in [RoleNames -> (SUBSET Permissions) \cup {NoRole}]
  /\ accounts \subseteq AccountRows
  /\ phase \in [Starters -> Seeding \cup {"down", "up"}]
  /\ next \in [Starters -> 1..Len(Plan)]
  /\ asked \in [Requests -> [server : Starters \cup {NoRole}, role : RoleNames,
                             permissions : SUBSET Permissions]]
  /\ reqStep \in [Requests -> Running \cup {"idle", "done", "failed"}]
  /\ diff \in [Starters \cup Requests -> Differences]
  /\ changes \in 0..Changes
  /\ faults \in 0..Faults
  /\ \A a, b \in accounts : a # b => ~(a.adminEmail /\ b.adminEmail)
                                     /\ ~(a.seedPhone /\ b.seedPhone)
  /\ \A r \in Requests : reqStep[r] \in Running => phase[asked[r].server] = "up"

Init ==
  /\ stored = {}
  /\ granted = [n \in RoleNames |-> NoRole]
  /\ accounts = {}
  /\ phase = [s \in Starters |-> "down"]
  /\ next = [s \in Starters |-> 1]
  /\ asked = [r \in Requests |-> [server |-> NoRole, role |-> Custom, permissions |-> {}]]
  /\ reqStep = [r \in Requests |-> "idle"]
  /\ diff = [x \in Starters \cup Requests |-> NoDifference]
  /\ changes = 0
  /\ faults = 0

-----------------------------------------------------------------------------
Enter(s, p) == phase' = [phase EXCEPT ![s] = p]

\* The row is seeded: go on with the next one, or listen.
RowDone(s) ==
  IF next[s] = Len(Plan)
    THEN Enter(s, "up") /\ UNCHANGED next
    ELSE Enter(s, "find") /\ next' = [next EXCEPT ![s] = @ + 1]

\* What it throws ends the process.
Throw(s) == Enter(s, "down") /\ UNCHANGED next

Boot(s) ==
  /\ phase[s] = "down"
  /\ Enter(s, "find")
  /\ next' = [next EXCEPT ![s] = 1]
  /\ UNCHANGED <<stored, granted, accounts, asked, reqStep, diff, changes, faults>>

Exists(row) ==
  \/ row.kind \in {"permission", "reminder"} /\ row.name \in stored
  \/ row.kind = "role" /\ granted[row.name] # NoRole
  \/ row.kind = "account" /\ \E a \in accounts : a.adminEmail

\* Mutant: a row is created without looking for it.
FindNothing(s) ==
  /\ phase[s] = "find"
  /\ Enter(s, "insert") /\ UNCHANGED next
  /\ UNCHANGED <<stored, granted, accounts, asked, reqStep, diff, changes, faults>>

\* A role that is there gets its default permissions again; every other row
\* that is there is left alone.
FindRow(s) ==
  /\ phase[s] = "find"
  /\ \/ ~Exists(Row(s)) /\ Enter(s, "insert") /\ UNCHANGED next
     \/ Exists(Row(s)) /\ Row(s).kind = "role" /\ Enter(s, "select") /\ UNCHANGED next
     \/ Exists(Row(s)) /\ Row(s).kind # "role" /\ RowDone(s)
  /\ UNCHANGED <<stored, granted, accounts, asked, reqStep, diff, changes, faults>>

\* The unique columns: names, the address and the number of the account.
Refused(row) == Exists(row) \/ (row.kind = "account" /\ accounts # {})

\* The INSERT, with the join rows of a role, or its refusal.  The save() of a
\* reminder, which brings its id, looks for it once more before.
InsertRow(s) ==
  /\ phase[s] = "insert"
  /\ LET row == Row(s)
     IN  \/ Refused(row) /\ Throw(s) /\ UNCHANGED <<stored, granted, accounts>>
         \/ /\ Refused(row) /\ row.kind = "reminder"
            /\ RowDone(s) /\ UNCHANGED <<stored, granted, accounts>>
         \/ /\ ~Refused(row)
            /\ RowDone(s)
            /\ stored' = IF row.kind \in {"permission", "reminder"}
                           THEN stored \cup {row.name} ELSE stored
            /\ granted' = IF row.kind = "role"
                            THEN [granted EXCEPT ![row.name] = row.permissions] ELSE granted
            /\ accounts' = IF row.kind = "account"
                             THEN {[adminEmail |-> TRUE, seedPhone |-> TRUE]} ELSE accounts
  /\ UNCHANGED <<asked, reqStep, diff, changes, faults>>

\* save() of a role: a SELECT of its join rows, and
Compare(x, name, wanted) ==
  diff' = [diff EXCEPT ![x] = [add |-> wanted \ granted[name], del |-> granted[name] \ wanted]]

\* a transaction of INSERT and DELETE, which the primary key of the join table
\* refuses as a whole when one of its rows is there by now.
Conflict(x, name) == diff[x].add \cap granted[name] # {}

SaveRole(x, name) ==
  /\ granted' = IF Conflict(x, name) THEN granted
                ELSE [granted EXCEPT ![name] = (@ \cup diff[x].add) \ diff[x].del]
  /\ diff' = [diff EXCEPT ![x] = NoDifference]

SelectRole(s) ==
  /\ phase[s] = "select"
  /\ Compare(s, Row(s).name, Row(s).permissions)
  /\ IF diff'[s] = NoDifference THEN RowDone(s) ELSE Enter(s, "write") /\ UNCHANGED next
  /\ UNCHANGED <<stored, granted, accounts, asked, reqStep, changes, faults>>

WriteRole(s) ==
  /\ phase[s] = "write"
  /\ SaveRole(s, Row(s).name)
  /\ IF Conflict(s, Row(s).name) THEN Throw(s) ELSE RowDone(s)
  /\ UNCHANGED <<stored, accounts, asked, reqStep, changes, faults>>

StartUp(s) == Boot(s) \/ FindRow(s) \/ InsertRow(s) \/ SelectRole(s) \/ WriteRole(s)

\* A statement of the seeding fails, or the process dies with its requests.
Crash(s) ==
  /\ phase[s] # "down"
  /\ faults < Faults
  /\ faults' = faults + 1
  /\ Throw(s)
  /\ reqStep' = [r \in Requests |-> IF reqStep[r] \in Running /\ asked[r].server = s
                                    THEN "failed" ELSE reqStep[r]]
  /\ UNCHANGED <<stored, granted, accounts, asked, diff, changes>>

-----------------------------------------------------------------------------
Goto(r, s) == reqStep' = [reqStep EXCEPT ![r] = s]

\* A request about a role arrives at a server that listens.
Ask(r, name, given, s) ==
  /\ reqStep[r] = "idle"
  /\ \E server \in Starters :
       /\ phase[server] = "up"
       /\ asked' = [asked EXCEPT ![r] = [server |-> server, role |-> name,
                                         permissions |-> given]]
  /\ Goto(r, s)
  /\ UNCHANGED <<stored, granted, accounts, phase, next, diff, changes, faults>>

\* createRole: 409 when the name is there, as those of the default roles are.
\* The permissions, of which there is at least one, exist.
CreateRole(r) ==
  \E given \in (SUBSET Permissions) \ {{}} :
    Ask(r, Custom, given, IF granted[Custom] = NoRole THEN "create" ELSE "failed")

InsertRole(r) ==
  /\ reqStep[r] = "create"
  /\ IF granted[Custom] # NoRole THEN Goto(r, "failed") /\ UNCHANGED granted
     ELSE /\ granted' = [granted EXCEPT ![Custom] = asked[r].permissions]
          /\ Goto(r, "done")
  /\ UNCHANGED <<stored, accounts, phase, next, asked, diff, changes, faults>>

\* assignPermissionsToRole: 404 without the role.
AssignPermissionsToRole(r) ==
  \E name \in RoleNames : \E given \in SUBSET Permissions :
    Ask(r, name, given, IF granted[name] = NoRole THEN "failed" ELSE "assign")

SelectAssigned(r) ==
  /\ reqStep[r] = "assign"
  /\ Compare(r, asked[r].role, asked[r].permissions)
  /\ Goto(r, IF diff'[r] = NoDifference THEN "done" ELSE "save")
  /\ UNCHANGED <<stored, granted, accounts, phase, next, asked, changes, faults>>

SaveAssigned(r) ==
  /\ reqStep[r] = "save"
  /\ SaveRole(r, asked[r].role)
  /\ Goto(r, IF Conflict(r, asked[r].role) THEN "failed" ELSE "done")
  /\ UNCHANGED <<stored, accounts, phase, next, asked, changes, faults>>

RequestFails(r) ==
  /\ reqStep[r] \in Running
  /\ Goto(r, "failed")
  /\ UNCHANGED <<stored, granted, accounts, phase, next, asked, diff, changes, faults>>

-----------------------------------------------------------------------------
\* Accounts change while some server listens; no two have the same address or
\* the same number.
AccountsBecome(new) ==
  /\ \E s \in Starters : phase[s] = "up"
  /\ changes < Changes
  /\ changes' = changes + 1
  /\ accounts' = new
  /\ UNCHANGED <<stored, granted, phase, next, asked, reqStep, diff, faults>>

Free(new, others) ==
  \A a \in others : ~(a.adminEmail /\ new.adminEmail) /\ ~(a.seedPhone /\ new.seedPhone)

RegisterAccount ==
  \E new \in AccountRows : Free(new, accounts) /\ AccountsBecome(accounts \cup {new})

\* changeAdminCredentials: the admin's account gets another address, or one
\* with another address that of the admin.  The number stays.
ChangeAddress ==
  \E a \in accounts :
    LET new == [a EXCEPT !.adminEmail = ~@]
    IN  /\ Free(new, accounts \ {a})
        /\ AccountsBecome((accounts \ {a}) \cup ({new} \cap AccountRows))

RemoveAccount == \E a \in accounts : AccountsBecome(accounts \ {a})

Next ==
  \/ \E s \in Starters : StartUp(s) \/ Crash(s)
  \/ \E r \in Requests :
       \/ CreateRole(r) \/ InsertRole(r)
       \/ AssignPermissionsToRole(r) \/ SelectAssigned(r) \/ SaveAssigned(r)
       \/ RequestFails(r)
  \/ RegisterAccount \/ ChangeAddress \/ RemoveAccount

\* docker-compose restarts the server, and its start-up goes on by itself.
Fairness == \A s \in Starters : WF_vars(StartUp(s))

Spec == Init /\ [][Next]_vars /\ Fairness

-----------------------------------------------------------------------------
\* No account has ADMIN_EMAIL, and one has the number of the admin to create:
\* so it is after changeAdminCredentials has given the admin a new address.
LockedOut ==
  /\ \A a \in accounts : ~a.adminEmail
  /\ \E a \in accounts : a.seedPhone

\* seedDatabase: whatever servers that start side by side, admins, failures and
\* crashes leave behind, every server comes up again and again, unless the
\* number of the admin it would create is taken.
EveryServerStarts == \A s \in Starters : []<>(phase[s] = "up" \/ LockedOut)
=============================================================================
