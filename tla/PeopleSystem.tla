---------------------------- MODULE PeopleSystem ----------------------------
(***************************************************************************)
(* Acceptance, Sessions and Accounts side by side: a behaviour is one of   *)
(* the three, and the two others stay as they are.  The three meet only in *)
(* the user table, whose rows any of them may see deleted.                 *)
(***************************************************************************)
EXTENDS Acceptance, FiniteSets

CONSTANTS
  Logins,                \* login requests
  People, Ids,           \* people who may have accounts, ids of the accounts
  Initial,               \* the password an account has at first
  Lifetime, MaxNow       \* of a one-time code; bound on the clock

VARIABLES
  part,                                                  \* which of the three
  s_users, session, s_who, s_step, s_overlapped,         \* Sessions
  rows, now, kind, person, given, target, attrs,         \* Accounts
  entity, changed, a_step, promised, a_overlapped

ASSUME ChangesAssumption == Changes \in Nat
ASSUME LoginsAssumption  == IsFiniteSet(Logins)
ASSUME NullAssumption    == None \notin Users \cup People \cup Ids \cup Requests \cup {Initial}
ASSUME ClockAssumption   == Lifetime \in Nat /\ MaxNow \in Nat

\* login counts the sessions of those whose account has the role USER.
Members == {u \in Users : Role[u] = "USER"}

Sessions == INSTANCE Sessions WITH
  users <- s_users, who <- s_who, step <- s_step, overlapped <- s_overlapped

Accounts == INSTANCE Accounts WITH step <- a_step, overlapped <- a_overlapped

sessionVars == <<s_users, session, s_who, s_step, s_overlapped>>
accountVars == <<rows, now, kind, person, given, target, attrs, entity, changed,
                 a_step, promised, a_overlapped>>
peopleVars  == <<part, sessionVars, vars, accountVars>>

PeopleInit ==
  /\ part \in {"sessions", "acceptance", "accounts"}
  /\ Sessions!Init
  /\ Init
  /\ Accounts!Init

PeopleNext ==
  \/ /\ part = "sessions" /\ Sessions!Next
     /\ UNCHANGED <<part, vars, accountVars>>
  \/ /\ part = "acceptance" /\ Next
     /\ UNCHANGED <<part, sessionVars, accountVars>>
  \/ /\ part = "accounts" /\ Accounts!Next
     /\ UNCHANGED <<part, sessionVars, vars>>

PeopleSpec == PeopleInit /\ [][PeopleNext]_peopleVars

-----------------------------------------------------------------------------
\* The variables of each of the three have the types it states.
TypesOK == TypeOK /\ Sessions!TypeOK /\ Accounts!TypeOK

\* login: no more than three sessions, unless logins of the user overlap.
LimitUnlessOverlapping == Sessions!LimitUnlessOverlapping

\* The user table: no address and no social identity in two accounts.
OneAccountPerPerson == Accounts!OneAccountPerPerson

\* UsersService.update: without overlaps, the rows are what the answers said.
AnswersHold == Accounts!AnswersHold

\* Not so: logins of one user may overlap.
AtMostThreeSessions == Sessions!AtMostThreeSessions
=============================================================================
