----------------------------- MODULE Acceptance -----------------------------
(***************************************************************************)
(* Accepting the privacy policy and the terms of service: recordAcceptance *)
(* and accept, the guards that ask for an acceptance, and the flags that   *)
(* login and refreshAccessToken sign into a token.                         *)
(*                                                                         *)
(* Every one of them reads which version is in force and, an await later,  *)
(* whether the user has accepted that version.  An admin may put another   *)
(* version in force at any time (PolicyFlags has the steps of that).       *)
(***************************************************************************)
EXTENDS Naturals

CONSTANTS
  Users,     \* everybody who may have an account
  Role,      \* the role of each user's account
  Versions,  \* the versions of either document
  Requests,  \* requests, each used once
  Changes,   \* bound: how often an admin puts a version in or out of force
  None       \* no version, no user

Documents == {"privacy", "terms"}
Routes    == {"login", "acceptPrivacy", "acceptTerms", "profile", "other"}

\* @Roles of the routes behind RolesGuard.  The terms are accepted behind
\* JwtAuthGuard alone; login has no guard that looks at the token.
RequiredRoles ==
  [r \in {"acceptPrivacy", "profile", "other"} |->
     IF r = "acceptPrivacy" THEN {"USER", "GUEST"} ELSE {"USER"}]

VARIABLES
  users,     \* the rows of the user table
  changes,   \* how often an admin has changed what is in force
  inForce,   \* the version of each document that is active and mandatory
  accepted,  \* the acceptance rows of each document
  route,     \* what a request asks for
  who,       \* whose token, or credentials, it carries
  user,      \* request.user
  task,      \* why it reads the acceptances
  doc,       \* of which document
  step,      \* its next await, or how it ended
  found,     \* the version it has found in force
  flagged,   \* the documents its token will say are still to be accepted
  seen       \* history: the versions in force since it began

request == <<route, who>>
rules   == <<changes, inForce>>
vars == <<users, changes, inForce, accepted, request, user, task, doc, step, found,
          flagged, seen>>

Tasks    == {"guard", "accept", "flag"}
Awaits   == {"global", "jwt", "roles", "mandatory", "accepted", "findUser", "insert",
             "refresh"}
Refusals == {"unauthorized", "forbidden", "nothing", "conflict", "notFound", "error"}
Answers  == {"token", "served"} \cup Refusals

TypeOK ==
  /\ users \subseteq Users
  /\ changes \in 0..Changes
  /\ inForce \in [Documents -> Versions \cup {None}]
  /\ accepted \in [Documents -> SUBSET (Users \X Versions)]
  /\ \A d \in Documents : \A a \in accepted[d] : a[1] \in users
  /\ route \in [Requests -> Routes]
  /\ who \in [Requests -> Users \cup {None}]
  /\ user \in [Requests -> Users \cup {None}]
  /\ task \in [Requests -> Tasks]
  /\ doc \in [Requests -> Documents]
  /\ step \in [Requests -> Awaits \cup Answers \cup {"idle"}]
  /\ found \in [Requests -> Versions \cup {None}]
  /\ flagged \in [Requests -> SUBSET Documents]
  /\ seen \in [Requests -> [Documents -> SUBSET (Versions \cup {None})]]

Init ==
  /\ users = Users
  /\ changes = 0
  /\ inForce \in [Documents -> Versions \cup {None}]
  /\ accepted = [d \in Documents |-> {}]
  /\ route = [r \in Requests |-> "login"]
  /\ who = [r \in Requests |-> None]
  /\ user = [r \in Requests |-> None]
  /\ task = [r \in Requests |-> "flag"]
  /\ doc = [r \in Requests |-> "privacy"]
  /\ step = [r \in Requests |-> "idle"]
  /\ found = [r \in Requests |-> None]
  /\ flagged = [r \in Requests |-> {}]
  /\ seen = [r \in Requests |-> [d \in Documents |-> {}]]

-----------------------------------------------------------------------------
HasAccepted(u, d, v) == <<u, v>> \in accepted[d]

Running(r) == step[r] \in Awaits

\* What the request waits for next.
Goto(r, t, d, s) ==
  /\ task' = [task EXCEPT ![r] = t]
  /\ doc' = [doc EXCEPT ![r] = d]
  /\ step' = [step EXCEPT ![r] = s]

End(r, answer) == Goto(r, task[r], doc[r], answer)

Begin(r, u, path) ==
  /\ step[r] = "idle"
  /\ route' = [route EXCEPT ![r] = path]
  /\ who' = [who EXCEPT ![r] = u]
  /\ seen' = [seen EXCEPT ![r] = [d \in Documents |-> {inForce[d]}]]
  /\ Goto(r, "guard", "privacy", "global")
  /\ UNCHANGED <<users, rules, accepted, user, found, flagged>>

(***************************************************************************)
(* PolicyAcceptanceGuard and PolicyTosAcceptanceGuard, the global guards:  *)
(* they would ask for the acceptances of request.user, but global guards   *)
(* run before the route's JwtAuthGuard, and "if no user, skip".            *)
(* The password route authenticates by itself and goes on to login.        *)
(***************************************************************************)
PolicyAcceptanceGuardSkips(r)    == user[r] = None
PolicyTosAcceptanceGuardSkips(r) == user[r] = None

GlobalGuards(r) ==
  /\ step[r] = "global"
  /\ PolicyAcceptanceGuardSkips(r) /\ PolicyTosAcceptanceGuardSkips(r)
  /\ IF route[r] # "login" THEN Goto(r, "guard", "privacy", "jwt")
     ELSE IF who[r] \notin users THEN End(r, "unauthorized")
     ELSE IF Role[who[r]] = "USER" THEN Goto(r, "flag", "privacy", "mandatory")
     ELSE Goto(r, "flag", "privacy", "token")
  /\ UNCHANGED <<users, rules, accepted, request, user, found, flagged, seen>>

\* JwtAuthGuard trusts the token, whether or not its user still exists.
JwtAuthGuard(r) ==
  /\ step[r] = "jwt"
  /\ user' = [user EXCEPT ![r] = who[r]]
  /\ IF route[r] = "acceptTerms" THEN Goto(r, "accept", "terms", "mandatory")
                                 ELSE Goto(r, "guard", "terms", "roles")
  /\ UNCHANGED <<users, rules, accepted, request, found, flagged, seen>>

\* Only the profile has TermsOfServiceGuard after it.
RolesGuard(r) ==
  /\ step[r] = "roles"
  /\ IF Role[user[r]] \notin RequiredRoles[route[r]] THEN End(r, "forbidden")
     ELSE IF route[r] = "profile" THEN Goto(r, "guard", "terms", "mandatory")
     ELSE IF route[r] = "acceptPrivacy" THEN Goto(r, "accept", "privacy", "mandatory")
     ELSE End(r, "served")
  /\ UNCHANGED <<users, rules, accepted, request, user, found, flagged, seen>>

(***************************************************************************)
(* What follows once it is known that the version found in force has been  *)
(* accepted (or that none is in force) or has not.                         *)
(***************************************************************************)
NextFlag(r) == IF doc[r] = "privacy" THEN Goto(r, "flag", "terms", "mandatory")
                                     ELSE End(r, "token")

NoneInForce(r) ==
  \/ task[r] = "guard" /\ End(r, "served")
  \/ task[r] = "accept" /\ doc[r] = "privacy" /\ End(r, "nothing")
  \/ task[r] = "accept" /\ doc[r] = "terms" /\ Goto(r, "flag", "privacy", "refresh")
  \/ task[r] = "flag" /\ NextFlag(r)

Already(r) ==
  \/ task[r] = "guard" /\ End(r, "served")
  \/ task[r] = "accept" /\ doc[r] = "privacy" /\ End(r, "conflict")
  \/ task[r] = "accept" /\ doc[r] = "terms" /\ Goto(r, "flag", "privacy", "refresh")
  \/ task[r] = "flag" /\ NextFlag(r)

NotYet(r) ==
  \/ task[r] = "guard" /\ End(r, "forbidden")
  \/ task[r] = "accept" /\ doc[r] = "privacy" /\ Goto(r, "accept", "privacy", "findUser")
  \/ task[r] = "accept" /\ doc[r] = "terms" /\ Goto(r, "accept", "terms", "insert")
  \/ task[r] = "flag" /\ NextFlag(r)

\* getCurrentMandatoryPolicy, findActiveMandatory.
ReadMandatory(r) ==
  /\ step[r] = "mandatory"
  /\ found' = [found EXCEPT ![r] = inForce[doc[r]]]
  /\ IF inForce[doc[r]] = None THEN NoneInForce(r) ELSE Goto(r, task[r], doc[r], "accepted")
  /\ UNCHANGED <<users, rules, accepted, request, user, flagged, seen>>

\* Mutant: whoever has accepted some version counts as having accepted.
CountAnyAcceptance(r) ==
  LET has == \E v \in Versions : HasAccepted(who[r], doc[r], v) IN
  /\ step[r] = "accepted"
  /\ IF has THEN Already(r) ELSE NotYet(r)
  /\ flagged' = [flagged EXCEPT ![r] =
       IF ~has /\ task[r] = "flag" THEN @ \cup {doc[r]} ELSE @]
  /\ UNCHANGED <<users, rules, accepted, request, user, found, seen>>

\* Mutant: the flag says whether the acceptance is there, not whether it lacks.
CountForFlagInverted(r) ==
  LET has == HasAccepted(who[r], doc[r], found[r]) IN
  /\ step[r] = "accepted"
  /\ IF has THEN Already(r) ELSE NotYet(r)
  /\ flagged' = [flagged EXCEPT ![r] =
       IF has /\ task[r] = "flag" THEN @ \cup {doc[r]} ELSE @]
  /\ UNCHANGED <<users, rules, accepted, request, user, found, seen>>

\* hasUserAcceptedPolicy, hasUserAccepted: of the version found before.
CountAcceptance(r) ==
  LET has == HasAccepted(who[r], doc[r], found[r]) IN
  /\ step[r] = "accepted"
  /\ IF has THEN Already(r) ELSE NotYet(r)
  /\ flagged' = [flagged EXCEPT ![r] =
       IF ~has /\ task[r] = "flag" THEN @ \cup {doc[r]} ELSE @]
  /\ UNCHANGED <<users, rules, accepted, request, user, found, seen>>

\* recordAcceptance loads the user before it builds the row.
FindUser(r) ==
  /\ step[r] = "findUser"
  /\ IF who[r] \in users THEN Goto(r, task[r], doc[r], "insert") ELSE End(r, "notFound")
  /\ UNCHANGED <<users, rules, accepted, request, user, found, flagged, seen>>

\* Mutant: accepting records every version.
InsertEveryVersion(r) ==
  /\ step[r] = "insert"
  /\ IF who[r] \in users
       THEN /\ accepted' = [accepted EXCEPT ![doc[r]] = @ \cup {who[r]} \X Versions]
            /\ Goto(r, "flag", "privacy", "refresh")
       ELSE End(r, "error") /\ UNCHANGED accepted
  /\ UNCHANGED <<users, rules, request, user, found, flagged, seen>>

\* The user must exist, and one row per user and version is unique: of two
\* requests that accept the same version the second fails.
InsertAcceptance(r) ==
  /\ step[r] = "insert"
  /\ IF who[r] \in users /\ ~HasAccepted(who[r], doc[r], found[r])
       THEN /\ accepted' = [accepted EXCEPT ![doc[r]] = @ \cup {<<who[r], found[r]>>}]
            /\ Goto(r, "flag", "privacy", "refresh")
       ELSE End(r, "error") /\ UNCHANGED accepted
  /\ UNCHANGED <<users, rules, request, user, found, flagged, seen>>

\* refreshAccessToken: the flags are computed again, for the role USER.
RefreshAccessToken(r) ==
  /\ step[r] = "refresh"
  /\ IF who[r] \notin users THEN End(r, "unauthorized")
     ELSE IF Role[who[r]] = "USER" THEN Goto(r, "flag", "privacy", "mandatory")
     ELSE End(r, "token")
  /\ UNCHANGED <<users, rules, accepted, request, user, found, flagged, seen>>

-----------------------------------------------------------------------------
\* A committed change of the flags by an admin: see PolicyFlags.
Enforce(d, v) ==
  /\ changes < Changes
  /\ changes' = changes + 1
  /\ inForce[d] # v
  /\ inForce' = [inForce EXCEPT ![d] = v]
  /\ seen' = [r \in Requests |->
       IF Running(r) THEN [seen[r] EXCEPT ![d] = @ \cup {v}] ELSE seen[r]]
  /\ UNCHANGED <<users, accepted, request, user, task, doc, step, found, flagged>>

\* The acceptances of a deleted user are deleted with it.
RemoveUser(u) ==
  /\ u \in users
  /\ users' = users \ {u}
  /\ accepted' = [d \in Documents |-> {a \in accepted[d] : a[1] # u}]
  /\ UNCHANGED <<rules, request, user, task, doc, step, found, flagged, seen>>

Handle(r) ==
  \/ GlobalGuards(r)
  \/ JwtAuthGuard(r)
  \/ RolesGuard(r)
  \/ ReadMandatory(r)
  \/ CountAcceptance(r)
  \/ FindUser(r)
  \/ InsertAcceptance(r)
  \/ RefreshAccessToken(r)

Next ==
  \/ \E r \in Requests : Handle(r) \/ \E u \in Users, path \in Routes : Begin(r, u, path)
  \/ \E d \in Documents, v \in Versions \cup {None} : Enforce(d, v)
  \/ \E u \in Users : RemoveUser(u)

Spec == Init /\ [][Next]_vars

-----------------------------------------------------------------------------
\* At some moment of the request its user had nothing left to accept of d.
Complied(r, d) ==
  \/ None \in seen[r][d]
  \/ \E v \in seen[r][d] : HasAccepted(who[r], d, v)
  \/ who[r] \notin users

\* A token of a USER leaves out a flag only if, at some moment while it was
\* made, the user had accepted the version in force or none was: the two
\* reads of login and refreshAccessToken, an await apart, do not combine into
\* something that never was.
TokensTruthful ==
  \A r \in Requests :
    step[r] = "token" /\ Role[who[r]] = "USER" =>
      \A d \in Documents \ flagged[r] : Complied(r, d)

\* Nobody sees or deletes the profile without having accepted the terms that
\* were in force at some moment of the request: TermsOfServiceGuard.
ProfileOnlyAfterTerms ==
  \A r \in Requests :
    step[r] = "served" /\ route[r] = "profile" => Complied(r, "terms")

\* An acceptance is only ever recorded of a version that was in force while
\* its user was accepting: recordAcceptance and accept hold on to the version
\* they have read, whatever an admin does before the row is inserted.
AcceptedWhileInForce ==
  [][\A d \in Documents : \A a \in accepted'[d] \ accepted[d] :
       \E r \in Requests : who[r] = a[1] /\ a[2] \in seen[r][d]]_vars

\* "Set to true to force users to accept this policy", says the DTO of the
\* mandatory flag; "You must accept the latest privacy policy to continue",
\* says the global guard.
MandatoryEnforced ==
  \A r \in Requests :
    step[r] = "served" => \A d \in Documents : Complied(r, d)
=============================================================================
