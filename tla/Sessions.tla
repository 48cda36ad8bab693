------------------------------ MODULE Sessions ------------------------------
(***************************************************************************)
(* Logins and the sessions they create: AuthService.login behind its four  *)
(* entrances, logout and the forced logout.                                *)
(*                                                                         *)
(* login counts the active sessions of the user, reads the policies and    *)
(* then inserts a session; each of these is an await, and nothing keeps    *)
(* two logins of one user apart.                                           *)
(***************************************************************************)
EXTENDS FiniteSets, Naturals

CONSTANTS
  Users,    \* everybody who may have an account
  Members,  \* those whose account has the role USER
  Logins,   \* login requests, each of which creates at most one session
  None      \* the user of a request that has not begun

VARIABLES
  users,       \* the rows of the user table
  session,     \* the session row of each login request
  who,         \* the user a request has authenticated
  step,        \* what the request does next, or how it ended
  overlapped   \* history: users two of whose logins have run at once

vars == <<users, session, who, step, overlapped>>

Running   == {"devices", "count", "save"}
Answers   == {"token", "refused", "error"}

SessionLimit == 3

TypeOK ==
  /\ users \subseteq Users
  /\ session \in [Logins -> {"none", "active", "ended"}]
  /\ who \in [Logins -> Users \cup {None}]
  /\ step \in [Logins -> Running \cup Answers \cup {"idle"}]
  /\ overlapped \subseteq Users
  /\ \A l \in Logins : who[l] = None <=> step[l] = "idle"
  /\ \A l \in Logins : session[l] # "none" => step[l] = "token" /\ who[l] \in users

Init ==
  /\ users = Users
  /\ session = [l \in Logins |-> "none"]
  /\ who = [l \in Logins |-> None]
  /\ step = [l \in Logins |-> "idle"]
  /\ overlapped = {}

-----------------------------------------------------------------------------
Active(u) == {l \in Logins : who[l] = u /\ session[l] = "active"}

InFlight(u) == {l \in Logins : who[l] = u /\ step[l] \in Running}

\* login counts sessions only for the role USER.
FirstOfLogin(u) == IF u \in Members THEN "count" ELSE "save"

Begin(l, u, first) ==
  /\ step[l] = "idle"
  /\ u \in users
  /\ who' = [who EXCEPT ![l] = u]
  /\ step' = [step EXCEPT ![l] = first]
  /\ overlapped' = IF InFlight(u) = {} THEN overlapped ELSE overlapped \cup {u}
  /\ UNCHANGED <<users, session>>

\* LocalAuthGuard has found the user and compared the password.
PasswordLogin(l, u) == Begin(l, u, "devices")

\* Google has verified the token of the app, and the account is there (or is
\* created: Accounts).  It counts the devices as the password route does.
LoginWithGoogleMobile(l, u) == Begin(l, u, "devices")

\* The callbacks of Google and Facebook, and the guest's token, do not count
\* the devices.
RedirectLogin(l, u) == Begin(l, u, FirstOfLogin(u))

GuestToken(l, u) == u \notin Members /\ Begin(l, u, FirstOfLogin(u))

\* checkDeviceLimit: the user has three devices or more, or has not.
CheckDeviceLimit(l) ==
  /\ step[l] = "devices"
  /\ \E reached \in BOOLEAN :
       step' = [step EXCEPT ![l] = IF reached THEN "refused" ELSE FirstOfLogin(who[l])]
  /\ UNCHANGED <<users, session, who, overlapped>>

\* Mutant: the limit is compared with > instead of >=.
CountSessionsOffByOne(l) ==
  /\ step[l] = "count"
  /\ step' = [step EXCEPT ![l] =
       IF Cardinality(Active(who[l])) > SessionLimit THEN "refused" ELSE "save"]
  /\ UNCHANGED <<users, session, who, overlapped>>

CountSessions(l) ==
  /\ step[l] = "count"
  /\ step' = [step EXCEPT ![l] =
       IF Cardinality(Active(who[l])) >= SessionLimit THEN "refused" ELSE "save"]
  /\ UNCHANGED <<users, session, who, overlapped>>

\* The INSERT fails if the user has been deleted.
SaveSession(l) ==
  /\ step[l] = "save"
  /\ IF who[l] \in users
       THEN /\ session' = [session EXCEPT ![l] = "active"]
            /\ step' = [step EXCEPT ![l] = "token"]
       ELSE /\ step' = [step EXCEPT ![l] = "error"]
            /\ UNCHANGED session
  /\ UNCHANGED <<users, who, overlapped>>

\* The client sends the session id it was given; the row is found and saved.
\* (Nothing but the deletion of the user can come in between, and then the
\* save fails: no other column of a session ever changes.)
Logout(l) ==
  /\ session[l] # "none"
  /\ session' = [session EXCEPT ![l] = "ended"]
  /\ UNCHANGED <<users, who, step, overlapped>>

\* One UPDATE of all active sessions of the user.
ForceLogoutAllSessions(u) ==
  /\ session' = [l \in Logins |-> IF l \in Active(u) THEN "ended" ELSE session[l]]
  /\ UNCHANGED <<users, who, step, overlapped>>

\* Mutant: the session rows of a deleted user stay.
RemoveUserOnly(u) ==
  /\ u \in users
  /\ users' = users \ {u}
  /\ UNCHANGED <<session, who, step, overlapped>>

\* The sessions of a deleted user are deleted with it.
RemoveUser(u) ==
  /\ u \in users
  /\ users' = users \ {u}
  /\ session' = [l \in Logins |-> IF who[l] = u THEN "none" ELSE session[l]]
  /\ UNCHANGED <<who, step, overlapped>>

Next ==
  \/ \E l \in Logins :
       \/ \E u \in Users : \/ PasswordLogin(l, u)
                         \/ LoginWithGoogleMobile(l, u)
                         \/ RedirectLogin(l, u)
                         \/ GuestToken(l, u)
       \/ CheckDeviceLimit(l)
       \/ CountSessions(l)
       \/ SaveSession(l)
       \/ Logout(l)
  \/ \E u \in Users : ForceLogoutAllSessions(u) \/ RemoveUser(u)

Spec == Init /\ [][Next]_vars

-----------------------------------------------------------------------------
\* "Limit concurrent logins to 3 per user", says login of itself.
AtMostThreeSessions ==
  \A u \in Members : Cardinality(Active(u)) <= SessionLimit

\* The limit holds for every user none of whose logins have overlapped,
\* whoever logs in beside them and however sessions end: the count that login
\* has checked is still right when it inserts the session.
LimitUnlessOverlapping ==
  \A u \in Members \ overlapped : Cardinality(Active(u)) <= SessionLimit
=============================================================================
