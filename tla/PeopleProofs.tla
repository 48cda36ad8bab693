---------------------------- MODULE PeopleProofs ----------------------------
(***************************************************************************)
(* Theorems about PeopleSystem, for any users, logins, accounts and        *)
(* requests.  Each of the three components is proved on its own, Acceptance*)
(* in AcceptanceProofs and the two others here, and the invariants of the  *)
(* whole follow because it only ever takes steps of one of them.           *)
(***************************************************************************)
EXTENDS PeopleSystem, AcceptanceProofs, FiniteSetTheorems

-----------------------------------------------------------------------------
\* Sessions.

Count(u) == Cardinality(Sessions!Active(u))

\* Until logins of a user overlap only one is in flight, and one that is past
\* the count has a place for its session.
LimitKept(u) ==
  /\ \A k, l \in Sessions!InFlight(u) : k = l
  /\ Count(u) <= Sessions!SessionLimit
  /\ \A l \in Sessions!InFlight(u) : s_step[l] = "save" => Count(u) < Sessions!SessionLimit

LimitInv == Sessions!TypeOK /\ \A u \in Members \ s_overlapped : LimitKept(u)

USE DEF Sessions!Running, Sessions!Answers, Sessions!SessionLimit

\* Cardinality as Sessions has it.
LEMMA SameCount ==
  ASSUME NEW S
  PROVE  Sessions!Cardinality(S) = Cardinality(S)
  BY DEF Cardinality, Sessions!Cardinality, IsFiniteSet, Sessions!IsFiniteSet

\* How many sessions a user has is a number.
LEMMA CountTyped ==
  ASSUME NEW u
  PROVE  IsFiniteSet(Sessions!Active(u)) /\ Count(u) \in Nat
<1>1. Sessions!Active(u) \subseteq Logins
  BY DEF Sessions!Active
<1>2. QED
  BY <1>1, LoginsAssumption, FS_Subset, FS_CardinalityType DEF Count

\* Fewer sessions are not more.
LEMMA CountShrinks ==
  ASSUME NEW u, Sessions!Active(u)' \subseteq Sessions!Active(u)
  PROVE  Count(u)' \in Nat /\ Count(u)' <= Count(u)
  BY CountTyped, FS_Subset, FS_CardinalityType DEF Count

\* At first nobody is logged in.
LEMMA SessionsInit ==
  ASSUME Sessions!Init
  PROVE  LimitInv
<1>1. Sessions!TypeOK
  BY NullAssumption DEF Sessions!Init, Sessions!TypeOK
<1>2. ASSUME NEW u \in Members PROVE LimitKept(u)
  <2>1. Sessions!Active(u) = {} /\ Sessions!InFlight(u) = {}
    BY DEF Sessions!Init, Sessions!Active, Sessions!InFlight
  <2>2. QED
    BY <2>1, FS_EmptySet DEF LimitKept, Count
<1>3. QED
  BY <1>1, <1>2 DEF LimitInv

\* A step that starts no login and no session keeps the limit, if it moves no
\* login to the insert that has not just counted.
LEMMA NoMoreSessions ==
  ASSUME LimitInv, Sessions!TypeOK', s_overlapped \subseteq s_overlapped',
         \A u \in Members \ s_overlapped' :
           /\ Sessions!Active(u)' \subseteq Sessions!Active(u)
           /\ Sessions!InFlight(u)' \subseteq Sessions!InFlight(u)
           /\ \A l \in Sessions!InFlight(u)' :
                s_step'[l] = "save" => s_step[l] = "save" \/ Count(u) < Sessions!SessionLimit
  PROVE  LimitInv'
<1> SUFFICES ASSUME NEW u \in Members \ s_overlapped' PROVE LimitKept(u)'
  BY DEF LimitInv
<1>1. LimitKept(u)
  BY DEF LimitInv
<1>2. Count(u)' \in Nat /\ Count(u) \in Nat /\ Count(u)' <= Count(u)
  BY CountShrinks, CountTyped
<1>3. QED
  BY <1>1, <1>2 DEF LimitKept

\* A login that gets in flight.
LEMMA LoginBegins ==
  ASSUME LimitInv, NEW l \in Logins, NEW v \in Users,
         NEW first \in {"devices", "count", "save"}, first = "save" => v \notin Members,
         Sessions!Begin(l, v, first)
  PROVE  LimitInv'
<1>1. /\ s_step[l] = "idle" /\ v \in s_users
      /\ s_who' = [s_who EXCEPT ![l] = v]
      /\ s_step' = [s_step EXCEPT ![l] = first]
      /\ s_overlapped' = IF Sessions!InFlight(v) = {} THEN s_overlapped ELSE s_overlapped \cup {v}
      /\ UNCHANGED <<s_users, session>>
  BY DEF Sessions!Begin
<1>2. Sessions!TypeOK'
  BY <1>1, NullAssumption DEF LimitInv, Sessions!TypeOK
<1>3. session[l] = "none"
  BY <1>1 DEF LimitInv, Sessions!TypeOK
<1>4. \A u \in Members : Sessions!Active(u)' = Sessions!Active(u)
  BY <1>1, <1>3 DEF LimitInv, Sessions!TypeOK, Sessions!Active
<1>5. \A u \in Members \ s_overlapped' :
        Sessions!InFlight(u)' = IF u = v THEN {l} ELSE Sessions!InFlight(u)
  BY <1>1 DEF LimitInv, Sessions!TypeOK, Sessions!InFlight
<1>6. ASSUME NEW u \in Members \ s_overlapped' PROVE LimitKept(u)'
  <2>1. LimitKept(u) /\ Count(u)' = Count(u)
    BY <1>1, <1>4 DEF LimitInv, Count
  <2>2. \A k \in Sessions!InFlight(u)' : s_step'[k] = "save" => k \in Sessions!InFlight(u) /\ s_step[k] = "save"
    BY <1>1, <1>5 DEF LimitInv, Sessions!TypeOK, Sessions!InFlight
  <2>3. QED
    BY <2>1, <2>2, <1>5 DEF LimitKept
<1>7. QED
  BY <1>2, <1>6 DEF LimitInv

\* The four entrances.
LEMMA LoginsBegin ==
  ASSUME LimitInv, NEW l \in Logins, NEW u \in Users,
         \/ Sessions!PasswordLogin(l, u) \/ Sessions!LoginWithGoogleMobile(l, u)
         \/ Sessions!RedirectLogin(l, u) \/ Sessions!GuestToken(l, u)
  PROVE  LimitInv'
  BY LoginBegins DEF Sessions!PasswordLogin, Sessions!LoginWithGoogleMobile,
     Sessions!RedirectLogin, Sessions!GuestToken, Sessions!FirstOfLogin

\* A login that has counted the sessions and goes on.
LEMMA LoginChecks ==
  ASSUME LimitInv, NEW l \in Logins, Sessions!CheckDeviceLimit(l) \/ Sessions!CountSessions(l)
  PROVE  LimitInv'
<1>1. UNCHANGED <<s_users, session, s_who, s_overlapped>>
  BY DEF Sessions!CheckDeviceLimit, Sessions!CountSessions
<1>2. PICK s \in {"refused", "count", "save"} :
        /\ s_step' = [s_step EXCEPT ![l] = s]
        /\ s_step[l] \in {"devices", "count"}
        /\ s = "save" /\ s_who[l] \in Members =>
             ~ (Cardinality(Sessions!Active(s_who[l])) >= Sessions!SessionLimit)
  BY SameCount DEF Sessions!CheckDeviceLimit, Sessions!CountSessions,
     Sessions!FirstOfLogin
<1>3. Sessions!TypeOK'
  BY <1>1, <1>2 DEF LimitInv, Sessions!TypeOK
<1>4. ASSUME NEW u \in Members \ s_overlapped
      PROVE  /\ Sessions!Active(u)' \subseteq Sessions!Active(u)
             /\ Sessions!InFlight(u)' \subseteq Sessions!InFlight(u)
             /\ \A k \in Sessions!InFlight(u)' :
                  s_step'[k] = "save" => s_step[k] = "save" \/ Count(u) < Sessions!SessionLimit
  <2>1. Sessions!Active(u)' = Sessions!Active(u) /\ Sessions!InFlight(u)' \subseteq Sessions!InFlight(u)
    BY <1>1, <1>2 DEF LimitInv, Sessions!TypeOK, Sessions!Active, Sessions!InFlight
  <2>2. ASSUME NEW k \in Sessions!InFlight(u)', s_step'[k] = "save", s_step[k] # "save"
        PROVE  Count(u) < Sessions!SessionLimit
    <3>1. k = l /\ s = "save" /\ s_who[l] = u
      BY <1>1, <1>2, <2>2 DEF LimitInv, Sessions!TypeOK, Sessions!InFlight
    <3>2. Count(u) \in Nat
      BY CountTyped
    <3>3. QED
      BY <1>2, <3>1, <3>2 DEF Count
  <2>3. QED
    BY <2>1, <2>2
<1>5. QED
  BY <1>1, <1>3, <1>4, NoMoreSessions

\* A login that inserts its session.
LEMMA LoginSaves ==
  ASSUME LimitInv, NEW l \in Logins, Sessions!SaveSession(l)
  PROVE  LimitInv'
<1>1. s_step[l] = "save" /\ UNCHANGED <<s_users, s_who, s_overlapped>>
  BY DEF Sessions!SaveSession
<1>2. CASE /\ s_who[l] \in s_users
           /\ session' = [session EXCEPT ![l] = "active"]
           /\ s_step' = [s_step EXCEPT ![l] = "token"]
  <2>1. Sessions!TypeOK'
    BY <1>1, <1>2 DEF LimitInv, Sessions!TypeOK
  <2>2. ASSUME NEW u \in Members \ s_overlapped PROVE LimitKept(u)'
    <3>1. LimitKept(u) /\ Count(u) \in Nat
      BY CountTyped DEF LimitInv
    <3>2. CASE s_who[l] = u
      <4>1. l \in Sessions!InFlight(u) /\ Count(u) < Sessions!SessionLimit
        BY <1>1, <3>1, <3>2 DEF Sessions!InFlight, LimitKept
      <4>2. Sessions!InFlight(u)' = {}
        BY <1>1, <1>2, <3>1, <3>2, <4>1 DEF Sessions!InFlight, LimitKept, LimitInv,
           Sessions!TypeOK
      <4>3. Sessions!Active(u)' = Sessions!Active(u) \cup {l}
        BY <1>1, <1>2, <3>2 DEF Sessions!Active, LimitInv, Sessions!TypeOK
      <4>4. Count(u)' <= Count(u) + 1 /\ Count(u)' \in Nat
        <5> DEFINE S == Sessions!Active(u)
        <5>1. IsFiniteSet(S) /\ Cardinality(S) \in Nat
          BY CountTyped DEF Count
        <5> HIDE DEF S
        <5>2. Cardinality(S \cup {l}) = Cardinality(S) \/ Cardinality(S \cup {l}) = Cardinality(S) + 1
          BY <5>1, FS_AddElement
        <5>3. Count(u)' = Cardinality(S \cup {l})
          BY <4>3 DEF Count, S
        <5>4. QED
          BY <5>1, <5>2, <5>3 DEF Count, S
      <4>5. QED
        BY <3>1, <4>1, <4>2, <4>4 DEF LimitKept
    <3>3. CASE s_who[l] # u
      <4>1. Sessions!Active(u)' = Sessions!Active(u) /\ Sessions!InFlight(u)' = Sessions!InFlight(u)
        BY <1>1, <1>2, <3>3 DEF Sessions!Active, Sessions!InFlight, LimitInv,
           Sessions!TypeOK
      <4>2. \A k \in Sessions!InFlight(u)' : s_step'[k] = s_step[k]
        BY <1>2, <3>3 DEF Sessions!InFlight, LimitInv, Sessions!TypeOK
      <4>3. QED
        BY <3>1, <4>1, <4>2 DEF LimitKept, Count
    <3>4. QED
      BY <3>2, <3>3
  <2>3. QED
    BY <1>1, <2>1, <2>2 DEF LimitInv
<1>3. CASE s_step' = [s_step EXCEPT ![l] = "error"] /\ UNCHANGED session
  <2>1. Sessions!TypeOK'
    BY <1>1, <1>3 DEF LimitInv, Sessions!TypeOK
  <2>2. \A u \in Members :
          /\ Sessions!Active(u)' = Sessions!Active(u) /\ Sessions!InFlight(u)' \subseteq Sessions!InFlight(u)
          /\ \A k \in Sessions!InFlight(u)' : s_step'[k] = "save" => s_step[k] = "save"
    BY <1>1, <1>3 DEF Sessions!Active, Sessions!InFlight, LimitInv, Sessions!TypeOK
  <2>3. QED
    BY <1>1, <2>1, <2>2, NoMoreSessions
<1>4. QED
  BY <1>2, <1>3 DEF Sessions!SaveSession

\* Sessions end, one or all of a user's.
LEMMA SessionsEnd ==
  ASSUME LimitInv,
         \/ \E l \in Logins : Sessions!Logout(l)
         \/ \E u \in Users : Sessions!ForceLogoutAllSessions(u) \/ Sessions!RemoveUser(u)
  PROVE  LimitInv'
<1>1. UNCHANGED <<s_who, s_step, s_overlapped>>
  BY DEF Sessions!Logout, Sessions!ForceLogoutAllSessions, Sessions!RemoveUser
<1>2. /\ session' \in [Logins -> {"none", "active", "ended"}]
      /\ \A l \in Logins : session'[l] = "active" => session[l] = "active"
      /\ \A l \in Logins : session'[l] # "none" => session[l] # "none" /\ s_who[l] \in s_users'
      /\ s_users' \subseteq s_users
  <2>1. ASSUME NEW l \in Logins, Sessions!Logout(l)
        PROVE  /\ session' = [session EXCEPT ![l] = "ended"]
               /\ session[l] # "none"
               /\ s_users' = s_users
    BY <2>1 DEF Sessions!Logout
  <2>2. ASSUME NEW u \in Users, Sessions!ForceLogoutAllSessions(u)
        PROVE  /\ session' = [l \in Logins |-> IF l \in Sessions!Active(u) THEN "ended" ELSE session[l]]
               /\ \A l \in Sessions!Active(u) : session[l] = "active"
               /\ s_users' = s_users
    BY <2>2 DEF Sessions!ForceLogoutAllSessions, Sessions!Active
  <2>3. ASSUME NEW u \in Users, Sessions!RemoveUser(u)
        PROVE  /\ session' = [l \in Logins |-> IF s_who[l] = u THEN "none" ELSE session[l]]
               /\ s_users' = s_users \ {u}
    BY <2>3 DEF Sessions!RemoveUser
  <2>4. QED
    BY <2>1, <2>2, <2>3 DEF LimitInv, Sessions!TypeOK
<1>3. Sessions!TypeOK'
  BY <1>1, <1>2 DEF LimitInv, Sessions!TypeOK
<1>4. \A u \in Members :
        /\ Sessions!Active(u)' \subseteq Sessions!Active(u) /\ Sessions!InFlight(u)' \subseteq Sessions!InFlight(u)
        /\ \A k \in Sessions!InFlight(u)' : s_step'[k] = "save" => s_step[k] = "save"
  BY <1>1, <1>2 DEF Sessions!Active, Sessions!InFlight
<1>5. QED
  BY <1>1, <1>3, <1>4, NoMoreSessions

\* Every step keeps the limit.
LEMMA SessionsStep ==
  ASSUME LimitInv, [Sessions!Next]_(Sessions!vars)
  PROVE  LimitInv'
<1>1. CASE UNCHANGED Sessions!vars
  <2>1. Sessions!TypeOK'
    BY <1>1 DEF Sessions!vars, LimitInv, Sessions!TypeOK
  <2>2. UNCHANGED <<s_who, session, s_step, s_overlapped>>
    BY <1>1 DEF Sessions!vars
  <2>3. \A u \in Members : Sessions!Active(u)' = Sessions!Active(u) /\ Sessions!InFlight(u)' = Sessions!InFlight(u)
    BY <2>2 DEF Sessions!Active, Sessions!InFlight
  <2>4. QED
    BY <2>1, <2>2, <2>3, NoMoreSessions
<1>2. CASE Sessions!Next
  BY <1>2, LoginsBegin, LoginChecks, LoginSaves, SessionsEnd DEF Sessions!Next
<1>3. QED
  BY <1>1, <1>2

\* Whatever happens, the limit holds of users whose logins do not overlap.
LEMMA SessionsCorrect == Sessions!Spec => []LimitInv
<1>1. Sessions!Init => LimitInv
  BY SessionsInit
<1>2. LimitInv /\ [Sessions!Next]_(Sessions!vars) => LimitInv'
  BY SessionsStep
<1>3. QED
  BY <1>1, <1>2, PTL DEF Sessions!Spec

-----------------------------------------------------------------------------
\* Accounts.

Rows == [email : People \cup {None}, password : Accounts!Passwords \cup {None},
         otp : Accounts!Codes \cup {Accounts!NoCode}, social : People \cup {None}]

RowSteps == {"update", "save", "write", "mail"}

\* TypeOK with the types of what a request has read, and of the history.
RowsTyped ==
  /\ rows \in [Ids -> Rows]
  /\ promised \in [Ids -> Rows]
  /\ attrs \in [Requests -> Rows]
  /\ entity \in [Requests -> Rows]

RequestTyped(r) ==
  /\ Accounts!Running(r) => person[r] \in People
  /\ a_step[r] \in RowSteps => target[r] \in Ids

AccountsTyped == Accounts!TypeOK /\ RowsTyped /\ \A r \in Requests : RequestTyped(r)

\* An id without an account has a row of nulls.
LEMMA NullsTyped == Accounts!Nulls \in Rows
  BY DEF Accounts!Nulls, Rows

\* Assigning attributes to an account leaves an account.
LEMMA AssignTyped ==
  ASSUME NEW row \in Rows, NEW new \in Rows
  PROVE  Accounts!Assign(row, new) \in Rows
  BY DEF Accounts!Assign, Rows, Accounts!Columns

\* Whatever columns save() finds changed, what it writes is an account.
LEMMA MergeTyped ==
  ASSUME NEW row \in Rows, NEW new \in Rows, NEW S
  PROVE  [c \in Accounts!Columns |-> IF c \in S THEN new[c] ELSE row[c]] \in Rows
  BY DEF Rows, Accounts!Columns

\* A save() of all columns that differ stores the entity.
LEMMA MergeWhole ==
  ASSUME NEW row \in Rows, NEW new \in Rows
  PROVE  [c \in Accounts!Columns |-> IF c \in {d \in Accounts!Columns : new[d] # row[d]} THEN new[c] ELSE row[c]] = new
  BY DEF Rows, Accounts!Columns

\* Whatever a handler looks up, it writes nothing: it answers, goes on, or has
\* found the row to update.
Lookup(r) ==
  \/ Accounts!RequestPasswordReset(r) \/ Accounts!ResetPassword(r) \/ Accounts!ChangePassword(r) \/ Accounts!SetPassword(r)
  \/ Accounts!ChangeAdminCredentials(r) \/ Accounts!FindLinked(r) \/ Accounts!ValidateSocialLogin(r) \/ Accounts!Register(r)

Found(r, i, new) ==
  /\ target' = [target EXCEPT ![r] = i]
  /\ attrs' = [attrs EXCEPT ![r] = new]
  /\ Accounts!Goto(r, "update")

\* A handler that looks something up writes no row.
LEMMA LookupReads ==
  ASSUME AccountsTyped, NEW r \in Requests, Lookup(r)
  PROVE  /\ a_step[r] \in {"find", "findEmail"}
         /\ UNCHANGED <<rows, now, Accounts!input, entity, changed, a_overlapped, promised>>
         /\ \/ /\ \E s \in {"findEmail", "create", "ok", "refused"} : Accounts!Goto(r, s)
               /\ UNCHANGED <<target, attrs>>
            \/ \E i \in Ids, new \in Rows : Found(r, i, new)
<1> DEFINE Outcome ==
      \/ /\ \E s \in {"findEmail", "create", "ok", "refused"} : Accounts!Goto(r, s)
         /\ UNCHANGED <<target, attrs>>
      \/ \E i \in Ids, new \in Rows : Found(r, i, new)
<1>1. ASSUME NEW i \in Ids, NEW new \in Rows, Accounts!Update(r, i, new)
      PROVE  Outcome /\ UNCHANGED promised
  BY <1>1 DEF Accounts!Update, Found
<1>2. ASSUME Accounts!Refuse(r)
      PROVE  Outcome /\ UNCHANGED promised
  BY <1>2 DEF Accounts!Refuse, Accounts!Answer
<1>3. ASSUME Accounts!Answer(r, "ok") /\ UNCHANGED <<target, attrs>>
      PROVE  Outcome /\ UNCHANGED promised
  BY <1>3 DEF Accounts!Answer
<1>4. person[r] \in People \/ ~Accounts!Running(r)
  BY DEF AccountsTyped, RequestTyped
<1>5. Accounts!Running(r) <=> a_step[r] \in Accounts!Steps
  BY DEF Accounts!Running
<1>6. CASE Accounts!RequestPasswordReset(r)
  <2>1. [Accounts!Nulls EXCEPT !.otp = [code |-> r, expires |-> now + Lifetime]] \in Rows
    BY ClockAssumption DEF Accounts!Nulls, Rows, Accounts!Codes, AccountsTyped,
       Accounts!TypeOK
  <2>2. Accounts!WithEmail(person[r]) \subseteq Ids
    BY DEF Accounts!WithEmail
  <2>3. QED
    BY <1>1, <1>3, <1>6, <2>1, <2>2 DEF Accounts!RequestPasswordReset, Accounts!Reading
<1>7. [Accounts!Nulls EXCEPT !.password = r] \in Rows
  BY DEF Accounts!Nulls, Rows, Accounts!Passwords
<1>8. CASE Accounts!ResetPassword(r) \/ Accounts!ChangePassword(r) \/ Accounts!SetPassword(r)
  <2>1. Accounts!WithEmail(person[r]) \subseteq Ids
    BY DEF Accounts!WithEmail
  <2>2. QED
    BY <1>1, <1>2, <1>7, <1>8, <2>1 DEF Accounts!ResetPassword, Accounts!ChangePassword,
       Accounts!SetPassword, Accounts!Reading
<1>9. CASE Accounts!ChangeAdminCredentials(r)
  <2>1. a_step[r] = "find" /\ person[r] \in People
    BY <1>4, <1>5, <1>9 DEF Accounts!ChangeAdminCredentials, Accounts!Steps
  <2>2. \A columns \in {{"email"}, {"password"}, {"email", "password"}} :
          [Accounts!Nulls EXCEPT !.email = IF "email" \in columns THEN person[r] ELSE None,
                        !.password = IF "password" \in columns THEN r ELSE None] \in Rows
    BY <2>1 DEF Accounts!Nulls, Rows, Accounts!Passwords
  <2>3. QED
    BY <1>1, <1>2, <1>9, <2>1, <2>2 DEF Accounts!ChangeAdminCredentials, Accounts!Reading
<1>10. CASE Accounts!ValidateSocialLogin(r)
  <2>1. a_step[r] = "findEmail" /\ person[r] \in People
    BY <1>4, <1>5, <1>10 DEF Accounts!ValidateSocialLogin, Accounts!Steps
  <2>2. [Accounts!Nulls EXCEPT !.social = person[r]] \in Rows
    BY <2>1 DEF Accounts!Nulls, Rows
  <2>3. Accounts!WithEmail(person[r]) \subseteq Ids
    BY DEF Accounts!WithEmail
  <2>4. QED
    BY <1>1, <1>10, <2>1, <2>2, <2>3 DEF Accounts!ValidateSocialLogin, Accounts!Reading
<1>11. CASE Accounts!FindLinked(r) \/ Accounts!Register(r)
  BY <1>3, <1>11 DEF Accounts!FindLinked, Accounts!Register, Accounts!Reading,
     Accounts!Answer
<1>12. QED
  BY <1>6, <1>8, <1>9, <1>10, <1>11 DEF Lookup

\* At first the table is as Accounts has it.
LEMMA TypedInit ==
  ASSUME Accounts!Init
  PROVE  AccountsTyped
<1>1. \A p \in People : [Accounts!Nulls EXCEPT !.email = p, !.password = Initial] \in Rows
  BY DEF Accounts!Nulls, Rows, Accounts!Passwords
<1>2. rows \in [Ids -> Rows]
  <2>1. PICK old \in {{}} \cup {{i} : i \in Ids}, p \in People :
          rows = [i \in Ids |-> IF i \in old
                                THEN [Accounts!Nulls EXCEPT !.email = p, !.password = Initial]
                                ELSE Accounts!Nulls]
    BY Zenon DEF Accounts!Init
  <2>2. QED
    BY <1>1, <2>1, NullsTyped
<1>3. now \in 0..MaxNow
  BY ClockAssumption DEF Accounts!Init
<1>4. RowsTyped
  BY <1>2, NullsTyped DEF Accounts!Init, RowsTyped
<1>5. Accounts!TypeOK
  BY <1>2, <1>3 DEF Accounts!Init, Accounts!TypeOK, Rows
<1>6. QED
  BY <1>4, <1>5 DEF AccountsTyped, RequestTyped, Accounts!Init, Accounts!Running,
     Accounts!Steps, RowSteps

\* A handler that looks something up.
LEMMA LookupTyped ==
  ASSUME AccountsTyped, NEW r \in Requests, Lookup(r)
  PROVE  AccountsTyped'
<1>1. /\ a_step[r] \in {"find", "findEmail"}
      /\ UNCHANGED <<rows, now, Accounts!input, entity, changed, a_overlapped, promised>>
      /\ \/ /\ \E s \in {"findEmail", "create", "ok", "refused"} : Accounts!Goto(r, s)
            /\ UNCHANGED <<target, attrs>>
         \/ \E i \in Ids, new \in Rows : Found(r, i, new)
  BY LookupReads
<1>2. CASE UNCHANGED <<target, attrs>> /\ \E s \in {"findEmail", "create", "ok", "refused"} : Accounts!Goto(r, s)
  BY <1>1, <1>2 DEF AccountsTyped, Accounts!TypeOK, RowsTyped, RequestTyped,
     Accounts!Goto, Accounts!input, Accounts!Running, Accounts!Steps, Accounts!Answers,
     RowSteps
<1>3. CASE \E i \in Ids, new \in Rows : Found(r, i, new)
  BY <1>1, <1>3 DEF AccountsTyped, Accounts!TypeOK, RowsTyped, RequestTyped,
     Accounts!Goto, Accounts!input, Accounts!Running, Accounts!Steps, Accounts!Answers,
     RowSteps, Found
<1>4. QED
  BY <1>1, <1>2, <1>3

\* A request that arrives.
LEMMA BeginTyped ==
  ASSUME AccountsTyped, NEW r \in Requests, NEW k \in Accounts!Kinds, NEW p \in People,
         NEW g \in Accounts!Passwords \cup {None}, Accounts!Begin(r, k, p, g)
  PROVE  AccountsTyped'
  BY DEF Accounts!Begin, AccountsTyped, Accounts!TypeOK, RowsTyped, RequestTyped,
     Accounts!Goto, Accounts!Running, Accounts!Steps, Accounts!Answers, RowSteps

\* The row of a new account.
LEMMA CreateRow ==
  ASSUME AccountsTyped, NEW r \in Requests, Accounts!Create(r)
  PROVE  /\ a_step[r] = "create"
         /\ UNCHANGED <<now, Accounts!input, target, attrs, entity, changed, a_overlapped>>
         /\ \/ /\ UNCHANGED <<rows, promised>>
               /\ Accounts!Goto(r, "error")
            \/ /\ Accounts!Goto(r, "ok")
               /\ \E i \in Ids, row \in Rows :
                    /\ Accounts!Unique(i, row)
                    /\ rows' = [rows EXCEPT ![i] = row]
                    /\ promised' = [promised EXCEPT ![i] = row]
<1> DEFINE row == IF kind[r] = "social"
                    THEN [Accounts!Nulls EXCEPT !.email = person[r], !.social = person[r]]
                    ELSE [Accounts!Nulls EXCEPT !.email = person[r], !.password = r]
<1>1. a_step[r] = "create" /\ person[r] \in People
  BY DEF Accounts!Create, AccountsTyped, RequestTyped, Accounts!Running, Accounts!Steps
<1>2. row \in Rows
  BY <1>1 DEF Accounts!Nulls, Rows, Accounts!Passwords
<1> HIDE DEF row
<1>3. PICK i \in Ids :
        IF Accounts!Unique(i, row)
          THEN /\ rows' = [rows EXCEPT ![i] = row]
               /\ promised' = [promised EXCEPT ![i] = row]
               /\ Accounts!Goto(r, "ok")
          ELSE Accounts!Answer(r, "error") /\ UNCHANGED rows
  BY DEF Accounts!Create, row
<1>4. UNCHANGED <<now, Accounts!input, target, attrs, entity, changed, a_overlapped>>
  BY DEF Accounts!Create
<1>5. QED
  BY <1>1, <1>2, <1>3, <1>4 DEF Accounts!Answer

\* The INSERT of an account.
LEMMA CreateTyped ==
  ASSUME AccountsTyped, NEW r \in Requests, Accounts!Create(r)
  PROVE  AccountsTyped'
<1>1. rows' \in [Ids -> Rows] /\ promised' \in [Ids -> Rows]
  BY CreateRow DEF AccountsTyped, RowsTyped
<1>2. \E s \in {"ok", "error"} : Accounts!Goto(r, s)
  BY CreateRow
<1>3. UNCHANGED <<now, Accounts!input, target, attrs, entity, changed, a_overlapped>>
  BY CreateRow
<1>4. QED
  BY <1>1, <1>2, <1>3 DEF AccountsTyped, Accounts!TypeOK, RowsTyped, RequestTyped,
     Accounts!Goto, Accounts!input, Accounts!Running, Accounts!Steps, Accounts!Answers,
     RowSteps, Rows

\* What an answer promises are rows.
LEMMA PromiseTyped ==
  ASSUME AccountsTyped, NEW r \in Requests, a_step[r] \in RowSteps, Accounts!Promise(r)
  PROVE  promised' \in [Ids -> Rows]
<1>1. target[r] \in Ids
  BY DEF AccountsTyped, RequestTyped
<1>2. Accounts!Assign(promised[target[r]], attrs[r]) \in Rows
  BY <1>1, AssignTyped DEF AccountsTyped, RowsTyped
<1>3. QED
  BY <1>1, <1>2 DEF Accounts!Promise, AccountsTyped, RowsTyped

\* The steps of an update.
LEMMA UpdateTyped ==
  ASSUME AccountsTyped, NEW r \in Requests,
         Accounts!ReadForUpdate(r) \/ Accounts!Compare(r) \/ Accounts!Write(r) \/ Accounts!SendMail(r)
  PROVE  AccountsTyped'
<1>1. a_step[r] \in RowSteps
  BY DEF Accounts!ReadForUpdate, Accounts!Compare, Accounts!Write, Accounts!SendMail,
     RowSteps
<1>2. target[r] \in Ids
  BY <1>1 DEF AccountsTyped, RequestTyped
<1>3. UNCHANGED <<now, Accounts!input, target, attrs, a_overlapped>>
  BY DEF Accounts!ReadForUpdate, Accounts!Compare, Accounts!Write, Accounts!SendMail
<1>4. \E s \in {"save", "write", "mail", "ok", "error"} : Accounts!Goto(r, s)
  BY DEF Accounts!ReadForUpdate, Accounts!Compare, Accounts!Write, Accounts!SendMail,
     Accounts!Done, Accounts!Promise, Accounts!Answer
<1>5. promised' \in [Ids -> Rows]
  <2>1. Accounts!Promise(r) \/ UNCHANGED promised
    BY DEF Accounts!ReadForUpdate, Accounts!Compare, Accounts!Write, Accounts!SendMail,
       Accounts!Done, Accounts!Answer
  <2>2. QED
    BY <1>1, <2>1, PromiseTyped DEF AccountsTyped, RowsTyped
<1>6. rows' \in [Ids -> Rows] /\ entity' \in [Requests -> Rows]
      /\ changed' \in [Requests -> SUBSET Accounts!Columns]
  <2>1. CASE Accounts!ReadForUpdate(r)
    <3>1. Accounts!Assign(rows[target[r]], attrs[r]) \in Rows
      BY <1>2, AssignTyped DEF AccountsTyped, RowsTyped
    <3>2. QED
      BY <2>1, <3>1 DEF Accounts!ReadForUpdate, AccountsTyped, RowsTyped, Accounts!TypeOK
  <2>2. CASE Accounts!Compare(r)
    BY <2>2 DEF Accounts!Compare, AccountsTyped, RowsTyped, Accounts!TypeOK
  <2>3. CASE Accounts!Write(r)
    <3> DEFINE row == [c \in Accounts!Columns |-> IF c \in changed[r] THEN entity[r][c]
                                                            ELSE rows[target[r]][c]]
    <3>1. row \in Rows
      <4>1. rows[target[r]] \in Rows /\ entity[r] \in Rows
        BY <1>2 DEF AccountsTyped, RowsTyped
      <4>2. QED
        BY <4>1, MergeTyped
    <3>2. rows' = rows \/ rows' = [rows EXCEPT ![target[r]] = row]
      BY <2>3 DEF Accounts!Write
    <3> HIDE DEF row
    <3>3. UNCHANGED <<entity, changed>>
      BY <2>3 DEF Accounts!Write
    <3>4. QED
      BY <1>2, <3>1, <3>2, <3>3 DEF AccountsTyped, RowsTyped, Accounts!TypeOK
  <2>4. CASE Accounts!SendMail(r)
    BY <2>4 DEF Accounts!SendMail, AccountsTyped, RowsTyped, Accounts!TypeOK
  <2>5. QED
    BY <2>1, <2>2, <2>3, <2>4
<1>7. person' = person /\ target' = target
      /\ a_step' \in [Requests -> Accounts!Steps \cup Accounts!Answers \cup {"idle"}]
      /\ \A q \in Requests : q # r => a_step'[q] = a_step[q]
  BY <1>3, <1>4 DEF AccountsTyped, Accounts!TypeOK, Accounts!Goto, Accounts!Steps,
     Accounts!Answers, Accounts!input
<1>8. \A q \in Requests : RequestTyped(q)'
  BY <1>1, <1>2, <1>7 DEF AccountsTyped, RequestTyped, Accounts!Running, Accounts!Steps,
     RowSteps
<1>9. Accounts!TypeOK' /\ RowsTyped'
  BY <1>3, <1>5, <1>6, <1>7 DEF AccountsTyped, Accounts!TypeOK, RowsTyped,
     Accounts!input, Rows
<1>10. QED
  BY <1>8, <1>9 DEF AccountsTyped

\* Every step keeps the types.
LEMMA TypedStep ==
  ASSUME AccountsTyped, [Accounts!Next]_(Accounts!vars)
  PROVE  AccountsTyped'
<1>1. ASSUME NEW i \in Ids, Accounts!Remove(i) PROVE AccountsTyped'
  BY <1>1, NullsTyped DEF Accounts!Remove, AccountsTyped, Accounts!TypeOK, RowsTyped,
     RequestTyped, Accounts!input, Accounts!Running, Rows
<1>2. CASE Accounts!Tick
  BY <1>2, ClockAssumption DEF Accounts!Tick, AccountsTyped, Accounts!TypeOK, RowsTyped,
     RequestTyped, Accounts!input, Accounts!Running
<1>3. CASE UNCHANGED Accounts!vars
  BY <1>3 DEF Accounts!vars, AccountsTyped, Accounts!TypeOK, RowsTyped, RequestTyped,
     Accounts!input, Accounts!Running
<1>4. ASSUME NEW r \in Requests, Accounts!Handle(r) PROVE AccountsTyped'
  BY <1>4, LookupTyped, CreateTyped, UpdateTyped DEF Accounts!Handle, Lookup
<1>5. QED
  BY <1>1, <1>2, <1>3, <1>4, BeginTyped DEF Accounts!Next

-----------------------------------------------------------------------------
\* A write of a row that is unlike all the others.
LEMMA UniqueKept ==
  ASSUME Accounts!OneAccountPerPerson, rows \in [Ids -> Rows], NEW i \in Ids, NEW row \in Rows,
         rows' = [rows EXCEPT ![i] = row], Accounts!Unique(i, row)
  PROVE  Accounts!OneAccountPerPerson'
  BY DEF Accounts!OneAccountPerPerson, Accounts!Unique, Accounts!Exists

\* What a row becomes when a request writes to it.
LEMMA WriteRow ==
  ASSUME AccountsTyped, NEW r \in Requests, Accounts!Write(r)
  PROVE  \/ UNCHANGED rows
         \/ \E row \in Rows : /\ Accounts!Unique(target[r], row)
                             /\ rows' = [rows EXCEPT ![target[r]] = row]
<1> DEFINE row == [c \in Accounts!Columns |-> IF c \in changed[r] THEN entity[r][c]
                                                        ELSE rows[target[r]][c]]
<1>1. target[r] \in Ids
  BY DEF Accounts!Write, AccountsTyped, RequestTyped, RowSteps
<1>2. rows[target[r]] \in Rows /\ entity[r] \in Rows
  BY <1>1 DEF AccountsTyped, RowsTyped
<1>3. row \in Rows
  BY <1>2, MergeTyped
<1>4. \/ rows' = rows
      \/ Accounts!Unique(target[r], row) /\ rows' = [rows EXCEPT ![target[r]] = row]
  BY DEF Accounts!Write
<1>5. QED
  BY <1>3, <1>4

\* At first there is one account at most.
LEMMA OneAccountInit ==
  ASSUME Accounts!Init
  PROVE  Accounts!OneAccountPerPerson
<1>1. PICK old \in {{}} \cup {{i} : i \in Ids}, p \in People :
        rows = [i \in Ids |-> IF i \in old
                              THEN [Accounts!Nulls EXCEPT !.email = p, !.password = Initial]
                              ELSE Accounts!Nulls]
  BY Zenon DEF Accounts!Init
<1>2. \A i \in Ids : Accounts!Exists(i) => i \in old
  BY <1>1 DEF Accounts!Exists, Accounts!Nulls
<1>3. \A i, j \in old : i = j
  BY <1>1
<1>4. QED
  BY <1>2, <1>3 DEF Accounts!OneAccountPerPerson

\* Every step leaves one account to each person.
LEMMA OneAccountStep ==
  ASSUME AccountsTyped, Accounts!OneAccountPerPerson, [Accounts!Next]_(Accounts!vars)
  PROVE  Accounts!OneAccountPerPerson'
<1> USE DEF AccountsTyped, RowsTyped
<1>1. ASSUME UNCHANGED rows PROVE Accounts!OneAccountPerPerson'
  BY <1>1 DEF Accounts!OneAccountPerPerson, Accounts!Exists
<1>2. ASSUME NEW r \in Requests, Accounts!Create(r) PROVE Accounts!OneAccountPerPerson'
  BY <1>1, <1>2, CreateRow, UniqueKept
<1>3. ASSUME NEW r \in Requests, Accounts!Write(r) PROVE Accounts!OneAccountPerPerson'
  <2>1. target[r] \in Ids
    BY <1>3 DEF Accounts!Write, RequestTyped, RowSteps
  <2>2. QED
    BY <1>1, <1>3, <2>1, WriteRow, UniqueKept
<1>4. ASSUME NEW i \in Ids, Accounts!Remove(i) PROVE Accounts!OneAccountPerPerson'
  <2>1. rows' = [rows EXCEPT ![i] = Accounts!Nulls]
    BY <1>4 DEF Accounts!Remove
  <2>2. QED
    BY <2>1 DEF Accounts!OneAccountPerPerson, Accounts!Exists, Accounts!Nulls
<1>5. ASSUME NEW r \in Requests, Lookup(r) PROVE Accounts!OneAccountPerPerson'
  BY <1>1, <1>5, LookupReads
<1>6. ASSUME NEW r \in Requests, Accounts!ReadForUpdate(r) \/ Accounts!Compare(r) \/ Accounts!SendMail(r)
      PROVE  Accounts!OneAccountPerPerson'
  BY <1>1, <1>6 DEF Accounts!ReadForUpdate, Accounts!Compare, Accounts!SendMail
<1>7. CASE Accounts!Tick \/ UNCHANGED Accounts!vars
  BY <1>1, <1>7 DEF Accounts!Tick, Accounts!vars
<1>8. ASSUME NEW r \in Requests, NEW k \in Accounts!Kinds, NEW p \in People,
             NEW g \in Accounts!Passwords \cup {None}, Accounts!Begin(r, k, p, g)
      PROVE  Accounts!OneAccountPerPerson'
  BY <1>1, <1>8 DEF Accounts!Begin
<1>9. QED
  BY <1>2, <1>3, <1>4, <1>5, <1>6, <1>7, <1>8 DEF Accounts!Next, Accounts!Handle, Lookup

-----------------------------------------------------------------------------
\* Where the request that runs alone has got to.
Kept(r) ==
  /\ a_step[r] \in {"find", "findEmail", "create", "update", "save", "write"} => rows = promised
  /\ a_step[r] \in {"save", "write"} =>
       /\ Accounts!Exists(target[r])
       /\ entity[r] = Accounts!Assign(rows[target[r]], attrs[r])
  /\ a_step[r] = "write" =>
       changed[r] = {c \in Accounts!Columns : entity[r][c] # rows[target[r]][c]}
  /\ a_step[r] = "mail" =>
       rows = [promised EXCEPT ![target[r]] = Accounts!Assign(@, attrs[r])]

Alone ==
  /\ \A r, s \in Requests : Accounts!Running(r) /\ Accounts!Running(s) => r = s
  /\ \A r \in Requests : Accounts!Running(r) => Kept(r)
  /\ (\A r \in Requests : ~Accounts!Running(r)) => rows = promised

AccountsInv == AccountsTyped /\ Accounts!OneAccountPerPerson /\ (~a_overlapped => Alone)

\* A step of the request that runs.
LEMMA AloneMoves ==
  ASSUME AccountsTyped, Alone, NEW r \in Requests, Accounts!Running(r),
         NEW s \in Accounts!Steps \cup Accounts!Answers, Accounts!Goto(r, s),
         s \in Accounts!Steps => Kept(r)',
         s \in Accounts!Answers => rows' = promised'
  PROVE  Alone'
<1>1. /\ \A q \in Requests : q # r => ~Accounts!Running(q)'
      /\ a_step'[r] = s
  BY DEF AccountsTyped, Accounts!TypeOK, Alone, Accounts!Running, Accounts!Goto
<1>2. Accounts!Running(r)' <=> s \in Accounts!Steps
  BY <1>1 DEF Accounts!Running
<1>3. Accounts!Steps \cap Accounts!Answers = {}
  BY DEF Accounts!Steps, Accounts!Answers
<1>4. QED
  BY <1>1, <1>2, <1>3 DEF Alone

\* A handler that looks something up, alone.
LEMMA AloneLookup ==
  ASSUME AccountsTyped, Alone, NEW r \in Requests, Lookup(r)
  PROVE  Alone'
<1>1. a_step[r] \in {"find", "findEmail"} /\ UNCHANGED <<rows, promised>>
  BY LookupReads
<1>2. Accounts!Running(r) /\ rows = promised
  BY <1>1 DEF Accounts!Running, Accounts!Steps, Alone, Kept
<1>3. PICK s \in {"findEmail", "create", "update", "ok", "refused"} : Accounts!Goto(r, s)
  BY LookupReads DEF Found
<1>4. a_step'[r] = s
  BY <1>3 DEF Accounts!Goto, AccountsTyped, Accounts!TypeOK
<1>5. s \in Accounts!Steps => Kept(r)'
  BY <1>1, <1>2, <1>4 DEF Kept
<1>6. QED
  BY <1>1, <1>2, <1>3, <1>5, AloneMoves DEF Accounts!Steps, Accounts!Answers

\* The INSERT of an account, alone.
LEMMA AloneCreate ==
  ASSUME AccountsTyped, Alone, NEW r \in Requests, Accounts!Create(r)
  PROVE  Alone'
<1>1. a_step[r] = "create"
  BY CreateRow
<1>2. Accounts!Running(r) /\ rows = promised
  BY <1>1 DEF Accounts!Running, Accounts!Steps, Alone, Kept
<1>3. rows' = promised'
  BY <1>2, CreateRow
<1>4. \E s \in {"ok", "error"} : Accounts!Goto(r, s)
  BY CreateRow
<1>5. QED
  BY <1>2, <1>3, <1>4, AloneMoves DEF Accounts!Steps, Accounts!Answers

\* The steps of an update, alone.
LEMMA AloneUpdate ==
  ASSUME AccountsTyped, Alone, NEW r \in Requests,
         Accounts!ReadForUpdate(r) \/ Accounts!Compare(r) \/ Accounts!Write(r) \/ Accounts!SendMail(r)
  PROVE  Alone'
<1> DEFINE i == target[r]
           new == Accounts!Assign(rows[i], attrs[r])
<1>1. a_step[r] \in RowSteps /\ UNCHANGED <<target, attrs>>
  BY DEF Accounts!ReadForUpdate, Accounts!Compare, Accounts!Write, Accounts!SendMail,
     RowSteps
<1>2. i \in Ids /\ Accounts!Running(r) /\ Kept(r)
  BY <1>1 DEF AccountsTyped, RequestTyped, Accounts!Running, RowSteps, Accounts!Steps,
     Alone
<1>3. rows[i] \in Rows /\ attrs[r] \in Rows
  BY <1>2 DEF AccountsTyped, RowsTyped
<1>4. new \in Rows
  BY <1>3, AssignTyped
<1>5. \A s : Accounts!Goto(r, s) => a_step'[r] = s
  BY DEF Accounts!Goto, AccountsTyped, Accounts!TypeOK
<1>6. CASE Accounts!ReadForUpdate(r)
  <2>1. a_step[r] = "update" /\ rows = promised /\ UNCHANGED <<rows, promised>>
    BY <1>2, <1>6 DEF Accounts!ReadForUpdate, Kept, Accounts!Answer
  <2>2. CASE Accounts!Goto(r, "error")
    BY <1>2, <2>1, <2>2, AloneMoves DEF Accounts!Answers, Accounts!Steps
  <2>3. CASE Accounts!Exists(i) /\ Accounts!Goto(r, "save") /\ entity' = [entity EXCEPT ![r] = new]
    <3>1. a_step'[r] = "save" /\ Accounts!Exists(i)' /\ entity'[r] = new
      BY <1>1, <1>5, <2>1, <2>3 DEF Accounts!Exists, AccountsTyped, RowsTyped
    <3>2. new' = new /\ i' = i
      BY <1>1, <2>1 DEF Accounts!Assign
    <3>3. Kept(r)'
      BY <2>1, <3>1, <3>2 DEF Kept
    <3>4. QED
      BY <1>2, <2>3, <3>3, AloneMoves DEF Accounts!Answers, Accounts!Steps
  <2>4. QED
    BY <1>6, <2>2, <2>3 DEF Accounts!ReadForUpdate, Accounts!Answer
<1>7. CASE Accounts!Compare(r)
  <2>1. /\ a_step[r] = "save"
        /\ UNCHANGED <<rows, promised, entity>>
        /\ Accounts!Goto(r, "write")
        /\ changed' = [changed EXCEPT ![r] =
             {c \in Accounts!Columns : ~Accounts!Exists(i) \/ entity[r][c] # rows[i][c]}]
    BY <1>7 DEF Accounts!Compare
  <2>2. rows = promised /\ Accounts!Exists(i) /\ entity[r] = new
    BY <1>2, <2>1 DEF Kept
  <2>3. a_step'[r] = "write" /\ Accounts!Exists(i)' /\ new' = new /\ i' = i
    BY <1>1, <1>5, <2>1, <2>2 DEF Accounts!Exists, Accounts!Assign
  <2>4. changed'[r] = {c \in Accounts!Columns : entity[r][c] # rows[i][c]}
    BY <2>1, <2>2 DEF AccountsTyped, Accounts!TypeOK
  <2>5. Kept(r)'
    BY <2>1, <2>2, <2>3, <2>4 DEF Kept
  <2>6. QED
    BY <1>2, <2>1, <2>5, AloneMoves DEF Accounts!Answers, Accounts!Steps
<1>8. CASE Accounts!Write(r)
  <2> DEFINE row == [c \in Accounts!Columns |-> IF c \in changed[r] THEN entity[r][c] ELSE rows[i][c]]
  <2>1. /\ rows = promised /\ Accounts!Exists(i) /\ entity[r] = new
        /\ changed[r] = {c \in Accounts!Columns : new[c] # rows[i][c]}
    BY <1>2, <1>8 DEF Accounts!Write, Kept
  <2>2. row = new
    BY <1>3, <1>4, <2>1, MergeWhole
  <2>3. \/ Accounts!Done(r) /\ rows' = [rows EXCEPT ![i] = new]
        \/ Accounts!Answer(r, "error") /\ UNCHANGED rows
    <3> HIDE DEF new
    <3>1. QED
      BY <1>8, <2>1, <2>2 DEF Accounts!Write
  <2>4. CASE Accounts!Answer(r, "error") /\ UNCHANGED rows
    BY <1>2, <2>1, <2>4, AloneMoves DEF Accounts!Answer, Accounts!Answers, Accounts!Steps
  <2>5. CASE Accounts!Promise(r) /\ rows' = [rows EXCEPT ![i] = new]
    <3>1. rows' = promised' /\ Accounts!Goto(r, "ok")
      BY <2>1, <2>5 DEF Accounts!Promise
    <3>2. QED
      BY <1>2, <3>1, AloneMoves DEF Accounts!Answers, Accounts!Steps
  <2>6. CASE Accounts!Goto(r, "mail") /\ UNCHANGED promised /\ rows' = [rows EXCEPT ![i] = new]
    <3>1. a_step'[r] = "mail"
      BY <1>5, <2>6
    <3>2. rows' = [promised' EXCEPT ![i] = Accounts!Assign(promised'[i], attrs[r])]
      BY <2>1, <2>6
    <3>3. Kept(r)'
      BY <1>1, <3>1, <3>2 DEF Kept
    <3>4. QED
      BY <1>2, <2>6, <3>3, AloneMoves DEF Accounts!Answers, Accounts!Steps
  <2>7. QED
    BY <2>3, <2>4, <2>5, <2>6 DEF Accounts!Done
<1>9. CASE Accounts!SendMail(r)
  <2>1. rows' = promised' /\ Accounts!Goto(r, "ok")
    BY <1>2, <1>9 DEF Accounts!SendMail, Accounts!Promise, Kept
  <2>2. QED
    BY <1>2, <2>1, AloneMoves DEF Accounts!Answers, Accounts!Steps
<1>10. QED
  BY <1>6, <1>7, <1>8, <1>9

\* A request that arrives when none runs.
LEMMA AloneBegin ==
  ASSUME AccountsTyped, ~a_overlapped => Alone, ~a_overlapped', NEW r \in Requests,
         NEW k \in Accounts!Kinds, NEW p \in People, NEW g \in Accounts!Passwords \cup {None},
         Accounts!Begin(r, k, p, g)
  PROVE  Alone'
<1>1. ~a_overlapped /\ (\A s \in Requests : ~Accounts!Running(s)) /\ UNCHANGED <<rows, promised>>
  BY DEF Accounts!Begin
<1>2. rows = promised /\ rows' = promised'
  BY <1>1 DEF Alone
<1>3. a_step'[r] = "find" /\ \A s \in Requests : s # r => a_step'[s] = a_step[s]
  BY DEF Accounts!Begin, Accounts!Goto, AccountsTyped, Accounts!TypeOK
<1>4. \A s \in Requests : s # r => ~Accounts!Running(s)'
  BY <1>1, <1>3 DEF Accounts!Running
<1>5. Kept(r)'
  BY <1>2, <1>3 DEF Kept
<1>6. QED
  BY <1>2, <1>4, <1>5 DEF Alone

\* Steps of nobody.
LEMMA AloneStays ==
  ASSUME Alone, UNCHANGED <<rows, promised, target, attrs, entity, changed, a_step>>
  PROVE  Alone'
  BY DEF Alone, Kept, Accounts!Running, Accounts!Exists, Accounts!Assign

\* Every step but one that overlaps.
LEMMA AloneStep ==
  ASSUME AccountsTyped, ~a_overlapped => Alone, [Accounts!Next]_(Accounts!vars)
  PROVE  ~a_overlapped' => Alone'
<1> SUFFICES ASSUME ~a_overlapped' PROVE Alone'
  OBVIOUS
<1>1. ASSUME NEW i \in Ids, Accounts!Remove(i) PROVE Alone'
  <2>1. /\ ~a_overlapped /\ \A r \in Requests : ~Accounts!Running(r)
        /\ a_step' = a_step
        /\ rows' = [rows EXCEPT ![i] = Accounts!Nulls] /\ promised' = [promised EXCEPT ![i] = Accounts!Nulls]
    BY <1>1 DEF Accounts!Remove
  <2>2. rows = promised
    BY <2>1 DEF Alone
  <2>3. QED
    BY <2>1, <2>2 DEF Alone, Accounts!Running
<1>2. CASE Accounts!Tick \/ UNCHANGED Accounts!vars
  BY <1>2, AloneStays DEF Accounts!Tick, Accounts!vars
<1>3. ASSUME NEW r \in Requests, Accounts!Handle(r) PROVE Alone'
  <2>1. CASE Lookup(r)
    BY <2>1, LookupReads, AloneLookup
  <2>2. CASE Accounts!Create(r)
    BY <2>2, CreateRow, AloneCreate
  <2>3. CASE Accounts!ReadForUpdate(r) \/ Accounts!Compare(r) \/ Accounts!Write(r) \/ Accounts!SendMail(r)
    <3>1. ~a_overlapped
      BY <2>3 DEF Accounts!ReadForUpdate, Accounts!Compare, Accounts!Write,
         Accounts!SendMail
    <3>2. QED
      BY <2>3, <3>1, AloneUpdate
  <2>4. QED
    BY <1>3, <2>1, <2>2, <2>3 DEF Accounts!Handle, Lookup
<1>4. QED
  BY <1>1, <1>2, <1>3, AloneBegin DEF Accounts!Next

\* At first the rows are what has been promised.
LEMMA AccountsInvInit ==
  ASSUME Accounts!Init
  PROVE  AccountsInv
<1>1. rows = promised /\ \A r \in Requests : ~Accounts!Running(r)
  BY DEF Accounts!Init, Accounts!Running, Accounts!Steps
<1>2. QED
  BY <1>1, TypedInit, OneAccountInit DEF AccountsInv, Alone

\* Every step keeps the invariant.
LEMMA AccountsInvStep ==
  ASSUME AccountsInv, [Accounts!Next]_(Accounts!vars)
  PROVE  AccountsInv'
<1>1. AccountsTyped' /\ Accounts!OneAccountPerPerson'
  BY TypedStep, OneAccountStep DEF AccountsInv
<1>2. ~a_overlapped' => Alone'
  BY AloneStep DEF AccountsInv
<1>3. QED
  BY <1>1, <1>2 DEF AccountsInv

\* Whatever happens, the accounts are as the invariant says.
LEMMA AccountsCorrect == Accounts!Spec => []AccountsInv
<1>1. Accounts!Init => AccountsInv
  BY AccountsInvInit
<1>2. AccountsInv /\ [Accounts!Next]_(Accounts!vars) => AccountsInv'
  BY AccountsInvStep
<1>3. QED
  BY <1>1, <1>2, PTL DEF Accounts!Spec

-----------------------------------------------------------------------------
(***************************************************************************)
(* The whole.                                                              *)
(***************************************************************************)

\* Whatever the whole does is a step of each component, or leaves it alone.
THEOREM EachOnItsOwn == PeopleSpec => Sessions!Spec /\ Spec /\ Accounts!Spec
<1>1. PeopleInit => Sessions!Init /\ Init /\ Accounts!Init
  BY DEF PeopleInit
<1>2. [PeopleNext]_peopleVars => [Sessions!Next]_(Sessions!vars)
  BY DEF PeopleNext, peopleVars, sessionVars, Sessions!vars
<1>3. [PeopleNext]_peopleVars => [Next]_vars
  BY DEF PeopleNext, peopleVars
<1>4. [PeopleNext]_peopleVars => [Accounts!Next]_(Accounts!vars)
  BY DEF PeopleNext, peopleVars, accountVars, Accounts!vars, Accounts!input
<1>5. QED
  BY <1>1, <1>2, <1>3, <1>4, PTL DEF PeopleSpec, Sessions!Spec, Spec, Accounts!Spec

\* Every interleaving keeps the types of users, sessions, acceptances and
\* accounts; no session and no acceptance outlives its user.
THEOREM TypesCorrect == PeopleSpec => []TypesOK
<1>1. Spec => []TypeOK
  BY TypeCorrect, ChangesAssumption
<1>2. LimitInv => Sessions!TypeOK
  BY DEF LimitInv
<1>3. AccountsInv => Accounts!TypeOK
  BY DEF AccountsInv, AccountsTyped
<1>4. TypesOK <=> TypeOK /\ Sessions!TypeOK /\ Accounts!TypeOK
  BY DEF TypesOK
<1>5. QED
  BY <1>1, <1>2, <1>3, <1>4, EachOnItsOwn, SessionsCorrect, AccountsCorrect, PTL

\* login: three sessions at most for a user whose logins do not overlap,
\* however many users log in and out beside.
THEOREM LimitHolds == PeopleSpec => []LimitUnlessOverlapping
<1>1. LimitInv => LimitUnlessOverlapping
  BY SameCount DEF LimitInv, LimitKept, Count, LimitUnlessOverlapping, Sessions!LimitUnlessOverlapping
<1>2. QED
  BY <1>1, EachOnItsOwn, SessionsCorrect, PTL

\* However registrations, social logins and changes of address race, the
\* unique columns keep each address and each social identity to one account.
THEOREM OneAccount == PeopleSpec => []OneAccountPerPerson
<1>1. AccountsInv => OneAccountPerPerson
  BY DEF AccountsInv, OneAccountPerPerson
<1>2. QED
  BY <1>1, EachOnItsOwn, AccountsCorrect, PTL

\* UsersService.update: the read-assign-save of requests that do not overlap
\* stores what the answers said, and leaves every other column as it was.
THEOREM AnswersKept == PeopleSpec => []AnswersHold
<1>1. AccountsInv => AnswersHold
  BY DEF AccountsInv, Alone, AnswersHold, Accounts!AnswersHold
<1>2. QED
  BY <1>1, EachOnItsOwn, AccountsCorrect, PTL
=============================================================================
