------------------------------ MODULE Accounts ------------------------------
(***************************************************************************)
(* The account rows and what AuthService does to them: registration, the   *)
(* first login with Google or Facebook, the one-time code that resets a    *)
(* password, and the changes of password, e-mail and linked account.       *)
(*                                                                         *)
(* Every change of a row goes through UsersService.update: it reads the    *)
(* row, assigns the attributes and saves the whole entity.  save() reads   *)
(* the row again and writes every column in which the entity differs from  *)
(* it, so that a column that was changed in between is changed back.       *)
(*                                                                         *)
(* A request also names the password it chooses and the code it draws.     *)
(***************************************************************************)
EXTENDS Naturals

CONSTANTS
  People,    \* each with one e-mail address and one social identity
  Ids,       \* ids of accounts, existing or yet to be created
  Requests,  \* requests, each used once
  Initial,   \* the password an account has at first
  None,      \* null, and the target of no account
  Lifetime,  \* how long a code is valid
  MaxNow     \* bound on the clock

Columns == {"email", "password", "otp", "social"}
Kinds   == {"register", "social", "forgot", "reset", "change", "set", "credentials"}

Passwords == Requests \cup {Initial}
Codes     == [code : Requests, expires : 0..(MaxNow + Lifetime)]

VARIABLES
  rows,       \* the account rows; None where there is none
  now,        \* the clock
  kind,       \* what each request asks for
  person,     \* for whom
  given,      \* the code or the current password it presents
  target,     \* the account it is about
  attrs,      \* the columns it wants to change, None for the others
  entity,     \* the entity that save() is given
  changed,    \* the columns save() is about to write
  step,       \* its next await, or its answer
  promised,   \* history: the rows as the answers so far have it
  overlapped  \* history: whether two requests, or a request and a deletion, have run at once

input == <<kind, person, given>>
vars  == <<rows, now, input, target, attrs, entity, changed, step, promised, overlapped>>

Steps   == {"find", "findEmail", "create", "update", "save", "write", "mail"}
Answers == {"ok", "refused", "error"}

NoCode == [code |-> None, expires |-> 0]
Nulls  == [email |-> None, password |-> None, otp |-> NoCode, social |-> None]

Init ==
  /\ \E old \in {{}} \cup {{i} : i \in Ids}, p \in People :
       rows = [i \in Ids |-> IF i \in old THEN [Nulls EXCEPT !.email = p, !.password = Initial]
                                         ELSE Nulls]
  /\ now = 0
  /\ kind = [r \in Requests |-> None]
  /\ person = [r \in Requests |-> None]
  /\ given = [r \in Requests |-> None]
  /\ target = [r \in Requests |-> None]
  /\ attrs = [r \in Requests |-> Nulls]
  /\ entity = [r \in Requests |-> Nulls]
  /\ changed = [r \in Requests |-> {}]
  /\ step = [r \in Requests |-> "idle"]
  /\ promised = rows
  /\ overlapped = FALSE

-----------------------------------------------------------------------------
\* There is no account without an e-mail address: the column is NOT NULL.
Exists(i) == rows[i].email # None

Running(r) == step[r] \in Steps

Goto(r, s) == step' = [step EXCEPT ![r] = s]

\* An answer: of a change it promises that just these columns are changed.
Answer(r, answer) ==
  /\ Goto(r, answer)
  /\ UNCHANGED <<promised>>

Assign(row, new) == [c \in Columns |-> IF new[c] = Nulls[c] THEN row[c] ELSE new[c]]

Promise(r) ==
  /\ Goto(r, "ok")
  /\ promised' = [promised EXCEPT ![target[r]] = Assign(@, attrs[r])]

\* Who asks for what.  An account is named by its e-mail address, or by the
\* id in the token (change, set, credentials).
Begin(r, k, p, g) ==
  /\ step[r] = "idle"
  /\ k \in {"reset", "change", "credentials"} <=> g # None
  /\ kind' = [kind EXCEPT ![r] = k]
  /\ person' = [person EXCEPT ![r] = p]
  /\ given' = [given EXCEPT ![r] = g]
  /\ Goto(r, "find")
  /\ overlapped' = (overlapped \/ \E s \in Requests : Running(s))
  /\ UNCHANGED <<rows, now, target, attrs, entity, changed, promised>>

\* The handler has found account i and will change the columns of new.
Update(r, i, new) ==
  /\ target' = [target EXCEPT ![r] = i]
  /\ attrs' = [attrs EXCEPT ![r] = new]
  /\ Goto(r, "update")
  /\ UNCHANGED promised

Refuse(r) ==
  /\ Answer(r, "refused")
  /\ UNCHANGED <<target, attrs>>

Reading == <<rows, now, input, entity, changed, overlapped>>

WithEmail(p)  == {i \in Ids : rows[i].email = p}
WithSocial(p) == {i \in Ids : rows[i].social = p}

-----------------------------------------------------------------------------
\* requestPasswordReset answers the same whether or not there is an account.
RequestPasswordReset(r) ==
  /\ step[r] = "find" /\ kind[r] = "forgot"
  /\ IF WithEmail(person[r]) = {}
       THEN Answer(r, "ok") /\ UNCHANGED <<target, attrs>>
       ELSE \E i \in WithEmail(person[r]) :
              Update(r, i, [Nulls EXCEPT !.otp = [code |-> r, expires |-> now + Lifetime]])
  /\ UNCHANGED Reading

CodeMatches(r, i) == rows[i].otp.code = given[r] /\ now <= rows[i].otp.expires

\* resetPassword compares the code with the account's and looks at its expiry.
\* (It also assigns undefined to otp and otpExpiresAt, which save() skips.)
ResetPassword(r) ==
  /\ step[r] = "find" /\ kind[r] = "reset"
  /\ \/ \E i \in WithEmail(person[r]) :
          /\ CodeMatches(r, i)
          /\ Update(r, i, [Nulls EXCEPT !.password = r])
     \/ /\ \A i \in WithEmail(person[r]) : ~CodeMatches(r, i)
        /\ Refuse(r)
  /\ UNCHANGED Reading

\* changePassword: the current password must match.
ChangePassword(r) ==
  /\ step[r] = "find" /\ kind[r] = "change"
  /\ \E i \in Ids :
       IF Exists(i) /\ rows[i].password = given[r]
         THEN Update(r, i, [Nulls EXCEPT !.password = r])
         ELSE Refuse(r)
  /\ UNCHANGED Reading

\* setPassword: for accounts without one; a missing account is found missing
\* by update.
SetPassword(r) ==
  /\ step[r] = "find" /\ kind[r] = "set"
  /\ \E i \in Ids :
       IF rows[i].password = None
         THEN Update(r, i, [Nulls EXCEPT !.password = r])
         ELSE Refuse(r)
  /\ UNCHANGED Reading

\* changeAdminCredentials: the e-mail address, the password or both.
ChangeAdminCredentials(r) ==
  /\ step[r] = "find" /\ kind[r] = "credentials"
  /\ \E i \in Ids, columns \in {{"email"}, {"password"}, {"email", "password"}} :
       IF /\ Exists(i) /\ rows[i].password = given[r]
          /\ "email" \in columns => WithEmail(person[r]) \subseteq {i}
         THEN Update(r, i, [Nulls EXCEPT !.email = IF "email" \in columns THEN person[r] ELSE None,
                                     !.password = IF "password" \in columns THEN r ELSE None])
         ELSE Refuse(r)
  /\ UNCHANGED Reading

\* validateSocialLogin, for Google and for Facebook: an account that is linked,
FindLinked(r) ==
  /\ step[r] = "find" /\ kind[r] = "social"
  /\ IF WithSocial(person[r]) # {} THEN Answer(r, "ok") ELSE Goto(r, "findEmail")
  /\ UNCHANGED <<Reading, target, attrs, promised>>

\* or one to link, or a new one.
ValidateSocialLogin(r) ==
  /\ step[r] = "findEmail"
  /\ IF WithEmail(person[r]) = {}
       THEN Goto(r, "create") /\ UNCHANGED <<target, attrs, promised>>
       ELSE \E i \in WithEmail(person[r]) :
              Update(r, i, [Nulls EXCEPT !.social = person[r]])
  /\ UNCHANGED Reading

\* register: the address must be free.
Register(r) ==
  /\ step[r] = "find" /\ kind[r] = "register"
  /\ IF WithEmail(person[r]) = {} THEN Goto(r, "create") ELSE Goto(r, "refused")
  /\ UNCHANGED <<Reading, target, attrs, promised>>

-----------------------------------------------------------------------------
\* The unique columns.
Unique(i, row) ==
  \A j \in Ids \ {i} : /\ row.email # rows[j].email
                       /\ row.social # None => row.social # rows[j].social

\* Mutant: nothing but the checks before it keeps an address from being used twice.
CreateUnchecked(r) ==
  LET p   == person[r]
      row == IF kind[r] = "social" THEN [Nulls EXCEPT !.email = p, !.social = p]
                                   ELSE [Nulls EXCEPT !.email = p, !.password = r]
  IN
  /\ step[r] = "create"
  /\ \E i \in Ids :
       /\ ~Exists(i) /\ i \notin {target[s] : s \in Requests}
       /\ rows' = [rows EXCEPT ![i] = row]
       /\ promised' = [promised EXCEPT ![i] = row]
       /\ Goto(r, "ok")
  /\ UNCHANGED <<now, input, target, attrs, entity, changed, overlapped>>

\* usersService.create: the INSERT of a new row with a new id.
Create(r) ==
  LET p   == person[r]
      row == IF kind[r] = "social" THEN [Nulls EXCEPT !.email = p, !.social = p]
                                   ELSE [Nulls EXCEPT !.email = p, !.password = r]
  IN
  /\ step[r] = "create"
  /\ \E i \in Ids :
       /\ ~Exists(i) /\ i \notin {target[s] : s \in Requests}
       /\ IF Unique(i, row)
            THEN /\ rows' = [rows EXCEPT ![i] = row]
                 /\ promised' = [promised EXCEPT ![i] = row]
                 /\ Goto(r, "ok")
            ELSE Answer(r, "error") /\ UNCHANGED rows
  /\ UNCHANGED <<now, input, target, attrs, entity, changed, overlapped>>

\* Mutant: the other columns are not loaded.
ReadForUpdatePartly(r) ==
  /\ step[r] = "update"
  /\ IF Exists(target[r])
       THEN /\ entity' = [entity EXCEPT ![r] =
                 Assign([rows[target[r]] EXCEPT !.social = None], attrs[r])]
            /\ Goto(r, "save") /\ UNCHANGED promised
       ELSE Answer(r, "error") /\ UNCHANGED entity
  /\ UNCHANGED <<rows, now, input, target, attrs, changed, overlapped>>

\* UsersService.update finds the row and assigns the attributes.
ReadForUpdate(r) ==
  /\ step[r] = "update"
  /\ IF Exists(target[r])
       THEN /\ entity' = [entity EXCEPT ![r] = Assign(rows[target[r]], attrs[r])]
            /\ Goto(r, "save") /\ UNCHANGED promised
       ELSE Answer(r, "error") /\ UNCHANGED entity
  /\ UNCHANGED <<rows, now, input, target, attrs, changed, overlapped>>

\* save() selects the row; a row that is gone has every column to be written.
Compare(r) ==
  /\ step[r] = "save"
  /\ changed' = [changed EXCEPT ![r] =
       {c \in Columns : ~Exists(target[r]) \/ entity[r][c] # rows[target[r]][c]}]
  /\ Goto(r, "write")
  /\ UNCHANGED <<rows, now, input, target, attrs, entity, promised, overlapped>>

Done(r) == IF kind[r] = "forgot" THEN Goto(r, "mail") /\ UNCHANGED promised
                                 ELSE Promise(r)

\* The UPDATE of those columns, or the INSERT of all of them.  An UPDATE of a
\* row that has been deleted since the SELECT changes nothing.
Write(r) ==
  LET i   == target[r]
      row == [c \in Columns |-> IF c \in changed[r] THEN entity[r][c] ELSE rows[i][c]]
  IN
  /\ step[r] = "write"
  /\ IF ~Exists(i) /\ changed[r] # Columns
       THEN Done(r) /\ UNCHANGED rows
       ELSE IF Unique(i, row) /\ ~(Exists(i) /\ changed[r] = Columns)
              THEN Done(r) /\ rows' = [rows EXCEPT ![i] = row]
              ELSE Answer(r, "error") /\ UNCHANGED rows
  /\ UNCHANGED <<now, input, target, attrs, entity, changed, overlapped>>

\* The mail with the code is sent, or fails and is logged: the answer is the
\* same.
SendMail(r) ==
  /\ step[r] = "mail"
  /\ Promise(r)
  /\ UNCHANGED <<rows, now, input, target, attrs, entity, changed, overlapped>>

\* DELETE of the user's own profile, or of a user by an admin.
Remove(i) ==
  /\ Exists(i)
  /\ rows' = [rows EXCEPT ![i] = Nulls]
  /\ promised' = [promised EXCEPT ![i] = Nulls]
  /\ overlapped' = (overlapped \/ \E r \in Requests : Running(r))
  /\ UNCHANGED <<now, input, target, attrs, entity, changed, step>>

Tick ==
  /\ now < MaxNow
  /\ now' = now + 1
  /\ UNCHANGED <<rows, input, target, attrs, entity, changed, step, promised, overlapped>>

Handle(r) ==
  \/ RequestPasswordReset(r)
  \/ ResetPassword(r)
  \/ ChangePassword(r)
  \/ SetPassword(r)
  \/ ChangeAdminCredentials(r)
  \/ FindLinked(r)
  \/ ValidateSocialLogin(r)
  \/ Register(r)
  \/ Create(r)
  \/ ReadForUpdate(r)
  \/ Compare(r)
  \/ Write(r)
  \/ SendMail(r)

Next ==
  \/ \E r \in Requests :
       \/ \E k \in Kinds, p \in People, g \in Passwords \cup {None} : Begin(r, k, p, g)
       \/ Handle(r)
  \/ \E i \in Ids : Remove(i)
  \/ Tick

Spec == Init /\ [][Next]_vars

-----------------------------------------------------------------------------
TypeOK ==
  /\ rows \in [Ids -> [email : People \cup {None}, password : Passwords \cup {None},
                       otp : Codes \cup {NoCode}, social : People \cup {None}]]
  /\ now \in 0..MaxNow
  /\ kind \in [Requests -> Kinds \cup {None}]
  /\ person \in [Requests -> People \cup {None}]
  /\ given \in [Requests -> Passwords \cup {None}]
  /\ target \in [Requests -> Ids \cup {None}]
  /\ changed \in [Requests -> SUBSET Columns]
  /\ step \in [Requests -> Steps \cup Answers \cup {"idle"}]
  /\ overlapped \in BOOLEAN

\* However many registrations, first logins and changes of address race, no
\* address and no social identity belongs to two accounts: the checks before
\* the INSERT are not enough, the unique columns are.
OneAccountPerPerson ==
  \A i, j \in Ids : i # j /\ Exists(i) /\ Exists(j) =>
    /\ rows[i].email # rows[j].email
    /\ rows[i].social # None => rows[i].social # rows[j].social

\* While requests do not overlap, an account is just what the answers have
\* said: what was asked for is stored, and a request for one column leaves
\* every other column as it is.
AnswersHold ==
  ~overlapped /\ (\A r \in Requests : ~Running(r)) => rows = promised
=============================================================================
