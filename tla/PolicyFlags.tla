---------------------------- MODULE PolicyFlags -----------------------------
(***************************************************************************)
(* Which privacy policy, or which terms of service, is active and which is *)
(* mandatory: PrivacyPolicyService.create and _updatePolicyStatus,         *)
(* TermsOfServiceService.create, activate and makeMandatory.               *)
(*                                                                         *)
(* The services read a row, then run a transaction that clears the flag in *)
(* every row and saves the row they read.  Postgres runs it at READ        *)
(* COMMITTED: an UPDATE picks its rows in the state committed when it      *)
(* starts, waits for rows that another transaction has written, and leaves *)
(* out those that no longer qualify.  save() compares the entity with the  *)
(* row as it is then and writes the columns that differ.                   *)
(***************************************************************************)
CONSTANTS
  Policies,    \* ids of policy rows, existing or yet to be created
  Admins,      \* slots for admin requests
  None         \* the owner of a row that is not locked, the target of no request

ASSUME NoneAssumption == None \notin Admins \cup Policies

Services == {"privacy", "terms"}

Fields == {"isActive", "isMandatory"}
Flags  == [Fields -> BOOLEAN]
Clear  == [f \in Fields |-> FALSE]

VARIABLES
  service,        \* which of the two services this is about
  present,        \* the policies that have a committed row
  rows,           \* their committed flags
  lock, draft,    \* who has written a row without having committed, and what
  pc,             \* where each admin request stands
  target, entity, \* the row it is about, and the entity it holds in memory
  todo,           \* the fields its transaction has still to clear
  matched,        \* the rows its running UPDATE has picked
  changed,        \* the columns its save() is about to write
  asked,          \* the fields that requests have asked for so far
  overlapped      \* whether two requests have been running at once

history == <<asked, overlapped>>
request == <<target, entity>>
vars == <<present, rows, lock, draft, pc, request, todo, matched, changed,
          service, history>>

InTransaction == {"clear", "picked", "save", "insert", "write", "commit"}

TypeOK ==
  /\ service \in Services
  /\ present \subseteq Policies
  /\ rows \in [Policies -> Flags]
  /\ lock \in [Policies -> Admins \cup {None}]
  /\ draft \in [Policies -> Flags]
  /\ pc \in [Admins -> InTransaction \cup {"idle"}]
  /\ target \in [Admins -> Policies \cup {None}]
  /\ entity \in [Admins -> Flags]
  /\ todo \in [Admins -> SUBSET Fields]
  /\ matched \in [Admins -> SUBSET Policies]
  /\ changed \in [Admins -> SUBSET Fields]
  /\ asked \subseteq Fields
  /\ overlapped \in BOOLEAN
  /\ \A p \in Policies : lock[p] # None => pc[lock[p]] \in InTransaction
  /\ \A a \in Admins : pc[a] \in InTransaction => target[a] \in Policies

\* Some policies exist, and at most one has each flag.
Init ==
  /\ service \in Services
  /\ present \in SUBSET Policies
  /\ rows \in {r \in [Policies -> Flags] :
       /\ \A p \in Policies \ present : r[p] = Clear
       /\ \A f \in Fields, p, q \in Policies : r[p][f] /\ r[q][f] => p = q}
  /\ lock = [p \in Policies |-> None]
  /\ draft = [p \in Policies |-> Clear]
  /\ pc = [a \in Admins |-> "idle"]
  /\ target = [a \in Admins |-> None]
  /\ entity = [a \in Admins |-> Clear]
  /\ todo = [a \in Admins |-> {}]
  /\ matched = [a \in Admins |-> {}]
  /\ changed = [a \in Admins |-> {}]
  /\ asked = {}
  /\ overlapped = FALSE

-----------------------------------------------------------------------------
\* What a sees of a row: its own uncommitted write, or the committed row.
View(a, p) == IF lock[p] = a THEN draft[p] ELSE rows[p]

Free(a, p) == lock[p] \in {a, None}

Goto(a, from, to) == pc[a] = from /\ pc' = [pc EXCEPT ![a] = to]

\* The statements that follow: save() of a row, or the INSERT of a new one.
Rest(p) == IF p \in present THEN "save" ELSE "insert"

Begin(a, p, flags, clears) ==
  /\ target' = [target EXCEPT ![a] = p]
  /\ entity' = [entity EXCEPT ![a] = flags]
  /\ todo' = [todo EXCEPT ![a] = clears]
  /\ Goto(a, "idle", IF clears # {} THEN "clear" ELSE Rest(p))
  /\ overlapped' = (overlapped \/ \E b \in Admins : pc[b] # "idle")
  /\ UNCHANGED <<present, rows, lock, draft, matched, changed, service>>

(***************************************************************************)
(* The row is read, before the transaction.  PrivacyPolicyService returns  *)
(* at once if the flag is as requested; TermsOfServiceService only ever    *)
(* sets a flag and does not look.                                          *)
(***************************************************************************)
UpdatePolicyStatus(a, p, f, value) ==
  /\ p \in present
  /\ IF service = "terms" THEN value ELSE rows[p][f] # value
  /\ asked' = asked \cup {f}
  /\ Begin(a, p, [rows[p] EXCEPT ![f] = value], IF value THEN {f} ELSE {})

\* Mutant: a new version clears only the active flag elsewhere.
CreateClearingActive(a, p, flags) ==
  /\ p \notin present \cup {target[b] : b \in Admins}
  /\ service = "terms" => flags = Clear
  /\ asked' = asked \cup {f \in Fields : flags[f]}
  /\ Begin(a, p, flags, {f \in {"isActive"} : flags[f]})

\* A new version: with any flags in PrivacyPolicyService, in a transaction
\* that clears them elsewhere; with none in TermsOfServiceService.
Create(a, p, flags) ==
  /\ p \notin present \cup {target[b] : b \in Admins}
  /\ service = "terms" => flags = Clear
  /\ asked' = asked \cup {f \in Fields : flags[f]}
  /\ Begin(a, p, flags, {f \in Fields : flags[f]})

\* The field of the next UPDATE: isActive is cleared first.
NextField(a) == IF "isActive" \in todo[a] THEN "isActive" ELSE "isMandatory"

\* UPDATE ... SET f = false WHERE f = true picks its rows.
PickRows(a) ==
  /\ Goto(a, "clear", "picked")
  /\ matched' = [matched EXCEPT ![a] =
                   {p \in present : View(a, p)[NextField(a)]}]
  /\ UNCHANGED <<present, rows, lock, draft, request, todo, changed,
                 service, history>>

\* Mutant: the UPDATE runs on the repository, outside the transaction.
ClearRowsOutside(a) ==
  LET f    == NextField(a)
      left == todo[a] \ {f}
  IN
  /\ Goto(a, "picked", IF left # {} THEN "clear" ELSE Rest(target[a]))
  /\ \A p \in matched[a] : lock[p] = None
  /\ rows' = [p \in Policies |-> IF p \in matched[a]
                                    THEN [rows[p] EXCEPT ![f] = FALSE]
                                    ELSE rows[p]]
  /\ todo' = [todo EXCEPT ![a] = left]
  /\ matched' = [matched EXCEPT ![a] = {}]
  /\ UNCHANGED <<present, lock, draft, request, changed,
                 service, history>>

\* It writes those that still qualify, once none is locked by another.
ClearRows(a) ==
  LET f    == NextField(a)
      hits == {p \in matched[a] : View(a, p)[f]}
      left == todo[a] \ {f}
  IN
  /\ Goto(a, "picked", IF left # {} THEN "clear" ELSE Rest(target[a]))
  /\ \A p \in matched[a] : Free(a, p)
  /\ lock' = [p \in Policies |-> IF p \in hits THEN a ELSE lock[p]]
  /\ draft' = [p \in Policies |->
                 IF p \in hits THEN [View(a, p) EXCEPT ![f] = FALSE]
                               ELSE draft[p]]
  /\ todo' = [todo EXCEPT ![a] = left]
  /\ matched' = [matched EXCEPT ![a] = {}]
  /\ UNCHANGED <<present, rows, request, changed,
                 service, history>>

Differs(a) == {f \in Fields : entity[a][f] # View(a, target[a])[f]}

\* save() selects the row and finds the columns to write.
CompareRow(a) ==
  /\ Goto(a, "save", IF Differs(a) = {} THEN "commit" ELSE "write")
  /\ changed' = [changed EXCEPT ![a] = Differs(a)]
  /\ UNCHANGED <<present, rows, lock, draft, request, todo, matched,
                 service, history>>

\* save() writes them, once the row is not locked by another.
WriteRow(a) ==
  LET p == target[a] IN
  /\ Goto(a, "write", "commit")
  /\ Free(a, p)
  /\ lock' = [lock EXCEPT ![p] = a]
  /\ draft' = [draft EXCEPT ![p] =
                 [f \in Fields |-> IF f \in changed[a] THEN entity[a][f]
                                                       ELSE View(a, p)[f]]]
  /\ changed' = [changed EXCEPT ![a] = {}]
  /\ UNCHANGED <<present, rows, request, todo, matched,
                 service, history>>

\* Mutant: the row is inserted by a request that has already answered.
InsertRowLate(a) ==
  /\ Goto(a, "insert", "idle")
  /\ lock' = [lock EXCEPT ![target[a]] = a]
  /\ draft' = [draft EXCEPT ![target[a]] = entity[a]]
  /\ UNCHANGED <<present, rows, request, todo, matched, changed,
                 service, history>>

InsertRow(a) ==
  /\ Goto(a, "insert", "commit")
  /\ lock' = [lock EXCEPT ![target[a]] = a]
  /\ draft' = [draft EXCEPT ![target[a]] = entity[a]]
  /\ UNCHANGED <<present, rows, request, todo, matched, changed,
                 service, history>>

\* The transaction is over: its locks are released, its request forgotten.
Finish(a) ==
  /\ pc' = [pc EXCEPT ![a] = "idle"]
  /\ target' = [target EXCEPT ![a] = None]
  /\ entity' = [entity EXCEPT ![a] = Clear]
  /\ todo' = [todo EXCEPT ![a] = {}]
  /\ matched' = [matched EXCEPT ![a] = {}]
  /\ changed' = [changed EXCEPT ![a] = {}]
  /\ lock' = [p \in Policies |-> IF lock[p] = a THEN None ELSE lock[p]]
  /\ draft' = [p \in Policies |-> IF lock[p] = a THEN Clear ELSE draft[p]]
  /\ UNCHANGED <<service, history>>

Commit(a) ==
  /\ pc[a] = "commit"
  /\ present' = present \cup {target[a]}
  /\ rows' = [p \in Policies |-> View(a, p)]
  /\ Finish(a)

\* A statement fails, the transaction is the victim of a deadlock, or the
\* process dies: everything is rolled back.
Rollback(a) ==
  /\ pc[a] \in InTransaction
  /\ Finish(a)
  /\ UNCHANGED <<present, rows>>

Transact(a) ==
  \/ PickRows(a)
  \/ ClearRows(a)
  \/ CompareRow(a)
  \/ WriteRow(a)
  \/ InsertRow(a)
  \/ Commit(a)
  \/ Rollback(a)

Next ==
  \E a \in Admins :
    \/ \E p \in Policies :
         \/ \E f \in Fields, value \in BOOLEAN : UpdatePolicyStatus(a, p, f, value)
         \/ \E flags \in Flags : Create(a, p, flags)
    \/ Transact(a)

Spec == Init /\ [][Next]_vars

-----------------------------------------------------------------------------
AtMostOne(f) == \A p, q \in present : rows[p][f] /\ rows[q][f] => p = q

\* TermsOfServiceService.activate: "Activate a specific ToS version and
\* deactivate all others", while no other change of a flag is asked for.
OneActiveTerms ==
  service = "terms" /\ asked \subseteq {"isActive"} => AtMostOne("isActive")

\* At most one version has each flag.
OnlyOneFlagged == \A f \in Fields : AtMostOne(f)

\* "Ensures only one can be active at a time", and one mandatory, as long as no
\* two requests have overlapped: _updatePolicyStatus, create, activate and
\* makeMandatory are right when they run alone, whatever fails in them.
OnlyOneUnlessOverlapping == ~overlapped => OnlyOneFlagged

\* There are two admins at most.
TwoAdmins == \A a, b, c \in Admins : a = b \/ b = c \/ a = c

\* The apps are never left without active terms once there are some, while
\* nobody touches the other flag and no more than two admins are at work:
\* TermsOfServiceService clears a flag only to set it elsewhere in the same
\* transaction.  With both flags asked for this takes requests that do not
\* overlap: save() writes the other flag too, as it was when it was read.  And
\* so it does with three admins: two of them may each clear the row that the
\* other one has found set, and not written.
NeverNone ==
  [][\A f \in Fields :
       /\ service = "terms"
       /\ (asked \subseteq {f} /\ TwoAdmins) \/ ~overlapped
       /\ \E p \in present : rows[p][f]
       => \E p \in present' : rows'[p][f]]_vars
=============================================================================
