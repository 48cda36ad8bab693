---------------------------- MODULE PolicyProofs ----------------------------
(***************************************************************************)
(* Proofs about PolicyFlags: its types, for any number of admins, that at  *)
(* most one policy has each flag as long as requests do not overlap, and   *)
(* that two admins at most never leave the apps without terms.             *)
(***************************************************************************)
EXTENDS PolicyFlags, TLAPS

\* What a request sees of a row is a row: View.
LEMMA ViewTyped ==
  ASSUME TypeOK, NEW a \in Admins, NEW p \in Policies
  PROVE  View(a, p) \in [Fields -> BOOLEAN]
  BY DEF TypeOK, View, Flags

\* Every step of every request keeps the types, and a row is locked only by a
\* transaction that is still running.
THEOREM TypeCorrect == Spec => []TypeOK
<1>1. Init => TypeOK
  <2> SUFFICES ASSUME Init PROVE TypeOK
    OBVIOUS
  <2>1. Clear \in Flags
    BY DEF Clear, Flags
  <2>2. /\ rows \in [Policies -> Flags]
        /\ draft \in [Policies -> Flags]
        /\ entity \in [Admins -> Flags]
    <3> HIDE DEF Clear, Flags
    <3>1. QED
      BY <2>1 DEF Init
  <2>3. /\ service \in Services /\ present \subseteq Policies
        /\ asked \subseteq Fields /\ overlapped \in BOOLEAN
    BY DEF Init
  <2>4. /\ lock \in [Policies -> Admins \cup {None}]
        /\ pc \in [Admins -> InTransaction \cup {"idle"}]
        /\ target \in [Admins -> Policies \cup {None}]
        /\ todo \in [Admins -> SUBSET Fields]
        /\ matched \in [Admins -> SUBSET Policies]
        /\ changed \in [Admins -> SUBSET Fields]
    BY DEF Init
  <2>5. /\ \A p \in Policies : lock[p] = None
        /\ \A a \in Admins : pc[a] \notin InTransaction
    BY DEF Init, InTransaction
  <2>6. QED
    BY <2>2, <2>3, <2>4, <2>5 DEF TypeOK
<1>2. TypeOK /\ [Next]_vars => TypeOK'
  <2> SUFFICES ASSUME TypeOK, [Next]_vars
               PROVE  TypeOK'
    OBVIOUS
  <2> USE NoneAssumption DEF TypeOK, Flags, Clear, Fields, InTransaction, request, Services,
      history
  <2>1. ASSUME NEW a \in Admins, NEW p \in Policies, NEW f \in Fields,
               NEW value \in BOOLEAN, UpdatePolicyStatus(a, p, f, value)
        PROVE  TypeOK'
    BY <2>1 DEF UpdatePolicyStatus, Begin, Goto, Rest
  <2>2. ASSUME NEW a \in Admins, NEW p \in Policies, NEW flags \in Flags,
               Create(a, p, flags)
        PROVE  TypeOK'
    BY <2>2 DEF Create, Begin, Goto, Rest
  <2>3. ASSUME NEW a \in Admins, PickRows(a) PROVE TypeOK'
    BY <2>3 DEF PickRows, Goto
  <2>4. ASSUME NEW a \in Admins, ClearRows(a) PROVE TypeOK'
    <3>1. draft' \in [Policies -> [Fields -> BOOLEAN]]
      BY <2>4, ViewTyped DEF ClearRows
    <3>2. /\ lock' \in [Policies -> Admins \cup {None}]
          /\ pc' \in [Admins -> InTransaction \cup {"idle"}]
          /\ pc' = [pc EXCEPT ![a] = pc'[a]]
          /\ pc'[a] \in InTransaction
          /\ \A p \in Policies : lock'[p] # None => lock'[p] \in {a, lock[p]}
      BY <2>4 DEF ClearRows, Goto, Rest
    <3>3. \A p \in Policies : lock'[p] # None => pc'[lock'[p]] \in InTransaction
      BY <3>2
    <3>4. /\ todo' \in [Admins -> SUBSET Fields]
          /\ matched' \in [Admins -> SUBSET Policies]
          /\ UNCHANGED <<present, rows, target, entity, changed, service, history>>
      BY <2>4 DEF ClearRows
    <3>5. \A b \in Admins : pc'[b] \in InTransaction => target[b] \in Policies
      BY <2>4, <3>2 DEF ClearRows, Goto
    <3>6. QED
      BY <3>1, <3>2, <3>3, <3>4, <3>5
  <2>5. ASSUME NEW a \in Admins, CompareRow(a) PROVE TypeOK'
    BY <2>5 DEF CompareRow, Goto, Differs
  <2>6. ASSUME NEW a \in Admins, WriteRow(a) PROVE TypeOK'
    <3>1. View(a, target[a]) \in [Fields -> BOOLEAN]
      BY <2>6, ViewTyped DEF WriteRow, Goto
    <3>2. draft' \in [Policies -> [Fields -> BOOLEAN]]
      <4>1. \A f \in Fields : (IF f \in changed[a] THEN entity[a][f]
                                 ELSE View(a, target[a])[f]) \in BOOLEAN
        BY <3>1
      <4>2. QED
        BY <2>6, <4>1 DEF WriteRow
    <3>3. QED
      BY <2>6, <3>2 DEF WriteRow, Goto
  <2>7. ASSUME NEW a \in Admins, InsertRow(a) PROVE TypeOK'
    BY <2>7 DEF InsertRow, Goto
  <2>8. ASSUME NEW a \in Admins, Commit(a) PROVE TypeOK'
    <3>1. rows' \in [Policies -> [Fields -> BOOLEAN]]
      BY <2>8, ViewTyped DEF Commit
    <3>2. present' \subseteq Policies
      BY <2>8 DEF Commit
    <3>3. QED
      BY <2>8, <3>1, <3>2 DEF Commit, Finish
  <2>9. ASSUME NEW a \in Admins, Rollback(a) PROVE TypeOK'
    BY <2>9 DEF Rollback, Finish
  <2>10. CASE UNCHANGED vars
    BY <2>10 DEF vars
  <2> HIDE DEF TypeOK, Flags, Clear, Fields, InTransaction, request, Services,
               history
  <2>11. QED
    BY <2>1, <2>2, <2>3, <2>4, <2>5, <2>6, <2>7, <2>8, <2>9, <2>10
    DEF Next, Transact
<1>3. QED
  BY <1>1, <1>2, PTL DEF Spec

-----------------------------------------------------------------------------
(***************************************************************************)
(* While no two requests have overlapped there is one running transaction   *)
(* at most (OneBusy).  The flags it holds in memory and has finished        *)
(* clearing are seen raised in no other row (ElsewhereClear), it has raised *)
(* no flag elsewhere (NothingRaised), and before it commits its row has the *)
(* flags it holds (Written).                                                *)
(***************************************************************************)
Busy(a) == pc[a] \in InTransaction

OneBusy == \A a, b \in Admins : Busy(a) /\ Busy(b) => a = b

NothingRaised ==
  \A a \in Admins, q \in Policies, f \in Fields :
    Busy(a) /\ q # target[a] /\ View(a, q)[f] => rows[q][f]

ElsewhereClear ==
  \A a \in Admins, q \in present, f \in Fields :
    Busy(a) /\ q # target[a] /\ entity[a][f] /\ f \notin todo[a]
      => ~View(a, q)[f]

Progress ==
  \A a \in Admins :
    /\ pc[a] = "picked" =>
         matched[a] = {p \in present : View(a, p)[NextField(a)]}
    /\ pc[a] \in {"save", "insert", "write", "commit"} => todo[a] = {}
    /\ pc[a] = "write" => changed[a] = Differs(a)

Written ==
  \A a \in Admins, f \in Fields :
    pc[a] = "commit" => View(a, target[a])[f] = entity[a][f]

SoloParts ==
  OneBusy /\ OnlyOneFlagged /\ NothingRaised /\ ElsewhereClear /\ Progress /\ Written

SoloInv == ~overlapped => SoloParts

\* A request that overlaps nothing starts while no row is locked, with flags
\* that it clears elsewhere or that no other row has.
LEMMA SoloStart ==
  ASSUME TypeOK, TypeOK', OnlyOneFlagged, NEW a \in Admins, NEW p \in Policies,
         NEW flags \in [Fields -> BOOLEAN], NEW clears \in SUBSET Fields,
         Begin(a, p, flags, clears), ~overlapped',
         \A f \in Fields, q \in present :
           flags[f] /\ f \notin clears /\ q # p => ~rows[q][f]
  PROVE  SoloParts'
<1>1. /\ \A b \in Admins : pc[b] = "idle"
      /\ UNCHANGED <<present, rows, lock, draft, matched, changed>>
      /\ pc'[a] \in {"clear", "save", "insert"}
      /\ clears = {} \/ pc'[a] = "clear"
      /\ target'[a] = p /\ entity'[a] = flags /\ todo'[a] = clears
      /\ \A b \in Admins : b # a => pc'[b] = "idle"
  BY DEF Begin, Goto, Rest, TypeOK
<1>2. \A q \in Policies : lock[q] = None
  BY <1>1 DEF TypeOK, InTransaction
<1>3. \A q \in Policies : View(a, q)' = rows[q]
  BY <1>1, <1>2, NoneAssumption DEF View
<1>4. OneBusy' /\ OnlyOneFlagged' /\ NothingRaised'
  BY <1>1, <1>3 DEF OneBusy, Busy, InTransaction, OnlyOneFlagged, AtMostOne,
                    NothingRaised
<1>5. ElsewhereClear'
  BY <1>1, <1>3 DEF ElsewhereClear, Busy, InTransaction, TypeOK
<1>6. Progress' /\ Written'
  BY <1>1 DEF Progress, Written
<1>7. QED
  BY <1>4, <1>5, <1>6 DEF SoloParts

\* A row that is read is committed, and a new row is named by nobody yet: a
\* request starts as SoloStart says.
LEMMA SoloRequest ==
  ASSUME TypeOK, TypeOK', SoloInv, NEW a \in Admins, NEW p \in Policies,
         \/ \E f \in Fields, value \in BOOLEAN : UpdatePolicyStatus(a, p, f, value)
         \/ \E flags \in Flags : Create(a, p, flags)
  PROVE  SoloInv'
<1> SUFFICES ASSUME ~overlapped' PROVE SoloParts'
  BY DEF SoloInv
<1>0. OnlyOneFlagged
  BY DEF SoloInv, SoloParts, UpdatePolicyStatus, Create, Begin, TypeOK
<1>1. ASSUME NEW f \in Fields, NEW value \in BOOLEAN,
             UpdatePolicyStatus(a, p, f, value)
      PROVE  SoloParts'
  <2> DEFINE flags  == [rows[p] EXCEPT ![f] = value]
             clears == IF value THEN {f} ELSE {}
  <2>1. flags \in [Fields -> BOOLEAN] /\ clears \in SUBSET Fields /\ p \in present
    BY <1>1 DEF UpdatePolicyStatus, TypeOK, Flags
  <2>2. \A g \in Fields, q \in present :
          flags[g] /\ g \notin clears /\ q # p => ~rows[q][g]
    <3>1. \A g \in Fields : flags[g] /\ g \notin clears => rows[p][g]
      BY <1>1 DEF TypeOK, Flags
    <3>2. QED
      BY <1>0, <2>1, <3>1 DEF OnlyOneFlagged, AtMostOne
  <2>3. Begin(a, p, flags, clears)
    BY <1>1 DEF UpdatePolicyStatus
  <2> HIDE DEF flags, clears
  <2>4. QED
    BY <2>1, <2>2, <2>3, <1>0, SoloStart
<1>2. ASSUME NEW flags \in Flags, Create(a, p, flags)
      PROVE  SoloParts'
  <2>1. flags \in [Fields -> BOOLEAN]
    BY DEF Flags
  <2> DEFINE clears == {f \in Fields : flags[f]}
  <2>2. Begin(a, p, flags, clears)
    BY <1>2 DEF Create
  <2>3. clears \in SUBSET Fields /\ \A f \in Fields : flags[f] => f \in clears
    OBVIOUS
  <2> HIDE DEF clears
  <2>4. QED
    BY <2>1, <2>2, <2>3, <1>0, SoloStart
<1>3. QED
  BY <1>1, <1>2

\* Every later step of the only running request keeps the parts.
LEMMA SoloTransact ==
  ASSUME TypeOK, TypeOK', SoloInv, NEW a \in Admins, Transact(a)
  PROVE  SoloInv'
<1> SUFFICES ASSUME ~overlapped' PROVE SoloParts'
  BY DEF SoloInv
<1>0. SoloParts /\ Busy(a)
  <2>1. overlapped' = overlapped
    BY DEF Transact, PickRows, ClearRows, CompareRow, WriteRow, InsertRow, Commit,
           Rollback, Finish, history
  <2>2. QED
    BY <2>1 DEF SoloInv, Transact, PickRows, ClearRows, CompareRow, WriteRow,
                InsertRow, Commit, Rollback, Goto, Busy, InTransaction
<1>1. \A b \in Admins : b # a => pc[b] = "idle" /\ pc'[b] = "idle"
  BY <1>0 DEF SoloParts, OneBusy, Busy, TypeOK, Transact, PickRows, ClearRows,
              CompareRow, WriteRow, InsertRow, Commit, Rollback, Finish, Goto
<1>2. \A q \in Policies : lock[q] \in {a, None}
  BY <1>1 DEF TypeOK, InTransaction
<1>3. \A f \in Fields : AtMostOne(f)
  BY <1>0 DEF SoloParts, OnlyOneFlagged
<1>b. OneBusy'
  BY <1>1 DEF OneBusy, Busy, InTransaction
<1>4. NextField(a) \in Fields
  BY DEF NextField, Fields
<1> USE DEF InTransaction, Busy
<1>5. CASE PickRows(a)
  <2>1. /\ pc[a] = "clear" /\ pc'[a] = "picked"
        /\ matched'[a] = {p \in present : View(a, p)[NextField(a)]}
        /\ UNCHANGED <<present, rows, lock, draft, target, entity, todo, changed>>
    BY <1>5 DEF PickRows, Goto, TypeOK, request
  <2>2. NothingRaised' /\ ElsewhereClear' /\ Progress' /\ Written'
    BY <1>0, <1>1, <2>1 DEF SoloParts, NothingRaised, ElsewhereClear, Progress, Written,
                      View, NextField
  <2>3. QED
    BY <1>b, <1>3, <2>1, <2>2 DEF SoloParts, OnlyOneFlagged, AtMostOne, OneBusy
<1>6. CASE ClearRows(a)
  <2> DEFINE f    == NextField(a)
             hits == {p \in matched[a] : View(a, p)[f]}
  <2>1. /\ pc[a] = "picked" /\ pc'[a] \in {"clear", "save", "insert"}
        /\ todo'[a] = todo[a] \ {f}
        /\ pc'[a] # "clear" => todo'[a] = {}
        /\ UNCHANGED <<present, rows, target, entity, changed>>
    BY <1>6 DEF ClearRows, Goto, Rest, TypeOK, request
  <2>2. \A q \in Policies :
          View(a, q)' = IF q \in hits THEN [View(a, q) EXCEPT ![f] = FALSE]
                                     ELSE View(a, q)
    BY <1>2, <1>6, NoneAssumption DEF ClearRows, View, TypeOK
  <2>3. \A q \in present : View(a, q)[f] => q \in hits
    BY <1>0, <2>1 DEF SoloParts, Progress
  <2>4. \A q \in Policies, g \in Fields : View(a, q)'[g] => View(a, q)[g]
    BY <1>4, <2>2, ViewTyped
  <2>5. ASSUME NEW q \in present PROVE ~View(a, q)'[f]
    <3>1. q \in Policies /\ (q \in hits \/ ~View(a, q)[f])
      BY <2>3 DEF TypeOK
    <3>2. q \in Policies /\ View(a, q) \in [Fields -> BOOLEAN]
      BY ViewTyped DEF TypeOK
    <3> HIDE DEF f, hits
    <3>3. f \in Fields
      BY <1>4 DEF f
    <3>4. QED
      BY <2>2, <3>1, <3>2, <3>3
  <2> HIDE DEF f, hits
  <2>6. NothingRaised'
    BY <1>0, <1>1, <2>1, <2>4 DEF SoloParts, NothingRaised
  <2>7. ElsewhereClear'
    BY <1>0, <1>1, <2>1, <2>4, <2>5 DEF SoloParts, ElsewhereClear, TypeOK
  <2>8. Progress' /\ Written'
    BY <1>0, <1>1, <2>1 DEF Progress, Written
  <2>9. QED
    BY <1>b, <1>3, <2>1, <2>6, <2>7, <2>8 DEF SoloParts, OnlyOneFlagged, AtMostOne, OneBusy
<1>7. CASE CompareRow(a)
  <2>1. /\ pc[a] = "save" /\ pc'[a] = (IF Differs(a) = {} THEN "commit" ELSE "write")
        /\ changed'[a] = Differs(a)
        /\ UNCHANGED <<present, rows, lock, draft, target, entity, todo, matched>>
    BY <1>7 DEF CompareRow, Goto, TypeOK, request
  <2>2. NothingRaised' /\ ElsewhereClear'
    BY <1>0, <1>1, <2>1 DEF SoloParts, NothingRaised, ElsewhereClear, View
  <2>3. Progress'
    BY <1>0, <1>1, <2>1 DEF SoloParts, Progress, Differs, View
  <2>4. Written'
    BY <1>0, <1>1, <2>1 DEF Written, Differs, View
  <2>5. QED
    BY <1>b, <1>3, <2>1, <2>2, <2>3, <2>4 DEF SoloParts, OnlyOneFlagged, AtMostOne, OneBusy
<1>8. CASE WriteRow(a) \/ InsertRow(a)
  <2>1. /\ pc[a] \in {"write", "insert"} /\ pc'[a] = "commit" /\ target[a] \in Policies
        /\ UNCHANGED <<present, rows, target, entity, todo>>
    BY <1>8 DEF WriteRow, InsertRow, Goto, TypeOK, request
  <2>2. \A q \in Policies : q # target[a] => View(a, q)' = View(a, q)
    BY <1>8, <2>1 DEF WriteRow, InsertRow, View, TypeOK
  <2>3. \A g \in Fields : View(a, target[a])'[g] = entity[a][g]
    <3>1. CASE WriteRow(a)
      <4>1. View(a, target[a])' =
              [g \in Fields |-> IF g \in Differs(a) THEN entity[a][g]
                                                    ELSE View(a, target[a])[g]]
        BY <1>0, <3>1, <2>1 DEF WriteRow, Goto, View, TypeOK, SoloParts, Progress
      <4>2. QED
        BY <4>1 DEF Differs
    <3>2. CASE InsertRow(a)
      BY <3>2, <2>1 DEF InsertRow, View, TypeOK
    <3>3. QED
      BY <1>8, <3>1, <3>2
  <2>4. NothingRaised' /\ ElsewhereClear' /\ Written'
    BY <1>0, <1>1, <2>1, <2>2, <2>3
    DEF SoloParts, NothingRaised, ElsewhereClear, Written, TypeOK
  <2>5. Progress'
    BY <1>0, <1>1, <2>1 DEF SoloParts, Progress
  <2>6. QED
    BY <1>b, <1>3, <2>1, <2>4, <2>5 DEF SoloParts, OnlyOneFlagged, AtMostOne, OneBusy
<1>9. CASE Commit(a) \/ Rollback(a)
  <2>1. pc'[a] = "idle" /\ \A q \in Policies : lock'[q] = None
    BY <1>2, <1>9 DEF Commit, Rollback, Finish, TypeOK
  <2>2. \A q \in Policies : View(a, q)' = rows'[q]
    BY <2>1, NoneAssumption DEF View
  <2>3. NothingRaised' /\ ElsewhereClear' /\ Progress' /\ Written'
    BY <1>0, <1>1, <2>1, <2>2 DEF NothingRaised, ElsewhereClear, Progress, Written
  <2>4. OnlyOneFlagged'
    <3>1. CASE Commit(a)
      <4> SUFFICES ASSUME NEW g \in Fields, NEW p \in present', NEW q \in present',
                          rows'[p][g], rows'[q][g], p # q, q # target[a]
                   PROVE  FALSE
        BY DEF OnlyOneFlagged, AtMostOne
      <4>1. /\ pc[a] = "commit" /\ todo[a] = {}
            /\ q \in present /\ q \in Policies /\ p \in Policies
            /\ \A r \in Policies : rows'[r] = View(a, r)
        BY <1>0, <3>1 DEF Commit, TypeOK, SoloParts, Progress
      <4>2. CASE p = target[a]
        BY <1>0, <4>1, <4>2 DEF SoloParts, ElsewhereClear, Written
      <4>3. CASE p # target[a]
        <5>1. p \in present /\ rows[p][g] /\ rows[q][g]
          BY <1>0, <3>1, <4>1, <4>3 DEF Commit, SoloParts, NothingRaised
        <5>2. QED
          BY <1>3, <4>1, <5>1 DEF AtMostOne
      <4>4. QED
        BY <4>2, <4>3
    <3>2. CASE Rollback(a)
      BY <1>3, <3>2 DEF Rollback, OnlyOneFlagged, AtMostOne
    <3>3. QED
      BY <1>9, <3>1, <3>2
  <2>5. QED
    BY <1>b, <2>3, <2>4 DEF SoloParts
<1>10. QED
  BY <1>5, <1>6, <1>7, <1>8, <1>9 DEF Transact

\* The parts hold until two requests overlap.
LEMMA SoloAlways == Spec => []SoloInv
<1>1. Init /\ TypeOK => SoloInv
  BY NoneAssumption DEF Init, SoloInv, SoloParts, OneBusy, Busy, OnlyOneFlagged,
     AtMostOne, NothingRaised, ElsewhereClear, Progress, Written, View,
     InTransaction, TypeOK
<1>2. SoloInv /\ TypeOK /\ TypeOK' /\ [Next]_vars => SoloInv'
  <2> SUFFICES ASSUME SoloInv, TypeOK, TypeOK', [Next]_vars
               PROVE  SoloInv'
    OBVIOUS
  <2>1. CASE UNCHANGED vars
    BY <2>1 DEF vars, request, history, SoloInv, SoloParts, OneBusy, Busy,
       OnlyOneFlagged, AtMostOne, NothingRaised, ElsewhereClear, Progress, Written,
       View, Differs, NextField
  <2>2. CASE Next
    BY <2>2, SoloRequest, SoloTransact DEF Next
  <2>3. QED
    BY <2>1, <2>2
<1>3. QED
  BY <1>1, <1>2, TypeCorrect, PTL DEF Spec

\* Until two requests overlap, at most one policy is active and at most one
\* mandatory, whichever statements fail.
THEOREM OneFlagged == Spec => []OnlyOneUnlessOverlapping
<1>1. SoloInv => OnlyOneUnlessOverlapping
  BY DEF SoloInv, SoloParts, OnlyOneUnlessOverlapping
<1>2. QED
  BY <1>1, SoloAlways, PTL

-----------------------------------------------------------------------------
(***************************************************************************)
(* TermsOfServiceService clears a flag only to raise it.  A request that    *)
(* overlaps nothing leaves alone every flag that it does not raise.        *)
(***************************************************************************)
TermsAlone ==
  service = "terms" /\ ~overlapped =>
    \A a \in Admins :
      /\ pc[a] \in {"clear", "picked"} => todo[a] # {}
      /\ \A f \in Fields : Busy(a) /\ ~entity[a][f] =>
           /\ f \notin todo[a]
           /\ target[a] \in present => ~rows[target[a]][f]
           /\ \A q \in present : rows[q][f] => View(a, q)[f]

\* The step of a request keeps TermsAlone.
LEMMA AloneStep ==
  ASSUME TypeOK, SoloInv, TermsAlone, NEW a \in Admins,
         \/ \E p \in Policies :
              \/ \E f \in Fields, value \in BOOLEAN : UpdatePolicyStatus(a, p, f, value)
              \/ \E flags \in Flags : Create(a, p, flags)
         \/ Transact(a)
  PROVE  TermsAlone'
<1> SUFFICES ASSUME service' = "terms", ~overlapped',
                    NEW b \in Admins, Busy(b)'
             PROVE  /\ pc'[b] \in {"clear", "picked"} => todo'[b] # {}
                    /\ \A f \in Fields : ~entity'[b][f] =>
                         /\ f \notin todo'[b]
                         /\ target'[b] \in present' => ~rows'[target'[b]][f]
                         /\ \A q \in present' : rows'[q][f] => View(b, q)'[f]
  BY DEF TermsAlone, Busy, InTransaction
<1> USE DEF InTransaction, Busy
<1>1. service = "terms" /\ ~overlapped
  BY DEF UpdatePolicyStatus, Create, Begin, Transact, PickRows, ClearRows, CompareRow,
         WriteRow, InsertRow, Commit, Rollback, Finish, history, TypeOK
<1>2. ASSUME NEW p \in Policies,
             \/ \E f \in Fields, value \in BOOLEAN : UpdatePolicyStatus(a, p, f, value)
             \/ \E flags \in Flags : Create(a, p, flags)
      PROVE  /\ pc'[b] \in {"clear", "picked"} => todo'[b] # {}
             /\ \A f \in Fields : ~entity'[b][f] =>
                  /\ f \notin todo'[b]
                  /\ target'[b] \in present' => ~rows'[target'[b]][f]
                  /\ \A q \in present' : rows'[q][f] => View(b, q)'[f]
  <2>1. /\ \A c \in Admins : pc[c] = "idle"
        /\ UNCHANGED <<present, rows, lock, draft>>
        /\ a = b
    BY <1>2 DEF UpdatePolicyStatus, Create, Begin, Goto, TypeOK
  <2>2. \A q \in Policies : lock[q] = None
    BY <2>1 DEF TypeOK
  <2>3. \A q \in Policies : View(b, q)' = rows'[q]
    BY <2>1, <2>2, NoneAssumption DEF View
  <2>4. ASSUME NEW f \in Fields, NEW value \in BOOLEAN,
               UpdatePolicyStatus(a, p, f, value)
        PROVE  /\ pc'[b] = "clear" /\ todo'[b] = {f} /\ target'[b] = p
               /\ entity'[b][f] /\ \A g \in Fields \ {f} : entity'[b][g] = rows'[p][g]
    BY <1>1, <2>1, <2>4 DEF UpdatePolicyStatus, Begin, Goto, TypeOK, Flags
  <2>5. ASSUME NEW flags \in Flags, Create(a, p, flags)
        PROVE  /\ pc'[b] = "insert" /\ todo'[b] = {}
               /\ target'[b] = p /\ p \notin present'
    BY <1>1, <2>1, <2>5 DEF Create, Begin, Goto, TypeOK, Rest, Clear
  <2>6. present' \subseteq Policies
    BY <2>1 DEF TypeOK
  <2>7. QED
    BY <1>2, <2>3, <2>4, <2>5, <2>6
<1>3. CASE Transact(a)
  <2>1. pc[a] \in InTransaction
    BY <1>3 DEF Transact, PickRows, ClearRows, CompareRow, WriteRow, InsertRow, Commit,
                Rollback, Goto
  <2>2. a = b /\ \A q \in Policies : lock[q] \in {b, None}
    <3>1. \A c \in Admins : c # a => ~Busy(c)
      BY <1>1, <2>1 DEF SoloInv, SoloParts, OneBusy
    <3>2. \A c \in Admins : c # a => pc'[c] = pc[c]
      BY <1>3 DEF Transact, PickRows, ClearRows, CompareRow, WriteRow, InsertRow, Commit,
                  Rollback, Finish, Goto, TypeOK
    <3>3. QED
      BY <3>1, <3>2 DEF TypeOK
  <2>3. /\ UNCHANGED <<present, rows, target, entity>> /\ pc'[a] # "idle"
        /\ \A f \in Fields : ~entity[b][f] =>
             /\ f \notin todo[b]
             /\ target[b] \in present => ~rows[target[b]][f]
             /\ \A q \in present : rows[q][f] => View(b, q)[f]
    <3>1. ~Commit(a) /\ ~Rollback(a)
      BY <2>2 DEF Commit, Rollback, Finish, TypeOK
    <3>2. QED
      BY <1>1, <1>3, <2>1, <2>2, <3>1
      DEF TermsAlone, Transact, PickRows, ClearRows, CompareRow, WriteRow, InsertRow,
          Goto, request
  <2>4. CASE PickRows(a) \/ CompareRow(a)
    BY <1>1, <2>2, <2>3, <2>4 DEF PickRows, CompareRow, Goto, View, TermsAlone, TypeOK
  <2>5. CASE ClearRows(a)
    <3>1. /\ pc[a] = "picked" /\ NextField(a) \in todo[a]
          /\ todo'[a] = todo[a] \ {NextField(a)}
          /\ pc'[a] = IF todo'[a] # {} THEN "clear" ELSE Rest(target[a])
      BY <1>1, <2>5 DEF ClearRows, Goto, TypeOK, TermsAlone, NextField, Fields
    <3>2. ASSUME NEW f \in Fields, f # NextField(a), NEW q \in Policies
          PROVE  View(b, q)'[f] = View(b, q)[f]
      BY <2>2, <2>5, <3>2, NoneAssumption, ViewTyped DEF ClearRows, View, TypeOK
    <3>3. QED
      BY <2>2, <2>3, <3>1, <3>2 DEF Rest, TypeOK
  <2>6. CASE WriteRow(a) \/ InsertRow(a)
    <3>1. pc'[a] = "commit" /\ todo'[a] = todo[a]
      BY <2>6 DEF WriteRow, InsertRow, Goto, TypeOK
    <3>2. \A q \in Policies : q # target[b] => View(b, q)' = View(b, q)
      BY <2>2, <2>6 DEF WriteRow, InsertRow, View, TypeOK
    <3>3. QED
      BY <2>2, <2>3, <3>1, <3>2 DEF TypeOK
  <2>7. CASE Commit(a) \/ Rollback(a)
    BY <2>2, <2>3, <2>7 DEF Commit, Rollback, Finish, TypeOK
  <2>8. QED
    BY <1>3, <2>4, <2>5, <2>6, <2>7 DEF Transact
<1>4. QED
  BY <1>2, <1>3

(***************************************************************************)
(* Two requests about the terms that overlap, while all requests ask for    *)
(* the same flag f.  No transaction changes another flag (OthersStay), and  *)
(* a new row carries none (CreatesAgree).  A request that raises f has      *)
(* written its own row when it commits, or some row that it leaves alone    *)
(* has f (UpdatesAgree).  The second happens only to a request that found f *)
(* raised in its row by somebody else, and of two requests it happens to    *)
(* one at a time (OneUnwritten): the other has then come and gone.          *)
(***************************************************************************)
Only(f) == service = "terms" /\ asked \subseteq {f}

Updating(a) == Busy(a) /\ target[a] \in present
Creating(a) == Busy(a) /\ target[a] \notin present

Unwritten(a, f) ==
  \/ pc[a] = "commit" /\ lock[target[a]] # a
  \/ pc[a] = "save" /\ lock[target[a]] # a /\ rows[target[a]][f]
  \/ pc[a] = "picked" /\ target[a] \notin matched[a] /\ rows[target[a]][f]

OthersStay(f) ==
  \A g \in Fields \ {f} :
    /\ \A a \in Admins : Updating(a) => entity[a][g] = rows[target[a]][g]
    /\ \A p \in present : lock[p] # None => draft[p][g] = rows[p][g]

CreatesAgree ==
  \A a \in Admins : Creating(a) =>
    /\ pc[a] \in {"insert", "commit"}
    /\ pc[a] = "commit" => lock[target[a]] = a
    /\ \A q \in present : lock[q] # a
    /\ \A b \in Admins : Busy(b) /\ target[b] = target[a] => a = b

Raises(a, f) ==
  /\ entity[a][f]
  /\ pc[a] # "insert"
  /\ pc[a] \in {"clear", "picked"} =>
       todo[a] = {f} /\ \A q \in Policies : lock[q] # a
  /\ pc[a] \in {"save", "write"} => \A q \in Policies : lock[q] = a => ~draft[q][f]
  /\ pc[a] = "write" => f \in changed[a]
  /\ pc[a] = "commit" =>
       IF lock[target[a]] = a THEN draft[target[a]][f]
       ELSE \E q \in present : rows[q][f] /\ lock[q] # a

UpdatesAgree(f) == \A a \in Admins : Updating(a) => Raises(a, f)

OneUnwritten(f) ==
  \A a, b \in Admins :
    Updating(a) /\ Updating(b) /\ Unwritten(a, f) /\ Unwritten(b, f) => a = b

PairParts(f) == OthersStay(f) /\ CreatesAgree /\ UpdatesAgree(f) /\ OneUnwritten(f)

PairInv == TwoAdmins => \A f \in Fields : Only(f) => PairParts(f)

\* A request that starts has not locked or written anything.
LEMMA PairRequest ==
  ASSUME TypeOK, NEW f \in Fields, PairParts(f), service = "terms", asked' \subseteq {f},
         NEW a \in Admins, NEW p \in Policies,
         \/ \E g \in Fields, value \in BOOLEAN : UpdatePolicyStatus(a, p, g, value)
         \/ \E flags \in Flags : Create(a, p, flags)
  PROVE  PairParts(f)'
<1> USE DEF InTransaction, Busy, Updating, Creating
<1>1. /\ pc[a] = "idle" /\ target'[a] = p
      /\ \A b \in Admins : b # a =>
           /\ pc'[b] = pc[b] /\ target'[b] = target[b] /\ entity'[b] = entity[b]
           /\ todo'[b] = todo[b]
      /\ UNCHANGED <<present, rows, lock, draft, matched, changed>>
      /\ \A q \in Policies : lock[q] # a
  BY NoneAssumption DEF UpdatePolicyStatus, Create, Begin, Goto, TypeOK
<1>2. \/ /\ p \in present /\ pc'[a] = "clear" /\ todo'[a] = {f}
         /\ entity'[a][f] /\ \A g \in Fields \ {f} : entity'[a][g] = rows[p][g]
      \/ /\ p \notin present /\ pc'[a] = "insert"
         /\ \A b \in Admins : target[b] # p
  <2>1. ASSUME NEW g \in Fields, NEW value \in BOOLEAN,
               UpdatePolicyStatus(a, p, g, value)
        PROVE  /\ p \in present /\ pc'[a] = "clear" /\ todo'[a] = {f}
               /\ entity'[a][f] /\ \A h \in Fields \ {f} : entity'[a][h] = rows[p][h]
    <3>1. value /\ g = f /\ p \in present
      BY <2>1 DEF UpdatePolicyStatus
    <3>2. Begin(a, p, [rows[p] EXCEPT ![f] = TRUE], {f})
      BY <2>1, <3>1 DEF UpdatePolicyStatus
    <3>3. entity'[a] = [rows[p] EXCEPT ![f] = TRUE] /\ todo'[a] = {f} /\ pc'[a] = "clear"
      BY <3>2 DEF Begin, Goto, TypeOK
    <3>4. rows[p] \in [Fields -> BOOLEAN]
      BY DEF TypeOK, Flags
    <3>5. QED
      BY <3>1, <3>3, <3>4
  <2>2. ASSUME NEW flags \in Flags, Create(a, p, flags)
        PROVE  /\ p \notin present /\ pc'[a] = "insert"
               /\ \A b \in Admins : target[b] # p
    <3>1. p \notin present /\ \A b \in Admins : target[b] # p
      BY <2>2 DEF Create
    <3>2. Begin(a, p, flags, {g \in Fields : flags[g]}) /\ flags = Clear
      BY <2>2 DEF Create
    <3>3. {g \in Fields : flags[g]} = {}
      BY <3>2 DEF Clear
    <3>4. QED
      BY <3>1, <3>2, <3>3 DEF Begin, Goto, TypeOK, Rest
  <2>3. QED
    BY <2>1, <2>2
<1>3. OthersStay(f)'
  BY <1>1, <1>2 DEF PairParts, OthersStay, TypeOK
<1>4. CreatesAgree'
  <2>1. \A b \in Admins : Creating(b) /\ b # a => target[b] # p
    BY <1>2 DEF PairParts, CreatesAgree
  <2>2. QED
    BY <1>1, <1>2, <2>1 DEF PairParts, CreatesAgree, TypeOK
<1>5. UpdatesAgree(f)'
  BY <1>1, <1>2 DEF PairParts, UpdatesAgree, Raises
<1>6. OneUnwritten(f)'
  BY <1>1, <1>2 DEF PairParts, OneUnwritten, Unwritten
<1>7. QED
  BY <1>3, <1>4, <1>5, <1>6 DEF PairParts

\* Clearing the flag elsewhere leaves the request's own row alone if somebody
\* raised the flag there after the rows were picked.
LEMMA PairClear ==
  ASSUME TypeOK, NEW f \in Fields, PairParts(f), NEW a \in Admins,
         PickRows(a) \/ ClearRows(a)
  PROVE  PairParts(f)'
<1> USE DEF InTransaction, Busy, Updating, Creating
<1>1. /\ Updating(a) /\ Raises(a, f) /\ pc[a] \in {"clear", "picked"}
      /\ \A q \in Policies : lock[q] # a /\ View(a, q) = rows[q]
      /\ todo[a] = {f} /\ NextField(a) = f
      /\ target[a] \in Policies
      /\ UNCHANGED <<present, rows, target, entity, changed>>
  <2>1. /\ pc[a] \in {"clear", "picked"}
        /\ UNCHANGED <<present, rows, target, entity, changed>>
    BY DEF PickRows, ClearRows, Goto, request
  <2>2. Updating(a) /\ Raises(a, f) /\ target[a] \in Policies
    BY <2>1 DEF PairParts, CreatesAgree, UpdatesAgree, TypeOK
  <2>3. QED
    BY <2>1, <2>2 DEF Raises, View, NextField, Fields
<1>2. CASE PickRows(a)
  <2>1. /\ pc'[a] = "picked" /\ \A b \in Admins : b # a => pc'[b] = pc[b]
        /\ matched'[a] = {q \in present : rows[q][f]}
        /\ \A b \in Admins : b # a => matched'[b] = matched[b]
        /\ UNCHANGED <<lock, draft, todo>>
    BY <1>1, <1>2 DEF PickRows, Goto, TypeOK
  <2>2. OthersStay(f)' /\ CreatesAgree'
    BY <1>1, <2>1 DEF PairParts, OthersStay, CreatesAgree
  <2>3. UpdatesAgree(f)'
    BY <1>1, <2>1 DEF PairParts, UpdatesAgree, Raises
  <2>4. OneUnwritten(f)'
    BY <1>1, <2>1 DEF PairParts, OneUnwritten, Unwritten
  <2>5. QED
    BY <2>2, <2>3, <2>4 DEF PairParts
<1>3. CASE ClearRows(a)
  <2> DEFINE hits == {q \in matched[a] : rows[q][f]}
  <2>1. /\ pc[a] = "picked" /\ pc'[a] = "save"
        /\ \A b \in Admins : b # a =>
             pc'[b] = pc[b] /\ todo'[b] = todo[b] /\ matched'[b] = matched[b]
        /\ hits \subseteq Policies
        /\ \A q \in hits : lock[q] = None
    BY <1>1, <1>3 DEF ClearRows, Goto, Rest, TypeOK, Free
  <2>2. \A q \in Policies :
          IF q \in hits THEN lock'[q] = a /\ draft'[q] = [rows[q] EXCEPT ![f] = FALSE]
                        ELSE lock'[q] = lock[q] /\ draft'[q] = draft[q]
    BY <1>1, <1>3 DEF ClearRows, TypeOK
  <2>3. \A q \in hits : ~draft'[q][f] /\ \A g \in Fields \ {f} : draft'[q][g] = rows[q][g]
    <3>1. \A q \in Policies : rows[q] \in [Fields -> BOOLEAN]
      BY DEF TypeOK, Flags
    <3> HIDE DEF hits
    <3>2. QED
      BY <2>1, <2>2, <3>1
  <2>4. /\ \A b \in Admins, q \in Policies : b # a =>
             /\ lock'[q] = b <=> lock[q] = b
             /\ lock[q] = b => draft'[q] = draft[q]
        /\ \A q \in Policies : lock'[q] = a <=> q \in hits
    BY <1>1, <2>1, <2>2, NoneAssumption
  <2>5. target[a] \in hits <=> target[a] \in matched[a] /\ rows[target[a]][f]
    OBVIOUS
  <2>6. present \subseteq Policies /\ \A b \in Admins : Busy(b) => target[b] \in Policies
    BY DEF TypeOK
  <2> HIDE DEF hits
  <2>7. OthersStay(f)'
    <3>1. ASSUME NEW g \in Fields \ {f}, NEW q \in present, lock'[q] # None
          PROVE  draft'[q][g] = rows[q][g]
      <4>1. CASE q \in hits
        BY <2>3, <4>1
      <4>2. CASE q \notin hits
        <5>1. lock[q] # None /\ draft'[q] = draft[q]
          BY <2>2, <2>6, <3>1, <4>2
        <5>2. QED
          BY <5>1 DEF PairParts, OthersStay
      <4>3. QED
        BY <4>1, <4>2
    <3>2. ASSUME NEW g \in Fields \ {f}, NEW b \in Admins, Updating(b)'
          PROVE  entity[b][g] = rows[target[b]][g]
      <4>1. Updating(b)
        BY <1>1, <2>1, <3>2
      <4>2. QED
        BY <4>1 DEF PairParts, OthersStay
    <3>3. QED
      BY <1>1, <3>1, <3>2 DEF OthersStay
  <2>8. CreatesAgree'
    BY <1>1, <2>1, <2>4, <2>6 DEF PairParts, CreatesAgree
  <2>9. Raises(a, f)'
    BY <1>1, <2>1, <2>3, <2>4 DEF Raises
  <2>10. ASSUME NEW b \in Admins, b # a, Updating(b) PROVE Raises(b, f)'
    BY <1>1, <2>1, <2>4, <2>6, <2>10 DEF PairParts, UpdatesAgree, Raises
  <2>11. UpdatesAgree(f)'
    BY <1>1, <2>1, <2>9, <2>10 DEF UpdatesAgree
  <2>12. \A b \in Admins : Updating(b) /\ Unwritten(b, f)' => Unwritten(b, f)
    BY <1>1, <2>1, <2>4, <2>5, <2>6 DEF Unwritten
  <2>13. OneUnwritten(f)'
    BY <1>1, <2>1, <2>12 DEF PairParts, OneUnwritten
  <2>14. QED
    BY <2>7, <2>8, <2>11, <2>13 DEF PairParts
<1>4. QED
  BY <1>2, <1>3

\* save() finds either that its row has the flag, cleared by nobody, or that
\* the flag alone is to be written.
LEMMA PairCompare ==
  ASSUME TypeOK, NEW f \in Fields, PairParts(f), NEW a \in Admins, CompareRow(a)
  PROVE  PairParts(f)'
<1> USE DEF InTransaction, Busy, Updating, Creating
<1>1. /\ pc[a] = "save" /\ pc'[a] = IF Differs(a) = {} THEN "commit" ELSE "write"
      /\ changed'[a] = Differs(a)
      /\ \A b \in Admins : b # a => pc'[b] = pc[b] /\ changed'[b] = changed[b]
      /\ UNCHANGED <<present, rows, lock, draft, target, entity, todo, matched>>
  BY DEF CompareRow, Goto, TypeOK, request
<1>2. /\ Updating(a) /\ Raises(a, f)
      /\ target[a] \in Policies /\ target[a] \in present
  BY <1>1 DEF PairParts, CreatesAgree, UpdatesAgree, TypeOK
<1>3. \A g \in Fields \ {f} : View(a, target[a])[g] = entity[a][g]
  BY <1>2, NoneAssumption DEF View, PairParts, OthersStay
<1>4. CASE Differs(a) = {}
  <2>1. View(a, target[a])[f]
    BY <1>2, <1>4 DEF Differs, Raises
  <2>2. lock[target[a]] # a /\ rows[target[a]][f]
    BY <1>1, <1>2, <2>1 DEF View, Raises
  <2>3. Raises(a, f)'
    BY <1>1, <1>2, <1>4, <2>2 DEF Raises
  <2>4. \A b \in Admins : Unwritten(b, f)' => Unwritten(b, f)
    BY <1>1, <2>2 DEF Unwritten
  <2>5. OneUnwritten(f)'
    BY <1>1, <1>2, <1>4, <2>4 DEF PairParts, OneUnwritten
  <2>6. UpdatesAgree(f)'
    BY <1>1, <2>3 DEF PairParts, UpdatesAgree, Raises
  <2>7. OthersStay(f)' /\ CreatesAgree'
    BY <1>1, <1>2, <1>4 DEF PairParts, OthersStay, CreatesAgree
  <2>8. QED
    BY <2>5, <2>6, <2>7 DEF PairParts
<1>5. CASE Differs(a) # {}
  <2>1. f \in Differs(a)
    BY <1>3, <1>5 DEF Differs
  <2>2. Raises(a, f)'
    BY <1>1, <1>2, <1>5, <2>1 DEF Raises
  <2>3. UpdatesAgree(f)'
    BY <1>1, <2>2 DEF PairParts, UpdatesAgree, Raises
  <2>4. OneUnwritten(f)'
    BY <1>1, <1>5 DEF PairParts, OneUnwritten, Unwritten
  <2>5. OthersStay(f)' /\ CreatesAgree'
    BY <1>1, <1>2, <1>5 DEF PairParts, OthersStay, CreatesAgree
  <2>6. QED
    BY <2>3, <2>4, <2>5 DEF PairParts
<1>6. QED
  BY <1>4, <1>5

\* Writing a row, or inserting one, touches no other row.
LEMMA PairWrite ==
  ASSUME TypeOK, NEW f \in Fields, PairParts(f), NEW a \in Admins,
         WriteRow(a) \/ InsertRow(a)
  PROVE  PairParts(f)'
<1> USE DEF InTransaction, Busy, Updating, Creating
<1> DEFINE p == target[a]
<1>1. /\ pc[a] \in {"write", "insert"} /\ pc'[a] = "commit"
      /\ p \in Policies /\ lock'[p] = a
      /\ \A q \in Policies \ {p} : lock'[q] = lock[q] /\ draft'[q] = draft[q]
      /\ \A b \in Admins : b # a => pc'[b] = pc[b] /\ changed'[b] = changed[b]
      /\ UNCHANGED <<present, rows, target, entity, todo, matched>>
  BY DEF WriteRow, InsertRow, Goto, TypeOK, request
<1>2. present \subseteq Policies /\ \A b \in Admins : Busy(b) => target[b] \in Policies
  BY DEF TypeOK
<1>3. /\ p \in present => draft'[p][f] /\ \A g \in Fields \ {f} : draft'[p][g] = rows[p][g]
      /\ p \in present => lock[p] \in {a, None}
  <2>1. CASE WriteRow(a)
    <3>1. /\ pc[a] = "write" /\ lock[p] \in {a, None}
          /\ draft'[p] = [g \in Fields |-> IF g \in changed[a] THEN entity[a][g]
                                                               ELSE View(a, p)[g]]
      BY <1>1, <2>1 DEF WriteRow, Goto, TypeOK, Free
    <3>2. SUFFICES ASSUME p \in present
                   PROVE  draft'[p][f] /\ \A g \in Fields \ {f} : draft'[p][g] = rows[p][g]
      BY <3>1
    <3>3. /\ f \in changed[a] /\ entity[a][f]
          /\ \A g \in Fields \ {f} : entity[a][g] = rows[p][g] /\ View(a, p)[g] = rows[p][g]
      BY <3>1, <3>2, NoneAssumption
      DEF PairParts, UpdatesAgree, Raises, OthersStay, View
    <3>4. QED
      BY <3>1, <3>3
  <2>2. CASE InsertRow(a)
    BY <2>2 DEF InsertRow, Goto, PairParts, UpdatesAgree, Raises
  <2>3. QED
    BY <2>1, <2>2
<1>4. \A b \in Admins, q \in Policies : Updating(b) /\ b # a =>
        /\ lock[q] = b /\ q \in present => q # p
        /\ lock'[q] = b => lock[q] = b /\ draft'[q] = draft[q]
        /\ q \in present => (lock'[q] = b <=> lock[q] = b)
  BY <1>1, <1>3, NoneAssumption
<1> HIDE DEF p
<1>5. OthersStay(f)'
  <2>1. ASSUME NEW g \in Fields \ {f}, NEW q \in present, lock'[q] # None
        PROVE  draft'[q][g] = rows[q][g]
    BY <1>1, <1>2, <1>3, <2>1 DEF PairParts, OthersStay
  <2>2. ASSUME NEW g \in Fields \ {f}, NEW b \in Admins, Updating(b)'
        PROVE  entity[b][g] = rows[target[b]][g]
    <3>1. Updating(b)
      BY <1>1, <2>2
    <3>2. QED
      BY <3>1 DEF PairParts, OthersStay
  <2>3. QED
    BY <1>1, <2>1, <2>2 DEF OthersStay
<1>6. CreatesAgree'
  <2> SUFFICES ASSUME NEW b \in Admins, Creating(b)'
               PROVE  /\ pc'[b] \in {"insert", "commit"}
                      /\ pc'[b] = "commit" => lock'[target[b]] = b
                      /\ \A q \in present : lock'[q] # b
                      /\ \A c \in Admins : Busy(c)' /\ target[c] = target[b] => b = c
    BY <1>1 DEF CreatesAgree
  <2>1. \A c \in Admins : Busy(c)' => Busy(c)
    BY <1>1
  <2>2. /\ Creating(b) /\ pc[b] \in {"insert", "commit"}
        /\ pc[b] = "commit" => lock[target[b]] = b
        /\ \A q \in present : lock[q] # b
        /\ \A c \in Admins : Busy(c)' /\ target[c] = target[b] => b = c
    BY <1>1, <2>1 DEF PairParts, CreatesAgree
  <2>3. CASE b = a
    BY <1>1, <1>2, <2>2, <2>3 DEF p
  <2>4. CASE b # a
    <3>1. target[b] # p /\ target[b] \in Policies
      BY <1>1, <1>2, <2>2, <2>4 DEF p
    <3>2. QED
      BY <1>1, <1>2, <2>2, <2>4, <3>1
  <2>5. QED
    BY <2>3, <2>4
<1>7. ASSUME Updating(a) PROVE Raises(a, f)'
  BY <1>1, <1>3, <1>7 DEF p, PairParts, UpdatesAgree, Raises
<1>8. ASSUME NEW b \in Admins, b # a, Updating(b) PROVE Raises(b, f)'
  BY <1>1, <1>2, <1>4, <1>8 DEF PairParts, UpdatesAgree, Raises
<1>9. UpdatesAgree(f)'
  <2>1. \A b \in Admins : Updating(b)' => Updating(b)
    BY <1>1
  <2>2. QED
    BY <1>7, <1>8, <2>1 DEF UpdatesAgree
<1>10. OneUnwritten(f)'
  <2>1. ~Unwritten(a, f)'
    BY <1>1 DEF Unwritten, p
  <2>2. \A b \in Admins : b # a /\ Updating(b) /\ Unwritten(b, f)' => Unwritten(b, f)
    BY <1>1, <1>2, <1>4 DEF Unwritten
  <2>3. \A b \in Admins : b # a /\ Updating(b)' => Updating(b)
    BY <1>1
  <2>4. QED
    BY <2>1, <2>2, <2>3 DEF PairParts, OneUnwritten
<1>11. QED
  BY <1>5, <1>6, <1>9, <1>10 DEF PairParts

\* A row with the flag outlives every commit: the row of the request, or, when
\* it has written none, the row that it leaves alone.
LEMMA PairWitness ==
  ASSUME TypeOK, NEW f \in Fields, PairParts(f), NEW a \in Admins, Commit(a),
         (\E p \in present : rows[p][f]) \/ Updating(a)
  PROVE  \E p \in present' : rows'[p][f]
<1> USE DEF InTransaction, Busy, Updating, Creating
<1>1. /\ pc[a] = "commit" /\ target[a] \in Policies
      /\ present' = present \cup {target[a]} /\ present \subseteq Policies
      /\ \A q \in Policies : rows'[q] = IF lock[q] = a THEN draft[q] ELSE rows[q]
  BY DEF Commit, TypeOK, View
<1>2. CASE Creating(a)
  BY <1>1, <1>2 DEF PairParts, CreatesAgree
<1>3. CASE Updating(a)
  BY <1>1, <1>3 DEF PairParts, UpdatesAgree, Raises
<1>4. QED
  BY <1>1, <1>2, <1>3

\* When a transaction ends there is at most one other.  If that has not written
\* its row, the row with the flag is now the one just committed.
LEMMA PairEnd ==
  ASSUME TypeOK, TwoAdmins, NEW f \in Fields, PairParts(f), NEW a \in Admins,
         Commit(a) \/ Rollback(a)
  PROVE  PairParts(f)'
<1> USE DEF InTransaction, Busy, Updating, Creating
<1>1. /\ Busy(a) /\ pc'[a] = "idle" /\ target[a] \in Policies
      /\ \A b \in Admins : b # a =>
           /\ pc'[b] = pc[b] /\ target'[b] = target[b] /\ entity'[b] = entity[b]
           /\ todo'[b] = todo[b] /\ matched'[b] = matched[b] /\ changed'[b] = changed[b]
      /\ \A q \in Policies : lock'[q] = IF lock[q] = a THEN None ELSE lock[q]
      /\ \A q \in Policies : lock[q] # a => draft'[q] = draft[q]
      /\ present \subseteq present' /\ present' \subseteq present \cup {target[a]}
      /\ present' \subseteq Policies
  BY DEF Commit, Rollback, Finish, TypeOK
<1>2. \A b \in Admins, q \in Policies : b # a =>
        (lock'[q] = b <=> lock[q] = b) /\ (lock[q] = b => draft'[q] = draft[q])
  BY <1>1, NoneAssumption
<1>3. \A q \in Policies : \/ rows'[q] = rows[q]
                          \/ Commit(a) /\ lock[q] = a /\ rows'[q] = draft[q]
  BY DEF Commit, Rollback, View
<1>4. \A q \in present, g \in Fields \ {f} : rows'[q][g] = rows[q][g]
  BY <1>1, <1>3, NoneAssumption DEF PairParts, OthersStay
<1>5. \A b \in Admins : b # a /\ Busy(b) =>
        (target[b] \in present' <=> target[b] \in present)
  BY <1>1 DEF PairParts, CreatesAgree
<1>6. \A b \in Admins : b # a /\ Busy(b) => target[b] \in Policies
  BY DEF TypeOK
<1>7. OthersStay(f)'
  <2>1. ASSUME NEW g \in Fields \ {f}, NEW q \in present', lock'[q] # None
        PROVE  draft'[q][g] = rows'[q][g]
    <3>1. lock[q] # a /\ lock[q] # None /\ q \in Policies /\ draft'[q] = draft[q]
      BY <1>1, <2>1
    <3>2. q \in present
      <4>1. SUFFICES ASSUME q \notin present PROVE FALSE
        OBVIOUS
      <4>2. Commit(a) /\ q = target[a]
        BY <1>1, <2>1, <4>1 DEF Rollback
      <4>3. pc[a] = "commit" /\ Creating(a)
        BY <1>1, <4>1, <4>2 DEF Commit
      <4>4. QED
        BY <3>1, <4>2, <4>3 DEF PairParts, CreatesAgree
    <3>3. QED
      BY <1>4, <3>1, <3>2 DEF PairParts, OthersStay
  <2>2. ASSUME NEW g \in Fields \ {f}, NEW b \in Admins, Updating(b)'
        PROVE  entity'[b][g] = rows'[target'[b]][g]
    <3>1. b # a /\ Updating(b) /\ target'[b] = target[b] /\ entity'[b] = entity[b]
      BY <1>1, <1>5, <2>2
    <3>2. QED
      BY <1>4, <3>1 DEF PairParts, OthersStay
  <2>3. QED
    BY <2>1, <2>2 DEF OthersStay
<1>8. CreatesAgree'
  <2> SUFFICES ASSUME NEW b \in Admins, Creating(b)'
               PROVE  /\ pc'[b] \in {"insert", "commit"}
                      /\ pc'[b] = "commit" => lock'[target'[b]] = b
                      /\ \A q \in present' : lock'[q] # b
                      /\ \A c \in Admins : Busy(c)' /\ target'[c] = target'[b] => b = c
    BY DEF CreatesAgree
  <2>1. b # a /\ Creating(b) /\ target[b] \in Policies
    BY <1>1, <1>5, <1>6
  <2>2. /\ pc[b] \in {"insert", "commit"}
        /\ pc[b] = "commit" => lock[target[b]] = b
        /\ \A q \in present : lock[q] # b
        /\ \A c \in Admins : Busy(c) /\ target[c] = target[b] => b = c
    BY <2>1 DEF PairParts, CreatesAgree
  <2>3. ASSUME NEW q \in present', q \notin present PROVE lock'[q] # b
    <3>1. Commit(a) /\ q = target[a]
      BY <1>1, <2>3 DEF Rollback
    <3>2. pc[a] = "commit" /\ Creating(a)
      BY <1>1, <2>3, <3>1 DEF Commit
    <3>3. lock[q] = a
      BY <3>1, <3>2 DEF PairParts, CreatesAgree
    <3>4. QED
      BY <1>1, <2>1, <3>1, <3>3, NoneAssumption
  <2>4. QED
    BY <1>1, <1>2, <2>1, <2>2, <2>3
<1>9. UpdatesAgree(f)'
  <2> SUFFICES ASSUME NEW b \in Admins, Updating(b)' PROVE Raises(b, f)'
    BY DEF UpdatesAgree
  <2>1. b # a /\ Updating(b) /\ target[b] \in Policies /\ Raises(b, f)
    BY <1>1, <1>5, <1>6 DEF PairParts, UpdatesAgree
  <2>2. ASSUME pc[b] = "commit", lock[target[b]] # b
        PROVE  \E q \in present' : rows'[q][f] /\ lock'[q] # b
    <3>1. PICK q \in present : rows[q][f] /\ lock[q] # b
      BY <2>1, <2>2 DEF Raises
    <3>2. CASE Creating(a) \/ Rollback(a)
      <4>1. rows'[q] = rows[q]
        BY <1>1, <1>3, <3>2 DEF PairParts, CreatesAgree, Rollback
      <4>2. QED
        BY <1>1, <1>2, <2>1, <3>1, <4>1
    <3>3. CASE Updating(a) /\ Commit(a)
      <4>1. pc[a] = "commit"
        BY <3>3 DEF Commit
      <4>2. lock[target[a]] = a /\ draft[target[a]][f]
        BY <2>1, <2>2, <3>3, <4>1
        DEF PairParts, OneUnwritten, Unwritten, UpdatesAgree, Raises
      <4>3. rows'[target[a]][f] /\ lock'[target[a]] # b
        <5>1. rows'[target[a]] = draft[target[a]] /\ lock'[target[a]] = None
          BY <1>1, <3>3, <4>2 DEF Commit, View
        <5>2. QED
          BY <4>2, <5>1, NoneAssumption
      <4>4. QED
        BY <1>1, <3>3, <4>3
    <3>4. QED
      BY <1>1, <3>2, <3>3
  <2>3. /\ pc'[b] = pc[b] /\ target'[b] = target[b] /\ entity'[b] = entity[b]
        /\ todo'[b] = todo[b] /\ changed'[b] = changed[b]
    BY <1>1, <2>1
  <2>4. lock'[target[b]] = b <=> lock[target[b]] = b
    BY <1>2, <2>1
  <2>5. QED
    BY <1>2, <2>1, <2>2, <2>3, <2>4 DEF Raises
<1>10. OneUnwritten(f)'
  <2>1. ASSUME NEW b \in Admins, NEW c \in Admins, Updating(b)', Updating(c)'
        PROVE  b = c
    BY <1>1, <2>1 DEF TwoAdmins
  <2>2. QED
    BY <2>1 DEF OneUnwritten
<1>11. QED
  BY <1>7, <1>8, <1>9, <1>10 DEF PairParts

\* What has been asked for stays asked for, and only a commit changes a row.
LEMMA StepFrame ==
  ASSUME [Next]_vars
  PROVE  /\ service' = service /\ asked \subseteq asked'
         /\ (\A a \in Admins : ~Commit(a)) => rows' = rows /\ present' = present
<1>1. CASE UNCHANGED vars
  BY <1>1 DEF vars, history
<1>2. ASSUME NEW a \in Admins, NEW p \in Policies, NEW f \in Fields,
             NEW value \in BOOLEAN, UpdatePolicyStatus(a, p, f, value)
      PROVE  UNCHANGED <<service, rows, present>> /\ asked \subseteq asked'
  BY <1>2 DEF UpdatePolicyStatus, Begin
<1>3. ASSUME NEW a \in Admins, NEW p \in Policies, NEW flags \in Flags,
             Create(a, p, flags)
      PROVE  UNCHANGED <<service, rows, present>> /\ asked \subseteq asked'
  BY <1>3 DEF Create, Begin
<1>4. ASSUME NEW a \in Admins, Transact(a)
      PROVE  /\ UNCHANGED <<service, asked>>
             /\ Commit(a) \/ UNCHANGED <<rows, present>>
  BY <1>4 DEF Transact, PickRows, ClearRows, CompareRow, WriteRow, InsertRow, Commit,
              Rollback, Finish, history
<1>5. CASE Next
  BY <1>2, <1>3, <1>4, <1>5 DEF Next
<1>6. QED
  BY <1>1, <1>5

\* Every step keeps the parts.
LEMMA PairStep ==
  ASSUME TypeOK, PairInv, [Next]_vars
  PROVE  PairInv'
<1> SUFFICES ASSUME TwoAdmins, NEW f \in Fields, Only(f)'
             PROVE  PairParts(f)'
  BY DEF PairInv, TwoAdmins
<1>1. Only(f) /\ PairParts(f)
  BY StepFrame DEF Only, PairInv
<1>2. CASE UNCHANGED vars
  BY <1>1, <1>2 DEF vars, request, PairParts, OthersStay, CreatesAgree, UpdatesAgree,
     Raises, OneUnwritten, Unwritten, Updating, Creating, Busy
<1>3. ASSUME NEW a \in Admins, NEW p \in Policies,
             \/ \E g \in Fields, value \in BOOLEAN : UpdatePolicyStatus(a, p, g, value)
             \/ \E flags \in Flags : Create(a, p, flags)
      PROVE  PairParts(f)'
  BY <1>1, <1>3, PairRequest DEF Only
<1>4. ASSUME NEW a \in Admins, Transact(a) PROVE PairParts(f)'
  BY <1>1, <1>4, PairClear, PairCompare, PairWrite, PairEnd DEF Transact
<1>5. QED
  BY <1>2, <1>3, <1>4 DEF Next

\* Once some terms are active, or mandatory, the apps are never left without:
\* until requests overlap, or while two admins ask for that flag alone.
THEOREM TermsStay == Spec => NeverNone
<1> DEFINE Inv == TypeOK /\ SoloInv /\ TermsAlone /\ PairInv
           Steps == \A f \in Fields :
                      /\ service = "terms"
                      /\ (asked \subseteq {f} /\ TwoAdmins) \/ ~overlapped
                      /\ \E p \in present : rows[p][f]
                      => \E p \in present' : rows'[p][f]
<1>1. Init /\ TypeOK /\ SoloInv => Inv
  <2>1. Init => \A a \in Admins : ~Busy(a) /\ pc[a] = "idle"
    BY DEF Init, Busy, InTransaction
  <2>2. Init => TermsAlone
    BY <2>1 DEF TermsAlone
  <2>3. ASSUME Init, NEW f \in Fields PROVE PairParts(f)
    BY <2>1, <2>3 DEF Init, PairParts, OthersStay, CreatesAgree, UpdatesAgree,
       OneUnwritten, Updating, Creating
  <2>4. QED
    BY <2>2, <2>3 DEF PairInv
<1>2. Inv /\ TypeOK' /\ SoloInv' /\ [Next]_vars => Inv'
  <2> SUFFICES ASSUME Inv, [Next]_vars PROVE TermsAlone' /\ PairInv'
    OBVIOUS
  <2>1. CASE UNCHANGED vars
    BY <2>1, PairStep DEF vars, request, history, TermsAlone, Busy, View
  <2>2. CASE Next
    BY <2>2, AloneStep, PairStep DEF Next
  <2>3. QED
    BY <2>1, <2>2
<1>3. Inv /\ [Next]_vars => Steps
  <2> SUFFICES ASSUME Inv, [Next]_vars, NEW f \in Fields, service = "terms",
                      (asked \subseteq {f} /\ TwoAdmins) \/ ~overlapped,
                      NEW p \in present, rows[p][f]
               PROVE  \E q \in present' : rows'[q][f]
    OBVIOUS
  <2>1. ASSUME NEW a \in Admins, Commit(a) PROVE \E q \in present' : rows'[q][f]
    <3>1. CASE asked \subseteq {f} /\ TwoAdmins
      BY <2>1, <3>1, PairWitness DEF PairInv, Only
    <3>2. CASE ~overlapped
      <4>1. /\ pc[a] = "commit" /\ Busy(a) /\ target[a] \in present'
            /\ p \in present' /\ present' \subseteq Policies
            /\ \A q \in Policies : rows'[q] = View(a, q)
        BY <2>1 DEF Commit, Busy, InTransaction, TypeOK
      <4>2. CASE entity[a][f]
        BY <3>2, <4>1, <4>2 DEF SoloInv, SoloParts, Written
      <4>3. CASE ~entity[a][f]
        BY <3>2, <4>1, <4>3 DEF TermsAlone
      <4>4. QED
        BY <4>2, <4>3
    <3>3. QED
      BY <3>1, <3>2
  <2>2. QED
    BY <2>1, StepFrame
<1>4. Spec => []SoloInv
  BY SoloAlways
<1> HIDE DEF Inv
<1>5. [][Steps]_vars <=> NeverNone
  BY DEF NeverNone
<1>6. QED
  BY <1>1, <1>2, <1>3, <1>4, <1>5, TypeCorrect, PTL DEF Spec
=============================================================================
