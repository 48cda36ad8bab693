--------------------------- MODULE PurchaseProofs ---------------------------
(***************************************************************************)
(* Theorems about Purchase, for any number of users, contents, orders and  *)
(* concurrent calls, and under any disturbances, and about the feed that   *)
(* is read from its tables.                                                *)
(***************************************************************************)
EXTENDS Feed, TLAPS

USE DEF AccessTypes, InitiateStages, InFlight, VerifySteps, VerifyAnswers,
        GatewayStates, initVars, verifyVars, grantVars, rowVars, WriteRows,
        StatusOutcome

LEMMA TypeInit == Init => TypeOK
  BY DEF Init, TypeOK

LEMMA TypeNext == TypeOK /\ [Next]_vars => TypeOK'
  <1> SUFFICES ASSUME TypeOK, [Next]_vars
               PROVE  TypeOK'
    OBVIOUS
  <1> USE DEF TypeOK
  <1>1. ASSUME NEW t \in TxRefs, FindUser(t)
        PROVE  TypeOK'
    BY <1>1 DEF FindUser, Advance
  <1>2. ASSUME NEW t \in TxRefs, FindContent(t)
        PROVE  TypeOK'
    BY <1>2 DEF FindContent, Advance
  <1>3. ASSUME NEW t \in TxRefs, CheckAccess(t)
        PROVE  TypeOK'
    BY <1>3 DEF CheckAccess, Advance
  <1>4. ASSUME NEW t \in TxRefs, FindPricing(t)
        PROVE  TypeOK'
    BY <1>4, DaysAssumption DEF FindPricing, Advance
  <1>5. ASSUME NEW t \in TxRefs, InitializeChapa(t)
        PROVE  TypeOK'
    BY <1>5 DEF InitializeChapa, Advance
  <1>6. ASSUME NEW t \in TxRefs, SavePending(t)
        PROVE  TypeOK'
    BY <1>6 DEF SavePending, Advance
  <1>7. ASSUME NEW t \in TxRefs, Pay(t)
        PROVE  TypeOK'
    BY <1>7 DEF Pay
  <1>8. ASSUME NEW v \in Verifiers, NEW t \in TxRefs, BeginVerify(v, t)
        PROVE  TypeOK'
    BY <1>8 DEF BeginVerify
  <1>9. ASSUME NEW v \in Verifiers, ReadPending(v)
        PROVE  TypeOK'
    BY <1>9 DEF ReadPending, Goto
  <1>10. ASSUME NEW v \in Verifiers, LookupPurchase(v)
         PROVE  TypeOK'
    BY <1>10 DEF LookupPurchase, Goto
  <1>11. ASSUME NEW v \in Verifiers, AskChapa(v)
         PROVE  TypeOK'
    BY <1>11 DEF AskChapa, Goto
  <1>12. ASSUME NEW v \in Verifiers, LoadParties(v)
         PROVE  TypeOK'
    BY <1>12 DEF LoadParties, Goto, Expiry
  <1>13. ASSUME NEW v \in Verifiers, Commit(v)
         PROVE  TypeOK'
    BY <1>13 DEF Commit, Goto, ConstraintsHold
  <1>14. ASSUME NEW v \in Verifiers, DropPending(v)
         PROVE  TypeOK'
    BY <1>14 DEF DropPending, Goto
  <1>15. ASSUME NEW c \in Contents, DeleteContent(c)
         PROVE  TypeOK'
    BY <1>15 DEF DeleteContent
  <1>16. ASSUME NEW c \in Contents, StaleSaveContent(c)
         PROVE  TypeOK'
    BY <1>16 DEF StaleSaveContent
  <1>17. ASSUME NEW u \in Users, DeleteUser(u)
         PROVE  TypeOK'
    BY <1>17 DEF DeleteUser
  <1>18. ASSUME NEW u \in Users, StaleSaveUser(u)
         PROVE  TypeOK'
    BY <1>18 DEF StaleSaveUser
  <1>19. ASSUME Crash
         PROVE  TypeOK'
    BY <1>19 DEF Crash
  <1>20. ASSUME Tick
         PROVE  TypeOK'
    BY <1>20 DEF Tick
  <1>21. CASE UNCHANGED vars
    BY <1>21 DEF vars
  <1> QED
    BY <1>1, <1>2, <1>3, <1>4, <1>5, <1>6, <1>7, <1>8, <1>9,
       <1>10, <1>11, <1>12, <1>13, <1>14, <1>15, <1>16, <1>17,
       <1>18, <1>19, <1>20, <1>21
       DEF Next, Initiate, Verify, Surroundings

\* Every reachable state of the purchase component is well typed.
THEOREM TypeCorrect == Spec => []TypeOK
  BY TypeInit, TypeNext, PTL DEF Spec

-----------------------------------------------------------------------------
(***************************************************************************)
(* The inductive invariant behind the safety properties.  NoDoubleGrant,   *)
(* AllOrNothing and AnswersAreFinal are not inductive alone: they need to  *)
(* know where each order and each call stands.                             *)
(***************************************************************************)

\* Rows and payments exist only for orders whose checkout URL is out, and a
\* granted order was paid and has no pending row.
OrdersAgree ==
  \A t \in TxRefs :
    /\ t \in pending \cup purchases => stage[t] = "checkout"
    /\ chapa[t] \in {"paid", "failed"} => stage[t] = "checkout"
    /\ grants[t] > 0 => chapa[t] = "paid" /\ t \notin pending

\* What a running call has learned of its order is still so.
CallsAgree ==
  \A v \in Verifiers :
    /\ vpc[v] \in VerifySteps \cup {"true", "false"}
         => stage[vtx[v]] = "checkout"
    /\ vpc[v] = "lookup" => vtx[v] \notin pending
    /\ vpc[v] \in {"load", "commit"} => chapa[vtx[v]] = "paid"

CoreInv ==
  /\ TypeOK
  /\ OrdersAgree
  /\ CallsAgree
  /\ AllOrNothing
  /\ NoDoubleGrant
  /\ AnswersAreFinal

LEMMA CoreInit == Init => CoreInv
  BY TypeInit
  DEF Init, CoreInv, OrdersAgree, CallsAgree, AllOrNothing, NoDoubleGrant,
      AnswersAreFinal

LEMMA CoreNext == CoreInv /\ [Next]_vars => CoreInv'
  <1> SUFFICES ASSUME CoreInv, [Next]_vars
               PROVE  CoreInv'
    OBVIOUS
  <1> USE TypeNext DEF CoreInv, OrdersAgree, CallsAgree, AllOrNothing,
          NoDoubleGrant, AnswersAreFinal, TypeOK
  <1>1. ASSUME NEW t \in TxRefs, FindUser(t)
        PROVE  CoreInv'
    BY <1>1 DEF FindUser, Advance
  <1>2. ASSUME NEW t \in TxRefs, FindContent(t)
        PROVE  CoreInv'
    BY <1>2 DEF FindContent, Advance
  <1>3. ASSUME NEW t \in TxRefs, CheckAccess(t)
        PROVE  CoreInv'
    BY <1>3 DEF CheckAccess, Advance
  <1>4. ASSUME NEW t \in TxRefs, FindPricing(t)
        PROVE  CoreInv'
    BY <1>4 DEF FindPricing, Advance
  <1>5. ASSUME NEW t \in TxRefs, InitializeChapa(t)
        PROVE  CoreInv'
    BY <1>5 DEF InitializeChapa, Advance
  <1>6. ASSUME NEW t \in TxRefs, SavePending(t)
        PROVE  CoreInv'
    BY <1>6 DEF SavePending, Advance
  <1>7. ASSUME NEW t \in TxRefs, Pay(t)
        PROVE  CoreInv'
    BY <1>7 DEF Pay
  <1>8. ASSUME NEW v \in Verifiers, NEW t \in TxRefs, BeginVerify(v, t)
        PROVE  CoreInv'
    BY <1>8 DEF BeginVerify, Settled
  <1>9. ASSUME NEW v \in Verifiers, ReadPending(v)
        PROVE  CoreInv'
    BY <1>9 DEF ReadPending, Goto
  <1>10. ASSUME NEW v \in Verifiers, LookupPurchase(v)
         PROVE  CoreInv'
    BY <1>10 DEF LookupPurchase, Goto
  <1>11. ASSUME NEW v \in Verifiers, AskChapa(v)
         PROVE  CoreInv'
    BY <1>11 DEF AskChapa, Goto
  <1>12. ASSUME NEW v \in Verifiers, LoadParties(v)
         PROVE  CoreInv'
    BY <1>12 DEF LoadParties, Goto
  <1>13. ASSUME NEW v \in Verifiers, Commit(v)
         PROVE  CoreInv'
    BY <1>13 DEF Commit, Goto, ConstraintsHold, PartiesExist
  <1>14. ASSUME NEW v \in Verifiers, DropPending(v)
         PROVE  CoreInv'
    BY <1>14 DEF DropPending, Goto
  <1>15. ASSUME NEW c \in Contents, DeleteContent(c)
         PROVE  CoreInv'
    BY <1>15 DEF DeleteContent
  <1>16. ASSUME NEW c \in Contents, StaleSaveContent(c)
         PROVE  CoreInv'
    BY <1>16 DEF StaleSaveContent
  <1>17. ASSUME NEW u \in Users, DeleteUser(u)
         PROVE  CoreInv'
    BY <1>17 DEF DeleteUser
  <1>18. ASSUME NEW u \in Users, StaleSaveUser(u)
         PROVE  CoreInv'
    BY <1>18 DEF StaleSaveUser
  <1>19. ASSUME Crash
         PROVE  CoreInv'
    BY <1>19 DEF Crash
  <1>20. ASSUME Tick
         PROVE  CoreInv'
    BY <1>20 DEF Tick
  <1>21. CASE UNCHANGED vars
    BY <1>21 DEF vars
  <1> QED
    BY <1>1, <1>2, <1>3, <1>4, <1>5, <1>6, <1>7, <1>8, <1>9,
       <1>10, <1>11, <1>12, <1>13, <1>14, <1>15, <1>16, <1>17,
       <1>18, <1>19, <1>20, <1>21
       DEF Next, Initiate, Verify, Surroundings

THEOREM CoreCorrect == Spec => []CoreInv
  BY CoreInit, CoreNext, PTL DEF Spec

\* Racing calls of verifyAndGrantAccess grant an order once.
THEOREM GrantedOnce == Spec => []NoDoubleGrant
  BY CoreCorrect, PTL DEF CoreInv

\* Purchase, entitlement and pending row change together or not at all.
THEOREM TransactionAtomic == Spec => []AllOrNothing
  BY CoreCorrect, PTL DEF CoreInv

\* What a call of verifyAndGrantAccess answers is never overturned.
THEOREM AnswersFinal == Spec => []AnswersAreFinal
  BY CoreCorrect, PTL DEF CoreInv

-----------------------------------------------------------------------------
(***************************************************************************)
(* Purchase implements PurchaseLedger.                                     *)
(***************************************************************************)

LEMMA LedgerInitial == Init => Ledger!LedgerInit
  BY DEF Init, Ledger!LedgerInit

LEMMA LedgerStep ==
  CoreInv /\ [Next]_vars => [Ledger!LedgerNext]_(Ledger!ledgerVars)
  <1> SUFFICES ASSUME CoreInv, [Next]_vars
               PROVE  [Ledger!LedgerNext]_(Ledger!ledgerVars)
    OBVIOUS
  <1> DEFINE Placed  == {t \in TxRefs : stage[t] = "checkout"}
             Paid    == {t \in TxRefs : chapa[t] = "paid"}
             Granted == {t \in TxRefs : grants[t] > 0}
  <1>0. ASSUME UNCHANGED <<Placed, Paid, Granted>>
        PROVE  [Ledger!LedgerNext]_(Ledger!ledgerVars)
    BY <1>0 DEF Ledger!ledgerVars
  <1> USE DEF CoreInv, OrdersAgree, CallsAgree, TypeOK
  <1>1. ASSUME NEW t \in TxRefs, FindUser(t) \/ FindContent(t)
                 \/ CheckAccess(t) \/ FindPricing(t)
        PROVE  UNCHANGED <<Placed, Paid, Granted>>
    <2>1. stage'[t] # "checkout" /\ stage[t] # "checkout"
      BY <1>1 DEF FindUser, FindContent, CheckAccess, FindPricing, Advance
    <2>2. \A x \in TxRefs \ {t} : stage'[x] = stage[x]
      BY <1>1 DEF FindUser, FindContent, CheckAccess, FindPricing, Advance
    <2>3. UNCHANGED <<chapa, grants>>
      BY <1>1 DEF FindUser, FindContent, CheckAccess, FindPricing, Advance
    <2> QED
      BY <2>1, <2>2, <2>3
  <1>2. ASSUME NEW t \in TxRefs, InitializeChapa(t)
        PROVE  UNCHANGED <<Placed, Paid, Granted>>
    <2>1. stage[t] = "chapa" /\ chapa[t] # "paid"
      BY <1>2 DEF InitializeChapa, Advance
    <2> QED
      BY <1>2, <2>1 DEF InitializeChapa, Advance
  <1>3. ASSUME NEW t \in TxRefs, SavePending(t)
        PROVE  [Ledger!LedgerNext]_(Ledger!ledgerVars)
    <2>1. UNCHANGED <<Paid, Granted>> /\ stage[t] = "save"
      BY <1>3 DEF SavePending, Advance
    <2>2. CASE stage'[t] = "checkout"
      <3>1. Placed' = Placed \cup {t} /\ t \notin Placed
        BY <1>3, <2>1, <2>2 DEF SavePending, Advance
      <3>2. Ledger!Place(t)
        BY <2>1, <3>1 DEF Ledger!Place
      <3> QED
        BY <3>2 DEF Ledger!LedgerNext
    <2>3. CASE stage'[t] # "checkout"
      <3>1. UNCHANGED Placed
        BY <1>3, <2>1, <2>3 DEF SavePending, Advance
      <3> QED
        BY <2>1, <3>1 DEF Ledger!ledgerVars
    <2> QED
      BY <2>2, <2>3
  <1>4. ASSUME NEW t \in TxRefs, Pay(t)
        PROVE  [Ledger!LedgerNext]_(Ledger!ledgerVars)
    <2>1. UNCHANGED <<Placed, Granted>> /\ t \in Placed \ Paid
      BY <1>4 DEF Pay
    <2>2. CASE chapa'[t] = "paid"
      <3>1. Paid' = Paid \cup {t}
        BY <1>4, <2>2 DEF Pay
      <3>2. Ledger!Settle(t)
        BY <2>1, <3>1 DEF Ledger!Settle
      <3> QED
        BY <3>2 DEF Ledger!LedgerNext
    <2>3. CASE chapa'[t] # "paid"
      <3>1. UNCHANGED Paid
        BY <1>4, <2>1, <2>3 DEF Pay
      <3> QED
        BY <2>1, <3>1 DEF Ledger!ledgerVars
    <2> QED
      BY <2>2, <2>3
  <1>5. ASSUME NEW v \in Verifiers, Commit(v)
        PROVE  [Ledger!LedgerNext]_(Ledger!ledgerVars)
    <2>0. PICK t \in TxRefs : t = vtx[v]
      BY <1>5 DEF Commit, Goto
    <2>1. /\ UNCHANGED <<Placed, Paid>>
          /\ t \in Paid
      BY <1>5, <2>0 DEF Commit, Goto
    <2>2. CASE grants' = [grants EXCEPT ![t] = @ + 1] /\ grants[t] = 0
      <3>1. Granted' = Granted \cup {t} /\ t \notin Granted
        BY <2>1, <2>2
      <3>2. Ledger!Grant(t)
        BY <2>1, <3>1 DEF Ledger!Grant
      <3> QED
        BY <3>2 DEF Ledger!LedgerNext
    <2>3. CASE grants' = [grants EXCEPT ![t] = @ + 1] /\ grants[t] # 0
      <3>1. UNCHANGED Granted
        BY <2>1, <2>3
      <3> QED
        BY <2>1, <3>1 DEF Ledger!ledgerVars
    <2>4. CASE UNCHANGED grants
      BY <2>1, <2>4 DEF Ledger!ledgerVars
    <2> QED
      BY <1>5, <2>0, <2>2, <2>3, <2>4 DEF Commit
  <1>6. ASSUME NEW v \in Verifiers,
               \/ \E t \in TxRefs : BeginVerify(v, t)
               \/ ReadPending(v) \/ LookupPurchase(v) \/ AskChapa(v)
               \/ LoadParties(v) \/ DropPending(v)
        PROVE  UNCHANGED <<Placed, Paid, Granted>>
    BY <1>6 DEF BeginVerify, ReadPending, LookupPurchase, AskChapa,
                LoadParties, DropPending
  <1>7. ASSUME Surroundings
        PROVE  UNCHANGED <<Placed, Paid, Granted>>
    BY <1>7 DEF Surroundings, DeleteContent, StaleSaveContent, DeleteUser,
                StaleSaveUser, Crash, Tick
  <1>8. ASSUME UNCHANGED vars
        PROVE  UNCHANGED <<Placed, Paid, Granted>>
    BY <1>8 DEF vars
  <1> HIDE DEF Placed, Paid, Granted, CoreInv, OrdersAgree, CallsAgree, TypeOK
  <1> QED
    BY <1>0, <1>1, <1>2, <1>3, <1>4, <1>5, <1>6, <1>7, <1>8
    DEF Next, Initiate, Verify

\* Every behaviour of the purchase component is one of the ledger.
THEOREM LedgerImplemented == Spec => ImplementsLedger
  BY LedgerInitial, LedgerStep, CoreCorrect, PTL
  DEF Spec, ImplementsLedger, Ledger!LedgerSpec

-----------------------------------------------------------------------------
(***************************************************************************)
(* Paid access lasts.                                                      *)
(***************************************************************************)

\* A rental's validUntil, as stored and as a call is about to store it, is at
\* least the order's time plus the rental period.
ExpiryInv ==
  /\ \A t \in TxRefs : stage[t] = "checkout" => createdAt[t] =< now
  /\ \A t \in TxRefs :
       grants[t] > 0 /\ order[t].access = "TEMPORARY"
         => validUntil[t] >= createdAt[t] + days[t]
  /\ \A v \in Verifiers :
       vpc[v] = "commit" /\ order[vtx[v]].access = "TEMPORARY"
         => until[v] >= createdAt[vtx[v]] + days[vtx[v]]

LEMMA ExpiryNext == CoreInv /\ ExpiryInv /\ [Next]_vars => ExpiryInv'
  <1> SUFFICES ASSUME CoreInv, ExpiryInv, [Next]_vars
               PROVE  ExpiryInv'
    OBVIOUS
  <1> USE DEF CoreInv, OrdersAgree, CallsAgree, ExpiryInv, TypeOK
  <1>1. ASSUME NEW t \in TxRefs, FindUser(t)
        PROVE  ExpiryInv'
    BY <1>1 DEF FindUser, Advance
  <1>2. ASSUME NEW t \in TxRefs, FindContent(t)
        PROVE  ExpiryInv'
    BY <1>2 DEF FindContent, Advance
  <1>3. ASSUME NEW t \in TxRefs, CheckAccess(t)
        PROVE  ExpiryInv'
    BY <1>3 DEF CheckAccess, Advance
  <1>4. ASSUME NEW t \in TxRefs, FindPricing(t)
        PROVE  ExpiryInv'
    BY <1>4, DaysAssumption DEF FindPricing, Advance
  <1>5. ASSUME NEW t \in TxRefs, InitializeChapa(t)
        PROVE  ExpiryInv'
    BY <1>5 DEF InitializeChapa, Advance
  <1>6. ASSUME NEW t \in TxRefs, SavePending(t)
        PROVE  ExpiryInv'
    BY <1>6 DEF SavePending, Advance
  <1>7. ASSUME NEW t \in TxRefs, Pay(t)
        PROVE  ExpiryInv'
    BY <1>7 DEF Pay
  <1>8. ASSUME NEW v \in Verifiers, NEW t \in TxRefs, BeginVerify(v, t)
        PROVE  ExpiryInv'
    BY <1>8 DEF BeginVerify
  <1>9. ASSUME NEW v \in Verifiers, ReadPending(v)
        PROVE  ExpiryInv'
    BY <1>9 DEF ReadPending, Goto
  <1>10. ASSUME NEW v \in Verifiers, LookupPurchase(v)
         PROVE  ExpiryInv'
    BY <1>10 DEF LookupPurchase, Goto
  <1>11. ASSUME NEW v \in Verifiers, AskChapa(v)
         PROVE  ExpiryInv'
    BY <1>11 DEF AskChapa, Goto
  <1>12. ASSUME NEW v \in Verifiers, LoadParties(v)
         PROVE  ExpiryInv'
    BY <1>12 DEF LoadParties, Goto, Expiry
  <1>13. ASSUME NEW v \in Verifiers, Commit(v)
         PROVE  ExpiryInv'
    BY <1>13 DEF Commit, Goto
  <1>14. ASSUME NEW v \in Verifiers, DropPending(v)
         PROVE  ExpiryInv'
    BY <1>14 DEF DropPending, Goto
  <1>15. ASSUME NEW c \in Contents, DeleteContent(c)
         PROVE  ExpiryInv'
    BY <1>15 DEF DeleteContent
  <1>16. ASSUME NEW c \in Contents, StaleSaveContent(c)
         PROVE  ExpiryInv'
    BY <1>16 DEF StaleSaveContent
  <1>17. ASSUME NEW u \in Users, DeleteUser(u)
         PROVE  ExpiryInv'
    BY <1>17 DEF DeleteUser
  <1>18. ASSUME NEW u \in Users, StaleSaveUser(u)
         PROVE  ExpiryInv'
    BY <1>18 DEF StaleSaveUser
  <1>19. ASSUME Crash
         PROVE  ExpiryInv'
    BY <1>19 DEF Crash
  <1>20. ASSUME Tick
         PROVE  ExpiryInv'
    BY <1>20 DEF Tick
  <1>21. CASE UNCHANGED vars
    BY <1>21 DEF vars
  <1> QED
    BY <1>1, <1>2, <1>3, <1>4, <1>5, <1>6, <1>7, <1>8, <1>9,
       <1>10, <1>11, <1>12, <1>13, <1>14, <1>15, <1>16, <1>17,
       <1>18, <1>19, <1>20, <1>21
       DEF Next, Initiate, Verify, Surroundings

LEMMA ContentInChain == \A c \in Contents : c \in Chain(c)
  BY ContentAssumption DEF Chain

LEMMA AccessLasts == CoreInv /\ ExpiryInv => PaidAccessLasts
  <1> SUFFICES ASSUME CoreInv, ExpiryInv, NEW t \in TxRefs,
                      grants[t] > 0,
                      order[t].content \in contents,
                      \/ order[t].access = "PERMANENT"
                      \/ now < createdAt[t] + days[t]
               PROVE  HasAccess(order[t].user, order[t].content)
    BY DEF PaidAccessLasts
  <1>1. order[t] \in Orders
    BY DEF CoreInv, TypeOK
  <1>2. InForce(t)
    BY <1>1 DEF InForce, ExpiryInv, Orders, CoreInv, TypeOK
  <1>3. order[t].content \in Chain(order[t].content)
    BY <1>1, ContentInChain DEF Orders
  <1> QED
    BY <1>2, <1>3 DEF HasAccess

\* Whoever paid can use the content for ever, or for the whole rental period.
THEOREM AccessCorrect == Spec => []PaidAccessLasts
  <1>1. Init => ExpiryInv
    BY DEF Init, ExpiryInv
  <1>2. Spec => []ExpiryInv
    BY <1>1, ExpiryNext, CoreCorrect, PTL DEF Spec
  <1> QED
    BY <1>2, CoreCorrect, AccessLasts, PTL

(***************************************************************************)
(* ON DELETE CASCADE and the foreign key of parentId keep every present    *)
(* content below present ones.                                             *)
(***************************************************************************)
NoOrphans == \A c \in contents : Parent[c] \in contents \cup {NoContent}

\* checkUserAccess looks up from a content as far as getContentForUser reads
\* down to it: two levels.
LEMMA ChildrenLookUp ==
  ASSUME contents \subseteq Contents, NEW c \in Contents, NEW d \in Children(c)
  PROVE  /\ c \in Chain(d)
         /\ \A e \in Children(d) : c \in Chain(e)
  BY ContentAssumption DEF Children, Chain, Ancestor

LEMMA ChainLooksDown ==
  ASSUME NoOrphans, contents \subseteq Contents,
         NEW c \in contents, NEW b \in Chain(c)
  PROVE  \/ b = c
         \/ c \in Children(b)
         \/ \E d \in Children(b) : c \in Children(d)
  BY ContentAssumption DEF NoOrphans, Children, Chain, Ancestor

\* Whoever bought a series permanently has access to its seasons and to their
\* episodes, however deep and of whatever types the hierarchy is.
THEOREM SeriesUnlocked == Spec => []WholeSeriesUnlocked
  <1>1. TypeOK => WholeSeriesUnlocked
    <2> SUFFICES ASSUME TypeOK, NEW t \in TxRefs, grants[t] > 0,
                        order[t].access = "PERMANENT",
                        NEW season \in Children(order[t].content)
                 PROVE  /\ HasAccess(order[t].user, season)
                        /\ \A episode \in Children(season) :
                             HasAccess(order[t].user, episode)
      BY DEF WholeSeriesUnlocked
    <2>1. /\ order[t].content \in Contents /\ season \in Contents
          /\ contents \subseteq Contents
      BY DEF TypeOK, Orders, Children
    <2>2. order[t].content \in Chain(season)
      BY <2>1, ChildrenLookUp
    <2>3. \A episode \in Children(season) : order[t].content \in Chain(episode)
      BY <2>1, ChildrenLookUp
    <2> QED
      BY <2>2, <2>3 DEF HasAccess, InForce, Children
  <1> QED
    BY <1>1, TypeCorrect, PTL

-----------------------------------------------------------------------------
(***************************************************************************)
(* No payment is lost while the surroundings behave.                       *)
(***************************************************************************)

Calm == Disturbances \cap {"early", "gateway", "database", "staleSave"} = {}

\* PaidOrderKept with what it rests on: a row is dropped only for an order
\* whose payment failed, whose user or content is gone, or that is granted.
KeptInv ==
  /\ \A t \in TxRefs :
       /\ stage[t] = "checkout" /\ chapa[t] = "open" => t \in pending
       /\ chapa[t] = "paid" /\ PartiesExist(t)
            => t \in pending \/ grants[t] > 0
  /\ \A v \in Verifiers :
       /\ vpc[v] \in VerifySteps => chapa[vtx[v]] \in {"paid", "failed"}
       /\ vpc[v] = "drop" => \/ chapa[vtx[v]] = "failed"
                             \/ ~PartiesExist(vtx[v])
                             \/ grants[vtx[v]] > 0

LEMMA KeptNext ==
  Calm /\ CoreInv /\ KeptInv /\ [Next]_vars => KeptInv'
  <1> SUFFICES ASSUME Calm, CoreInv, KeptInv, [Next]_vars
               PROVE  KeptInv'
    OBVIOUS
  <1> USE DEF Calm, CoreInv, OrdersAgree, CallsAgree, AllOrNothing, KeptInv,
          PartiesExist, TypeOK
  <1>1. ASSUME NEW t \in TxRefs, FindUser(t)
        PROVE  KeptInv'
    BY <1>1 DEF FindUser, Advance
  <1>2. ASSUME NEW t \in TxRefs, FindContent(t)
        PROVE  KeptInv'
    BY <1>2 DEF FindContent, Advance
  <1>3. ASSUME NEW t \in TxRefs, CheckAccess(t)
        PROVE  KeptInv'
    BY <1>3 DEF CheckAccess, Advance
  <1>4. ASSUME NEW t \in TxRefs, FindPricing(t)
        PROVE  KeptInv'
    BY <1>4 DEF FindPricing, Advance
  <1>5. ASSUME NEW t \in TxRefs, InitializeChapa(t)
        PROVE  KeptInv'
    BY <1>5 DEF InitializeChapa, Advance
  <1>6. ASSUME NEW t \in TxRefs, SavePending(t)
        PROVE  KeptInv'
    BY <1>6 DEF SavePending, Advance
  <1>7. ASSUME NEW t \in TxRefs, Pay(t)
        PROVE  KeptInv'
    BY <1>7 DEF Pay
  <1>8. ASSUME NEW v \in Verifiers, NEW t \in TxRefs, BeginVerify(v, t)
        PROVE  KeptInv'
    BY <1>8 DEF BeginVerify, Settled
  <1>9. ASSUME NEW v \in Verifiers, ReadPending(v)
        PROVE  KeptInv'
    BY <1>9 DEF ReadPending, Goto
  <1>10. ASSUME NEW v \in Verifiers, LookupPurchase(v)
         PROVE  KeptInv'
    BY <1>10 DEF LookupPurchase, Goto
  <1>11. ASSUME NEW v \in Verifiers, AskChapa(v)
         PROVE  KeptInv'
    BY <1>11 DEF AskChapa, Goto
  <1>12. ASSUME NEW v \in Verifiers, LoadParties(v)
         PROVE  KeptInv'
    BY <1>12 DEF LoadParties, Goto
  <1>13. ASSUME NEW v \in Verifiers, Commit(v)
         PROVE  KeptInv'
    BY <1>13 DEF Commit, Goto, ConstraintsHold
  <1>14. ASSUME NEW v \in Verifiers, DropPending(v)
         PROVE  KeptInv'
    BY <1>14 DEF DropPending, Goto
  <1>15. ASSUME NEW c \in Contents, DeleteContent(c)
         PROVE  KeptInv'
    BY <1>15 DEF DeleteContent
  <1>16. ASSUME NEW c \in Contents, StaleSaveContent(c)
         PROVE  KeptInv'
    BY <1>16 DEF StaleSaveContent
  <1>17. ASSUME NEW u \in Users, DeleteUser(u)
         PROVE  KeptInv'
    BY <1>17 DEF DeleteUser
  <1>18. ASSUME NEW u \in Users, StaleSaveUser(u)
         PROVE  KeptInv'
    BY <1>18 DEF StaleSaveUser
  <1>19. ASSUME Crash
         PROVE  KeptInv'
    BY <1>19 DEF Crash
  <1>20. ASSUME Tick
         PROVE  KeptInv'
    BY <1>20 DEF Tick
  <1>21. CASE UNCHANGED vars
    BY <1>21 DEF vars
  <1> QED
    BY <1>1, <1>2, <1>3, <1>4, <1>5, <1>6, <1>7, <1>8, <1>9,
       <1>10, <1>11, <1>12, <1>13, <1>14, <1>15, <1>16, <1>17,
       <1>18, <1>19, <1>20, <1>21
       DEF Next, Initiate, Verify, Surroundings

\* A paid order keeps its pending row until it is granted, crashes included.
THEOREM OrderKept == Spec => []PaidOrderKept
  <1>1. CASE Calm
    <2>1. Init => KeptInv
      BY DEF Init, KeptInv
    <2>2. CoreInv /\ KeptInv /\ [Next]_vars => KeptInv'
      BY <1>1, KeptNext
    <2>3. KeptInv => PaidOrderKept
      BY DEF KeptInv, PaidOrderKept
    <2> QED
      BY <2>1, <2>2, <2>3, CoreCorrect, PTL DEF Spec
  <1>2. CASE ~Calm
    <2>1. PaidOrderKept
      BY <1>2 DEF Calm, PaidOrderKept
    <2> QED
      BY <2>1, PTL
  <1> QED
    BY <1>1, <1>2

-----------------------------------------------------------------------------
\* The feed.
LEMMA EntitledByOrder ==
  ASSUME NEW u, NEW b \in EntitledIds(u)
  PROVE  \E t \in TxRefs : /\ grants[t] > 0
                           /\ order[t].user = u
                           /\ order[t].content = b
  BY DEF EntitledIds

LEMMA DescendantsClosed ==
  ASSUME NEW c \in Contents, NEW x \in Contents, Parent[x] \in Descendants(c)
  PROVE  x \in Descendants(c)
  BY DEF Descendants

LEMMA OrphansNext == TypeOK /\ NoOrphans /\ [Next]_vars => NoOrphans'
  <1> SUFFICES ASSUME TypeOK, NoOrphans, [Next]_vars
               PROVE  NoOrphans'
    OBVIOUS
  <1>1. ASSUME NEW c \in Contents, DeleteContent(c)
        PROVE  NoOrphans'
    BY <1>1, DescendantsClosed DEF DeleteContent, NoOrphans, TypeOK
  <1>2. ASSUME NEW c \in Contents, StaleSaveContent(c)
        PROVE  NoOrphans'
    BY <1>2 DEF StaleSaveContent, NoOrphans
  <1>3. ASSUME UNCHANGED contents
        PROVE  NoOrphans'
    BY <1>3 DEF NoOrphans
  <1>4. ASSUME NEW t \in TxRefs, Initiate(t) \/ Pay(t)
        PROVE  UNCHANGED contents
    BY <1>4 DEF Initiate, Pay, FindUser, FindContent, CheckAccess,
                FindPricing, InitializeChapa, SavePending
  <1>5. ASSUME NEW v \in Verifiers,
               Verify(v) \/ \E t \in TxRefs : BeginVerify(v, t)
        PROVE  UNCHANGED contents
    BY <1>5 DEF Verify, BeginVerify, ReadPending, LookupPurchase, AskChapa,
                LoadParties, Commit, DropPending
  <1>6. ASSUME \/ \E u \in Users : DeleteUser(u) \/ StaleSaveUser(u)
               \/ Crash
               \/ Tick
        PROVE  UNCHANGED contents
    BY <1>6 DEF DeleteUser, StaleSaveUser, Crash, Tick
  <1> QED
    BY <1>1, <1>2, <1>3, <1>4, <1>5, <1>6 DEF Next, Surroundings, vars

LEMMA OrphansNever == Spec => []NoOrphans
  <1>1. Init => NoOrphans
    BY ContentAssumption DEF Init, NoOrphans
  <1> QED
    BY <1>1, OrphansNext, TypeCorrect, PTL DEF Spec

\* As far as something is published, every view of the feed lets in whom
\* checkUserAccess says has access.
THEOREM OwnersSee == Spec => []OwnerNotLockedOut
  <1>1. TypeOK /\ NoOrphans => OwnerNotLockedOut
    <2> SUFFICES ASSUME TypeOK, NoOrphans, NEW u \in Users, NEW c \in Contents,
                        HasAccess(u, c), NEW published \in SUBSET contents
                 PROVE  /\ \A root \in published :
                             c \in Page(published, root) =>
                               c \in DetailUnlocks(u, published, root)
                        /\ Parent[c] = NoContent =>
                             \A types \in TypeFilters(TopLevelTypes) :
                               c \in Selected(published, types) =>
                                 c \in FeedUnlocks(u, published, types)
                        /\ \A b \in published \cap Chain(c) \cap EntitledIds(u) :
                             /\ b \in Library(u, published, ContentTypes)
                             /\ c \in Page(published, b)
      BY DEF OwnerNotLockedOut
    <2>1. PICK t \in TxRefs : /\ grants[t] > 0
                              /\ order[t].user = u
                              /\ order[t].content \in Chain(c)
      BY DEF HasAccess, InForce
    <2>2. order[t].content \in EntitledIds(u) /\ c \in contents
      BY <2>1 DEF EntitledIds, HasAccess
    <2>3. ASSUME NEW root \in published, c \in Page(published, root)
          PROVE  c \in DetailUnlocks(u, published, root)
      BY <2>1, <2>2, <2>3 DEF DetailUnlocks
    <2>4. ASSUME Parent[c] = NoContent, NEW types \in TypeFilters(TopLevelTypes),
                 c \in Selected(published, types)
          PROVE  c \in FeedUnlocks(u, published, types)
      <3>1. Chain(c) = {c}
        BY <2>4, ContentAssumption DEF Chain, Ancestor
      <3> QED
        BY <2>1, <2>2, <2>4, <3>1 DEF FeedUnlocks
    <2>5. ASSUME NEW b \in published \cap Chain(c) \cap EntitledIds(u)
          PROVE  /\ b \in Library(u, published, ContentTypes)
                 /\ c \in Page(published, b)
      <3>1. b \in Contents /\ contents \subseteq Contents
        BY DEF TypeOK
      <3>2. Kind[b] \in ContentTypes
        BY <3>1, ContentAssumption
      <3>3. b \in Library(u, published, ContentTypes)
        BY <3>2 DEF Library, Selected
      <3>4. \/ b = c
            \/ c \in Children(b)
            \/ \E d \in Children(b) : c \in Children(d)
        BY <2>2, <3>1, ChainLooksDown
      <3>5. c \in Page(published, b)
        BY <3>4 DEF Page
      <3> QED
        BY <3>3, <3>5
    <2> QED
      BY <2>3, <2>4, <2>5
  <1> QED
    BY <1>1, TypeCorrect, OrphansNever, PTL

\* Behind everything a view unlocks is a payment of the same user.
THEOREM ViewsArePaid == Spec => []NothingUnpaidUnlocked
  <1>1. CoreInv => NothingUnpaidUnlocked
    <2> SUFFICES ASSUME CoreInv, NEW u \in Users,
                        NEW c \in Unlocked(u, contents)
                                    \cup Library(u, contents, ContentTypes)
                 PROVE  \E t \in TxRefs : /\ order[t].user = u
                                          /\ order[t].content \in Chain(c)
                                          /\ chapa[t] = "paid"
      BY DEF NothingUnpaidUnlocked
    <2>1. contents \subseteq Contents
      BY DEF CoreInv, TypeOK
    <2>2. PICK b \in EntitledIds(u) : b \in Chain(c)
      <3>1. CASE \E root \in contents : c \in DetailUnlocks(u, contents, root)
        BY <3>1 DEF DetailUnlocks
      <3>2. CASE c \in Selected(contents, ContentTypes) \cap EntitledIds(u)
        BY <2>1, <3>2, ContentInChain DEF Selected
      <3> QED
        BY <3>1, <3>2 DEF Unlocked, FeedUnlocks, Library
    <2>3. PICK t \in TxRefs : /\ grants[t] > 0
                              /\ order[t].user = u
                              /\ order[t].content = b
      BY <2>2, EntitledByOrder
    <2>4. chapa[t] = "paid"
      BY <2>3 DEF CoreInv, OrdersAgree
    <2> QED
      BY <2>2, <2>3, <2>4
  <1> QED
    BY <1>1, CoreCorrect, PTL
=============================================================================
