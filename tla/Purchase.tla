------------------------------ MODULE Purchase ------------------------------
(***************************************************************************)
(* The purchase of locked content: PurchaseService.initiatePurchase and    *)
(* PurchaseService.verifyAndGrantAccess, the access check of               *)
(* EntitlementService, the tables they share and the Chapa gateway as far  *)
(* as the service uses it.  Every await of a handler is a step of its own, *)
(* so that any number of handlers interleave at every await.               *)
(*                                                                         *)
(* A request to initiate a purchase is named by the tx_ref it will draw:   *)
(* 128 random bits, so no two requests draw the same one.                  *)
(***************************************************************************)
EXTENDS Naturals

CONSTANTS
  Users,         \* ids of user rows
  Emailed,       \* the users whose row has an e-mail address
  Contents,      \* ids of content rows
  NoContent,     \* the null parentId
  Parent,        \* Content.parentId
  Kind,          \* Content.type
  TxRefs,        \* transaction references, one per initiate request
  Verifiers,     \* slots for running calls of verifyAndGrantAccess
  NoTx,          \* the tx_ref of a slot that was never used
  Durations,     \* rental periods in days that admins set
  MaxNow,        \* bound on the clock, in days
  Disturbances   \* what may go wrong around the handlers in this instance

AccessTypes == {"TEMPORARY", "PERMANENT"}

ContentTypes ==
  {"MOVIE", "MUSIC_VIDEO", "SERIES", "SEASON", "EPISODE", "DAWAH",
   "DOCUMENTARY", "PROPHET_HISTORY", "PROPHET_HISTORY_EPISODE", "BOOK"}

\* The Postgres enum of the contentScope columns.
EntitlementContentScope == {"EPISODE", "SEASON", "SERIES", "BOOK", "MOVIE"}

(***************************************************************************)
(* early     a verify call arrives before the payment is settled           *)
(* gateway   a call to Chapa fails                                         *)
(* database  a write statement fails                                       *)
(* crash     the server process dies and is restarted                      *)
(* deletion  users and contents are deleted                                *)
(* staleSave a save() of a row read before its deletion inserts it again   *)
(***************************************************************************)
AllDisturbances ==
  {"early", "gateway", "database", "crash", "deletion", "staleSave"}

ASSUME UsersAssumption   == Emailed \subseteq Users
ASSUME ContentAssumption == /\ NoContent \notin Contents
                            /\ Parent \in [Contents -> Contents \cup {NoContent}]
                            /\ Kind \in [Contents -> ContentTypes]
ASSUME TxAssumption      == NoTx \notin TxRefs
ASSUME DaysAssumption    == Durations \subseteq Nat \ {0}
ASSUME ClockAssumption   == MaxNow \in Nat
ASSUME FaultAssumption   == Disturbances \subseteq AllDisturbances

VARIABLES
  users, contents, \* rows of the user and content tables
  reinserted,      \* contents that a stale save has inserted again
  order,           \* who buys what: the arguments of each initiate request
  stage,           \* where each initiate request stands
  days,            \* durationDays of the price the request found
  createdAt,       \* PendingTransaction.createdAt
  pending,         \* tx_refs with a row in pending_transaction
  purchases,       \* chapaTransactionIds with a row in purchase
  grants,          \* number of entitlement rows inserted for each tx_ref
  validUntil,      \* their validUntil, 0 for null
  chapa,           \* the gateway's own state of the transaction
  vpc, vtx, until, \* verify calls: where they stand, tx_ref, expiresAt
  now              \* the clock, in days

initVars   == <<stage, days>>
verifyVars == <<vpc, vtx, until>>
grantVars  == <<purchases, grants, validUntil>>
rowVars    == <<users, contents, reinserted>>
vars == <<rowVars, order, initVars, createdAt, pending, grantVars, chapa,
          verifyVars, now>>

InitiateStages == {"unused", "content", "access", "pricing", "chapa", "save",
                   "checkout", "rejected", "failed"}
InFlight       == {"content", "access", "pricing", "chapa", "save"}
VerifySteps    == {"read", "lookup", "ask", "load", "commit", "drop"}
VerifyAnswers  == {"true", "false", "error"}
GatewayStates  == {"none", "open", "paid", "failed"}

Orders == [user : Users, content : Contents, access : AccessTypes]

TypeOK ==
  /\ users \subseteq Users
  /\ contents \subseteq Contents
  /\ reinserted \subseteq Contents
  /\ order \in [TxRefs -> Orders]
  /\ stage \in [TxRefs -> InitiateStages]
  /\ days \in [TxRefs -> Nat]
  /\ createdAt \in [TxRefs -> Nat]
  /\ pending \subseteq TxRefs
  /\ purchases \subseteq TxRefs
  /\ grants \in [TxRefs -> Nat]
  /\ validUntil \in [TxRefs -> Nat]
  /\ chapa \in [TxRefs -> GatewayStates]
  /\ vpc \in [Verifiers -> VerifySteps \cup VerifyAnswers \cup {"idle"}]
  /\ vtx \in [Verifiers -> TxRefs \cup {NoTx}]
  /\ \A v \in Verifiers : vpc[v] # "idle" => vtx[v] \in TxRefs
  /\ until \in [Verifiers -> Nat]
  /\ now \in Nat

Init ==
  /\ users = Users
  /\ contents = Contents
  /\ reinserted = {}
  /\ order \in [TxRefs -> Orders]
  /\ stage = [t \in TxRefs |-> "unused"]
  /\ days = [t \in TxRefs |-> 0]
  /\ createdAt = [t \in TxRefs |-> 0]
  /\ pending = {}
  /\ purchases = {}
  /\ grants = [t \in TxRefs |-> 0]
  /\ validUntil = [t \in TxRefs |-> 0]
  /\ chapa = [t \in TxRefs |-> "none"]
  /\ vpc = [v \in Verifiers |-> "idle"]
  /\ vtx = [v \in Verifiers |-> NoTx]
  /\ until = [v \in Verifiers |-> 0]
  /\ now = 0

-----------------------------------------------------------------------------
(***************************************************************************)
(* EntitlementService.checkUserAccess                                      *)
(***************************************************************************)

Ancestor(c) == IF c = NoContent THEN NoContent ELSE Parent[c]

\* Mutant: the relation parent.parent is not loaded.
ChainOfTwo(c) == {c, Ancestor(c)} \ {NoContent}

\* idsToCheck: the content, its parent and its grandparent.
Chain(c) == {c, Ancestor(c), Ancestor(Ancestor(c))} \ {NoContent}

\* Content.children
Children(c) == {d \in contents : Parent[d] = c}

\* An entitlement row of u that is in force: permanent, or not yet expired.
InForce(t) ==
  /\ grants[t] > 0
  /\ order[t].access = "PERMANENT" \/ validUntil[t] > now

HasAccess(u, c) ==
  /\ c \in contents
  /\ \E t \in TxRefs : /\ order[t].user = u
                       /\ order[t].content \in Chain(c)
                       /\ InForce(t)

-----------------------------------------------------------------------------
(***************************************************************************)
(* PurchaseService.initiatePurchase                                        *)
(***************************************************************************)

Advance(t, from, to) == /\ stage[t] = from
                        /\ stage' = [stage EXCEPT ![t] = to]

\* The request arrives and the user row is read.
FindUser(t) ==
  /\ Advance(t, "unused",
             IF order[t].user \in users \cap Emailed THEN "content"
                                                     ELSE "rejected")
  /\ UNCHANGED <<rowVars, order, days, createdAt, pending, grantVars, chapa,
                 verifyVars, now>>

FindContent(t) ==
  /\ Advance(t, "content",
             IF order[t].content \in contents THEN "access" ELSE "rejected")
  /\ UNCHANGED <<rowVars, order, days, createdAt, pending, grantVars, chapa,
                 verifyVars, now>>

CheckAccess(t) ==
  /\ Advance(t, "access",
             IF HasAccess(order[t].user, order[t].content) THEN "rejected"
                                                           ELSE "pricing")
  /\ UNCHANGED <<rowVars, order, days, createdAt, pending, grantVars, chapa,
                 verifyVars, now>>

(***************************************************************************)
(* Admins lock, price and unlock content at any time: what the request has *)
(* read of isLocked and reads of the active price is an arbitrary input.   *)
(* Either it is not for sale in this way, or there is a price, with a      *)
(* durationDays exactly when it is the price of a rental.                  *)
(***************************************************************************)
FindPricing(t) ==
  /\ \/ Advance(t, "pricing", "rejected") /\ UNCHANGED days
     \/ /\ Advance(t, "pricing", "chapa")
        /\ IF order[t].access = "TEMPORARY"
             THEN \E d \in Durations : days' = [days EXCEPT ![t] = d]
             ELSE UNCHANGED days
  /\ UNCHANGED <<rowVars, order, createdAt, pending, grantVars, chapa,
                 verifyVars, now>>

\* POST transaction/initialize.
InitializeChapa(t) ==
  /\ \/ /\ Advance(t, "chapa", "save")
        /\ chapa' = [chapa EXCEPT ![t] = "open"]
     \/ /\ "gateway" \in Disturbances
        /\ Advance(t, "chapa", "failed")
        /\ UNCHANGED chapa
  /\ UNCHANGED <<rowVars, order, days, createdAt, pending, grantVars,
                 verifyVars, now>>

(***************************************************************************)
(* The scope written to the row is the content's type, cast and not        *)
(* converted: Postgres refuses one that is not in the column's enum.  The  *)
(* checkout URL is returned only after the row is saved.                   *)
(***************************************************************************)
ScopeAccepted(t) == Kind[order[t].content] \in EntitlementContentScope

SavePending(t) ==
  /\ \/ /\ ScopeAccepted(t)
        /\ Advance(t, "save", "checkout")
        /\ pending' = pending \cup {t}
        /\ createdAt' = [createdAt EXCEPT ![t] = now]
     \/ /\ ~ScopeAccepted(t) \/ "database" \in Disturbances
        /\ Advance(t, "save", "failed")
        /\ UNCHANGED <<pending, createdAt>>
  /\ UNCHANGED <<rowVars, order, days, grantVars, chapa, verifyVars, now>>

Initiate(t) ==
  \/ FindUser(t)
  \/ FindContent(t)
  \/ CheckAccess(t)
  \/ FindPricing(t)
  \/ InitializeChapa(t)
  \/ SavePending(t)

-----------------------------------------------------------------------------
(***************************************************************************)
(* The customer at the gateway: pays, or the payment fails.  Only someone  *)
(* who was given the checkout URL can pay.                                 *)
(***************************************************************************)
Pay(t) ==
  /\ stage[t] = "checkout"
  /\ chapa[t] = "open"
  /\ \E outcome \in {"paid", "failed"} :
       chapa' = [chapa EXCEPT ![t] = outcome]
  /\ UNCHANGED <<rowVars, order, initVars, createdAt, pending, grantVars,
                 verifyVars, now>>

-----------------------------------------------------------------------------
(***************************************************************************)
(* PurchaseService.verifyAndGrantAccess, called by the gateway's webhook   *)
(* and by the redirect of the customer's browser, any number of times.     *)
(***************************************************************************)

Goto(v, from, to) == /\ vpc[v] = from
                     /\ vpc' = [vpc EXCEPT ![v] = to]

Settled(t) == chapa[t] \in {"paid", "failed"}

\* A call arrives; nobody knows a tx_ref before its checkout URL is out.
BeginVerify(v, t) ==
  /\ vpc[v] \notin VerifySteps
  /\ stage[t] = "checkout"
  /\ Settled(t) \/ "early" \in Disturbances
  /\ vpc' = [vpc EXCEPT ![v] = "read"]
  /\ vtx' = [vtx EXCEPT ![v] = t]
  /\ until' = [until EXCEPT ![v] = 0]
  /\ UNCHANGED <<rowVars, order, initVars, createdAt, pending, grantVars,
                 chapa, now>>

ReadPending(v) ==
  /\ Goto(v, "read", IF vtx[v] \in pending THEN "ask" ELSE "lookup")
  /\ UNCHANGED <<rowVars, order, initVars, createdAt, pending, grantVars,
                 chapa, vtx, until, now>>

LookupPurchase(v) ==
  /\ Goto(v, "lookup", IF vtx[v] \in purchases THEN "true" ELSE "false")
  /\ UNCHANGED <<rowVars, order, initVars, createdAt, pending, grantVars,
                 chapa, vtx, until, now>>

\* Mutants: the removal of the row is forgotten; the status is not looked at;
\* no status passes for success.
StatusKeepsRow(t) == IF chapa[t] = "paid" THEN "load" ELSE "false"
StatusIgnored(t)  == "load"
StatusNever(t)    == "drop"

\* A transaction that is not paid has a status other than success.
StatusOutcome(t) == IF chapa[t] = "paid" THEN "load" ELSE "drop"

\* GET transaction/verify: a status other than success, and any error of the
\* call, lead to the removal of the pending row.
AskChapa(v) ==
  /\ \/ Goto(v, "ask", StatusOutcome(vtx[v]))
     \/ "gateway" \in Disturbances /\ Goto(v, "ask", "drop")
  /\ UNCHANGED <<rowVars, order, initVars, createdAt, pending, grantVars,
                 chapa, vtx, until, now>>

PartiesExist(t) == order[t].user \in users /\ order[t].content \in contents

\* Mutants: the period is subtracted; the period is not added.
ExpiryBackwards(t) == IF order[t].access = "TEMPORARY" THEN days[t] - now ELSE 0
ExpiryAtOnce(t)    == IF order[t].access = "TEMPORARY" THEN now ELSE 0

\* expiresAt: null for a permanent purchase.
Expiry(t) == IF order[t].access = "TEMPORARY" THEN now + days[t] ELSE 0

\* Mutant: the pending row is removed before the transaction, not in it.
LoadAndRemove(v) ==
  /\ Goto(v, "load", IF PartiesExist(vtx[v]) THEN "commit" ELSE "drop")
  /\ until' = [until EXCEPT ![v] = Expiry(vtx[v])]
  /\ pending' = pending \ {vtx[v]}
  /\ UNCHANGED <<rowVars, order, initVars, createdAt, grantVars, chapa, vtx,
                 now>>

LoadParties(v) ==
  /\ Goto(v, "load", IF PartiesExist(vtx[v]) THEN "commit" ELSE "drop")
  /\ until' = [until EXCEPT ![v] =
                 IF PartiesExist(vtx[v]) THEN Expiry(vtx[v]) ELSE @]
  /\ UNCHANGED <<rowVars, order, initVars, createdAt, pending, grantVars,
                 chapa, vtx, now>>

\* Mutant: chapaTransactionId is not unique.
ConstraintsWithoutUnique(t) == PartiesExist(t)

\* The unique chapaTransactionId and the foreign keys of the purchase row.
ConstraintsHold(t) == t \notin purchases /\ PartiesExist(t)

\* Mutant: the pending row is not removed in the transaction.
WriteRowsOnly(t, expiresAt) ==
  /\ purchases' = purchases \cup {t}
  /\ grants' = [grants EXCEPT ![t] = @ + 1]
  /\ validUntil' = [validUntil EXCEPT ![t] =
                      IF expiresAt > @ THEN expiresAt ELSE @]
  /\ UNCHANGED pending

\* Purchase, entitlement, and the removal of the pending row, which is no
\* error if the row is gone.  Of two entitlements the later one counts.
WriteRows(t, expiresAt) ==
  /\ purchases' = purchases \cup {t}
  /\ grants' = [grants EXCEPT ![t] = @ + 1]
  /\ validUntil' = [validUntil EXCEPT ![t] =
                      IF expiresAt > @ THEN expiresAt ELSE @]
  /\ pending' = pending \ {t}

\* The database transaction: any failure rolls back all of it.
Commit(v) ==
  /\ \/ /\ Goto(v, "commit", "true")
        /\ ConstraintsHold(vtx[v])
        /\ WriteRows(vtx[v], until[v])
     \/ /\ Goto(v, "commit", "drop")
        /\ ~ConstraintsHold(vtx[v]) \/ "database" \in Disturbances
        /\ UNCHANGED <<pending, grantVars>>
  /\ UNCHANGED <<rowVars, order, initVars, createdAt, chapa, vtx, until, now>>

\* "Ensure pending transaction is removed even on failure": the call answers
\* false, or throws if the removal fails as well.
DropPending(v) ==
  /\ \/ /\ Goto(v, "drop", "false")
        /\ pending' = pending \ {vtx[v]}
     \/ /\ "database" \in Disturbances
        /\ Goto(v, "drop", "error")
        /\ UNCHANGED pending
  /\ UNCHANGED <<rowVars, order, initVars, createdAt, grantVars, chapa, vtx,
                 until, now>>

Verify(v) ==
  \/ ReadPending(v)
  \/ LookupPurchase(v)
  \/ AskChapa(v)
  \/ LoadParties(v)
  \/ Commit(v)
  \/ DropPending(v)

-----------------------------------------------------------------------------
(***************************************************************************)
(* What happens around the handlers.                                       *)
(***************************************************************************)

\* The rows that ON DELETE CASCADE removes with c: c and all below it.
Descendants(c) ==
  {d \in Contents :
     \A S \in SUBSET Contents :
       (c \in S /\ \A x \in Contents : Parent[x] \in S => x \in S) => d \in S}

\* ContentService.remove: purchases go with their content, entitlements stay.
DeleteContent(c) ==
  /\ "deletion" \in Disturbances
  /\ c \in contents
  /\ contents' = contents \ Descendants(c)
  /\ purchases' = {t \in purchases : order[t].content \notin Descendants(c)}
  /\ UNCHANGED <<users, reinserted, order, initVars, createdAt, pending,
                 grants, validUntil, chapa, verifyVars, now>>

\* UsersService.remove: the purchases stay, with a null user.
DeleteUser(u) ==
  /\ "deletion" \in Disturbances
  /\ u \in users
  /\ users' = users \ {u}
  /\ UNCHANGED <<contents, reinserted, order, initVars, createdAt, pending,
                 grantVars, chapa, verifyVars, now>>

(***************************************************************************)
(* The content and user services read a row, change it and save() it.      *)
(* When the row was deleted in between, save() finds none to update and    *)
(* inserts it under its old id; the parent must exist, it is a foreign key.*)
(***************************************************************************)
StaleSaveContent(c) ==
  /\ "staleSave" \in Disturbances
  /\ c \in Contents \ contents
  /\ Parent[c] \in contents \cup {NoContent}
  /\ contents' = contents \cup {c}
  /\ reinserted' = reinserted \cup {c}
  /\ UNCHANGED <<users, order, initVars, createdAt, pending, grantVars, chapa,
                 verifyVars, now>>

StaleSaveUser(u) ==
  /\ "staleSave" \in Disturbances
  /\ u \in Users \ users
  /\ users' = users \cup {u}
  /\ UNCHANGED <<contents, reinserted, order, initVars, createdAt, pending,
                 grantVars, chapa, verifyVars, now>>

\* Every handler in flight is lost with its local state; tables survive.
Crash ==
  /\ "crash" \in Disturbances
  /\ stage' = [t \in TxRefs |-> IF stage[t] \in InFlight THEN "failed"
                                                         ELSE stage[t]]
  /\ vpc' = [v \in Verifiers |-> IF vpc[v] \in VerifySteps THEN "error"
                                                           ELSE vpc[v]]
  /\ UNCHANGED <<rowVars, order, days, createdAt, pending, grantVars, chapa,
                 vtx, until, now>>

Tick ==
  /\ now < MaxNow
  /\ now' = now + 1
  /\ UNCHANGED <<rowVars, order, initVars, createdAt, pending, grantVars,
                 chapa, verifyVars>>

Surroundings ==
  \/ \E c \in Contents : DeleteContent(c) \/ StaleSaveContent(c)
  \/ \E u \in Users : DeleteUser(u) \/ StaleSaveUser(u)
  \/ Crash
  \/ Tick

Next ==
  \/ \E t \in TxRefs : Initiate(t) \/ Pay(t)
  \/ \E v \in Verifiers :
       Verify(v) \/ \E t \in TxRefs : BeginVerify(v, t)
  \/ Surroundings

Spec == Init /\ [][Next]_vars

(***************************************************************************)
(* A handler that was started goes on: Node resumes it when its query or   *)
(* its HTTP call returns.  Nothing obliges the customer or the gateway.    *)
(***************************************************************************)
HandlerFairness ==
  /\ \A t \in TxRefs : WF_vars(stage[t] # "unused" /\ Initiate(t))
  /\ \A v \in Verifiers : WF_vars(Verify(v))

\* The gateway delivers its webhook for a settled payment to a free slot.
Webhook(t) == Settled(t) /\ \E v \in Verifiers : BeginVerify(v, t)

FairSpec == Spec /\ HandlerFairness

(***************************************************************************)
(* Strong fairness, because the slots are this model's bound and not the   *)
(* server's: a webhook is never refused for want of a slot.                *)
(***************************************************************************)
WebhookSpec == FairSpec /\ \A t \in TxRefs : SF_vars(Webhook(t))

-----------------------------------------------------------------------------
(***************************************************************************)
(* Properties.                                                             *)
(***************************************************************************)

\* However many calls of verifyAndGrantAccess race for one tx_ref, it is
\* granted once: the unique chapaTransactionId decides.  (Only after the
\* content row was deleted, with its purchases, and inserted again by a stale
\* save can a call that is still running grant a second time.)
NoDoubleGrant ==
  \A t \in TxRefs : order[t].content \notin reinserted => grants[t] <= 1

\* The database transaction of verifyAndGrantAccess is all or nothing: a
\* purchase has its entitlement and no pending row; an entitlement has its
\* purchase, unless the content was deleted and took the purchase along.
AllOrNothing ==
  \A t \in TxRefs :
    /\ t \in purchases => grants[t] > 0 /\ t \notin pending
    /\ grants[t] > 0 => \/ t \in purchases
                        \/ order[t].content \notin contents
                        \/ order[t].content \in reinserted

\* What a verify call answers stays true: after "success" the access is
\* granted, after "failed" no pending row is left that a later call of
\* verifyAndGrantAccess could still process.
AnswersAreFinal ==
  \A v \in Verifiers :
    /\ vpc[v] = "true" => grants[vtx[v]] > 0
    /\ vpc[v] = "false" => vtx[v] \notin pending

\* Whoever was granted what they paid for can use it: for ever, or for the
\* full rental period counted from the order, whenever the payment was
\* verified.  Relates verifyAndGrantAccess to checkUserAccess.
PaidAccessLasts ==
  \A t \in TxRefs :
    /\ grants[t] > 0
    /\ order[t].content \in contents
    /\ order[t].access = "PERMANENT" \/ now < createdAt[t] + days[t]
    => HasAccess(order[t].user, order[t].content)

\* A series that was bought unlocks its seasons and their episodes:
\* checkUserAccess looks two levels up, as far as getContentForUser reads
\* down.  (Nothing keeps admins from nesting deeper; what is further down is
\* not unlocked with the series.)
WholeSeriesUnlocked ==
  \A t \in TxRefs :
    /\ grants[t] > 0
    /\ order[t].access = "PERMANENT"
    => \A season \in Children(order[t].content) :
         /\ HasAccess(order[t].user, season)
         /\ \A episode \in Children(season) : HasAccess(order[t].user, episode)

\* As long as Chapa and the database answer and nobody verifies too early, no
\* payment is lost, not even in a crash: a paid order keeps its pending row
\* until it is granted, unless its user or content is deleted.
PaidOrderKept ==
  Disturbances \cap {"early", "gateway", "database", "staleSave"} = {} =>
    \A t \in TxRefs :
      chapa[t] = "paid" /\ PartiesExist(t) => t \in pending \/ grants[t] > 0

\* initiatePurchase and verifyAndGrantAccess implement the purchase ledger.
Ledger == INSTANCE PurchaseLedger
            WITH placed  <- {t \in TxRefs : stage[t] = "checkout"},
                 paid    <- {t \in TxRefs : chapa[t] = "paid"},
                 granted <- {t \in TxRefs : grants[t] > 0}

ImplementsLedger == Ledger!LedgerSpec

\* With the gateway's webhook delivered, a payment leads to the access it
\* paid for, unless the user or the content is deleted first.
PaidEventuallyGranted ==
  \A t \in TxRefs : chapa[t] = "paid" ~> grants[t] > 0 \/ ~PartiesExist(t)

\* lockContent prices every type of content ("Treat single-video-like types
\* as MOVIE for pricing scope"): a request for a priced content fails only if
\* the gateway, the database or the process does.
PricedContentIsSold ==
  Disturbances \cap {"gateway", "database", "crash"} = {} =>
    \A t \in TxRefs : stage[t] # "failed"
=============================================================================
