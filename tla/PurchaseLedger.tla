--------------------------- MODULE PurchaseLedger ---------------------------
(***************************************************************************)
(* What the purchase component promises, with nothing of how it does it:   *)
(* an order is placed, it may then be paid at the gateway, and a paid      *)
(* order is granted at most once.  A grant is never taken back and never   *)
(* precedes the payment.  Purchase implements this specification.          *)
(***************************************************************************)
CONSTANT TxRefs

VARIABLES placed, paid, granted

ledgerVars == <<placed, paid, granted>>

LedgerInit ==
  /\ placed  = {}
  /\ paid    = {}
  /\ granted = {}

\* initiatePurchase hands out a checkout URL.
Place(t) ==
  /\ t \notin placed
  /\ placed' = placed \cup {t}
  /\ UNCHANGED <<paid, granted>>

\* The customer pays at the checkout URL.
Settle(t) ==
  /\ t \in placed \ paid
  /\ paid' = paid \cup {t}
  /\ UNCHANGED <<placed, granted>>

\* verifyAndGrantAccess grants the access that was paid for.
Grant(t) ==
  /\ t \in paid \ granted
  /\ granted' = granted \cup {t}
  /\ UNCHANGED <<placed, paid>>

LedgerNext == \E t \in TxRefs : Place(t) \/ Settle(t) \/ Grant(t)

LedgerSpec == LedgerInit /\ [][LedgerNext]_ledgerVars
=============================================================================
