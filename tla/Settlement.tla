----------------------------- MODULE Settlement -----------------------------
(***************************************************************************)
(* The money of a sale, the nightly job that settles the day before, and   *)
(* the reports over both (PurchaseService, ReportsService).                *)
(*                                                                         *)
(* Amounts are cents.  The program computes with binary fractions and      *)
(* rounds when it stores a decimal with two places; a value half-way       *)
(* between two cents may go either way, as its binary fraction decides.    *)
(***************************************************************************)
EXTENDS FiniteSets, Functions, Integers

CONSTANTS
  Sales,       \* sales that may be made, each at most once
  Bases,       \* the base prices each sale may have, in cents
  Vat,         \* VAT_PERCENTAGE, in percent
  Fee,         \* CHAPA_FEE_PERCENTAGE, in tenths of a percent
  Servers,     \* instances of the program, each of which runs the job
  LastDay,     \* bound: UTC days are 0 to LastDay
  NoSale, NoSettlement

VARIABLES
  today,       \* the current UTC day
  sale,        \* the purchase row of each sale
  settlement,  \* the settlement row of each day
  jobStep,     \* what the job of each server does next
  jobDay,      \* the day it started on
  jobRow,      \* the settlement it is about to save
  settledOk,   \* history: days for which a job has ended without a failure
  unmade       \* history: the sales that were deleted again, and their days

vars == <<today, sale, settlement, jobStep, jobDay, jobRow, settledOk, unmade>>

Days == 0..LastDay

Abs(n) == IF n < 0 THEN -n ELSE n

\* The cents that n/d cents may be stored as.
Rounded(n, d) == {k \in {n \div d, n \div d + 1} : 2 * Abs(k * d - n) <= d}

\* VAT is added on top of the base price, or is part of it.
VatAmounts(base, added) ==
  IF added THEN Rounded(base * Vat, 100) ELSE Rounded(base * Vat, 100 + Vat)

GrossAmounts(base, added) ==
  IF added THEN Rounded(base * (100 + Vat), 100) ELSE {base}

TransactionFees(gross) == Rounded(gross * Fee, 1000)

\* Mutant: the VAT is not taken out of what is shared.
NetWithVat(gross, vat) == Rounded(gross * 1000 - gross * Fee, 1000)

\* netAmountForSplit, from the fee before it is rounded.
NetAmounts(gross, vat) == Rounded((gross - vat) * 1000 - gross * Fee, 1000)

\* late: the row was created in the last millisecond of its day.
SaleRows == [day : Days, late : BOOLEAN, base : Nat, added : BOOLEAN, vat : Nat,
             gross : Nat, fee : Nat, net : Int]

SettlementRows == [revenue : Nat, transactions : Nat, alFaruq : Int, skylink : Int]

\* VAT and fees leave half of a price at least: with 15% and 2.5% they do.
SettlementConstants ==
  /\ IsFiniteSet(Sales) /\ Bases \in [Sales -> SUBSET Nat]
  /\ Vat \in Nat /\ Fee \in Nat /\ Fee * (100 + Vat) <= 50000
  /\ LastDay \in Nat
  /\ NoSale \notin SaleRows /\ NoSettlement \notin SettlementRows

ASSUME SettlementAssumption == SettlementConstants

TypeOK ==
  /\ today \in Days
  /\ sale \in [Sales -> SaleRows \cup {NoSale}]
  /\ settlement \in [Days -> SettlementRows \cup {NoSettlement}]
  /\ jobStep \in [Servers -> {"idle", "check", "find", "save"}]
  /\ jobDay \in [Servers -> Days]
  /\ jobRow \in [Servers -> SettlementRows \cup {NoSettlement}]
  /\ \A s \in Servers : (jobStep[s] = "save") = (jobRow[s] # NoSettlement)
  /\ settledOk \subseteq Days
  /\ unmade \subseteq Sales \X Days
  /\ \A d \in Days : settlement[d] # NoSettlement =>
       d < today /\ settlement[d].transactions > 0

Init ==
  /\ today = 0
  /\ sale = [p \in Sales |-> NoSale]
  /\ settlement = [d \in Days |-> NoSettlement]
  /\ jobStep = [s \in Servers |-> "idle"]
  /\ jobDay = [s \in Servers |-> 0]
  /\ jobRow = [s \in Servers |-> NoSettlement]
  /\ settledOk = {}
  /\ unmade = {}

-----------------------------------------------------------------------------
jobs == <<settlement, jobStep, jobDay, jobRow, settledOk>>

\* A payment is verified and its purchase stored, with the amounts that the
\* order was made with.
StorePurchase(p) ==
  /\ sale[p] = NoSale
  /\ \A d \in Days : <<p, d>> \notin unmade
  /\ \E base \in Bases[p], added \in BOOLEAN, late \in BOOLEAN :
       \E vat \in VatAmounts(base, added), gross \in GrossAmounts(base, added) :
         \E fee \in TransactionFees(gross), net \in NetAmounts(gross, vat) :
           sale' = [sale EXCEPT ![p] =
             [day |-> today, late |-> late, base |-> base, added |-> added, vat |-> vat,
              gross |-> gross, fee |-> fee, net |-> net]]
  /\ UNCHANGED <<today, jobs, unmade>>

\* The purchases of deleted content are deleted with it.
RemovePurchase(p) ==
  /\ sale[p] # NoSale
  /\ sale' = [sale EXCEPT ![p] = NoSale]
  /\ unmade' = unmade \cup {<<p, sale[p].day>>}
  /\ UNCHANGED <<today, jobs>>

\* The jobs of a night have ended before the next day begins.
NextDay ==
  /\ today < LastDay
  /\ \A s \in Servers : jobStep[s] = "idle"
  /\ today' = today + 1
  /\ UNCHANGED <<sale, jobs, unmade>>

\* Mutant: the job settles the day it runs on.
TodayOf(s) == jobDay[s]

Yesterday(s) == jobDay[s] - 1

\* The cron job fires at one in the morning, at most once a day on a server.
JobFires(s) ==
  /\ jobStep[s] = "idle"
  /\ jobDay[s] < today
  /\ jobDay' = [jobDay EXCEPT ![s] = today]
  /\ jobStep' = [jobStep EXCEPT ![s] = "check"]
  /\ UNCHANGED <<today, sale, settlement, jobRow, settledOk, unmade>>

JobEnds(s) ==
  /\ jobStep' = [jobStep EXCEPT ![s] = "idle"]
  /\ jobRow' = [jobRow EXCEPT ![s] = NoSettlement]
  /\ settledOk' = settledOk \cup {Yesterday(s)}
  /\ UNCHANGED settlement

\* Mutant: the job looks for a settlement of any day.
CheckAnySettlement(s) ==
  /\ jobStep[s] = "check"
  /\ IF \E d \in Days : settlement[d] # NoSettlement THEN JobEnds(s)
     ELSE /\ jobStep' = [jobStep EXCEPT ![s] = "find"]
          /\ UNCHANGED <<settlement, jobRow, settledOk>>
  /\ UNCHANGED <<today, sale, jobDay, unmade>>

CheckExisting(s) ==
  /\ jobStep[s] = "check"
  /\ IF settlement[Yesterday(s)] # NoSettlement THEN JobEnds(s)
     ELSE /\ jobStep' = [jobStep EXCEPT ![s] = "find"]
          /\ UNCHANGED <<settlement, jobRow, settledOk>>
  /\ UNCHANGED <<today, sale, jobDay, unmade>>

\* createdAt between 00:00:00.000 and 23:59:59.999: the column has
\* microseconds, so the last millisecond of the day is not in it.
SalesOf(d) == {p \in Sales : sale[p] # NoSale /\ sale[p].day = d /\ ~sale[p].late}

Gross(S) == SumFunction([p \in S |-> sale[p].gross])
Net(S)   == SumFunction([p \in S |-> sale[p].net])

\* Mutant: the shares are taken of what the customers paid.
SharesOfGross(S, tenths) == Rounded(Gross(S) * tenths, 10)

\* 70 % and 30 % of the net, each rounded by its own column.
Shares(S, tenths) == Rounded(Net(S) * tenths, 10)

FindPurchases(s) ==
  /\ jobStep[s] = "find"
  /\ LET S == SalesOf(Yesterday(s))
     IN  IF S = {} THEN JobEnds(s)
         ELSE /\ \E alFaruq \in Shares(S, 7), skylink \in Shares(S, 3) :
                   jobRow' = [jobRow EXCEPT ![s] =
                     [revenue |-> Gross(S), transactions |-> Cardinality(S),
                      alFaruq |-> alFaruq, skylink |-> skylink]]
              /\ jobStep' = [jobStep EXCEPT ![s] = "save"]
              /\ UNCHANGED <<settlement, settledOk>>
  /\ UNCHANGED <<today, sale, jobDay, unmade>>

\* settlementDate is unique: of two servers the second one fails, which is
\* caught, and the day is settled all the same.
SaveSettlement(s) ==
  /\ jobStep[s] = "save"
  /\ settlement' = IF settlement[Yesterday(s)] # NoSettlement THEN settlement
                   ELSE [settlement EXCEPT ![Yesterday(s)] = jobRow[s]]
  /\ jobStep' = [jobStep EXCEPT ![s] = "idle"]
  /\ jobRow' = [jobRow EXCEPT ![s] = NoSettlement]
  /\ settledOk' = settledOk \cup {Yesterday(s)}
  /\ UNCHANGED <<today, sale, jobDay, unmade>>

\* A statement fails, which is caught and logged, or the server goes down.
JobFails(s) ==
  /\ jobStep[s] # "idle"
  /\ jobStep' = [jobStep EXCEPT ![s] = "idle"]
  /\ jobRow' = [jobRow EXCEPT ![s] = NoSettlement]
  /\ UNCHANGED <<today, sale, settlement, jobDay, settledOk, unmade>>

Next ==
  \/ NextDay
  \/ \E p \in Sales : StorePurchase(p) \/ RemovePurchase(p)
  \/ \E s \in Servers : \/ JobFires(s) \/ CheckExisting(s) \/ FindPurchases(s)
                        \/ SaveSettlement(s) \/ JobFails(s)

Spec == Init /\ [][Next]_vars

-----------------------------------------------------------------------------
\* The reports are over the days D, each to its last millisecond.
SoldIn(D) == UNION {SalesOf(d) : d \in D}

Total(D, column) == SumFunction([p \in SoldIn(D) |-> sale[p][column]])

\* From the net it computes the shares, and their discrepancy.
ReconciliationReport(D) ==
  [gross |-> Total(D, "gross"), vat |-> Total(D, "vat"), fees |-> Total(D, "fee"),
   net |-> Total(D, "net")]

\* Its shares are 70 % and 30 % of the net.
TransactionReport(D) ==
  [revenue |-> Total(D, "gross"), transactions |-> Cardinality(SoldIn(D)),
   net |-> Total(D, "net")]

Settled(D) == {d \in D : settlement[d] # NoSettlement}

Stored(D, column) == SumFunction([d \in Settled(D) |-> settlement[d][column]])

\* The shares, and the daily records, as the settlements have stored them.
SettlementsReport(D) ==
  [revenue |-> Stored(D, "revenue"), transactions |-> Stored(D, "transactions"),
   alFaruq |-> Stored(D, "alFaruq"), skylink |-> Stored(D, "skylink")]

TenthsOf(stakeholder) == IF stakeholder = "ALFARUQ" THEN 7 ELSE 3

\* Ten times what a stakeholder earns by the sales.
StakeholderLedger(D, stakeholder) ==
  SumFunction([p \in SoldIn(D) |-> sale[p].net * TenthsOf(stakeholder)])

-----------------------------------------------------------------------------
\* The days no purchase of which has been deleted.
Whole(D) == {d \in D : \A p \in Sales : <<p, d>> \notin unmade}

\* initiatePurchase and verifyAndGrantAccess round each amount by itself, at
\* different places: what is stored adds up to what was charged, to the cent.
PartsAddUp ==
  \A p \in Sales : sale[p] # NoSale =>
    LET r == sale[p]
    IN  /\ Abs(r.fee + r.vat + r.net - r.gross) <= 1
        /\ r.added => Abs(r.base + r.vat - r.gross) <= 1
        /\ r.net >= 0

\* handleDailySettlement runs when its day is over: a settlement covers every
\* sale of the day but those of its last millisecond, whichever server made
\* it, unless purchases of the day have been deleted.
SettledDayIsWhole ==
  \A d \in Whole(Days) : settlement[d] # NoSettlement =>
    /\ settlement[d].transactions = Cardinality(SalesOf(d))
    /\ settlement[d].revenue = Gross(SalesOf(d))

\* A job that ends without a failure leaves its day settled, if anything was
\* sold on it.  (A day all of whose jobs fail is never settled.)
NoDayForgotten ==
  \A d \in Whole(settledOk) :
    SalesOf(d) # {} => settlement[d] # NoSettlement

\* Four reports tell the same story, when every day is settled and no purchase
\* was deleted: the settlements have the revenue and the number of sales of the
\* transaction report; their shares, each rounded once a day, differ from the
\* shares of that report, and from the ledger of the stakeholder, by half a
\* cent a day; and what the reconciliation takes apart adds up again, to a cent
\* a sale.  ("LEGACY REPORTS ... less accurate as they don't account for
\* VAT/fees correctly" is not what their code does: it sums the same columns.)
ReportsAgree ==
  LET D == Whole(Settled(Days))
      recon == ReconciliationReport(D)
      transactions == TransactionReport(D)
      settlements == SettlementsReport(D)
      Near(tenfold, share) == Abs(10 * share - tenfold) <= 5 * Cardinality(D)
  IN  /\ settlements.revenue = transactions.revenue
      /\ settlements.transactions = transactions.transactions
      /\ Near(7 * transactions.net, settlements.alFaruq)
      /\ Near(3 * transactions.net, settlements.skylink)
      /\ Near(StakeholderLedger(D, "ALFARUQ"), settlements.alFaruq)
      /\ Near(StakeholderLedger(D, "SKYLINK"), settlements.skylink)
      /\ Abs(transactions.revenue - recon.vat - recon.fees - recon.net)
           <= transactions.transactions
=============================================================================
