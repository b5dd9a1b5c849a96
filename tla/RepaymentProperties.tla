------------------------ MODULE RepaymentProperties ------------------------
(***************************************************************************)
(* What must be true of the collection of a loan.  Some of it holds for    *)
(* any number of handlers, some only while handlers do not overlap: the    *)
(* runs say which.                                                         *)
(***************************************************************************)
EXTENDS Repayment

Statuses == Gone \union {"INITIALIZED", "COMPLETED", "FAILED"}
Labels == {"idle", "penalty", "bifurcate", "part", "update", "bounceRead",
           "bounceTrace", "bounceWrite", "partRead", "partWrite", "fullRead",
           "fullWrite", "userStatus", "userWrite", "recalcRead",
           "recalcWrite", "closeCheck", "close", "readUser", "referral", "countLoan", "dues",
           "archive"}
Money == Nat
Parts == [emi : Emis \union {NoEmi}, pi : Money, charge : Money, extra : Money]
RowType == [status : Statuses, type : Types, mode : Modes, onTime : BOOLEAN,
            part : Parts]
RowTable == [RowIds -> RowType]
EmiType == [paid : BOOLEAN, done : BOOLEAN, due : BOOLEAN, left : 0 .. PI,
            charge : {0, Ecs}, paidPi : Money, paidCharge : Money]
EmiTable == [Emis -> EmiType]
UserRow == [status : 0 .. 3, completedLoans : 0 .. MaxCount,
            referrals : 0 .. MaxCount]
Tasks == [id : (Pays \X Nat) \union {<<>>}, res : {"COMPLETED", "FAILED"},
          type : Types, emi : Emis \union {NoEmi}, upd : Parts,
          parts : SUBSET Parts, i : Nat,
          ids : SUBSET Emis, old : SUBSET RowIds, pay : BOOLEAN,
          left : 0 .. PI, done : BOOLEAN, seen : 0 .. MaxCount,
          status : 0 .. 3,
          sums : [Emis -> [pi : Money, charge : Money]]]

(* The columns and the handlers' locals keep their types; in particular no *)
(* amount is ever negative, and emi_amount stays within the EMI.           *)
TypeOK ==
  /\ row \in RowTable
  /\ emi \in EmiTable
  /\ loan \in {"Active", "Complete"}
  /\ user \in UserRow
  /\ trace \subseteq Emis
  /\ charges \in [Emis -> Nat]
  /\ late \subseteq Emis
  /\ gw \in [Pays -> {"none", "open", "captured", "failed"}]
  /\ price \in [Pays -> Money]
  /\ events \in [Pays -> SUBSET {"captured", "failed"}]
  /\ pc \in [Workers -> Labels]
  /\ task \in [Workers -> Tasks]
  /\ aborts \in 0 .. MaxAborts

-----------------------------------------------------------------------------
(* Safe whatever the handlers do. *)

(* The bounce charge of an EMI is written at most once, however many debits *)
(* of it fail and however many handlers see them fail.                     *)
ChargedOnce == \A e \in Emis : charges[e] <= 1

(* A Complete loan has no unpaid EMI, then and for ever after. *)
ClosedOnlyWhenPaid == loan = "Complete" => \A e \in Emis : emi[e].paid

(* No row, split or not, is COMPLETED before its gateway has the money. *)
NoPhantomPayment ==
  \A r \in Completed : gw[r[1]] = "captured"

(* Seen from outside, the loan behaves as the ledger. *)
Ledger == INSTANCE LoanLedger WITH
  Emis <- Emis, settled <- Emis \ Unpaid, levied <- charges,
  closed <- loan = "Complete"
ImplementsLedger == Ledger!Spec

-----------------------------------------------------------------------------
(* What makes the properties above inductive. *)

OrderLabels == Labels \ {"idle", "dues", "archive"}
PaidLabels == OrderLabels \ {"update", "bounceRead", "bounceTrace", "bounceWrite"}

(* A handler works on the row of an order, or on the last row it split off *)
(* it; past the entry only captured orders take the COMPLETED path.        *)
HandlerOK(w) ==
  /\ pc[w] \in OrderLabels =>
       \E p \in Pays :
         /\ task[w].id = <<p, IF task[w].i = 0 THEN 1 ELSE task[w].i>>
         /\ task[w].res = "COMPLETED" => gw[p] = "captured"
  /\ pc[w] \in PaidLabels => task[w].res = "COMPLETED"
  /\ pc[w] \in {"penalty", "bifurcate"} => task[w].i = 0
  /\ pc[w] \in {"bounceTrace", "bounceWrite", "partWrite"} => task[w].emi # NoEmi

(* The gateway knows no order that has no row. *)
OrdersHaveRows ==
  \A p \in Pays : row[<<p, 1>>].status = "NONE" => gw[p] = "none"

(* A webhook of a capture is only ever sent for one. *)
EventsAreTrue ==
  \A p \in Pays : "captured" \in events[p] => gw[p] = "captured"

(* The trace row comes before the charge, and only its creator goes on to  *)
(* write the charge.                                                       *)
TraceGuardsCharge ==
  /\ \A e \in Emis : e \notin trace => charges[e] = 0
  /\ \A w \in Workers : pc[w] = "bounceWrite" =>
       /\ task[w].emi \in trace
       /\ charges[task[w].emi] = 0
  /\ \A v, w \in Workers :
       /\ pc[v] = "bounceWrite" /\ pc[w] = "bounceWrite"
       /\ task[v].emi = task[w].emi
       => v = w

(* A handler that is about to close the loan has seen every EMI paid, and  *)
(* an EMI never becomes unpaid again.                                      *)
CloserSawAllPaid ==
  \A w \in Workers : pc[w] = "close" => Unpaid = {}

(* The inductive invariant behind the theorems of RepaymentProofs. *)
IndInv ==
  /\ TypeOK
  /\ \A w \in Workers : HandlerOK(w)
  /\ OrdersHaveRows
  /\ EventsAreTrue
  /\ NoPhantomPayment
  /\ ChargedOnce
  /\ TraceGuardsCharge
  /\ ClosedOnlyWhenPaid
  /\ CloserSawAllPaid

-----------------------------------------------------------------------------
(* The money of an order. *)

Quiet == \A w \in Workers : pc[w] = "idle"
RowsOf(p) == {r \in RowIds : r[1] = p}
SumOf(rows) == Total(LAMBDA r : Amount(row[r].part), rows)
Splitting(p) == \E w \in Workers : /\ task[w].i > 0 \/ task[w].parts # {}
                                   /\ task[w].id[1] = p

(* The COMPLETED rows of an order never add up to more than was collected. *)
NeverOverbooked == \A p \in Pays : SumOf(RowsOf(p) \intersect Completed) <= price[p]

(* Seen from outside, every captured order is booked once and in full. *)
Book == INSTANCE OrderBook WITH
  Orders <- Pays,
  captured <- {p \in Pays : gw[p] = "captured"},
  credit <- [p \in Pays |-> IF Splitting(p) THEN 0
                            ELSE SumOf(RowsOf(p) \intersect Completed)]
ImplementsOrderBook == Book!Spec

-----------------------------------------------------------------------------
(* The columns of an EMI against the rows that pay it. *)

(* The money in COMPLETED rows covers every EMI that is marked as paid. *)
PaidIsFunded ==
  Quiet => SumOf(Completed) >= PI * Cardinality(Emis \ Unpaid)

(* An EMI whose principal, interest and charge are all paid is marked so. *)
CoveredIsSettled == Quiet => \A e \in Unpaid : Owed(e) > 0

(* emi_amount of an unpaid EMI, which only ever goes down, is what its     *)
(* COMPLETED rows leave of it.                                             *)
LeftIsOwed == Quiet => \A e \in Unpaid : emi[e].left = OwedPi(e)

(* An order for an EMI asks for what its COMPLETED rows leave of it: the   *)
(* paid_* columns that make the price agree with the rows.                 *)
BilledIsOwed == Quiet => \A e \in Unpaid : EmiBill(e) = Owed(e)

(* No EMI receives more principal and interest than it has. *)
NoExcessivePayment == \A e \in Emis : PaidPi(e) <= PI

(* A bounce charge is only ever levied on an EMI past its date. *)
ChargedOnlyPastDue == \A e \in Emis : charges[e] > 0 => e \in late

-----------------------------------------------------------------------------
(* Closing the loan. *)

(* The loan becomes Complete in a moment when what was expected of it is   *)
(* in COMPLETED rows.                                                      *)
ClosedWhenRecovered ==
  [][loan' # loan => SumOf(Completed) >= NumEmis * PI]_vars

(* Once every handler has ended, a loan whose EMIs are all paid and whose  *)
(* expected amount is in COMPLETED rows is Complete.                       *)
RecoveredIsClosed ==
  /\ Quiet
  /\ Unpaid = {}
  /\ SumOf(Completed) >= NumEmis * PI
  => loan = "Complete"

(* The referrer is rewarded once for the first loan of the referred user. *)
OneReferral == user.referrals <= 1

(* ... and only if none of the EMIs was ever left overdue. *)
ReferralOnTime == user.referrals > 0 => \A e \in Emis : ~emi[e].due

-----------------------------------------------------------------------------
(* What must happen, under FairSpec. *)

(* Money that was collected is booked. *)
CapturedIsBooked ==
  \A p \in Pays : gw[p] = "captured" ~> row[<<p, 1>>].status = "COMPLETED"

(* A loan with no unpaid EMI is closed. *)
PaidLoanCloses == Unpaid = {} ~> loan = "Complete"
=============================================================================
