----------------------------- MODULE Repayment -----------------------------
(***************************************************************************)
(* Collection of one loan: its EMI rows, its transaction rows and the      *)
(* request handlers that bring the gateway's answers into the database.    *)
(*                                                                         *)
(* Every handler is an async function of one NodeJS process; it can be     *)
(* overtaken by another one at each `await`, and no database transaction   *)
(* or row lock is ever taken.  A worker is such a handler in flight: pc    *)
(* says at which await it stands, task holds its local variables.          *)
(*                                                                         *)
(* Money is counted in units of more than the 10 rupees of rounding that   *)
(* the code forgives, so "<= 10 left" is "nothing left".                   *)
(***************************************************************************)
EXTENDS Integers, FiniteSets, Functions

CONSTANTS
  NumEmis,    \* number of instalments of the loan
  Pays,       \* payment orders that may be created for it
  Workers,    \* handlers that may be in flight at the same time
  PI,         \* principal + interest of one instalment, in units
  Ecs,        \* ECS_BOUNCE_CHARGE with its GST, in units
  Kinds,      \* which <<type, mode>> of orders this instance creates
  Jobs,       \* which maintenance endpoints are called
  MaxAborts,  \* how many handlers may die between two awaits
  MaxCount    \* where the counters of the user row stop counting

Emis == 1 .. NumEmis
NoEmi == 0
Types == {"EMIPAY", "PARTPAY", "FULLPAY"}
AutoDebit == {"AD", "SD"}                \* subSource AUTODEBIT
Modes == {"APP"} \union AutoDebit

ASSUME ConstantsAssumption ==
  /\ NumEmis \in Nat \ {0}
  /\ PI \in Nat \ {0}
  /\ Ecs \in Nat \ {0}
  /\ MaxAborts \in Nat
  /\ MaxCount \in Nat \ {0}
  /\ Kinds \subseteq Types \X Modes
  /\ Jobs \subseteq {"dues", "archive"}

(* <<p, 1>> is the row of order p; <<p, k>> the row `DMYk` split off it. *)
RowIds == Pays \X (1 .. NumEmis + 1)

VARIABLES
  row,      \* TransactionEntity: [RowIds -> columns]
  emi,      \* EmiEntity: [Emis -> columns]
  loan,     \* loanTransaction.loanStatus
  user,     \* registeredUsers: loanStatus, completedLoans; referral entries
  trace,    \* SystemTraceEntity: EMIs that have the row TYPE=1=EMI=<id>
  late,     \* EMIs whose emi_date is before today
  gw,       \* gateway: state of each order
  price,    \* gateway: amount of each order
  events,   \* gateway: webhook events sent, each may arrive many times
  pc,       \* where each handler stands
  task,     \* its local variables
  aborts,   \* handlers lost so far
  charges   \* history: how often the bounce charge of an EMI was written

vars == <<row, emi, loan, user, trace, late, gw, price, events, pc, task,
          aborts, charges>>
db == <<row, emi, loan, user, trace, charges>>
world == <<late, gw, price, events>>

(* Status of a row id that is not in the table. *)
Gone == {"NONE", "ARCHIVED"}

NoPart == [emi |-> NoEmi, pi |-> 0, charge |-> 0, extra |-> 0]
NoRow == [status |-> "NONE", type |-> "EMIPAY", mode |-> "APP",
          onTime |-> FALSE, part |-> NoPart]
NoTask == [id |-> <<>>, res |-> "FAILED", type |-> "EMIPAY", emi |-> NoEmi,
           upd |-> NoPart, parts |-> {}, i |-> 0, ids |-> {}, old |-> {},
           pay |-> FALSE, left |-> 0, done |-> FALSE, seen |-> 0, status |-> 0,
           sums |-> [e \in Emis |-> [pi |-> 0, charge |-> 0]]]

-----------------------------------------------------------------------------
(* Sums over the rows, as the code adds them up from its queries. *)

Positive(n) == IF n \in Nat THEN n ELSE 0
AtMost(n, bound) == IF n < bound THEN n ELSE bound
Total(Op(_), S) == Positive(SumFunctionOnSet([x \in S |-> Op(x)], S))

Amount(part) == part.pi + part.charge + part.extra
Completed == {r \in RowIds : row[r].status = "COMPLETED"}
PaidPi_AnyStatus(e) ==      \* mutant: the query forgets status COMPLETED
  Total(LAMBDA r : row[r].part.pi, {r \in RowIds : row[r].part.emi = e})
PaidPi(e) ==
  Total(LAMBDA r : row[r].part.pi, {r \in Completed : row[r].part.emi = e})
PaidCharge(e) ==
  Total(LAMBDA r : row[r].part.charge, {r \in Completed : row[r].part.emi = e})

OwedPi(e) == Positive(PI - PaidPi(e))
OwedCharge(e) == Positive(emi[e].charge - PaidCharge(e))
Owed(e) == OwedPi(e) + OwedCharge(e)
Unpaid == {e \in Emis : ~emi[e].paid}
DueUnpaid == {e \in Unpaid : emi[e].due}

(* What no overdue EMI takes. *)
RestOf_PiOnly(amount) ==    \* mutant: the charges are not taken off
  Positive(amount - Total(OwedPi, DueUnpaid))
RestOf(amount) ==
  Positive(amount - Total(OwedPi, DueUnpaid) - Total(OwedCharge, DueUnpaid))

(* splitPaymentsforPI: the overdue EMIs take their principal and interest, *)
(* oldest first, then their charges, oldest first; the rest is refundable. *)
SplitParts(amount) ==
  LET Older(e) == {d \in DueUnpaid : d < e}
      afterPi == amount - Total(OwedPi, DueUnpaid)
      piOf(e) == AtMost(OwedPi(e), Positive(amount - Total(OwedPi, Older(e))))
      chargeOf(e) == AtMost(OwedCharge(e),
                            Positive(afterPi - Total(OwedCharge, Older(e))))
      settling == {[emi |-> e, pi |-> piOf(e), charge |-> chargeOf(e),
                    extra |-> 0] : e \in DueUnpaid}
      refundable == [NoPart EXCEPT !.extra = RestOf(amount)]
  IN {part \in settling \union {refundable} : Amount(part) > 0}

(* Their order: principal and interest first, the refundable rest last. *)
Rank(part) == IF part.extra > 0 THEN 3 ELSE IF part.pi = 0 THEN 2 ELSE 1
First(part, parts) ==
  /\ part \in parts
  /\ \A other \in parts : \/ Rank(part) < Rank(other)
                           \/ /\ Rank(part) = Rank(other)
                              /\ part.emi <= other.emi

-----------------------------------------------------------------------------
Init ==
  /\ row = [r \in RowIds |-> NoRow]
  /\ emi = [e \in Emis |-> [paid |-> FALSE, done |-> FALSE, due |-> FALSE,
                            left |-> PI, charge |-> 0, paidPi |-> 0,
                            paidCharge |-> 0]]
  /\ loan = "Active"
  /\ user = [status |-> 0, completedLoans |-> 0, referrals |-> 0]
  /\ trace = {}
  /\ late = {}
  /\ gw = [p \in Pays |-> "none"]
  /\ price = [p \in Pays |-> 0]
  /\ events = [p \in Pays |-> {}]
  /\ pc = [w \in Workers |-> "idle"]
  /\ task = [w \in Workers |-> NoTask]
  /\ aborts = 0
  /\ charges = [e \in Emis |-> 0]

Goto(w, label) == pc' = [pc EXCEPT ![w] = label]
Keep(w, t) == task' = [task EXCEPT ![w] = t]

(* A call of markTransactionAsComplete returns: the loop over the split   *)
(* parts goes on with its next part, or the handler ends.                 *)
Return(w) ==
  IF task[w].parts # {}
    THEN Goto(w, "part") /\ UNCHANGED task
    ELSE Goto(w, "idle") /\ Keep(w, NoTask)

-----------------------------------------------------------------------------
(* Orders.  funCreatePaymentOrder refuses a loan that is not Active and an *)
(* EMI that is already paid.  The price comes from the paid_* columns of   *)
(* the EMIs, its bifurcation from the COMPLETED rows.                      *)

ChargeBill(e) == Positive(emi[e].charge - emi[e].paidCharge)
EmiBill(e) == Positive(PI - emi[e].paidPi) + ChargeBill(e)
LoanBill == Total(OwedPi, Unpaid) + Total(ChargeBill, Unpaid)

Prices == 1 .. NumEmis * (PI + Ecs)      \* what an order may cost

OrderPart(type, e, amount) ==
  IF type = "FULLPAY"
    THEN [emi |-> NoEmi, pi |-> Total(OwedPi, Unpaid),
          charge |-> Total(ChargeBill, Unpaid), extra |-> 0]
    ELSE LET pi == AtMost(amount, OwedPi(e))
             charge == AtMost(amount - pi, OwedCharge(e))
         IN [emi |-> e, pi |-> pi, charge |-> charge,
             extra |-> amount - pi - charge]

(* onTime: placed before the EMI's date.  A debit placed on the day itself *)
(* is not late and not on time either; for other modes nothing reads it.   *)
CreateOrder(p) ==
  /\ loan = "Active"
  /\ row[<<p, 1>>].status = "NONE"
  /\ \E kind \in Kinds, e \in Unpaid, onTime \in BOOLEAN,
        amount \in Prices :
       /\ onTime => kind[2] \in AutoDebit /\ e \notin late
       /\ \/ kind[1] = "FULLPAY" /\ amount = LoanBill
          \/ kind[1] = "EMIPAY" /\ amount = EmiBill(e)
          \/ kind[1] = "PARTPAY" /\ amount # EmiBill(e) /\ amount <= LoanBill
       /\ row' = [row EXCEPT ![<<p, 1>>] =
                   [status |-> "INITIALIZED", type |-> kind[1],
                    mode |-> kind[2], onTime |-> onTime,
                    part |-> OrderPart(kind[1], e, amount)]]
       /\ price' = [price EXCEPT ![p] = amount]
  /\ gw' = [gw EXCEPT ![p] = "open"]
  /\ UNCHANGED <<emi, loan, user, trace, charges, late, events, pc, task,
                 aborts>>

(* The gateways, external.  A manual order survives a failed attempt and  *)
(* may still be paid; an auto debit has one attempt.                      *)
GatewayCapture(p) ==
  /\ gw[p] = "open"
  /\ gw' = [gw EXCEPT ![p] = "captured"]
  /\ events' = [events EXCEPT ![p] = @ \union {"captured"}]
  /\ UNCHANGED <<db, late, price, pc, task, aborts>>

GatewayFail(p) ==
  /\ gw[p] = "open"
  /\ "failed" \notin events[p]
  /\ gw' = [gw EXCEPT ![p] =
              IF row[<<p, 1>>].mode \in AutoDebit THEN "failed" ELSE @]
  /\ events' = [events EXCEPT ![p] = @ \union {"failed"}]
  /\ UNCHANGED <<db, late, price, pc, task, aborts>>

(* The calendar: EMI dates pass in order. *)
DatePasses ==
  /\ \E e \in Emis : /\ late' = late \union {e}
                     /\ late = {d \in Emis : d < e}
  /\ UNCHANGED <<db, gw, price, events, pc, task, aborts>>

-----------------------------------------------------------------------------
(* Entry points: the row is read, the answer of the gateway is turned into *)
(* COMPLETED or FAILED, and markTransactionAsComplete is called with them. *)

Enter(w, p, res) ==
  LET r == row[<<p, 1>>] IN
  /\ Goto(w, IF res = "COMPLETED" THEN "penalty" ELSE "update")
  /\ Keep(w, [NoTask EXCEPT !.id = <<p, 1>>, !.res = res, !.type = r.type,
                            !.emi = r.part.emi])
  /\ UNCHANGED <<db, world, aborts>>

(* The answers that count as paid. *)
PaidAnswer_NotFailed(p) ==  \* mutant: whatever is not a failure is paid
  gw[p] # "failed"
PaidAnswer(p) == gw[p] = "captured"

(* Polls by the app and by scheduled calls, and the auto debit webhook:    *)
(* INITIALIZED rows only, except when the app names its transaction, which *)
(* may then have FAILED before.  A row is asked of the gateway it was      *)
(* placed with; Signdesk is never asked, it answers in batches.            *)
Polled(p) ==
  LET r == row[<<p, 1>>] IN
  /\ r.mode # "SD"
  /\ \/ r.status = "INITIALIZED"
     \/ r.status = "FAILED" /\ r.mode = "APP"

Poll(w, p) ==
  /\ pc[w] = "idle"
  /\ Polled(p)
  /\ \/ PaidAnswer(p) /\ Enter(w, p, "COMPLETED")
     \/ gw[p] = "failed" /\ Enter(w, p, "FAILED")

(* Webhook of a manual order: any row that is not COMPLETED, and every     *)
(* event that is not a capture counts as FAILED.                           *)
ManualWebhook(w, p, event) ==
  /\ pc[w] = "idle"
  /\ row[<<p, 1>>].status \in {"INITIALIZED", "FAILED"}
  /\ row[<<p, 1>>].mode \notin AutoDebit
  /\ event \in events[p]
  /\ Enter(w, p, IF event = "captured" THEN "COMPLETED" ELSE "FAILED")

(* Batch answer of Signdesk: the row is found by its utr, in any status. *)
SigndeskBatch(w, p) ==
  /\ pc[w] = "idle"
  /\ row[<<p, 1>>].status \in {"INITIALIZED", "FAILED", "COMPLETED"}
  /\ row[<<p, 1>>].mode = "SD"
  /\ \/ gw[p] = "captured" /\ Enter(w, p, "COMPLETED")
     \/ gw[p] = "failed" /\ Enter(w, p, "FAILED")

-----------------------------------------------------------------------------
(* markTransactionAsComplete, COMPLETED. *)

(* checkAutoDebitResAndUpdatePenalty: a debit placed on time that clears   *)
(* after the EMI was flagged takes the flag away.                          *)
ResetPenalty(w) ==
  LET r == row[task[w].id] IN
  /\ pc[w] = "penalty"
  /\ emi' = IF /\ r.mode \in AutoDebit
               /\ r.status = "INITIALIZED"
               /\ r.type = "EMIPAY"
               /\ emi[r.part.emi].due
               /\ r.onTime
              THEN [emi EXCEPT ![r.part.emi].due = FALSE]
              ELSE emi
  /\ Goto(w, "bifurcate")
  /\ UNCHANGED <<row, loan, user, trace, charges, world, task, aborts>>

StopsAt_Never(r) ==         \* mutant: a COMPLETED row is not refused
  r.status \in Gone
StopsAt_Failed(r) ==        \* mutant: a FAILED row counts as finished
  r.status \in {"COMPLETED", "FAILED"} \union Gone
StopsAt(r) == r.status \in {"COMPLETED"} \union Gone

(* reCalculateBifurcation: stop at a COMPLETED row; an overdue EMI spreads *)
(* the amount over the overdue EMIs, in place or over several rows.  The   *)
(* refundable rest of a real split stays with the EMI the order was for.   *)
Bifurcate(w) ==
  LET r == row[task[w].id]
      parts == SplitParts(Amount(r.part))
      applies == /\ r.part.emi # NoEmi
                 /\ emi[r.part.emi].due
                 /\ ~emi[r.part.emi].paid
  IN
  /\ pc[w] = "bifurcate"
  /\ \/ /\ StopsAt(r)
        /\ Goto(w, "idle")
        /\ Keep(w, NoTask)
     \/ /\ ~StopsAt(r) /\ ~applies
        /\ Goto(w, "update")
        /\ UNCHANGED task
     \/ /\ ~StopsAt(r) /\ applies
        /\ \E part \in parts :
             /\ parts = {part}
             /\ Keep(w, [task[w] EXCEPT !.upd = part, !.emi = part.emi])
        /\ Goto(w, "update")
     \/ /\ ~StopsAt(r) /\ applies
        /\ Cardinality(parts) > 1
        /\ Goto(w, "part")
        /\ Keep(w, [task[w] EXCEPT
             !.parts = {IF part.emi = NoEmi
                          THEN [part EXCEPT !.emi = r.part.emi] ELSE part :
                        part \in parts}])
  /\ UNCHANGED <<db, world, aborts>>

(* The loop over the parts: the first one overwrites the order's own row,  *)
(* the others become rows of their own, whose transactionId is unique in   *)
(* the table; the refundable one is COMPLETED at once and ends the loop.   *)
SplitPart(w) ==
  LET i == task[w].i + 1
      id == <<task[w].id[1], i>>
      rowOf(part) == [row[task[w].id] EXCEPT
                        !.status = IF part.extra > 0 THEN "COMPLETED"
                                   ELSE "INITIALIZED",
                        !.type = "PARTPAY", !.part = part]
  IN
  /\ pc[w] = "part"
  /\ \/ /\ i > 1
        /\ row[id].status \notin Gone           \* unique constraint
        /\ Goto(w, "idle")
        /\ Keep(w, NoTask)
        /\ UNCHANGED row
     \/ /\ i = 1 \/ row[id].status \in Gone
        /\ \E part \in task[w].parts :
             /\ First(part, task[w].parts)
             /\ row' = [row EXCEPT ![id] =
                          IF i = 1 /\ @.status \in Gone THEN @ ELSE rowOf(part)]
             /\ IF part.extra > 0
                  THEN Goto(w, "idle") /\ Keep(w, NoTask)
                  ELSE /\ Goto(w, "update")
                       /\ Keep(w, [task[w] EXCEPT
                            !.id = id, !.i = i, !.type = "PARTPAY",
                            !.emi = part.emi, !.parts = @ \ {part}])
  /\ UNCHANGED <<emi, loan, user, trace, charges, world, aborts>>

(* The row is read again, a missing one ends the call; then the status is  *)
(* written, whatever it has become in between.                             *)
UpdateTransaction(w) ==
  LET id == task[w].id
      t == task[w]
      part == IF t.upd = NoPart THEN row[id].part
              ELSE IF t.upd.emi = NoEmi
                THEN [t.upd EXCEPT !.emi = row[id].part.emi]
              ELSE t.upd
      settled == [row[id] EXCEPT !.status = t.res, !.part = part]
  IN
  /\ pc[w] = "update"
  /\ \/ /\ t.res = "COMPLETED" /\ row[id].status \in Gone
        /\ Return(w)
        /\ UNCHANGED row
     \/ /\ t.res = "COMPLETED" /\ row[id].status \notin Gone
        /\ row' = [row EXCEPT ![id] = settled]
        /\ Goto(w, IF t.type = "FULLPAY" THEN "fullRead" ELSE "partRead")
        /\ UNCHANGED task
     \/ /\ t.res = "FAILED"
        /\ row' = [row EXCEPT ![id] =
                     IF @.status \in Gone THEN @ ELSE settled]
        /\ Goto(w, "bounceRead")
        /\ UNCHANGED task
  /\ UNCHANGED <<emi, loan, user, trace, charges, world, aborts>>

-----------------------------------------------------------------------------
(* addEcsBounceCharge: only for a failed auto debit of an unpaid EMI that  *)
(* has no charge yet; the unique row in SystemTraceEntity goes first.      *)

BounceRead(w) ==
  LET e == task[w].emi IN
  /\ pc[w] = "bounceRead"
  /\ IF /\ row[task[w].id].mode \in AutoDebit
        /\ e # NoEmi
        /\ ~emi[e].paid
        /\ emi[e].charge = 0
       THEN Goto(w, "bounceTrace") /\ UNCHANGED task
       ELSE Goto(w, "idle") /\ Keep(w, NoTask)
  /\ UNCHANGED <<db, world, aborts>>

Traceable_Always(e) ==      \* mutant: uniqueId without its constraint
  TRUE
Traceable(e) == e \notin trace

BounceTrace(w) ==
  LET e == task[w].emi IN
  /\ pc[w] = "bounceTrace"
  /\ IF Traceable(e)
       THEN Goto(w, "bounceWrite") /\ trace' = trace \union {e} /\ UNCHANGED task
       ELSE Goto(w, "idle") /\ Keep(w, NoTask) /\ UNCHANGED trace
  /\ UNCHANGED <<row, emi, loan, user, charges, world, aborts>>

BounceWrite(w) ==
  LET e == task[w].emi IN
  /\ pc[w] = "bounceWrite"
  /\ emi' = [emi EXCEPT ![e].charge = Ecs]
  /\ charges' = [charges EXCEPT ![e] = @ + 1]
  /\ Goto(w, "idle")
  /\ Keep(w, NoTask)
  /\ UNCHANGED <<row, loan, user, trace, world, aborts>>

-----------------------------------------------------------------------------
(* checkAndUpdateEMIPartPay: the EMI and its COMPLETED rows are read, then *)
(* the EMI is written back by its id alone.  The done date comes from the  *)
(* handler's own row, if that one is still among them.                     *)

LeftOf_Unclamped(e) ==      \* mutant: an overpaid EMI has a negative rest
  AtMost(emi[e].left, PI - PaidPi(e))
LeftOf_Kept(e) ==           \* mutant: the payments are not taken off
  emi[e].left
LeftOf(e) == AtMost(emi[e].left, Positive(PI - PaidPi(e)))

Settled_AnyCharge(e) ==     \* mutant: charges already paid are not deducted
  LeftOf(e) = 0 /\ emi[e].charge = 0
Settled(e) == LeftOf(e) = 0 /\ OwedCharge(e) = 0

PartRead(w) ==
  LET e == task[w].emi
  IN
  /\ pc[w] = "partRead"
  /\ \/ /\ e = NoEmi
        /\ Return(w)
     \/ /\ e # NoEmi /\ emi[e].paid
        /\ Goto(w, "userStatus")
        /\ UNCHANGED task
     \/ /\ e # NoEmi /\ ~emi[e].paid
        /\ Goto(w, "partWrite")
        /\ Keep(w, [task[w] EXCEPT
             !.pay = Settled(e),
             !.left = IF Settled(e) THEN emi[e].left ELSE LeftOf(e),
             !.done = /\ task[w].id \in Completed
                      /\ row[task[w].id].part.emi = e])
  /\ UNCHANGED <<db, world, aborts>>

PartWrite(w) ==
  LET t == task[w] IN
  /\ pc[w] = "partWrite"
  /\ emi' = [emi EXCEPT
               ![t.emi].paid = IF t.pay THEN TRUE ELSE @,
               ![t.emi].done = IF t.pay /\ t.done THEN TRUE ELSE @,
               ![t.emi].left = t.left]
  /\ Goto(w, "userStatus")
  /\ UNCHANGED task
  /\ UNCHANGED <<row, loan, user, trace, charges, world, aborts>>

(* getFullPayDataByTransId: every EMI that was unpaid when it looked is    *)
(* marked, one update after the other, each guarded by payment_status '0'. *)
FullRead(w) ==
  /\ pc[w] = "fullRead"
  /\ IF task[w].id \in Completed
       THEN /\ Goto(w, "fullWrite")
            /\ Keep(w, [task[w] EXCEPT !.ids = Unpaid])
       ELSE Return(w)
  /\ UNCHANGED <<db, world, aborts>>

FullWrite(w) ==
  LET ids == task[w].ids IN
  /\ pc[w] = "fullWrite"
  /\ \/ /\ ids = {}
        /\ Goto(w, "userStatus")
        /\ UNCHANGED <<emi, task>>
     \/ \E e \in ids :
        /\ \A d \in ids : e <= d
        /\ emi' = IF emi[e].paid THEN emi
                  ELSE [emi EXCEPT ![e].paid = TRUE, ![e].done = TRUE]
        /\ Keep(w, [task[w] EXCEPT !.ids = @ \ {e}])
        /\ UNCHANGED pc
  /\ UNCHANGED <<row, loan, user, trace, charges, world, aborts>>

(* checkUserStatus: 1 on time, 2 delayed, 3 defaulter (0: not yet known);  *)
(* the EMIs are read, then the user is written.                            *)
StatusNow_NoDelay ==        \* mutant: a delayed user is on time again
  IF DueUnpaid # {} THEN 3 ELSE 1
StatusNow ==
  IF \A e \in Emis : ~emi[e].due THEN 1 ELSE IF DueUnpaid # {} THEN 3 ELSE 2

StatusRead(w) ==
  /\ pc[w] = "userStatus"
  /\ Keep(w, [task[w] EXCEPT !.status = StatusNow])
  /\ Goto(w, "userWrite")
  /\ UNCHANGED <<db, world, aborts>>

StatusWrite(w) ==
  /\ pc[w] = "userWrite"
  /\ user' = [user EXCEPT !.status = task[w].status]
  /\ Goto(w, "recalcRead")
  /\ UNCHANGED task
  /\ UNCHANGED <<row, emi, loan, trace, charges, world, aborts>>

(* reCalculatePaidAmounts: the COMPLETED rows are summed up per EMI, then  *)
(* the paid_* columns are written, one EMI after the other.                *)
Sums_PiOnly ==              \* mutant: charges are not added up
  [e \in Emis |-> [pi |-> PaidPi(e), charge |-> 0]]
Sums == [e \in Emis |-> [pi |-> PaidPi(e), charge |-> PaidCharge(e)]]

RecalcRead(w) ==
  /\ pc[w] = "recalcRead"
  /\ IF Completed = {}
       THEN Goto(w, "closeCheck") /\ UNCHANGED task
       ELSE /\ Goto(w, "recalcWrite")
            /\ Keep(w, [task[w] EXCEPT !.ids = Emis, !.sums = Sums])
  /\ UNCHANGED <<db, world, aborts>>

RecalcWrite(w) ==
  LET t == task[w] IN
  /\ pc[w] = "recalcWrite"
  /\ \/ /\ t.ids = {}
        /\ Goto(w, "closeCheck")
        /\ Keep(w, [t EXCEPT !.sums = NoTask.sums])
        /\ UNCHANGED emi
     \/ \E e \in t.ids :
        /\ \A d \in t.ids : e <= d
        /\ emi' = [emi EXCEPT ![e].paidPi = t.sums[e].pi,
                              ![e].paidCharge = t.sums[e].charge]
        /\ Keep(w, [t EXCEPT !.ids = @ \ {e}])
        /\ UNCHANGED pc
  /\ UNCHANGED <<row, loan, user, trace, charges, world, aborts>>

-----------------------------------------------------------------------------
(* isEligibleForLoanClose and closeTheLoan. *)

Eligible_SumOnly ==         \* mutant: only the sum is looked at
  Total(LAMBDA r : Amount(row[r].part), Completed) >= NumEmis * PI
Eligible_Above ==           \* mutant: off by one
  /\ \A e \in Emis : emi[e].paid /\ emi[e].done
  /\ Total(LAMBDA r : Amount(row[r].part), Completed) > NumEmis * PI
Eligible ==
  /\ \A e \in Emis : emi[e].paid /\ emi[e].done
  /\ Total(LAMBDA r : Amount(row[r].part), Completed) >= NumEmis * PI

CloseCheck(w) ==
  /\ pc[w] = "closeCheck"
  /\ IF Eligible THEN Goto(w, "close") /\ UNCHANGED task ELSE Return(w)
  /\ UNCHANGED <<db, world, aborts>>

CloseTheLoan(w) ==
  /\ pc[w] = "close"
  /\ loan' = "Complete"
  /\ Goto(w, "readUser")
  /\ UNCHANGED task
  /\ UNCHANGED <<row, emi, user, trace, charges, world, aborts>>

ReadUser(w) ==
  /\ pc[w] = "readUser"
  /\ Keep(w, [task[w] EXCEPT !.seen = user.completedLoans])
  /\ Goto(w, IF user.completedLoans = 0 /\ user.status = 1
               THEN "referral" ELSE "countLoan")
  /\ UNCHANGED <<db, world, aborts>>

(* addReferral(LOAN_COMPLETE) looks the user up again by completedLoans 0. *)
GiveReferral(w) ==
  /\ pc[w] = "referral"
  /\ user' = [user EXCEPT !.referrals =
                IF user.completedLoans = 0 THEN AtMost(@ + 1, MaxCount) ELSE @]
  /\ Goto(w, "countLoan")
  /\ UNCHANGED task
  /\ UNCHANGED <<row, emi, loan, trace, charges, world, aborts>>

CountAfter_Same(seen) ==    \* mutant: the increment is lost
  seen
CountAfter(seen) == AtMost(seen + 1, MaxCount)

CountLoan(w) ==
  /\ pc[w] = "countLoan"
  /\ user' = [user EXCEPT !.completedLoans = CountAfter(task[w].seen)]
  /\ Return(w)
  /\ UNCHANGED <<row, emi, loan, trace, charges, world, aborts>>

-----------------------------------------------------------------------------
(* Maintenance endpoints. *)

(* updateAllEmiDues: unpaid EMIs past their date are found, then flagged   *)
(* by id.                                                                  *)
DuesRead(w) ==
  /\ pc[w] = "idle"
  /\ "dues" \in Jobs
  /\ {e \in late : ~emi[e].paid /\ ~emi[e].due} # {}
  /\ Keep(w, [NoTask EXCEPT !.ids = {e \in late : ~emi[e].paid /\ ~emi[e].due}])
  /\ Goto(w, "dues")
  /\ UNCHANGED <<db, world, aborts>>

DuesWrite(w) ==
  /\ pc[w] = "dues"
  /\ emi' = [e \in Emis |-> IF e \in task[w].ids
                              THEN [emi[e] EXCEPT !.due = TRUE] ELSE emi[e]]
  /\ Goto(w, "idle")
  /\ Keep(w, NoTask)
  /\ UNCHANGED <<row, loan, user, trace, charges, world, aborts>>

(* addToArchiveInitializedTransactions: rows that were INITIALIZED (for 30 *)
(* days, any of them here) when it looked are copied away and deleted by   *)
(* id.                                                                     *)
ArchiveRead(w) ==
  /\ pc[w] = "idle"
  /\ "archive" \in Jobs
  /\ \E old \in SUBSET {r \in RowIds : row[r].status = "INITIALIZED"} :
       /\ old # {}
       /\ Keep(w, [NoTask EXCEPT !.old = old])
  /\ Goto(w, "archive")
  /\ UNCHANGED <<db, world, aborts>>

ArchiveDelete(w) ==
  /\ pc[w] = "archive"
  /\ row' = [r \in RowIds |-> IF r \in task[w].old
                                THEN [row[r] EXCEPT !.status = "ARCHIVED"]
                                ELSE row[r]]
  /\ Goto(w, "idle")
  /\ Keep(w, NoTask)
  /\ UNCHANGED <<emi, loan, user, trace, charges, world, aborts>>

(* A handler dies between two awaits: restart of the process, or an error  *)
(* of the database turned into k500Error and an early return.              *)
Abort(w) ==
  /\ pc[w] # "idle"
  /\ aborts < MaxAborts
  /\ aborts' = aborts + 1
  /\ Goto(w, "idle")
  /\ Keep(w, NoTask)
  /\ UNCHANGED <<db, world>>

-----------------------------------------------------------------------------
(* Everything a running handler does by itself. *)
Advance(w) ==
  \/ ResetPenalty(w) \/ Bifurcate(w) \/ SplitPart(w) \/ UpdateTransaction(w)
  \/ BounceRead(w) \/ BounceTrace(w) \/ BounceWrite(w)
  \/ PartRead(w) \/ PartWrite(w) \/ FullRead(w) \/ FullWrite(w)
  \/ StatusRead(w) \/ StatusWrite(w) \/ RecalcRead(w) \/ RecalcWrite(w)
  \/ CloseCheck(w) \/ CloseTheLoan(w) \/ ReadUser(w) \/ GiveReferral(w)
  \/ CountLoan(w)
  \/ DuesWrite(w) \/ ArchiveDelete(w)

Next ==
  \/ \E p \in Pays : CreateOrder(p) \/ GatewayCapture(p) \/ GatewayFail(p)
  \/ DatePasses
  \/ \E w \in Workers, p \in Pays :
       \/ Poll(w, p)
       \/ \E event \in {"captured", "failed"} : ManualWebhook(w, p, event)
       \/ SigndeskBatch(w, p)
  \/ \E w \in Workers :
       DuesRead(w) \/ ArchiveRead(w) \/ Advance(w) \/ Abort(w)

Spec == Init /\ [][Next]_vars

(* The event loop runs every started handler on; an INITIALIZED order is   *)
(* polled again and again; a gateway repeats the webhook of a capture      *)
(* until it is answered.                                                   *)
FairSpec ==
  /\ Spec
  /\ \A w \in Workers : WF_vars(Advance(w))
  /\ \A p \in Pays :
       /\ SF_vars(\E w \in Workers : Poll(w, p))
       /\ SF_vars(\E w \in Workers : ManualWebhook(w, p, "captured"))
=============================================================================
