------------------------------- MODULE Refund -------------------------------
(***************************************************************************)
(* Refunds of what one loan has paid in excess: the REFUND rows, the trace *)
(* rows that guard them, the gateways that pay them, and the handlers of   *)
(* RefundService that place, poll and re-initialise them.                  *)
(*                                                                         *)
(* A worker is a handler in flight, cut at its awaits as in Repayment.     *)
(* Money is counted in units of more than the 10 rupees that the code      *)
(* forgives.                                                               *)
(***************************************************************************)
EXTENDS Integers, Sequences, SequencesExt

CONSTANTS
  NumEmis,    \* number of instalments of the loan
  EmiAmount,  \* what each instalment asks for, charges included
  FullEmis,   \* instalments with pay_type FULLPAY
  Payments,   \* payments that may be booked as COMPLETED
  PayEmi,     \* instalment of each payment, NoEmi for a FULLPAY
  PayAmount,  \* its paidAmount
  PaySource,  \* the gateway that collected it
  Workers,    \* handlers that may be in flight at the same time
  MaxRows,    \* how many REFUND rows this instance has room for
  MaxLosses,  \* how many answers of a gateway may get lost
  MaxAborts,  \* how many handlers may die between two awaits
  NoTran      \* no payment: the refund goes to the bank account

Emis == 1 .. NumEmis
NoEmi == 0
RowIds == 1 .. MaxRows

(* AUTODEBIT stands for Cashfree auto debits and whatever else cannot be    *)
(* refunded at its source (RPC 1.0.0).                                     *)
Sources == {"RAZORPAY", "ICICI_UPI", "AUTODEBIT"}

ASSUME RefundAssumption ==
  /\ NumEmis \in Nat \ {0}
  /\ EmiAmount \in [Emis -> Nat]
  /\ FullEmis \subseteq Emis
  /\ IsFiniteSet(Payments)
  /\ PayEmi \in [Payments -> Emis \union {NoEmi}]
  /\ PayAmount \in [Payments -> Nat \ {0}]
  /\ PaySource \in [Payments -> Sources]
  /\ MaxRows \in Nat
  /\ MaxLosses \in Nat
  /\ MaxAborts \in Nat
  /\ NoTran \notin Payments

VARIABLES
  paid,    \* payments booked as COMPLETED
  due,     \* instalments that are paid, or whose date has come
  row,     \* REFUND rows of TransactionEntity
  trace,   \* instalments with a SystemTrace row T7=L<loan>=E<emi>
  gw,      \* the gateways: what became of the refund of each row
  pc,      \* where each handler stands
  task,    \* its local variables
  losses,  \* answers lost so far
  aborts   \* handlers lost so far

vars == <<paid, due, row, trace, gw, pc, task, losses, aborts>>

NoRow == [status |-> "NONE", emi |-> NoEmi, amount |-> 0, tran |-> NoTran,
          after |-> 0, resp |-> "NONE"]
NoTask == [emi |-> NoEmi, total |-> 0, amount |-> 0, billed |-> {}, after |-> 0,
           parts |-> <<>>, i |-> 0, row |-> 0, answer |-> "LOST", todo |-> {}]

-----------------------------------------------------------------------------
(* What the queries of getRefundablesData add up. *)

Positive(n) == IF n \in Nat THEN n ELSE 0
Total(Op(_), S) == SumFunctionOnSet([x \in S |-> Op(x)], S)
Amount(r) == row[r].amount

HasStatus(S) == {r \in RowIds : row[r].status \in S}
Counted == HasStatus({"COMPLETED", "INITIALIZED"})

PaidAmount_GrossOfRefunds ==    \* mutant: the SUM leaves REFUND rows out
  Total(LAMBDA p : PayAmount[p], paid)
PaidAmount ==
  Total(LAMBDA p : PayAmount[p], paid) - Total(Amount, Counted)

(* An instalment counts when a row names it, or when it is paid or due. *)
Named == {e \in Emis : \/ \E p \in paid : PayEmi[p] = e
                       \/ \E r \in RowIds : /\ row[r].emi = e
                                            /\ row[r].status # "DELETED"}
Bill(E) == Total(LAMBDA e : EmiAmount[e], E)
Excess(total, billed) ==
  IF Bill(billed) = 0 THEN 0 ELSE Positive(total - Bill(billed))

(* What the rows of one instalment hold, a full payment included. *)
FullPayment == {p \in paid : PayEmi[p] = NoEmi}
Held(e) ==
  LET own == {p \in paid : PayEmi[p] = e}
      back == {r \in Counted : row[r].emi = e}
  IN  Total(LAMBDA p : PayAmount[p], own) - Total(Amount, back)

(* The instalments a refund may be booked on: the last one that holds too  *)
(* much; if there is none, the one whose amount is closest.                *)
Latest(E) == {e \in E : \A f \in E : f <= e}
Distance(e, n) == IF EmiAmount[e] < n THEN n - EmiAmount[e] ELSE EmiAmount[e] - n
Overpaid(billed, full) ==
  {e \in billed : Held(e) + (IF e \in FullEmis THEN full ELSE 0) > EmiAmount[e]}
Closest(billed, n) ==
  {e \in billed : \A f \in billed : Distance(e, n) <= Distance(f, n)}
RefundEmis(billed, excess) ==
  LET fulls == IF FullPayment = {} THEN {0} ELSE {PayAmount[p] : p \in FullPayment}
  IN  UNION {Latest(IF Overpaid(billed, n) # {} THEN Overpaid(billed, n)
                    ELSE Closest(billed, excess)) : n \in fulls}

LastFailed ==
  LET failed == HasStatus({"FAILED"})
  IN  IF Latest(failed) = {} THEN 0 ELSE CHOOSE r \in Latest(failed) : TRUE

-----------------------------------------------------------------------------
(* prePareRefundAmount: which payments give how much back.                 *)
(*                                                                         *)
(* Every branch of it goes through the payments in the order of a          *)
(* preference and takes what is still needed, so it is the greedy split    *)
(* along a preferred order; what no payment covers goes to the bank.       *)

Usable == {p \in paid : PaySource[p] # "AUTODEBIT"}

Rank_IciciFirst(p, e, n) ==    \* mutant: the preference of RPC 1.1.0 reversed
  IF PaySource[p] = "ICICI_UPI" /\ PayAmount[p] >= n THEN 1 ELSE 2
Rank(p, e, n) ==
  LET icici == PaySource[p] = "ICICI_UPI"
      same == PayEmi[p] = e
      covers == PayAmount[p] >= n
  IN  CASE covers /\ ~icici           -> 1
        [] covers /\ icici /\ same    -> IF PayAmount[p] = n THEN 2 ELSE 3
        [] ~covers /\ same            -> IF icici THEN 5 ELSE 4
        [] covers /\ icici /\ ~same   -> 6
        [] OTHER                      -> IF icici THEN 8 ELSE 7

(* The rows come from the database in no particular order. *)
Preferred(e, n) ==
  {s \in SetToSeqs(Usable) :
     \A i, j \in DOMAIN s : i < j => Rank(s[i], e, n) <= Rank(s[j], e, n)}

(* The greedy split of n along s: f[i] is taken from the i-th payment. *)
Before(f, i) == Total(LAMBDA j : f[j], 1 .. (i - 1))
Greedy(s, n) ==
  {f \in [DOMAIN s -> 0 .. n] :
     \A i \in DOMAIN s :
        f[i] = Positive(IF PayAmount[s[i]] < n - Before(f, i)
                          THEN PayAmount[s[i]] ELSE n - Before(f, i))}
Part(tran, n) == [tran |-> tran, amount |-> n]
Split(s, f, n) ==
  Append([i \in DOMAIN s |-> Part(s[i], f[i])],
         Part(NoTran, Positive(n - Before(f, Len(s) + 1))))
Allocations(e, n) ==
  UNION {{Split(s, f, n) : f \in Greedy(s, n)} : s \in Preferred(e, n)}

-----------------------------------------------------------------------------
Init ==
  /\ paid = {}
  /\ due \in SUBSET Emis
  /\ row = [r \in RowIds |-> NoRow]
  /\ trace = {}
  /\ gw = [r \in RowIds |-> "NONE"]
  /\ pc = [w \in Workers |-> "idle"]
  /\ task = [w \in Workers |-> NoTask]
  /\ losses = 0
  /\ aborts = 0

Goto(w, where, t) ==
  /\ pc' = [pc EXCEPT ![w] = where]
  /\ task' = [task EXCEPT ![w] = t]
Stop(w) == Goto(w, "idle", NoTask)
db == <<row, trace>>
world == <<paid, due, gw, losses, aborts>>

-----------------------------------------------------------------------------
(* checkAndPlaceRefund *)

(* An admin asks for it; refundAutomation does for loans without a failed  *)
(* refund (which of those are On-Time and without waiver is left open).    *)
Place(w) ==
  /\ pc[w] = "idle"
  /\ Goto(w, "paid", NoTask)
  /\ UNCHANGED <<db, world>>

Automate(w) ==
  /\ pc[w] = "idle"
  /\ Excess(PaidAmount, Named \union due) > 0
  /\ HasStatus({"FAILED"}) = {}
  /\ Goto(w, "paid", NoTask)
  /\ UNCHANGED <<db, world>>

(* getRefundablesData: the amount paid, the instalments that rows name, the *)
(* instalments themselves and, if too much was paid, the loan's rows again. *)
ReadPaid(w) ==
  /\ pc[w] = "paid"
  /\ Goto(w, "named", [NoTask EXCEPT !.total = PaidAmount])
  /\ UNCHANGED <<db, world>>

ReadNamed(w) ==
  /\ pc[w] = "named"
  /\ Goto(w, "emis", [task[w] EXCEPT !.billed = Named])
  /\ UNCHANGED <<db, world>>

ReadEmis(w) ==
  LET billed == task[w].billed \union due
      excess == Excess(task[w].total, billed)
  IN
  /\ pc[w] = "emis"
  /\ \/ /\ excess = 0
        /\ Stop(w)
     \/ /\ excess > 0
        /\ Goto(w, "rows", [task[w] EXCEPT !.billed = billed, !.amount = excess])
  /\ UNCHANGED <<db, world>>

ReadRows(w) ==
  /\ pc[w] = "rows"
  /\ \E e \in RefundEmis(task[w].billed, task[w].amount) :
       Goto(w, "transactions", [task[w] EXCEPT !.emi = e, !.after = LastFailed])
  /\ UNCHANGED <<db, world>>

(* getTransactionDataFroRfund, prePareRefundAmount *)
ReadTransactions(w) ==
  /\ pc[w] = "transactions"
  /\ \/ /\ HasStatus({"INITIALIZED"}) # {}
        /\ Stop(w)
     \/ /\ HasStatus({"INITIALIZED"}) = {}
        /\ \E parts \in Allocations(task[w].emi, task[w].amount) :
             Goto(w, "trace", [task[w] EXCEPT !.parts = parts])
  /\ UNCHANGED <<db, world>>

(* The loop over the parts: each begins with a trace row, and is passed    *)
(* over when that row exists.                                              *)
PartsAhead(w) ==
  {i \in DOMAIN task[w].parts : i > task[w].i /\ task[w].parts[i].amount > 0}
CreateTrace_Anyway(w) ==    \* mutant: uniqueId is not unique
  /\ pc[w] = "trace"
  /\ \/ /\ PartsAhead(w) = {}
        /\ Stop(w)
        /\ UNCHANGED trace
     \/ \E i \in PartsAhead(w) :
          /\ \A j \in PartsAhead(w) : i <= j
          /\ trace' = trace \union {task[w].emi}
          /\ Goto(w, "row", [task[w] EXCEPT !.i = i])
  /\ UNCHANGED <<row, world>>
CreateTrace(w) ==
  /\ pc[w] = "trace"
  /\ \/ /\ PartsAhead(w) = {}
        /\ Stop(w)
        /\ UNCHANGED trace
     \/ \E i \in PartsAhead(w) :
          /\ \A j \in PartsAhead(w) : i <= j
          /\ trace' = trace \union {task[w].emi}
          /\ Goto(w, IF task[w].emi \in trace THEN "trace" ELSE "row",
                  [task[w] EXCEPT !.i = i])
  /\ UNCHANGED <<row, world>>

(* refundInitialized: the row, unless its transactionId is taken ... *)
NewRow_Negative(w) ==    \* mutant: paidAmount with its sign
  LET part == task[w].parts[task[w].i]
  IN  [status |-> "INITIALIZED", emi |-> task[w].emi, amount |-> -part.amount,
       tran |-> part.tran, after |-> task[w].after, resp |-> "NONE"]
NewRow(w) ==
  LET part == task[w].parts[task[w].i]
  IN  [status |-> "INITIALIZED", emi |-> task[w].emi, amount |-> part.amount,
       tran |-> part.tran, after |-> task[w].after,
       resp |-> IF part.tran = NoTran THEN "NONE"
                ELSE IF PaySource[part.tran] = "ICICI_UPI" THEN "NONE"
                ELSE "PAYMENT"]
TransactionId(r) == <<r.emi, r.amount, r.tran, r.after>>
Taken(r) ==
  \E s \in RowIds : /\ row[s].status \notin {"NONE", "DELETED"}
                    /\ TransactionId(row[s]) = TransactionId(r)
CreateRow(w) ==
  /\ pc[w] = "row"
  /\ \/ /\ Taken(NewRow(w))
        /\ Goto(w, "trace", task[w])
        /\ UNCHANGED row
     \/ /\ ~Taken(NewRow(w))
        /\ \E r \in RowIds :
             /\ row[r].status = "NONE"
             /\ \A s \in RowIds : s < r => row[s].status # "NONE"
             /\ row' = [row EXCEPT ![r] = NewRow(w)]
             /\ Goto(w, "gateway", [task[w] EXCEPT !.row = r])
  /\ UNCHANGED <<trace, world>>

(* ... then the gateway, which never gives back more of a payment than it  *)
(* got, and whose answer may get lost ...                                  *)
Live == {r \in RowIds : gw[r] \in {"PENDING", "PAID"}}
GivenBack(p) == Total(Amount, {r \in Live : row[r].tran = p})
Fits(r) ==
  row[r].tran # NoTran =>
    row[r].amount + GivenBack(row[r].tran) <= PayAmount[row[r].tran]
Outcomes(r) ==
  {"REJECTED"} \union (IF Fits(r) THEN {"PENDING"} ELSE {})
               \union (IF Fits(r) /\ row[r].tran # NoTran THEN {"PAID"} ELSE {})
CallGateway(w) ==
  LET r == task[w].row
  IN  /\ pc[w] = "gateway"
      /\ \/ \E outcome \in Outcomes(r) :
              /\ gw' = [gw EXCEPT ![r] = outcome]
              /\ \/ /\ Goto(w, "save", [task[w] EXCEPT !.answer = outcome])
                    /\ UNCHANGED losses
                 \/ /\ losses < MaxLosses
                    /\ losses' = losses + 1
                    /\ Goto(w, "save", [task[w] EXCEPT !.answer = "LOST"])
         \/ /\ losses < MaxLosses          \* it was never reached
            /\ losses' = losses + 1
            /\ Goto(w, "save", [task[w] EXCEPT !.answer = "LOST"])
            /\ UNCHANGED gw
      /\ UNCHANGED <<db, paid, due, aborts>>

(* ... and updateRowData with its answer.  No answer counts as FAILED; a   *)
(* refusal leaves a response without the ids of a refund, or none.         *)
StatusOf_Optimistic(answer) ==    \* mutant: an accepted refund counts as paid
  IF answer \in {"PAID", "PENDING"} THEN "COMPLETED" ELSE "FAILED"
StatusOf(answer) ==
  CASE answer = "PAID"    -> "COMPLETED"
    [] answer = "PENDING" -> "INITIALIZED"
    [] OTHER              -> "FAILED"
Razorpay(r) ==
  row[r].tran # NoTran /\ PaySource[row[r].tran] = "RAZORPAY"
Icici(r) ==
  row[r].tran # NoTran /\ PaySource[row[r].tran] = "ICICI_UPI"
RespOf(r, answer) ==
  CASE answer \in {"PAID", "PENDING"}          -> "REFUND"
    [] answer = "REJECTED" /\ Razorpay(r)      -> "ERROR"
    [] OTHER                                   -> row[r].resp
Update(r, status, resp) ==
  row' = IF row[r].status = "DELETED" THEN row
         ELSE [row EXCEPT ![r].status = status, ![r].resp = resp]
SaveAnswer(w) ==
  LET r == task[w].row
  IN  /\ pc[w] = "save"
      /\ Update(r, StatusOf(task[w].answer), RespOf(r, task[w].answer))
      /\ Goto(w, "trace", task[w])
      /\ UNCHANGED <<trace, world>>

-----------------------------------------------------------------------------
(* checkPendingRefund *)

PollRead(w) ==
  /\ pc[w] = "idle"
  /\ HasStatus({"INITIALIZED"}) # {}
  /\ Goto(w, "ask", [NoTask EXCEPT !.todo = HasStatus({"INITIALIZED"})])
  /\ UNCHANGED <<db, world>>

(* checkStatusOfRefund: a gateway can be asked about a refund whose ids    *)
(* are known, ICICI by transactionId.                                      *)
CanAsk(r) == Icici(r) \/ row[r].resp = "REFUND"
PollAsk(w) ==
  /\ pc[w] = "ask"
  /\ \/ /\ task[w].todo = {}
        /\ Stop(w)
     \/ \E r \in task[w].todo :
          IF CanAsk(r) /\ gw[r] # "NONE"
            THEN Goto(w, "settle", [task[w] EXCEPT !.row = r, !.answer = gw[r]])
            ELSE Goto(w, "ask", [task[w] EXCEPT !.todo = @ \ {r}])
  /\ UNCHANGED <<db, world>>

PollSettle_NoFailed(w) ==    \* mutant: only a paid refund is written
  LET r == task[w].row
  IN  /\ pc[w] = "settle"
      /\ Update(r, IF task[w].answer = "PAID" THEN "COMPLETED"
                   ELSE row[r].status, "REFUND")
      /\ Goto(w, "ask", [task[w] EXCEPT !.todo = @ \ {r}])
      /\ UNCHANGED <<trace, world>>
PollSettle(w) ==
  LET r == task[w].row
  IN  /\ pc[w] = "settle"
      /\ Update(r, StatusOf(task[w].answer), "REFUND")
      /\ Goto(w, "ask", [task[w] EXCEPT !.todo = @ \ {r}])
      /\ UNCHANGED <<trace, world>>

-----------------------------------------------------------------------------
(* reInitializeRefund *)

(* checkRefundIsFiled: the row is FAILED, and the gateway says so or the   *)
(* row has no response at all.                                             *)
IsFailed(r) ==
  /\ row[r].status = "FAILED"
  /\ \/ row[r].resp = "NONE"
     \/ CanAsk(r) /\ gw[r] = "REJECTED"
CheckFailed_ByStatus(w) ==    \* mutant: the gateway is not asked
  /\ pc[w] = "idle"
  /\ \E r \in HasStatus({"FAILED", "INITIALIZED"}) :
       Goto(w, "delete", [NoTask EXCEPT !.row = r])
  /\ UNCHANGED <<db, world>>
CheckFailed(w) ==
  /\ pc[w] = "idle"
  /\ \E r \in RowIds : /\ IsFailed(r)
                       /\ Goto(w, "delete", [NoTask EXCEPT !.row = r])
  /\ UNCHANGED <<db, world>>

DeleteAndPlace(w) ==
  /\ pc[w] = "delete"
  /\ row' = [row EXCEPT ![task[w].row].status = "DELETED"]
  /\ Goto(w, "paid", NoTask)
  /\ UNCHANGED <<trace, world>>

-----------------------------------------------------------------------------
(* What happens around the handlers. *)

(* Repayment books a payment; an instalment is paid or its date comes. *)
BookPayment(p) ==
  /\ p \notin paid
  /\ paid' = paid \union {p}
  /\ UNCHANGED <<db, due, gw, pc, task, losses, aborts>>
FallsDue(e) ==
  /\ e \notin due
  /\ due' = due \union {e}
  /\ UNCHANGED <<db, paid, gw, pc, task, losses, aborts>>

GatewayPays(r) ==
  /\ gw[r] = "PENDING"
  /\ gw' = [gw EXCEPT ![r] = "PAID"]
  /\ UNCHANGED <<db, paid, due, pc, task, losses, aborts>>
GatewayRejects(r) ==
  /\ gw[r] = "PENDING"
  /\ gw' = [gw EXCEPT ![r] = "REJECTED"]
  /\ UNCHANGED <<db, paid, due, pc, task, losses, aborts>>

(* The process restarts, or the handler returns early after k500Error. *)
Abort(w) ==
  /\ aborts < MaxAborts
  /\ pc[w] # "idle"
  /\ aborts' = aborts + 1
  /\ Stop(w)
  /\ UNCHANGED <<db, paid, due, gw, losses>>

-----------------------------------------------------------------------------
Advance(w) ==
  \/ ReadPaid(w) \/ ReadNamed(w) \/ ReadEmis(w) \/ ReadRows(w)
  \/ ReadTransactions(w) \/ CreateTrace(w) \/ CreateRow(w)
  \/ CallGateway(w) \/ SaveAnswer(w)
  \/ PollAsk(w) \/ PollSettle(w) \/ DeleteAndPlace(w)
Enter(w) == Place(w) \/ Automate(w) \/ PollRead(w) \/ CheckFailed(w)
Outside ==
  \/ \E p \in Payments : BookPayment(p)
  \/ \E e \in Emis : FallsDue(e)
  \/ \E r \in RowIds : GatewayPays(r) \/ GatewayRejects(r)

Next ==
  \/ \E w \in Workers : Enter(w) \/ Advance(w) \/ Abort(w)
  \/ Outside

Spec == Init /\ [][Next]_vars

(* A handler that runs goes on, and the endpoint that polls is called by a *)
(* scheduler again and again.                                              *)
FairSpec ==
  /\ Spec
  /\ \A w \in Workers : WF_vars(Advance(w)) /\ SF_vars(PollRead(w))
=============================================================================
