--------------------------- MODULE RepaymentProofs ---------------------------
(***************************************************************************)
(* IndInv is inductive, for any number of EMIs, orders and handlers, any   *)
(* amounts and any number of lost handlers.  Hence the types, the three    *)
(* invariants it contains and the refinement of LoanLedger.                *)
(***************************************************************************)
EXTENDS RepaymentProperties, TLAPS

-----------------------------------------------------------------------------
(* Amounts. *)

(* Whatever it is applied to, Positive is a natural number. *)
LEMMA PositiveNat == \A n : Positive(n) \in Nat
  BY DEF Positive

(* A sum of amounts is a natural number. *)
LEMMA TotalNat == ASSUME NEW Op(_), NEW S PROVE Total(Op, S) \in Nat
  BY PositiveNat DEF Total

(* What is owed is never negative. *)
LEMMA OwedNat == \A e : OwedPi(e) \in Nat /\ OwedCharge(e) \in Nat
  BY PositiveNat DEF OwedPi, OwedCharge

(* The amounts of a new order are natural numbers, the rest of a part     *)
(* payment included.                                                       *)
LEMMA OrderPartType ==
  ASSUME NEW type, NEW e \in Emis, NEW amount \in Nat
  PROVE  OrderPart(type, e, amount) \in Parts
<1>1. CASE type = "FULLPAY"
  <2>1. OrderPart(type, e, amount) =
          [emi |-> NoEmi, pi |-> Total(OwedPi, Unpaid),
           charge |-> Total(ChargeBill, Unpaid), extra |-> 0]
    BY <1>1 DEF OrderPart
  <2>2. Total(OwedPi, Unpaid) \in Nat /\ Total(ChargeBill, Unpaid) \in Nat
    BY TotalNat
  <2> QED BY <2>1, <2>2 DEF Parts, Money
<1>2. CASE type # "FULLPAY"
  <2> DEFINE pi == AtMost(amount, OwedPi(e))
             charge == AtMost(amount - pi, OwedCharge(e))
  <2>1. pi \in Nat /\ pi <= amount
    BY OwedNat DEF AtMost
  <2>2. charge \in Nat /\ charge <= amount - pi
    BY <2>1, OwedNat DEF AtMost
  <2>3. amount - pi - charge \in Nat
    BY <2>1, <2>2
  <2>4. OrderPart(type, e, amount) =
          [emi |-> e, pi |-> pi, charge |-> charge,
           extra |-> amount - pi - charge]
    BY <1>2 DEF OrderPart
  <2> HIDE DEF pi, charge
  <2> QED BY <2>1, <2>2, <2>3, <2>4 DEF Parts, Money
<1> QED BY <1>1, <1>2

(* A split makes parts of EMIs and of natural amounts. *)
LEMMA SplitPartsType ==
  ASSUME NEW amount \in Nat
  PROVE  SplitParts(amount) \subseteq Parts
<1> DEFINE Older(e) == {d \in DueUnpaid : d < e}
           afterPi == amount - Total(OwedPi, DueUnpaid)
           piOf(e) == AtMost(OwedPi(e),
                             Positive(amount - Total(OwedPi, Older(e))))
           chargeOf(e) == AtMost(OwedCharge(e),
                                 Positive(afterPi - Total(OwedCharge, Older(e))))
<1>1. \A e : piOf(e) \in Nat /\ chargeOf(e) \in Nat
  BY OwedNat, PositiveNat DEF AtMost
<1>2. DueUnpaid \subseteq Emis
  BY DEF DueUnpaid, Unpaid
<1>3. RestOf(amount) \in Nat
  BY PositiveNat DEF RestOf
<1> HIDE DEF piOf, chargeOf
<1>4. \A e \in DueUnpaid : [emi |-> e, pi |-> piOf(e), charge |-> chargeOf(e),
                            extra |-> 0] \in Parts
  BY <1>1, <1>2 DEF Parts, Money
<1>5. [NoPart EXCEPT !.extra = RestOf(amount)] \in Parts
  BY <1>3 DEF NoPart, Parts, Money
<1> QED BY <1>4, <1>5 DEF SplitParts, piOf, chargeOf

(* emi_amount stays within the EMI when payments are taken off it. *)
LEMMA LeftOfType ==
  ASSUME NEW e, emi[e].left \in 0 .. PI
  PROVE  LeftOf(e) \in 0 .. PI
<1>1. Positive(PI - PaidPi(e)) \in Nat
  BY PositiveNat
<1> QED BY <1>1, ConstantsAssumption DEF LeftOf, AtMost

(* The locals of an idle handler are well typed. *)
LEMMA NoTaskType == NoTask \in Tasks
<1> DEFINE none == [e \in Emis |-> [pi |-> 0, charge |-> 0]]
<1>1. none \in [Emis -> [pi : Money, charge : Money]]
  BY DEF Money
<1>2. NoTask.sums = none
  BY DEF NoTask
<1> QED BY <1>1, ConstantsAssumption DEF NoTask, Tasks, Types, NoPart, Parts, Money

-----------------------------------------------------------------------------
(* What most steps have in common: only one handler moves, it does not     *)
(* come to write a charge or to close the loan, and it takes nothing back. *)

Others(w) == \A v \in Workers \ {w} : pc'[v] = pc[v] /\ task'[v] = task[v]
PaidStays == \A e \in Emis : emi[e].paid => emi'[e].paid

(* The task of a handler changes within its type. *)
LEMMA HandlerTypes ==
  ASSUME TypeOK, NEW w \in Workers, NEW label \in Labels, NEW t \in Tasks
  PROVE  /\ Goto(w, label) => /\ pc' \in [Workers -> Labels]
                              /\ pc'[w] = label
                              /\ \A v \in Workers \ {w} : pc'[v] = pc[v]
         /\ Keep(w, t) => /\ task' \in [Workers -> Tasks]
                          /\ task'[w] = t
                          /\ \A v \in Workers \ {w} : task'[v] = task[v]
  BY DEF TypeOK, Goto, Keep

(* A handler that goes to a label and keeps its locals. *)
LEMMA GotoStep ==
  ASSUME TypeOK, NEW w \in Workers, NEW label \in Labels,
         Goto(w, label), UNCHANGED task
  PROVE  pc' \in [Workers -> Labels] /\ Others(w) /\ pc'[w] = label
<1>1. pc' \in [Workers -> Labels] /\ pc'[w] = label
  BY HandlerTypes, NoTaskType
<1>2. \A v \in Workers \ {w} : pc'[v] = pc[v]
  BY HandlerTypes, NoTaskType
<1> QED BY <1>1, <1>2 DEF Others

(* A return goes on with the next part or ends the handler. *)
LEMMA ReturnStep ==
  ASSUME TypeOK, NEW w \in Workers, Return(w)
  PROVE  /\ pc' \in [Workers -> Labels] /\ task' \in [Workers -> Tasks]
         /\ Others(w)
         /\ \/ pc'[w] = "part" /\ task'[w] = task[w]
            \/ pc'[w] = "idle" /\ task'[w] = NoTask
<1>1. CASE Goto(w, "part") /\ UNCHANGED task
  BY <1>1, HandlerTypes, NoTaskType DEF Labels, Others, TypeOK
<1>2. CASE Goto(w, "idle") /\ Keep(w, NoTask)
  BY <1>2, HandlerTypes, NoTaskType DEF Labels, Others
<1> QED BY <1>1, <1>2 DEF Return

(* A step of one handler that is neither of the two critical ones keeps   *)
(* the invariant, once its types and its own part of it are kept.          *)
LEMMA CalmStep ==
  ASSUME IndInv, NEW w \in Workers, Others(w), PaidStays,
         UNCHANGED <<trace, charges, loan, gw, events>>,
         pc'[w] \notin {"bounceWrite", "close"},
         TypeOK', HandlerOK(w)', OrdersHaveRows', NoPhantomPayment'
  PROVE  IndInv'
<1>1. \A v \in Workers : HandlerOK(v)'
  <2> SUFFICES ASSUME NEW v \in Workers, v # w PROVE HandlerOK(v)'
    OBVIOUS
  <2> QED BY DEF IndInv, HandlerOK, Others
<1>2. ChargedOnce'
  BY DEF IndInv, ChargedOnce
<1>3. TraceGuardsCharge'
  BY DEF IndInv, TraceGuardsCharge, Others
<1>4. ClosedOnlyWhenPaid' /\ CloserSawAllPaid'
  BY DEF IndInv, ClosedOnlyWhenPaid, CloserSawAllPaid, Unpaid, Others, PaidStays
<1>5. EventsAreTrue'
  BY DEF IndInv, EventsAreTrue
<1> QED BY <1>1, <1>2, <1>3, <1>4, <1>5 DEF IndInv

(* If no row changes and no capture is undone, the rows stay in order. *)
LEMMA SameRows ==
  ASSUME IndInv, UNCHANGED <<row, gw>>
  PROVE  OrdersHaveRows' /\ NoPhantomPayment'
  BY DEF IndInv, OrdersHaveRows, NoPhantomPayment, Completed

(* A handler that has ended, or runs a maintenance job, owes nothing. *)
LEMMA RestingOK ==
  ASSUME NEW w \in Workers, pc'[w] \in {"idle", "dues", "archive"}
  PROVE  HandlerOK(w)'
  BY DEF HandlerOK, OrderLabels, PaidLabels, Labels

(* A handler that keeps its order and moves between the labels of a paid   *)
(* order stays in order.                                                   *)
LEMMA PaidOK ==
  ASSUME NEW w \in Workers, HandlerOK(w), pc[w] \in PaidLabels, gw' = gw,
         pc'[w] \in PaidLabels, pc'[w] \notin {"penalty", "bifurcate"},
         task'[w].id = task[w].id, task'[w].i = task[w].i,
         task'[w].res = task[w].res,
         pc'[w] = "partWrite" => task'[w].emi # NoEmi
  PROVE  HandlerOK(w)'
  BY DEF HandlerOK, OrderLabels, PaidLabels

-----------------------------------------------------------------------------
(* The actions, one lemma each. *)

(* A new order is typed, and nothing is COMPLETED by it. *)
LEMMA CreateOrderKeeps ==
  ASSUME IndInv, NEW p \in Pays, CreateOrder(p)
  PROVE  IndInv'
<1>0. TypeOK BY DEF IndInv
<1>1. PICK kind \in Kinds, e \in Unpaid, onTime \in BOOLEAN,
           amount \in Prices :
        /\ onTime => kind[2] \in AutoDebit /\ e \notin late
        /\ \/ kind[1] = "FULLPAY" /\ amount = LoanBill
           \/ kind[1] = "EMIPAY" /\ amount = EmiBill(e)
           \/ kind[1] = "PARTPAY" /\ amount # EmiBill(e) /\ amount <= LoanBill
        /\ row' = [row EXCEPT ![<<p, 1>>] =
             [status |-> "INITIALIZED", type |-> kind[1], mode |-> kind[2],
              onTime |-> onTime, part |-> OrderPart(kind[1], e, amount)]]
        /\ price' = [price EXCEPT ![p] = amount]
  BY DEF CreateOrder
<1>2. /\ kind[1] \in Types /\ kind[2] \in Modes
      /\ e \in Emis
      /\ amount \in Nat
  <2>1. kind[1] \in Types /\ kind[2] \in Modes
    BY ConstantsAssumption
  <2>2. NumEmis * (PI + Ecs) \in Int
    BY ConstantsAssumption
  <2>3. amount \in Nat
    BY <2>2 DEF Prices
  <2> QED BY <2>1, <2>3 DEF Unpaid
<1>3. OrderPart(kind[1], e, amount) \in Parts
  BY <1>2, OrderPartType
<1>4. row' \in RowTable
  <2>1. [status |-> "INITIALIZED", type |-> kind[1], mode |-> kind[2],
         onTime |-> onTime, part |-> OrderPart(kind[1], e, amount)]
          \in RowType
    BY <1>2, <1>3 DEF RowType, Statuses
  <2> QED BY <1>0, <1>1, <2>1 DEF TypeOK, RowTable
<1>5. price' \in [Pays -> Money]
  BY <1>0, <1>1, <1>2 DEF TypeOK, Money
<1>6. gw' \in [Pays -> {"none", "open", "captured", "failed"}]
  BY <1>0 DEF TypeOK, CreateOrder
<1>7. TypeOK'
  BY <1>0, <1>4, <1>5, <1>6 DEF TypeOK, CreateOrder
<1>8. UNCHANGED <<pc, task, emi, loan, trace, charges>>
  BY DEF CreateOrder
<1>9. /\ \A q \in Pays : gw[q] = "captured" => gw'[q] = "captured"
      /\ \A q \in Pays \ {p} : gw'[q] = gw[q]
  <2>1. gw[p] = "none"
    BY DEF IndInv, OrdersHaveRows, CreateOrder
  <2> QED BY <1>0, <2>1 DEF CreateOrder, TypeOK
<1>10. /\ \A r \in RowIds : row'[r].status = "COMPLETED" => row[r].status = "COMPLETED"
       /\ \A q \in Pays : row'[<<q, 1>>].status = "NONE" =>
                            row[<<q, 1>>].status = "NONE" /\ q # p
  <2>1. <<p, 1>> \in RowIds
    BY ConstantsAssumption DEF RowIds
  <2> QED BY <1>0, <1>1, <2>1, ConstantsAssumption DEF TypeOK, RowTable, RowIds
<1>11. OrdersHaveRows'
  BY <1>9, <1>10 DEF IndInv, OrdersHaveRows
<1>12. NoPhantomPayment'
  BY <1>9, <1>10 DEF IndInv, NoPhantomPayment, Completed, RowIds
<1>13. \A w \in Workers : HandlerOK(w)'
  BY <1>8, <1>9 DEF IndInv, HandlerOK
<1>14. ChargedOnce' /\ TraceGuardsCharge' /\ ClosedOnlyWhenPaid' /\ CloserSawAllPaid'
  BY <1>8 DEF IndInv, ChargedOnce, TraceGuardsCharge, ClosedOnlyWhenPaid,
              CloserSawAllPaid, Unpaid
<1>15. EventsAreTrue'
  BY <1>9 DEF IndInv, EventsAreTrue, CreateOrder
<1> QED BY <1>7, <1>11, <1>12, <1>13, <1>14, <1>15 DEF IndInv

(* The gateway and the calendar only ever add to what is known. *)
LEMMA WorldKeeps ==
  ASSUME IndInv,
         UNCHANGED <<db, pc, task, aborts>>, TypeOK', EventsAreTrue',
         \A q \in Pays : /\ gw[q] = "captured" => gw'[q] = "captured"
                         /\ gw[q] = "none" => gw'[q] = "none"
  PROVE  IndInv'
<1>1. OrdersHaveRows' /\ NoPhantomPayment'
  BY DEF IndInv, OrdersHaveRows, NoPhantomPayment, Completed, RowIds, db
<1>2. \A w \in Workers : HandlerOK(w)'
  BY DEF IndInv, HandlerOK
<1>3. ChargedOnce' /\ TraceGuardsCharge' /\ ClosedOnlyWhenPaid' /\ CloserSawAllPaid'
  BY DEF IndInv, ChargedOnce, TraceGuardsCharge, ClosedOnlyWhenPaid,
         CloserSawAllPaid, Unpaid, db
<1> QED BY <1>1, <1>2, <1>3 DEF IndInv

(* GatewayCapture turns an open order into a captured one. *)
LEMMA GatewayCaptureKeeps ==
  ASSUME IndInv, NEW p \in Pays, GatewayCapture(p)
  PROVE  IndInv'
<1>0. TypeOK BY DEF IndInv
<1>1. TypeOK'
  BY <1>0 DEF TypeOK, GatewayCapture, db
<1>2. EventsAreTrue'
  BY <1>0 DEF IndInv, EventsAreTrue, TypeOK, GatewayCapture
<1> QED BY <1>0, <1>1, <1>2, WorldKeeps DEF GatewayCapture, TypeOK

(* GatewayFail touches no captured order. *)
LEMMA GatewayFailKeeps ==
  ASSUME IndInv, NEW p \in Pays, GatewayFail(p)
  PROVE  IndInv'
<1>0. TypeOK BY DEF IndInv
<1>1. TypeOK'
  BY <1>0 DEF TypeOK, GatewayFail, db
<1>2. EventsAreTrue'
  BY <1>0 DEF IndInv, EventsAreTrue, TypeOK, GatewayFail
<1> QED BY <1>0, <1>1, <1>2, WorldKeeps DEF GatewayFail, TypeOK

(* DatePasses changes the calendar alone. *)
LEMMA DatePassesKeeps ==
  ASSUME IndInv, DatePasses
  PROVE  IndInv'
<1>0. TypeOK BY DEF IndInv
<1>1. TypeOK'
  BY <1>0 DEF TypeOK, DatePasses, db
<1>2. EventsAreTrue'
  BY DEF IndInv, EventsAreTrue, DatePasses
<1> QED BY <1>1, <1>2, WorldKeeps DEF DatePasses

(* Entering: the answer is COMPLETED only for a captured order. *)
LEMMA EnterKeeps ==
  ASSUME IndInv, NEW w \in Workers, NEW p \in Pays,
         NEW res \in {"COMPLETED", "FAILED"},
         res = "COMPLETED" => gw[p] = "captured", Enter(w, p, res)
  PROVE  IndInv'
<1> DEFINE t == [NoTask EXCEPT !.id = <<p, 1>>, !.res = res,
                               !.type = row[<<p, 1>>].type,
                               !.emi = row[<<p, 1>>].part.emi]
<1>0. TypeOK BY DEF IndInv
<1>1. t \in Tasks
  <2>1. row[<<p, 1>>] \in RowType
    BY <1>0, ConstantsAssumption DEF TypeOK, RowTable, RowIds
  <2>2. row[<<p, 1>>].type \in Types /\ row[<<p, 1>>].part.emi \in Emis \union {NoEmi}
    BY <2>1 DEF RowType, Parts
  <2>3. <<p, 1>> \in Pays \X Nat
    OBVIOUS
  <2> QED BY <2>2, <2>3, NoTaskType DEF Tasks
<1>2. /\ t.id = <<p, 1>> /\ t.res = res /\ t.i = 0
  BY DEF NoTask
<1> HIDE DEF t
<1>3. pc'[w] \in {"penalty", "update"} /\ (pc'[w] = "penalty" => res = "COMPLETED")
  BY <1>0 DEF Enter, Goto, TypeOK
<1>4. pc' \in [Workers -> Labels] /\ task' \in [Workers -> Tasks] /\ Others(w)
      /\ task'[w] = t
  BY <1>0, <1>1, HandlerTypes DEF Enter, Labels, Others, t
<1>5. TypeOK'
  BY <1>0, <1>4 DEF TypeOK, Enter, db, world
<1>6. HandlerOK(w)'
  BY <1>2, <1>3, <1>4 DEF HandlerOK, OrderLabels, PaidLabels, Labels, Enter, world
<1> QED BY <1>3, <1>4, <1>5, <1>6, CalmStep, SameRows DEF Enter, db, world, PaidStays

(* The three ways in take the COMPLETED path for captured orders only. *)
LEMMA EntriesKeep ==
  ASSUME IndInv, NEW w \in Workers, NEW p \in Pays,
         \/ Poll(w, p)
         \/ \E event \in {"captured", "failed"} : ManualWebhook(w, p, event)
         \/ SigndeskBatch(w, p)
  PROVE  IndInv'
<1>1. CASE Poll(w, p)
  BY <1>1, EnterKeeps DEF Poll, PaidAnswer
<1>2. CASE \E event \in {"captured", "failed"} : ManualWebhook(w, p, event)
  BY <1>2, EnterKeeps DEF ManualWebhook, IndInv, EventsAreTrue
<1>3. CASE SigndeskBatch(w, p)
  BY <1>3, EnterKeeps DEF SigndeskBatch
<1> QED BY <1>1, <1>2, <1>3

(* One EMI row is replaced by another that is typed and not less paid. *)
LEMMA EmiRowReplaced ==
  ASSUME emi \in EmiTable, NEW e \in Emis, NEW new \in EmiType,
         emi[e].paid => new.paid, emi' = [emi EXCEPT ![e] = new]
  PROVE  emi' \in EmiTable /\ PaidStays
<1>1. emi' \in EmiTable
  BY DEF EmiTable
<1>2. PaidStays
  BY DEF EmiTable, PaidStays
<1> QED BY <1>1, <1>2

(* A reset penalty takes the due flag of one EMI away, nothing else. *)
LEMMA ResetPenaltyKeeps ==
  ASSUME IndInv, NEW w \in Workers, ResetPenalty(w)
  PROVE  IndInv'
<1>0. TypeOK /\ HandlerOK(w) BY DEF IndInv
<1>1. \/ emi' = emi
      \/ \E e : emi' = [emi EXCEPT ![e].due = FALSE]
  BY DEF ResetPenalty
<1>2. emi' \in EmiTable /\ PaidStays
  <2>1. CASE emi' = emi
    BY <1>0, <2>1 DEF TypeOK, PaidStays
  <2>2. ASSUME NEW e, emi' = [emi EXCEPT ![e].due = FALSE]
        PROVE  emi' \in EmiTable /\ PaidStays
    <3> DEFINE new == [emi[e] EXCEPT !.due = FALSE]
    <3>1. emi \in EmiTable
      BY <1>0 DEF TypeOK
    <3>2. CASE e \notin Emis
      BY <2>2, <3>1, <3>2 DEF EmiTable, PaidStays
    <3>3. CASE e \in Emis
      <4>1. new \in EmiType /\ new.paid = emi[e].paid
        BY <3>1, <3>3 DEF EmiTable, EmiType, Money
      <4>2. emi' = [emi EXCEPT ![e] = new]
        BY <2>2, <3>1, <3>3
      <4> HIDE DEF new
      <4> QED BY <3>1, <3>3, <4>1, <4>2, EmiRowReplaced
    <3> QED BY <3>2, <3>3
  <2> QED BY <1>1, <2>1, <2>2
<1>3. pc' \in [Workers -> Labels] /\ Others(w) /\ pc'[w] = "bifurcate"
  <2>1. Goto(w, "bifurcate") /\ UNCHANGED task
    BY DEF ResetPenalty
  <2>2. "bifurcate" \in Labels
    BY DEF Labels
  <2> QED BY <1>0, <2>1, <2>2, GotoStep
<1>4. TypeOK'
  BY <1>0, <1>2, <1>3 DEF TypeOK, ResetPenalty, world
<1>5. HandlerOK(w)'
  BY <1>0, <1>3 DEF HandlerOK, ResetPenalty, world, OrderLabels, PaidLabels, Labels
<1> QED BY <1>2, <1>3, <1>4, <1>5, CalmStep, SameRows DEF ResetPenalty, world

(* The row a handler works on, as HandlerOK describes it. *)
LEMMA OrderOfHandler ==
  ASSUME IndInv, NEW w \in Workers, pc[w] \in OrderLabels
  PROVE  /\ task[w] \in Tasks
         /\ \E p \in Pays :
              /\ task[w].id = <<p, IF task[w].i = 0 THEN 1 ELSE task[w].i>>
              /\ task[w].id[1] = p
              /\ task[w].res = "COMPLETED" => gw[p] = "captured"
<1>1. task[w] \in Tasks
  BY DEF IndInv, TypeOK
<1>2. PICK p \in Pays : /\ task[w].id = <<p, IF task[w].i = 0 THEN 1 ELSE task[w].i>>
                        /\ task[w].res = "COMPLETED" => gw[p] = "captured"
  BY DEF IndInv, HandlerOK
<1> QED BY <1>1, <1>2

(* The bifurcation leaves the database alone and keeps the order. *)
LEMMA BifurcateKeeps ==
  ASSUME IndInv, NEW w \in Workers, Bifurcate(w)
  PROVE  IndInv'
<1> DEFINE r == row[task[w].id]
           parts == SplitParts(Amount(r.part))
           own(part) == IF part.emi = NoEmi
                          THEN [part EXCEPT !.emi = r.part.emi] ELSE part
<1>0. TypeOK /\ HandlerOK(w) BY DEF IndInv
<1>a. pc[w] = "bifurcate" /\ UNCHANGED <<db, world, aborts>>
  BY DEF Bifurcate
<1>b. "bifurcate" \in OrderLabels /\ "update" \in OrderLabels /\ "part" \in PaidLabels
      /\ "bifurcate" \in PaidLabels /\ "update" \notin PaidLabels /\ "part" \in OrderLabels
  BY DEF OrderLabels, PaidLabels, Labels
<1>1. PICK p \in Pays : /\ task[w] \in Tasks
                        /\ task[w].id = <<p, 1>>
                        /\ task[w].i = 0
                        /\ task[w].res = "COMPLETED"
                        /\ gw[p] = "captured"
  BY <1>0, <1>a, <1>b, OrderOfHandler DEF HandlerOK
<1>2. r \in RowType
  <2>1. task[w].id \in RowIds
    BY <1>1, ConstantsAssumption DEF RowIds
  <2> QED BY <1>0, <2>1 DEF TypeOK, RowTable
<1>3. parts \subseteq Parts
  <2>1. r.part \in Parts
    BY <1>2 DEF RowType
  <2>2. Amount(r.part) \in Nat
    BY <2>1 DEF Parts, Money, Amount
  <2> QED BY <2>2, SplitPartsType
<1>4. \A part \in parts : own(part) \in Parts
  BY <1>2, <1>3 DEF RowType, Parts
<1> DEFINE moves(t, label) ==
             /\ Goto(w, label)
             /\ task' = [task EXCEPT ![w] = t]
             /\ label # "idle" => /\ t.id = task[w].id /\ t.i = task[w].i
                                  /\ t.res = task[w].res
           result == \E t \in Tasks, label \in {"idle", "update", "part"} :
                       moves(t, label)
<1>c. result
  <2>1. CASE Goto(w, "idle") /\ Keep(w, NoTask)
    BY <2>1, NoTaskType DEF Keep
  <2>2. CASE Goto(w, "update") /\ UNCHANGED task
    <3>1. task' = [task EXCEPT ![w] = task[w]]
      BY <1>0, <2>2 DEF TypeOK
    <3> QED BY <1>1, <2>2, <3>1
  <2>3. ASSUME NEW part \in parts, Goto(w, "update"),
               Keep(w, [task[w] EXCEPT !.upd = part, !.emi = part.emi])
        PROVE  result
    <3> DEFINE s == [task[w] EXCEPT !.upd = part, !.emi = part.emi]
    <3>1. part \in Parts /\ part.emi \in Emis \union {NoEmi}
      BY <1>3 DEF Parts
    <3>2. s \in Tasks /\ s.id = task[w].id /\ s.i = task[w].i /\ s.res = task[w].res
      BY <1>1, <3>1 DEF Tasks
    <3>3. moves(s, "update")
      BY <2>3, <3>2 DEF Keep
    <3> QED BY <3>2, <3>3
  <2>4. CASE /\ Goto(w, "part")
             /\ Keep(w, [task[w] EXCEPT !.parts = {own(part) : part \in parts}])
    <3> DEFINE s == [task[w] EXCEPT !.parts = {own(part) : part \in parts}]
    <3>1. {own(part) : part \in parts} \in SUBSET Parts
      BY <1>4
    <3> HIDE DEF own, parts
    <3>2. s \in Tasks /\ s.id = task[w].id /\ s.i = task[w].i /\ s.res = task[w].res
      BY <1>1, <3>1 DEF Tasks
    <3>3. moves(s, "part")
      BY <2>4, <3>2 DEF Keep
    <3> QED BY <3>2, <3>3
  <2> QED BY <2>1, <2>2, <2>3, <2>4 DEF Bifurcate
<1>5. PICK t \in Tasks, label \in {"idle", "update", "part"} : moves(t, label)
  BY <1>c
<1>6. /\ pc' \in [Workers -> Labels] /\ task' \in [Workers -> Tasks] /\ Others(w)
      /\ pc'[w] = label /\ task'[w] = t
  <2>1. label \in Labels /\ Keep(w, t)
    BY <1>5 DEF Labels, Keep
  <2> QED BY <1>0, <1>5, <2>1, HandlerTypes DEF Others
<1>7. TypeOK'
  BY <1>0, <1>a, <1>6 DEF TypeOK, db, world
<1>8. HandlerOK(w)'
  <2>1. CASE label = "idle"
    BY <1>6, <2>1, RestingOK
  <2>2. CASE label # "idle"
    BY <1>1, <1>5, <1>6, <1>a, <2>2 DEF HandlerOK, world
  <2> QED BY <2>1, <2>2
<1> QED BY <1>a, <1>5, <1>6, <1>7, <1>8, CalmStep, SameRows DEF db, world, PaidStays

(* Writing one row of an order, with a status other than NONE, keeps the   *)
(* rows in order if COMPLETED is written for a captured order only.        *)
LEMMA RowWrite ==
  ASSUME IndInv, NEW p \in Pays, NEW k \in Nat, NEW new,
         <<p, k>> \in RowIds => new \in RowType,
         new.status = "NONE" => new = row[<<p, k>>],
         new.status = "COMPLETED" => new = row[<<p, k>>] \/ gw[p] = "captured",
         row' = [row EXCEPT ![<<p, k>>] = new], gw' = gw
  PROVE  row' \in RowTable /\ OrdersHaveRows' /\ NoPhantomPayment'
<1>0. TypeOK BY DEF IndInv
<1>1. row' \in RowTable
  BY <1>0 DEF TypeOK, RowTable
<1>2. \A r \in RowIds : row'[r] = IF r = <<p, k>> THEN new ELSE row[r]
  BY <1>0 DEF TypeOK, RowTable
<1>3. \A r \in RowIds : row'[r].status = "COMPLETED" =>
                          row[r].status = "COMPLETED" \/ gw[r[1]] = "captured"
  BY <1>2
<1>4. \A q \in Pays : <<q, 1>> \in RowIds
  BY ConstantsAssumption DEF RowIds
<1>5. \A q \in Pays : row'[<<q, 1>>].status = "NONE" => row[<<q, 1>>].status = "NONE"
  BY <1>2, <1>4
<1>6. OrdersHaveRows'
  BY <1>5 DEF IndInv, OrdersHaveRows
<1>7. NoPhantomPayment'
  BY <1>3 DEF IndInv, NoPhantomPayment, Completed
<1> QED BY <1>1, <1>6, <1>7

(* Each part of a split is written to the order's row or to its own, and   *)
(* the order was captured.                                                 *)
LEMMA SplitPartKeeps ==
  ASSUME IndInv, NEW w \in Workers, SplitPart(w)
  PROVE  IndInv'
<1> DEFINE i == task[w].i + 1
           id == <<task[w].id[1], i>>
           rowOf(part) == [row[task[w].id] EXCEPT
                             !.status = IF part.extra > 0 THEN "COMPLETED"
                                        ELSE "INITIALIZED",
                             !.type = "PARTPAY", !.part = part]
<1>0. TypeOK /\ HandlerOK(w) BY DEF IndInv
<1>a. /\ pc[w] = "part"
      /\ UNCHANGED <<emi, loan, user, trace, charges, world, aborts>>
  BY DEF SplitPart
<1>b. "part" \in OrderLabels /\ "part" \in PaidLabels /\ "update" \in Labels
      /\ "idle" \in Labels /\ "update" \notin PaidLabels
  BY DEF OrderLabels, PaidLabels, Labels
<1>1. PICK p \in Pays :
        /\ task[w] \in Tasks
        /\ task[w].id = <<p, IF task[w].i = 0 THEN 1 ELSE task[w].i>>
        /\ task[w].id[1] = p
        /\ task[w].res = "COMPLETED"
        /\ gw[p] = "captured"
  BY <1>0, <1>a, <1>b, OrderOfHandler DEF HandlerOK
<1>2. /\ task[w].i \in Nat /\ i \in Nat /\ i # 0
      /\ id = <<p, i>>
      /\ task[w].parts \subseteq Parts
  BY <1>1 DEF Tasks
<1>3. CASE Goto(w, "idle") /\ Keep(w, NoTask) /\ UNCHANGED row
  <2>1. /\ pc' \in [Workers -> Labels] /\ task' \in [Workers -> Tasks] /\ Others(w)
        /\ pc'[w] = "idle"
    BY <1>0, <1>b, <1>3, NoTaskType, HandlerTypes DEF Others
  <2>2. TypeOK'
    BY <1>0, <1>a, <1>3, <2>1 DEF TypeOK, world
  <2> QED BY <1>a, <1>3, <2>1, <2>2, RestingOK, CalmStep, SameRows DEF world, PaidStays
<1>4. ASSUME NEW part \in task[w].parts,
             row' = [row EXCEPT ![id] =
                      IF i = 1 /\ @.status \in Gone THEN @ ELSE rowOf(part)],
             \/ Goto(w, "idle") /\ Keep(w, NoTask)
             \/ /\ Goto(w, "update")
                /\ Keep(w, [task[w] EXCEPT
                     !.id = id, !.i = i, !.type = "PARTPAY",
                     !.emi = part.emi, !.parts = @ \ {part}])
      PROVE  IndInv'
  <2> DEFINE new == IF i = 1 /\ row[id].status \in Gone THEN row[id]
                    ELSE rowOf(part)
             t == [task[w] EXCEPT !.id = id, !.i = i, !.type = "PARTPAY",
                                  !.emi = part.emi, !.parts = @ \ {part}]
  <2>1. part \in Parts /\ part.emi \in Emis \union {NoEmi}
    BY <1>2 DEF Parts
  <2>2. id \in RowIds => row[task[w].id] \in RowType /\ row[id] \in RowType
    <3>1. id \in RowIds => task[w].id \in RowIds
      BY <1>1, <1>2, ConstantsAssumption DEF RowIds
    <3> QED BY <1>0, <3>1 DEF TypeOK, RowTable
  <2>3. id \in RowIds =>
          /\ rowOf(part) \in RowType
          /\ rowOf(part).status \in {"COMPLETED", "INITIALIZED"}
    BY <2>1, <2>2 DEF RowType, Statuses, Types
  <2>4. row' \in RowTable /\ OrdersHaveRows' /\ NoPhantomPayment'
    <3> HIDE DEF rowOf
    <3>1. CASE id \in RowIds
      <4>1. /\ new \in RowType
            /\ new.status = "NONE" => new = row[id]
        BY <2>2, <2>3, <3>1
      <4>2. row' = [row EXCEPT ![<<p, i>>] = new] /\ gw' = gw
        BY <1>2, <1>a, <1>4 DEF world
      <4> HIDE DEF new, i, id
      <4> QED BY <1>1, <1>2, <4>1, <4>2, RowWrite
    <3>2. CASE id \notin RowIds
      <4>1. row' = row
        BY <1>0, <1>4, <3>2 DEF TypeOK, RowTable
      <4> QED BY <1>0, <1>a, <4>1, SameRows DEF TypeOK, world
    <3> QED BY <3>1, <3>2
  <2>5. /\ t \in Tasks /\ t.id = <<p, i>> /\ t.i = i /\ t.res = "COMPLETED"
    <3>1. <<p, i>> \in Pays \X Nat
      BY <1>2
    <3> HIDE DEF i
    <3> QED BY <1>1, <1>2, <2>1, <3>1 DEF Tasks, Types
  <2> HIDE DEF t, new
  <2>6. /\ pc' \in [Workers -> Labels] /\ task' \in [Workers -> Tasks] /\ Others(w)
        /\ \/ pc'[w] = "idle"
           \/ pc'[w] = "update" /\ task'[w] = t
    <3>1. CASE Goto(w, "idle") /\ Keep(w, NoTask)
      BY <1>0, <1>b, <3>1, NoTaskType, HandlerTypes DEF Others
    <3>2. CASE Goto(w, "update") /\ Keep(w, t)
      BY <1>0, <1>b, <2>5, <3>2, HandlerTypes DEF Others
    <3> QED BY <1>4, <3>1, <3>2 DEF t
  <2>7. TypeOK'
    BY <1>0, <1>a, <2>4, <2>6 DEF TypeOK, world
  <2>8. HandlerOK(w)'
    <3>1. CASE pc'[w] = "idle"
      BY <3>1, RestingOK
    <3>2. CASE pc'[w] = "update" /\ task'[w] = t
      <4>1. gw'[p] = "captured"
        BY <1>1, <1>a DEF world
      <4> HIDE DEF i
      <4> QED BY <1>2, <1>b, <2>5, <3>2, <4>1 DEF HandlerOK
    <3> QED BY <2>6, <3>1, <3>2
  <2> QED BY <1>a, <2>4, <2>6, <2>7, <2>8, CalmStep DEF world, PaidStays
<1> QED BY <1>3, <1>4 DEF SplitPart

(* A call that returns leaves the rest of the invariant as it was. *)
LEMMA ReturnKeeps ==
  ASSUME IndInv, NEW w \in Workers, pc[w] \in OrderLabels, Return(w),
         task[w].res = "COMPLETED",
         PaidStays, emi' \in EmiTable, row' = row, user' \in UserRow,
         UNCHANGED <<loan, trace, charges, world, aborts>>
  PROVE  IndInv'
<1>0. TypeOK /\ HandlerOK(w) BY DEF IndInv
<1>1. /\ pc' \in [Workers -> Labels] /\ task' \in [Workers -> Tasks]
      /\ Others(w)
      /\ \/ pc'[w] = "part" /\ task'[w] = task[w]
         \/ pc'[w] = "idle" /\ task'[w] = NoTask
  BY <1>0, ReturnStep
<1>2. TypeOK'
  BY <1>0, <1>1 DEF TypeOK, world
<1>3. HandlerOK(w)'
  <2>1. CASE pc'[w] = "idle"
    BY <2>1, RestingOK
  <2>2. CASE pc'[w] = "part" /\ task'[w] = task[w]
    BY <1>0, <2>2 DEF HandlerOK, world
  <2> QED BY <1>1, <2>1, <2>2
<1> QED BY <1>1, <1>2, <1>3, CalmStep, SameRows DEF world

(* Nor does a step along the path of a paid order disturb it, as long as   *)
(* no row and no trace of a charge is written and the loan is left alone.  *)
LEMMA PaidMoves ==
  ASSUME IndInv, NEW w \in Workers, pc[w] \in PaidLabels,
         NEW label \in PaidLabels \ {"penalty", "bifurcate", "close"},
         NEW t \in Tasks, t.id = task[w].id, t.i = task[w].i,
         t.res = task[w].res, label = "partWrite" => t.emi # NoEmi,
         pc' = [pc EXCEPT ![w] = label], task' = [task EXCEPT ![w] = t],
         PaidStays, emi' \in EmiTable, row' = row, user' \in UserRow,
         UNCHANGED <<loan, trace, charges, world, aborts>>
  PROVE  IndInv'
<1>0. TypeOK /\ HandlerOK(w) BY DEF IndInv
<1>1. /\ pc' \in [Workers -> Labels] /\ task' \in [Workers -> Tasks]
      /\ Others(w) /\ pc'[w] = label /\ task'[w] = t
  BY <1>0 DEF TypeOK, Others, PaidLabels, OrderLabels
<1>2. TypeOK'
  BY <1>0, <1>1 DEF TypeOK, world
<1>3. HandlerOK(w)'
  BY <1>0, <1>1, PaidOK DEF world
<1>4. label # "bounceWrite"
  BY DEF PaidLabels
<1> QED BY <1>1, <1>2, <1>3, <1>4, CalmStep, SameRows DEF world

(* The status written to a row is COMPLETED for a captured order only. *)
LEMMA UpdateTransactionKeeps ==
  ASSUME IndInv, NEW w \in Workers, UpdateTransaction(w)
  PROVE  IndInv'
<1> DEFINE id == task[w].id
           t == task[w]
           part == IF t.upd = NoPart THEN row[id].part
                   ELSE IF t.upd.emi = NoEmi
                     THEN [t.upd EXCEPT !.emi = row[id].part.emi]
                   ELSE t.upd
           settled == [row[id] EXCEPT !.status = t.res, !.part = part]
<1>0. TypeOK /\ HandlerOK(w) BY DEF IndInv
<1>a. /\ pc[w] = "update"
      /\ UNCHANGED <<emi, loan, user, trace, charges, world, aborts>>
  BY DEF UpdateTransaction
<1>b. /\ "update" \in OrderLabels
      /\ {"fullRead", "partRead", "bounceRead"} \subseteq Labels \intersect OrderLabels
      /\ {"fullRead", "partRead"} \subseteq PaidLabels
      /\ "bounceRead" \notin PaidLabels
  BY DEF OrderLabels, PaidLabels, Labels
<1>1. PICK p \in Pays :
        /\ t \in Tasks
        /\ id = <<p, IF t.i = 0 THEN 1 ELSE t.i>>
        /\ t.res = "COMPLETED" => gw[p] = "captured"
  BY <1>0, <1>a, <1>b, OrderOfHandler
<1> DEFINE k == IF t.i = 0 THEN 1 ELSE t.i
<1>2. k \in Nat /\ id = <<p, k>>
  BY <1>1 DEF Tasks
<1>3. id \in RowIds => row[id] \in RowType /\ settled \in RowType
                       /\ settled.status = t.res
  <2> SUFFICES ASSUME id \in RowIds
               PROVE  row[id] \in RowType /\ settled \in RowType
                      /\ settled.status = t.res
    OBVIOUS
  <2>1. row[id] \in RowType
    BY <1>0 DEF TypeOK, RowTable
  <2>2. t.upd \in Parts /\ row[id].part.emi \in Emis \union {NoEmi}
        /\ row[id].part \in Parts /\ t.res \in Statuses
    BY <1>1, <2>1 DEF Tasks, RowType, Parts, Statuses
  <2>3. part \in Parts
    BY <2>2 DEF Parts
  <2> HIDE DEF part
  <2> QED BY <2>1, <2>2, <2>3 DEF RowType
<1>4. ASSUME NEW new, row' = [row EXCEPT ![id] = new],
             id \in RowIds => new = row[id] \/ new = settled
      PROVE  row' \in RowTable /\ OrdersHaveRows' /\ NoPhantomPayment'
  <2>1. CASE id \in RowIds
    <3>1. /\ new \in RowType
          /\ new.status = "NONE" => new = row[id]
          /\ new.status = "COMPLETED" => new = row[id] \/ gw[p] = "captured"
      <4>1. t.res \in {"COMPLETED", "FAILED"}
        BY <1>1 DEF Tasks
      <4> HIDE DEF settled
      <4> QED BY <1>1, <1>3, <1>4, <2>1, <4>1
    <3>2. row' = [row EXCEPT ![<<p, k>>] = new] /\ gw' = gw
      BY <1>2, <1>4, <1>a DEF world
    <3> HIDE DEF k, id
    <3> QED BY <1>2, <3>1, <3>2, RowWrite
  <2>2. CASE id \notin RowIds
    <3>1. row' = row
      BY <1>0, <1>4, <2>2 DEF TypeOK, RowTable
    <3> QED BY <1>0, <1>a, <3>1, SameRows DEF TypeOK, world
  <2> QED BY <2>1, <2>2
<1>5. ASSUME NEW label \in {"fullRead", "partRead", "bounceRead"},
             label # "bounceRead" => t.res = "COMPLETED",
             Goto(w, label), UNCHANGED task,
             row' \in RowTable, OrdersHaveRows', NoPhantomPayment'
      PROVE  IndInv'
  <2>1. pc' \in [Workers -> Labels] /\ Others(w) /\ pc'[w] = label
    BY <1>0, <1>b, <1>5, HandlerTypes DEF Others, Goto, TypeOK
  <2>2. TypeOK'
    BY <1>0, <1>a, <1>5, <2>1 DEF TypeOK, world
  <2>3. HandlerOK(w)'
    BY <1>0, <1>a, <1>b, <1>5, <2>1 DEF HandlerOK, world
  <2> QED BY <1>a, <1>5, <2>1, <2>2, <2>3, CalmStep DEF world, PaidStays
<1>6. CASE t.res = "COMPLETED" /\ Return(w) /\ UNCHANGED row
  BY <1>0, <1>6, <1>a, <1>b, ReturnKeeps DEF TypeOK, PaidStays
<1>7. CASE /\ t.res = "COMPLETED"
           /\ row' = [row EXCEPT ![id] = settled]
           /\ Goto(w, IF t.type = "FULLPAY" THEN "fullRead" ELSE "partRead")
           /\ UNCHANGED task
  BY <1>4, <1>5, <1>7
<1>8. CASE /\ row' = [row EXCEPT ![id] =
                       IF @.status \in Gone THEN @ ELSE settled]
           /\ Goto(w, "bounceRead")
           /\ UNCHANGED task
  <2> DEFINE new == IF row[id].status \in Gone THEN row[id] ELSE settled
  <2>1. row' = [row EXCEPT ![id] = new] /\ (new = row[id] \/ new = settled)
    BY <1>8
  <2>2. row' \in RowTable /\ OrdersHaveRows' /\ NoPhantomPayment'
    <3> HIDE DEF settled, new
    <3> QED BY <1>4, <2>1
  <2> QED BY <1>5, <1>8, <2>2
<1> QED BY <1>6, <1>7, <1>8 DEF UpdateTransaction

-----------------------------------------------------------------------------
(* The failed path: the bounce charge. *)

(* A handler that ends without writing anything keeps the invariant. *)
LEMMA EndKeeps ==
  ASSUME IndInv, NEW w \in Workers, Goto(w, "idle"), Keep(w, NoTask),
         UNCHANGED <<db, world>>, aborts' \in 0 .. MaxAborts
  PROVE  IndInv'
<1>0. TypeOK BY DEF IndInv
<1>1. /\ pc' \in [Workers -> Labels] /\ task' \in [Workers -> Tasks]
      /\ Others(w) /\ pc'[w] = "idle"
  BY <1>0, NoTaskType, HandlerTypes DEF Labels, Others
<1>2. TypeOK'
  BY <1>0, <1>1 DEF TypeOK, db, world
<1> QED BY <1>1, <1>2, RestingOK, CalmStep, SameRows DEF db, world, PaidStays

(* BounceRead goes on for an EMI, never for an order of no EMI. *)
LEMMA BounceReadKeeps ==
  ASSUME IndInv, NEW w \in Workers, BounceRead(w)
  PROVE  IndInv'
<1>0. TypeOK /\ HandlerOK(w) BY DEF IndInv
<1>1. CASE Goto(w, "idle") /\ Keep(w, NoTask)
  BY <1>0, <1>1, EndKeeps DEF BounceRead, TypeOK
<1>2. CASE task[w].emi # NoEmi /\ Goto(w, "bounceTrace") /\ UNCHANGED task
  <2>1. pc' \in [Workers -> Labels] /\ Others(w) /\ pc'[w] = "bounceTrace"
    <3>1. "bounceTrace" \in Labels
      BY DEF Labels
    <3> QED BY <1>0, <1>2, <3>1, GotoStep
  <2>2. TypeOK'
    BY <1>0, <1>2, <2>1 DEF TypeOK, BounceRead, db, world
  <2>3. HandlerOK(w)'
    BY <1>0, <1>2, <2>1 DEF HandlerOK, BounceRead, db, world, OrderLabels,
                            PaidLabels, Labels
  <2> QED BY <1>2, <2>1, <2>2, <2>3, CalmStep, SameRows
          DEF BounceRead, db, world, PaidStays
<1> QED BY <1>1, <1>2 DEF BounceRead

(* Only the handler that inserts the trace row of an EMI goes on to charge *)
(* it, and no charge was written before.                                   *)
LEMMA BounceTraceKeeps ==
  ASSUME IndInv, NEW w \in Workers, BounceTrace(w)
  PROVE  IndInv'
<1> DEFINE e == task[w].emi
<1>0. TypeOK /\ HandlerOK(w) BY DEF IndInv
<1>a. pc[w] = "bounceTrace" /\ UNCHANGED <<row, emi, loan, user, charges, world, aborts>>
  BY DEF BounceTrace
<1>1. CASE Goto(w, "idle") /\ Keep(w, NoTask) /\ UNCHANGED trace
  BY <1>0, <1>1, <1>a, EndKeeps DEF db, TypeOK
<1>2. CASE /\ e \notin trace /\ Goto(w, "bounceWrite")
           /\ trace' = trace \union {e} /\ UNCHANGED task
  <2>1. e \in Emis
    <3>1. task[w] \in Tasks /\ e # NoEmi
      BY <1>0, <1>a DEF TypeOK, HandlerOK
    <3> QED BY <3>1 DEF Tasks
  <2>2. pc' \in [Workers -> Labels] /\ Others(w) /\ pc'[w] = "bounceWrite"
    <3>1. "bounceWrite" \in Labels
      BY DEF Labels
    <3> QED BY <1>0, <1>2, <3>1, GotoStep
  <2>3. TypeOK'
    BY <1>0, <1>2, <1>a, <2>1, <2>2 DEF TypeOK, world
  <2>4. HandlerOK(w)'
    BY <1>0, <1>2, <1>a, <2>2 DEF HandlerOK, world, OrderLabels, PaidLabels, Labels
  <2>5. \A v \in Workers : HandlerOK(v)'
    BY <1>2, <1>a, <2>2, <2>4 DEF IndInv, HandlerOK, Others, world
  <2>6. charges[e] = 0
    BY <1>2, <2>1 DEF IndInv, TraceGuardsCharge
  <2>7. \A v \in Workers \ {w} : pc[v] = "bounceWrite" => task[v].emi # e
    BY <1>2 DEF IndInv, TraceGuardsCharge
  <2>8. TraceGuardsCharge'
    <3>1. \A d \in Emis : d \notin trace' => charges'[d] = 0
      BY <1>2, <1>a DEF IndInv, TraceGuardsCharge
    <3>2. \A v \in Workers : pc'[v] = "bounceWrite" =>
            task'[v].emi \in trace' /\ charges'[task'[v].emi] = 0
      BY <1>2, <1>a, <2>2, <2>6 DEF IndInv, TraceGuardsCharge, Others
    <3>3. \A u, v \in Workers :
            pc'[u] = "bounceWrite" /\ pc'[v] = "bounceWrite"
            /\ task'[u].emi = task'[v].emi => u = v
      BY <1>2, <2>2, <2>7 DEF IndInv, TraceGuardsCharge, Others
    <3> QED BY <3>1, <3>2, <3>3 DEF TraceGuardsCharge
  <2>9. ChargedOnce' /\ ClosedOnlyWhenPaid' /\ CloserSawAllPaid'
    BY <1>a, <2>2 DEF IndInv, ChargedOnce, ClosedOnlyWhenPaid, CloserSawAllPaid,
                      Unpaid, Others
  <2>10. EventsAreTrue' /\ OrdersHaveRows' /\ NoPhantomPayment'
    BY <1>a, SameRows DEF IndInv, EventsAreTrue, world
  <2> QED BY <2>3, <2>5, <2>8, <2>9, <2>10 DEF IndInv
<1> QED BY <1>1, <1>2 DEF BounceTrace, Traceable

(* The charge is written for the first time, and no other handler is about *)
(* to write it again.                                                      *)
LEMMA BounceWriteKeeps ==
  ASSUME IndInv, NEW w \in Workers, BounceWrite(w)
  PROVE  IndInv'
<1> DEFINE e == task[w].emi
<1>0. TypeOK /\ HandlerOK(w) BY DEF IndInv
<1>a. /\ pc[w] = "bounceWrite"
      /\ UNCHANGED <<row, loan, user, trace, world, aborts>>
      /\ emi' = [emi EXCEPT ![e].charge = Ecs]
      /\ charges' = [charges EXCEPT ![e] = @ + 1]
  BY DEF BounceWrite
<1>1. e \in Emis
  <2>1. task[w] \in Tasks /\ e # NoEmi
    BY <1>0, <1>a DEF TypeOK, HandlerOK
  <2> QED BY <2>1 DEF Tasks
<1>2. /\ pc' \in [Workers -> Labels] /\ task' \in [Workers -> Tasks]
      /\ Others(w) /\ pc'[w] = "idle"
  BY <1>0, NoTaskType, HandlerTypes DEF BounceWrite, Labels, Others
<1>3. emi' \in EmiTable /\ \A d \in Emis : emi'[d].paid = emi[d].paid
  <2>1. emi \in EmiTable
    BY <1>0 DEF TypeOK
  <2> HIDE DEF e
  <2> QED BY <1>1, <1>a, <2>1 DEF EmiTable, EmiType
<1>4. charges[e] = 0 /\ e \in trace
  BY <1>a DEF IndInv, TraceGuardsCharge
<1>5. /\ charges' \in [Emis -> Nat] /\ charges'[e] = 1
      /\ \A d \in Emis \ {e} : charges'[d] = charges[d]
  BY <1>0, <1>1, <1>4, <1>a DEF TypeOK
<1>6. TypeOK'
  BY <1>0, <1>2, <1>3, <1>5, <1>a DEF TypeOK, world
<1>7. \A v \in Workers : HandlerOK(v)'
  <2>1. HandlerOK(w)' BY <1>2, RestingOK
  <2> QED BY <1>2, <1>a, <2>1 DEF IndInv, HandlerOK, Others, world
<1>8. ChargedOnce'
  BY <1>5 DEF IndInv, ChargedOnce
<1>9. TraceGuardsCharge'
  <2>1. \A d \in Emis : d \notin trace' => charges'[d] = 0
    BY <1>4, <1>5, <1>a DEF IndInv, TraceGuardsCharge
  <2>2. \A v \in Workers : pc'[v] = "bounceWrite" =>
          task'[v].emi \in trace' /\ charges'[task'[v].emi] = 0
    <3> SUFFICES ASSUME NEW v \in Workers, pc'[v] = "bounceWrite"
                 PROVE  task'[v].emi \in trace' /\ charges'[task'[v].emi] = 0
      OBVIOUS
    <3>1. v # w /\ pc[v] = "bounceWrite" /\ task'[v] = task[v]
      BY <1>2 DEF Others
    <3>2. task[v].emi # e /\ task[v].emi \in trace /\ charges[task[v].emi] = 0
      BY <1>a, <3>1 DEF IndInv, TraceGuardsCharge
    <3>3. task[v].emi \in Emis
      BY <1>0, <3>2 DEF TypeOK
    <3> QED BY <1>5, <1>a, <3>1, <3>2, <3>3
  <2>3. \A u, v \in Workers :
          pc'[u] = "bounceWrite" /\ pc'[v] = "bounceWrite"
          /\ task'[u].emi = task'[v].emi => u = v
    BY <1>2 DEF IndInv, TraceGuardsCharge, Others
  <2> QED BY <2>1, <2>2, <2>3 DEF TraceGuardsCharge
<1>10. ClosedOnlyWhenPaid' /\ CloserSawAllPaid'
  BY <1>2, <1>3, <1>a DEF IndInv, ClosedOnlyWhenPaid, CloserSawAllPaid, Unpaid, Others
<1>11. EventsAreTrue' /\ OrdersHaveRows' /\ NoPhantomPayment'
  BY <1>a, SameRows DEF IndInv, EventsAreTrue, world
<1> QED BY <1>6, <1>7, <1>8, <1>9, <1>10, <1>11 DEF IndInv

-----------------------------------------------------------------------------
(* The paid path. *)

(* What the lemmas below need of the labels. *)
LEMMA PaidLabelFacts ==
  /\ {"part", "partRead", "partWrite", "fullRead", "fullWrite", "userStatus",
      "userWrite", "recalcRead", "recalcWrite", "closeCheck", "close", "readUser",
      "referral", "countLoan"} \subseteq PaidLabels
  /\ PaidLabels \subseteq OrderLabels
  /\ OrderLabels \subseteq Labels
  BY DEF PaidLabels, OrderLabels, Labels

(* A handler on the paid path has typed locals and a paid order. *)
LEMMA PaidTask ==
  ASSUME IndInv, NEW w \in Workers, pc[w] \in PaidLabels
  PROVE  /\ task[w] \in Tasks
         /\ task[w].res = "COMPLETED"
         /\ task = [task EXCEPT ![w] = task[w]]
         /\ pc = [pc EXCEPT ![w] = pc[w]]
         /\ emi \in EmiTable /\ user \in UserRow
  BY DEF IndInv, TypeOK, HandlerOK

(* What PartRead is about to write is typed. *)
LEMMA PartReadKeeps ==
  ASSUME IndInv, NEW w \in Workers, PartRead(w)
  PROVE  IndInv'
<1> DEFINE e == task[w].emi
           t == [task[w] EXCEPT
                  !.pay = Settled(e),
                  !.left = IF Settled(e) THEN emi[e].left ELSE LeftOf(e),
                  !.done = /\ task[w].id \in Completed
                           /\ row[task[w].id].part.emi = e]
<1>a. pc[w] = "partRead" /\ UNCHANGED <<db, world, aborts>>
  BY DEF PartRead
<1>0. /\ task[w] \in Tasks
      /\ task[w].res = "COMPLETED"
      /\ task = [task EXCEPT ![w] = task[w]]
      /\ emi \in EmiTable /\ user \in UserRow
  BY <1>a, PaidTask, PaidLabelFacts
<1>1. CASE Return(w)
  BY <1>0, <1>1, <1>a, PaidLabelFacts, ReturnKeeps DEF db, PaidStays
<1>2. CASE Goto(w, "userStatus") /\ UNCHANGED task
  <2> DEFINE label == "userStatus"
  <2>1. label \in PaidLabels \ {"penalty", "bifurcate", "close"}
    BY PaidLabelFacts
  <2> QED BY <1>0, <1>2, <1>a, <2>1, PaidLabelFacts, PaidMoves DEF db, PaidStays, Goto
<1>3. CASE e # NoEmi /\ Goto(w, "partWrite") /\ Keep(w, t)
  <2>1. e \in Emis
    BY <1>0, <1>3 DEF Tasks
  <2>2. emi[e].left \in 0 .. PI
    BY <1>0, <2>1 DEF EmiTable, EmiType
  <2>3. LeftOf(e) \in 0 .. PI
    BY <2>2, LeftOfType
  <2>4. Settled(e) \in BOOLEAN
    BY DEF Settled
  <2>5. /\ t \in Tasks /\ t.id = task[w].id /\ t.i = task[w].i
        /\ t.res = task[w].res /\ t.emi = e
    <3> DEFINE pay == Settled(e)
               left == IF pay THEN emi[e].left ELSE LeftOf(e)
               done == task[w].id \in Completed /\ row[task[w].id].part.emi = e
    <3>1. pay \in BOOLEAN /\ left \in 0 .. PI /\ done \in BOOLEAN
      BY <2>2, <2>3, <2>4
    <3> HIDE DEF pay, left, done
    <3>2. [task[w] EXCEPT !.pay = pay, !.left = left, !.done = done] \in Tasks
      BY <1>0, <3>1 DEF Tasks
    <3>3. t = [task[w] EXCEPT !.pay = pay, !.left = left, !.done = done]
      BY DEF pay, left, done
    <3> HIDE DEF t
    <3> QED BY <1>0, <3>2, <3>3 DEF Tasks
  <2> HIDE DEF t
  <2>6. "partWrite" \in PaidLabels \ {"penalty", "bifurcate", "close"}
    BY PaidLabelFacts
  <2> QED BY <1>0, <1>3, <1>a, <2>5, <2>6, PaidLabelFacts, PaidMoves
          DEF db, PaidStays, Goto, Keep
<1> QED BY <1>1, <1>2, <1>3 DEF PartRead

(* An EMI that is paid stays paid when a stale handler writes to it. *)
LEMMA PartWriteKeeps ==
  ASSUME IndInv, NEW w \in Workers, PartWrite(w)
  PROVE  IndInv' /\ PaidStays
<1> DEFINE t == task[w]
<1>a. /\ pc[w] = "partWrite" /\ UNCHANGED task
      /\ UNCHANGED <<row, loan, user, trace, charges, world, aborts>>
      /\ pc' = [pc EXCEPT ![w] = "userStatus"]
  BY DEF PartWrite, Goto
<1>0. /\ t \in Tasks /\ t.res = "COMPLETED"
      /\ task = [task EXCEPT ![w] = t]
      /\ emi \in EmiTable /\ user \in UserRow
  BY <1>a, PaidTask, PaidLabelFacts
<1>1. t.left \in 0 .. PI /\ t.emi \in Emis
  BY <1>0, <1>a DEF Tasks, IndInv, HandlerOK
<1>2. emi' \in EmiTable /\ PaidStays
  <2> DEFINE new == [emi[t.emi] EXCEPT
                      !.paid = IF t.pay THEN TRUE ELSE @,
                      !.done = IF t.pay /\ t.done THEN TRUE ELSE @,
                      !.left = t.left]
  <2>1. emi[t.emi] \in EmiType
    BY <1>0, <1>1 DEF EmiTable
  <2>2. t.pay \in BOOLEAN /\ t.done \in BOOLEAN
    BY <1>0 DEF Tasks
  <2>3. new \in EmiType
    <3> DEFINE paid == IF t.pay THEN TRUE ELSE emi[t.emi].paid
               done == IF t.pay /\ t.done THEN TRUE ELSE emi[t.emi].done
    <3>1. paid \in BOOLEAN /\ done \in BOOLEAN
      BY <2>1, <2>2 DEF EmiType
    <3>2. new = [emi[t.emi] EXCEPT !.paid = paid, !.done = done,
                                   !.left = t.left]
      BY <2>1 DEF EmiType
    <3> HIDE DEF paid, done, new
    <3> QED BY <1>1, <2>1, <3>1, <3>2 DEF EmiType, Money
  <2>4. emi[t.emi].paid => new.paid
    BY <2>1, <2>2 DEF EmiType
  <2>5. emi' = [emi EXCEPT ![t.emi] = new]
    BY <1>0, <1>1 DEF PartWrite, EmiTable
  <2> HIDE DEF new
  <2> QED BY <1>0, <1>1, <2>3, <2>4, <2>5, EmiRowReplaced
<1>3. "userStatus" \in PaidLabels \ {"penalty", "bifurcate", "close"}
  BY PaidLabelFacts
<1> QED BY <1>0, <1>2, <1>3, <1>a, PaidLabelFacts, PaidMoves

(* FullRead only remembers the unpaid EMIs. *)
LEMMA FullReadKeeps ==
  ASSUME IndInv, NEW w \in Workers, FullRead(w)
  PROVE  IndInv'
<1> DEFINE t == [task[w] EXCEPT !.ids = Unpaid]
<1>a. pc[w] = "fullRead" /\ UNCHANGED <<db, world, aborts>>
  BY DEF FullRead
<1>0. /\ task[w] \in Tasks /\ task[w].res = "COMPLETED"
      /\ emi \in EmiTable /\ user \in UserRow
  BY <1>a, PaidTask, PaidLabelFacts
<1>1. CASE Return(w)
  BY <1>0, <1>1, <1>a, PaidLabelFacts, ReturnKeeps DEF db, PaidStays
<1>2. CASE Goto(w, "fullWrite") /\ Keep(w, t)
  <2>1. Unpaid \in SUBSET Emis
    BY DEF Unpaid
  <2>2. /\ t \in Tasks /\ t.id = task[w].id /\ t.i = task[w].i
        /\ t.res = task[w].res
    BY <1>0, <2>1 DEF Tasks
  <2> HIDE DEF t
  <2>3. "fullWrite" \in PaidLabels \ {"penalty", "bifurcate", "close"}
    BY PaidLabelFacts
  <2> QED BY <1>0, <1>2, <1>a, <2>2, <2>3, PaidLabelFacts, PaidMoves
          DEF db, PaidStays, Goto, Keep
<1> QED BY <1>1, <1>2 DEF FullRead

(* FullWrite only ever turns unpaid EMIs into paid ones. *)
LEMMA FullWriteKeeps ==
  ASSUME IndInv, NEW w \in Workers, FullWrite(w)
  PROVE  IndInv' /\ PaidStays
<1>a. /\ pc[w] = "fullWrite"
      /\ UNCHANGED <<row, loan, user, trace, charges, world, aborts>>
  BY DEF FullWrite
<1>0. /\ task[w] \in Tasks /\ task[w].res = "COMPLETED"
      /\ task = [task EXCEPT ![w] = task[w]]
      /\ pc = [pc EXCEPT ![w] = pc[w]]
      /\ emi \in EmiTable /\ user \in UserRow
  BY <1>a, PaidTask, PaidLabelFacts
<1>1. {"userStatus", "fullWrite"} \subseteq PaidLabels \ {"penalty", "bifurcate", "close"}
  BY PaidLabelFacts
<1>2. CASE Goto(w, "userStatus") /\ UNCHANGED <<emi, task>>
  BY <1>0, <1>1, <1>2, <1>a, PaidLabelFacts, PaidMoves DEF PaidStays, Goto
<1>3. ASSUME NEW e \in task[w].ids,
             emi' = IF emi[e].paid THEN emi
                    ELSE [emi EXCEPT ![e].paid = TRUE, ![e].done = TRUE],
             Keep(w, [task[w] EXCEPT !.ids = @ \ {e}]), UNCHANGED pc
      PROVE  IndInv' /\ PaidStays
  <2> DEFINE t == [task[w] EXCEPT !.ids = @ \ {e}]
  <2>1. e \in Emis /\ task[w].ids \ {e} \in SUBSET Emis
    BY <1>0 DEF Tasks
  <2>2. /\ t \in Tasks /\ t.id = task[w].id /\ t.i = task[w].i
        /\ t.res = task[w].res
    BY <1>0, <2>1 DEF Tasks
  <2>3. emi' \in EmiTable /\ PaidStays
    <3> DEFINE new == [emi[e] EXCEPT !.paid = TRUE, !.done = TRUE]
    <3>1. CASE emi[e].paid
      BY <1>0, <1>3, <3>1 DEF PaidStays
    <3>2. CASE ~emi[e].paid
      <4>0. emi[e] \in EmiType
        BY <1>0, <2>1 DEF EmiTable
      <4>1. new \in EmiType
        BY <4>0 DEF EmiType, Money
      <4>2. emi' = [emi EXCEPT ![e] = new]
        BY <1>0, <1>3, <2>1, <3>2 DEF EmiTable
      <4> HIDE DEF new
      <4> QED BY <1>0, <2>1, <3>2, <4>1, <4>2, EmiRowReplaced
    <3> QED BY <3>1, <3>2
  <2>4. task' = [task EXCEPT ![w] = t]
    BY <1>3 DEF Keep
  <2> HIDE DEF t
  <2> QED BY <1>0, <1>1, <1>3, <1>a, <2>2, <2>3, <2>4, PaidLabelFacts, PaidMoves
<1> QED BY <1>2, <1>3 DEF FullWrite

(* checkUserStatus finds one of the three statuses. *)
LEMMA StatusNowType == StatusNow \in 1 .. 3
  BY DEF StatusNow

(* StatusRead remembers what it found. *)
LEMMA StatusReadKeeps ==
  ASSUME IndInv, NEW w \in Workers, StatusRead(w)
  PROVE  IndInv'
<1> DEFINE t == [task[w] EXCEPT !.status = StatusNow]
<1>a. /\ pc[w] = "userStatus" /\ UNCHANGED <<db, world, aborts>>
      /\ pc' = [pc EXCEPT ![w] = "userWrite"]
      /\ task' = [task EXCEPT ![w] = t]
  BY DEF StatusRead, Goto, Keep
<1>0. /\ task[w] \in Tasks /\ task[w].res = "COMPLETED"
      /\ emi \in EmiTable /\ user \in UserRow
  BY <1>a, PaidTask, PaidLabelFacts
<1>1. StatusNow \in 0 .. 3
  BY StatusNowType
<1>2. /\ t \in Tasks /\ t.id = task[w].id /\ t.i = task[w].i
      /\ t.res = task[w].res
  BY <1>0, <1>1 DEF Tasks
<1>3. "userWrite" \in PaidLabels \ {"penalty", "bifurcate", "close"}
  BY PaidLabelFacts
<1> HIDE DEF t
<1> QED BY <1>0, <1>2, <1>3, <1>a, PaidLabelFacts, PaidMoves DEF db, PaidStays

(* StatusWrite writes one of the statuses. *)
LEMMA StatusWriteKeeps ==
  ASSUME IndInv, NEW w \in Workers, StatusWrite(w)
  PROVE  IndInv'
<1>a. /\ pc[w] = "userWrite" /\ UNCHANGED task
      /\ UNCHANGED <<row, emi, loan, trace, charges, world, aborts>>
      /\ pc' = [pc EXCEPT ![w] = "recalcRead"]
      /\ user' = [user EXCEPT !.status = task[w].status]
  BY DEF StatusWrite, Goto
<1>0. /\ task[w] \in Tasks /\ task[w].res = "COMPLETED"
      /\ task = [task EXCEPT ![w] = task[w]]
      /\ emi \in EmiTable /\ user \in UserRow
  BY <1>a, PaidTask, PaidLabelFacts
<1>1. task[w].status \in 0 .. 3
  BY <1>0 DEF Tasks
<1>2. user' \in UserRow
  BY <1>0, <1>1, <1>a DEF UserRow
<1>3. "recalcRead" \in PaidLabels \ {"penalty", "bifurcate", "close"}
  BY PaidLabelFacts
<1> QED BY <1>0, <1>2, <1>3, <1>a, PaidLabelFacts, PaidMoves DEF PaidStays

(* RecalcRead remembers sums, which are natural numbers. *)
LEMMA RecalcReadKeeps ==
  ASSUME IndInv, NEW w \in Workers, RecalcRead(w)
  PROVE  IndInv'
<1>a. pc[w] = "recalcRead" /\ UNCHANGED <<db, world, aborts>>
  BY DEF RecalcRead
<1>0. /\ task[w] \in Tasks /\ task[w].res = "COMPLETED"
      /\ task = [task EXCEPT ![w] = task[w]]
      /\ emi \in EmiTable /\ user \in UserRow
  BY <1>a, PaidTask, PaidLabelFacts
<1>1. {"closeCheck", "recalcWrite"} \subseteq PaidLabels \ {"penalty", "bifurcate", "close"}
  BY PaidLabelFacts
<1>2. CASE Goto(w, "closeCheck") /\ UNCHANGED task
  BY <1>0, <1>1, <1>2, <1>a, PaidLabelFacts, PaidMoves DEF db, PaidStays, Goto
<1>3. CASE /\ Goto(w, "recalcWrite")
           /\ Keep(w, [task[w] EXCEPT !.ids = Emis, !.sums = Sums])
  <2> DEFINE t == [task[w] EXCEPT !.ids = Emis, !.sums = Sums]
  <2>1. Sums \in [Emis -> [pi : Money, charge : Money]]
    <3>1. \A e : PaidPi(e) \in Nat /\ PaidCharge(e) \in Nat
      BY TotalNat DEF PaidPi, PaidCharge
    <3> QED BY <3>1 DEF Sums, Money
  <2>2. /\ t \in Tasks /\ t.id = task[w].id /\ t.i = task[w].i
        /\ t.res = task[w].res
    BY <1>0, <2>1 DEF Tasks
  <2> HIDE DEF t
  <2> QED BY <1>0, <1>1, <1>3, <1>a, <2>2, PaidLabelFacts, PaidMoves
          DEF db, PaidStays, Goto, Keep, t
<1> QED BY <1>2, <1>3 DEF RecalcRead

(* RecalcWrite changes the paid_* columns alone. *)
LEMMA RecalcWriteKeeps ==
  ASSUME IndInv, NEW w \in Workers, RecalcWrite(w)
  PROVE  IndInv' /\ \A e \in Emis : emi'[e].paid = emi[e].paid
<1>a. /\ pc[w] = "recalcWrite"
      /\ UNCHANGED <<row, loan, user, trace, charges, world, aborts>>
  BY DEF RecalcWrite
<1>0. /\ task[w] \in Tasks /\ task[w].res = "COMPLETED"
      /\ pc = [pc EXCEPT ![w] = pc[w]]
      /\ emi \in EmiTable /\ user \in UserRow
  BY <1>a, PaidTask, PaidLabelFacts
<1>1. {"closeCheck", "recalcWrite"} \subseteq PaidLabels \ {"penalty", "bifurcate", "close"}
  BY PaidLabelFacts
<1>2. CASE /\ Goto(w, "closeCheck") /\ UNCHANGED emi
           /\ Keep(w, [task[w] EXCEPT !.sums = NoTask.sums])
  <2> DEFINE t == [task[w] EXCEPT !.sums = NoTask.sums]
  <2>1. NoTask.sums \in [Emis -> [pi : Money, charge : Money]]
    BY NoTaskType DEF Tasks
  <2>2. /\ t \in Tasks /\ t.id = task[w].id /\ t.i = task[w].i
        /\ t.res = task[w].res
    BY <1>0, <2>1 DEF Tasks
  <2>3. task' = [task EXCEPT ![w] = t] /\ pc' = [pc EXCEPT ![w] = "closeCheck"]
    BY <1>2 DEF Keep, Goto
  <2> HIDE DEF t
  <2> QED BY <1>0, <1>1, <1>2, <1>a, <2>2, <2>3, PaidLabelFacts, PaidMoves DEF PaidStays
<1>3. ASSUME NEW e \in task[w].ids, UNCHANGED pc,
             emi' = [emi EXCEPT ![e].paidPi = task[w].sums[e].pi,
                                ![e].paidCharge = task[w].sums[e].charge],
             Keep(w, [task[w] EXCEPT !.ids = @ \ {e}])
      PROVE  IndInv' /\ \A d \in Emis : emi'[d].paid = emi[d].paid
  <2> DEFINE t == [task[w] EXCEPT !.ids = @ \ {e}]
  <2>1. e \in Emis /\ task[w].ids \ {e} \in SUBSET Emis
    BY <1>0 DEF Tasks
  <2>2. /\ t \in Tasks /\ t.id = task[w].id /\ t.i = task[w].i
        /\ t.res = task[w].res
    BY <1>0, <2>1 DEF Tasks
  <2>3. task[w].sums[e].pi \in Money /\ task[w].sums[e].charge \in Money
    BY <1>0, <2>1 DEF Tasks
  <2>4. emi' \in EmiTable /\ \A d \in Emis : emi'[d].paid = emi[d].paid
    <3> DEFINE new == [emi[e] EXCEPT !.paidPi = task[w].sums[e].pi,
                                     !.paidCharge = task[w].sums[e].charge]
    <3>0. emi[e] \in EmiType
      BY <1>0, <2>1 DEF EmiTable
    <3>1. new \in EmiType /\ new.paid = emi[e].paid
      BY <2>3, <3>0 DEF EmiType
    <3>2. emi' = [emi EXCEPT ![e] = new]
      <4> DEFINE pi == task[w].sums[e].pi
                 charge == task[w].sums[e].charge
      <4>1. emi' = [emi EXCEPT ![e].paidPi = pi, ![e].paidCharge = charge]
        BY <1>3
      <4>2. new = [emi[e] EXCEPT !.paidPi = pi, !.paidCharge = charge]
        OBVIOUS
      <4> HIDE DEF new, pi, charge
      <4>3. \A d \in Emis : emi'[d] = IF d = e THEN new ELSE emi[d]
        BY <1>0, <2>1, <4>1, <4>2 DEF EmiTable
      <4>4. /\ emi' = [d \in Emis |-> emi'[d]]
            /\ [emi EXCEPT ![e] = new] = [d \in Emis |-> IF d = e THEN new ELSE emi[d]]
        BY <1>0, <2>1, <4>1 DEF EmiTable
      <4> QED BY <4>3, <4>4
    <3> HIDE DEF new
    <3>3. emi' \in EmiTable
      BY <1>0, <2>1, <3>1, <3>2, EmiRowReplaced
    <3>4. \A d \in Emis : emi'[d] = IF d = e THEN new ELSE emi[d]
      BY <1>0, <2>1, <3>2 DEF EmiTable
    <3>5. \A d \in Emis : emi'[d].paid = emi[d].paid
      BY <3>1, <3>4
    <3> QED BY <3>3, <3>5
  <2>5. task' = [task EXCEPT ![w] = t]
    BY <1>3 DEF Keep
  <2> HIDE DEF t
  <2>6. pc' = [pc EXCEPT ![w] = "recalcWrite"] /\ pc[w] \in PaidLabels
    BY <1>0, <1>3, <1>a, PaidLabelFacts
  <2>7. "recalcWrite" \in PaidLabels \ {"penalty", "bifurcate", "close"}
    BY <1>1
  <2>8. PaidStays /\ user' \in UserRow
    BY <1>0, <1>a, <2>4 DEF PaidStays
  <2>9. IndInv'
    BY <1>a, <2>2, <2>4, <2>5, <2>6, <2>7, <2>8, PaidMoves
  <2> QED BY <2>4, <2>9
<1> QED BY <1>2, <1>3 DEF RecalcWrite

-----------------------------------------------------------------------------
(* The end of the loan. *)

(* A handler goes on to close the loan only when it sees every EMI paid. *)
LEMMA CloseCheckKeeps ==
  ASSUME IndInv, NEW w \in Workers, CloseCheck(w)
  PROVE  IndInv'
<1>a. pc[w] = "closeCheck" /\ UNCHANGED <<db, world, aborts>>
  BY DEF CloseCheck
<1>0. /\ task[w] \in Tasks /\ task[w].res = "COMPLETED"
      /\ emi \in EmiTable /\ user \in UserRow
      /\ TypeOK /\ HandlerOK(w)
  BY <1>a, PaidTask, PaidLabelFacts DEF IndInv
<1>1. CASE Return(w)
  BY <1>0, <1>1, <1>a, PaidLabelFacts, ReturnKeeps DEF db, PaidStays
<1>2. CASE Eligible /\ Goto(w, "close") /\ UNCHANGED task
  <2>1. Unpaid = {}
    BY <1>2 DEF Eligible, Unpaid
  <2>2. pc' \in [Workers -> Labels] /\ Others(w) /\ pc'[w] = "close"
    BY <1>0, <1>2, HandlerTypes DEF Others, Labels
  <2>3. TypeOK'
    BY <1>0, <1>2, <1>a, <2>2 DEF TypeOK, db, world
  <2>4. HandlerOK(w)'
    BY <1>0, <1>2, <1>a, <2>2, PaidLabelFacts, PaidOK DEF world
  <2>5. \A v \in Workers : HandlerOK(v)'
    BY <1>2, <1>a, <2>2, <2>4 DEF IndInv, HandlerOK, Others, world
  <2>6. CloserSawAllPaid'
    BY <1>a, <2>1 DEF CloserSawAllPaid, Unpaid, db
  <2>7. ChargedOnce' /\ TraceGuardsCharge' /\ ClosedOnlyWhenPaid'
    BY <1>2, <1>a, <2>2 DEF IndInv, ChargedOnce, TraceGuardsCharge, ClosedOnlyWhenPaid,
                      Others, db
  <2>8. EventsAreTrue' /\ OrdersHaveRows' /\ NoPhantomPayment'
    BY <1>a, SameRows DEF IndInv, EventsAreTrue, db, world
  <2> QED BY <2>3, <2>5, <2>6, <2>7, <2>8 DEF IndInv
<1> QED BY <1>1, <1>2 DEF CloseCheck

(* When the loan is closed every EMI is still paid. *)
LEMMA CloseTheLoanKeeps ==
  ASSUME IndInv, NEW w \in Workers, CloseTheLoan(w)
  PROVE  IndInv' /\ Unpaid = {}
<1>a. /\ pc[w] = "close" /\ loan' = "Complete" /\ Goto(w, "readUser")
      /\ UNCHANGED <<row, emi, user, trace, charges, world, aborts, task>>
  BY DEF CloseTheLoan
<1>0. TypeOK /\ HandlerOK(w) /\ task[w] \in Tasks
  BY DEF IndInv, TypeOK
<1>1. Unpaid = {}
  BY <1>a DEF IndInv, CloserSawAllPaid
<1>2. pc' \in [Workers -> Labels] /\ Others(w) /\ pc'[w] = "readUser"
  BY <1>0, <1>a, HandlerTypes DEF Others, Labels
<1>3. TypeOK'
  BY <1>0, <1>a, <1>2 DEF TypeOK, world
<1>4. HandlerOK(w)'
  BY <1>0, <1>a, <1>2, PaidLabelFacts, PaidOK DEF world
<1>5. \A v \in Workers : HandlerOK(v)'
  BY <1>2, <1>a, <1>4 DEF IndInv, HandlerOK, Others, world
<1>6. ClosedOnlyWhenPaid' /\ CloserSawAllPaid'
  BY <1>a, <1>1 DEF ClosedOnlyWhenPaid, CloserSawAllPaid, Unpaid
<1>7. ChargedOnce' /\ TraceGuardsCharge'
  BY <1>a, <1>2 DEF IndInv, ChargedOnce, TraceGuardsCharge, Others
<1>8. EventsAreTrue' /\ OrdersHaveRows' /\ NoPhantomPayment'
  BY <1>a, SameRows DEF IndInv, EventsAreTrue, world
<1> QED BY <1>1, <1>3, <1>5, <1>6, <1>7, <1>8 DEF IndInv

(* ReadUser remembers the number of completed loans. *)
LEMMA ReadUserKeeps ==
  ASSUME IndInv, NEW w \in Workers, ReadUser(w)
  PROVE  IndInv'
<1> DEFINE t == [task[w] EXCEPT !.seen = user.completedLoans]
           label == IF user.completedLoans = 0 /\ user.status = 1
                      THEN "referral" ELSE "countLoan"
<1>a. /\ pc[w] = "readUser" /\ UNCHANGED <<db, world, aborts>>
      /\ pc' = [pc EXCEPT ![w] = label] /\ task' = [task EXCEPT ![w] = t]
  BY DEF ReadUser, Goto, Keep
<1>0. task[w] \in Tasks /\ emi \in EmiTable /\ user \in UserRow
  BY <1>a, PaidTask, PaidLabelFacts
<1>1. user.completedLoans \in 0 .. MaxCount
  BY <1>0 DEF UserRow
<1>2. /\ t \in Tasks /\ t.id = task[w].id /\ t.i = task[w].i
      /\ t.res = task[w].res
  BY <1>0, <1>1 DEF Tasks
<1>3. label \in PaidLabels \ {"penalty", "bifurcate", "close", "partWrite"}
  BY PaidLabelFacts
<1> HIDE DEF t, label
<1> QED BY <1>0, <1>2, <1>3, <1>a, PaidLabelFacts, PaidMoves DEF db, PaidStays

(* The number of referrals stays within its bound. *)
LEMMA GiveReferralKeeps ==
  ASSUME IndInv, NEW w \in Workers, GiveReferral(w)
  PROVE  IndInv'
<1>a. /\ pc[w] = "referral" /\ UNCHANGED task
      /\ UNCHANGED <<row, emi, loan, trace, charges, world, aborts>>
      /\ pc' = [pc EXCEPT ![w] = "countLoan"]
      /\ user' = [user EXCEPT !.referrals =
            IF user.completedLoans = 0 THEN AtMost(@ + 1, MaxCount) ELSE @]
  BY DEF GiveReferral, Goto
<1>0. /\ task[w] \in Tasks /\ task = [task EXCEPT ![w] = task[w]]
      /\ emi \in EmiTable /\ user \in UserRow
  BY <1>a, PaidTask, PaidLabelFacts
<1>1. user' \in UserRow
  BY <1>0, <1>a, ConstantsAssumption DEF UserRow, AtMost
<1>2. "countLoan" \in PaidLabels \ {"penalty", "bifurcate", "close"}
  BY PaidLabelFacts
<1> QED BY <1>0, <1>1, <1>2, <1>a, PaidLabelFacts, PaidMoves DEF PaidStays

(* CountLoan is the last step of a handler, or of one part of a split. *)
LEMMA CountLoanKeeps ==
  ASSUME IndInv, NEW w \in Workers, CountLoan(w)
  PROVE  IndInv'
<1>a. /\ pc[w] = "countLoan" /\ Return(w)
      /\ UNCHANGED <<row, emi, loan, trace, charges, world, aborts>>
      /\ user' = [user EXCEPT !.completedLoans = CountAfter(task[w].seen)]
  BY DEF CountLoan
<1>0. /\ task[w] \in Tasks /\ task[w].res = "COMPLETED"
      /\ emi \in EmiTable /\ user \in UserRow
  BY <1>a, PaidTask, PaidLabelFacts
<1>1. CountAfter(task[w].seen) \in 0 .. MaxCount
  BY <1>0, ConstantsAssumption DEF Tasks, CountAfter, AtMost
<1>2. user' \in UserRow
  BY <1>0, <1>1, <1>a DEF UserRow
<1> QED BY <1>0, <1>2, <1>a, PaidLabelFacts, ReturnKeeps DEF PaidStays

-----------------------------------------------------------------------------
(* Maintenance and crashes. *)

(* DuesRead and ArchiveRead start an idle handler. *)
LEMMA JobStarts ==
  ASSUME IndInv, NEW w \in Workers, DuesRead(w) \/ ArchiveRead(w)
  PROVE  IndInv'
<1>0. TypeOK BY DEF IndInv
<1>1. ASSUME NEW label \in {"dues", "archive"}, NEW t \in Tasks,
             Goto(w, label), Keep(w, t), UNCHANGED <<db, world, aborts>>
      PROVE  IndInv'
  <2>1. /\ pc' \in [Workers -> Labels] /\ task' \in [Workers -> Tasks]
        /\ Others(w) /\ pc'[w] = label
    BY <1>0, <1>1, HandlerTypes DEF Labels, Others
  <2>2. TypeOK'
    BY <1>0, <1>1, <2>1 DEF TypeOK, db, world
  <2> QED BY <1>1, <2>1, <2>2, RestingOK, CalmStep, SameRows DEF db, world, PaidStays
<1>2. CASE DuesRead(w)
  <2> DEFINE t == [NoTask EXCEPT !.ids = {e \in late : ~emi[e].paid /\ ~emi[e].due}]
  <2>1. t \in Tasks
    BY <1>0, NoTaskType DEF Tasks, TypeOK
  <2> QED BY <1>1, <1>2, <2>1 DEF DuesRead
<1>3. CASE ArchiveRead(w)
  <2>1. PICK old \in SUBSET {r \in RowIds : row[r].status = "INITIALIZED"} :
          Keep(w, [NoTask EXCEPT !.old = old])
    BY <1>3 DEF ArchiveRead
  <2>2. [NoTask EXCEPT !.old = old] \in Tasks
    BY NoTaskType DEF Tasks
  <2> QED BY <1>1, <1>3, <2>1, <2>2 DEF ArchiveRead
<1> QED BY <1>2, <1>3

(* DuesWrite sets due flags, nothing else. *)
LEMMA DuesWriteKeeps ==
  ASSUME IndInv, NEW w \in Workers, DuesWrite(w)
  PROVE  IndInv'
<1>0. TypeOK BY DEF IndInv
<1>1. /\ pc' \in [Workers -> Labels] /\ task' \in [Workers -> Tasks]
      /\ Others(w) /\ pc'[w] = "idle"
  BY <1>0, NoTaskType, HandlerTypes DEF DuesWrite, Labels, Others
<1>2. emi' \in EmiTable /\ PaidStays
  <2> DEFINE new(e) == IF e \in task[w].ids
                         THEN [emi[e] EXCEPT !.due = TRUE] ELSE emi[e]
  <2>1. emi \in EmiTable /\ emi' = [e \in Emis |-> new(e)]
    BY <1>0 DEF DuesWrite, TypeOK
  <2>2. \A e \in Emis : /\ new(e) \in EmiType
                        /\ emi[e].paid => new(e).paid
    BY <2>1 DEF EmiTable, EmiType
  <2> HIDE DEF new
  <2> QED BY <2>1, <2>2 DEF EmiTable, EmiType, PaidStays
<1>3. TypeOK'
  BY <1>0, <1>1, <1>2 DEF TypeOK, DuesWrite, world
<1> QED BY <1>1, <1>2, <1>3, RestingOK, CalmStep, SameRows DEF DuesWrite, world

(* ArchiveDelete makes no row COMPLETED and none that never was. *)
LEMMA ArchiveDeleteKeeps ==
  ASSUME IndInv, NEW w \in Workers, ArchiveDelete(w)
  PROVE  IndInv'
<1>0. TypeOK BY DEF IndInv
<1>a. /\ row' = [r \in RowIds |-> IF r \in task[w].old
                                    THEN [row[r] EXCEPT !.status = "ARCHIVED"]
                                    ELSE row[r]]
      /\ UNCHANGED <<emi, loan, user, trace, charges, world, aborts>>
  BY DEF ArchiveDelete
<1>1. /\ pc' \in [Workers -> Labels] /\ task' \in [Workers -> Tasks]
      /\ Others(w) /\ pc'[w] = "idle"
  BY <1>0, NoTaskType, HandlerTypes DEF ArchiveDelete, Labels, Others
<1>2. /\ row' \in RowTable
      /\ \A r \in RowIds : \/ row'[r] = row[r]
                           \/ row'[r].status = "ARCHIVED"
  BY <1>0, <1>a DEF TypeOK, RowTable, RowType, Statuses, Gone
<1>3. TypeOK'
  BY <1>0, <1>a, <1>1, <1>2 DEF TypeOK, world
<1>4. NoPhantomPayment'
  BY <1>a, <1>2 DEF IndInv, NoPhantomPayment, Completed, world
<1>5. OrdersHaveRows'
  <2>1. \A p \in Pays : <<p, 1>> \in RowIds
    BY ConstantsAssumption DEF RowIds
  <2>2. \A p \in Pays : row'[<<p, 1>>].status = "NONE" => row[<<p, 1>>].status = "NONE"
    BY <1>2, <2>1
  <2> QED BY <1>a, <2>2 DEF IndInv, OrdersHaveRows, world
<1> QED BY <1>a, <1>1, <1>3, <1>4, <1>5, RestingOK, CalmStep DEF world, PaidStays

(* A lost handler leaves everything it has written behind. *)
LEMMA AbortKeeps ==
  ASSUME IndInv, NEW w \in Workers, Abort(w)
  PROVE  IndInv'
<1>1. aborts' \in 0 .. MaxAborts
  BY ConstantsAssumption DEF IndInv, TypeOK, Abort
<1> QED BY <1>1, EndKeeps DEF Abort

-----------------------------------------------------------------------------
(* The induction. *)

(* An Active loan with no orders satisfies the invariant. *)
LEMMA InitInv == Init => IndInv
<1> SUFFICES ASSUME Init PROVE IndInv
  OBVIOUS
<1>1. TypeOK
  <2>1. NoRow \in RowType
    BY DEF NoRow, RowType, Statuses, Gone, Types, Modes, NoPart, Parts, Money
  <2>2. row \in RowTable
    BY <2>1 DEF Init, RowTable
  <2>3. emi \in EmiTable /\ user \in UserRow
    BY ConstantsAssumption DEF Init, EmiTable, EmiType, Money, UserRow
  <2>4. task \in [Workers -> Tasks] /\ pc \in [Workers -> Labels]
    BY NoTaskType DEF Init, Labels
  <2>5. price \in [Pays -> Money] /\ charges \in [Emis -> Nat]
        /\ aborts \in 0 .. MaxAborts
    BY ConstantsAssumption DEF Init, Money
  <2> QED BY <2>2, <2>3, <2>4, <2>5 DEF Init, TypeOK
<1>2. \A w \in Workers : HandlerOK(w)
  BY DEF Init, HandlerOK, PaidLabels, OrderLabels
<1>3. OrdersHaveRows /\ EventsAreTrue
  BY DEF Init, OrdersHaveRows, EventsAreTrue
<1>4. NoPhantomPayment
  BY DEF Init, NoPhantomPayment, Completed, NoRow
<1>5. ChargedOnce /\ TraceGuardsCharge /\ ClosedOnlyWhenPaid /\ CloserSawAllPaid
  BY DEF Init, ChargedOnce, TraceGuardsCharge, ClosedOnlyWhenPaid, CloserSawAllPaid
<1> QED BY <1>1, <1>2, <1>3, <1>4, <1>5 DEF IndInv

(* The invariant survives a state in which nothing moves. *)
LEMMA StutterKeeps == ASSUME IndInv, UNCHANGED vars PROVE IndInv'
<1>1. UNCHANGED <<db, world, pc, task, aborts>>
  BY DEF vars, db, world
<1>2. TypeOK' /\ EventsAreTrue'
  BY <1>1 DEF IndInv, TypeOK, EventsAreTrue, db, world
<1> QED BY <1>1, <1>2, WorldKeeps DEF world

(* Every step a running handler takes keeps the invariant. *)
LEMMA AdvanceKeeps ==
  ASSUME IndInv, NEW w \in Workers, Advance(w)
  PROVE  IndInv'
<1>1. CASE ResetPenalty(w) BY <1>1, ResetPenaltyKeeps
<1>2. CASE Bifurcate(w) BY <1>2, BifurcateKeeps
<1>3. CASE SplitPart(w) BY <1>3, SplitPartKeeps
<1>4. CASE UpdateTransaction(w) BY <1>4, UpdateTransactionKeeps
<1>5. CASE BounceRead(w) BY <1>5, BounceReadKeeps
<1>6. CASE BounceTrace(w) BY <1>6, BounceTraceKeeps
<1>7. CASE BounceWrite(w) BY <1>7, BounceWriteKeeps
<1>8. CASE PartRead(w) BY <1>8, PartReadKeeps
<1>9. CASE PartWrite(w) BY <1>9, PartWriteKeeps
<1>10. CASE FullRead(w) BY <1>10, FullReadKeeps
<1>11. CASE FullWrite(w) BY <1>11, FullWriteKeeps
<1>12. CASE StatusWrite(w) BY <1>12, StatusWriteKeeps
<1>13. CASE CloseCheck(w) BY <1>13, CloseCheckKeeps
<1>14. CASE CloseTheLoan(w) BY <1>14, CloseTheLoanKeeps
<1>15. CASE ReadUser(w) BY <1>15, ReadUserKeeps
<1>16. CASE GiveReferral(w) BY <1>16, GiveReferralKeeps
<1>17. CASE CountLoan(w) BY <1>17, CountLoanKeeps
<1>18. CASE DuesWrite(w) BY <1>18, DuesWriteKeeps
<1>19. CASE ArchiveDelete(w) BY <1>19, ArchiveDeleteKeeps
<1>20. CASE RecalcRead(w) BY <1>20, RecalcReadKeeps
<1>21. CASE RecalcWrite(w) BY <1>21, RecalcWriteKeeps
<1>22. CASE StatusRead(w) BY <1>22, StatusReadKeeps
<1> QED BY <1>1, <1>2, <1>3, <1>4, <1>5, <1>6, <1>7, <1>8, <1>9, <1>10, <1>11,
           <1>12, <1>13, <1>14, <1>15, <1>16, <1>17, <1>18, <1>19, <1>20, <1>21,
           <1>22 DEF Advance

(* IndInv is inductive. *)
LEMMA Inductive == IndInv /\ [Next]_vars => IndInv'
<1> SUFFICES ASSUME IndInv, [Next]_vars PROVE IndInv'
  OBVIOUS
<1>1. ASSUME NEW p \in Pays, CreateOrder(p) PROVE IndInv'
  BY <1>1, CreateOrderKeeps
<1>2. ASSUME NEW p \in Pays, GatewayCapture(p) PROVE IndInv'
  BY <1>2, GatewayCaptureKeeps
<1>3. ASSUME NEW p \in Pays, GatewayFail(p) PROVE IndInv'
  BY <1>3, GatewayFailKeeps
<1>4. CASE DatePasses
  BY <1>4, DatePassesKeeps
<1>5. ASSUME NEW w \in Workers, NEW p \in Pays,
             \/ Poll(w, p)
             \/ \E event \in {"captured", "failed"} : ManualWebhook(w, p, event)
             \/ SigndeskBatch(w, p)
      PROVE  IndInv'
  BY <1>5, EntriesKeep
<1>6. ASSUME NEW w \in Workers, DuesRead(w) \/ ArchiveRead(w) PROVE IndInv'
  BY <1>6, JobStarts
<1>7. ASSUME NEW w \in Workers, Advance(w) PROVE IndInv'
  BY <1>7, AdvanceKeeps
<1>8. ASSUME NEW w \in Workers, Abort(w) PROVE IndInv'
  BY <1>8, AbortKeeps
<1>9. CASE UNCHANGED vars
  BY <1>9, StutterKeeps
<1> QED BY <1>1, <1>2, <1>3, <1>4, <1>5, <1>6, <1>7, <1>8, <1>9 DEF Next

(* The invariant that carries all the others holds in every reachable      *)
(* state of any number of handlers.                                        *)
THEOREM Invariance == Spec => []IndInv
  BY InitInv, Inductive, PTL DEF Spec

(* The columns and the locals keep their types: no amount gets negative in *)
(* the tables, and emi_amount stays between 0 and the amount of the EMI.   *)
THEOREM TypeCorrect == Spec => []TypeOK
<1>1. IndInv => TypeOK BY DEF IndInv
<1> QED BY <1>1, Invariance, PTL

(* addEcsBounceCharge writes the charge of an EMI at most once, however    *)
(* many failures of its debits are handled at the same time.               *)
THEOREM BounceChargedOnce == Spec => []ChargedOnce
<1>1. IndInv => ChargedOnce BY DEF IndInv
<1> QED BY <1>1, Invariance, PTL

(* closeTheLoan never leaves a Complete loan with an unpaid EMI, although  *)
(* it writes after an await what isEligibleForLoanClose read before it.    *)
THEOREM NeverClosedUnpaid == Spec => []ClosedOnlyWhenPaid
<1>1. IndInv => ClosedOnlyWhenPaid BY DEF IndInv
<1> QED BY <1>1, Invariance, PTL

(* No transaction is COMPLETED, as a whole or as a part that was split     *)
(* off, before its gateway has captured the money.                         *)
THEOREM NothingBookedUncaptured == Spec => []NoPhantomPayment
<1>1. IndInv => NoPhantomPayment BY DEF IndInv
<1> QED BY <1>1, Invariance, PTL

-----------------------------------------------------------------------------
(* The ledger. *)

(* A step that settles, charges and closes nothing is a stutter of it. *)
LEMMA LedgerStutter ==
  ASSUME charges' = charges, loan' = loan,
         \A e \in Emis : emi'[e].paid = emi[e].paid
  PROVE  UNCHANGED Ledger!vars
<1>1. Unpaid' = Unpaid
  BY DEF Unpaid
<1> QED BY <1>1 DEF Ledger!vars

(* If at most one instalment becomes paid, it is settled or nothing is. *)
LEMMA LedgerSettle ==
  ASSUME IndInv, NEW e \in Emis, charges' = charges, loan' = loan, PaidStays,
         emi' \in EmiTable,
         \A d \in Emis \ {e} : emi'[d].paid = emi[d].paid
  PROVE  [Ledger!Next]_(Ledger!vars)
<1>1. emi \in EmiTable
  BY DEF IndInv, TypeOK
<1>2. CASE emi'[e].paid = emi[e].paid
  BY <1>2, LedgerStutter
<1>3. CASE emi'[e].paid # emi[e].paid
  <2>0. emi[e] \in EmiType /\ emi'[e] \in EmiType
    BY <1>1 DEF EmiTable
  <2>1. emi'[e].paid
    <3>1. emi[e].paid \in BOOLEAN /\ emi'[e].paid \in BOOLEAN
      BY <2>0 DEF EmiType
    <3> QED BY <1>3, <3>1 DEF PaidStays
  <2>2. Emis \ Unpaid' = (Emis \ Unpaid) \union {e}
    BY <2>1 DEF Unpaid
  <2>3. Ledger!Settle(e)
    BY <2>2 DEF Ledger!Settle
  <2> QED BY <2>3 DEF Ledger!Next
<1> QED BY <1>2, <1>3

(* Each step of the collection is a step of the ledger or a stutter. *)
LEMMA LedgerStep ==
  ASSUME IndInv, [Next]_vars
  PROVE  [Ledger!Next]_(Ledger!vars)
<1>0. TypeOK BY DEF IndInv
<1>1. CASE UNCHANGED <<emi, charges, loan>>
  BY <1>1, LedgerStutter
<1>2. ASSUME NEW w \in Workers, PartWrite(w)
      PROVE  [Ledger!Next]_(Ledger!vars)
  <2>1. task[w] \in Tasks /\ task[w].emi # NoEmi
    BY <1>0, <1>2 DEF IndInv, HandlerOK, PartWrite, TypeOK
  <2>2. task[w].emi \in Emis
    BY <2>1 DEF Tasks
  <2>3. IndInv' /\ PaidStays
    BY <1>2, PartWriteKeeps
  <2>4. \A d \in Emis \ {task[w].emi} : emi'[d].paid = emi[d].paid
    BY <1>0, <1>2 DEF PartWrite, TypeOK, EmiTable, EmiType
  <2> QED BY <1>2, <2>2, <2>3, <2>4, LedgerSettle DEF PartWrite, IndInv, TypeOK
<1>3. ASSUME NEW w \in Workers, FullWrite(w)
      PROVE  [Ledger!Next]_(Ledger!vars)
  <2>1. CASE emi' = emi
    BY <1>3, <2>1, LedgerStutter DEF FullWrite
  <2>2. ASSUME NEW e \in task[w].ids,
               emi' = [emi EXCEPT ![e].paid = TRUE, ![e].done = TRUE]
        PROVE  [Ledger!Next]_(Ledger!vars)
    <3>1. e \in Emis
      BY <1>0, <2>2 DEF TypeOK, Tasks
    <3>2. IndInv' /\ PaidStays
      BY <1>3, FullWriteKeeps
    <3>3. \A d \in Emis \ {e} : emi'[d].paid = emi[d].paid
      BY <1>0, <2>2 DEF TypeOK, EmiTable, EmiType
    <3> QED BY <1>3, <3>1, <3>2, <3>3, LedgerSettle DEF FullWrite, IndInv, TypeOK
  <2> QED BY <1>3, <2>1, <2>2 DEF FullWrite
<1>4. ASSUME NEW w \in Workers, BounceWrite(w)
      PROVE  [Ledger!Next]_(Ledger!vars)
  <2> DEFINE e == task[w].emi
  <2>1. e \in Emis /\ charges[e] = 0
    BY <1>0, <1>4 DEF IndInv, TraceGuardsCharge, BounceWrite, TypeOK
  <2>2. charges' = [charges EXCEPT ![e] = 1]
    BY <1>0, <1>4, <2>1 DEF BounceWrite, TypeOK
  <2>3. Unpaid' = Unpaid
    BY <1>0, <1>4 DEF BounceWrite, Unpaid, TypeOK, EmiTable, EmiType
  <2>4. Ledger!Levy(e)
    BY <1>4, <2>1, <2>2, <2>3 DEF Ledger!Levy, BounceWrite
  <2> QED BY <2>1, <2>4 DEF Ledger!Next
<1>5. ASSUME NEW w \in Workers, CloseTheLoan(w)
      PROVE  [Ledger!Next]_(Ledger!vars)
  <2>1. Unpaid = {} /\ Unpaid' = {}
    BY <1>5, CloseTheLoanKeeps DEF CloseTheLoan, Unpaid
  <2>2. Ledger!Close
    BY <1>5, <2>1 DEF Ledger!Close, CloseTheLoan
  <2> QED BY <2>2 DEF Ledger!Next
<1>6. ASSUME NEW w \in Workers,
             ResetPenalty(w) \/ DuesWrite(w) \/ RecalcWrite(w)
      PROVE  [Ledger!Next]_(Ledger!vars)
  <2>1. \A e \in Emis : emi'[e].paid = emi[e].paid
    <3>1. CASE ResetPenalty(w)
      BY <1>0, <3>1 DEF ResetPenalty, TypeOK, EmiTable, EmiType
    <3>2. CASE DuesWrite(w)
      BY <1>0, <3>2 DEF DuesWrite, TypeOK, EmiTable, EmiType
    <3>3. CASE RecalcWrite(w)
      BY <3>3, RecalcWriteKeeps
    <3> QED BY <1>6, <3>1, <3>2, <3>3
  <2> QED BY <1>6, <2>1, LedgerStutter DEF ResetPenalty, DuesWrite, RecalcWrite
<1>7. CASE UNCHANGED vars
  BY <1>1, <1>7 DEF vars
<1>8. ASSUME NEW w \in Workers, Advance(w)
      PROVE  [Ledger!Next]_(Ledger!vars)
  <2>1. CASE Bifurcate(w) \/ BounceRead(w) \/ PartRead(w) \/ FullRead(w)
             \/ StatusRead(w) \/ RecalcRead(w) \/ CloseCheck(w) \/ ReadUser(w)
    BY <1>1, <2>1 DEF Bifurcate, BounceRead, PartRead, FullRead, StatusRead,
                      RecalcRead, CloseCheck, ReadUser, db
  <2>2. CASE SplitPart(w) \/ UpdateTransaction(w) \/ BounceTrace(w)
             \/ StatusWrite(w) \/ GiveReferral(w) \/ CountLoan(w)
             \/ ArchiveDelete(w)
    BY <1>1, <2>2 DEF SplitPart, UpdateTransaction, BounceTrace, StatusWrite,
                      GiveReferral, CountLoan, ArchiveDelete
  <2> QED BY <1>2, <1>3, <1>4, <1>5, <1>6, <1>8, <2>1, <2>2 DEF Advance
<1>9. CASE \/ \E p \in Pays : CreateOrder(p) \/ GatewayCapture(p) \/ GatewayFail(p)
           \/ DatePasses
  BY <1>1, <1>9 DEF CreateOrder, GatewayCapture, GatewayFail, DatePasses, db
<1>10. ASSUME NEW w \in Workers, NEW p \in Pays,
              \/ Poll(w, p)
              \/ \E event \in {"captured", "failed"} : ManualWebhook(w, p, event)
              \/ SigndeskBatch(w, p)
       PROVE  [Ledger!Next]_(Ledger!vars)
  BY <1>1, <1>10 DEF Poll, ManualWebhook, SigndeskBatch, Enter, db
<1>11. ASSUME NEW w \in Workers, DuesRead(w) \/ ArchiveRead(w) \/ Abort(w)
       PROVE  [Ledger!Next]_(Ledger!vars)
  BY <1>1, <1>11 DEF DuesRead, ArchiveRead, Abort, db
<1> QED BY <1>7, <1>8, <1>9, <1>10, <1>11 DEF Next

(* Whatever interleaving of handlers, crashes and repeated answers: seen   *)
(* from outside, an instalment is settled for good, charged at most once,  *)
(* and the loan closes only when all are settled.                          *)
THEOREM LedgerRefinement == Spec => ImplementsLedger
<1>1. Init => Ledger!Init
  <2> SUFFICES ASSUME Init PROVE Ledger!Init
    OBVIOUS
  <2>1. Emis \ Unpaid = {}
    BY DEF Init, Unpaid
  <2>2. (loan = "Complete") = FALSE
    BY DEF Init
  <2> QED BY <2>1, <2>2 DEF Init, Ledger!Init
<1>2. IndInv /\ [Next]_vars => [Ledger!Next]_(Ledger!vars)
  BY LedgerStep
<1> QED BY <1>1, <1>2, Invariance, PTL DEF Spec, ImplementsLedger, Ledger!Spec
=============================================================================
