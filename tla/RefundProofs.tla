---------------------------- MODULE RefundProofs ----------------------------
(* Proofs about refunds, for any instalments, payments and handlers. *)
EXTENDS RefundProperties, SumTheorems

-----------------------------------------------------------------------------
(* What the handlers compute has the right type. *)

LEMMA PositiveNat == ASSUME NEW n PROVE Positive(n) \in Nat
  BY DEF Positive

LEMMA NamedEmis == Named \subseteq Emis
  BY DEF Named

LEMMA ExcessNat == ASSUME NEW n, NEW E PROVE Excess(n, E) \in Nat
  BY PositiveNat DEF Excess

LEMMA LatestAmong == ASSUME NEW S, NEW e \in Latest(S) PROVE e \in S
  BY DEF Latest

LEMMA RefundEmisType ==
  ASSUME NEW E \in SUBSET Emis, NEW n, NEW e \in RefundEmis(E, n)
  PROVE  e \in Emis
<1>1. PICK full : e \in Latest(IF Overpaid(E, full) # {} THEN Overpaid(E, full)
                               ELSE Closest(E, n))
  BY DEF RefundEmis
<1>2. e \in Overpaid(E, full) \/ e \in Closest(E, n)
  BY <1>1, LatestAmong
<1> QED BY <1>2 DEF Overpaid, Closest

(* What the loan has paid, less what is on its way back, is an integer. *)
LEMMA PaidAmountInt == ASSUME RefundAssumption, TypeOK PROVE PaidAmount \in Int
<1> DEFINE f == [p \in paid |-> PayAmount[p]]
           g == [r \in Counted |-> row[r].amount]
<1>1. IsFiniteSet(paid) /\ \A p \in paid : f[p] \in Nat
  BY FS_Subset DEF TypeOK, RefundAssumption
<1>2. IsFiniteSet(Counted) /\ \A r \in Counted : g[r] \in Nat
  <2>1. IsFiniteSet(RowIds)
    BY FS_Interval DEF RowIds, RefundAssumption
  <2> QED BY <2>1, FS_Subset DEF Counted, HasStatus, TypeOK, RowType
<1>3. /\ Total(LAMBDA p : PayAmount[p], paid) = SumFunctionOnSet(f, paid)
      /\ Total(Amount, Counted) = SumFunctionOnSet(g, Counted)
  BY DEF Total, Amount
<1> HIDE DEF f, g
<1>4. SumFunctionOnSet(f, paid) \in Nat /\ SumFunctionOnSet(g, Counted) \in Nat
  BY <1>1, <1>2, SumOfNaturals
<1> QED BY <1>3, <1>4 DEF PaidAmount

LEMMA LastFailedType == LastFailed \in RowIds \union {0}
<1> DEFINE failed == HasStatus({"FAILED"})
<1>1. CASE Latest(failed) = {}
  BY <1>1 DEF LastFailed
<1>2. CASE Latest(failed) # {}
  <2>1. LastFailed \in Latest(failed)
    BY <1>2 DEF LastFailed
  <2> QED BY <2>1, LatestAmong DEF HasStatus
<1> QED BY <1>1, <1>2

(* A function on 1 .. m is a sequence over whatever its values lie in. *)
LEMMA FunctionIsSeq ==
  ASSUME NEW m \in Nat, NEW S, NEW T, S \subseteq T, NEW f \in [1 .. m -> S]
  PROVE  f \in Seq(T)
<1>1. f \in [1 .. m -> T]
  OBVIOUS
<1> QED BY <1>1

LEMMA PreferredSeq ==
  ASSUME RefundAssumption, TypeOK, NEW e, NEW n, NEW s \in Preferred(e, n)
  PROVE  s \in Seq(Payments)
<1>1. IsFiniteSet(Usable)
  BY FS_Subset DEF Usable, TypeOK, RefundAssumption
<1>2. Cardinality(Usable) \in Nat
  BY <1>1, FS_CardinalityType
<1>3. s \in [1 .. Cardinality(Usable) -> Usable]
  BY DEF Preferred, SetToSeqs
<1>4. Usable \subseteq Payments
  BY DEF Usable, TypeOK
<1> QED BY <1>2, <1>3, <1>4, FunctionIsSeq

LEMMA AllocationType ==
  ASSUME RefundAssumption, TypeOK, NEW e, NEW n \in Nat,
         NEW parts \in Allocations(e, n)
  PROVE  parts \in Seq(Parts)
<1>0. PICK s \in Preferred(e, n) : \E f \in Greedy(s, n) : parts = Split(s, f, n)
  BY DEF Allocations
<1>1. PICK f \in Greedy(s, n) : parts = Split(s, f, n)
  BY <1>0
<1>2. s \in Seq(Payments)
  BY PreferredSeq
<1>3. f \in [DOMAIN s -> 0 .. n]
  BY DEF Greedy
<1> DEFINE front == [i \in DOMAIN s |-> Part(s[i], f[i])]
           rest == Part(NoTran, Positive(n - Before(f, Len(s) + 1)))
<1>4. \A i \in DOMAIN s : s[i] \in Payments /\ f[i] \in Nat
  BY <1>2, <1>3
<1>5. \A i \in DOMAIN s : Part(s[i], f[i]) \in Parts
  BY <1>4 DEF Part, Parts
<1>6. front \in Seq(Parts)
  <2>1. DOMAIN s = 1 .. Len(s) /\ Len(s) \in Nat
    BY <1>2
  <2>2. front \in [1 .. Len(s) -> Parts]
    BY <2>1, <1>5
  <2> QED BY <2>1, <2>2
<1>7. rest \in Parts
  BY PositiveNat DEF Part, Parts
<1>8. parts = Append(front, rest)
  BY <1>1 DEF Split
<1> HIDE DEF front, rest
<1> QED BY <1>6, <1>7, <1>8

LEMMA NewRowType ==
  ASSUME TypeOK, NEW w \in Workers, task[w].i \in DOMAIN task[w].parts
  PROVE  /\ NewRow(w) \in RowType
         /\ NewRow(w).status = "INITIALIZED"
         /\ NewRow(w).emi = task[w].emi
<1>1. task[w] \in TaskType
  BY DEF TypeOK
<1> DEFINE part == task[w].parts[task[w].i]
<1>2. part \in Parts
  BY <1>1 DEF TaskType
<1>3. part.tran \in Payments \union {NoTran} /\ part.amount \in Nat
  BY <1>2 DEF Parts
<1>4. task[w].emi \in Emis \union {NoEmi} /\ task[w].after \in RowIds \union {0}
  BY <1>1 DEF TaskType
<1> HIDE DEF part
<1> QED BY <1>3, <1>4 DEF NewRow, RowType, Statuses, Resps, part

LEMMA TaskStep ==
  ASSUME TypeOK, NEW w \in Workers, NEW where \in Places, NEW t \in TaskType,
         Goto(w, where, t)
  PROVE  /\ pc' \in [Workers -> Places]
         /\ task' \in [Workers -> TaskType]
         /\ pc'[w] = where
         /\ task'[w] = t
         /\ \A v \in Workers : v # w => pc'[v] = pc[v] /\ task'[v] = task[v]
  BY DEF Goto, TypeOK

LEMMA NoTaskType == NoTask \in TaskType
  BY DEF NoTask, TaskType

-----------------------------------------------------------------------------
(* Every action keeps the invariant. *)

LEMMA InitRefundInv == ASSUME RefundAssumption, Init PROVE RefundInv
<1>1. NoRow \in RowType
  BY DEF NoRow, RowType, Statuses, Resps
<1>2. TypeOK
  BY <1>1, NoTaskType DEF Init, TypeOK, Places, RefundAssumption
<1>3. \A r \in RowIds : row[r].status = "NONE" /\ gw[r] = "NONE"
  BY DEF Init, NoRow
<1>4. \A w \in Workers : pc[w] = "idle"
  BY DEF Init
<1>5. Asked = {} /\ Live = {}
  BY <1>3 DEF Asked, Live
<1> QED
  BY <1>2, <1>3, <1>4, <1>5
  DEF RefundInv, RowsTraced, OneRowPerEmi, TracerIsAlone, AskedExist, BusyOnRow,
      CallerIsAlone, AnswersAreTrue, DeletedIsUnpaid, BooksAreTrue, MoneyHasRow,
      Exists, Busy

(* A handler that only reads, or ends. *)
LEMMA CalmStep ==
  ASSUME RefundInv, NEW w \in Workers,
         NEW where \in {"idle", "paid", "named", "emis", "rows", "transactions", "trace",
                        "ask"},
         NEW t \in TaskType, Goto(w, where, t),
         UNCHANGED <<db, gw, losses>>,
         paid' \subseteq Payments, due' \subseteq Emis, aborts' \in 0 .. MaxAborts
  PROVE  RefundInv'
<1> USE DEF RefundInv, db
<1>1. where \in Places
  BY DEF Places
<1>2. /\ pc' \in [Workers -> Places]
      /\ task' \in [Workers -> TaskType]
      /\ pc'[w] = where
      /\ \A v \in Workers : v # w => pc'[v] = pc[v] /\ task'[v] = task[v]
  BY <1>1, TaskStep
<1>3. TypeOK'
  BY <1>2 DEF TypeOK
<1>4. Asked' = Asked /\ Live' = Live /\ \A r : Exists(r)' = Exists(r)
  BY DEF Asked, Live, Exists
<1>5. RowsTraced' /\ OneRowPerEmi' /\ AskedExist' /\ BooksAreTrue' /\ MoneyHasRow'
  BY <1>4 DEF RowsTraced, OneRowPerEmi, AskedExist, BooksAreTrue, MoneyHasRow
<1>6. \A v \in Workers : pc'[v] \in Busy \union {"row"} =>
                           pc'[v] = pc[v] /\ task'[v] = task[v]
  BY <1>2 DEF Busy
<1>7. TracerIsAlone'
  BY <1>4, <1>6 DEF TracerIsAlone
<1>8. BusyOnRow' /\ CallerIsAlone' /\ DeletedIsUnpaid'
  BY <1>4, <1>6 DEF BusyOnRow, CallerIsAlone, DeletedIsUnpaid, Busy
<1>9. AnswersAreTrue'
  BY <1>6 DEF AnswersAreTrue, Busy
<1> QED BY <1>3, <1>5, <1>7, <1>8, <1>9

LEMMA StopStep ==
  ASSUME RefundInv, NEW w \in Workers, Stop(w), UNCHANGED <<db, gw, losses>>,
         paid' \subseteq Payments, due' \subseteq Emis, aborts' \in 0 .. MaxAborts
  PROVE  RefundInv'
  BY CalmStep, NoTaskType DEF Stop

LEMMA WorldTypes ==
  ASSUME RefundInv, UNCHANGED <<paid, due, aborts>>
  PROVE  paid' \subseteq Payments /\ due' \subseteq Emis /\ aborts' \in 0 .. MaxAborts
  BY DEF RefundInv, TypeOK

LEMMA EnterKeeps ==
  ASSUME RefundInv, NEW w \in Workers, Place(w) \/ Automate(w) \/ PollRead(w)
  PROVE  RefundInv'
<1>1. UNCHANGED <<db, gw, losses, paid, due, aborts>>
  BY DEF Place, Automate, PollRead, world
<1>2. CASE Place(w) \/ Automate(w)
  BY <1>1, <1>2, CalmStep, NoTaskType, WorldTypes DEF Place, Automate
<1>3. CASE PollRead(w)
  <2>1. [NoTask EXCEPT !.todo = HasStatus({"INITIALIZED"})] \in TaskType
    BY NoTaskType DEF TaskType, HasStatus, NoTask
  <2> QED BY <1>1, <1>3, <2>1, CalmStep, WorldTypes DEF PollRead
<1> QED BY <1>2, <1>3

LEMMA ReadPaidKeeps ==
  ASSUME RefundAssumption, RefundInv, NEW w \in Workers, ReadPaid(w)
  PROVE  RefundInv'
<1>1. UNCHANGED <<db, gw, losses, paid, due, aborts>>
  BY DEF ReadPaid, world
<1>2. PaidAmount \in Int
  BY PaidAmountInt DEF RefundInv
<1>3. [NoTask EXCEPT !.total = PaidAmount] \in TaskType
  BY <1>2, NoTaskType DEF TaskType
<1> QED BY <1>1, <1>3, CalmStep, WorldTypes DEF ReadPaid

LEMMA ReadNamedKeeps ==
  ASSUME RefundInv, NEW w \in Workers, ReadNamed(w)
  PROVE  RefundInv'
<1>1. UNCHANGED <<db, gw, losses, paid, due, aborts>>
  BY DEF ReadNamed, world
<1>2. [task[w] EXCEPT !.billed = Named] \in TaskType
  BY NamedEmis DEF RefundInv, TypeOK, TaskType
<1> QED BY <1>1, <1>2, CalmStep, WorldTypes DEF ReadNamed

LEMMA ReadEmisKeeps ==
  ASSUME RefundInv, NEW w \in Workers, ReadEmis(w)
  PROVE  RefundInv'
<1> DEFINE billed == task[w].billed \union due
           excess == Excess(task[w].total, billed)
<1>1. UNCHANGED <<db, gw, losses, paid, due, aborts>>
  BY DEF ReadEmis, world
<1>2. CASE Stop(w)
  BY <1>1, <1>2, StopStep, WorldTypes
<1>3. CASE Goto(w, "rows", [task[w] EXCEPT !.billed = billed, !.amount = excess])
  <2>1. task[w] \in TaskType /\ billed \in SUBSET Emis /\ excess \in Nat
    BY ExcessNat DEF RefundInv, TypeOK, TaskType
  <2> HIDE DEF billed, excess
  <2>2. [task[w] EXCEPT !.billed = billed, !.amount = excess] \in TaskType
    BY <2>1 DEF TaskType
  <2> QED BY <1>1, <1>3, <2>2, CalmStep, WorldTypes
<1> QED BY <1>2, <1>3 DEF ReadEmis

LEMMA ReadRowsKeeps ==
  ASSUME RefundInv, NEW w \in Workers, ReadRows(w)
  PROVE  RefundInv'
<1>1. UNCHANGED <<db, gw, losses, paid, due, aborts>>
  BY DEF ReadRows, world
<1>2. PICK e \in RefundEmis(task[w].billed, task[w].amount) :
        Goto(w, "transactions", [task[w] EXCEPT !.emi = e, !.after = LastFailed])
  BY DEF ReadRows
<1>3. task[w] \in TaskType /\ task[w].billed \in SUBSET Emis
  BY DEF RefundInv, TypeOK, TaskType
<1>4. e \in Emis
  BY <1>2, <1>3, RefundEmisType
<1>5. [task[w] EXCEPT !.emi = e, !.after = LastFailed] \in TaskType
  BY <1>3, <1>4, LastFailedType DEF TaskType
<1> QED BY <1>1, <1>2, <1>5, CalmStep, WorldTypes

LEMMA ReadTransactionsKeeps ==
  ASSUME RefundAssumption, RefundInv, NEW w \in Workers, ReadTransactions(w)
  PROVE  RefundInv'
<1>1. UNCHANGED <<db, gw, losses, paid, due, aborts>>
  BY DEF ReadTransactions, world
<1>2. CASE Stop(w)
  BY <1>1, <1>2, StopStep, WorldTypes
<1>3. CASE ~Stop(w)
  <2>1. PICK parts \in Allocations(task[w].emi, task[w].amount) :
          Goto(w, "trace", [task[w] EXCEPT !.parts = parts])
    BY <1>3 DEF ReadTransactions
  <2>2. task[w] \in TaskType /\ task[w].amount \in Nat
    BY DEF RefundInv, TypeOK, TaskType
  <2>3. parts \in Seq(Parts)
    BY <2>2, AllocationType DEF RefundInv
  <2>4. [task[w] EXCEPT !.parts = parts] \in TaskType
    BY <2>2, <2>3 DEF TaskType
  <2> QED BY <1>1, <2>1, <2>4, CalmStep, WorldTypes
<1> QED BY <1>2, <1>3

LEMMA PollAskKeeps ==
  ASSUME RefundInv, NEW w \in Workers, PollAsk(w)
  PROVE  RefundInv'
<1>1. UNCHANGED <<db, gw, losses, paid, due, aborts>>
  BY DEF PollAsk, world
<1>0. task[w] \in TaskType
  BY DEF RefundInv, TypeOK
<1>2. CASE Stop(w)
  BY <1>1, <1>2, StopStep, WorldTypes
<1>3. ASSUME NEW r \in task[w].todo,
             Goto(w, "ask", [task[w] EXCEPT !.todo = @ \ {r}])
      PROVE  RefundInv'
  <2>1. [task[w] EXCEPT !.todo = @ \ {r}] \in TaskType
    BY <1>0 DEF TaskType
  <2> QED BY <1>1, <1>3, <2>1, CalmStep, WorldTypes
<1>4. ASSUME NEW r \in task[w].todo, CanAsk(r), gw[r] # "NONE",
             Goto(w, "settle", [task[w] EXCEPT !.row = r, !.answer = gw[r]])
      PROVE  RefundInv'
  <2> USE DEF RefundInv
  <2> DEFINE t == [task[w] EXCEPT !.row = r, !.answer = gw[r]]
  <2>1. r \in RowIds
    BY <1>0 DEF TaskType
  <2>2. gw[r] \in {"PENDING", "PAID", "REJECTED"}
    BY <1>4, <2>1 DEF TypeOK
  <2>3. t \in TaskType
    BY <1>0, <2>1, <2>2 DEF TaskType
  <2>4. t.row = r /\ t.answer = gw[r]
    BY <1>0 DEF TaskType
  <2> HIDE DEF t
  <2>5. /\ pc' \in [Workers -> Places]
        /\ task' \in [Workers -> TaskType]
        /\ pc'[w] = "settle"
        /\ task'[w] = t
        /\ \A v \in Workers : v # w => pc'[v] = pc[v] /\ task'[v] = task[v]
    BY <1>4, <2>3, TaskStep DEF Places, t
  <2>6. TypeOK'
    BY <1>1, <2>5 DEF TypeOK, db
  <2>7. Asked' = Asked /\ Live' = Live /\ \A s : Exists(s)' = Exists(s)
    BY <1>1 DEF Asked, Live, Exists, db
  <2>8. RowsTraced' /\ OneRowPerEmi' /\ AskedExist' /\ BooksAreTrue' /\ MoneyHasRow'
    BY <1>1, <2>7
    DEF RowsTraced, OneRowPerEmi, AskedExist, BooksAreTrue, MoneyHasRow, db
  <2>9. Exists(r)
    BY <1>4, <2>1 DEF AskedExist, Asked
  <2>10. TracerIsAlone'
    BY <1>1, <2>5, <2>7 DEF TracerIsAlone, db
  <2>11. BusyOnRow'
    BY <2>1, <2>4, <2>5, <2>7, <2>9 DEF BusyOnRow
  <2>12. CallerIsAlone'
    BY <1>1, <1>4, <2>4, <2>5 DEF CallerIsAlone, Busy, db
  <2>13. AnswersAreTrue'
    BY <1>1, <1>4, <2>2, <2>4, <2>5 DEF AnswersAreTrue
  <2>14. DeletedIsUnpaid'
    BY <1>1, <2>5, <2>7 DEF DeletedIsUnpaid
  <2> QED BY <2>6, <2>8, <2>10, <2>11, <2>12, <2>13, <2>14
<1> QED BY <1>2, <1>3, <1>4 DEF PollAsk

LEMMA CreateTraceKeeps ==
  ASSUME RefundInv, NEW w \in Workers, CreateTrace(w)
  PROVE  RefundInv'
<1> USE DEF RefundInv
<1>1. UNCHANGED <<row, gw, losses, paid, due, aborts>>
  BY DEF CreateTrace, world
<1>2. CASE Stop(w) /\ UNCHANGED trace
  BY <1>1, <1>2, StopStep, WorldTypes DEF db
<1>3. ASSUME NEW i \in PartsAhead(w),
             trace' = trace \union {task[w].emi},
             Goto(w, IF task[w].emi \in trace THEN "trace" ELSE "row",
                  [task[w] EXCEPT !.i = i])
      PROVE  RefundInv'
  <2> DEFINE t == [task[w] EXCEPT !.i = i]
  <2>1. task[w] \in TaskType
    BY DEF TypeOK
  <2>2. i \in DOMAIN task[w].parts /\ task[w].parts[i].amount > 0
    BY <1>3 DEF PartsAhead
  <2>3. i \in Nat
    BY <2>1, <2>2 DEF TaskType
  <2>4. t \in TaskType /\ t.i = i /\ t.emi = task[w].emi /\ t.parts = task[w].parts
    BY <2>1, <2>3 DEF TaskType
  <2>5. CASE task[w].emi \in trace
    <3>1. trace' = trace
      BY <1>3, <2>5
    <3> QED BY <1>1, <1>3, <2>4, <2>5, <3>1, CalmStep, WorldTypes DEF db
  <2>6. CASE task[w].emi \notin trace
    <3> HIDE DEF t
    <3>1. /\ pc' \in [Workers -> Places]
          /\ task' \in [Workers -> TaskType]
          /\ pc'[w] = "row"
          /\ task'[w] = t
          /\ \A v \in Workers : v # w => pc'[v] = pc[v] /\ task'[v] = task[v]
      BY <1>3, <2>4, <2>6, TaskStep DEF Places, t
    <3>2. Asked' = Asked /\ Live' = Live /\ \A r : Exists(r)' = Exists(r)
      BY <1>1 DEF Asked, Live, Exists
    <3>3. RowsTraced'
      BY <1>1, <1>3, <3>2 DEF RowsTraced
    <3>4. OneRowPerEmi' /\ AskedExist' /\ BooksAreTrue' /\ MoneyHasRow'
      BY <1>1, <3>2 DEF OneRowPerEmi, AskedExist, BooksAreTrue, MoneyHasRow
    <3>5. \A r \in RowIds : Exists(r) => row[r].emi # task[w].emi
      BY <2>6 DEF RowsTraced
    <3>6. \A v \in Workers : pc[v] = "row" => task[v].emi # task[w].emi
      BY <2>6 DEF TracerIsAlone
    <3>7. TracerIsAlone'
      BY <1>1, <1>3, <2>2, <2>4, <3>1, <3>2, <3>5, <3>6 DEF TracerIsAlone
    <3>8. BusyOnRow' /\ DeletedIsUnpaid' /\ AnswersAreTrue'
      BY <1>1, <3>1, <3>2 DEF BusyOnRow, DeletedIsUnpaid, AnswersAreTrue, Busy
    <3>11. CallerIsAlone'
      BY <1>1, <3>1 DEF CallerIsAlone, Busy
    <3>9. task[w].emi \in Emis \union {NoEmi}
      BY <2>1 DEF TaskType
    <3>10. TypeOK'
      BY <1>1, <1>3, <3>1, <3>9 DEF TypeOK
    <3> QED BY <3>3, <3>4, <3>7, <3>8, <3>10, <3>11
  <2> QED BY <2>5, <2>6
<1> QED BY <1>2, <1>3 DEF CreateTrace

LEMMA CreateRowKeeps ==
  ASSUME RefundInv, NEW w \in Workers, CreateRow(w)
  PROVE  RefundInv'
<1> USE DEF RefundInv
<1>1. UNCHANGED <<trace, gw, losses, paid, due, aborts>> /\ pc[w] = "row"
  BY DEF CreateRow, world
<1>2. task[w] \in TaskType
  BY DEF TypeOK
<1>3. CASE Goto(w, "trace", task[w]) /\ UNCHANGED row
  BY <1>1, <1>2, <1>3, CalmStep, WorldTypes DEF db
<1>4. ASSUME NEW r \in RowIds, row[r].status = "NONE",
             row' = [row EXCEPT ![r] = NewRow(w)],
             Goto(w, "gateway", [task[w] EXCEPT !.row = r])
      PROVE  RefundInv'
  <2> DEFINE t == [task[w] EXCEPT !.row = r]
  <2>1. t \in TaskType /\ t.row = r
    BY <1>2 DEF TaskType
  <2> HIDE DEF t
  <2>2. /\ pc' \in [Workers -> Places]
        /\ task' \in [Workers -> TaskType]
        /\ pc'[w] = "gateway"
        /\ task'[w] = t
        /\ \A v \in Workers : v # w => pc'[v] = pc[v] /\ task'[v] = task[v]
    BY <1>4, <2>1, TaskStep DEF Places, t
  <2>3. /\ NewRow(w) \in RowType
        /\ NewRow(w).status = "INITIALIZED"
        /\ NewRow(w).emi = task[w].emi
    BY <1>1, NewRowType DEF TracerIsAlone
  <2>4. /\ row' \in [RowIds -> RowType]
        /\ row'[r] = NewRow(w)
        /\ \A s \in RowIds : s # r => row'[s] = row[s]
    BY <1>4, <2>3 DEF TypeOK
  <2>5. TypeOK'
    BY <1>1, <2>2, <2>4 DEF TypeOK
  <2>6. \A s \in RowIds : Exists(s)' <=> Exists(s) \/ s = r
    BY <2>3, <2>4 DEF Exists
  <2>7. Asked' = Asked /\ Live' = Live /\ r \notin Asked
    BY <1>1, <1>4 DEF Asked, Live, AskedExist, Exists
  <2>8. gw[r] = "NONE" /\ r \notin Live
    BY <2>7 DEF Asked, Live
  <2>9. task[w].emi \in trace /\ \A s \in RowIds : Exists(s) => row[s].emi # task[w].emi
    BY <1>1 DEF TracerIsAlone
  <2>10. \A v \in Workers : pc[v] \in Busy => task[v].row # r
    BY <1>4 DEF BusyOnRow, Exists
  <2>11. RowsTraced'
    BY <1>1, <2>3, <2>4, <2>6, <2>9 DEF RowsTraced
  <2>12. OneRowPerEmi'
    BY <2>3, <2>4, <2>6, <2>9 DEF OneRowPerEmi
  <2>13. AskedExist'
    BY <2>6, <2>7 DEF AskedExist, Asked
  <2>14. TracerIsAlone'
    <3> SUFFICES ASSUME NEW v \in Workers, pc'[v] = "row"
                 PROVE  /\ task'[v].i \in DOMAIN task'[v].parts
                        /\ task'[v].emi \in trace'
                        /\ \A s \in RowIds : Exists(s)' => row'[s].emi # task'[v].emi
                        /\ \A u \in Workers :
                             pc'[u] = "row" /\ task'[u].emi = task'[v].emi => u = v
      BY DEF TracerIsAlone
    <3>1. v # w /\ pc[v] = "row" /\ task'[v] = task[v]
      BY <2>2
    <3>2. task[v].emi # task[w].emi
      BY <1>1, <3>1 DEF TracerIsAlone
    <3>3. \A s \in RowIds : Exists(s)' => row'[s].emi # task'[v].emi
      BY <2>3, <2>4, <2>6, <3>1, <3>2 DEF TracerIsAlone
    <3> QED BY <1>1, <2>2, <3>1, <3>3 DEF TracerIsAlone
  <2>15. BusyOnRow'
    BY <2>1, <2>2, <2>6 DEF BusyOnRow
  <2>16. CallerIsAlone'
    <3> SUFFICES ASSUME NEW v \in Workers, pc'[v] = "gateway"
                 PROVE  /\ row'[task'[v].row].status = "INITIALIZED"
                        /\ gw'[task'[v].row] = "NONE"
                        /\ \A u \in Workers :
                             pc'[u] \in Busy /\ task'[u].row = task'[v].row => u = v
      BY DEF CallerIsAlone
    <3>1. CASE v = w
      BY <1>1, <2>1, <2>2, <2>3, <2>4, <2>8, <2>10, <3>1
    <3>2. CASE v # w
      <4>1. pc[v] = "gateway" /\ task'[v] = task[v] /\ "gateway" \in Busy
        BY <2>2, <3>2 DEF Busy
      <4>2. task[v].row \in RowIds /\ task[v].row # r
        BY <2>10, <4>1 DEF BusyOnRow
      <4> QED BY <1>1, <2>1, <2>2, <2>4, <4>1, <4>2 DEF CallerIsAlone
    <3> QED BY <3>1, <3>2
  <2>17. AnswersAreTrue' /\ DeletedIsUnpaid'
    BY <1>1, <2>2, <2>7 DEF AnswersAreTrue, DeletedIsUnpaid
  <2>18. BooksAreTrue' /\ MoneyHasRow'
    BY <1>1, <2>3, <2>4, <2>7, <2>8 DEF BooksAreTrue, MoneyHasRow, Live
  <2> QED BY <2>5, <2>11, <2>12, <2>13, <2>14, <2>15, <2>16, <2>17, <2>18
<1> QED BY <1>3, <1>4 DEF CreateRow

LEMMA CallGatewayKeeps ==
  ASSUME RefundAssumption, RefundInv, NEW w \in Workers, CallGateway(w)
  PROVE  RefundInv'
<1> USE DEF RefundInv
<1> DEFINE r == task[w].row
<1>1. pc[w] = "gateway" /\ UNCHANGED <<row, trace, paid, due, aborts>>
  BY DEF CallGateway, db
<1>2. /\ r \in RowIds
      /\ Exists(r)
      /\ row[r].status = "INITIALIZED"
      /\ gw[r] = "NONE"
      /\ \A v \in Workers : pc[v] \in Busy /\ task[v].row = r => v = w
  BY <1>1 DEF BusyOnRow, CallerIsAlone, Busy
<1>3. task[w] \in TaskType
  BY DEF TypeOK
<1>4. PICK answer \in {"PENDING", "PAID", "REJECTED", "LOST"} :
        /\ Goto(w, "save", [task[w] EXCEPT !.answer = answer])
        /\ answer = "LOST" => losses' > 0
        /\ answer # "LOST" => gw' = [gw EXCEPT ![r] = answer]
  <2>1. losses \in Nat
    BY DEF TypeOK
  <2>2. CASE \E outcome \in Outcomes(r) :
               /\ gw' = [gw EXCEPT ![r] = outcome]
               /\ Goto(w, "save", [task[w] EXCEPT !.answer = outcome])
    <3>1. Outcomes(r) \subseteq {"PENDING", "PAID", "REJECTED"}
      BY DEF Outcomes
    <3> QED BY <2>2, <3>1
  <2>3. CASE /\ losses' = losses + 1
             /\ Goto(w, "save", [task[w] EXCEPT !.answer = "LOST"])
    BY <2>1, <2>3
  <2> QED BY <2>2, <2>3 DEF CallGateway
<1>5. PICK outcome \in {"NONE", "PENDING", "PAID", "REJECTED"} :
        gw' = [gw EXCEPT ![r] = outcome]
  <2>1. CASE gw' = gw
    BY <1>2, <2>1 DEF TypeOK
  <2>2. CASE gw' # gw
    BY <2>2 DEF CallGateway, Outcomes
  <2> QED BY <2>1, <2>2
<1>6. losses' \in 0 .. MaxLosses /\ (losses' = 0 => losses = 0)
  <2>1. losses \in 0 .. MaxLosses /\ MaxLosses \in Nat
    BY DEF TypeOK, RefundAssumption
  <2>2. losses' = losses \/ (losses < MaxLosses /\ losses' = losses + 1)
    BY DEF CallGateway
  <2> QED BY <2>1, <2>2
<1>7. /\ gw' \in [RowIds -> {"NONE", "PENDING", "PAID", "REJECTED"}]
      /\ gw'[r] = outcome
      /\ \A s \in RowIds : s # r => gw'[s] = gw[s]
  BY <1>2, <1>5 DEF TypeOK
<1> DEFINE t == [task[w] EXCEPT !.answer = answer]
<1>8. t \in TaskType /\ t.answer = answer /\ t.row = r
  BY <1>3 DEF TaskType
<1> HIDE DEF t
<1>9. /\ pc' \in [Workers -> Places]
      /\ task' \in [Workers -> TaskType]
      /\ pc'[w] = "save"
      /\ task'[w] = t
      /\ \A v \in Workers : v # w => pc'[v] = pc[v] /\ task'[v] = task[v]
  BY <1>4, <1>8, TaskStep DEF Places, t
<1>10. TypeOK'
  BY <1>1, <1>6, <1>7, <1>9 DEF TypeOK
<1>11. \A s \in RowIds : Exists(s)' <=> Exists(s)
  BY <1>1 DEF Exists
<1>12. \A s \in RowIds : s # r => (s \in Live' <=> s \in Live)
  BY <1>7 DEF Live
<1>13. RowsTraced' /\ OneRowPerEmi'
  BY <1>1, <1>11 DEF RowsTraced, OneRowPerEmi
<1>14. TracerIsAlone'
  BY <1>1, <1>9, <1>11 DEF TracerIsAlone
<1>15. AskedExist'
  BY <1>2, <1>7, <1>11 DEF AskedExist, Asked
<1>16. BusyOnRow'
  BY <1>2, <1>8, <1>9, <1>11 DEF BusyOnRow, Busy
<1>17. \A v \in Workers : pc[v] \in Busy /\ v # w => task[v].row \in RowIds \ {r}
  BY <1>2 DEF BusyOnRow
<1>18. CallerIsAlone'
  BY <1>1, <1>7, <1>8, <1>9, <1>17 DEF CallerIsAlone, Busy
<1>19. AnswersAreTrue'
  <2> SUFFICES ASSUME NEW v \in Workers, pc'[v] \in {"save", "settle"}
               PROVE
                 /\ task'[v].answer \in {"PAID", "REJECTED"} =>
                      gw'[task'[v].row] = task'[v].answer
                 /\ task'[v].answer = "PENDING" => gw'[task'[v].row] # "NONE"
                 /\ task'[v].answer = "LOST" => pc'[v] = "save" /\ losses' > 0
    BY DEF AnswersAreTrue
  <2>1. CASE v = w
    <3>1. CASE answer = "LOST"
      BY <1>4, <1>8, <1>9, <2>1, <3>1
    <3>2. CASE answer # "LOST"
      <4>1. gw'[r] = answer
        BY <1>2, <1>4, <3>2 DEF TypeOK
      <4> QED BY <1>8, <1>9, <2>1, <3>2, <4>1
    <3> QED BY <3>1, <3>2
  <2>2. CASE v # w
    <3>1. pc[v] \in {"save", "settle"} /\ task'[v] = task[v] /\ pc'[v] = pc[v]
      BY <1>9, <2>2
    <3>2. gw'[task[v].row] = gw[task[v].row]
      BY <1>7, <1>17, <2>2, <3>1 DEF Busy
    <3>3. losses' > 0 \/ ~(losses > 0)
      BY <1>6 DEF TypeOK
    <3> QED BY <3>1, <3>2, <3>3 DEF AnswersAreTrue
  <2> QED BY <2>1, <2>2
<1>20. DeletedIsUnpaid'
  BY <1>6, <1>9, <1>12, <1>17 DEF DeletedIsUnpaid, Busy
<1>21. BooksAreTrue'
  BY <1>1, <1>2, <1>6, <1>7, <1>12 DEF BooksAreTrue
<1>22. MoneyHasRow'
  BY <1>1, <1>2, <1>6, <1>12 DEF MoneyHasRow, Live
<1> QED BY <1>10, <1>13, <1>14, <1>15, <1>16, <1>18, <1>19, <1>20, <1>21, <1>22

(* A row gets the status that a true answer means. *)
LEMMA UpdateStep ==
  ASSUME RefundInv, NEW w \in Workers, pc[w] \in {"save", "settle"},
         NEW where \in {"trace", "ask"}, NEW t \in TaskType, Goto(w, where, t),
         NEW resp \in Resps,
         Update(task[w].row, StatusOf(task[w].answer), resp),
         UNCHANGED <<trace, world>>
  PROVE  RefundInv'
<1> USE DEF RefundInv
<1> DEFINE r == task[w].row
           status == StatusOf(task[w].answer)
<1>1. UNCHANGED <<trace, paid, due, gw, losses, aborts>>
  BY DEF world
<1>2. r \in RowIds /\ Exists(r)
  BY DEF BusyOnRow, Busy
<1>3. task[w].answer \in {"PENDING", "PAID", "REJECTED", "LOST"}
  BY DEF TypeOK, TaskType
<1>4. status \in {"INITIALIZED", "COMPLETED", "FAILED"}
  BY <1>3 DEF StatusOf
<1>5. /\ status = "COMPLETED" => gw[r] = "PAID"
      /\ status = "FAILED" /\ losses = 0 => gw[r] = "REJECTED"
  BY <1>3 DEF StatusOf, AnswersAreTrue
<1> HIDE DEF status
<1>6. /\ row' \in [RowIds -> RowType]
      /\ \A s \in RowIds : s # r => row'[s] = row[s]
      /\ row'[r].emi = row[r].emi
      /\ row'[r].amount = row[r].amount
      /\ row'[r].status \in {row[r].status, status}
      /\ row'[r].status # row[r].status => row[r].status # "DELETED"
      /\ row[r].status = "INITIALIZED" => row'[r].status = status
      /\ row'[r].status # "DELETED" => row'[r].status = status
  <2>1. CASE row[r].status = "DELETED"
    BY <2>1 DEF Update, TypeOK, status
  <2>2. CASE row[r].status # "DELETED"
    <3>1. row' = [row EXCEPT ![r].status = status, ![r].resp = resp]
      BY <2>2 DEF Update, status
    <3>2. row[r] \in RowType
      BY <1>2 DEF TypeOK
    <3>3. row'[r] = [row[r] EXCEPT !.status = status, !.resp = resp]
      BY <1>2, <3>1 DEF TypeOK
    <3>4. row'[r] \in RowType
      BY <1>4, <3>2, <3>3 DEF RowType, Statuses
    <3>5. \A s \in RowIds : s # r => row'[s] = row[s]
      BY <3>1 DEF TypeOK
    <3>6. row' \in [RowIds -> RowType]
      BY <3>1, <3>4, <3>5 DEF TypeOK
    <3>7. row'[r].status = status /\ row'[r].emi = row[r].emi /\ row'[r].amount = row[r].amount
      BY <3>2, <3>3 DEF RowType
    <3> QED BY <2>2, <3>5, <3>6, <3>7
  <2> QED BY <2>1, <2>2
<1>7. where \in Places
  BY DEF Places
<1>8. /\ pc' \in [Workers -> Places]
      /\ task' \in [Workers -> TaskType]
      /\ pc'[w] = where
      /\ \A v \in Workers : v # w => pc'[v] = pc[v] /\ task'[v] = task[v]
  BY <1>7, TaskStep
<1>9. TypeOK'
  BY <1>1, <1>6, <1>8 DEF TypeOK
<1>10. \A s \in RowIds : (Exists(s)' <=> Exists(s)) /\ row'[s].emi = row[s].emi
  BY <1>2, <1>4, <1>6 DEF Exists
<1>11. Asked' = Asked /\ Live' = Live
  BY <1>1 DEF Asked, Live
<1>12. RowsTraced' /\ OneRowPerEmi' /\ AskedExist'
  BY <1>1, <1>10, <1>11 DEF RowsTraced, OneRowPerEmi, AskedExist, Asked
<1>13. \A v \in Workers : pc'[v] \in Busy \union {"row"} =>
                            v # w /\ pc'[v] = pc[v] /\ task'[v] = task[v]
  BY <1>8 DEF Busy
<1>14. TracerIsAlone'
  BY <1>1, <1>10, <1>13 DEF TracerIsAlone
<1>15. BusyOnRow'
  BY <1>10, <1>13 DEF BusyOnRow
<1>16. CallerIsAlone'
  <2> SUFFICES ASSUME NEW v \in Workers, pc'[v] = "gateway"
               PROVE  /\ row'[task'[v].row].status = "INITIALIZED"
                      /\ gw'[task'[v].row] = "NONE"
                      /\ \A u \in Workers :
                           pc'[u] \in Busy /\ task'[u].row = task'[v].row => u = v
    BY DEF CallerIsAlone
  <2>1. v # w /\ pc[v] = "gateway" /\ task'[v] = task[v]
    BY <1>13 DEF Busy
  <2>2. task[v].row \in RowIds /\ task[v].row # r
    BY <2>1 DEF CallerIsAlone, BusyOnRow, Busy
  <2> QED BY <1>1, <1>6, <1>13, <2>1, <2>2 DEF CallerIsAlone
<1>17. AnswersAreTrue'
  BY <1>1, <1>13 DEF AnswersAreTrue, Busy
<1>18. DeletedIsUnpaid'
  BY <1>1, <1>11, <1>13 DEF DeletedIsUnpaid, Busy
<1>19. BooksAreTrue'
  <2> SUFFICES ASSUME NEW s \in RowIds
               PROVE  /\ row'[s].status = "COMPLETED" => gw'[s] = "PAID"
                      /\ row'[s].status = "FAILED" /\ losses' = 0 => s \notin Live'
    BY DEF BooksAreTrue
  <2>1. CASE s # r
    BY <1>1, <1>6, <1>11, <2>1 DEF BooksAreTrue
  <2>2. CASE s = r
    BY <1>1, <1>4, <1>5, <1>6, <1>11, <2>2 DEF Live
  <2> QED BY <2>1, <2>2
<1>20. MoneyHasRow'
  <2> SUFFICES ASSUME losses' = 0, NEW s \in Live'
               PROVE  row'[s].status \in {"INITIALIZED", "COMPLETED"}
    BY DEF MoneyHasRow
  <2>1. s \in RowIds /\ s \in Live /\ row[s].status \in {"INITIALIZED", "COMPLETED"}
    BY <1>1, <1>11 DEF MoneyHasRow, Live
  <2>2. CASE s # r
    BY <1>6, <2>1, <2>2
  <2>3. CASE s = r
    BY <1>1, <1>4, <1>5, <1>6, <2>1, <2>3 DEF Live
  <2> QED BY <2>2, <2>3
<1> QED BY <1>9, <1>12, <1>14, <1>15, <1>16, <1>17, <1>18, <1>19, <1>20

LEMMA SaveAnswerKeeps ==
  ASSUME RefundInv, NEW w \in Workers, SaveAnswer(w)
  PROVE  RefundInv'
<1>1. task[w] \in TaskType /\ task[w].row \in RowIds
  BY DEF SaveAnswer, RefundInv, TypeOK, BusyOnRow, Busy
<1>2. row[task[w].row].resp \in Resps
  BY <1>1 DEF RefundInv, TypeOK, RowType
<1>3. RespOf(task[w].row, task[w].answer) \in Resps
  BY <1>2 DEF RespOf, Resps
<1> QED BY <1>1, <1>3, UpdateStep DEF SaveAnswer

LEMMA PollSettleKeeps ==
  ASSUME RefundInv, NEW w \in Workers, PollSettle(w)
  PROVE  RefundInv'
<1>1. task[w] \in TaskType
  BY DEF RefundInv, TypeOK
<1>2. [task[w] EXCEPT !.todo = @ \ {task[w].row}] \in TaskType
  BY <1>1 DEF TaskType
<1>3. "REFUND" \in Resps
  BY DEF Resps
<1> QED BY <1>2, <1>3, UpdateStep DEF PollSettle

LEMMA CheckFailedKeeps ==
  ASSUME RefundInv, NEW w \in Workers, CheckFailed(w)
  PROVE  RefundInv'
<1> USE DEF RefundInv
<1>1. UNCHANGED <<row, trace, paid, due, gw, losses, aborts>> /\ pc[w] = "idle"
  BY DEF CheckFailed, db, world
<1>2. PICK r \in RowIds : /\ IsFailed(r)
                          /\ Goto(w, "delete", [NoTask EXCEPT !.row = r])
  BY DEF CheckFailed
<1> DEFINE t == [NoTask EXCEPT !.row = r]
<1>3. t \in TaskType /\ t.row = r
  BY NoTaskType DEF TaskType
<1> HIDE DEF t
<1>4. /\ pc' \in [Workers -> Places]
      /\ task' \in [Workers -> TaskType]
      /\ pc'[w] = "delete"
      /\ task'[w] = t
      /\ \A v \in Workers : v # w => pc'[v] = pc[v] /\ task'[v] = task[v]
  BY <1>2, <1>3, TaskStep DEF Places, t
<1>5. TypeOK'
  BY <1>1, <1>4 DEF TypeOK
<1>6. Asked' = Asked /\ Live' = Live /\ \A s : Exists(s)' = Exists(s)
  BY <1>1 DEF Asked, Live, Exists
<1>7. RowsTraced' /\ OneRowPerEmi' /\ AskedExist' /\ BooksAreTrue' /\ MoneyHasRow'
  BY <1>1, <1>6 DEF RowsTraced, OneRowPerEmi, AskedExist, BooksAreTrue, MoneyHasRow
<1>8. row[r].status = "FAILED" /\ Exists(r)
  BY <1>2 DEF IsFailed, Exists
<1>9. losses = 0 => r \notin Live
  BY <1>8 DEF BooksAreTrue
<1>10. TracerIsAlone'
  BY <1>1, <1>4, <1>6 DEF TracerIsAlone
<1>11. BusyOnRow'
  BY <1>3, <1>4, <1>6, <1>8 DEF BusyOnRow
<1>12. CallerIsAlone'
  BY <1>1, <1>3, <1>4, <1>8 DEF CallerIsAlone, Busy
<1>13. AnswersAreTrue'
  BY <1>1, <1>4 DEF AnswersAreTrue
<1>14. DeletedIsUnpaid'
  BY <1>1, <1>3, <1>4, <1>6, <1>9 DEF DeletedIsUnpaid
<1> QED BY <1>5, <1>7, <1>10, <1>11, <1>12, <1>13, <1>14

LEMMA DeleteAndPlaceKeeps ==
  ASSUME RefundInv, NEW w \in Workers, DeleteAndPlace(w)
  PROVE  RefundInv'
<1> USE DEF RefundInv
<1> DEFINE r == task[w].row
<1>1. /\ UNCHANGED <<trace, paid, due, gw, losses, aborts>>
      /\ pc[w] = "delete"
      /\ row' = [row EXCEPT ![r].status = "DELETED"]
      /\ Goto(w, "paid", NoTask)
  BY DEF DeleteAndPlace, world
<1>2. r \in RowIds /\ Exists(r) /\ (losses = 0 => r \notin Live)
  BY <1>1 DEF BusyOnRow, DeletedIsUnpaid, Busy
<1>3. /\ row' \in [RowIds -> RowType]
      /\ \A s \in RowIds : s # r => row'[s] = row[s]
      /\ row'[r].status = "DELETED"
      /\ row'[r].emi = row[r].emi
  <2>1. row[r] \in RowType
    BY <1>2 DEF TypeOK
  <2>2. row'[r] = [row[r] EXCEPT !.status = "DELETED"]
    BY <1>1, <1>2 DEF TypeOK
  <2>3. row'[r] \in RowType /\ row'[r].status = "DELETED" /\ row'[r].emi = row[r].emi
    BY <2>1, <2>2 DEF RowType, Statuses
  <2>4. \A s \in RowIds : s # r => row'[s] = row[s]
    BY <1>1 DEF TypeOK
  <2>5. row' \in [RowIds -> RowType]
    BY <1>1, <2>3, <2>4 DEF TypeOK
  <2> QED BY <2>3, <2>4, <2>5
<1>4. /\ pc' \in [Workers -> Places]
      /\ task' \in [Workers -> TaskType]
      /\ pc'[w] = "paid"
      /\ \A v \in Workers : v # w => pc'[v] = pc[v] /\ task'[v] = task[v]
  BY <1>1, NoTaskType, TaskStep DEF Places
<1>5. TypeOK'
  BY <1>1, <1>3, <1>4 DEF TypeOK
<1>6. \A s \in RowIds : (Exists(s)' <=> Exists(s)) /\ row'[s].emi = row[s].emi
  BY <1>2, <1>3 DEF Exists
<1>7. Asked' = Asked /\ Live' = Live
  BY <1>1 DEF Asked, Live
<1>8. RowsTraced' /\ OneRowPerEmi' /\ AskedExist'
  BY <1>1, <1>6, <1>7 DEF RowsTraced, OneRowPerEmi, AskedExist, Asked
<1>9. \A v \in Workers : pc'[v] \in Busy \union {"row"} =>
                           v # w /\ pc'[v] = pc[v] /\ task'[v] = task[v]
  BY <1>4 DEF Busy
<1>10. TracerIsAlone' /\ BusyOnRow'
  BY <1>1, <1>6, <1>9 DEF TracerIsAlone, BusyOnRow
<1>11. \A v \in Workers : pc[v] = "gateway" => task[v].row \in RowIds /\ task[v].row # r
  BY <1>1 DEF CallerIsAlone, BusyOnRow, Busy
<1>12. CallerIsAlone'
  <2> SUFFICES ASSUME NEW v \in Workers, pc'[v] = "gateway"
               PROVE  /\ row'[task'[v].row].status = "INITIALIZED"
                      /\ gw'[task'[v].row] = "NONE"
                      /\ \A u \in Workers :
                           pc'[u] \in Busy /\ task'[u].row = task'[v].row => u = v
    BY DEF CallerIsAlone
  <2>1. v # w /\ pc[v] = "gateway" /\ task'[v] = task[v]
    BY <1>9 DEF Busy
  <2> QED BY <1>1, <1>3, <1>9, <1>11, <2>1 DEF CallerIsAlone
<1>13. AnswersAreTrue'
  BY <1>1, <1>9 DEF AnswersAreTrue, Busy
<1>14. DeletedIsUnpaid'
  BY <1>1, <1>7, <1>9 DEF DeletedIsUnpaid, Busy
<1>15. BooksAreTrue'
  BY <1>1, <1>3, <1>7 DEF BooksAreTrue
<1>16. MoneyHasRow'
  BY <1>1, <1>2, <1>3, <1>7 DEF MoneyHasRow, Live
<1> QED BY <1>5, <1>8, <1>10, <1>12, <1>13, <1>14, <1>15, <1>16

LEMMA WorldKeeps ==
  ASSUME RefundInv, UNCHANGED <<db, gw, pc, task, losses>>,
         paid' \subseteq Payments, due' \subseteq Emis, aborts' \in 0 .. MaxAborts
  PROVE  RefundInv'
<1> USE DEF RefundInv, db
<1>1. TypeOK'
  BY DEF TypeOK
<1>2. Asked' = Asked /\ Live' = Live /\ \A r : Exists(r)' = Exists(r)
  BY DEF Asked, Live, Exists
<1>3. RowsTraced' /\ OneRowPerEmi' /\ TracerIsAlone' /\ AskedExist' /\ BusyOnRow'
  BY <1>2 DEF RowsTraced, OneRowPerEmi, TracerIsAlone, AskedExist, BusyOnRow
<1>4. /\ CallerIsAlone' /\ AnswersAreTrue' /\ DeletedIsUnpaid' /\ BooksAreTrue'
      /\ MoneyHasRow'
  BY <1>2
  DEF CallerIsAlone, AnswersAreTrue, DeletedIsUnpaid, BooksAreTrue, MoneyHasRow
<1> QED BY <1>1, <1>3, <1>4

LEMMA GatewayKeeps ==
  ASSUME RefundInv, NEW r \in RowIds, NEW state \in {"PAID", "REJECTED"},
         gw[r] = "PENDING", gw' = [gw EXCEPT ![r] = state],
         UNCHANGED <<db, paid, due, pc, task, losses, aborts>>
  PROVE  RefundInv'
<1> USE DEF RefundInv, db
<1>1. /\ gw' \in [RowIds -> {"NONE", "PENDING", "PAID", "REJECTED"}]
      /\ gw'[r] = state
      /\ \A s \in RowIds : s # r => gw'[s] = gw[s]
  BY DEF TypeOK
<1>2. TypeOK'
  BY <1>1 DEF TypeOK
<1>3. Asked' = Asked /\ Live' \subseteq Live /\ \A s : Exists(s)' = Exists(s)
  BY <1>1 DEF Asked, Live, Exists
<1>4. RowsTraced' /\ OneRowPerEmi' /\ TracerIsAlone' /\ AskedExist' /\ BusyOnRow'
  BY <1>3 DEF RowsTraced, OneRowPerEmi, TracerIsAlone, AskedExist, BusyOnRow
<1>5. CallerIsAlone'
  BY <1>1 DEF CallerIsAlone, BusyOnRow, Busy
<1>6. AnswersAreTrue'
  BY <1>1 DEF AnswersAreTrue, BusyOnRow, Busy
<1>7. DeletedIsUnpaid' /\ MoneyHasRow'
  BY <1>3 DEF DeletedIsUnpaid, MoneyHasRow
<1>8. BooksAreTrue'
  BY <1>1, <1>3 DEF BooksAreTrue
<1> QED BY <1>2, <1>4, <1>5, <1>6, <1>7, <1>8

LEMMA AbortKeeps ==
  ASSUME RefundAssumption, RefundInv, NEW w \in Workers, Abort(w)
  PROVE  RefundInv'
<1>1. aborts' \in 0 .. MaxAborts
  BY DEF Abort, RefundInv, TypeOK, RefundAssumption
<1>2. Stop(w) /\ UNCHANGED <<db, gw, losses, paid, due>>
  BY DEF Abort
<1>3. paid' \subseteq Payments /\ due' \subseteq Emis
  BY <1>2 DEF RefundInv, TypeOK
<1> QED BY <1>1, <1>2, <1>3, StopStep

LEMMA OutsideKeeps ==
  ASSUME RefundInv, Outside
  PROVE  RefundInv'
<1>1. ASSUME NEW p \in Payments, BookPayment(p) PROVE RefundInv'
  <2>1. paid' \subseteq Payments /\ due' \subseteq Emis /\ aborts' \in 0 .. MaxAborts
    BY <1>1 DEF BookPayment, RefundInv, TypeOK
  <2> QED BY <1>1, <2>1, WorldKeeps DEF BookPayment
<1>2. ASSUME NEW e \in Emis, FallsDue(e) PROVE RefundInv'
  <2>1. paid' \subseteq Payments /\ due' \subseteq Emis /\ aborts' \in 0 .. MaxAborts
    BY <1>2 DEF FallsDue, RefundInv, TypeOK
  <2> QED BY <1>2, <2>1, WorldKeeps DEF FallsDue
<1>3. ASSUME NEW r \in RowIds, GatewayPays(r) \/ GatewayRejects(r) PROVE RefundInv'
  BY <1>3, GatewayKeeps DEF GatewayPays, GatewayRejects
<1> QED BY <1>1, <1>2, <1>3 DEF Outside

LEMMA RefundInductive ==
  ASSUME RefundAssumption, RefundInv, [Next]_vars
  PROVE  RefundInv'
<1>1. ASSUME NEW w \in Workers, Enter(w) PROVE RefundInv'
  BY <1>1, EnterKeeps, CheckFailedKeeps DEF Enter
<1>2. ASSUME NEW w \in Workers, Advance(w) PROVE RefundInv'
  BY <1>2, ReadPaidKeeps, ReadNamedKeeps, ReadEmisKeeps, ReadRowsKeeps,
     ReadTransactionsKeeps, CreateTraceKeeps, CreateRowKeeps,
     CallGatewayKeeps, SaveAnswerKeeps, PollAskKeeps, PollSettleKeeps,
     DeleteAndPlaceKeeps
  DEF Advance
<1>3. ASSUME NEW w \in Workers, Abort(w) PROVE RefundInv'
  BY <1>3, AbortKeeps
<1>4. CASE Outside
  BY <1>4, OutsideKeeps
<1>5. CASE UNCHANGED vars
  <2>1. paid' \subseteq Payments /\ due' \subseteq Emis /\ aborts' \in 0 .. MaxAborts
    BY <1>5 DEF vars, RefundInv, TypeOK
  <2> QED BY <1>5, <2>1, WorldKeeps DEF vars, db
<1> QED BY <1>1, <1>2, <1>3, <1>4, <1>5 DEF Next

-----------------------------------------------------------------------------
(* The invariant holds of every behaviour, whatever handlers do. *)
THEOREM RefundInvariance == Spec => []RefundInv
<1>1. Init => RefundInv
  BY InitRefundInv, RefundAssumption
<1>2. RefundInv /\ [Next]_vars => RefundInv'
  BY RefundInductive, RefundAssumption
<1> QED BY <1>1, <1>2, PTL DEF Spec

(* Every variable keeps its type: no negative refund, no unknown answer. *)
THEOREM RefundTypeCorrect == Spec => []TypeOK
<1>1. RefundInv => TypeOK
  BY DEF RefundInv
<1> QED BY <1>1, RefundInvariance, PTL

(* A gateway is asked at most once per instalment: not twice by handlers   *)
(* that overlap, by a retry, by re-initialisation, or for a second part.   *)
LEMMA OneAskedPerEmi == ASSUME RefundInv PROVE OneRefundPerEmi
  BY DEF RefundInv, OneRefundPerEmi, OneRowPerEmi, AskedExist, Asked
THEOREM RefundedOncePerEmi == Spec => []OneRefundPerEmi
<1>1. RefundInv => OneRefundPerEmi
  BY OneAskedPerEmi
<1> QED BY <1>1, RefundInvariance, PTL

(* What the rows say of the gateways is true. *)
THEOREM RefundBooksTrue == Spec => []BooksAreTrue
<1>1. RefundInv => BooksAreTrue
  BY DEF RefundInv
<1> QED BY <1>1, RefundInvariance, PTL

(* Re-initialisation never deletes the row of money that is on its way. *)
THEOREM RefundMoneyHasRow == Spec => []MoneyHasRow
<1>1. RefundInv => MoneyHasRow
  BY DEF RefundInv
<1> QED BY <1>1, RefundInvariance, PTL

-----------------------------------------------------------------------------
(* Seen from the gateways, the handlers implement RefundOnce. *)

(* A step at one instalment of the abstract refund. *)
LEMMA RefundMoves ==
  ASSUME RefundAssumption, RefundInv, RefundInv', NEW r \in RowIds,
         NEW state \in {"PENDING", "PAID", "REJECTED"},
         gw[r] \in {"NONE", "PENDING"},
         gw[r] = "PENDING" => state \in {"PAID", "REJECTED"},
         row[r].emi \in Emis, UNCHANGED row, gw' = [gw EXCEPT ![r] = state]
  PROVE  Abstract!Next
<1> USE DEF RefundInv
<1> DEFINE e == row[r].emi
           refund == [f \in Emis |-> RefundOf(f)]
<1>1. /\ gw'[r] = state
      /\ \A s \in RowIds : s # r => gw'[s] = gw[s]
  BY DEF TypeOK
<1>2. r \in Asked' /\ row'[r].emi = e /\ OneRefundPerEmi /\ OneRefundPerEmi'
  BY <1>1, OneAskedPerEmi DEF Asked, OneRefundPerEmi, OneRowPerEmi, AskedExist
<1>3. {s \in Asked' : row'[s].emi = e} = {r}
  BY <1>2 DEF OneRefundPerEmi, Asked
<1>4. RefundOf(e)' = [state |-> state, amount |-> row[r].amount]
  BY <1>1, <1>3 DEF RefundOf
<1>5. \A f \in Emis : f # e => RefundOf(f)' = RefundOf(f)
  <2> SUFFICES ASSUME NEW f \in Emis, f # e PROVE RefundOf(f)' = RefundOf(f)
    OBVIOUS
  <2>1. {s \in Asked' : row'[s].emi = f} = {s \in Asked : row[s].emi = f}
    BY <1>1 DEF Asked
  <2>2. \A s \in {s \in Asked : row[s].emi = f} : s # r /\ gw'[s] = gw[s]
    BY <1>1 DEF Asked
  <2> DEFINE S == {s \in Asked : row[s].emi = f}
  <2>3. CASE S = {}
    BY <2>1, <2>3 DEF RefundOf
  <2>4. CASE S # {}
    <3>1. (CHOOSE s \in S : TRUE) \in S
      BY <2>4
    <3> QED BY <2>1, <2>2, <2>4, <3>1 DEF RefundOf
  <2> QED BY <2>3, <2>4
<1>6. refund[e] = RefundOf(e) /\ refund'[e] = RefundOf(e)'
  OBVIOUS
<1>7. refund' = [refund EXCEPT ![e] = RefundOf(e)']
  BY <1>5
<1>8. row[r].amount \in Nat
  BY DEF TypeOK, RowType
<1>9. CASE gw[r] = "NONE"
  <2>1. {s \in Asked : row[s].emi = e} = {}
    <3> SUFFICES ASSUME NEW s \in Asked, row[s].emi = e PROVE FALSE
      OBVIOUS
    <3>1. s # r /\ s \in Asked'
      BY <1>1, <1>9 DEF Asked
    <3> QED BY <1>3, <3>1
  <2>2. RefundOf(e) = [state |-> "NONE", amount |-> 0]
    BY <2>1 DEF RefundOf
  <2>3. refund[e] = [state |-> "NONE", amount |-> 0]
    BY <1>6, <2>2
  <2>4. refund'[e] = [state |-> state, amount |-> row[r].amount]
    BY <1>4, <1>6
  <2>5. refund'[e].amount \in Nat
    BY <1>8, <2>4
  <2>6. refund' = [refund EXCEPT ![e] = [state |-> state,
                                         amount |-> refund'[e].amount]]
    BY <1>6, <1>7, <2>4
  <2>7. \E st \in {"PENDING", "PAID", "REJECTED"} :
          refund' = [refund EXCEPT ![e] = [state |-> st,
                                           amount |-> refund'[e].amount]]
    BY <2>6
  <2>8. Abstract!Send(e)
    BY ONLY <2>3, <2>5, <2>7 DEF Abstract!Send, Abstract!None
  <2> QED BY <2>8 DEF Abstract!Next
<1>10. CASE gw[r] = "PENDING"
  <2>1. {s \in Asked : row[s].emi = e} = {r}
    BY <1>2, <1>10 DEF OneRefundPerEmi, Asked
  <2>2. RefundOf(e) = [state |-> "PENDING", amount |-> row[r].amount]
    BY <1>10, <2>1 DEF RefundOf
  <2>3. [RefundOf(e) EXCEPT !.state = state] = RefundOf(e)'
    BY <1>4, <2>2
  <2>4. refund' = [refund EXCEPT ![e].state = state]
    BY <1>6, <1>7, <2>3
  <2>5. refund[e].state = "PENDING"
    BY <1>6, <2>2
  <2>6. \E st \in {"PAID", "REJECTED"} : refund' = [refund EXCEPT ![e].state = st]
    BY <1>10, <2>4
  <2>7. Abstract!Decide(e)
    BY ONLY <2>5, <2>6 DEF Abstract!Decide
  <2> QED BY <2>7 DEF Abstract!Next
<1> QED BY <1>9, <1>10

(* What no gateway hears of is a stutter. *)
LEMMA RefundStutters ==
  ASSUME RefundInv, UNCHANGED gw,
         \A r \in Asked : row'[r].emi = row[r].emi /\ row'[r].amount = row[r].amount
  PROVE  UNCHANGED [e \in Emis |-> RefundOf(e)]
<1> SUFFICES ASSUME NEW e \in Emis PROVE RefundOf(e)' = RefundOf(e)
  OBVIOUS
<1>1. Asked' = Asked
  BY DEF Asked
<1> DEFINE S == {r \in Asked : row[r].emi = e}
<1>2. {r \in Asked' : row'[r].emi = e} = S
  BY <1>1
<1>3. CASE S = {}
  BY <1>2, <1>3 DEF RefundOf
<1>4. CASE S # {}
  <2>1. (CHOOSE r \in S : TRUE) \in Asked
    BY <1>4
  <2> QED BY <1>2, <1>4, <2>1 DEF RefundOf
<1> QED BY <1>3, <1>4

(* A step that asks a gateway, or in which it decides. *)
LEMMA GatewayStep ==
  ASSUME RefundAssumption, RefundInv, RefundInv', NEW r \in RowIds,
         NEW state \in {"NONE", "PENDING", "PAID", "REJECTED"},
         gw[r] = "NONE" \/ (gw[r] = "PENDING" /\ state \in {"PAID", "REJECTED"}),
         UNCHANGED row, gw' = [gw EXCEPT ![r] = state]
  PROVE  [Abstract!Next]_([e \in Emis |-> RefundOf(e)])
<1> DEFINE refund == [e \in Emis |-> RefundOf(e)]
<1>1. CASE state = "NONE"
  <2>1. UNCHANGED gw
    BY <1>1 DEF RefundInv, TypeOK
  <2> QED BY <2>1, RefundStutters
<1>2. CASE state # "NONE" /\ row[r].emi \in Emis
  BY <1>2, RefundMoves
<1>3. CASE row[r].emi \notin Emis
  <2> SUFFICES ASSUME NEW e \in Emis PROVE RefundOf(e)' = RefundOf(e)
    OBVIOUS
  <2> DEFINE S == {s \in Asked : row[s].emi = e}
  <2>1. \A s \in RowIds : s # r => gw'[s] = gw[s]
    BY DEF RefundInv, TypeOK
  <2>2. {s \in Asked' : row'[s].emi = e} = S
    BY <1>3, <2>1 DEF Asked
  <2>3. CASE S = {}
    BY <2>2, <2>3 DEF RefundOf
  <2>4. CASE S # {}
    <3>1. (CHOOSE s \in S : TRUE) \in S
      BY <2>4
    <3>2. \A s \in S : s # r /\ gw'[s] = gw[s]
      BY <1>3, <2>1 DEF Asked
    <3> QED BY <2>2, <2>4, <3>1, <3>2 DEF RefundOf
  <2> QED BY <2>3, <2>4
<1> QED BY <1>1, <1>2, <1>3

LEMMA RefundSimulates ==
  ASSUME RefundAssumption, RefundInv, RefundInv', [Next]_vars
  PROVE  [Abstract!Next]_([e \in Emis |-> RefundOf(e)])
<1>1. ASSUME NEW w \in Workers, CallGateway(w)
      PROVE  [Abstract!Next]_([e \in Emis |-> RefundOf(e)])
  <2>1. pc[w] = "gateway" /\ UNCHANGED row
    BY <1>1 DEF CallGateway, db
  <2>2. task[w].row \in RowIds /\ gw[task[w].row] = "NONE"
    BY <2>1 DEF RefundInv, BusyOnRow, CallerIsAlone, Busy
  <2>3. CASE UNCHANGED gw
    BY <2>1, <2>3, RefundStutters
  <2>4. CASE ~UNCHANGED gw
    <3>1. PICK outcome \in Outcomes(task[w].row) :
            gw' = [gw EXCEPT ![task[w].row] = outcome]
      BY <1>1, <2>4 DEF CallGateway
    <3>2. outcome \in {"PENDING", "PAID", "REJECTED"}
      BY <3>1 DEF Outcomes
    <3> QED BY <2>1, <2>2, <3>1, <3>2, GatewayStep
  <2> QED BY <2>3, <2>4
<1>2. ASSUME NEW r \in RowIds, GatewayPays(r) \/ GatewayRejects(r)
      PROVE  [Abstract!Next]_([e \in Emis |-> RefundOf(e)])
  <2>1. gw[r] = "PENDING" /\ UNCHANGED row
    BY <1>2 DEF GatewayPays, GatewayRejects, db
  <2>2. PICK state \in {"PAID", "REJECTED"} : gw' = [gw EXCEPT ![r] = state]
    BY <1>2 DEF GatewayPays, GatewayRejects
  <2> QED BY <2>1, <2>2, GatewayStep
<1>3. ASSUME NEW w \in Workers, CreateRow(w)
      PROVE  [Abstract!Next]_([e \in Emis |-> RefundOf(e)])
  <2>1. UNCHANGED gw
    BY <1>3 DEF CreateRow, world
  <2>2. \A s \in Asked : row'[s] = row[s]
    BY <1>3 DEF CreateRow, RefundInv, AskedExist, Exists, Asked, TypeOK
  <2> QED BY <2>1, <2>2, RefundStutters
<1>4. ASSUME NEW r \in RowIds, NEW status, NEW resp, Update(r, status, resp),
             UNCHANGED gw
      PROVE  [Abstract!Next]_([e \in Emis |-> RefundOf(e)])
  <2>1. \A s \in RowIds : row'[s].emi = row[s].emi /\ row'[s].amount = row[s].amount
    BY <1>4 DEF Update, RefundInv, TypeOK, RowType
  <2> QED BY <1>4, <2>1, RefundStutters DEF Asked
<1>5. ASSUME NEW w \in Workers, SaveAnswer(w) \/ PollSettle(w)
      PROVE  [Abstract!Next]_([e \in Emis |-> RefundOf(e)])
  <2>1. task[w].row \in RowIds
    BY <1>5 DEF SaveAnswer, PollSettle, RefundInv, BusyOnRow, Busy
  <2> QED BY <1>4, <1>5, <2>1 DEF SaveAnswer, PollSettle, world
<1>6. ASSUME NEW w \in Workers, DeleteAndPlace(w)
      PROVE  [Abstract!Next]_([e \in Emis |-> RefundOf(e)])
  <2>1. UNCHANGED gw
    BY <1>6 DEF DeleteAndPlace, world
  <2>2. \A s \in RowIds : row'[s].emi = row[s].emi /\ row'[s].amount = row[s].amount
    BY <1>6 DEF DeleteAndPlace, RefundInv, TypeOK, RowType
  <2> QED BY <2>1, <2>2, RefundStutters DEF Asked
<1>7. CASE UNCHANGED <<row, gw>>
  BY <1>7, RefundStutters
<1>8. ASSUME NEW w \in Workers, Enter(w) \/ Abort(w)
      PROVE  UNCHANGED <<row, gw>>
  BY <1>8 DEF Enter, Abort, Place, Automate, PollRead, CheckFailed, db, world
<1>9. ASSUME NEW w \in Workers,
             \/ ReadPaid(w) \/ ReadNamed(w) \/ ReadEmis(w) \/ ReadRows(w)
             \/ ReadTransactions(w) \/ CreateTrace(w) \/ PollAsk(w)
      PROVE  UNCHANGED <<row, gw>>
  BY <1>9 DEF ReadPaid, ReadNamed, ReadEmis, ReadRows, ReadTransactions, CreateTrace,
              PollAsk, db, world
<1>10. ASSUME NEW p \in Payments, BookPayment(p) PROVE UNCHANGED <<row, gw>>
  BY <1>10 DEF BookPayment, db
<1>11. ASSUME NEW e \in Emis, FallsDue(e) PROVE UNCHANGED <<row, gw>>
  BY <1>11 DEF FallsDue, db
<1>12. UNCHANGED vars => UNCHANGED <<row, gw>>
  BY DEF vars
<1> QED
  BY <1>1, <1>2, <1>3, <1>5, <1>6, <1>7, <1>8, <1>9, <1>10, <1>11, <1>12
  DEF Next, Advance, Outside

(* Whatever the handlers do, an instalment's refund is sent once, for one  *)
(* amount, and decided once.                                               *)
THEOREM RefundRefinement == Spec => ImplementsRefundOnce
<1>1. Init => Abstract!Init
  <2> SUFFICES ASSUME Init PROVE Abstract!Init
    OBVIOUS
  <2>1. Asked = {}
    BY DEF Init, Asked
  <2>2. \A e \in Emis : RefundOf(e) = [state |-> "NONE", amount |-> 0]
    BY <2>1 DEF RefundOf
  <2> QED BY <2>2 DEF Abstract!Init, Abstract!None
<1>2. RefundInv /\ RefundInv' /\ [Next]_vars
        => [Abstract!Next]_([e \in Emis |-> RefundOf(e)])
  BY RefundSimulates, RefundAssumption
<1> QED BY <1>1, <1>2, RefundInvariance, PTL DEF Spec, ImplementsRefundOnce, Abstract!Spec

-----------------------------------------------------------------------------
(* The greedy split: sums of its beginnings.                               *)

LEMMA BeforeSum ==
  ASSUME NEW L \in Nat, NEW f \in [1 .. L -> Nat], NEW i \in 1 .. (L + 1)
  PROVE  Before(f, i) = SumFunctionOnSet(f, 1 .. (i - 1)) /\ Before(f, i) \in Nat
<1> DEFINE S == 1 .. (i - 1)
           g == [j \in S |-> f[j]]
<1>0. IsFiniteSet(S) /\ \A j \in S : f[j] \in Nat
  <2>1. IsFiniteSet(S)
    BY FS_Interval
  <2>2. \A j \in S : f[j] \in Nat
    OBVIOUS
  <2> QED BY <2>1, <2>2
<1>1. \A j \in S : g[j] = f[j]
  OBVIOUS
<1>2. Before(f, i) = SumFunctionOnSet(g, S)
  BY DEF Before, Total
<1> HIDE DEF S, g
<1>3. SumFunctionOnSet(g, S) = SumFunctionOnSet(f, S)
  BY ONLY <1>0, <1>1, SumSame
<1>4. SumFunctionOnSet(f, S) \in Nat
  BY ONLY <1>0, SumOfNaturals
<1> QED BY <1>2, <1>3, <1>4 DEF S

LEMMA BeforeNext ==
  ASSUME NEW L \in Nat, NEW f \in [1 .. L -> Nat], NEW i \in 1 .. L
  PROVE  Before(f, i + 1) = Before(f, i) + f[i]
<1> DEFINE S == 1 .. i
<1>1. i + 1 \in 1 .. (L + 1) /\ i \in 1 .. (L + 1) /\ (i + 1) - 1 = i
  OBVIOUS
<1>2. S \ {i} = 1 .. (i - 1)
  OBVIOUS
<1>3. IsFiniteSet(S)
  BY FS_Interval
<1>4. \A j \in S : f[j] \in Int
  OBVIOUS
<1>5. i \in S
  OBVIOUS
<1>6. Before(f, i + 1) = SumFunctionOnSet(f, S)
  BY <1>1, BeforeSum
<1>7. Before(f, i) = SumFunctionOnSet(f, S \ {i})
  BY <1>1, <1>2, BeforeSum
<1>8. PICK k : k = i
  OBVIOUS
<1> HIDE DEF S
<1>9. k \in S
  BY <1>5, <1>8
<1>10. SumFunctionOnSet(f, S) = f[k] + SumFunctionOnSet(f, S \ {k})
  BY ONLY <1>3, <1>4, <1>9, SumAnyFirst
<1>11. Before(f, i) \in Nat /\ f[i] \in Nat
  BY <1>1, BeforeSum
<1>12. SumFunctionOnSet(f, S) = f[i] + SumFunctionOnSet(f, S \ {i})
  BY ONLY <1>8, <1>10
<1>13. Before(f, i + 1) = f[i] + Before(f, i)
  BY ONLY <1>6, <1>7, <1>12
<1> QED BY ONLY <1>11, <1>13

LEMMA BeforeGrows ==
  ASSUME NEW L \in Nat, NEW f \in [1 .. L -> Nat], NEW i \in 1 .. (L + 1),
         NEW j \in 1 .. (L + 1), i <= j
  PROVE  Before(f, i) <= Before(f, j)
<1> DEFINE S == 1 .. (j - 1)
           T == 1 .. (i - 1)
<1>1. T \in SUBSET S
  OBVIOUS
<1>2. IsFiniteSet(S)
  BY FS_Interval
<1>3. \A k \in S : f[k] \in Nat
  OBVIOUS
<1>4. Before(f, i) = SumFunctionOnSet(f, T) /\ Before(f, j) = SumFunctionOnSet(f, S)
  BY BeforeSum
<1> HIDE DEF S, T
<1>5. SumFunctionOnSet(f, T) <= SumFunctionOnSet(f, S)
  BY ONLY <1>1, <1>2, <1>3, SumOfNaturals
<1> QED BY <1>4, <1>5

(* What is taken: no more than the payment holds, than is still needed.    *)
LEMMA GreedyTakes ==
  ASSUME RefundAssumption, NEW L \in Nat, NEW s \in [1 .. L -> Payments], NEW n \in Nat,
         NEW f \in Greedy(s, n)
  PROVE  /\ f \in [1 .. L -> Nat]
         /\ \A i \in 1 .. L :
              /\ f[i] <= PayAmount[s[i]]
              /\ Before(f, i) <= n => f[i] <= n - Before(f, i)
              /\ Before(f, i) <= n /\ n <= PayAmount[s[i]] => f[i] = n - Before(f, i)
              /\ Before(f, i) = n => f[i] = 0
<1>1. DOMAIN s = 1 .. L
  OBVIOUS
<1>2. f \in [1 .. L -> 0 .. n]
  BY <1>1 DEF Greedy
<1>3. f \in [1 .. L -> Nat]
  BY <1>2
<1>4. ASSUME NEW i \in 1 .. L
      PROVE  /\ f[i] <= PayAmount[s[i]]
             /\ Before(f, i) <= n => f[i] <= n - Before(f, i)
             /\ Before(f, i) <= n /\ n <= PayAmount[s[i]] => f[i] = n - Before(f, i)
             /\ Before(f, i) = n => f[i] = 0
  <2>1. PICK b, a : b = Before(f, i) /\ a = PayAmount[s[i]]
    OBVIOUS
  <2>2. b \in Nat
    <3>1. i \in 1 .. (L + 1)
      OBVIOUS
    <3> QED BY <1>3, <2>1, <3>1, BeforeSum
  <2>3. a \in Nat /\ a > 0
    <3>1. s[i] \in Payments
      OBVIOUS
    <3>2. PayAmount[s[i]] \in Nat \ {0}
      BY <3>1 DEF RefundAssumption
    <3> QED BY <2>1, <3>2
  <2>4. f[i] = Positive(IF a < n - b THEN a ELSE n - b)
    BY <1>1, <2>1 DEF Greedy
  <2>5. f[i] = IF a < n - b THEN a ELSE IF n - b \in Nat THEN n - b ELSE 0
    BY <2>2, <2>3, <2>4 DEF Positive
  <2>6. n - b \in Nat <=> b <= n
    BY <2>2
  <2>7. /\ f[i] <= a
        /\ b <= n => f[i] <= n - b
        /\ b <= n /\ n <= a => f[i] = n - b
        /\ b = n => f[i] = 0
    BY <2>2, <2>3, <2>5, <2>6
  <2> QED BY <2>1, <2>7
<1> QED BY <1>3, <1>4

LEMMA GreedyWithin ==
  ASSUME RefundAssumption, NEW L \in Nat, NEW s \in [1 .. L -> Payments], NEW n \in Nat,
         NEW f \in Greedy(s, n), NEW i \in 1 .. (L + 1)
  PROVE  Before(f, i) <= n
<1> DEFINE D == 1 .. L
           G == {m \in SUBSET D : \A k \in 1 .. (L + 1) : m = 1 .. (k - 1) => Before(f, k) <= n}
<1>0. f \in [1 .. L -> Nat]
  BY GreedyTakes
<1>1. ASSUME NEW m \in SUBSET D, \A t \in SUBSET m : t # m => t \in G PROVE m \in G
  <2> SUFFICES ASSUME NEW k \in 1 .. (L + 1), m = 1 .. (k - 1) PROVE Before(f, k) <= n
    OBVIOUS
  <2>1. CASE k = 1
    <3>1. 1 .. (k - 1) = {}
      BY <2>1
    <3>2. Before(f, k) = SumFunctionOnSet(f, 1 .. (k - 1))
      BY <1>0, BeforeSum
    <3>3. Before(f, k) = 0
      BY <3>1, <3>2, SumEmpty
    <3> QED BY <3>3
  <2>2. CASE k # 1
    <3>1. PICK j \in 1 .. L : k = j + 1
      <4>1. k - 1 \in 1 .. L /\ k = (k - 1) + 1
        BY <2>2
      <4> QED BY <4>1
    <3>2. 1 .. (j - 1) \in SUBSET m /\ 1 .. (j - 1) # m /\ j \in 1 .. (L + 1)
      <4>1. m = 1 .. j
        BY <3>1
      <4>2. j \in m /\ j \notin 1 .. (j - 1)
        BY <4>1
      <4> QED BY <4>1, <4>2
    <3>3. Before(f, j) <= n
      <4>1. 1 .. (j - 1) \in G
        BY <1>1, <3>2
      <4> QED BY <3>2, <4>1
    <3>4. f[j] <= n - Before(f, j)
      BY <3>3, GreedyTakes
    <3>5. Before(f, k) = Before(f, j) + f[j]
      BY <1>0, <3>1, BeforeNext
    <3>6. Before(f, j) \in Nat /\ f[j] \in Nat
      BY <1>0, <3>2, BeforeSum
    <3> QED BY ONLY <3>3, <3>4, <3>5, <3>6, n \in Nat
  <2> QED BY <2>1, <2>2
<1>2. IsFiniteSet(D)
  BY FS_Interval
<1>3. 1 .. (i - 1) \in SUBSET D
  OBVIOUS
<1>4. \A m \in SUBSET D : m \in G
  <2> HIDE DEF G, D
  <2> QED BY <1>1, <1>2, SubsetInduction
<1>5. 1 .. (i - 1) \in G
  BY <1>3, <1>4
<1> QED BY <1>5

(* What the rows of a preferred order are: every usable payment, once.     *)
LEMMA PreferredOrder ==
  ASSUME RefundAssumption, TypeOK, NEW e, NEW n, NEW s \in Preferred(e, n)
  PROVE  \E L \in Nat :
           /\ s \in [1 .. L -> Usable] /\ s \in [1 .. L -> Payments] /\ Len(s) = L
           /\ \A i, j \in 1 .. L : s[i] = s[j] => i = j
           /\ \A p \in Usable : \E i \in 1 .. L : s[i] = p
           /\ \A i, j \in 1 .. L : i < j => Rank(s[i], e, n) <= Rank(s[j], e, n)
<1> DEFINE L == Cardinality(Usable)
<1>1. IsFiniteSet(Usable)
  BY FS_Subset DEF Usable, TypeOK, RefundAssumption
<1>2. L \in Nat
  BY <1>1, FS_CardinalityType
<1>3. /\ s \in [1 .. L -> Usable]
      /\ \A i, j \in 1 .. L : i # j => s[i] # s[j]
  BY DEF Preferred, SetToSeqs
<1>4. Usable \subseteq Payments
  BY DEF Usable, TypeOK
<1>5. DOMAIN s = 1 .. L
  BY <1>3
<1>6. \A i, j \in DOMAIN s : i < j => Rank(s[i], e, n) <= Rank(s[j], e, n)
  BY DEF Preferred
<1>7. ASSUME NEW p \in Usable PROVE \E i \in 1 .. L : s[i] = p
  <2>1. s \in Injection(1 .. L, Usable)
    BY <1>3, <1>5 DEF Injection, IsInjective
  <2>2. IsFiniteSet(1 .. L) /\ Cardinality(1 .. L) = L
    BY <1>2, FS_Interval
  <2>3. s \in Surjection(1 .. L, Usable)
    <3>1. PICK D : D = 1 .. L
      OBVIOUS
    <3>2. s \in Injection(D, Usable) /\ Cardinality(D) = Cardinality(Usable)
      BY <2>1, <2>2, <3>1
    <3>3. s \in Surjection(D, Usable)
      BY ONLY <1>1, <3>2, FS_Injection
    <3> QED BY <3>1, <3>3
  <2> QED BY <2>3 DEF Surjection
<1>8. s \in [1 .. L -> Payments]
  BY <1>3, <1>4
<1>9. Len(s) = L
  BY <1>2, <1>8
<1> QED BY <1>2, <1>3, <1>5, <1>6, <1>7, <1>8, <1>9

LEMMA Ranks ==
  ASSUME NEW p, NEW q, NEW e, NEW n,
         PaySource[p] = "ICICI_UPI", PaySource[q] = "RAZORPAY", PayAmount[q] >= n
  PROVE  /\ Rank(q, e, n) = 1
         /\ Rank(p, e, n) \in 2 .. 8
<1>1. Rank(q, e, n) = 1
  BY DEF Rank
<1>2. Rank(p, e, n) \in 2 .. 8
  BY DEF Rank
<1> QED BY <1>1, <1>2

(* An ICICI payment is passed over when another one covers the refund.     *)
LEMMA IciciLast ==
  ASSUME RefundAssumption, TypeOK, NEW e, NEW n \in Nat, NEW s \in Preferred(e, n),
         NEW f \in Greedy(s, n), NEW i \in DOMAIN s, PaySource[s[i]] = "ICICI_UPI",
         NEW q \in paid, PaySource[q] = "RAZORPAY", PayAmount[q] >= n
  PROVE  f[i] = 0
<1>1. PICK L \in Nat :
        /\ s \in [1 .. L -> Usable] /\ s \in [1 .. L -> Payments] /\ Len(s) = L
        /\ \A k, j \in 1 .. L : s[k] = s[j] => k = j
        /\ \A p \in Usable : \E k \in 1 .. L : s[k] = p
        /\ \A k, j \in 1 .. L : k < j => Rank(s[k], e, n) <= Rank(s[j], e, n)
  BY PreferredOrder
<1>2. i \in 1 .. L
  BY <1>1
<1>3. PICK j \in 1 .. L : s[j] = q
  BY <1>1 DEF Usable
<1>4. Rank(s[j], e, n) = 1 /\ Rank(s[i], e, n) \in 2 .. 8
  BY <1>3, Ranks
<1>5. i # j
  BY <1>3
<1>6. ~ (i < j)
  <2>1. ~ (Rank(s[i], e, n) <= Rank(s[j], e, n))
    BY <1>4
  <2> QED BY <1>1, <1>2, <2>1
<1>7. j + 1 <= i
  BY <1>2, <1>5, <1>6
<1>8. f \in [1 .. L -> Nat] /\ (Before(f, j) <= n => f[j] = n - Before(f, j))
  <2>1. n <= PayAmount[s[j]]
    <3>1. PayAmount[q] \in Nat
      BY DEF TypeOK, RefundAssumption
    <3> QED BY <1>3, <3>1
  <2>2. /\ f \in [1 .. L -> Nat]
        /\ Before(f, j) <= n /\ n <= PayAmount[s[j]] => f[j] = n - Before(f, j)
    <3>1. s \in [1 .. L -> Payments]
      BY <1>1
    <3>2. /\ f \in [1 .. L -> Nat]
          /\ \A k \in 1 .. L : Before(f, k) <= n /\ n <= PayAmount[s[k]] =>
                                 f[k] = n - Before(f, k)
      BY <3>1, GreedyTakes
    <3> QED BY <3>2
  <2> QED BY <2>1, <2>2
<1>9. Before(f, j + 1) = n
  <2>1. j \in 1 .. (L + 1)
    OBVIOUS
  <2>2. Before(f, j) <= n /\ Before(f, j) \in Nat
    BY <1>1, <1>8, <2>1, GreedyWithin, BeforeSum
  <2>3. Before(f, j + 1) = Before(f, j) + f[j]
    BY <1>8, BeforeNext
  <2> QED BY <1>8, <2>2, <2>3
<1>10. Before(f, i) = n
  <2>1. i \in 1 .. (L + 1) /\ j + 1 \in 1 .. (L + 1)
    BY <1>2
  <2>2. n <= Before(f, i)
    BY <1>7, <1>8, <1>9, <2>1, BeforeGrows
  <2>3. Before(f, i) <= n /\ Before(f, i) \in Nat
    BY <1>1, <1>8, <2>1, GreedyWithin, BeforeSum
  <2> QED BY <2>2, <2>3
<1> QED BY <1>1, <1>2, <1>10, GreedyTakes

(* The parts of an allocation, by payment, and the bank at the end.        *)
Handed(parts, s, f, L, n) ==
  /\ s \in [1 .. L -> Payments] /\ f \in [1 .. L -> Nat]
  /\ \A i, j \in 1 .. L : s[i] = s[j] => i = j
  /\ DOMAIN parts = 1 .. (L + 1)
  /\ \A i \in 1 .. L : /\ parts[i].tran = s[i] /\ parts[i].amount = f[i]
                       /\ f[i] <= PayAmount[s[i]] /\ f[i] <= n
  /\ parts[L + 1].tran = NoTran
  /\ parts[L + 1].amount = n - Before(f, L + 1)
  /\ Before(f, L + 1) \in 0 .. n

LEMMA AllocationParts ==
  ASSUME RefundAssumption, TypeOK, NEW e, NEW n \in Nat, NEW parts \in Allocations(e, n)
  PROVE  \E L \in Nat, s \in Preferred(e, n) : \E f \in Greedy(s, n) :
           Handed(parts, s, f, L, n)
<1>0. PICK s \in Preferred(e, n) : \E f \in Greedy(s, n) : parts = Split(s, f, n)
  BY DEF Allocations
<1>1. PICK f \in Greedy(s, n) : parts = Split(s, f, n)
  BY <1>0
<1>2. PICK L \in Nat :
        /\ s \in [1 .. L -> Payments] /\ Len(s) = L
        /\ \A k, j \in 1 .. L : s[k] = s[j] => k = j
  BY PreferredOrder
<1>3. f \in [1 .. L -> Nat] /\ \A i \in 1 .. L : f[i] <= PayAmount[s[i]]
  BY <1>2, GreedyTakes
<1>4. f \in [1 .. L -> 0 .. n] /\ DOMAIN s = 1 .. L
  BY <1>2 DEF Greedy
<1>5. Before(f, L + 1) \in Nat /\ Before(f, L + 1) <= n
  <2>1. L + 1 \in 1 .. (L + 1)
    OBVIOUS
  <2> QED BY <1>2, <1>3, <2>1, BeforeSum, GreedyWithin
<1>6. Positive(n - Before(f, L + 1)) = n - Before(f, L + 1)
  BY <1>5 DEF Positive
<1> DEFINE front == [i \in 1 .. L |-> Part(s[i], f[i])]
           rest == Part(NoTran, n - Before(f, L + 1))
<1>7. parts = Append(front, rest)
  BY <1>1, <1>2, <1>4, <1>6 DEF Split
<1>8. front \in Seq({Part(s[i], f[i]) : i \in 1 .. L}) /\ Len(front) = L
  OBVIOUS
<1>9. /\ DOMAIN parts = 1 .. (L + 1)
      /\ \A i \in 1 .. L : parts[i] = front[i]
      /\ parts[L + 1] = rest
  <2> HIDE DEF front, rest
  <2> QED BY <1>7, <1>8
<1>10. \A i \in 1 .. L : parts[i].tran = s[i] /\ parts[i].amount = f[i]
  <2>1. ASSUME NEW i \in 1 .. L PROVE parts[i].tran = s[i] /\ parts[i].amount = f[i]
    <3>1. parts[i] = Part(s[i], f[i])
      BY <1>9
    <3> QED BY <3>1 DEF Part
  <2> QED BY <2>1
<1>11. parts[L + 1].tran = NoTran /\ parts[L + 1].amount = n - Before(f, L + 1)
  BY <1>9 DEF Part
<1>12. \A i \in 1 .. L : f[i] <= n
  BY <1>4
<1>13. Handed(parts, s, f, L, n)
  <2> HIDE DEF front, rest
  <2> QED BY <1>2, <1>3, <1>5, <1>9, <1>10, <1>11, <1>12 DEF Handed
<1> QED BY <1>2, <1>13

AmountOf(parts, S) == SumFunctionOnSet([i \in S |-> parts[i].amount], S)

LEMMA AllocationExact ==
  ASSUME RefundAssumption, TypeOK, NEW e, NEW n \in Nat, NEW parts \in Allocations(e, n)
  PROVE  /\ AmountOf(parts, {i \in DOMAIN parts : parts[i].amount > 0}) = n
         /\ \A i \in DOMAIN parts : parts[i].amount \in 0 .. n
<1>0. PICK L \in Nat, s \in Preferred(e, n) : \E f \in Greedy(s, n) :
        Handed(parts, s, f, L, n)
  BY AllocationParts
<1>00. PICK f \in Greedy(s, n) : Handed(parts, s, f, L, n)
  BY <1>0
<1>1. /\ f \in [1 .. L -> Nat]
      /\ DOMAIN parts = 1 .. (L + 1)
      /\ \A i \in 1 .. L : parts[i].amount = f[i] /\ f[i] <= n
      /\ parts[L + 1].amount = n - Before(f, L + 1)
      /\ Before(f, L + 1) \in 0 .. n
  BY <1>00 DEF Handed
<1>2. PICK b : b = Before(f, L + 1)
  OBVIOUS
<1>3. \A i \in DOMAIN parts : parts[i].amount \in 0 .. n
  <2>1. ASSUME NEW i \in 1 .. L PROVE parts[i].amount \in 0 .. n
    BY <1>1
  <2>2. parts[L + 1].amount \in 0 .. n
    BY <1>1
  <2>3. \A i \in DOMAIN parts : i \in 1 .. L \/ i = L + 1
    BY <1>1
  <2> QED BY <2>1, <2>2, <2>3
<1> DEFINE D == DOMAIN parts
           used == {i \in D : parts[i].amount > 0}
           some == [i \in used |-> parts[i].amount]
           every == [i \in D |-> parts[i].amount]
<1>4. AmountOf(parts, used) = SumFunctionOnSet(some, used)
  BY DEF AmountOf
<1>5. /\ IsFiniteSet(D) /\ L + 1 \in D /\ D \ {L + 1} = 1 .. L /\ used \in SUBSET D
  <2>1. IsFiniteSet(1 .. (L + 1))
    BY FS_Interval
  <2> QED BY <1>1, <2>1
<1>6. /\ \A i \in D : every[i] \in Int
      /\ \A i \in used : some[i] = every[i]
      /\ \A i \in D \ used : every[i] = 0
  BY <1>3
<1>7. (\A i \in 1 .. L : every[i] = f[i]) /\ every[L + 1] = n - b
  BY <1>1, <1>2, <1>5
<1> HIDE DEF D, used, some, every
<1>8. SumFunctionOnSet(some, used) = SumFunctionOnSet(every, D)
  BY <1>5, <1>6, SumSelected
<1>9. SumFunctionOnSet(every, D) = every[L + 1] + SumFunctionOnSet(every, D \ {L + 1})
  <2>1. PICK k : k = L + 1
    OBVIOUS
  <2>2. k \in D
    BY <1>5, <2>1
  <2>3. SumFunctionOnSet(every, D) = every[k] + SumFunctionOnSet(every, D \ {k})
    BY ONLY <1>5, <1>6, <2>2, SumAnyFirst
  <2> QED BY ONLY <2>1, <2>3
<1>10. SumFunctionOnSet(every, 1 .. L) = SumFunctionOnSet(f, 1 .. L)
  <2>1. PICK S : S = 1 .. L
    OBVIOUS
  <2>2. IsFiniteSet(S) /\ \A i \in S : every[i] = f[i]
    BY <1>7, <2>1, FS_Interval
  <2>3. SumFunctionOnSet(every, S) = SumFunctionOnSet(f, S)
    BY ONLY <2>2, SumSame
  <2> QED BY ONLY <2>1, <2>3
<1>11. b = SumFunctionOnSet(f, 1 .. L)
  <2>1. L + 1 \in 1 .. (L + 1) /\ (L + 1) - 1 = L
    OBVIOUS
  <2>2. Before(f, L + 1) = SumFunctionOnSet(f, 1 .. ((L + 1) - 1))
    BY <1>1, <2>1, BeforeSum
  <2> QED BY <1>2, <2>1, <2>2
<1>12. SumFunctionOnSet(every, D) = (n - b) + b
  BY ONLY <1>5, <1>7, <1>9, <1>10, <1>11
<1>13. SumFunctionOnSet(every, D) = n
  BY ONLY <1>1, <1>2, <1>12, n \in Nat
<1>14. AmountOf(parts, used) = n
  BY ONLY <1>4, <1>8, <1>13
<1> QED BY <1>3, <1>14 DEF used, D

LEMMA AllocationFair ==
  ASSUME RefundAssumption, TypeOK, NEW e, NEW n \in Nat, NEW parts \in Allocations(e, n)
  PROVE  LET used == {i \in DOMAIN parts : parts[i].amount > 0}
             sources == {parts[i].tran : i \in used} \ {NoTran}
         IN  /\ \A i, j \in used : parts[i].tran = parts[j].tran => i = j
             /\ \A i \in used : parts[i].tran # NoTran =>
                                  parts[i].amount <= PayAmount[parts[i].tran]
             /\ (\E p \in sources : PaySource[p] = "ICICI_UPI") =>
                  ~\E q \in paid : /\ PaySource[q] = "RAZORPAY"
                                   /\ PayAmount[q] >= n
<1>0. PICK L \in Nat, s \in Preferred(e, n) : \E f \in Greedy(s, n) :
        Handed(parts, s, f, L, n)
  BY AllocationParts
<1>00. PICK f \in Greedy(s, n) : Handed(parts, s, f, L, n)
  BY <1>0
<1>1. /\ s \in [1 .. L -> Payments] /\ f \in [1 .. L -> Nat]
      /\ \A i, j \in 1 .. L : s[i] = s[j] => i = j
      /\ DOMAIN parts = 1 .. (L + 1)
      /\ \A i \in 1 .. L : /\ parts[i].tran = s[i] /\ parts[i].amount = f[i]
                           /\ f[i] <= PayAmount[s[i]]
      /\ parts[L + 1].tran = NoTran
  BY <1>00 DEF Handed
<1> DEFINE used == {i \in DOMAIN parts : parts[i].amount > 0}
           sources == {parts[i].tran : i \in used} \ {NoTran}
<1>2. \A i \in used : i \in 1 .. L \/ i = L + 1
  BY <1>1
<1>3. \A i \in 1 .. L : s[i] # NoTran
  BY <1>1 DEF RefundAssumption
<1>4. \A i, j \in used : parts[i].tran = parts[j].tran => i = j
  BY <1>1, <1>2, <1>3
<1>5. \A i \in used : parts[i].tran # NoTran => parts[i].amount <= PayAmount[parts[i].tran]
  BY <1>1, <1>2
<1>6. ASSUME NEW p \in sources, PaySource[p] = "ICICI_UPI",
             NEW q \in paid, PaySource[q] = "RAZORPAY", PayAmount[q] >= n
      PROVE  FALSE
  <2>1. PICK i \in used : parts[i].tran = p /\ p # NoTran
    OBVIOUS
  <2>2. i \in 1 .. L
    BY <1>1, <1>2, <2>1
  <2>3. i \in DOMAIN s /\ PaySource[s[i]] = "ICICI_UPI" /\ f[i] > 0
    BY <1>1, <1>6, <2>1, <2>2
  <2>4. f[i] = 0
    BY <1>6, <2>3, IciciLast
  <2> QED BY <2>3, <2>4
<1> QED BY <1>4, <1>5, <1>6

-----------------------------------------------------------------------------
(* A handler moves only itself. *)
LEMMA OthersStand ==
  ASSUME TypeOK, NEW x \in Workers, Enter(x) \/ Advance(x) \/ Abort(x),
         NEW v \in Workers, v # x
  PROVE  pc'[v] = pc[v] /\ task'[v] = task[v]
<1>1. ASSUME NEW where, NEW t, Goto(x, where, t) PROVE pc'[v] = pc[v] /\ task'[v] = task[v]
  BY <1>1 DEF Goto, TypeOK
<1>2. CASE Enter(x)
  BY <1>1, <1>2 DEF Enter, Place, Automate, PollRead, CheckFailed
<1>3. CASE ReadTransactions(x) \/ CreateTrace(x)
  BY <1>1, <1>3 DEF ReadTransactions, CreateTrace, Stop
<1>4. CASE CreateRow(x) \/ CallGateway(x) \/ SaveAnswer(x)
  BY <1>1, <1>4 DEF CreateRow, CallGateway, SaveAnswer
<1>5. CASE PollAsk(x) \/ PollSettle(x) \/ DeleteAndPlace(x) \/ Abort(x)
  BY <1>1, <1>5 DEF PollAsk, PollSettle, DeleteAndPlace, Abort, Stop
<1>6. CASE ReadPaid(x) \/ ReadNamed(x) \/ ReadEmis(x) \/ ReadRows(x)
  BY <1>1, <1>6 DEF ReadPaid, ReadNamed, ReadEmis, ReadRows, Stop
<1> QED BY <1>2, <1>3, <1>4, <1>5, <1>6 DEF Advance

(* A refund is allocated where the payments are read. *)
LEMMA AllocatedHere ==
  ASSUME TypeOK, Next, NEW w \in Workers, pc[w] = "transactions", pc'[w] = "trace"
  PROVE  ReadTransactions(w)
<1>1. ~ Outside
  BY DEF Outside, BookPayment, FallsDue, GatewayPays, GatewayRejects
<1>2. PICK x \in Workers : Enter(x) \/ Advance(x) \/ Abort(x)
  BY <1>1 DEF Next
<1>3. x = w
  BY <1>2, OthersStand
<1>4. ~ Abort(w)
  BY DEF Abort, Stop, Goto, TypeOK
<1> QED BY <1>2, <1>3, <1>4
        DEF Enter, Place, Automate, PollRead, CheckFailed, Advance, ReadPaid, ReadNamed,
            ReadEmis, ReadRows, CreateTrace, CreateRow, CallGateway, SaveAnswer, PollAsk, PollSettle,
            DeleteAndPlace

(* What AllocationSound asks of the parts of a refund of n. *)
Sound(parts, n) ==
  LET used == {i \in DOMAIN parts : parts[i].amount > 0}
      sources == {parts[i].tran : i \in used} \ {NoTran}
  IN  /\ Total(LAMBDA i : parts[i].amount, used) = n
      /\ \A i, j \in used : parts[i].tran = parts[j].tran => i = j
      /\ \A i \in used : parts[i].tran # NoTran =>
                           parts[i].amount <= PayAmount[parts[i].tran]
      /\ (\E p \in sources : PaySource[p] = "ICICI_UPI") =>
           ~\E q \in paid : /\ PaySource[q] = "RAZORPAY"
                            /\ PayAmount[q] >= n

LEMMA AllocationIsSound ==
  ASSUME RefundAssumption, TypeOK, NEW e, NEW n \in Nat, NEW parts \in Allocations(e, n)
  PROVE  Sound(parts, n)
<1> DEFINE used == {i \in DOMAIN parts : parts[i].amount > 0}
           sources == {parts[i].tran : i \in used} \ {NoTran}
<1>1. AmountOf(parts, used) = n
  BY AllocationExact
<1>2. /\ \A i, j \in used : parts[i].tran = parts[j].tran => i = j
      /\ \A i \in used : parts[i].tran # NoTran =>
                           parts[i].amount <= PayAmount[parts[i].tran]
      /\ (\E p \in sources : PaySource[p] = "ICICI_UPI") =>
           ~\E q \in paid : /\ PaySource[q] = "RAZORPAY"
                            /\ PayAmount[q] >= n
  BY AllocationFair
<1> QED BY <1>1, <1>2 DEF Sound, Total, AmountOf

(* prePareRefundAmount hands out the excess to the unit, from distinct     *)
(* payments, within each, and from ICICI only for want of another.         *)
THEOREM RefundAllocation == Spec => AllocationSound
<1>1. ASSUME RefundInv, Next, NEW w \in Workers, pc[w] = "transactions", pc'[w] = "trace"
      PROVE  Sound(task'[w].parts, task[w].amount)
  <2>1. TypeOK
    BY <1>1 DEF RefundInv
  <2>2. PICK parts \in Allocations(task[w].emi, task[w].amount) :
          Goto(w, "trace", [task[w] EXCEPT !.parts = parts])
    <3>1. ReadTransactions(w)
      BY <1>1, <2>1, AllocatedHere
    <3>2. ~ Stop(w)
      BY <1>1, <2>1 DEF Stop, Goto, TypeOK
    <3> QED BY <3>1, <3>2 DEF ReadTransactions
  <2>3. task'[w].parts = parts
    BY <2>1, <2>2 DEF Goto, TypeOK, TaskType
  <2>4. task[w].amount \in Nat
    BY <2>1 DEF TypeOK, TaskType
  <2>5. Sound(parts, task[w].amount)
    BY <2>1, <2>4, RefundAssumption, AllocationIsSound
  <2> QED BY <2>3, <2>5
<1>2. RefundInv /\ [Next]_vars =>
        [\A w \in Workers :
           pc[w] = "transactions" /\ pc'[w] = "trace" =>
             LET parts == task'[w].parts
                 used == {i \in DOMAIN parts : parts[i].amount > 0}
                 sources == {parts[i].tran : i \in used} \ {NoTran}
             IN  /\ Total(LAMBDA i : parts[i].amount, used) = task[w].amount
                 /\ \A i, j \in used : parts[i].tran = parts[j].tran => i = j
                 /\ \A i \in used : parts[i].tran # NoTran =>
                                      parts[i].amount <= PayAmount[parts[i].tran]
                 /\ (\E p \in sources : PaySource[p] = "ICICI_UPI") =>
                      ~\E q \in paid : /\ PaySource[q] = "RAZORPAY"
                                       /\ PayAmount[q] >= task[w].amount]_vars
  BY <1>1 DEF Sound
<1> QED BY <1>2, RefundInvariance, PTL DEF Spec, AllocationSound

-----------------------------------------------------------------------------
(* A single handler, and no answer lost: what is sent back is covered.     *)

(* One handler at a time: the run with one worker.                         *)
OneHandler == \A v, w \in Workers : v = w

RowSum(f, S) == SumFunctionOnSet([r \in S |-> f[r].amount], S)
LiveSum == RowSum(row, Live)
PaidOf(P) == SumFunctionOnSet([p \in P |-> PayAmount[p]], P)
Funds(w) == PaidOf(paid) - Bill(task[w].billed)

(* From reading the excess to the gateway, the payments cover the bill,    *)
(* what is on its way back, and what the handler is about to send back;    *)
(* after the gateway, the trace row stops the loop over the parts.         *)
Covers(w) ==
  /\ pc[w] \in {"named", "emis"} => LiveSum + task[w].total <= PaidOf(paid)
  /\ \/ pc[w] \in {"rows", "transactions", "row"}
     \/ pc[w] = "trace" /\ task[w].emi \notin trace
     => LiveSum + task[w].amount <= Funds(w)
  /\ pc[w] = "gateway" => LiveSum + row[task[w].row].amount <= Funds(w)
  /\ pc[w] \in {"gateway", "save"} => task[w].emi \in trace
  /\ pc[w] \in {"trace", "row", "gateway", "save"} =>
       \A i \in DOMAIN task[w].parts : task[w].parts[i].amount <= task[w].amount
FundInv == \A w \in Workers : Covers(w)

LEMMA RowSums ==
  ASSUME RefundAssumption, NEW g \in [RowIds -> RowType], NEW S \in SUBSET RowIds
  PROVE  /\ RowSum(g, S) \in Nat
         /\ \A T \in SUBSET S : RowSum(g, T) <= RowSum(g, S)
         /\ \A r \in RowIds \ S : RowSum(g, S \union {r}) = RowSum(g, S) + g[r].amount
<1> DEFINE f == [r \in RowIds |-> g[r].amount]
<1>1. IsFiniteSet(RowIds)
  BY FS_Interval DEF RowIds, RefundAssumption
<1>2. \A r \in RowIds : f[r] \in Nat /\ f[r] \in Int /\ f[r] = g[r].amount
  BY DEF RowType
<1>3. ASSUME NEW T \in SUBSET RowIds PROVE RowSum(g, T) = SumFunctionOnSet(f, T)
  <2> DEFINE h == [r \in T |-> g[r].amount]
  <2>1. IsFiniteSet(T)
    BY <1>1, FS_Subset
  <2>2. \A r \in T : h[r] = f[r]
    BY <1>2
  <2>3. RowSum(g, T) = SumFunctionOnSet(h, T)
    BY DEF RowSum
  <2> HIDE DEF f, h
  <2> QED BY <2>1, <2>2, <2>3, SumSame
<1> HIDE DEF f
<1>4. IsFiniteSet(S) /\ \A r \in S : f[r] \in Nat
  BY <1>1, <1>2, FS_Subset
<1>5. RowSum(g, S) \in Nat
  BY <1>3, <1>4, SumOfNaturals
<1>6. ASSUME NEW T \in SUBSET S PROVE RowSum(g, T) <= RowSum(g, S)
  <2>1. SumFunctionOnSet(f, T) <= SumFunctionOnSet(f, S)
    BY <1>4, SumOfNaturals
  <2> QED BY <1>3, <2>1
<1>7. ASSUME NEW r \in RowIds \ S
      PROVE  RowSum(g, S \union {r}) = RowSum(g, S) + g[r].amount
  <2> DEFINE U == S \union {r}
  <2>1. U \in SUBSET RowIds /\ r \in U /\ U \ {r} = S
    OBVIOUS
  <2>2. IsFiniteSet(U) /\ \A x \in U : f[x] \in Int
    BY <1>1, <1>2, <2>1, FS_Subset
  <2> HIDE DEF U
  <2>3. SumFunctionOnSet(f, U) = f[r] + SumFunctionOnSet(f, U \ {r})
    BY ONLY <2>1, <2>2, SumAnyFirst
  <2>4. SumFunctionOnSet(f, U) = f[r] + SumFunctionOnSet(f, S)
    BY ONLY <2>1, <2>3
  <2>5. RowSum(g, U) = g[r].amount + RowSum(g, S)
    BY <1>2, <1>3, <2>1, <2>4
  <2>6. g[r].amount \in Nat
    BY <1>2
  <2> QED BY <1>5, <2>5, <2>6 DEF U
<1> QED BY <1>5, <1>6, <1>7

LEMMA PaidSums ==
  ASSUME RefundAssumption, NEW P \in SUBSET Payments
  PROVE  PaidOf(P) \in Nat /\ \A T \in SUBSET P : PaidOf(T) <= PaidOf(P)
<1> DEFINE f == [p \in Payments |-> PayAmount[p]]
<1>1. ASSUME NEW T \in SUBSET Payments PROVE PaidOf(T) = SumFunctionOnSet(f, T)
  <2> DEFINE g == [p \in T |-> PayAmount[p]]
  <2>1. IsFiniteSet(T)
    BY FS_Subset DEF RefundAssumption
  <2>2. \A p \in T : g[p] = f[p]
    OBVIOUS
  <2> HIDE DEF f, g
  <2>3. SumFunctionOnSet(g, T) = SumFunctionOnSet(f, T)
    BY <2>1, <2>2, SumSame
  <2> QED BY <2>3 DEF g, PaidOf
<1>2. IsFiniteSet(P) /\ (\A p \in P : f[p] \in Nat)
  BY FS_Subset DEF RefundAssumption
<1> HIDE DEF f
<1>3. SumFunctionOnSet(f, P) \in Nat
  BY <1>2, SumOfNaturals
<1>4. \A T \in SUBSET P : SumFunctionOnSet(f, T) <= SumFunctionOnSet(f, P)
  BY <1>2, SumOfNaturals
<1> QED BY <1>1, <1>3, <1>4

LEMMA BillNat ==
  ASSUME RefundAssumption, NEW E \in SUBSET Emis
  PROVE  Bill(E) \in Nat
<1> DEFINE f == [e \in E |-> EmiAmount[e]]
<1>1. \A e \in E : f[e] \in Nat
  BY DEF RefundAssumption
<1>2. IsFiniteSet(E)
  <2>1. IsFiniteSet(Emis)
    BY FS_Interval DEF Emis, RefundAssumption
  <2> QED BY <2>1, FS_Subset
<1> HIDE DEF f
<1>3. SumFunctionOnSet(f, E) \in Nat
  BY <1>1, <1>2, SumOfNaturals
<1> QED BY <1>3 DEF Bill, Total, f

LEMMA FundTypes ==
  ASSUME RefundAssumption, TypeOK
  PROVE  /\ LiveSum \in Nat /\ PaidOf(paid) \in Nat
         /\ \A w \in Workers : /\ task[w].amount \in Nat /\ Bill(task[w].billed) \in Nat
                               /\ Funds(w) = PaidOf(paid) - Bill(task[w].billed)
<1>1. LiveSum \in Nat
  BY RowSums DEF LiveSum, Live, TypeOK
<1>2. PaidOf(paid) \in Nat
  BY PaidSums DEF TypeOK
<1>3. ASSUME NEW w \in Workers PROVE task[w].amount \in Nat /\ Bill(task[w].billed) \in Nat
  <2>1. task[w].billed \in SUBSET Emis /\ task[w].amount \in Nat
    BY DEF TypeOK, TaskType
  <2> QED BY <2>1, BillNat
<1> QED BY <1>1, <1>2, <1>3 DEF Funds

LEMMA FundTypesNext ==
  ASSUME RefundAssumption, TypeOK'
  PROVE  /\ LiveSum' \in Nat /\ PaidOf(paid') \in Nat
         /\ \A w \in Workers : Funds(w)' = PaidOf(paid') - Bill(task'[w].billed)
<1>1. LiveSum' \in Nat
  <2>1. row' \in [RowIds -> RowType] /\ Live' \in SUBSET RowIds
    BY DEF TypeOK, Live
  <2>2. LiveSum' = RowSum(row', Live')
    BY DEF LiveSum
  <2> QED BY <2>1, <2>2, RowSums
<1>2. PaidOf(paid') \in Nat
  BY PaidSums DEF TypeOK
<1> QED BY <1>1, <1>2 DEF Funds

(* A handler that is not on its way to the gateway has nothing to cover.   *)
LEMMA FundRest ==
  ASSUME OneHandler, NEW w \in Workers,
         pc'[w] \in {"idle", "paid", "ask", "settle", "delete"}
  PROVE  FundInv'
  BY DEF OneHandler, FundInv, Covers

(* While the world moves on, less is on its way and more has been paid.    *)
LEMMA FundWorld ==
  ASSUME RefundAssumption, RefundInv, TypeOK', FundInv, UNCHANGED <<row, trace, pc, task>>,
         LiveSum' <= LiveSum, paid \subseteq paid'
  PROVE  FundInv'
<1>0. TypeOK /\ BusyOnRow
  BY DEF RefundInv
<1>1. ASSUME NEW w \in Workers PROVE Covers(w)'
  <2>1. PICK a, b, c : a = PaidOf(paid) /\ b = PaidOf(paid') /\ c = Bill(task[w].billed)
    OBVIOUS
  <2>2. a \in Nat /\ b \in Nat /\ c \in Nat /\ Funds(w) = a - c /\ Funds(w)' = b - c
    <3>1. a \in Nat /\ c \in Nat
      BY <1>0, <2>1, FundTypes
    <3>2. b \in Nat
      BY <2>1, FundTypesNext
    <3>3. Funds(w) = a - c
      BY <2>1 DEF Funds
    <3>4. task' = task
      OBVIOUS
    <3>5. Funds(w)' = b - c
      BY <2>1, <3>4 DEF Funds
    <3> QED BY <3>1, <3>2, <3>3, <3>5
  <2>3. a <= b
    <3>1. paid' \in SUBSET Payments /\ paid \in SUBSET paid'
      BY DEF TypeOK
    <3> QED BY <2>1, <3>1, PaidSums
  <2>4. LiveSum \in Nat /\ LiveSum' \in Nat
    BY <1>0, FundTypes, FundTypesNext
  <2>5. ASSUME NEW n \in Nat, LiveSum + n <= Funds(w) PROVE LiveSum' + n <= Funds(w)'
    <3>1. PICK l, k, g, h : /\ l = LiveSum /\ k = LiveSum'
                            /\ g = Funds(w) /\ h = Funds(w)'
      OBVIOUS
    <3>2. l \in Nat /\ k \in Nat /\ k <= l /\ g = a - c /\ h = b - c
      BY <2>2, <2>4, <3>1
    <3>3. l + n <= g
      BY <2>5, <3>1
    <3>4. k + n <= h
      BY ONLY <2>2, <2>3, <3>2, <3>3, n \in Nat
    <3> QED BY <3>1, <3>4
  <2>6. task[w].amount \in Nat
    BY <1>0 DEF TypeOK, TaskType
  <2>7. pc[w] = "gateway" => row[task[w].row].amount \in Nat
    <3>1. pc[w] = "gateway" => task[w].row \in RowIds
      BY <1>0 DEF BusyOnRow, Busy
    <3> QED BY <1>0, <3>1 DEF TypeOK, RowType
  <2>8. Covers(w)
    BY DEF FundInv
  <2>9. ASSUME \/ pc[w] \in {"rows", "transactions", "row"}
               \/ pc[w] = "trace" /\ task[w].emi \notin trace
        PROVE  LiveSum' + task[w].amount <= Funds(w)'
    <3>1. LiveSum + task[w].amount <= Funds(w)
      BY <2>8, <2>9 DEF Covers
    <3> QED BY <2>5, <2>6, <3>1
  <2>10. ASSUME pc[w] = "gateway"
         PROVE  LiveSum' + row[task[w].row].amount <= Funds(w)'
    <3>1. LiveSum + row[task[w].row].amount <= Funds(w)
      BY <2>8, <2>10 DEF Covers
    <3> QED BY <2>5, <2>7, <2>10, <3>1
  <2>11. row' = row /\ trace' = trace /\ pc' = pc /\ task' = task
    OBVIOUS
  <2>12. ASSUME pc[w] \in {"named", "emis"}
         PROVE  LiveSum' + task[w].total <= PaidOf(paid)'
    <3>1. PICK l, k : l = LiveSum /\ k = LiveSum'
      OBVIOUS
    <3>2. l \in Nat /\ k \in Nat /\ k <= l /\ task[w].total \in Int
      BY <1>0, <2>4, <3>1 DEF TypeOK, TaskType
    <3>3. l + task[w].total <= a
      BY <2>1, <2>8, <2>12, <3>1 DEF Covers
    <3>4. k + task[w].total <= b
      BY <2>2, <2>3, <3>2, <3>3
    <3> QED BY <2>1, <3>1, <3>4
  <2> QED BY <2>8, <2>9, <2>10, <2>11, <2>12 DEF Covers
<1> QED BY <1>1 DEF FundInv

(* What getDateTransaction adds up leaves out all that is on its way back, *)
(* as its rows are counted.                                                *)
LEMMA PaidAmountCovers ==
  ASSUME RefundAssumption, TypeOK, MoneyHasRow, losses = 0
  PROVE  LiveSum + PaidAmount <= PaidOf(paid)
<1>1. Live \in SUBSET Counted /\ Counted \in SUBSET RowIds
  BY DEF MoneyHasRow, Live, Counted, HasStatus
<1>2. PICK a, c : a = PaidOf(paid) /\ c = RowSum(row, Counted)
  OBVIOUS
<1>3. a \in Nat /\ c \in Nat /\ LiveSum \in Nat /\ LiveSum <= c
  <2>1. row \in [RowIds -> RowType]
    BY DEF TypeOK
  <2>2. RowSum(row, Counted) \in Nat /\ RowSum(row, Live) <= RowSum(row, Counted)
    BY <1>1, <2>1, RowSums
  <2>3. LiveSum \in Nat /\ a \in Nat
    BY <1>2, FundTypes
  <2> QED BY <1>2, <2>2, <2>3 DEF LiveSum
<1>4. PaidAmount = a - c
  <2>1. Total(LAMBDA p : PayAmount[p], paid) = a
    BY <1>2 DEF Total, PaidOf
  <2>2. Total(Amount, Counted) = c
    BY <1>2 DEF Total, RowSum, Amount
  <2> QED BY <2>1, <2>2 DEF PaidAmount
<1> QED BY <1>2, <1>3, <1>4

LEMMA OneIsAll ==
  ASSUME OneHandler, NEW w \in Workers, Covers(w)'
  PROVE  FundInv'
  BY DEF OneHandler, FundInv

LEMMA FundReadPaid ==
  ASSUME RefundAssumption, OneHandler, RefundInv, losses = 0,
         NEW w \in Workers, ReadPaid(w)
  PROVE  FundInv'
<1> USE DEF RefundInv
<1>1. LiveSum + PaidAmount <= PaidOf(paid)
  BY PaidAmountCovers
<1>2. pc'[w] = "named" /\ task'[w].total = PaidAmount
  BY DEF ReadPaid, Goto, TypeOK, NoTask
<1>3. UNCHANGED <<row, gw, paid>>
  BY DEF ReadPaid, db, world
<1>4. LiveSum' = LiveSum /\ PaidOf(paid)' = PaidOf(paid)
  BY <1>3 DEF LiveSum, Live
<1>5. LiveSum' + task'[w].total <= PaidOf(paid)'
  BY <1>1, <1>2, <1>4
<1>6. Covers(w)'
  BY <1>2, <1>5 DEF Covers
<1> QED BY <1>6, OneIsAll

LEMMA FundReadNamed ==
  ASSUME RefundAssumption, OneHandler, RefundInv, FundInv,
         NEW w \in Workers, ReadNamed(w)
  PROVE  FundInv'
<1> USE DEF RefundInv
<1>1. LiveSum + task[w].total <= PaidOf(paid)
  BY DEF ReadNamed, FundInv, Covers
<1>2. pc'[w] = "emis" /\ task'[w].total = task[w].total
  BY DEF ReadNamed, Goto, TypeOK, TaskType
<1>3. UNCHANGED <<row, gw, paid>>
  BY DEF ReadNamed, db, world
<1>4. LiveSum' = LiveSum /\ PaidOf(paid)' = PaidOf(paid)
  BY <1>3 DEF LiveSum, Live
<1>5. LiveSum' + task'[w].total <= PaidOf(paid)'
  BY <1>1, <1>2, <1>4
<1>6. Covers(w)'
  BY <1>2, <1>5 DEF Covers
<1> QED BY <1>6, OneIsAll

(* The excess is what was paid then, less the bill of now.                 *)
LEMMA FundReadEmis ==
  ASSUME RefundAssumption, OneHandler, RefundInv, FundInv,
         NEW w \in Workers, ReadEmis(w)
  PROVE  FundInv'
<1> USE DEF RefundInv
<1> DEFINE billed == task[w].billed \union due
           excess == Excess(task[w].total, billed)
<1>1. CASE Stop(w)
  <2>1. pc'[w] = "idle"
    BY <1>1 DEF Stop, Goto, TypeOK
  <2> QED BY <2>1, FundRest
<1>2. CASE /\ excess > 0
           /\ Goto(w, "rows", [task[w] EXCEPT !.billed = billed, !.amount = excess])
  <2>1. task[w] \in TaskType /\ billed \in SUBSET Emis /\ excess \in Nat
    BY ExcessNat DEF TypeOK, TaskType
  <2>2. PICK a, b, l : a = PaidOf(paid) /\ b = Bill(billed) /\ l = LiveSum
    OBVIOUS
  <2>3. a \in Nat /\ b \in Nat /\ l \in Nat /\ task[w].total \in Int
    BY <2>1, <2>2, BillNat, FundTypes DEF TaskType
  <2>4. l + task[w].total <= a
    BY <2>2 DEF ReadEmis, FundInv, Covers
  <2>5. excess = task[w].total - b
    <3>1. excess = IF b = 0 THEN 0 ELSE Positive(task[w].total - b)
      BY <2>2 DEF Excess
    <3> HIDE DEF excess
    <3> QED BY <1>2, <2>3, <3>1 DEF Positive
  <2> HIDE DEF billed, excess
  <2>6. pc'[w] = "rows" /\ task'[w].amount = excess /\ task'[w].billed = billed
    BY <1>2, <2>1 DEF Goto, TypeOK, TaskType
  <2>7. UNCHANGED <<row, gw, paid>>
    BY DEF ReadEmis, db, world
  <2>8. LiveSum' = l /\ Funds(w)' = a - b
    BY <2>2, <2>6, <2>7 DEF LiveSum, Live, Funds
  <2>9. LiveSum' + task'[w].amount <= Funds(w)'
    BY <2>3, <2>4, <2>5, <2>6, <2>8
  <2>10. Covers(w)'
    BY <2>6, <2>9 DEF Covers
  <2> QED BY <2>10, OneIsAll
<1> QED BY <1>1, <1>2 DEF ReadEmis

LEMMA FundReadRows ==
  ASSUME RefundAssumption, OneHandler, RefundInv, FundInv,
         NEW w \in Workers, ReadRows(w)
  PROVE  FundInv'
<1> USE DEF RefundInv
<1>1. LiveSum + task[w].amount <= Funds(w)
  BY DEF ReadRows, FundInv, Covers
<1>2. /\ pc'[w] = "transactions" /\ task'[w].amount = task[w].amount
      /\ task'[w].billed = task[w].billed
  BY DEF ReadRows, Goto, TypeOK, TaskType
<1>3. UNCHANGED <<row, gw, paid>>
  BY DEF ReadRows, db, world
<1>4. LiveSum' = LiveSum /\ Funds(w)' = Funds(w)
  BY <1>2, <1>3 DEF LiveSum, Live, Funds
<1>5. LiveSum' + task'[w].amount <= Funds(w)'
  BY <1>1, <1>2, <1>4
<1>6. Covers(w)'
  BY <1>2, <1>5 DEF Covers
<1> QED BY <1>6, OneIsAll

LEMMA FundReadTransactions ==
  ASSUME RefundAssumption, OneHandler, RefundInv, FundInv,
         NEW w \in Workers, ReadTransactions(w)
  PROVE  FundInv'
<1> USE DEF RefundInv
<1>1. CASE Stop(w)
  <2>1. pc'[w] = "idle"
    BY <1>1 DEF Stop, Goto, TypeOK
  <2> QED BY <2>1, FundRest
<1>2. ASSUME NEW parts \in Allocations(task[w].emi, task[w].amount),
             Goto(w, "trace", [task[w] EXCEPT !.parts = parts])
      PROVE  FundInv'
  <2>1. pc[w] = "transactions" /\ UNCHANGED <<row, gw, paid, trace>>
    BY DEF ReadTransactions, db, world
  <2>2. task[w] \in TaskType /\ task[w].amount \in Nat
    BY DEF TypeOK, TaskType
  <2>3. /\ pc'[w] = "trace" /\ task'[w].amount = task[w].amount
        /\ task'[w].billed = task[w].billed /\ task'[w].parts = parts
    BY <1>2, <2>2 DEF Goto, TypeOK, TaskType
  <2>4. \A i \in DOMAIN parts : parts[i].amount <= task[w].amount
    <3>1. \A i \in DOMAIN parts : parts[i].amount \in 0 .. task[w].amount
      BY <2>2, AllocationExact
    <3> QED BY <2>2, <3>1
  <2>5. LiveSum + task[w].amount <= Funds(w)
    BY <2>1 DEF FundInv, Covers
  <2>6. LiveSum' = LiveSum /\ Funds(w)' = Funds(w)
    BY <2>1, <2>3 DEF LiveSum, Live, Funds
  <2>7. Covers(w)'
    BY <2>3, <2>4, <2>5, <2>6 DEF Covers
  <2> QED BY <2>7, OneIsAll
<1> QED BY <1>1, <1>2 DEF ReadTransactions

LEMMA FundCreateTrace ==
  ASSUME RefundAssumption, OneHandler, RefundInv, FundInv,
         NEW w \in Workers, CreateTrace(w)
  PROVE  FundInv'
<1> USE DEF RefundInv
<1>1. CASE Stop(w)
  <2>1. pc'[w] = "idle"
    BY <1>1 DEF Stop, Goto, TypeOK
  <2> QED BY <2>1, FundRest
<1>2. ASSUME NEW i \in PartsAhead(w), trace' = trace \union {task[w].emi},
             Goto(w, IF task[w].emi \in trace THEN "trace" ELSE "row",
                  [task[w] EXCEPT !.i = i])
      PROVE  FundInv'
  <2>1. pc[w] = "trace" /\ UNCHANGED <<row, gw, paid>>
    BY DEF CreateTrace, world
  <2>2. task[w] \in TaskType
    BY DEF TypeOK
  <2>3. /\ pc'[w] = IF task[w].emi \in trace THEN "trace" ELSE "row"
        /\ task'[w].amount = task[w].amount /\ task'[w].emi = task[w].emi
        /\ task'[w].billed = task[w].billed /\ task'[w].parts = task[w].parts
    BY <1>2, <2>2 DEF Goto, TypeOK, TaskType
  <2>4. \A k \in DOMAIN task[w].parts : task[w].parts[k].amount <= task[w].amount
    BY <2>1 DEF FundInv, Covers
  <2>5. task[w].emi \notin trace => LiveSum + task[w].amount <= Funds(w)
    BY <2>1 DEF FundInv, Covers
  <2>6. LiveSum' = LiveSum /\ Funds(w)' = Funds(w)
    BY <2>1, <2>3 DEF LiveSum, Live, Funds
  <2>7. task'[w].emi \in trace'
    BY <1>2, <2>3
  <2>8. pc'[w] = "row" => task[w].emi \notin trace
    BY <2>3
  <2>9. pc'[w] \in {"trace", "row"}
    BY <2>3
  <2>10. Covers(w)'
    BY <2>3, <2>4, <2>5, <2>6, <2>7, <2>8, <2>9 DEF Covers
  <2> QED BY <2>10, OneIsAll
<1> QED BY <1>1, <1>2 DEF CreateTrace

LEMMA FundCreateRow ==
  ASSUME RefundAssumption, OneHandler, RefundInv, RefundInv', FundInv,
         NEW w \in Workers, CreateRow(w)
  PROVE  FundInv'
<1> USE DEF RefundInv
<1>1. pc[w] = "row" /\ UNCHANGED <<trace, gw, paid>>
  BY DEF CreateRow, world
<1>2. task[w] \in TaskType /\ task[w].amount \in Nat
  BY DEF TypeOK, TaskType
<1>3. task[w].emi \in trace /\ task[w].i \in DOMAIN task[w].parts
  BY <1>1 DEF TracerIsAlone
<1>4. \A k \in DOMAIN task[w].parts : task[w].parts[k].amount <= task[w].amount
  BY <1>1 DEF FundInv, Covers
<1>5. LiveSum + task[w].amount <= Funds(w)
  BY <1>1 DEF FundInv, Covers
<1>6. CASE Goto(w, "trace", task[w])
  <2>1. pc'[w] = "trace" /\ task'[w] = task[w]
    BY <1>6 DEF Goto, TypeOK
  <2>2. Covers(w)'
    BY <1>1, <1>3, <1>4, <2>1 DEF Covers
  <2> QED BY <2>2, OneIsAll
<1>7. ASSUME NEW r \in RowIds, row[r].status = "NONE",
             row' = [row EXCEPT ![r] = NewRow(w)],
             Goto(w, "gateway", [task[w] EXCEPT !.row = r])
      PROVE  FundInv'
  <2>1. /\ pc'[w] = "gateway" /\ task'[w].row = r
        /\ task'[w].amount = task[w].amount /\ task'[w].emi = task[w].emi
        /\ task'[w].billed = task[w].billed /\ task'[w].parts = task[w].parts
    BY <1>2, <1>7 DEF Goto, TypeOK, TaskType
  <2>2. row'[r].amount = task[w].parts[task[w].i].amount
    BY <1>7 DEF NewRow, TypeOK
  <2>3. row'[r].amount \in Nat /\ row'[r].amount <= task[w].amount
    BY <1>3, <1>4, <2>2 DEF TypeOK, RowType
  <2>4. Live' = Live /\ r \notin Live
    BY <1>1, <1>7 DEF Live, AskedExist, Asked, Exists
  <2>5. [s \in Live' |-> row'[s].amount] = [s \in Live |-> row[s].amount]
    BY <1>7, <2>4 DEF TypeOK, Live
  <2>6. LiveSum' = LiveSum
    BY <2>4, <2>5 DEF LiveSum, RowSum
  <2>7. Funds(w)' = Funds(w)
    BY <1>1, <2>1 DEF Funds
  <2>8. LiveSum \in Nat /\ Funds(w) \in Int
    BY FundTypes
  <2>9. LiveSum' + row'[r].amount <= Funds(w)'
    BY <1>2, <1>5, <2>3, <2>6, <2>7, <2>8
  <2>10. Covers(w)'
    BY <1>1, <1>3, <1>4, <2>1, <2>9 DEF Covers
  <2> QED BY <2>10, OneIsAll
<1> QED BY <1>6, <1>7 DEF CreateRow

LEMMA FundCallGateway ==
  ASSUME OneHandler, RefundInv, FundInv, NEW w \in Workers, CallGateway(w)
  PROVE  FundInv'
<1>1. pc[w] = "gateway" /\ UNCHANGED <<row, trace>>
  BY DEF CallGateway, db
<1>2. PICK answer : Goto(w, "save", [task[w] EXCEPT !.answer = answer])
  BY DEF CallGateway
<1>3. task[w] \in TaskType /\ task \in [Workers -> TaskType] /\ pc \in [Workers -> Places]
  BY DEF RefundInv, TypeOK
<1>4. /\ pc'[w] = "save" /\ task'[w].emi = task[w].emi
      /\ task'[w].amount = task[w].amount /\ task'[w].parts = task[w].parts
  BY <1>2, <1>3 DEF Goto, TaskType
<1>5. /\ task[w].emi \in trace
      /\ \A i \in DOMAIN task[w].parts : task[w].parts[i].amount <= task[w].amount
  BY <1>1 DEF FundInv, Covers
<1>6. Covers(w)'
  BY <1>1, <1>4, <1>5 DEF Covers
<1> QED BY <1>6, OneIsAll

LEMMA FundSaveAnswer ==
  ASSUME OneHandler, RefundInv, FundInv, NEW w \in Workers, SaveAnswer(w)
  PROVE  FundInv'
<1>1. pc[w] = "save" /\ UNCHANGED trace /\ Goto(w, "trace", task[w])
  BY DEF SaveAnswer
<1>2. pc'[w] = "trace" /\ task'[w] = task[w]
  BY <1>1 DEF Goto, RefundInv, TypeOK
<1>3. /\ task[w].emi \in trace
      /\ \A i \in DOMAIN task[w].parts : task[w].parts[i].amount <= task[w].amount
  BY <1>1 DEF FundInv, Covers
<1>4. Covers(w)'
  BY <1>1, <1>2, <1>3 DEF Covers
<1> QED BY <1>4, OneIsAll

(* Every other step of a handler leaves it away from the gateway.          *)
LEMMA FundAway ==
  ASSUME OneHandler, RefundInv, NEW w \in Workers,
         \/ Enter(w) \/ PollAsk(w) \/ PollSettle(w) \/ DeleteAndPlace(w) \/ Abort(w)
  PROVE  FundInv'
<1>1. ASSUME NEW where \in {"idle", "paid", "ask", "settle", "delete"}, NEW t,
             Goto(w, where, t)
      PROVE  pc'[w] \in {"idle", "paid", "ask", "settle", "delete"}
  BY <1>1 DEF Goto, RefundInv, TypeOK
<1>2. CASE Enter(w)
  BY <1>1, <1>2, FundRest DEF Enter, Place, Automate, PollRead, CheckFailed
<1>3. CASE PollAsk(w)
  BY <1>1, <1>3, FundRest DEF PollAsk, Stop
<1>4. CASE PollSettle(w) \/ DeleteAndPlace(w) \/ Abort(w)
  BY <1>1, <1>4, FundRest DEF PollSettle, DeleteAndPlace, Abort, Stop
<1> QED BY <1>2, <1>3, <1>4

LEMMA FundOutside ==
  ASSUME RefundAssumption, RefundInv, RefundInv', FundInv, Outside \/ UNCHANGED vars
  PROVE  FundInv'
<1>1. TypeOK /\ TypeOK'
  BY DEF RefundInv
<1>2. UNCHANGED <<row, trace, pc, task>> /\ paid \subseteq paid'
  BY DEF Outside, BookPayment, FallsDue, GatewayPays, GatewayRejects, vars, db
<1>3. Live' \in SUBSET Live
  <2>1. CASE Outside
    BY <1>1, <2>1
    DEF Outside, BookPayment, FallsDue, GatewayPays, GatewayRejects, Live, TypeOK
  <2>2. CASE UNCHANGED vars
    BY <2>2 DEF vars, Live
  <2> QED BY <2>1, <2>2
<1>4. LiveSum' <= LiveSum
  <2>1. LiveSum' = RowSum(row, Live')
    BY <1>2 DEF LiveSum
  <2>2. Live \in SUBSET RowIds /\ row \in [RowIds -> RowType]
    BY <1>1 DEF Live, TypeOK
  <2>3. RowSum(row, Live') <= RowSum(row, Live)
    BY <1>3, <2>2, RowSums
  <2> QED BY <2>1, <2>3 DEF LiveSum
<1> QED BY <1>1, <1>2, <1>4, FundWorld

LEMMA FundInductive ==
  ASSUME RefundAssumption, OneHandler, MaxLosses = 0,
         RefundInv, RefundInv', FundInv, [Next]_vars
  PROVE  FundInv'
<1>1. losses = 0
  BY DEF RefundInv, TypeOK
<1>2. CASE Outside \/ UNCHANGED vars
  BY <1>2, FundOutside
<1>3. ASSUME NEW w \in Workers, Enter(w) \/ Advance(w) \/ Abort(w) PROVE FundInv'
  <2>1. CASE ReadPaid(w) \/ ReadNamed(w) \/ ReadEmis(w) \/ ReadRows(w)
    BY <1>1, <2>1, FundReadPaid, FundReadNamed, FundReadEmis, FundReadRows
  <2>2. CASE ReadTransactions(w)
    BY <2>2, FundReadTransactions
  <2>3. CASE CreateTrace(w)
    BY <2>3, FundCreateTrace
  <2>4. CASE CreateRow(w)
    BY <2>4, FundCreateRow
  <2>5. CASE CallGateway(w)
    BY <2>5, FundCallGateway
  <2>6. CASE SaveAnswer(w)
    BY <2>6, FundSaveAnswer
  <2>7. CASE Enter(w) \/ PollAsk(w) \/ PollSettle(w) \/ DeleteAndPlace(w) \/ Abort(w)
    BY <2>7, FundAway
  <2> QED BY <1>3, <2>1, <2>2, <2>3, <2>4, <2>5, <2>6, <2>7 DEF Advance
<1> QED BY <1>2, <1>3 DEF Next

(* A step at the gateway puts at most one more refund on its way.          *)
LEMMA OneMoreLive ==
  ASSUME RefundInv, OneHandler, NEW w \in Workers, pc[w] = "gateway", Next
  PROVE  Live' \subseteq Live \union {task[w].row}
<1>1. CASE Outside
  BY <1>1 DEF Outside, BookPayment, FallsDue, GatewayPays, GatewayRejects, Live,
              RefundInv, TypeOK
<1>2. ASSUME Enter(w) \/ Advance(w) \/ Abort(w)
      PROVE  Live' \subseteq Live \union {task[w].row}
  <2>1. CallGateway(w) \/ Abort(w)
    BY <1>2 DEF Enter, Place, Automate, PollRead, CheckFailed, Advance, ReadPaid,
                ReadNamed, ReadEmis, ReadRows, ReadTransactions, CreateTrace, CreateRow, SaveAnswer, PollAsk,
                PollSettle, DeleteAndPlace
  <2>2. CASE Abort(w)
    BY <2>2 DEF Abort, Live
  <2>3. CASE CallGateway(w)
    <3>1. \A r \in RowIds \ {task[w].row} : gw'[r] = gw[r]
      BY <2>3 DEF CallGateway, RefundInv, TypeOK
    <3> QED BY <3>1 DEF Live
  <2> QED BY <2>1, <2>2, <2>3
<1> QED BY <1>1, <1>2 DEF Next, OneHandler

(* With one handler, and no answer of a gateway lost, no more is sent back *)
(* than was paid beyond the bill.                                          *)
THEOREM RefundNeverOver ==
  ASSUME OneHandler, MaxLosses = 0
  PROVE  Spec => NeverOverRefunded
<1>1. Init => FundInv
  BY DEF Init, FundInv, Covers
<1>2. RefundInv /\ RefundInv' /\ FundInv /\ [Next]_vars => FundInv'
  BY RefundAssumption, FundInductive
<1>3. ASSUME RefundInv, FundInv, Next, NEW w \in Workers, pc[w] = "gateway"
      PROVE  RowSum(row, Live') <= PaidOf(paid) - Bill(task[w].billed)
  <2> DEFINE r == task[w].row
             l == row[r].amount
  <2>1. r \in RowIds /\ gw[r] = "NONE"
    BY <1>3 DEF RefundInv, BusyOnRow, CallerIsAlone, Busy
  <2>2. /\ row \in [RowIds -> RowType] /\ Live \in SUBSET RowIds
        /\ r \in RowIds \ Live /\ Live \union {r} \in SUBSET RowIds
    BY <1>3, <2>1 DEF RefundInv, TypeOK, Live
  <2>3. Live' \in SUBSET (Live \union {r})
    BY <1>3, OneMoreLive
  <2>4. RowSum(row, Live') <= RowSum(row, Live \union {r})
    BY <2>2, <2>3, RefundAssumption, RowSums
  <2>5. RowSum(row, Live \union {r}) = RowSum(row, Live) + l
    BY <2>2, RefundAssumption, RowSums
  <2>6. LiveSum + l <= Funds(w)
    BY <1>3 DEF FundInv, Covers
  <2>7. Funds(w) \in Int
    BY <1>3, RefundAssumption, FundTypes DEF RefundInv
  <2>8. RowSum(row, Live') \in Nat /\ RowSum(row, Live) \in Nat /\ l \in Nat
    <3>1. Live' \in SUBSET RowIds
      BY <2>2, <2>3
    <3> QED BY <2>2, <3>1, RefundAssumption, RowSums DEF RowType
  <2> HIDE DEF l, r
  <2>9. RowSum(row, Live') <= Funds(w)
    BY <2>4, <2>5, <2>6, <2>7, <2>8 DEF LiveSum
  <2> QED BY <2>9 DEF Funds
<1>4. RefundInv /\ FundInv /\ [Next]_vars =>
        [\A w \in Workers :
           pc[w] = "gateway" /\ Live' # Live =>
             Total(Amount, Live') <=
               Total(LAMBDA p : PayAmount[p], paid) - Bill(task[w].billed)]_vars
  <2>1. RowSum(row, Live') = Total(Amount, Live')
    BY DEF RowSum, Total, Amount
  <2>2. PaidOf(paid) = Total(LAMBDA p : PayAmount[p], paid)
    BY DEF PaidOf, Total
  <2> QED BY <1>3, <2>1, <2>2
<1>5. Spec => [](RefundInv /\ FundInv)
  BY <1>1, <1>2, RefundInvariance, PTL DEF Spec
<1> QED BY <1>4, <1>5, PTL DEF Spec, NeverOverRefunded
=============================================================================
