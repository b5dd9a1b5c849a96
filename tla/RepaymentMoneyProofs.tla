------------------------ MODULE RepaymentMoneyProofs ------------------------
(***************************************************************************)
(* The money of a loan while one handler at a time is in flight, for any   *)
(* number of EMIs and orders and any amounts: the reward of the referrer,  *)
(* what stands behind an instalment that is marked as paid, its columns    *)
(* against its rows, and the rows of an order against its price.           *)
(***************************************************************************)
EXTENDS RepaymentProofs, SumTheorems

-----------------------------------------------------------------------------
(* One handler, alone with its row.                                        *)

(* One handler at a time: the runs with one worker.                        *)
OneHandler == \A v, w \in Workers : v = w

(* The part that the handler is about to write into its row.               *)
PartOf(w) ==
  LET t == task[w]
  IN  IF t.upd = NoPart THEN row[t.id].part
      ELSE IF t.upd.emi = NoEmi THEN [t.upd EXCEPT !.emi = row[t.id].part.emi]
      ELSE t.upd
Stands(id) == id \in RowIds /\ row[id].status \notin Gone

(* A handler writes to no row that is COMPLETED, and only the instalment   *)
(* it is going to look at can be affected by the part it writes.           *)
HandlerFacts(w) ==
  LET t == task[w] IN
  /\ pc[w] \in OrderLabels =>
       /\ row[<<t.id[1], 1>>].status # "NONE"
       /\ t.i = 0 /\ pc[w] # "part" => t.parts = {}
       /\ t.i > 0 \/ pc[w] = "part" => t.upd = NoPart
       /\ t.i > 0 => t.type = "PARTPAY"
       /\ \A part \in t.parts : part.extra > 0 => part.pi = 0 /\ part.charge = 0
  /\ pc[w] \in {"penalty", "bifurcate"} =>
       t.upd = NoPart /\ t.type = row[t.id].type /\ t.emi = row[t.id].part.emi
  /\ pc[w] = "part" /\ t.i = 0 => row[t.id].status # "COMPLETED"
  /\ pc[w] = "update" /\ Stands(t.id) =>
       /\ row[t.id].status # "COMPLETED"
       /\ t.type = row[t.id].type
       /\ t.type = "FULLPAY" => t.upd = NoPart
       /\ \/ PartOf(w).emi = t.emi
          \/ PartOf(w).pi = 0 /\ PartOf(w).charge = 0
  /\ pc[w] = "archive" => \A r \in t.old : row[r].status = "INITIALIZED"
FullRows == \A r \in RowIds : row[r].type = "FULLPAY" => row[r].part.emi = NoEmi
AloneInv == FullRows /\ \A w \in Workers : HandlerFacts(w)

(* Nothing has happened yet: no handler, no row.                           *)
LEMMA AloneInit == ASSUME Init PROVE AloneInv
  BY DEF Init, AloneInv, FullRows, HandlerFacts, NoRow, NoPart, OrderLabels, Labels

(* Steps that touch neither rows nor handlers.                             *)
LEMMA AloneStands ==
  ASSUME AloneInv, UNCHANGED <<row, pc, task>>
  PROVE  AloneInv'
  BY DEF AloneInv, FullRows, HandlerFacts, PartOf, Stands

(* With one handler, what holds of it is all there is to show.             *)
LEMMA AloneIs ==
  ASSUME OneHandler, NEW w \in Workers, FullRows', HandlerFacts(w)'
  PROVE  AloneInv'
  BY DEF OneHandler, AloneInv

(* A handler that ends, and the job that flags overdue EMIs.               *)
LEMMA AloneEnds ==
  ASSUME OneHandler, NEW w \in Workers, FullRows', pc'[w] \in {"idle", "dues"}
  PROVE  AloneInv'
<1>1. HandlerFacts(w)'
  BY DEF HandlerFacts, OrderLabels, Labels
<1> QED BY <1>1, AloneIs

(* A handler that goes on and writes no row.                               *)
LEMMA AloneMoves ==
  ASSUME OneHandler, IndInv, AloneInv, NEW w \in Workers, row' = row,
         pc[w] \in OrderLabels \ {"part"},
         pc'[w] \in Labels \ {"penalty", "bifurcate", "update", "archive"},
         pc'[w] = "part" => task[w].parts # {},
         task'[w].id = task[w].id, task'[w].i = task[w].i,
         task'[w].parts = task[w].parts, task'[w].upd = task[w].upd,
         task'[w].type = task[w].type
  PROVE  AloneInv'
<1>1. HandlerFacts(w) /\ FullRows
  BY DEF AloneInv
<1>2. task[w].i \in Nat
  BY DEF IndInv, TypeOK, Tasks
<1>3. FullRows'
  BY <1>1 DEF FullRows
<1>4. HandlerFacts(w)'
  BY <1>1, <1>2 DEF HandlerFacts
<1> QED BY <1>3, <1>4, AloneIs

(* The row of a handler before it splits anything off.                     *)
LEMMA FirstRow ==
  ASSUME IndInv, NEW w \in Workers, pc[w] \in OrderLabels
  PROVE  \E p \in Pays : /\ task[w] \in Tasks
                         /\ task[w].id = <<p, IF task[w].i = 0 THEN 1 ELSE task[w].i>>
                         /\ task[w].id[1] = p
                         /\ <<p, 1>> \in RowIds
                         /\ row[<<p, 1>>] \in RowType
<1>1. PICK p \in Pays : /\ task[w].id = <<p, IF task[w].i = 0 THEN 1 ELSE task[w].i>>
                        /\ task[w].id[1] = p
  BY OrderOfHandler
<1>2. <<p, 1>> \in RowIds
  BY ConstantsAssumption DEF RowIds
<1> QED BY <1>1, <1>2 DEF IndInv, TypeOK, RowTable

(* What an order is created with.                                          *)
Created(p, kind, e, onTime, amount) ==
  /\ \/ kind[1] = "FULLPAY" /\ amount = LoanBill
     \/ kind[1] = "EMIPAY" /\ amount = EmiBill(e)
     \/ kind[1] = "PARTPAY" /\ amount # EmiBill(e) /\ amount <= LoanBill
  /\ row' = [row EXCEPT ![<<p, 1>>] =
              [status |-> "INITIALIZED", type |-> kind[1], mode |-> kind[2],
               onTime |-> onTime, part |-> OrderPart(kind[1], e, amount)]]
  /\ price' = [price EXCEPT ![p] = amount]

(* What a new order changes: a row that did not exist.                     *)
LEMMA OrderCreated ==
  ASSUME NEW p, CreateOrder(p)
  PROVE  \E kind \in Kinds, e \in Unpaid, onTime \in BOOLEAN, amount \in Prices :
           Created(p, kind, e, onTime, amount)
<1>1. PICK kind \in Kinds, e \in Unpaid, onTime \in BOOLEAN,
           amount \in Prices :
        /\ onTime => kind[2] \in AutoDebit /\ e \notin late
        /\ \/ kind[1] = "FULLPAY" /\ amount = LoanBill
           \/ kind[1] = "EMIPAY" /\ amount = EmiBill(e)
           \/ kind[1] = "PARTPAY" /\ amount # EmiBill(e) /\ amount <= LoanBill
        /\ row' = [row EXCEPT ![<<p, 1>>] =
             [status |-> "INITIALIZED", type |-> kind[1], mode |-> kind[2],
              onTime |-> onTime, part |-> OrderPart(kind[1], e, amount)]]
        /\ price' = [price EXCEPT ![p] = amount]
  BY DEF CreateOrder
<1> QED BY <1>1 DEF Created

LEMMA AloneCreateOrder ==
  ASSUME IndInv, AloneInv, NEW p \in Pays, CreateOrder(p)
  PROVE  AloneInv'
<1>0. TypeOK
  BY DEF IndInv
<1>1. PICK kind \in Kinds, e \in Unpaid, onTime \in BOOLEAN, amount \in Prices :
        Created(p, kind, e, onTime, amount)
  BY OrderCreated
<1>2. row[<<p, 1>>].status = "NONE" /\ UNCHANGED <<pc, task>>
  BY DEF CreateOrder
<1>3. <<p, 1>> \in RowIds
  BY ConstantsAssumption DEF RowIds
<1> DEFINE new == [status |-> "INITIALIZED", type |-> kind[1], mode |-> kind[2],
                   onTime |-> onTime, part |-> OrderPart(kind[1], e, amount)]
<1>4. /\ \A r \in RowIds : r # <<p, 1>> => row'[r] = row[r]
      /\ row'[<<p, 1>>] = new
  BY <1>0, <1>1, <1>3 DEF TypeOK, RowTable, Created
<1>5. new.status = "INITIALIZED" /\ (new.type = "FULLPAY" => new.part.emi = NoEmi)
  BY DEF OrderPart
<1> HIDE DEF new
<1>6. FullRows'
  BY <1>4, <1>5 DEF AloneInv, FullRows
<1>7. ASSUME NEW w \in Workers PROVE HandlerFacts(w)'
  <2>1. HandlerFacts(w)
    BY DEF AloneInv
  <2>2. CASE pc[w] \in OrderLabels
    <3>1. PICK q \in Pays : /\ task[w].id = <<q, IF task[w].i = 0 THEN 1 ELSE task[w].i>>
                            /\ task[w].id[1] = q
                            /\ <<q, 1>> \in RowIds
      BY <2>2, FirstRow
    <3>2. q # p
      BY <1>2, <2>1, <2>2, <3>1 DEF HandlerFacts
    <3>3. /\ task[w].id \in RowIds => row'[task[w].id] = row[task[w].id]
          /\ row'[<<q, 1>>] = row[<<q, 1>>]
      BY <1>4, <3>1, <3>2
    <3>4. pc[w] # "archive"
      BY <2>2 DEF OrderLabels
    <3>5. pc[w] \in {"penalty", "bifurcate"} \/ task[w].i = 0 => task[w].id \in RowIds
      BY <3>1 DEF IndInv, HandlerOK
    <3> QED BY <1>2, <2>1, <3>1, <3>3, <3>4, <3>5 DEF HandlerFacts, PartOf, Stands
  <2>3. CASE pc[w] \notin OrderLabels
    <3>1. ASSUME pc[w] = "archive" PROVE \A r \in task[w].old : row'[r].status = "INITIALIZED"
      BY <1>0, <1>2, <1>4, <2>1, <3>1 DEF HandlerFacts, TypeOK, Tasks
    <3>2. pc[w] \notin {"penalty", "bifurcate", "part", "update"}
      BY <2>3 DEF OrderLabels, Labels
    <3> QED BY <1>2, <2>3, <3>1, <3>2 DEF HandlerFacts
  <2> QED BY <2>2, <2>3
<1> QED BY <1>6, <1>7 DEF AloneInv

LEMMA AloneEnters ==
  ASSUME OneHandler, IndInv, AloneInv, NEW w \in Workers, NEW p \in Pays,
         NEW res \in {"COMPLETED", "FAILED"}, Enter(w, p, res),
         row[<<p, 1>>].status # "NONE",
         res = "FAILED" => row[<<p, 1>>].status # "COMPLETED"
  PROVE  AloneInv'
<1> DEFINE r == row[<<p, 1>>]
           t == [NoTask EXCEPT !.id = <<p, 1>>, !.res = res, !.type = r.type,
                               !.emi = r.part.emi]
<1>1. /\ pc'[w] = IF res = "COMPLETED" THEN "penalty" ELSE "update"
      /\ task'[w] = t /\ row' = row
  BY DEF Enter, Goto, Keep, db, IndInv, TypeOK
<1>2. /\ t.id = <<p, 1>> /\ t.type = r.type /\ t.emi = r.part.emi
      /\ t.upd = NoPart /\ t.parts = {} /\ t.i = 0
  BY DEF NoTask
<1>3. t.id[1] = p
  BY <1>2
<1> HIDE DEF t
<1>4. FullRows'
  BY <1>1 DEF AloneInv, FullRows
<1>5. HandlerFacts(w)'
  BY <1>1, <1>2, <1>3 DEF HandlerFacts, PartOf, Stands
<1> QED BY <1>4, <1>5, AloneIs

LEMMA AloneEntries ==
  ASSUME OneHandler, IndInv, AloneInv, NEW w \in Workers, NEW p \in Pays,
         \/ Poll(w, p)
         \/ \E event \in {"captured", "failed"} : ManualWebhook(w, p, event)
         \/ SigndeskBatch(w, p)
  PROVE  AloneInv'
<1>1. CASE Poll(w, p)
  BY <1>1, AloneEnters DEF Poll, Polled
<1>2. ASSUME NEW event \in {"captured", "failed"}, ManualWebhook(w, p, event)
      PROVE  AloneInv'
  BY <1>2, AloneEnters DEF ManualWebhook
<1>3. CASE SigndeskBatch(w, p)
  <2>1. gw[p] = "failed" => row[<<p, 1>>].status # "COMPLETED"
    <3>1. <<p, 1>> \in RowIds /\ <<p, 1>>[1] = p
      BY ConstantsAssumption DEF RowIds
    <3> QED BY <3>1 DEF IndInv, NoPhantomPayment, Completed
  <2> QED BY <1>3, <2>1, AloneEnters DEF SigndeskBatch
<1> QED BY <1>1, <1>2, <1>3

LEMMA AloneResetPenalty ==
  ASSUME OneHandler, IndInv, AloneInv, NEW w \in Workers, ResetPenalty(w)
  PROVE  AloneInv'
<1>1. pc[w] = "penalty" /\ row' = row /\ task' = task /\ pc'[w] = "bifurcate"
  BY DEF ResetPenalty, Goto, IndInv, TypeOK
<1>2. HandlerFacts(w) /\ FullRows
  BY DEF AloneInv
<1>3. FullRows'
  BY <1>1, <1>2 DEF FullRows
<1>4. HandlerFacts(w)'
  BY <1>1, <1>2 DEF HandlerFacts, OrderLabels, Labels
<1> QED BY <1>3, <1>4, AloneIs

(* The parts of a split pay an overdue instalment each, or nothing.        *)
LEMMA SplitShapes ==
  ASSUME NEW amount, NEW part \in SplitParts(amount)
  PROVE  /\ Amount(part) > 0
         /\ \/ part.emi \in DueUnpaid /\ part.extra = 0
            \/ /\ part.emi = NoEmi /\ part.pi = 0 /\ part.charge = 0
               /\ part.extra = RestOf(amount)
<1> DEFINE Older(e) == {d \in DueUnpaid : d < e}
           afterPi == amount - Total(OwedPi, DueUnpaid)
           piOf(e) == AtMost(OwedPi(e), Positive(amount - Total(OwedPi, Older(e))))
           chargeOf(e) == AtMost(OwedCharge(e),
                                 Positive(afterPi - Total(OwedCharge, Older(e))))
           settling == {[emi |-> e, pi |-> piOf(e), charge |-> chargeOf(e),
                         extra |-> 0] : e \in DueUnpaid}
           refundable == [NoPart EXCEPT !.extra = RestOf(amount)]
<1>1. part \in settling \union {refundable} /\ Amount(part) > 0
  BY DEF SplitParts
<1>2. refundable.emi = NoEmi /\ refundable.pi = 0 /\ refundable.charge = 0
      /\ refundable.extra = RestOf(amount)
  BY DEF NoPart
<1>3. CASE part \in settling
  <2> HIDE DEF piOf, chargeOf
  <2>1. PICK e \in DueUnpaid : part = [emi |-> e, pi |-> piOf(e), charge |-> chargeOf(e),
                                       extra |-> 0]
    BY <1>3
  <2> QED BY <1>1, <2>1
<1> HIDE DEF settling, refundable
<1> QED BY <1>1, <1>2, <1>3

(* The bifurcation is for a captured order, still on its own row.          *)
LEMMA Bifurcating ==
  ASSUME IndInv, NEW w \in Workers, pc[w] \in {"penalty", "bifurcate"}
  PROVE  /\ task[w] \in Tasks /\ task[w].i = 0 /\ task[w].res = "COMPLETED"
         /\ task[w].id \in RowIds /\ row[task[w].id] \in RowType
         /\ \E p \in Pays : task[w].id = <<p, 1>> /\ task[w].id[1] = p
<1>1. pc[w] \in OrderLabels /\ pc[w] \in PaidLabels
  BY DEF OrderLabels, PaidLabels, Labels
<1>2. task[w].i = 0 /\ task[w].res = "COMPLETED"
  BY <1>1 DEF IndInv, HandlerOK
<1> QED BY <1>1, <1>2, FirstRow

(* What the bifurcation does: it ends, goes on as it is, rewrites the part *)
(* of the row, or splits it.                                               *)
Own(part, e) == IF part.emi = NoEmi THEN [part EXCEPT !.emi = e] ELSE part
OwnParts(parts, e) == {Own(part, e) : part \in parts}
Applies(r) == r.part.emi # NoEmi /\ emi[r.part.emi].due /\ ~emi[r.part.emi].paid
Bifurcated(w) ==
  LET t == task[w]
      r == row[t.id]
      parts == SplitParts(Amount(r.part))
  IN  \/ pc'[w] = "idle"
      \/ /\ ~StopsAt(r) /\ ~Applies(r)
         /\ pc'[w] = "update" /\ task'[w] = t
      \/ /\ ~StopsAt(r) /\ Applies(r)
         /\ \E part \in parts :
              /\ parts = {part}
              /\ task'[w] = [t EXCEPT !.upd = part, !.emi = part.emi]
         /\ pc'[w] = "update"
      \/ /\ ~StopsAt(r) /\ Applies(r)
         /\ pc'[w] = "part"
         /\ task'[w] = [t EXCEPT !.parts = OwnParts(parts, r.part.emi)]

(* What reCalculateBifurcation decides, and where it leaves the handler.   *)
LEMMA BifurcatedIs ==
  ASSUME IndInv, NEW w \in Workers, Bifurcate(w)
  PROVE  Bifurcated(w) /\ pc[w] = "bifurcate" /\ UNCHANGED <<db, world, aborts>>
<1>1. task \in [Workers -> Tasks] /\ pc \in [Workers -> Labels]
  BY DEF IndInv, TypeOK
<1>2. ASSUME NEW label PROVE Goto(w, label) => pc'[w] = label
  BY <1>1 DEF Goto
<1>3. ASSUME NEW t PROVE Keep(w, t) => task'[w] = t
  BY <1>1 DEF Keep
<1> QED BY <1>2, <1>3 DEF Bifurcate, Bifurcated, Applies, OwnParts, Own

LEMMA AloneBifurcate ==
  ASSUME OneHandler, IndInv, AloneInv, NEW w \in Workers, Bifurcate(w)
  PROVE  AloneInv'
<1> DEFINE t == task[w]
           r == row[t.id]
           parts == SplitParts(Amount(r.part))
<1>1. /\ pc[w] = "bifurcate" /\ row' = row /\ emi' = emi
      /\ Bifurcated(w) /\ HandlerFacts(w) /\ FullRows
  BY BifurcatedIs DEF AloneInv, db
<1>2. t \in Tasks /\ t.i = 0 /\ t.id \in RowIds /\ r \in RowType
  BY <1>1, Bifurcating
<1>3. /\ t.upd = NoPart /\ t.parts = {} /\ t.type = r.type /\ t.emi = r.part.emi
      /\ row[<<t.id[1], 1>>].status # "NONE"
  BY <1>1, <1>2 DEF HandlerFacts, OrderLabels, Labels
<1>4. FullRows'
  BY <1>1 DEF FullRows
<1>5. ~StopsAt(r) => Stands(t.id) /\ r.status # "COMPLETED"
  BY <1>2 DEF StopsAt, Stands
<1>7. CASE pc'[w] = "idle"
  BY <1>4, <1>7, AloneEnds
<1>8. CASE ~StopsAt(r) /\ pc'[w] = "update" /\ task'[w] = t
  <2>1. PartOf(w)' = r.part
    BY <1>1, <1>3, <1>8 DEF PartOf
  <2>2. HandlerFacts(w)'
    BY <1>1, <1>2, <1>3, <1>5, <1>8, <2>1 DEF HandlerFacts
  <2> QED BY <1>4, <2>2, AloneIs
<1>9. ASSUME NEW part \in parts, ~StopsAt(r), Applies(r), pc'[w] = "update",
             task'[w] = [t EXCEPT !.upd = part, !.emi = part.emi]
      PROVE  AloneInv'
  <2>1. \/ part.emi \in DueUnpaid
        \/ part.emi = NoEmi /\ part.pi = 0 /\ part.charge = 0
    BY SplitShapes
  <2>2. /\ task'[w].upd = part /\ task'[w].emi = part.emi /\ task'[w].id = t.id
        /\ task'[w].i = 0 /\ task'[w].parts = {} /\ task'[w].type = t.type
    BY <1>2, <1>3, <1>9 DEF Tasks
  <2>3. r.type # "FULLPAY"
    BY <1>1, <1>2, <1>9 DEF FullRows, Applies
  <2>4. part # NoPart
    <3>1. Amount(part) > 0
      BY SplitShapes
    <3> QED BY <3>1 DEF Amount, NoPart
  <2>5. part \in Parts
    <3>1. Amount(r.part) \in Nat
      BY <1>2 DEF RowType, Parts, Money, Amount
    <3> QED BY <3>1, SplitPartsType
  <2>6. \/ PartOf(w)'.emi = part.emi
        \/ PartOf(w)'.pi = 0 /\ PartOf(w)'.charge = 0
    <3>1. PartOf(w)' = IF part.emi = NoEmi THEN [part EXCEPT !.emi = r.part.emi] ELSE part
      BY <1>1, <2>2, <2>4 DEF PartOf
    <3>2. PICK q : q = PartOf(w)'
      OBVIOUS
    <3>3. \/ q.emi = part.emi
          \/ q.pi = 0 /\ q.charge = 0
      <4>1. CASE part.emi = NoEmi
        <5>1. part.pi = 0 /\ part.charge = 0
          BY <2>1, <4>1 DEF DueUnpaid, Unpaid, Emis, NoEmi
        <5> QED BY <2>5, <3>1, <3>2, <4>1, <5>1 DEF Parts
      <4>2. CASE part.emi # NoEmi
        BY <3>1, <3>2, <4>2
      <4> QED BY <4>1, <4>2
    <3> QED BY <3>2, <3>3
  <2>7. HandlerFacts(w)'
    BY <1>1, <1>3, <1>5, <1>9, <2>2, <2>3, <2>6 DEF HandlerFacts
  <2> QED BY <1>4, <2>7, AloneIs
<1>10. CASE /\ ~StopsAt(r) /\ pc'[w] = "part"
            /\ task'[w] = [t EXCEPT !.parts = OwnParts(parts, r.part.emi)]
  <2>1. /\ task'[w].parts = OwnParts(parts, r.part.emi) /\ task'[w].id = t.id
        /\ task'[w].i = 0 /\ task'[w].upd = NoPart
    BY <1>2, <1>3, <1>10 DEF Tasks
  <2>2. ASSUME NEW own \in OwnParts(parts, r.part.emi), own.extra > 0
        PROVE  own.pi = 0 /\ own.charge = 0
    <3>1. PICK part \in parts : own = Own(part, r.part.emi)
      BY DEF OwnParts
    <3>2. part \in Parts
      <4>1. Amount(r.part) \in Nat
        BY <1>2 DEF RowType, Parts, Money, Amount
      <4> QED BY <4>1, SplitPartsType
    <3>3. own.extra = part.extra /\ own.pi = part.pi /\ own.charge = part.charge
      BY <3>1, <3>2 DEF Own, Parts
    <3>4. part.extra = 0 \/ (part.pi = 0 /\ part.charge = 0)
      BY SplitShapes
    <3> QED BY <2>2, <3>3, <3>4
  <2>3. HandlerFacts(w)'
    BY <1>1, <1>3, <1>5, <1>10, <2>1, <2>2 DEF HandlerFacts
  <2> QED BY <1>4, <2>3, AloneIs
<1> QED BY <1>1, <1>7, <1>8, <1>9, <1>10 DEF Bifurcated

(* One part of a split is written: over the order's own row the first time *)
(* round, into a row that is not in the table after that.                  *)
Parted(w, p, i, part) ==
  LET t == task[w]
      id == <<p, i>>
      new == [row[t.id] EXCEPT !.status = IF part.extra > 0 THEN "COMPLETED"
                                          ELSE "INITIALIZED",
                               !.type = "PARTPAY", !.part = part]
  IN  /\ t \in Tasks /\ t.id[1] = p /\ i = t.i + 1 /\ i \in Nat \ {0}
      /\ t.id = <<p, IF t.i = 0 THEN 1 ELSE t.i>> /\ t.res = "COMPLETED"
      /\ part \in t.parts /\ part \in Parts /\ First(part, t.parts)
      /\ i = 1 \/ row[id].status \in Gone
      /\ \A r \in RowIds : r # id => row'[r] = row[r]
      /\ id \in RowIds => /\ t.id \in RowIds /\ row[t.id] \in RowType /\ row[id] \in RowType
                          /\ row'[id] = IF i = 1 /\ row[id].status \in Gone
                                          THEN row[id] ELSE new
      /\ \/ part.extra > 0 /\ pc'[w] = "idle"
         \/ /\ ~(part.extra > 0) /\ pc'[w] = "update"
            /\ task'[w] = [t EXCEPT !.id = id, !.i = i, !.type = "PARTPAY",
                                    !.emi = part.emi, !.parts = @ \ {part}]

(* One turn of the loop over the parts.                                    *)
LEMMA PartedIs ==
  ASSUME IndInv, NEW w \in Workers, SplitPart(w)
  PROVE  /\ pc[w] = "part"
         /\ UNCHANGED <<emi, loan, user, trace, charges, world, aborts>>
         /\ \/ row' = row /\ pc'[w] = "idle"
            \/ \E p \in Pays, i \in Nat, part \in task[w].parts : Parted(w, p, i, part)
<1> DEFINE t == task[w]
           i == t.i + 1
           id == <<t.id[1], i>>
           rowOf(part) == [row[t.id] EXCEPT
                             !.status = IF part.extra > 0 THEN "COMPLETED"
                                        ELSE "INITIALIZED",
                             !.type = "PARTPAY", !.part = part]
<1>1. pc[w] = "part" /\ UNCHANGED <<emi, loan, user, trace, charges, world, aborts>>
  BY DEF SplitPart
<1>2. task \in [Workers -> Tasks] /\ pc \in [Workers -> Labels] /\ row \in RowTable
  BY DEF IndInv, TypeOK
<1>3. ASSUME NEW label PROVE Goto(w, label) => pc'[w] = label
  BY <1>2 DEF Goto
<1>4. ASSUME NEW s PROVE Keep(w, s) => task'[w] = s
  BY <1>2 DEF Keep
<1>5. CASE row' = row /\ Goto(w, "idle")
  BY <1>1, <1>3, <1>5
<1>6. ASSUME i = 1 \/ row[id].status \in Gone,
             NEW part \in t.parts, First(part, t.parts),
             row' = [row EXCEPT ![id] =
                      IF i = 1 /\ @.status \in Gone THEN @ ELSE rowOf(part)],
             IF part.extra > 0
               THEN Goto(w, "idle") /\ Keep(w, NoTask)
               ELSE /\ Goto(w, "update")
                    /\ Keep(w, [t EXCEPT !.id = id, !.i = i, !.type = "PARTPAY",
                                         !.emi = part.emi, !.parts = @ \ {part}])
      PROVE  \E p \in Pays, k \in Nat : Parted(w, p, k, part)
  <2>1. PICK p \in Pays : /\ t \in Tasks
                          /\ t.id = <<p, IF t.i = 0 THEN 1 ELSE t.i>>
                          /\ t.id[1] = p
    BY <1>1, OrderOfHandler DEF OrderLabels, Labels
  <2>2. t.res = "COMPLETED"
    BY <1>1 DEF IndInv, HandlerOK, PaidLabels, OrderLabels, Labels
  <2>3. i \in Nat \ {0} /\ part \in Parts /\ id = <<p, i>>
    BY <2>1 DEF Tasks
  <2>4. \A r \in RowIds : r # id => row'[r] = row[r]
    BY <1>2, <1>6 DEF RowTable
  <2>5. id \in RowIds => /\ t.id \in RowIds /\ row[t.id] \in RowType /\ row[id] \in RowType
                         /\ row'[id] = IF i = 1 /\ row[id].status \in Gone
                                         THEN row[id] ELSE rowOf(part)
    <3>1. id \in RowIds => t.id \in RowIds
      BY <2>1, <2>3, ConstantsAssumption DEF RowIds, Tasks
    <3> HIDE DEF id, i, rowOf
    <3> QED BY <1>2, <1>6, <3>1 DEF RowTable
  <2>6. \/ part.extra > 0 /\ pc'[w] = "idle"
        \/ /\ ~(part.extra > 0) /\ pc'[w] = "update"
           /\ task'[w] = [t EXCEPT !.id = id, !.i = i, !.type = "PARTPAY",
                                   !.emi = part.emi, !.parts = @ \ {part}]
    BY <1>3, <1>4, <1>6
  <2>7. Parted(w, p, i, part)
    BY <1>6, <2>1, <2>2, <2>3, <2>4, <2>5, <2>6 DEF Parted
  <2> QED BY <2>3, <2>7
<1> QED BY <1>1, <1>5, <1>6 DEF SplitPart

LEMMA AloneSplitPart ==
  ASSUME OneHandler, IndInv, AloneInv, NEW w \in Workers, SplitPart(w)
  PROVE  AloneInv'
<1> DEFINE t == task[w]
<1>1. pc[w] = "part" /\ HandlerFacts(w) /\ FullRows /\ t \in Tasks
  BY PartedIs DEF AloneInv, IndInv, TypeOK
<1>2. CASE row' = row /\ pc'[w] = "idle"
  <2>1. FullRows'
    BY <1>1, <1>2 DEF FullRows
  <2> QED BY <1>2, <2>1, AloneEnds
<1>3. ASSUME NEW p \in Pays, NEW i \in Nat, NEW part \in t.parts, Parted(w, p, i, part)
      PROVE  AloneInv'
  <2> DEFINE id == <<p, i>>
             new == [row[t.id] EXCEPT !.status = IF part.extra > 0 THEN "COMPLETED"
                                                 ELSE "INITIALIZED",
                                      !.type = "PARTPAY", !.part = part]
  <2>1. \A r \in RowIds : \/ row'[r] = row[r]
                          \/ r = id /\ row[t.id] \in RowType /\ row'[r] = new
    BY <1>3 DEF Parted
  <2>2. row[t.id] \in RowType => new.type = "PARTPAY" /\ new.part = part
                                 /\ new.status = IF part.extra > 0 THEN "COMPLETED"
                                                 ELSE "INITIALIZED"
    BY DEF RowType
  <2>3. FullRows'
    <3> HIDE DEF new
    <3> QED BY <1>1, <2>1, <2>2 DEF FullRows
  <2>4. CASE pc'[w] = "idle"
    BY <2>3, <2>4, AloneEnds
  <2>5. CASE pc'[w] # "idle"
    <3>1. /\ ~(part.extra > 0) /\ pc'[w] = "update"
          /\ task'[w] = [t EXCEPT !.id = id, !.i = i, !.type = "PARTPAY",
                                  !.emi = part.emi, !.parts = @ \ {part}]
      BY <1>3, <2>5 DEF Parted
    <3>2. /\ task'[w].id = id /\ task'[w].i = i /\ task'[w].type = "PARTPAY"
          /\ task'[w].emi = part.emi /\ task'[w].parts = t.parts \ {part}
          /\ task'[w].upd = t.upd
      BY <1>1, <3>1 DEF Tasks
    <3>3. t.upd = NoPart /\ row[<<p, 1>>].status # "NONE"
      BY <1>1, <1>3 DEF HandlerFacts, OrderLabels, Labels, Parted
    <3>4. row'[<<p, 1>>].status # "NONE"
      <4>1. <<p, 1>> \in RowIds
        BY ConstantsAssumption DEF RowIds
      <4> HIDE DEF new
      <4> QED BY <2>1, <2>2, <3>3, <4>1
    <3>5. Stands(id)' => row'[id] = new /\ row[t.id] \in RowType
      <4>1. Stands(id)' => id \in RowIds /\ row'[id].status \notin Gone
        BY DEF Stands
      <4>2. id \in RowIds =>
              (row'[id] = new /\ row[t.id] \in RowType) \/ row'[id].status \in Gone
        <5> HIDE DEF new
        <5>1. id \in RowIds => row[t.id] \in RowType /\
                               (row'[id] = new \/ (row'[id] = row[id] /\ row[id].status \in Gone))
          BY <1>3 DEF Parted, new
        <5> QED BY <5>1
      <4> HIDE DEF new
      <4> QED BY <4>1, <4>2
    <3>6. PartOf(w)' = row'[id].part
      BY <3>2, <3>3 DEF PartOf
    <3>7. Stands(id)' => /\ row'[id].status # "COMPLETED" /\ row'[id].type = "PARTPAY"
                         /\ PartOf(w)'.emi = part.emi
      <4> HIDE DEF new, id
      <4> QED BY <2>2, <3>1, <3>5, <3>6
    <3>8. \A other \in t.parts : other.extra > 0 => other.pi = 0 /\ other.charge = 0
      BY <1>1 DEF HandlerFacts, OrderLabels, Labels
    <3>9. id[1] = p /\ i > 0
      BY <1>3 DEF Parted
    <3>10. HandlerFacts(w)'
      <4> HIDE DEF new, id
      <4> QED BY <1>3, <3>1, <3>2, <3>3, <3>4, <3>7, <3>8, <3>9 DEF HandlerFacts
    <3> QED BY <2>3, <3>10, AloneIs
  <2> QED BY <2>4, <2>5
<1> QED BY <1>2, <1>3, PartedIs

(* Two handlers' locals that name the same work.                           *)
SameWork(s, t) ==
  /\ s.id = t.id /\ s.i = t.i /\ s.parts = t.parts /\ s.upd = t.upd
  /\ s.emi = t.emi /\ s.res = t.res /\ s.type = t.type

(* The steps between writing a row and returning.                          *)
Follows(w) ==
  \/ BounceRead(w) \/ BounceTrace(w) \/ BounceWrite(w)
  \/ PartRead(w) \/ PartWrite(w) \/ FullRead(w) \/ FullWrite(w)
  \/ StatusRead(w) \/ StatusWrite(w) \/ RecalcRead(w) \/ RecalcWrite(w)
  \/ CloseCheck(w) \/ CloseTheLoan(w) \/ ReadUser(w) \/ GiveReferral(w)
  \/ CountLoan(w)
FollowLabels == OrderLabels \ {"penalty", "bifurcate", "part", "update"}
Followed(w) ==
  \/ pc'[w] = "idle"
  \/ /\ pc'[w] \in FollowLabels \union {"part"}
     /\ pc'[w] = "part" => task[w].parts # {}
     /\ SameWork(task'[w], task[w])

(* What the steps after the row is written have in common.                 *)
LEMMA FollowedIs ==
  ASSUME IndInv, NEW w \in Workers, Follows(w)
  PROVE  row' = row /\ pc[w] \in FollowLabels /\ Followed(w)
<1>1. task \in [Workers -> Tasks] /\ pc \in [Workers -> Labels]
  BY DEF IndInv, TypeOK
<1>2. ASSUME NEW label PROVE Goto(w, label) => pc'[w] = label
  BY <1>1 DEF Goto
<1>3. ASSUME UNCHANGED task PROVE SameWork(task'[w], task[w])
  BY <1>3 DEF SameWork
<1>4. ASSUME Return(w) PROVE Followed(w)
  <2>1. CASE task[w].parts # {}
    <3>1. Goto(w, "part") /\ UNCHANGED task
      BY <1>4, <2>1 DEF Return
    <3>2. pc'[w] = "part" /\ SameWork(task'[w], task[w])
      BY <1>2, <1>3, <3>1
    <3> QED BY <2>1, <3>2 DEF Followed
  <2>2. CASE task[w].parts = {}
    <3>1. Goto(w, "idle")
      BY <1>4, <2>2 DEF Return
    <3> QED BY <1>2, <3>1 DEF Followed
  <2> QED BY <2>1, <2>2
<1>5. ASSUME NEW label \in FollowLabels \union {"idle"}
      PROVE  Goto(w, label) /\ UNCHANGED task => Followed(w)
  <2> SUFFICES ASSUME Goto(w, label), UNCHANGED task PROVE Followed(w)
    OBVIOUS
  <2>1. pc'[w] = label /\ SameWork(task'[w], task[w])
    BY <1>2, <1>3
  <2>2. "part" \notin FollowLabels
    BY DEF FollowLabels
  <2>3. label # "part"
    BY <1>5, <2>2
  <2>4. label = "idle" \/ label \in FollowLabels
    BY <1>5
  <2>5. CASE label = "idle"
    BY <2>1, <2>5 DEF Followed
  <2>6. CASE label \in FollowLabels
    <3>1. pc'[w] \in FollowLabels \union {"part"} /\ pc'[w] # "part"
      BY <2>1, <2>3, <2>6
    <3> QED BY <2>1, <3>1 DEF Followed
  <2> QED BY <2>4, <2>5, <2>6
<1>6. ASSUME NEW label \in FollowLabels, NEW t, SameWork(t, task[w])
      PROVE  Goto(w, label) /\ Keep(w, t) => Followed(w)
  <2> SUFFICES ASSUME Goto(w, label), Keep(w, t) PROVE Followed(w)
    OBVIOUS
  <2>1. task'[w] = t
    BY <1>1 DEF Keep
  <2>2. pc'[w] = label
    BY <1>2
  <2>3. "part" \notin FollowLabels
    BY DEF FollowLabels
  <2>4. pc'[w] \in FollowLabels \union {"part"} /\ pc'[w] # "part"
    BY <1>6, <2>2, <2>3
  <2> QED BY <1>6, <2>1, <2>4 DEF Followed
<1>7. Goto(w, "idle") => Followed(w)
  BY <1>2 DEF Followed
<1>8. {"bounceRead", "bounceTrace", "bounceWrite", "partRead", "partWrite", "fullRead",
       "fullWrite", "userStatus", "userWrite", "recalcRead", "recalcWrite", "closeCheck",
       "close", "readUser", "referral", "countLoan"} \subseteq FollowLabels
  BY DEF FollowLabels, OrderLabels, Labels
<1> DEFINE t == task[w]
<1>9. t \in Tasks
  BY <1>1
<1>10. CASE BounceRead(w)
  BY <1>5, <1>7, <1>8, <1>10 DEF BounceRead, db
<1>11. CASE BounceTrace(w) \/ BounceWrite(w)
  BY <1>5, <1>7, <1>8, <1>11 DEF BounceTrace, BounceWrite
<1>12. CASE PartRead(w)
  <2>1. \A a, b, c : SameWork([t EXCEPT !.pay = a, !.left = b, !.done = c], t)
    BY <1>9 DEF Tasks, SameWork
  <2>2. row' = row /\ pc[w] = "partRead"
    BY <1>12 DEF PartRead, db
  <2>3. CASE Return(w)
    BY <1>4, <1>8, <2>2, <2>3
  <2>4. CASE Goto(w, "userStatus") /\ UNCHANGED task
    BY <1>5, <1>8, <2>2, <2>4
  <2>5. ASSUME NEW a, NEW b, NEW c, Goto(w, "partWrite"),
               Keep(w, [t EXCEPT !.pay = a, !.left = b, !.done = c])
        PROVE  Followed(w)
    BY <1>6, <1>8, <2>1, <2>5
  <2> QED BY <1>8, <1>12, <2>2, <2>3, <2>4, <2>5 DEF PartRead
<1>13. CASE PartWrite(w) \/ StatusWrite(w) \/ CloseTheLoan(w) \/ GiveReferral(w)
  BY <1>5, <1>8, <1>13 DEF PartWrite, StatusWrite, CloseTheLoan, GiveReferral
<1>14. CASE FullRead(w)
  <2>1. \A a : SameWork([t EXCEPT !.ids = a], t)
    BY <1>9 DEF Tasks, SameWork
  <2>2. ASSUME NEW a PROVE Goto(w, "fullWrite") /\ Keep(w, [t EXCEPT !.ids = a]) => Followed(w)
    BY <1>6, <1>8, <2>1
  <2> QED BY <1>4, <1>8, <1>14, <2>2 DEF FullRead, db
<1>15. CASE FullWrite(w)
  <2>1. \A a : SameWork([t EXCEPT !.ids = a], t)
    BY <1>9 DEF Tasks, SameWork
  <2>2. ASSUME NEW a, UNCHANGED pc, Keep(w, [t EXCEPT !.ids = a]), pc[w] = "fullWrite"
        PROVE  Followed(w)
    BY <1>1, <1>8, <2>1, <2>2 DEF Followed, Keep
  <2> QED BY <1>5, <1>8, <1>15, <2>2 DEF FullWrite
<1>16. CASE RecalcRead(w)
  <2>1. \A a, b : SameWork([t EXCEPT !.ids = a, !.sums = b], t)
    BY <1>9 DEF Tasks, SameWork
  <2>2. ASSUME NEW a, NEW b
        PROVE  Goto(w, "recalcWrite") /\ Keep(w, [t EXCEPT !.ids = a, !.sums = b]) => Followed(w)
    BY <1>6, <1>8, <2>1
  <2> QED BY <1>5, <1>8, <1>16, <2>2 DEF RecalcRead, db
<1>17. CASE RecalcWrite(w)
  <2>1. \A a : SameWork([t EXCEPT !.ids = a], t) /\ SameWork([t EXCEPT !.sums = a], t)
    BY <1>9 DEF Tasks, SameWork
  <2>2. ASSUME NEW a, UNCHANGED pc, Keep(w, [t EXCEPT !.ids = a]), pc[w] = "recalcWrite"
        PROVE  Followed(w)
    BY <1>1, <1>8, <2>1, <2>2 DEF Followed, Keep
  <2>3. ASSUME NEW a PROVE Goto(w, "closeCheck") /\ Keep(w, [t EXCEPT !.sums = a]) => Followed(w)
    BY <1>6, <1>8, <2>1
  <2> QED BY <1>8, <1>17, <2>2, <2>3 DEF RecalcWrite
<1>18. CASE CloseCheck(w)
  BY <1>4, <1>5, <1>8, <1>18 DEF CloseCheck, db
<1>19. CASE ReadUser(w)
  <2>1. \A a : SameWork([t EXCEPT !.seen = a], t)
    BY <1>9 DEF Tasks, SameWork
  <2>2. ASSUME NEW label \in {"referral", "countLoan"}, NEW a
        PROVE  Goto(w, label) /\ Keep(w, [t EXCEPT !.seen = a]) => Followed(w)
    BY <1>6, <1>8, <2>1
  <2> QED BY <1>8, <1>19, <2>2 DEF ReadUser, db
<1>20. CASE CountLoan(w)
  BY <1>4, <1>8, <1>20 DEF CountLoan
<1>21. CASE StatusRead(w)
  <2>1. \A a : SameWork([t EXCEPT !.status = a], t)
    BY <1>9 DEF Tasks, SameWork
  <2>2. ASSUME NEW a
        PROVE  Goto(w, "userWrite") /\ Keep(w, [t EXCEPT !.status = a]) => Followed(w)
    BY <1>6, <1>8, <2>1
  <2> QED BY <1>8, <1>21, <2>2 DEF StatusRead, db
<1> QED BY <1>10, <1>11, <1>12, <1>13, <1>14, <1>15, <1>16, <1>17, <1>18, <1>19, <1>20,
           <1>21 DEF Follows

LEMMA AloneFollows ==
  ASSUME OneHandler, IndInv, AloneInv, NEW w \in Workers, Follows(w)
  PROVE  AloneInv'
<1>1. row' = row /\ pc[w] \in FollowLabels /\ Followed(w)
  BY FollowedIs
<1>2. CASE pc'[w] = "idle"
  BY <1>1, <1>2, AloneEnds DEF AloneInv, FullRows
<1>3. CASE pc'[w] # "idle"
  BY <1>1, <1>3, AloneMoves DEF Followed, FollowLabels, OrderLabels, SameWork, Labels
<1> QED BY <1>2, <1>3

(* What markTransactionAsComplete writes into its row.                     *)
SettledRow(w) == [row[task[w].id] EXCEPT !.status = task[w].res, !.part = PartOf(w)]
Updated(w) ==
  LET t == task[w]
      id == task[w].id
  IN  /\ t \in Tasks
      /\ \A r \in RowIds : r # id => row'[r] = row[r]
      /\ \/ /\ t.res = "COMPLETED" /\ row[id].status \in Gone /\ row' = row
            /\ \/ pc'[w] = "part" /\ t.parts # {} /\ task'[w] = t
               \/ pc'[w] = "idle"
         \/ /\ t.res = "COMPLETED" /\ row[id].status \notin Gone
            /\ id \in RowIds => row'[id] = SettledRow(w)
            /\ pc'[w] = IF t.type = "FULLPAY" THEN "fullRead" ELSE "partRead"
            /\ task'[w] = t
         \/ /\ t.res = "FAILED"
            /\ id \in RowIds => row'[id] = IF row[id].status \in Gone THEN row[id]
                                           ELSE SettledRow(w)
            /\ pc'[w] = "bounceRead" /\ task'[w] = t

(* What becomes of the row of the handler.                                 *)
LEMMA UpdatedIs ==
  ASSUME IndInv, NEW w \in Workers, UpdateTransaction(w)
  PROVE  /\ pc[w] = "update" /\ Updated(w)
         /\ UNCHANGED <<emi, loan, user, trace, charges, world, aborts>>
<1>1. task \in [Workers -> Tasks] /\ pc \in [Workers -> Labels] /\ row \in RowTable
  BY DEF IndInv, TypeOK
<1>2. ASSUME NEW label PROVE Goto(w, label) => pc'[w] = label
  BY <1>1 DEF Goto
<1> DEFINE id == task[w].id
           t == task[w]
           part == IF t.upd = NoPart THEN row[id].part
                   ELSE IF t.upd.emi = NoEmi
                     THEN [t.upd EXCEPT !.emi = row[id].part.emi]
                   ELSE t.upd
           settled == [row[id] EXCEPT !.status = t.res, !.part = part]
<1>3. settled = SettledRow(w)
  BY DEF SettledRow, PartOf
<1>4. /\ pc[w] = "update"
      /\ UNCHANGED <<emi, loan, user, trace, charges, world, aborts>>
      /\ \/ t.res = "COMPLETED" /\ row[id].status \in Gone /\ Return(w) /\ UNCHANGED row
         \/ /\ t.res = "COMPLETED" /\ row[id].status \notin Gone
            /\ row' = [row EXCEPT ![id] = settled]
            /\ Goto(w, IF t.type = "FULLPAY" THEN "fullRead" ELSE "partRead")
            /\ UNCHANGED task
         \/ /\ t.res = "FAILED"
            /\ row' = [row EXCEPT ![id] =
                         IF @.status \in Gone THEN @ ELSE settled]
            /\ Goto(w, "bounceRead")
            /\ UNCHANGED task
  BY DEF UpdateTransaction
<1>5. Return(w) => \/ pc'[w] = "part" /\ t.parts # {} /\ task'[w] = t
                   \/ pc'[w] = "idle"
  BY <1>2 DEF Return
<1> HIDE DEF settled, id, t
<1>6. /\ t \in Tasks
      /\ \A r \in RowIds : r # id => row'[r] = row[r]
      /\ \/ /\ t.res = "COMPLETED" /\ row[id].status \in Gone /\ row' = row
            /\ \/ pc'[w] = "part" /\ t.parts # {} /\ task'[w] = t
               \/ pc'[w] = "idle"
         \/ /\ t.res = "COMPLETED" /\ row[id].status \notin Gone
            /\ id \in RowIds => row'[id] = settled
            /\ pc'[w] = IF t.type = "FULLPAY" THEN "fullRead" ELSE "partRead"
            /\ task'[w] = t
         \/ /\ t.res = "FAILED"
            /\ id \in RowIds => row'[id] = IF row[id].status \in Gone THEN row[id]
                                           ELSE settled
            /\ pc'[w] = "bounceRead" /\ task'[w] = t
  <2>1. t \in Tasks /\ t = task[w]
    BY <1>1 DEF t
  <2> QED BY <1>1, <1>2, <1>4, <1>5, <2>1 DEF RowTable
<1> QED BY <1>3, <1>4, <1>6 DEF Updated, t, id

LEMMA UpdatedRows ==
  ASSUME IndInv, NEW w \in Workers, UpdateTransaction(w)
  PROVE  \A r \in RowIds :
           \/ row'[r] = row[r]
           \/ /\ r = task[w].id /\ Stands(r) /\ row'[r] = SettledRow(w)
              /\ row'[r].status = task[w].res /\ row'[r].type = row[r].type
              /\ row'[r].mode = row[r].mode /\ row'[r].part = PartOf(w)
<1>1. Updated(w) /\ row \in RowTable
  BY UpdatedIs DEF IndInv, TypeOK
<1>2. TAKE r \in RowIds
<1>3. \/ row'[r] = row[r]
      \/ r = task[w].id /\ Stands(r) /\ row'[r] = SettledRow(w)
  BY <1>1 DEF Updated, Stands
<1>4. row[r] \in RowType
  BY <1>1 DEF RowTable
<1>5. r = task[w].id =>
        /\ SettledRow(w).status = task[w].res /\ SettledRow(w).type = row[r].type
        /\ SettledRow(w).mode = row[r].mode /\ SettledRow(w).part = PartOf(w)
  BY <1>4 DEF SettledRow, RowType
<1> QED BY <1>3, <1>5

LEMMA AloneUpdateTransaction ==
  ASSUME OneHandler, IndInv, AloneInv, NEW w \in Workers, UpdateTransaction(w)
  PROVE  AloneInv'
<1> DEFINE t == task[w]
<1>1. pc[w] = "update" /\ Updated(w) /\ HandlerFacts(w) /\ FullRows
  BY UpdatedIs DEF AloneInv
<1>2. PICK p \in Pays : /\ t \in Tasks /\ t.id[1] = p /\ <<p, 1>> \in RowIds
                        /\ row[<<p, 1>>].status # "NONE"
  BY <1>1, FirstRow DEF HandlerFacts, OrderLabels, Labels
<1>3. FullRows'
  <2>1. ASSUME NEW r \in RowIds, row'[r].type = "FULLPAY" PROVE row'[r].part.emi = NoEmi
    <3>1. CASE row'[r] = row[r]
      BY <1>1, <2>1, <3>1 DEF FullRows
    <3>2. CASE /\ r = t.id /\ Stands(r) /\ row'[r].type = row[r].type
               /\ row'[r].part = PartOf(w)
      <4>1. t.upd = NoPart
        BY <1>1, <2>1, <3>2 DEF HandlerFacts
      <4> QED BY <1>1, <2>1, <3>2, <4>1 DEF FullRows, PartOf
    <3> QED BY <3>1, <3>2, UpdatedRows
  <2> QED BY <2>1 DEF FullRows
<1>4. row'[<<p, 1>>].status # "NONE"
  BY <1>2, UpdatedRows DEF Tasks
<1>5. CASE pc'[w] = "idle"
  BY <1>3, <1>5, AloneEnds
<1>6. CASE pc'[w] # "idle"
  <2>1. /\ task'[w] = t /\ pc'[w] \in {"part", "fullRead", "partRead", "bounceRead"}
        /\ pc'[w] = "part" => t.parts # {}
    BY <1>1, <1>6 DEF Updated
  <2>2. /\ t.i = 0 => t.parts = {}
        /\ t.i > 0 => t.upd = NoPart /\ t.type = "PARTPAY"
        /\ \A part \in t.parts : part.extra > 0 => part.pi = 0 /\ part.charge = 0
        /\ t.i \in Nat
    BY <1>1, <1>2 DEF HandlerFacts, OrderLabels, Labels, Tasks
  <2>3. HandlerFacts(w)'
    BY <1>2, <1>4, <2>1, <2>2 DEF HandlerFacts
  <2> QED BY <1>3, <2>3, AloneIs
<1> QED BY <1>5, <1>6

LEMMA AloneJobs ==
  ASSUME OneHandler, IndInv, AloneInv, NEW w \in Workers,
         DuesRead(w) \/ DuesWrite(w) \/ ArchiveRead(w) \/ ArchiveDelete(w) \/ Abort(w)
  PROVE  AloneInv'
<1>1. task \in [Workers -> Tasks] /\ pc \in [Workers -> Labels] /\ row \in RowTable
  BY DEF IndInv, TypeOK
<1>2. FullRows /\ HandlerFacts(w)
  BY DEF AloneInv
<1>3. CASE DuesRead(w) \/ DuesWrite(w) \/ Abort(w)
  <2>1. row' = row /\ pc'[w] \in {"idle", "dues"}
    BY <1>1, <1>3 DEF DuesRead, DuesWrite, Abort, Goto, db
  <2> QED BY <1>2, <2>1, AloneEnds DEF FullRows
<1>4. CASE ArchiveRead(w)
  <2>1. PICK old \in SUBSET {r \in RowIds : row[r].status = "INITIALIZED"} :
          Keep(w, [NoTask EXCEPT !.old = old])
    BY <1>4 DEF ArchiveRead
  <2>2. row' = row /\ pc'[w] = "archive" /\ task'[w].old = old
    BY <1>1, <1>4, <2>1 DEF ArchiveRead, Goto, Keep, db, NoTask
  <2>3. FullRows'
    BY <1>2, <2>2 DEF FullRows
  <2>4. HandlerFacts(w)'
    BY <2>2 DEF HandlerFacts, OrderLabels
  <2> QED BY <2>3, <2>4, AloneIs
<1>5. CASE ArchiveDelete(w)
  <2>1. /\ row' = [r \in RowIds |-> IF r \in task[w].old
                                     THEN [row[r] EXCEPT !.status = "ARCHIVED"]
                                   ELSE row[r]]
        /\ pc'[w] = "idle"
    BY <1>1, <1>5 DEF ArchiveDelete, Goto
  <2>2. FullRows'
    BY <1>1, <1>2, <2>1 DEF FullRows, RowTable, RowType
  <2> QED BY <2>1, <2>2, AloneEnds
<1> QED BY <1>3, <1>4, <1>5

(* AloneInv is inductive, together with IndInv.                            *)
LEMMA AloneInductive ==
  ASSUME OneHandler, IndInv, AloneInv, [Next]_vars
  PROVE  AloneInv'
<1>1. CASE UNCHANGED vars
  BY <1>1, AloneStands DEF vars
<1>2. ASSUME NEW p \in Pays, CreateOrder(p) \/ GatewayCapture(p) \/ GatewayFail(p)
      PROVE  AloneInv'
  BY <1>2, AloneCreateOrder, AloneStands DEF GatewayCapture, GatewayFail, db
<1>3. CASE DatePasses
  BY <1>3, AloneStands DEF DatePasses, db
<1>4. ASSUME NEW w \in Workers, NEW p \in Pays,
             \/ Poll(w, p)
             \/ \E event \in {"captured", "failed"} : ManualWebhook(w, p, event)
             \/ SigndeskBatch(w, p)
      PROVE  AloneInv'
  BY <1>4, AloneEntries
<1>5. ASSUME NEW w \in Workers,
             DuesRead(w) \/ ArchiveRead(w) \/ Advance(w) \/ Abort(w)
      PROVE  AloneInv'
  <2>1. CASE ResetPenalty(w)
    BY <2>1, AloneResetPenalty
  <2>2. CASE Bifurcate(w)
    BY <2>2, AloneBifurcate
  <2>3. CASE SplitPart(w)
    BY <2>3, AloneSplitPart
  <2>4. CASE UpdateTransaction(w)
    BY <2>4, AloneUpdateTransaction
  <2>5. CASE Follows(w)
    BY <2>5, AloneFollows
  <2>6. CASE DuesRead(w) \/ DuesWrite(w) \/ ArchiveRead(w) \/ ArchiveDelete(w) \/ Abort(w)
    BY <2>6, AloneJobs
  <2> QED BY <1>5, <2>1, <2>2, <2>3, <2>4, <2>5, <2>6 DEF Advance, Follows
<1> QED BY <1>1, <1>2, <1>3, <1>4, <1>5 DEF Next

-----------------------------------------------------------------------------
(* The reward of the referrer.                                             *)

ClosingLabels == {"recalcRead", "recalcWrite", "closeCheck", "close", "readUser"}
NoneDue == \A e \in Emis : ~emi[e].due

(* A reward was given for a loan that is Complete, and it is counted next. *)
RewardIsFinal ==
  user.referrals > 0 =>
    /\ \A e \in Emis : emi[e].paid
    /\ NoneDue
    /\ loan = "Complete"
    /\ user.referrals = 1
    /\ user.completedLoans > 0 \/ \E w \in Workers : pc[w] = "countLoan"

(* What a handler saw of the user is still true when it acts on it.        *)
RewardFacts(w) ==
  /\ pc[w] \in ClosingLabels /\ user.status = 1 => NoneDue
  /\ pc[w] = "userWrite" /\ task[w].status = 1 => NoneDue
  /\ pc[w] \in {"readUser", "referral"} => loan = "Complete"
  /\ pc[w] = "referral" => NoneDue
  /\ pc[w] = "dues" => task[w].ids \subseteq Unpaid
ReferralInv == RewardIsFinal /\ \A w \in Workers : RewardFacts(w)

LEMMA RewardInit == ASSUME Init PROVE ReferralInv
  BY DEF Init, ReferralInv, RewardIsFinal, RewardFacts, ClosingLabels

LEMMA RewardStands ==
  ASSUME ReferralInv, UNCHANGED <<emi, loan, user, pc, task>>
  PROVE  ReferralInv'
  BY DEF ReferralInv, RewardIsFinal, RewardFacts, NoneDue, Unpaid

LEMMA RewardIs ==
  ASSUME OneHandler, NEW w \in Workers, RewardIsFinal', RewardFacts(w)'
  PROVE  ReferralInv'
  BY DEF OneHandler, ReferralInv

(* The flags of the instalments only improve.                              *)
Improves == \A e \in Emis : /\ emi[e].paid => emi'[e].paid
                            /\ emi'[e].due => emi[e].due

LEMMA RewardStays ==
  ASSUME OneHandler, ReferralInv, NEW w \in Workers, pc[w] # "countLoan",
         user' = user, loan' = loan, Improves
  PROVE  RewardIsFinal'
<1>1. user.referrals > 0 => user.completedLoans > 0
  BY DEF ReferralInv, RewardIsFinal, OneHandler
<1> QED BY <1>1 DEF ReferralInv, RewardIsFinal, Improves, NoneDue

(* The steps that neither close the loan nor start a calendar job.         *)
Ordinary(w) ==
  \/ \E p \in Pays : \/ Poll(w, p)
                     \/ \E event \in {"captured", "failed"} : ManualWebhook(w, p, event)
                     \/ SigndeskBatch(w, p)
  \/ ResetPenalty(w) \/ Bifurcate(w) \/ SplitPart(w) \/ UpdateTransaction(w)
  \/ BounceRead(w) \/ BounceTrace(w) \/ BounceWrite(w)
  \/ PartRead(w) \/ PartWrite(w) \/ FullRead(w) \/ FullWrite(w)
  \/ ArchiveRead(w) \/ ArchiveDelete(w)
Busy == Labels \ (ClosingLabels \union {"userWrite", "referral", "countLoan", "dues"})

LEMMA OrdinaryIs ==
  ASSUME IndInv, NEW w \in Workers, Ordinary(w)
  PROVE  /\ user' = user /\ loan' = loan
         /\ pc[w] \in Busy /\ pc'[w] \in Busy
<1>1. pc \in [Workers -> Labels]
  BY DEF IndInv, TypeOK
<1>2. ASSUME NEW label PROVE Goto(w, label) => pc'[w] = label
  BY <1>1 DEF Goto
<1>3. Busy = {"idle", "penalty", "bifurcate", "part", "update", "bounceRead",
              "bounceTrace", "bounceWrite", "partRead", "partWrite", "fullRead",
              "fullWrite", "userStatus", "archive"}
  BY DEF Busy, Labels, ClosingLabels
<1>4. Return(w) => pc'[w] \in {"part", "idle"}
  BY <1>2 DEF Return
<1>5. ASSUME NEW p, NEW res, Enter(w, p, res)
      PROVE  user' = user /\ loan' = loan /\ pc'[w] \in {"penalty", "update"}
  BY <1>2, <1>5 DEF Enter, db
<1>6. CASE \E p \in Pays : \/ Poll(w, p)
                           \/ \E event \in {"captured", "failed"} : ManualWebhook(w, p, event)
                           \/ SigndeskBatch(w, p)
  <2>1. PICK p \in Pays, res \in {"COMPLETED", "FAILED"} : pc[w] = "idle" /\ Enter(w, p, res)
    BY <1>6 DEF Poll, ManualWebhook, SigndeskBatch
  <2> QED BY <1>3, <1>5, <2>1
<1>7. CASE ResetPenalty(w) \/ Bifurcate(w)
  BY <1>2, <1>3, <1>7 DEF ResetPenalty, Bifurcate, db
<1>8. CASE SplitPart(w)
  BY <1>2, <1>3, <1>8 DEF SplitPart
<1>9. CASE UpdateTransaction(w)
  BY <1>2, <1>3, <1>4, <1>9 DEF UpdateTransaction
<1>10. CASE BounceRead(w) \/ BounceTrace(w) \/ BounceWrite(w)
  BY <1>2, <1>3, <1>10 DEF BounceRead, BounceTrace, BounceWrite, db
<1>11. CASE PartRead(w) \/ PartWrite(w)
  BY <1>2, <1>3, <1>4, <1>11 DEF PartRead, PartWrite, db
<1>12. CASE FullRead(w) \/ FullWrite(w)
  BY <1>2, <1>3, <1>4, <1>12 DEF FullRead, FullWrite, db
<1>13. CASE ArchiveRead(w) \/ ArchiveDelete(w)
  BY <1>2, <1>3, <1>13 DEF ArchiveRead, ArchiveDelete, db
<1> QED BY <1>6, <1>7, <1>8, <1>9, <1>10, <1>11, <1>12, <1>13 DEF Ordinary

LEMMA OrdinaryImproves ==
  ASSUME IndInv, NEW w \in Workers, Ordinary(w)
  PROVE  Improves
<1>1. emi \in EmiTable
  BY DEF IndInv, TypeOK
<1>2. CASE emi' = emi
  BY <1>2 DEF Improves
<1>3. CASE ResetPenalty(w)
  BY <1>1, <1>3 DEF ResetPenalty, Improves, EmiTable, EmiType
<1>4. CASE BounceWrite(w)
  BY <1>1, <1>4 DEF BounceWrite, Improves, EmiTable, EmiType
<1>5. CASE PartWrite(w)
  BY <1>1, <1>5 DEF PartWrite, Improves, EmiTable, EmiType
<1>6. CASE FullWrite(w)
  <2>1. CASE emi' # emi
    <3>1. PICK e \in task[w].ids : emi' = [emi EXCEPT ![e].paid = TRUE, ![e].done = TRUE]
      BY <1>6, <2>1 DEF FullWrite
    <3> QED BY <1>1, <3>1 DEF Improves, EmiTable, EmiType
  <2> QED BY <1>2, <2>1
<1> QED BY <1>2, <1>3, <1>4, <1>5, <1>6
        DEF Ordinary, Poll, ManualWebhook, SigndeskBatch, Enter, db, Bifurcate, SplitPart,
            UpdateTransaction, BounceRead, BounceTrace, PartRead, FullRead, ArchiveRead,
            ArchiveDelete

LEMMA RewardOrdinary ==
  ASSUME OneHandler, IndInv, ReferralInv, NEW w \in Workers, Ordinary(w)
  PROVE  ReferralInv'
<1>1. user' = user /\ loan' = loan /\ pc[w] \in Busy /\ pc'[w] \in Busy /\ Improves
  BY OrdinaryIs, OrdinaryImproves
<1>2. RewardIsFinal'
  BY <1>1, RewardStays DEF Busy
<1>3. RewardFacts(w)'
  BY <1>1 DEF RewardFacts, Busy, ClosingLabels
<1> QED BY <1>2, <1>3, RewardIs

LEMMA RewardStatusRead ==
  ASSUME OneHandler, IndInv, ReferralInv, NEW w \in Workers, StatusRead(w)
  PROVE  ReferralInv'
<1>1. /\ pc[w] = "userStatus" /\ pc'[w] = "userWrite"
      /\ emi' = emi /\ loan' = loan /\ user' = user
      /\ task' = [task EXCEPT ![w] = [task[w] EXCEPT !.status = StatusNow]]
      /\ task \in [Workers -> Tasks]
  BY DEF StatusRead, Goto, Keep, IndInv, TypeOK, db
<1>2. task'[w].status = StatusNow
  BY <1>1 DEF Tasks
<1>3. StatusNow = 1 => NoneDue
  BY DEF StatusNow, NoneDue
<1>4. RewardIsFinal'
  <2>1. Improves
    BY <1>1 DEF Improves
  <2> QED BY <1>1, <2>1, RewardStays
<1>5. RewardFacts(w)'
  BY <1>1, <1>2, <1>3 DEF RewardFacts, NoneDue, ClosingLabels
<1> QED BY <1>4, <1>5, RewardIs

LEMMA RewardStatusWrite ==
  ASSUME OneHandler, IndInv, ReferralInv, NEW w \in Workers, StatusWrite(w)
  PROVE  ReferralInv'
<1>1. /\ pc[w] = "userWrite" /\ pc'[w] = "recalcRead" /\ emi' = emi /\ loan' = loan
      /\ user' = [user EXCEPT !.status = task[w].status] /\ user \in UserRow
  BY DEF StatusWrite, Goto, IndInv, TypeOK
<1>2. /\ user'.referrals = user.referrals /\ user'.completedLoans = user.completedLoans
      /\ user'.status = task[w].status
  BY <1>1 DEF UserRow
<1>3. task[w].status = 1 => NoneDue
  BY <1>1 DEF ReferralInv, RewardFacts
<1>4. RewardIsFinal'
  <2>1. user.referrals > 0 => user.completedLoans > 0
    BY <1>1 DEF ReferralInv, RewardIsFinal, OneHandler
  <2> QED BY <1>1, <1>2, <2>1 DEF ReferralInv, RewardIsFinal, NoneDue
<1>5. RewardFacts(w)'
  BY <1>1, <1>2, <1>3 DEF RewardFacts, NoneDue
<1> QED BY <1>4, <1>5, RewardIs

(* The steps from the recalculation to the Complete loan.                  *)
LEMMA RewardCloses ==
  ASSUME OneHandler, IndInv, ReferralInv, NEW w \in Workers,
         \/ RecalcRead(w) \/ RecalcWrite(w) \/ CloseCheck(w) \/ CloseTheLoan(w)
         \/ ReadUser(w)
  PROVE  ReferralInv'
<1>1. pc \in [Workers -> Labels] /\ emi \in EmiTable
  BY DEF IndInv, TypeOK
<1>2. ASSUME NEW label PROVE Goto(w, label) => pc'[w] = label
  BY <1>1 DEF Goto
<1>3. Return(w) => pc'[w] \in {"part", "idle"}
  BY <1>2 DEF Return
<1>4. RewardFacts(w) /\ RewardIsFinal
  BY DEF ReferralInv
<1>5. pc[w] \in ClosingLabels /\ user' = user
  BY DEF RecalcRead, RecalcWrite, CloseCheck, CloseTheLoan, ReadUser, ClosingLabels, db
<1>6. Improves
  <2>1. CASE RecalcWrite(w) /\ emi' # emi
    <3>1. PICK e \in task[w].ids :
            emi' = [emi EXCEPT ![e].paidPi = task[w].sums[e].pi,
                               ![e].paidCharge = task[w].sums[e].charge]
      BY <2>1 DEF RecalcWrite
    <3> QED BY <1>1, <3>1 DEF Improves, EmiTable, EmiType
  <2>2. CASE emi' = emi
    BY <2>2 DEF Improves
  <2> QED BY <2>1, <2>2 DEF RecalcRead, CloseCheck, CloseTheLoan, ReadUser, db
<1>7. CASE CloseTheLoan(w)
  <2>1. /\ loan' = "Complete" /\ pc'[w] = "readUser" /\ emi' = emi
    BY <1>2, <1>7 DEF CloseTheLoan
  <2>2. user.referrals > 0 => user.completedLoans > 0
    BY <1>4, <1>5 DEF RewardIsFinal, OneHandler, ClosingLabels
  <2>3. RewardIsFinal'
    BY <1>4, <1>5, <2>1, <2>2 DEF RewardIsFinal, NoneDue
  <2>4. RewardFacts(w)'
    BY <1>4, <1>5, <2>1 DEF RewardFacts, NoneDue, ClosingLabels
  <2> QED BY <2>3, <2>4, RewardIs
<1>8. CASE ~CloseTheLoan(w)
  <2>1. loan' = loan
    BY <1>8 DEF RecalcRead, RecalcWrite, CloseCheck, ReadUser, db
  <2>2. RewardIsFinal'
    BY <1>5, <1>6, <2>1, RewardStays DEF ClosingLabels
  <2>3. \/ pc'[w] \in {"part", "idle", "countLoan"}
        \/ pc'[w] \in {"recalcWrite", "closeCheck", "close"}
        \/ pc'[w] = "referral" /\ pc[w] = "readUser" /\ user.status = 1
    <3>1. CASE RecalcRead(w)
      BY <1>2, <3>1 DEF RecalcRead
    <3>2. CASE RecalcWrite(w)
      BY <1>2, <3>2 DEF RecalcWrite
    <3>3. CASE CloseCheck(w)
      BY <1>2, <1>3, <3>3 DEF CloseCheck
    <3>4. CASE ReadUser(w)
      BY <1>2, <3>4 DEF ReadUser
    <3> QED BY <1>8, <3>1, <3>2, <3>3, <3>4
  <2>4. NoneDue => NoneDue'
    BY <1>6 DEF Improves, NoneDue
  <2>5. RewardFacts(w)'
    BY <1>4, <1>5, <2>1, <2>3, <2>4 DEF RewardFacts, ClosingLabels
  <2> QED BY <2>2, <2>5, RewardIs
<1> QED BY <1>7, <1>8

LEMMA RewardGiveReferral ==
  ASSUME OneHandler, IndInv, ReferralInv, NEW w \in Workers, GiveReferral(w)
  PROVE  ReferralInv'
<1>1. /\ pc[w] = "referral" /\ pc'[w] = "countLoan" /\ emi' = emi /\ loan' = loan
      /\ user' = [user EXCEPT !.referrals =
                    IF user.completedLoans = 0 THEN AtMost(@ + 1, MaxCount) ELSE @]
      /\ user \in UserRow
  BY DEF GiveReferral, Goto, IndInv, TypeOK
<1>2. /\ NoneDue /\ loan = "Complete"
      /\ user.referrals > 0 => user.completedLoans > 0
      /\ user.referrals > 0 => user.referrals = 1
  BY <1>1 DEF ReferralInv, RewardFacts, RewardIsFinal, OneHandler
<1>3. \A e \in Emis : emi[e].paid
  BY <1>2 DEF IndInv, ClosedOnlyWhenPaid
<1>4. user'.completedLoans = user.completedLoans /\ user'.referrals \in {0, 1}
  <2>1. user.completedLoans \in Nat /\ user.referrals \in Nat
    BY <1>1 DEF UserRow
  <2>2. user'.completedLoans = user.completedLoans
    BY <1>1 DEF UserRow
  <2>3. user'.referrals = IF user.completedLoans = 0 THEN AtMost(user.referrals + 1, MaxCount)
                          ELSE user.referrals
    BY <1>1 DEF UserRow
  <2>4. user.completedLoans = 0 => user.referrals = 0
    BY <1>2, <2>1
  <2>5. AtMost(1, MaxCount) = 1
    BY ConstantsAssumption DEF AtMost
  <2> QED BY <1>2, <2>1, <2>2, <2>3, <2>4, <2>5
<1>5. RewardIsFinal'
  BY <1>1, <1>2, <1>3, <1>4 DEF RewardIsFinal, NoneDue
<1>6. RewardFacts(w)'
  BY <1>1 DEF RewardFacts, ClosingLabels
<1> QED BY <1>5, <1>6, RewardIs

LEMMA RewardCountLoan ==
  ASSUME OneHandler, IndInv, ReferralInv, NEW w \in Workers, CountLoan(w)
  PROVE  ReferralInv'
<1>1. /\ emi' = emi /\ loan' = loan /\ user \in UserRow
      /\ user' = [user EXCEPT !.completedLoans = CountAfter(task[w].seen)]
      /\ task[w].seen \in 0 .. MaxCount /\ Return(w)
  BY DEF CountLoan, IndInv, TypeOK, Tasks
<1>2. /\ user'.referrals = user.referrals /\ user'.completedLoans > 0
  <2>1. CountAfter(task[w].seen) > 0
    BY <1>1, ConstantsAssumption DEF CountAfter, AtMost
  <2> HIDE DEF CountAfter
  <2> QED BY <1>1, <2>1 DEF UserRow
<1>3. pc'[w] \in {"part", "idle"}
  BY <1>1 DEF Return, Goto, IndInv, TypeOK
<1>4. RewardIsFinal'
  BY <1>1, <1>2 DEF ReferralInv, RewardIsFinal, NoneDue
<1>5. RewardFacts(w)'
  BY <1>3 DEF RewardFacts, ClosingLabels
<1> QED BY <1>4, <1>5, RewardIs

(* The flags of overdue instalments are raised for unpaid ones only, and a *)
(* reward is for a loan that has none.                                     *)
LEMMA RewardDues ==
  ASSUME OneHandler, IndInv, ReferralInv, NEW w \in Workers, DuesRead(w) \/ DuesWrite(w)
  PROVE  ReferralInv'
<1>1. pc \in [Workers -> Labels] /\ task \in [Workers -> Tasks] /\ emi \in EmiTable
      /\ late \subseteq Emis
  BY DEF IndInv, TypeOK
<1>2. CASE DuesRead(w)
  <2>1. /\ pc[w] = "idle" /\ pc'[w] = "dues" /\ UNCHANGED <<emi, loan, user>>
        /\ task'[w] = [NoTask EXCEPT !.ids = {e \in late : ~emi[e].paid /\ ~emi[e].due}]
    BY <1>1, <1>2 DEF DuesRead, Goto, Keep, db
  <2>2. task'[w].ids = {e \in late : ~emi[e].paid /\ ~emi[e].due}
    BY <2>1 DEF NoTask
  <2>3. RewardIsFinal'
    BY <2>1, RewardStays DEF Improves
  <2>4. RewardFacts(w)'
    BY <1>1, <2>1, <2>2 DEF RewardFacts, ClosingLabels, Unpaid
  <2> QED BY <2>3, <2>4, RewardIs
<1>3. CASE DuesWrite(w)
  <2>1. /\ pc[w] = "dues" /\ pc'[w] = "idle" /\ loan' = loan /\ user' = user
        /\ emi' = [e \in Emis |-> IF e \in task[w].ids
                                    THEN [emi[e] EXCEPT !.due = TRUE] ELSE emi[e]]
    BY <1>1, <1>3 DEF DuesWrite, Goto
  <2>2. task[w].ids \subseteq Unpaid
    BY <2>1 DEF ReferralInv, RewardFacts
  <2>3. CASE user.referrals > 0
    <3>1. Unpaid = {}
      BY <2>3 DEF ReferralInv, RewardIsFinal, Unpaid
    <3>2. Improves
      BY <2>1, <2>2, <3>1 DEF Improves
    <3> QED BY <2>1, <3>2, RewardStays, RewardIs DEF RewardFacts, ClosingLabels
  <2>4. CASE ~(user.referrals > 0)
    <3>1. RewardIsFinal'
      BY <2>1, <2>4 DEF RewardIsFinal
    <3> QED BY <2>1, <3>1, RewardIs DEF RewardFacts, ClosingLabels
  <2> QED BY <2>3, <2>4
<1> QED BY <1>2, <1>3

(* ReferralInv is inductive, together with IndInv.                         *)
LEMMA RewardInductive ==
  ASSUME OneHandler, MaxAborts = 0, IndInv, ReferralInv, [Next]_vars
  PROVE  ReferralInv'
<1>1. CASE UNCHANGED vars
  BY <1>1, RewardStands DEF vars
<1>2. ASSUME NEW p \in Pays, CreateOrder(p) \/ GatewayCapture(p) \/ GatewayFail(p)
      PROVE  ReferralInv'
  BY <1>2, RewardStands DEF CreateOrder, GatewayCapture, GatewayFail, db
<1>3. CASE DatePasses
  BY <1>3, RewardStands DEF DatePasses, db
<1>4. ASSUME NEW w \in Workers, NEW p \in Pays,
             \/ Poll(w, p)
             \/ \E event \in {"captured", "failed"} : ManualWebhook(w, p, event)
             \/ SigndeskBatch(w, p)
      PROVE  ReferralInv'
  BY <1>4, RewardOrdinary DEF Ordinary
<1>5. ASSUME NEW w \in Workers,
             DuesRead(w) \/ ArchiveRead(w) \/ Advance(w) \/ Abort(w)
      PROVE  ReferralInv'
  <2>1. ~Abort(w)
    <3>1. aborts \in 0 .. MaxAborts
      BY DEF IndInv, TypeOK
    <3> QED BY <3>1 DEF Abort
  <2>2. CASE Ordinary(w)
    BY <2>2, RewardOrdinary
  <2>3. CASE StatusRead(w) \/ StatusWrite(w)
    BY <2>3, RewardStatusRead, RewardStatusWrite
  <2>4. CASE RecalcRead(w) \/ RecalcWrite(w) \/ CloseCheck(w) \/ CloseTheLoan(w)
             \/ ReadUser(w)
    BY <2>4, RewardCloses
  <2>5. CASE GiveReferral(w)
    BY <2>5, RewardGiveReferral
  <2>6. CASE CountLoan(w)
    BY <2>6, RewardCountLoan
  <2>7. CASE DuesRead(w) \/ DuesWrite(w)
    BY <2>7, RewardDues
  <2> QED BY <1>5, <2>1, <2>2, <2>3, <2>4, <2>5, <2>6, <2>7 DEF Advance, Ordinary
<1> QED BY <1>1, <1>2, <1>3, <1>4, <1>5 DEF Next

(* No reward before the loan is Complete with nothing overdue, and no      *)
(* second one after it.                                                    *)
THEOREM RewardInvariance ==
  ASSUME OneHandler, MaxAborts = 0
  PROVE  Spec => [](IndInv /\ ReferralInv)
<1>1. Init => IndInv /\ ReferralInv
  BY InitInv, RewardInit
<1>2. (IndInv /\ ReferralInv) /\ [Next]_vars => (IndInv /\ ReferralInv)'
  BY Inductive, RewardInductive
<1> QED BY <1>1, <1>2, PTL DEF Spec

(* The referrer is rewarded once at most for the loan of the referred user *)
(* (addReferral and the counting of the loan are two awaits apart).        *)
THEOREM RewardedOnce ==
  ASSUME OneHandler, MaxAborts = 0
  PROVE  Spec => []OneReferral
<1>1. IndInv /\ ReferralInv => OneReferral
  BY DEF ReferralInv, RewardIsFinal, OneReferral, IndInv, TypeOK, UserRow
<1> QED BY <1>1, RewardInvariance, PTL

(* ... and for a loan of which no instalment is left overdue.              *)
THEOREM RewardedOnTime ==
  ASSUME OneHandler, MaxAborts = 0
  PROVE  Spec => []ReferralOnTime
<1>1. IndInv /\ ReferralInv => ReferralOnTime
  BY DEF ReferralInv, RewardIsFinal, ReferralOnTime, NoneDue
<1> QED BY <1>1, RewardInvariance, PTL

-----------------------------------------------------------------------------
(* What the COMPLETED rows pay of an instalment, row by row.               *)

(* Finitely many orders have finitely many rows.                           *)
LEMMA RowsFinite ==
  ASSUME IsFiniteSet(Pays)
  PROVE  IsFiniteSet(RowIds) /\ IsFiniteSet(Emis)
<1>1. IsFiniteSet(1 .. NumEmis + 1) /\ IsFiniteSet(1 .. NumEmis)
  BY FS_Interval, ConstantsAssumption
<1> QED BY <1>1, FS_Product DEF RowIds, Emis

PaysFor(rows, r, e) == rows[r].status = "COMPLETED" /\ rows[r].part.emi = e
PiShare(rows, e) ==
  [r \in RowIds |-> IF PaysFor(rows, r, e) THEN rows[r].part.pi ELSE 0]
ChargeShare(rows, e) ==
  [r \in RowIds |-> IF PaysFor(rows, r, e) THEN rows[r].part.charge ELSE 0]

(* What a row contributes to an instalment is a natural number.            *)
LEMMA SharesAre ==
  ASSUME NEW rows \in RowTable, NEW e
  PROVE  \A r \in RowIds : /\ PiShare(rows, e)[r] \in Nat
                           /\ ChargeShare(rows, e)[r] \in Nat
                           /\ PiShare(rows, e)[r] = IF PaysFor(rows, r, e) THEN rows[r].part.pi
                                                    ELSE 0
                           /\ ChargeShare(rows, e)[r] = IF PaysFor(rows, r, e)
                                                          THEN rows[r].part.charge ELSE 0
<1>1. TAKE r \in RowIds
<1>2. rows[r].part.pi \in Nat /\ rows[r].part.charge \in Nat
  BY DEF RowTable, RowType, Parts, Money
<1> QED BY <1>2 DEF PiShare, ChargeShare

LEMMA SharesAdd ==
  ASSUME IsFiniteSet(Pays), NEW rows \in RowTable, NEW e,
         NEW S, S = {r \in {r \in RowIds : rows[r].status = "COMPLETED"} :
                       rows[r].part.emi = e}
  PROVE  /\ Positive(SumFunctionOnSet([r \in S |-> rows[r].part.pi], S))
              = SumFunctionOnSet(PiShare(rows, e), RowIds)
         /\ Positive(SumFunctionOnSet([r \in S |-> rows[r].part.charge], S))
              = SumFunctionOnSet(ChargeShare(rows, e), RowIds)
<1>1. /\ \A r \in RowIds : PiShare(rows, e)[r] \in Nat /\ ChargeShare(rows, e)[r] \in Nat
      /\ \A r \in S : PiShare(rows, e)[r] = rows[r].part.pi
      /\ \A r \in S : ChargeShare(rows, e)[r] = rows[r].part.charge
      /\ \A r \in RowIds \ S : PiShare(rows, e)[r] = 0 /\ ChargeShare(rows, e)[r] = 0
  BY SharesAre DEF PaysFor
<1>2. S \in SUBSET RowIds /\ IsFiniteSet(RowIds)
  BY RowsFinite
<1>3. /\ SumFunctionOnSet(PiShare(rows, e), RowIds) \in Nat
      /\ SumFunctionOnSet(ChargeShare(rows, e), RowIds) \in Nat
  BY <1>1, <1>2, SumOfNaturals
<1> DEFINE f == [r \in S |-> rows[r].part.pi]
           g == [r \in S |-> rows[r].part.charge]
<1>4. \A r \in S : f[r] = PiShare(rows, e)[r] /\ g[r] = ChargeShare(rows, e)[r]
  BY <1>1
<1> HIDE DEF f, g
<1>5. SumFunctionOnSet(f, S) = SumFunctionOnSet(PiShare(rows, e), RowIds)
  BY <1>1, <1>2, <1>4, SumSelected
<1>6. SumFunctionOnSet(g, S) = SumFunctionOnSet(ChargeShare(rows, e), RowIds)
  BY <1>1, <1>2, <1>4, SumSelected
<1> QED BY <1>3, <1>5, <1>6 DEF Positive, f, g

LEMMA PaidIsShared ==
  ASSUME IsFiniteSet(Pays), NEW e
  PROVE  /\ row \in RowTable =>
              /\ PaidPi(e) = SumFunctionOnSet(PiShare(row, e), RowIds)
              /\ PaidCharge(e) = SumFunctionOnSet(ChargeShare(row, e), RowIds)
         /\ row' \in RowTable =>
              /\ PaidPi(e)' = SumFunctionOnSet(PiShare(row', e), RowIds)
              /\ PaidCharge(e)' = SumFunctionOnSet(ChargeShare(row', e), RowIds)
<1>1. ASSUME row \in RowTable
      PROVE  /\ PaidPi(e) = SumFunctionOnSet(PiShare(row, e), RowIds)
             /\ PaidCharge(e) = SumFunctionOnSet(ChargeShare(row, e), RowIds)
  BY <1>1, SharesAdd DEF PaidPi, PaidCharge, Total, Completed
<1>2. ASSUME row' \in RowTable
      PROVE  /\ PaidPi(e)' = SumFunctionOnSet(PiShare(row', e), RowIds)
             /\ PaidCharge(e)' = SumFunctionOnSet(ChargeShare(row', e), RowIds)
  BY <1>2, SharesAdd DEF PaidPi, PaidCharge, Total, Completed
<1> QED BY <1>1, <1>2

(* The steps that write rows.                                              *)
LEMMA RowSteps ==
  ASSUME [Next]_vars
  PROVE  \/ row' = row
         \/ \E p \in Pays : CreateOrder(p)
         \/ \E w \in Workers : SplitPart(w) \/ UpdateTransaction(w) \/ ArchiveDelete(w)
<1>1. CASE UNCHANGED vars
  BY <1>1 DEF vars
<1>2. ASSUME NEW p \in Pays, CreateOrder(p) \/ GatewayCapture(p) \/ GatewayFail(p)
      PROVE  row' = row \/ CreateOrder(p)
  BY <1>2 DEF GatewayCapture, GatewayFail, db
<1>3. CASE DatePasses
  BY <1>3 DEF DatePasses, db
<1>4. ASSUME NEW w \in Workers, NEW p \in Pays,
             \/ Poll(w, p)
             \/ \E event \in {"captured", "failed"} : ManualWebhook(w, p, event)
             \/ SigndeskBatch(w, p)
      PROVE  row' = row
  BY <1>4 DEF Poll, ManualWebhook, SigndeskBatch, Enter, db
<1>5. ASSUME NEW w \in Workers, DuesRead(w) \/ ArchiveRead(w) \/ Advance(w) \/ Abort(w)
      PROVE  row' = row \/ SplitPart(w) \/ UpdateTransaction(w) \/ ArchiveDelete(w)
  BY <1>5 DEF DuesRead, ArchiveRead, Abort, Advance, ResetPenalty, Bifurcate, BounceRead,
              BounceTrace, BounceWrite, PartRead, PartWrite, FullRead, FullWrite,
              StatusRead, StatusWrite, RecalcRead, RecalcWrite, CloseCheck, CloseTheLoan,
              ReadUser, GiveReferral, CountLoan, DuesWrite, db
<1> QED BY <1>1, <1>2, <1>3, <1>4, <1>5 DEF Next

(* A new order: one row, which was not in the table.                       *)
LEMMA NewRow ==
  ASSUME IndInv, NEW p \in Pays, CreateOrder(p)
  PROVE  \E kind \in Kinds, e \in Unpaid, amount \in Prices :
           /\ <<p, 1>> \in RowIds /\ row[<<p, 1>>].status = "NONE"
           /\ \A r \in RowIds : r # <<p, 1>> => row'[r] = row[r]
           /\ row'[<<p, 1>>].status = "INITIALIZED"
           /\ row'[<<p, 1>>].type = kind[1]
           /\ row'[<<p, 1>>].part = OrderPart(kind[1], e, amount)
           /\ price' = [price EXCEPT ![p] = amount]
<1>1. PICK kind \in Kinds, e \in Unpaid, onTime \in BOOLEAN, amount \in Prices :
        Created(p, kind, e, onTime, amount)
  BY OrderCreated
<1>2. row \in RowTable /\ <<p, 1>> \in RowIds /\ row[<<p, 1>>].status = "NONE"
  BY ConstantsAssumption DEF IndInv, TypeOK, RowIds, CreateOrder
<1> DEFINE new == [status |-> "INITIALIZED", type |-> kind[1], mode |-> kind[2],
                   onTime |-> onTime, part |-> OrderPart(kind[1], e, amount)]
<1>3. new.status = "INITIALIZED" /\ new.type = kind[1]
      /\ new.part = OrderPart(kind[1], e, amount)
  OBVIOUS
<1>4. row' = [row EXCEPT ![<<p, 1>>] = new] /\ price' = [price EXCEPT ![p] = amount]
  BY <1>1 DEF Created
<1> HIDE DEF new
<1>5. row'[<<p, 1>>] = new /\ \A r \in RowIds : r # <<p, 1>> => row'[r] = row[r]
  BY <1>2, <1>4 DEF RowTable
<1> QED BY <1>2, <1>3, <1>4, <1>5

(* What a step makes of a row: a COMPLETED one it leaves alone, a new      *)
(* COMPLETED one is the answer that came in or pays no instalment, and any *)
(* other keeps the part of a full payment.                                 *)
Arrives(w, r) ==
  /\ UpdateTransaction(w) /\ task[w].res = "COMPLETED" /\ r = task[w].id /\ Stands(r)
  /\ row'[r].type = row[r].type /\ row'[r].part = PartOf(w)
RowStep(r) ==
  \/ row'[r] = row[r]
  \/ /\ row[r].status # "COMPLETED" /\ row'[r].status = "COMPLETED"
     /\ \/ row'[r].part.pi = 0 /\ row'[r].part.charge = 0
        \/ \E w \in Workers : Arrives(w, r)
  \/ /\ row[r].status # "COMPLETED" /\ row'[r].status # "COMPLETED"
     /\ row'[r].type = "FULLPAY" =>
          \/ row[r].type = "FULLPAY" /\ row'[r].part = row[r].part
          \/ row'[r].part.pi = Total(OwedPi, Unpaid)

(* A part written into a row, or into a new row.                           *)
LEMMA RowStepOfSplit ==
  ASSUME OneHandler, IndInv, AloneInv, NEW w \in Workers, SplitPart(w), NEW r \in RowIds
  PROVE  RowStep(r)
<1>1. pc[w] = "part" /\ HandlerFacts(w)
  BY PartedIs DEF AloneInv
<1>2. CASE row' = row
  BY <1>2 DEF RowStep
<1>3. ASSUME NEW p \in Pays, NEW i \in Nat, NEW part \in task[w].parts,
             Parted(w, p, i, part)
      PROVE  RowStep(r)
  <2> DEFINE t == task[w]
             id == <<p, i>>
             new == [row[t.id] EXCEPT !.status = IF part.extra > 0 THEN "COMPLETED"
                                                 ELSE "INITIALIZED",
                                      !.type = "PARTPAY", !.part = part]
  <2>1. CASE row'[r] = row[r]
    BY <2>1 DEF RowStep
  <2>2. CASE row'[r] # row[r]
    <3>1. /\ r = id /\ t.id \in RowIds /\ row[t.id] \in RowType
          /\ row'[r] = new /\ ~(i = 1 /\ row[id].status \in Gone)
      BY <1>3, <2>2 DEF Parted
    <3>2. /\ new.type = "PARTPAY" /\ new.part = part
          /\ new.status = IF part.extra > 0 THEN "COMPLETED" ELSE "INITIALIZED"
      BY <3>1 DEF RowType
    <3>3. part.extra > 0 => part.pi = 0 /\ part.charge = 0
      BY <1>1 DEF HandlerFacts, OrderLabels, Labels
    <3>4. row[r].status # "COMPLETED"
      <4>1. CASE i = 1
        <5>1. t.i = 0 /\ t.id = id
          BY <1>3, <4>1 DEF Parted, Tasks
        <5> QED BY <1>1, <3>1, <5>1 DEF HandlerFacts
      <4>2. CASE i # 1
        BY <1>3, <3>1, <4>2 DEF Parted, Gone
      <4> QED BY <4>1, <4>2
    <3> HIDE DEF new, id, t
    <3> QED BY <3>1, <3>2, <3>3, <3>4 DEF RowStep
  <2> QED BY <2>1, <2>2
<1> QED BY <1>2, <1>3, PartedIs

(* The row of the handler, as markTransactionAsComplete writes it.         *)
LEMMA RowStepOfUpdate ==
  ASSUME OneHandler, IndInv, AloneInv, NEW w \in Workers, UpdateTransaction(w),
         NEW r \in RowIds
  PROVE  RowStep(r)
<1>1. pc[w] = "update" /\ HandlerFacts(w) /\ task[w].res \in {"COMPLETED", "FAILED"}
  BY UpdatedIs DEF AloneInv, IndInv, TypeOK, Tasks
<1>2. CASE row'[r] = row[r]
  BY <1>2 DEF RowStep
<1>3. CASE /\ r = task[w].id /\ Stands(r)
           /\ row'[r].status = task[w].res /\ row'[r].type = row[r].type
           /\ row'[r].part = PartOf(w)
  <2>1. row[r].status # "COMPLETED" /\ (row[r].type = "FULLPAY" => PartOf(w) = row[r].part)
    BY <1>1, <1>3 DEF HandlerFacts, PartOf
  <2>2. CASE task[w].res = "COMPLETED"
    <3>1. Arrives(w, r)
      BY <1>3, <2>2 DEF Arrives
    <3> QED BY <1>3, <2>1, <2>2, <3>1 DEF RowStep
  <2>3. CASE task[w].res = "FAILED"
    BY <1>3, <2>1, <2>3 DEF RowStep
  <2> QED BY <1>1, <2>2, <2>3
<1> QED BY <1>2, <1>3, UpdatedRows

LEMMA RowStepIs ==
  ASSUME OneHandler, IndInv, AloneInv, [Next]_vars
  PROVE  \A r \in RowIds : RowStep(r)
<1>1. TAKE r \in RowIds
<1>2. CASE row' = row
  BY <1>2 DEF RowStep
<1>3. ASSUME NEW p \in Pays, CreateOrder(p) PROVE RowStep(r)
  <2>1. PICK kind \in Kinds, e \in Unpaid, amount \in Prices :
          /\ row[<<p, 1>>].status = "NONE"
          /\ r # <<p, 1>> => row'[r] = row[r]
          /\ row'[<<p, 1>>].status = "INITIALIZED"
          /\ row'[<<p, 1>>].type = kind[1]
          /\ row'[<<p, 1>>].part = OrderPart(kind[1], e, amount)
    BY <1>3, NewRow
  <2>2. kind[1] = "FULLPAY" =>
          OrderPart(kind[1], e, amount).pi = Total(OwedPi, Unpaid)
    BY DEF OrderPart
  <2> QED BY <2>1, <2>2 DEF RowStep
<1>4. ASSUME NEW w \in Workers, ArchiveDelete(w) PROVE RowStep(r)
  <2>1. /\ HandlerFacts(w) /\ pc[w] = "archive" /\ row[r] \in RowType
        /\ row' = [s \in RowIds |-> IF s \in task[w].old
                                     THEN [row[s] EXCEPT !.status = "ARCHIVED"]
                                   ELSE row[s]]
    BY <1>4 DEF ArchiveDelete, AloneInv, IndInv, TypeOK, RowTable
  <2>2. r \in task[w].old => row[r].status = "INITIALIZED"
    BY <2>1 DEF HandlerFacts
  <2>3. row'[r] = IF r \in task[w].old THEN [row[r] EXCEPT !.status = "ARCHIVED"] ELSE row[r]
    BY <2>1
  <2>4. r \in task[w].old => /\ row'[r].status = "ARCHIVED" /\ row'[r].type = row[r].type
                             /\ row'[r].part = row[r].part
    BY <2>1, <2>3 DEF RowType
  <2> QED BY <2>2, <2>3, <2>4 DEF RowStep
<1> QED BY <1>2, <1>3, <1>4, RowSteps, RowStepOfSplit, RowStepOfUpdate

(* So what is paid of an instalment never shrinks, and what is owed never  *)
(* grows.                                                                  *)
LEMMA OwedShrinks ==
  ASSUME OneHandler, IsFiniteSet(Pays), IndInv, AloneInv, [Next]_vars, NEW e
  PROVE  /\ PaidPi(e) \in Nat /\ PaidPi(e)' \in Nat /\ PaidPi(e) <= PaidPi(e)'
         /\ OwedPi(e) \in Nat /\ OwedPi(e)' \in Nat /\ OwedPi(e)' <= OwedPi(e)
<1>1. row \in RowTable /\ row' \in RowTable
  BY Inductive DEF IndInv, TypeOK
<1>2. ASSUME NEW r \in RowIds PROVE PiShare(row, e)[r] <= PiShare(row', e)[r]
  <2>1. row[r].status = "COMPLETED" => row'[r] = row[r]
    BY RowStepIs DEF RowStep
  <2> QED BY <1>1, <2>1, SharesAre DEF PaysFor
<1>3. \A r \in RowIds : PiShare(row, e)[r] \in Nat /\ PiShare(row', e)[r] \in Nat
  BY <1>1, SharesAre
<1> DEFINE f == PiShare(row, e)
           g == PiShare(row', e)
<1>4. PaidPi(e) = SumFunctionOnSet(f, RowIds) /\ PaidPi(e)' = SumFunctionOnSet(g, RowIds)
  BY <1>1, PaidIsShared
<1> HIDE DEF f, g
<1>5. /\ SumFunctionOnSet(f, RowIds) \in Nat /\ SumFunctionOnSet(g, RowIds) \in Nat
      /\ SumFunctionOnSet(f, RowIds) <= SumFunctionOnSet(g, RowIds)
  BY <1>2, <1>3, RowsFinite, SumShrinks DEF f, g
<1>6. PICK a, b : a = PaidPi(e) /\ b = PaidPi(e)'
  OBVIOUS
<1>7. a \in Nat /\ b \in Nat /\ a <= b
  BY <1>4, <1>5, <1>6
<1>8. OwedPi(e) = Positive(PI - a) /\ OwedPi(e)' = Positive(PI - b)
  BY <1>6 DEF OwedPi
<1> QED BY <1>6, <1>7, <1>8, ConstantsAssumption DEF Positive

(* The steps of the handler in flight.                                     *)
Closing(w) ==
  \/ StatusRead(w) \/ StatusWrite(w) \/ RecalcRead(w) \/ RecalcWrite(w)
  \/ CloseCheck(w) \/ CloseTheLoan(w) \/ ReadUser(w) \/ GiveReferral(w)
  \/ CountLoan(w)
Breaks(w) == DuesRead(w) \/ DuesWrite(w) \/ Abort(w)

(* With one handler, a step is the world's or one of its steps.            *)
LEMMA StepsOfOne ==
  ASSUME OneHandler, [Next]_vars, NEW w \in Workers
  PROVE  UNCHANGED <<pc, task>> \/ Ordinary(w) \/ Closing(w) \/ Breaks(w)
<1>1. CASE UNCHANGED vars
  BY <1>1 DEF vars
<1>2. CASE DatePasses \/ \E p \in Pays : CreateOrder(p) \/ GatewayCapture(p) \/ GatewayFail(p)
  BY <1>2 DEF CreateOrder, GatewayCapture, GatewayFail, DatePasses
<1>3. ASSUME NEW v \in Workers, NEW p \in Pays,
             \/ Poll(v, p)
             \/ \E event \in {"captured", "failed"} : ManualWebhook(v, p, event)
             \/ SigndeskBatch(v, p)
      PROVE  Ordinary(w)
  BY <1>3 DEF Ordinary, OneHandler
<1>4. ASSUME NEW v \in Workers, DuesRead(v) \/ ArchiveRead(v) \/ Advance(v) \/ Abort(v)
      PROVE  Ordinary(w) \/ Closing(w) \/ Breaks(w)
  BY <1>4 DEF Ordinary, Closing, Breaks, OneHandler, Advance
<1> QED BY <1>1, <1>2, <1>3, <1>4 DEF Next

LEMMA ClosingIs ==
  ASSUME IndInv, NEW w \in Workers, Closing(w) \/ Breaks(w)
  PROVE  /\ row' = row
         /\ pc'[w] \in {"idle", "part", "userWrite", "recalcRead", "recalcWrite",
                        "closeCheck", "close", "readUser", "referral", "countLoan", "dues"}
<1>1. ASSUME NEW label PROVE Goto(w, label) => pc'[w] = label
  BY DEF Goto, IndInv, TypeOK
<1>2. Return(w) => pc'[w] \in {"part", "idle"}
  BY <1>1 DEF Return
<1>3. CASE StatusRead(w) \/ StatusWrite(w) \/ RecalcRead(w)
  BY <1>1, <1>3 DEF StatusRead, StatusWrite, RecalcRead, db
<1>4. CASE RecalcWrite(w)
  BY <1>1, <1>4 DEF RecalcWrite
<1>5. CASE CloseCheck(w) \/ CloseTheLoan(w) \/ ReadUser(w)
  BY <1>1, <1>2, <1>5 DEF CloseCheck, CloseTheLoan, ReadUser, db
<1>6. CASE GiveReferral(w) \/ CountLoan(w)
  BY <1>1, <1>2, <1>6 DEF GiveReferral, CountLoan
<1>7. CASE Breaks(w)
  BY <1>1, <1>7 DEF Breaks, DuesRead, DuesWrite, Abort, db
<1> QED BY <1>3, <1>4, <1>5, <1>6, <1>7 DEF Closing

(* How a handler comes to the writes of the instalments.                   *)
LEMMA WaysToWrite ==
  ASSUME OneHandler, IndInv, [Next]_vars, NEW w \in Workers
  PROVE  /\ pc'[w] = "fullRead" =>
              pc[w] = "fullRead" \/ (UpdateTransaction(w) /\ task[w].type = "FULLPAY"
                                     /\ task[w].res = "COMPLETED"
                                     /\ row[task[w].id].status \notin Gone)
         /\ pc'[w] = "fullWrite" => pc[w] \in {"fullRead", "fullWrite"}
         /\ pc'[w] = "partWrite" =>
              (pc[w] = "partWrite" /\ task'[w] = task[w]) \/ PartRead(w)
         /\ pc'[w] = "partRead" =>
              (pc[w] = "partRead" /\ task'[w] = task[w])
              \/ (UpdateTransaction(w) /\ task'[w] = task[w])
<1>1. ASSUME NEW label PROVE Goto(w, label) => pc'[w] = label
  BY DEF Goto, IndInv, TypeOK
<1>2. Return(w) => pc'[w] \in {"part", "idle"}
  BY <1>1 DEF Return
<1>3. CASE UNCHANGED <<pc, task>>
  BY <1>3
<1>4. CASE Closing(w) \/ Breaks(w)
  BY <1>4, ClosingIs
<1>5. ASSUME NEW p \in Pays,
             \/ Poll(w, p)
             \/ \E event \in {"captured", "failed"} : ManualWebhook(w, p, event)
             \/ SigndeskBatch(w, p)
      PROVE  pc'[w] \in {"penalty", "update"}
  <2>1. PICK res : Enter(w, p, res)
    BY <1>5 DEF Poll, ManualWebhook, SigndeskBatch
  <2> QED BY <1>1, <2>1 DEF Enter
<1>6. CASE ResetPenalty(w) \/ Bifurcate(w) \/ SplitPart(w)
  BY <1>1, <1>6 DEF ResetPenalty, Bifurcate, SplitPart
<1>7. CASE UpdateTransaction(w)
  BY <1>7, UpdatedIs DEF Updated
<1>8. CASE BounceRead(w) \/ BounceTrace(w) \/ BounceWrite(w)
  BY <1>1, <1>8 DEF BounceRead, BounceTrace, BounceWrite
<1>9. CASE PartRead(w)
  BY <1>1, <1>2, <1>9 DEF PartRead
<1>10. CASE PartWrite(w)
  BY <1>1, <1>10 DEF PartWrite
<1>11. CASE FullRead(w) \/ FullWrite(w)
  BY <1>1, <1>2, <1>11 DEF FullRead, FullWrite
<1>12. CASE ArchiveRead(w) \/ ArchiveDelete(w)
  BY <1>1, <1>12 DEF ArchiveRead, ArchiveDelete
<1> QED BY <1>3, <1>4, <1>5, <1>6, <1>7, <1>8, <1>9, <1>10, <1>11, <1>12, StepsOfOne
        DEF Ordinary

(* What a step makes of an instalment.                                     *)
EmiStep(e) ==
  /\ emi[e].paid => emi'[e].paid
  /\ \/ emi'[e].left = emi[e].left
     \/ \E w \in Workers : /\ PartWrite(w) /\ e = task[w].emi
                           /\ emi'[e].left = task[w].left
  /\ \/ emi'[e].paid = emi[e].paid
     \/ \E w \in Workers : \/ PartWrite(w) /\ e = task[w].emi /\ task[w].pay
                           \/ pc[w] = "fullWrite"

LEMMA EmiStepIs ==
  ASSUME IndInv, [Next]_vars
  PROVE  \A e \in Emis : EmiStep(e)
<1>1. TAKE e \in Emis
<1>2. emi \in EmiTable
  BY DEF IndInv, TypeOK
<1>3. CASE emi' = emi
  BY <1>3 DEF EmiStep
<1>4. ASSUME NEW w \in Workers, ResetPenalty(w) PROVE EmiStep(e)
  BY <1>2, <1>4 DEF ResetPenalty, EmiStep, EmiTable, EmiType
<1>5. ASSUME NEW w \in Workers, BounceWrite(w) PROVE EmiStep(e)
  BY <1>2, <1>5 DEF BounceWrite, EmiStep, EmiTable, EmiType
<1>6. ASSUME NEW w \in Workers, PartWrite(w) PROVE EmiStep(e)
  <2>1. emi' = [emi EXCEPT
                 ![task[w].emi].paid = IF task[w].pay THEN TRUE ELSE @,
                 ![task[w].emi].done = IF task[w].pay /\ task[w].done THEN TRUE ELSE @,
                 ![task[w].emi].left = task[w].left]
    BY <1>6 DEF PartWrite
  <2>2. emi[e] \in EmiType
    BY <1>2 DEF EmiTable
  <2>3. CASE e # task[w].emi
    <3>1. emi'[e] = emi[e]
      BY <1>2, <2>1, <2>3 DEF EmiTable
    <3> QED BY <3>1 DEF EmiStep
  <2>4. CASE e = task[w].emi
    <3>1. /\ emi'[e].paid = IF task[w].pay THEN TRUE ELSE emi[e].paid
          /\ emi'[e].left = task[w].left
      BY <1>2, <2>1, <2>2, <2>4 DEF EmiTable, EmiType
    <3> QED BY <1>6, <2>4, <3>1 DEF EmiStep
  <2> QED BY <2>3, <2>4
<1>7. ASSUME NEW w \in Workers, FullWrite(w) PROVE EmiStep(e)
  <2>1. CASE emi' # emi
    <3>1. PICK d \in task[w].ids : emi' = [emi EXCEPT ![d].paid = TRUE, ![d].done = TRUE]
      BY <1>7, <2>1 DEF FullWrite
    <3>2. pc[w] = "fullWrite"
      BY <1>7 DEF FullWrite
    <3>3. emi'[e].left = emi[e].left /\ (emi[e].paid => emi'[e].paid)
      BY <1>2, <3>1 DEF EmiTable, EmiType
    <3> QED BY <3>2, <3>3 DEF EmiStep
  <2> QED BY <1>3, <2>1
<1>8. ASSUME NEW w \in Workers, RecalcWrite(w) PROVE EmiStep(e)
  <2>1. CASE emi' # emi
    <3>1. PICK d \in task[w].ids :
            emi' = [emi EXCEPT ![d].paidPi = task[w].sums[d].pi,
                               ![d].paidCharge = task[w].sums[d].charge]
      BY <1>8, <2>1 DEF RecalcWrite
    <3> QED BY <1>2, <3>1 DEF EmiStep, EmiTable, EmiType
  <2> QED BY <1>3, <2>1
<1>9. ASSUME NEW w \in Workers, DuesWrite(w) PROVE EmiStep(e)
  BY <1>2, <1>9 DEF DuesWrite, EmiStep, EmiTable, EmiType
<1>10. CASE UNCHANGED vars
  BY <1>3, <1>10 DEF vars
<1>11. CASE DatePasses \/ \E p \in Pays : CreateOrder(p) \/ GatewayCapture(p) \/ GatewayFail(p)
  BY <1>3, <1>11 DEF CreateOrder, GatewayCapture, GatewayFail, DatePasses, db
<1>12. ASSUME NEW w \in Workers, NEW p \in Pays,
              \/ Poll(w, p)
              \/ \E event \in {"captured", "failed"} : ManualWebhook(w, p, event)
              \/ SigndeskBatch(w, p)
       PROVE  EmiStep(e)
  BY <1>3, <1>12 DEF Poll, ManualWebhook, SigndeskBatch, Enter, db
<1>13. ASSUME NEW w \in Workers, DuesRead(w) \/ ArchiveRead(w) \/ Advance(w) \/ Abort(w)
       PROVE  EmiStep(e)
  <2>1. CASE DuesRead(w) \/ ArchiveRead(w) \/ Abort(w) \/ Bifurcate(w) \/ SplitPart(w)
             \/ UpdateTransaction(w) \/ BounceRead(w) \/ BounceTrace(w) \/ PartRead(w)
             \/ FullRead(w) \/ StatusRead(w) \/ StatusWrite(w) \/ RecalcRead(w)
             \/ CloseCheck(w) \/ CloseTheLoan(w) \/ ReadUser(w) \/ GiveReferral(w)
             \/ CountLoan(w) \/ ArchiveDelete(w)
    BY <1>3, <2>1 DEF DuesRead, ArchiveRead, Abort, Bifurcate, SplitPart,
       UpdateTransaction, BounceRead, BounceTrace, PartRead, FullRead, StatusRead, StatusWrite,
       RecalcRead, CloseCheck, CloseTheLoan, ReadUser, GiveReferral, CountLoan, ArchiveDelete, db
  <2> QED BY <1>4, <1>5, <1>6, <1>7, <1>8, <1>9, <1>13, <2>1 DEF Advance
<1> QED BY <1>10, <1>11, <1>12, <1>13 DEF Next

-----------------------------------------------------------------------------
(* The money behind the instalments that are marked as paid: their own     *)
(* rows, or one full payment for all that was owed.                        *)

OwedUnpaid == SumFunctionOnSet([e \in Unpaid |-> OwedPi(e)], Unpaid)
OwedAll == SumFunctionOnSet([e \in Emis |-> OwedPi(e)], Emis)
Backed == \E r \in Completed : row[r].part.emi = NoEmi /\ OwedAll <= row[r].part.pi

LeftCovers == \A e \in Emis : OwedPi(e) <= emi[e].left
FullRowsFund == \A r \in RowIds : row[r].type = "FULLPAY" /\ row[r].status # "COMPLETED"
                                    => OwedUnpaid <= row[r].part.pi
PaidOweNothing == \A e \in Emis \ Unpaid : OwedPi(e) = 0
WriterFunds(w) ==
  /\ pc[w] \in {"fullRead", "fullWrite"} => Backed
  /\ pc[w] = "partWrite" => /\ OwedPi(task[w].emi) <= task[w].left
                            /\ task[w].pay => OwedPi(task[w].emi) = 0
FundInv == /\ LeftCovers /\ FullRowsFund
           /\ Backed \/ PaidOweNothing
           /\ \A w \in Workers : WriterFunds(w)

(* What is owed adds up to natural numbers.                                *)
LEMMA OwedSums ==
  ASSUME OneHandler, IsFiniteSet(Pays), IndInv, AloneInv, [Next]_vars
  PROVE  /\ OwedUnpaid \in Nat /\ OwedUnpaid' \in Nat /\ OwedUnpaid' <= OwedUnpaid
         /\ OwedAll \in Nat /\ OwedAll' \in Nat /\ OwedAll' <= OwedAll
         /\ PaidOweNothing => OwedAll = OwedUnpaid
<1>1. /\ Unpaid' \in SUBSET Unpaid /\ Unpaid \in SUBSET Emis
      /\ IsFiniteSet(Emis) /\ IsFiniteSet(Unpaid)
  <2>1. Unpaid' \subseteq Unpaid
    BY EmiStepIs DEF EmiStep, Unpaid
  <2>2. Unpaid \subseteq Emis
    BY DEF Unpaid
  <2> QED BY <2>1, <2>2, RowsFinite, FS_Subset
<1> DEFINE f == [e \in Unpaid |-> OwedPi(e)]
           g == [e \in Unpaid' |-> OwedPi(e)']
           h == [e \in Emis |-> OwedPi(e)]
           k == [e \in Emis |-> OwedPi(e)']
<1>2. /\ \A e \in Unpaid : f[e] \in Nat
      /\ \A e \in Unpaid' : g[e] \in Nat /\ g[e] <= f[e]
      /\ \A e \in Emis : h[e] \in Nat /\ k[e] \in Nat /\ k[e] <= h[e]
      /\ \A e \in Unpaid : f[e] = h[e]
      /\ PaidOweNothing => \A e \in Emis \ Unpaid : h[e] = 0
  BY <1>1, OwedShrinks DEF PaidOweNothing
<1>3. /\ OwedUnpaid = SumFunctionOnSet(f, Unpaid)
      /\ OwedUnpaid' = SumFunctionOnSet(g, Unpaid')
      /\ OwedAll = SumFunctionOnSet(h, Emis)
      /\ OwedAll' = SumFunctionOnSet(k, Emis)
  BY DEF OwedUnpaid, OwedAll, Emis
<1> HIDE DEF f, g, h, k
<1>4. /\ SumFunctionOnSet(f, Unpaid) \in Nat /\ SumFunctionOnSet(g, Unpaid') \in Nat
      /\ SumFunctionOnSet(g, Unpaid') <= SumFunctionOnSet(f, Unpaid)
  BY <1>1, <1>2, SumShrinks
<1>5. /\ SumFunctionOnSet(h, Emis) \in Nat /\ SumFunctionOnSet(k, Emis) \in Nat
      /\ SumFunctionOnSet(k, Emis) <= SumFunctionOnSet(h, Emis)
  <2>1. Emis \in SUBSET Emis
    OBVIOUS
  <2> QED BY <1>1, <1>2, <2>1, SumShrinks
<1>6. PaidOweNothing => SumFunctionOnSet(f, Unpaid) = SumFunctionOnSet(h, Emis)
  BY <1>1, <1>2, SumSelected
<1> QED BY <1>3, <1>4, <1>5, <1>6

LEMMA StaysBacked ==
  ASSUME OneHandler, IsFiniteSet(Pays), IndInv, AloneInv, [Next]_vars, Backed
  PROVE  Backed'
<1>1. PICK r \in Completed : row[r].part.emi = NoEmi /\ OwedAll <= row[r].part.pi
  BY DEF Backed
<1>2. row'[r] = row[r] /\ r \in Completed' /\ r \in RowIds /\ row[r].part.pi \in Nat
  BY RowStepIs DEF RowStep, Completed, IndInv, TypeOK, RowTable, RowType, Parts, Money
<1>3. row'[r].part.emi = NoEmi /\ OwedAll' <= row'[r].part.pi
  BY <1>1, <1>2, OwedSums
<1> QED BY <1>2, <1>3 DEF Backed

LEMMA FullRowsStayFunded ==
  ASSUME OneHandler, IsFiniteSet(Pays), IndInv, AloneInv, FundInv, [Next]_vars
  PROVE  FullRowsFund'
<1>1. OwedUnpaid \in Nat /\ OwedUnpaid' \in Nat /\ OwedUnpaid' <= OwedUnpaid
  BY OwedSums
<1>2. Total(OwedPi, Unpaid) = OwedUnpaid
  BY <1>1 DEF Total, OwedUnpaid, Positive
<1>3. ASSUME NEW r \in RowIds, row'[r].type = "FULLPAY", row'[r].status # "COMPLETED"
      PROVE  OwedUnpaid' <= row'[r].part.pi
  <2>1. row[r].part.pi \in Nat
    BY DEF IndInv, TypeOK, RowTable, RowType, Parts, Money
  <2>2. RowStep(r)
    BY RowStepIs
  <2>3. CASE row'[r].part = row[r].part /\ row[r].type = "FULLPAY"
             /\ row[r].status # "COMPLETED"
    <3>1. OwedUnpaid <= row[r].part.pi
      BY <2>3 DEF FundInv, FullRowsFund
    <3> QED BY <1>1, <2>1, <2>3, <3>1
  <2>4. CASE row'[r].part.pi = OwedUnpaid
    BY <1>1, <2>4
  <2> QED BY <1>2, <1>3, <2>2, <2>3, <2>4 DEF RowStep
<1> QED BY <1>3 DEF FullRowsFund

(* A full payment that arrives covers everything that is owed.             *)
LEMMA FullPaymentBacks ==
  ASSUME OneHandler, IsFiniteSet(Pays), IndInv, AloneInv, FundInv, [Next]_vars,
         NEW w \in Workers, UpdateTransaction(w), task[w].type = "FULLPAY",
         task[w].res = "COMPLETED", row[task[w].id].status \notin Gone, pc'[w] = "fullRead"
  PROVE  Backed'
<1> DEFINE id == task[w].id
<1>1. pc[w] = "update" /\ Updated(w) /\ HandlerFacts(w) /\ FullRows
  BY UpdatedIs DEF AloneInv
<1>2. CASE Backed
  BY <1>2, StaysBacked
<1>3. CASE ~Backed
  <2>1. PICK p \in Pays : /\ task[w] \in Tasks /\ <<p, 1>> \in RowIds
                          /\ id = <<p, IF task[w].i = 0 THEN 1 ELSE task[w].i>>
    BY <1>1, FirstRow DEF OrderLabels, Labels
  <2>2. task[w].i = 0
    BY <1>1, <2>1 DEF HandlerFacts, OrderLabels, Labels, Tasks
  <2>3. id \in RowIds /\ Stands(id)
    BY <2>1, <2>2 DEF Stands
  <2>4. /\ row[id].status # "COMPLETED" /\ row[id].type = "FULLPAY"
        /\ PartOf(w) = row[id].part /\ row[id].part.emi = NoEmi
    BY <1>1, <2>3 DEF HandlerFacts, PartOf, FullRows
  <2>5. row[id] \in RowType
    BY <2>3 DEF IndInv, TypeOK, RowTable
  <2>6. row'[id].status = "COMPLETED" /\ row'[id].part = row[id].part
    <3>1. row'[id] = SettledRow(w)
      BY <1>1, <2>3 DEF Updated, Stands
    <3> QED BY <2>4, <2>5, <3>1 DEF SettledRow, RowType
  <2>7. OwedUnpaid <= row[id].part.pi
    BY <2>3, <2>4 DEF FundInv, FullRowsFund
  <2>8. OwedAll' <= row[id].part.pi
    <3>1. /\ OwedAll = OwedUnpaid /\ OwedAll \in Nat /\ OwedAll' \in Nat
          /\ OwedAll' <= OwedAll
      BY <1>3, OwedSums DEF FundInv
    <3>2. row[id].part.pi \in Nat
      BY <2>5 DEF RowType, Parts, Money
    <3> QED BY <2>7, <3>1, <3>2
  <2>9. id \in Completed'
    BY <2>3, <2>6 DEF Completed
  <2> QED BY <2>4, <2>6, <2>8, <2>9 DEF Backed
<1> QED BY <1>2, <1>3

(* Nothing is paid, all is left.                                           *)
LEMMA FundInit == ASSUME Init, IsFiniteSet(Pays) PROVE FundInv
<1>1. row \in RowTable /\ \A r \in RowIds : row[r].status = "NONE" /\ row[r].type = "EMIPAY"
  BY InitInv DEF IndInv, TypeOK, Init, NoRow
<1>2. ASSUME NEW e \in Emis PROVE OwedPi(e) <= emi[e].left
  <2>1. emi[e].left = PI
    BY <1>2 DEF Init
  <2>2. PaidPi(e) \in Nat
    BY TotalNat DEF PaidPi
  <2> QED BY <2>1, <2>2, ConstantsAssumption DEF OwedPi, Positive
<1>3. Emis \ Unpaid = {} /\ \A w \in Workers : pc[w] = "idle"
  BY DEF Init, Unpaid
<1> QED BY <1>1, <1>2, <1>3 DEF FundInv, LeftCovers, FullRowsFund, PaidOweNothing, WriterFunds

(* What PartRead hands on to PartWrite.                                    *)
LEMMA PartReadFunds ==
  ASSUME IndInv, FundInv, NEW w \in Workers, PartRead(w), pc'[w] = "partWrite"
  PROVE  /\ task[w].emi \in Emis /\ task'[w].emi = task[w].emi /\ row' = row
         /\ OwedPi(task[w].emi) <= task'[w].left
         /\ task'[w].pay => OwedPi(task[w].emi) = 0
<1> DEFINE e == task[w].emi
<1>1. task \in [Workers -> Tasks] /\ pc \in [Workers -> Labels] /\ emi \in EmiTable
  BY DEF IndInv, TypeOK
<1>2. /\ e # NoEmi /\ row' = row
      /\ Keep(w, [task[w] EXCEPT
                   !.pay = Settled(e),
                   !.left = IF Settled(e) THEN emi[e].left ELSE LeftOf(e),
                   !.done = task[w].id \in Completed /\ row[task[w].id].part.emi = e])
  <2>1. Goto(w, "userStatus") => pc'[w] = "userStatus"
    BY <1>1 DEF Goto
  <2>2. Return(w) => pc'[w] \in {"part", "idle"}
    BY <1>1 DEF Return, Goto
  <2> QED BY <2>1, <2>2 DEF PartRead, db
<1>3. e \in Emis /\ task[w] \in Tasks
  BY <1>1, <1>2 DEF Tasks
<1> DEFINE pay == Settled(e)
           left == IF Settled(e) THEN emi[e].left ELSE LeftOf(e)
           done == task[w].id \in Completed /\ row[task[w].id].part.emi = e
<1>4. task'[w] = [task[w] EXCEPT !.pay = pay, !.left = left, !.done = done]
  BY <1>1, <1>2 DEF Keep
<1>5. task'[w].pay = pay /\ task'[w].left = left /\ task'[w].emi = e
  <2> HIDE DEF pay, left, done
  <2> QED BY <1>3, <1>4 DEF Tasks
<1>6. PICK o : o = OwedPi(e)
  OBVIOUS
<1>7. o \in Nat /\ o <= emi[e].left /\ emi[e].left \in Nat
  BY <1>1, <1>3, <1>6, OwedNat DEF FundInv, LeftCovers, EmiTable, EmiType
<1>8. LeftOf(e) = o
  <2>1. LeftOf(e) = AtMost(emi[e].left, o)
    BY <1>6 DEF LeftOf, OwedPi
  <2> QED BY <1>7, <2>1 DEF AtMost
<1>9. pay => o = 0
  BY <1>8 DEF Settled
<1>10. o <= left
  <2> HIDE DEF e
  <2> QED BY <1>7, <1>8
<1> QED BY <1>2, <1>3, <1>5, <1>6, <1>9, <1>10

(* FundInv is inductive, together with IndInv and AloneInv.                *)
LEMMA FundInductive ==
  ASSUME OneHandler, IsFiniteSet(Pays), IndInv, AloneInv, FundInv, [Next]_vars
  PROVE  FundInv'
<1>1. LeftCovers'
  <2>1. ASSUME NEW e \in Emis PROVE OwedPi(e)' <= emi'[e].left
    <3>1. /\ OwedPi(e) \in Nat /\ OwedPi(e)' \in Nat /\ OwedPi(e)' <= OwedPi(e)
          /\ emi[e].left \in Nat
      BY OwedShrinks DEF IndInv, TypeOK, EmiTable, EmiType
    <3>2. CASE emi'[e].left = emi[e].left
      BY <3>1, <3>2 DEF FundInv, LeftCovers
    <3>3. ASSUME NEW w \in Workers, PartWrite(w), e = task[w].emi,
                 emi'[e].left = task[w].left
          PROVE  OwedPi(e)' <= emi'[e].left
      <4>1. OwedPi(e) <= task[w].left /\ task[w].left \in Nat
        BY <3>3 DEF FundInv, WriterFunds, PartWrite, IndInv, TypeOK, Tasks
      <4> QED BY <3>1, <3>3, <4>1
    <3> QED BY <3>2, <3>3, EmiStepIs DEF EmiStep
  <2> QED BY <2>1 DEF LeftCovers
<1>2. FullRowsFund'
  BY FullRowsStayFunded
<1>3. (Backed \/ PaidOweNothing)'
  <2>1. CASE Backed
    BY <2>1, StaysBacked
  <2>2. CASE ~Backed
    <3>1. ASSUME NEW e \in Emis, emi'[e].paid PROVE OwedPi(e)' = 0
      <4>1. OwedPi(e) \in Nat /\ OwedPi(e)' \in Nat /\ OwedPi(e)' <= OwedPi(e)
        BY OwedShrinks
      <4>2. CASE emi[e].paid
        <5>1. OwedPi(e) = 0
          BY <2>2, <4>2 DEF FundInv, PaidOweNothing, Unpaid
        <5> QED BY <4>1, <5>1
      <4>3. CASE ~emi[e].paid
        <5>1. ASSUME NEW w \in Workers, PartWrite(w), e = task[w].emi, task[w].pay
              PROVE  OwedPi(e) = 0
          BY <5>1 DEF FundInv, WriterFunds, PartWrite
        <5>2. ASSUME NEW w \in Workers, pc[w] = "fullWrite" PROVE Backed
          BY <5>2 DEF FundInv, WriterFunds
        <5>3. emi'[e].paid # emi[e].paid
          BY <3>1, <4>3
        <5>4. \E w \in Workers : \/ PartWrite(w) /\ e = task[w].emi /\ task[w].pay
                                 \/ pc[w] = "fullWrite"
          BY <5>3, EmiStepIs DEF EmiStep
        <5>5. OwedPi(e) = 0
          BY <2>2, <5>1, <5>2, <5>4
        <5> QED BY <4>1, <5>5
      <4> QED BY <4>2, <4>3
    <3> QED BY <3>1 DEF PaidOweNothing, Unpaid
  <2> QED BY <2>1, <2>2
<1>4. ASSUME NEW w \in Workers PROVE WriterFunds(w)'
  <2>1. pc'[w] \in {"fullRead", "fullWrite"} => Backed'
    <3>1. pc[w] \in {"fullRead", "fullWrite"} => Backed
      BY DEF FundInv, WriterFunds
    <3> QED BY <3>1, WaysToWrite, StaysBacked, FullPaymentBacks
  <2>2. ASSUME pc'[w] = "partWrite"
        PROVE  /\ OwedPi(task[w].emi)' <= task'[w].left
               /\ task'[w].pay => OwedPi(task[w].emi)' = 0
               /\ task'[w].emi = task[w].emi
    <3> DEFINE e == task[w].emi
    <3>1. PICK d : d = e
      OBVIOUS
    <3>2. /\ OwedPi(d) \in Nat /\ OwedPi(d)' \in Nat /\ OwedPi(d)' <= OwedPi(d)
      BY OwedShrinks
    <3>3. /\ OwedPi(d) <= task'[w].left /\ (task'[w].pay => OwedPi(d) = 0)
          /\ task'[w].emi = d
      <4>1. CASE pc[w] = "partWrite" /\ task'[w] = task[w]
        BY <3>1, <4>1 DEF FundInv, WriterFunds
      <4>2. CASE PartRead(w)
        BY <2>2, <3>1, <4>2, PartReadFunds
      <4> QED BY <2>2, <4>1, <4>2, WaysToWrite
    <3>4. task'[w].left \in Nat
      BY Inductive DEF IndInv, TypeOK, Tasks
    <3> QED BY <3>1, <3>2, <3>3, <3>4
  <2> QED BY <2>1, <2>2 DEF WriterFunds
<1> QED BY <1>1, <1>2, <1>3, <1>4 DEF FundInv

(* The rows that pay instalments, summed up per instalment.                *)
PaidFor(T) == SumFunctionOnSet([e \in T |-> PaidPi(e)], T)

LEMMA CompletedPays ==
  ASSUME IsFiniteSet(Pays), row \in RowTable, NEW T \in SUBSET Emis,
         NEW S \in SUBSET Completed,
         \A r \in Completed : row[r].part.emi \in T => r \in S
  PROVE  /\ PaidFor(T) \in Nat
         /\ SumFunctionOnSet([r \in Completed |-> Amount(row[r].part)], S) \in Nat
         /\ PaidFor(T)
              <= SumFunctionOnSet([r \in Completed |-> Amount(row[r].part)], S)
<1> DEFINE key == [r \in Completed |-> row[r].part.emi]
           pi == [r \in Completed |-> row[r].part.pi]
           amount == [r \in Completed |-> Amount(row[r].part)]
           g == [e \in T |-> PaidPi(e)]
           for(e) == {r \in Completed : row[r].part.emi = e}
           U == {r \in Completed : key[r] \in T}
<1>1. /\ IsFiniteSet(Completed) /\ IsFiniteSet(T) /\ IsFiniteSet(S)
      /\ Completed \in SUBSET RowIds
  <2>1. Completed \in SUBSET RowIds
    BY DEF Completed
  <2> QED BY <2>1, RowsFinite, FS_Subset
<1>2. \A r \in Completed : row[r].part.pi \in Nat /\ Amount(row[r].part) \in Nat
                           /\ row[r].part.pi <= Amount(row[r].part)
  BY <1>1 DEF RowTable, RowType, Parts, Money, Amount
<1>3. \A r \in Completed : pi[r] \in Nat /\ amount[r] \in Nat /\ pi[r] <= amount[r]
  BY <1>2
<1> DEFINE group == [e \in T |-> for(e)]
<1>4. ASSUME NEW e \in T
      PROVE  g[e] = SumFunctionOnSet(pi, for(e))
  <2> DEFINE f == [r \in for(e) |-> row[r].part.pi]
  <2>1. PaidPi(e) = Positive(SumFunctionOnSet(f, for(e)))
    BY DEF PaidPi, Total
  <2>2. IsFiniteSet(for(e)) /\ \A r \in for(e) : f[r] = pi[r] /\ pi[r] \in Nat
    <3>1. for(e) \in SUBSET Completed
      OBVIOUS
    <3> QED BY <1>1, <1>2, <3>1, FS_Subset
  <2> HIDE DEF for, f, pi
  <2>3. SumFunctionOnSet(f, for(e)) = SumFunctionOnSet(pi, for(e))
    BY <2>2, SumSame
  <2>4. SumFunctionOnSet(pi, for(e)) \in Nat
    BY <2>2, SumOfNaturals
  <2> QED BY <2>1, <2>3, <2>4 DEF Positive
<1>5. /\ U \in SUBSET S
      /\ \A r \in S : amount[r] \in Nat
      /\ \A r \in U : pi[r] \in Nat /\ pi[r] <= amount[r]
  BY <1>3
<1>6. PaidFor(T) = SumFunctionOnSet(g, T)
  BY DEF PaidFor
<1>7. /\ Groups(group, key, Completed, T, U)
      /\ \A e \in T : g[e] = SumFunctionOnSet(pi, group[e])
      /\ \A r \in Completed : pi[r] \in Int
  <2>1. \A e \in T : group[e] = for(e)
    OBVIOUS
  <2>2. \A e \in T : g[e] = SumFunctionOnSet(pi, group[e])
    <3> HIDE DEF g, pi, group, for
    <3> QED BY <1>4, <2>1
  <2>3. Groups(group, key, Completed, T, U)
    <3>1. \A e \in T : \A r \in Completed : r \in group[e] <=> key[r] = e
      BY <2>1
    <3> HIDE DEF group, key
    <3> QED BY <2>1, <3>1 DEF Groups
  <2>4. \A r \in Completed : pi[r] \in Int
    BY <1>3
  <2> QED BY <2>2, <2>3, <2>4
<1> HIDE DEF key, pi, amount, g, U, group
<1>9. SumFunctionOnSet(g, T) = SumFunctionOnSet(pi, U)
  BY <1>1, <1>7, SumByKey
<1>8. /\ SumFunctionOnSet(amount, S) \in Nat /\ SumFunctionOnSet(pi, U) \in Nat
      /\ SumFunctionOnSet(pi, U) <= SumFunctionOnSet(amount, S)
  BY <1>1, <1>5, SumShrinks
<1> QED BY <1>6, <1>8, <1>9 DEF amount

(* The money in COMPLETED rows covers every instalment that is marked as   *)
(* paid, full payments and split ones included, also while a handler runs. *)
LEMMA FundsCover ==
  ASSUME IsFiniteSet(Pays), IndInv, FundInv
  PROVE  SumOf(Completed) >= PI * Cardinality(Emis \ Unpaid)
<1> DEFINE amount == [r \in Completed |-> Amount(row[r].part)]
           settled == Emis \ Unpaid
<1>1. /\ row \in RowTable /\ IsFiniteSet(Emis) /\ IsFiniteSet(settled)
      /\ settled \in SUBSET Emis /\ Cardinality(settled) \in Nat
      /\ Cardinality(Emis) \in Nat /\ Cardinality(settled) <= Cardinality(Emis)
  <2>1. settled \in SUBSET Emis
    OBVIOUS
  <2> QED BY <2>1, RowsFinite, FS_Subset, FS_CardinalityType DEF IndInv, TypeOK
<1>2. PI \in Nat
  BY ConstantsAssumption
<1>3. \A e : PaidPi(e) \in Nat /\ OwedPi(e) \in Nat /\ PI <= OwedPi(e) + PaidPi(e)
  <2>1. TAKE e
  <2>2. PICK a : a = PaidPi(e)
    OBVIOUS
  <2>3. a \in Nat
    BY <2>2, TotalNat DEF PaidPi
  <2>4. OwedPi(e) = Positive(PI - a)
    BY <2>2 DEF OwedPi
  <2> QED BY <1>2, <2>2, <2>3, <2>4 DEF Positive
<1>4. SumFunctionOnSet(amount, Completed) \in Nat
  BY <1>1, CompletedPays
<1>5. SumOf(Completed) = SumFunctionOnSet(amount, Completed)
  BY <1>4 DEF SumOf, Total, Positive
<1>6. CASE PaidOweNothing
  <2> DEFINE g == [e \in settled |-> PaidPi(e)]
             c == [e \in settled |-> PI]
  <2>1. \A e \in settled : g[e] \in Int /\ c[e] \in Int /\ c[e] <= g[e] /\ c[e] = PI
    <3>1. \A e \in settled : OwedPi(e) = 0
      BY <1>6 DEF PaidOweNothing
    <3> QED BY <1>2, <1>3, <3>1
  <2>2. PaidFor(settled) = SumFunctionOnSet(g, settled)
    BY DEF PaidFor
  <2>3. /\ PaidFor(settled) \in Nat
        /\ PaidFor(settled) <= SumFunctionOnSet(amount, Completed)
    BY <1>1, CompletedPays
  <2> HIDE DEF g, c, settled
  <2>4. SumFunctionOnSet(c, settled) <= SumFunctionOnSet(g, settled)
    BY <1>1, <2>1, SumMonotone
  <2>5. SumFunctionOnSet(c, settled) = PI * Cardinality(settled)
    BY <1>1, <1>2, <2>1, SumConstant
  <2>6. PI * Cardinality(settled) \in Nat
    BY <1>1, <1>2
  <2> HIDE DEF amount
  <2>7. SumOf(Completed) >= PI * Cardinality(settled)
    BY <1>4, <1>5, <2>2, <2>3, <2>4, <2>5, <2>6
  <2> QED BY <2>7 DEF settled
<1>7. CASE Backed
  <2>1. PICK r \in Completed : row[r].part.emi = NoEmi /\ OwedAll <= row[r].part.pi
    BY <1>7 DEF Backed
  <2> DEFINE g == [e \in Emis |-> PaidPi(e)]
             o == [e \in Emis |-> OwedPi(e)]
             h == [e \in Emis |-> PaidPi(e) + OwedPi(e)]
             c == [e \in Emis |-> PI]
             others == Completed \ {r}
  <2>2. /\ PaidFor(Emis) \in Nat /\ SumFunctionOnSet(amount, others) \in Nat
        /\ PaidFor(Emis) <= SumFunctionOnSet(amount, others)
    <3>1. \A s \in Completed : row[s].part.emi \in Emis => s \in others
      BY <2>1 DEF NoEmi, Emis
    <3>2. others \in SUBSET Completed /\ Emis \in SUBSET Emis
      OBVIOUS
    <3> HIDE DEF others
    <3> QED BY <1>1, <3>1, <3>2, CompletedPays
  <2>3. /\ IsFiniteSet(Completed) /\ \A s \in Completed : amount[s] \in Int
        /\ row[r].part.pi \in Nat /\ row[r].part.pi <= amount[r]
    <3>1. Completed \in SUBSET RowIds
      BY DEF Completed
    <3>2. \A s \in Completed : row[s].part.pi \in Nat /\ Amount(row[s].part) \in Nat
                               /\ row[s].part.pi <= Amount(row[s].part)
      BY <1>1, <3>1 DEF RowTable, RowType, Parts, Money, Amount
    <3> QED BY <3>1, <3>2, RowsFinite, FS_Subset
  <2>4. PaidFor(Emis) = SumFunctionOnSet(g, Emis) /\ OwedAll = SumFunctionOnSet(o, Emis)
    BY DEF PaidFor, OwedAll
  <2>5. \A e \in Emis : /\ g[e] \in Int /\ o[e] \in Int /\ h[e] = g[e] + o[e]
                        /\ c[e] \in Int /\ h[e] \in Int /\ c[e] <= h[e] /\ c[e] = PI
    BY <1>2, <1>3
  <2> HIDE DEF g, o, h, c, amount
  <2>6. SumFunctionOnSet(amount, Completed) = amount[r] + SumFunctionOnSet(amount, others)
    BY <2>3, SumAnyFirst
  <2>7. SumFunctionOnSet(h, Emis) = SumFunctionOnSet(g, Emis) + SumFunctionOnSet(o, Emis)
    BY <1>1, <2>5, SumPlus
  <2>8. SumFunctionOnSet(c, Emis) <= SumFunctionOnSet(h, Emis)
    BY <1>1, <2>5, SumMonotone
  <2>9. SumFunctionOnSet(c, Emis) = PI * Cardinality(Emis)
    BY <1>1, <1>2, <2>5, SumConstant
  <2>10. PI * Cardinality(settled) <= PI * Cardinality(Emis)
    <3>1. \A a, b \in Nat : a <= b => PI * a <= PI * b
      BY <1>2
    <3> QED BY <1>1, <3>1
  <2>11. /\ PI * Cardinality(settled) \in Int /\ PI * Cardinality(Emis) \in Int
         /\ SumFunctionOnSet(o, Emis) \in Int
    BY <1>1, <1>2, <2>5, SumAnyFirst
  <2> HIDE DEF settled, others
  <2>12. SumFunctionOnSet(amount, Completed) >= PI * Cardinality(settled)
    <3>1. amount[r] \in Int /\ SumFunctionOnSet(o, Emis) <= amount[r]
      BY <2>1, <2>3, <2>4, <2>11
    <3>2. SumFunctionOnSet(h, Emis) <= SumFunctionOnSet(amount, Completed)
      BY <2>2, <2>4, <2>6, <2>7, <2>11, <3>1
    <3> QED BY <1>4, <2>2, <2>4, <2>7, <2>8, <2>9, <2>10, <2>11, <3>2
  <2> QED BY <1>5, <2>12 DEF settled, amount
<1> QED BY <1>6, <1>7 DEF FundInv

(* What is left of an instalment covers what its rows leave open, and those *)
(* marked as paid owe nothing or a full payment stands behind them all.    *)
THEOREM FundInvariance ==
  ASSUME OneHandler, IsFiniteSet(Pays)
  PROVE  Spec => [](IndInv /\ AloneInv /\ FundInv)
<1>1. Init => IndInv /\ AloneInv /\ FundInv
  BY InitInv, AloneInit, FundInit
<1>2. (IndInv /\ AloneInv /\ FundInv) /\ [Next]_vars => (IndInv /\ AloneInv /\ FundInv)'
  BY Inductive, AloneInductive, FundInductive
<1> QED BY <1>1, <1>2, PTL DEF Spec

(* No instalment is marked as paid without money behind it: rows of its    *)
(* own, or a full payment of everything that was owed.                     *)
THEOREM NothingPaidUnfunded ==
  ASSUME OneHandler, IsFiniteSet(Pays)
  PROVE  Spec => []PaidIsFunded
<1>1. IndInv /\ AloneInv /\ FundInv => PaidIsFunded
  BY FundsCover DEF PaidIsFunded
<1> QED BY <1>1, FundInvariance, PTL

-----------------------------------------------------------------------------
(* The columns of an instalment against its rows.                          *)

Synced(e) == emi[e].paidPi = PaidPi(e) /\ emi[e].paidCharge = PaidCharge(e)
Open(e) == emi[e].left = OwedPi(e) /\ Owed(e) > 0

(* The handler that is bringing the columns up to date, and how far it is. *)
AtPart(w, e) == pc[w] \in {"partRead", "partWrite"} /\ task[w].emi = e
Refreshing(w, e) ==
  \/ pc[w] \in {"partRead", "partWrite"} /\ task[w].emi # NoEmi
  \/ pc[w] \in {"userStatus", "userWrite", "recalcRead"}
  \/ pc[w] = "recalcWrite" /\ e \in task[w].ids
WriterKnows(w) ==
  /\ pc[w] = "partWrite" /\ ~emi[task[w].emi].paid =>
       \/ task[w].pay
       \/ task[w].left = OwedPi(task[w].emi) /\ Owed(task[w].emi) > 0
  /\ pc[w] = "recalcWrite" => Completed # {} /\ task[w].sums = Sums

UnpaidAreOpen == \A e \in Unpaid : Open(e) \/ \E w \in Workers : AtPart(w, e)
NothingBooked == Completed = {} => \A e \in Emis : emi[e].paidPi = 0 /\ emi[e].paidCharge = 0
AllSynced == \A e \in Emis : Synced(e) \/ \E w \in Workers : Refreshing(w, e)
SettleInv == /\ UnpaidAreOpen /\ NothingBooked /\ AllSynced
             /\ \A w \in Workers : WriterKnows(w)

(* A step leaves what is paid of an instalment alone, or it is the answer  *)
(* of its own order.                                                       *)
SamePaid(e) == PaidPi(e)' = PaidPi(e) /\ PaidCharge(e)' = PaidCharge(e)
Credits(w, e) == /\ UpdateTransaction(w) /\ task[w].emi = e
                /\ pc'[w] = "partRead" /\ task'[w] = task[w]

LEMMA PaidChanges ==
  ASSUME OneHandler, IsFiniteSet(Pays), IndInv, AloneInv, [Next]_vars, NEW e \in Emis
  PROVE  SamePaid(e) \/ \E w \in Workers : Credits(w, e)
<1> SUFFICES ASSUME ~ \E w \in Workers : Credits(w, e)
             PROVE  SamePaid(e)
  OBVIOUS
<1>1. row \in RowTable /\ row' \in RowTable /\ IsFiniteSet(RowIds)
  BY Inductive, RowsFinite DEF IndInv, TypeOK
<1>2. ASSUME NEW r \in RowIds, NEW w \in Workers, Arrives(w, r), row'[r].part.emi = e
      PROVE  row'[r].part.pi = 0 /\ row'[r].part.charge = 0
  <2>1. /\ pc[w] = "update" /\ Updated(w) /\ HandlerFacts(w) /\ FullRows
        /\ UpdateTransaction(w) /\ task[w].res = "COMPLETED" /\ r = task[w].id /\ Stands(r)
        /\ row'[r].part = PartOf(w)
    BY <1>2, UpdatedIs DEF AloneInv, Arrives
  <2>2. task[w].type # "FULLPAY" \/ PartOf(w).emi = NoEmi
    BY <2>1 DEF HandlerFacts, FullRows, PartOf
  <2>3. e # NoEmi
    BY DEF Emis, NoEmi
  <2>4. pc'[w] = "partRead" /\ task'[w] = task[w]
    BY <1>2, <2>1, <2>2, <2>3 DEF Updated, Stands
  <2>5. task[w].emi # e
    BY <2>1, <2>4 DEF Credits
  <2> QED BY <1>2, <2>1, <2>5 DEF HandlerFacts
<1>3. ASSUME NEW r \in RowIds
      PROVE  /\ PiShare(row', e)[r] = PiShare(row, e)[r]
             /\ ChargeShare(row', e)[r] = ChargeShare(row, e)[r]
  <2>1. RowStep(r)
    BY RowStepIs
  <2>2. /\ PiShare(row', e)[r] = IF PaysFor(row', r, e) THEN row'[r].part.pi ELSE 0
        /\ PiShare(row, e)[r] = IF PaysFor(row, r, e) THEN row[r].part.pi ELSE 0
        /\ ChargeShare(row', e)[r] = IF PaysFor(row', r, e) THEN row'[r].part.charge ELSE 0
        /\ ChargeShare(row, e)[r] = IF PaysFor(row, r, e) THEN row[r].part.charge ELSE 0
    BY <1>1, SharesAre
  <2>3. CASE row'[r] = row[r]
    BY <2>2, <2>3 DEF PaysFor
  <2>4. CASE row'[r] # row[r]
    <3>1. row[r].status # "COMPLETED"
      BY <2>1, <2>4 DEF RowStep
    <3>2. row'[r].status = "COMPLETED" /\ row'[r].part.emi = e
            => row'[r].part.pi = 0 /\ row'[r].part.charge = 0
      BY <1>2, <2>1, <2>4 DEF RowStep
    <3> QED BY <2>2, <3>1, <3>2 DEF PaysFor
  <2> QED BY <2>3, <2>4
<1>4. /\ SumFunctionOnSet(PiShare(row', e), RowIds) = SumFunctionOnSet(PiShare(row, e), RowIds)
      /\ SumFunctionOnSet(ChargeShare(row', e), RowIds)
           = SumFunctionOnSet(ChargeShare(row, e), RowIds)
  BY <1>1, <1>3, SumSame
<1> QED BY <1>1, <1>4, PaidIsShared DEF SamePaid

(* A step leaves the columns of an instalment alone, or lets its flags and *)
(* its charge grow, or it is one of the two that write the columns.        *)
CalmEmi(e) ==
  /\ emi[e].paid => emi'[e].paid
  /\ emi'[e].left = emi[e].left
  /\ emi'[e].paidPi = emi[e].paidPi /\ emi'[e].paidCharge = emi[e].paidCharge
  /\ emi[e].charge \in Nat /\ emi'[e].charge \in Nat /\ emi[e].charge <= emi'[e].charge

LEMMA CalmEmiOf ==
  ASSUME emi \in EmiTable, NEW e \in Emis, emi'[e] = emi[e]
  PROVE  CalmEmi(e)
<1>1. emi[e].charge \in Nat
  BY ConstantsAssumption DEF EmiTable, EmiType
<1> QED BY <1>1 DEF CalmEmi

LEMMA CalmEmis ==
  ASSUME IndInv, [Next]_vars,
         \A w \in Workers : ~PartWrite(w) /\ ~RecalcWrite(w)
  PROVE  \A e \in Emis : CalmEmi(e)
<1>1. TAKE e \in Emis
<1>2. emi \in EmiTable /\ emi[e] \in EmiType
  BY DEF IndInv, TypeOK, EmiTable
<1>3. CASE emi' = emi
  BY <1>2, <1>3, CalmEmiOf
<1>4. ASSUME NEW w \in Workers, ResetPenalty(w) PROVE CalmEmi(e)
  <2>1. CASE emi' # emi
    <3>1. PICK d : emi' = [emi EXCEPT ![d].due = FALSE]
      BY <1>4, <2>1 DEF ResetPenalty
    <3>2. CASE d = e
      <4>1. emi'[e] = [emi[e] EXCEPT !.due = FALSE]
        BY <1>2, <3>1, <3>2 DEF EmiTable
      <4>2. emi[e].charge \in Nat
        BY <1>2, ConstantsAssumption DEF EmiType
      <4> QED BY <1>2, <4>1, <4>2 DEF EmiType, CalmEmi
    <3>3. CASE d # e
      BY <1>2, <3>1, <3>3, CalmEmiOf DEF EmiTable
    <3> QED BY <3>2, <3>3
  <2> QED BY <1>3, <2>1
<1>5. ASSUME NEW w \in Workers, BounceWrite(w) PROVE CalmEmi(e)
  <2>1. PICK d : emi' = [emi EXCEPT ![d].charge = Ecs]
    BY <1>5 DEF BounceWrite
  <2>2. CASE d = e
    <3>1. emi'[e] = [emi[e] EXCEPT !.charge = Ecs]
      BY <1>2, <2>1, <2>2 DEF EmiTable
    <3>2. emi[e].charge \in {0, Ecs} /\ Ecs \in Nat
      BY <1>2, ConstantsAssumption DEF EmiType
    <3>3. /\ emi'[e].charge = Ecs /\ emi'[e].paid = emi[e].paid /\ emi'[e].left = emi[e].left
          /\ emi'[e].paidPi = emi[e].paidPi /\ emi'[e].paidCharge = emi[e].paidCharge
      BY <1>2, <3>1 DEF EmiType
    <3> QED BY <3>2, <3>3 DEF CalmEmi
  <2>3. CASE d # e
    BY <1>2, <2>1, <2>3, CalmEmiOf DEF EmiTable
  <2> QED BY <2>2, <2>3
<1>6. ASSUME NEW w \in Workers, FullWrite(w) PROVE CalmEmi(e)
  <2>1. CASE emi' # emi
    <3>1. PICK d \in task[w].ids : emi' = [emi EXCEPT ![d].paid = TRUE, ![d].done = TRUE]
      BY <1>6, <2>1 DEF FullWrite
    <3>2. CASE d = e
      <4>1. /\ emi'[e].charge = emi[e].charge /\ emi'[e].paid /\ emi'[e].left = emi[e].left
            /\ emi'[e].paidPi = emi[e].paidPi /\ emi'[e].paidCharge = emi[e].paidCharge
        BY <1>2, <3>1, <3>2 DEF EmiTable, EmiType
      <4>2. emi[e].charge \in Nat
        BY <1>2, ConstantsAssumption DEF EmiType
      <4> QED BY <4>1, <4>2 DEF CalmEmi
    <3>3. CASE d # e
      BY <1>2, <3>1, <3>3, CalmEmiOf DEF EmiTable
    <3> QED BY <3>2, <3>3
  <2> QED BY <1>3, <2>1
<1>7. ASSUME NEW w \in Workers, DuesWrite(w) PROVE CalmEmi(e)
  <2>1. emi'[e] = IF e \in task[w].ids THEN [emi[e] EXCEPT !.due = TRUE] ELSE emi[e]
    BY <1>7 DEF DuesWrite
  <2>2. /\ emi'[e].charge = emi[e].charge /\ emi'[e].paid = emi[e].paid
        /\ emi'[e].left = emi[e].left
        /\ emi'[e].paidPi = emi[e].paidPi /\ emi'[e].paidCharge = emi[e].paidCharge
    BY <1>2, <2>1 DEF EmiType
  <2>3. emi[e].charge \in Nat
    BY <1>2, ConstantsAssumption DEF EmiType
  <2> QED BY <2>2, <2>3 DEF CalmEmi
<1>8. CASE UNCHANGED vars
  BY <1>3, <1>8 DEF vars
<1>9. CASE DatePasses \/ \E p \in Pays : CreateOrder(p) \/ GatewayCapture(p) \/ GatewayFail(p)
  BY <1>3, <1>9 DEF CreateOrder, GatewayCapture, GatewayFail, DatePasses, db
<1>10. ASSUME NEW w \in Workers, NEW p \in Pays,
              \/ Poll(w, p)
              \/ \E event \in {"captured", "failed"} : ManualWebhook(w, p, event)
              \/ SigndeskBatch(w, p)
       PROVE  CalmEmi(e)
  BY <1>3, <1>10 DEF Poll, ManualWebhook, SigndeskBatch, Enter, db
<1>11. ASSUME NEW w \in Workers, DuesRead(w) \/ ArchiveRead(w) \/ Advance(w) \/ Abort(w)
       PROVE  CalmEmi(e)
  <2>1. CASE DuesRead(w) \/ ArchiveRead(w) \/ Abort(w) \/ Bifurcate(w) \/ SplitPart(w)
             \/ UpdateTransaction(w) \/ BounceRead(w) \/ BounceTrace(w) \/ PartRead(w)
             \/ FullRead(w) \/ StatusRead(w) \/ StatusWrite(w) \/ RecalcRead(w)
             \/ CloseCheck(w) \/ CloseTheLoan(w) \/ ReadUser(w) \/ GiveReferral(w)
             \/ CountLoan(w) \/ ArchiveDelete(w)
    BY <1>3, <2>1 DEF DuesRead, ArchiveRead, Abort, Bifurcate, SplitPart,
       UpdateTransaction, BounceRead, BounceTrace, PartRead, FullRead, StatusRead, StatusWrite,
       RecalcRead, CloseCheck, CloseTheLoan, ReadUser, GiveReferral, CountLoan, ArchiveDelete, db
  <2> QED BY <1>4, <1>5, <1>6, <1>7, <1>11, <2>1 DEF Advance
<1> QED BY <1>8, <1>9, <1>10, <1>11 DEF Next

LEMMA StaysOwed ==
  ASSUME NEW e, SamePaid(e),
         emi[e].charge \in Nat, emi'[e].charge \in Nat, emi[e].charge <= emi'[e].charge
  PROVE  OwedPi(e)' = OwedPi(e) /\ (Owed(e) > 0 => Owed(e)' > 0)
<1>1. PICK a, c : a = PaidPi(e) /\ c = PaidCharge(e)
  OBVIOUS
<1>2. c \in Nat
  BY <1>1, TotalNat DEF PaidCharge
<1>3. PaidPi(e)' = a /\ PaidCharge(e)' = c
  BY <1>1 DEF SamePaid
<1>4. /\ OwedPi(e) = Positive(PI - a) /\ OwedPi(e)' = Positive(PI - a)
      /\ OwedCharge(e) = Positive(emi[e].charge - c)
      /\ OwedCharge(e)' = Positive(emi'[e].charge - c)
  BY <1>1, <1>3 DEF OwedPi, OwedCharge
<1>5. OwedCharge(e) \in Nat /\ OwedCharge(e)' \in Nat /\ OwedCharge(e) <= OwedCharge(e)'
  BY <1>2, <1>4 DEF Positive
<1>6. OwedPi(e) \in Nat /\ OwedPi(e)' = OwedPi(e)
  BY <1>4, OwedNat
<1>7. Owed(e)' = OwedPi(e)' + OwedCharge(e)' /\ Owed(e) = OwedPi(e) + OwedCharge(e)
  BY DEF Owed
<1>8. Owed(e) > 0 => Owed(e)' > 0
  BY <1>5, <1>6, <1>7
<1> QED BY <1>6, <1>8

LEMMA StaysOpen ==
  ASSUME NEW e, SamePaid(e), CalmEmi(e), Open(e)
  PROVE  Open(e)'
<1>1. OwedPi(e)' = OwedPi(e) /\ (Owed(e) > 0 => Owed(e)' > 0)
  BY StaysOwed DEF CalmEmi
<1> QED BY <1>1 DEF Open, CalmEmi

LEMMA StaysSynced ==
  ASSUME NEW e, SamePaid(e), CalmEmi(e), Synced(e)
  PROVE  Synced(e)'
  BY DEF Synced, SamePaid, CalmEmi

LEMMA CompletedGrows ==
  ASSUME OneHandler, IndInv, AloneInv, [Next]_vars
  PROVE  Completed \subseteq Completed'
  BY RowStepIs DEF RowStep, Completed

LEMMA SettleIs ==
  ASSUME OneHandler, NEW w \in Workers, UnpaidAreOpen', NothingBooked', AllSynced',
         WriterKnows(w)'
  PROVE  SettleInv'
  BY DEF OneHandler, SettleInv

LEMMA NothingBookedStays ==
  ASSUME OneHandler, IndInv, AloneInv, SettleInv, [Next]_vars, \A e \in Emis : CalmEmi(e)
  PROVE  NothingBooked'
<1>1. Completed' = {} => Completed = {}
  BY CompletedGrows
<1> QED BY <1>1 DEF SettleInv, NothingBooked, CalmEmi

(* Nothing is booked, all is owed.                                         *)
LEMMA SettleInit == ASSUME Init, IsFiniteSet(Pays) PROVE SettleInv
<1>1. /\ \A e \in Emis : /\ emi[e].left = PI /\ emi[e].paidPi = 0 /\ emi[e].paidCharge = 0
      /\ \A w \in Workers : pc[w] = "idle"
  BY DEF Init
<1>2. \A r \in RowIds : row[r].status = "NONE"
  BY DEF Init, NoRow
<1>3. Completed = {} /\ \A e : {r \in Completed : row[r].part.emi = e} = {}
  BY <1>2 DEF Completed
<1>4. \A e : PaidPi(e) = 0 /\ PaidCharge(e) = 0
  BY <1>3, SumEmpty DEF PaidPi, PaidCharge, Total, Positive
<1>5. \A e : OwedPi(e) = PI /\ OwedPi(e) + OwedCharge(e) > 0
  <2>1. TAKE e
  <2>2. OwedPi(e) = PI /\ OwedCharge(e) \in Nat
    BY <1>4, OwedNat, ConstantsAssumption DEF OwedPi, Positive
  <2> QED BY <2>2, ConstantsAssumption
<1> QED BY <1>1, <1>4, <1>5
        DEF SettleInv, UnpaidAreOpen, NothingBooked, AllSynced, WriterKnows, Open, Synced,
            Owed, Unpaid

LEMMA SettleStands ==
  ASSUME OneHandler, IsFiniteSet(Pays), IndInv, AloneInv, SettleInv, [Next]_vars,
         UNCHANGED <<emi, pc, task>>
  PROVE  SettleInv'
<1>1. emi \in EmiTable /\ task \in [Workers -> Tasks]
  BY DEF IndInv, TypeOK
<1>2. \A e \in Emis : SamePaid(e)
  <2>1. ASSUME NEW w \in Workers, NEW e, Credits(w, e) PROVE FALSE
    BY <2>1, UpdatedIs DEF Credits
  <2> QED BY <2>1, PaidChanges
<1>3. \A e \in Emis : CalmEmi(e)
  BY <1>1, CalmEmiOf
<1>4. UnpaidAreOpen'
  BY <1>2, <1>3, StaysOpen DEF SettleInv, UnpaidAreOpen, Unpaid, AtPart
<1>5. AllSynced'
  BY <1>2, <1>3, StaysSynced DEF SettleInv, AllSynced, Refreshing
<1>6. ASSUME NEW w \in Workers PROVE WriterKnows(w)'
  <2>1. WriterKnows(w)
    BY DEF SettleInv
  <2>2. ASSUME pc[w] = "partWrite", ~emi[task[w].emi].paid, ~task[w].pay
        PROVE  task[w].left = OwedPi(task[w].emi)' /\ Owed(task[w].emi)' > 0
    <3>1. PICK e \in Emis : e = task[w].emi
      BY <1>1, <2>2 DEF IndInv, HandlerOK, Tasks
    <3>2. OwedPi(e)' = OwedPi(e) /\ (Owed(e) > 0 => Owed(e)' > 0)
      BY <1>2, <1>3, <3>1, StaysOwed DEF CalmEmi
    <3>3. task'[w].emi = e
      BY <3>1
    <3> QED BY <2>1, <2>2, <3>1, <3>2, <3>3 DEF WriterKnows
  <2>3. Sums' = Sums
    BY <1>2 DEF Sums, SamePaid
  <2>4. Completed # {} => Completed' # {}
    BY CompletedGrows
  <2>5. pc'[w] = pc[w] /\ task'[w] = task[w] /\ emi' = emi
    OBVIOUS
  <2> QED BY <2>1, <2>2, <2>3, <2>4, <2>5 DEF WriterKnows
<1> QED BY <1>3, <1>4, <1>5, <1>6, NothingBookedStays DEF SettleInv

Settling == {"partRead", "partWrite", "userStatus", "userWrite", "recalcRead",
             "recalcWrite"}

LEMMA SettleCalm ==
  ASSUME OneHandler, IsFiniteSet(Pays), IndInv, AloneInv, SettleInv, [Next]_vars,
         NEW w \in Workers, \A e \in Emis : SamePaid(e), \A e \in Emis : CalmEmi(e),
         pc[w] \notin Settling, pc'[w] \notin {"partWrite", "recalcWrite"}
  PROVE  SettleInv'
<1>1. \A e : ~AtPart(w, e) /\ ~Refreshing(w, e)
  BY DEF AtPart, Refreshing, Settling
<1>2. \A v \in Workers : v = w
  BY DEF OneHandler
<1>3. UnpaidAreOpen'
  <2>1. ASSUME NEW e \in Unpaid' PROVE Open(e)'
    <3>1. e \in Unpaid /\ e \in Emis
      BY DEF Unpaid, CalmEmi
    <3>2. Open(e)
      BY <1>1, <1>2, <3>1 DEF SettleInv, UnpaidAreOpen
    <3> QED BY <3>1, <3>2, StaysOpen
  <2> QED BY <2>1 DEF UnpaidAreOpen
<1>4. AllSynced'
  <2>1. \A e \in Emis : Synced(e)
    BY <1>1, <1>2 DEF SettleInv, AllSynced
  <2> QED BY <2>1, StaysSynced DEF AllSynced
<1>5. WriterKnows(w)'
  BY DEF WriterKnows
<1> QED BY <1>3, <1>4, <1>5, NothingBookedStays, SettleIs

(* The answer of an order: from here to the end of the recalculation its   *)
(* instalment is the business of this handler.                             *)
LEMMA SettleUpdate ==
  ASSUME OneHandler, IsFiniteSet(Pays), IndInv, AloneInv, SettleInv, [Next]_vars,
         NEW w \in Workers, UpdateTransaction(w), NEW e \in Emis, Credits(w, e)
  PROVE  SettleInv'
<1>1. pc[w] = "update" /\ emi' = emi
  BY UpdatedIs
<1>2. pc'[w] = "partRead" /\ task'[w].emi = e /\ e # NoEmi
  BY DEF Credits, Emis, NoEmi
<1>3. \A d : ~AtPart(w, d) /\ ~Refreshing(w, d)
  BY <1>1 DEF AtPart, Refreshing
<1>4. \A v \in Workers : v = w
  BY DEF OneHandler
<1>5. \A d \in Emis : CalmEmi(d)
  BY <1>1, CalmEmiOf DEF IndInv, TypeOK
<1>6. \A d \in Emis : d # e => SamePaid(d)
  BY <1>4, PaidChanges DEF Credits
<1>7. UnpaidAreOpen'
  <2>1. ASSUME NEW d \in Unpaid', d # e PROVE Open(d)'
    <3>1. d \in Unpaid /\ d \in Emis
      BY <1>1 DEF Unpaid
    <3>2. Open(d)
      BY <1>3, <1>4, <3>1 DEF SettleInv, UnpaidAreOpen
    <3> QED BY <1>5, <1>6, <2>1, <3>1, <3>2, StaysOpen
  <2>2. AtPart(w, e)'
    BY <1>2 DEF AtPart
  <2> QED BY <2>1, <2>2 DEF UnpaidAreOpen
<1>8. AllSynced'
  <2>1. \A d : Refreshing(w, d)'
    BY <1>2 DEF Refreshing
  <2> QED BY <2>1 DEF AllSynced
<1>9. WriterKnows(w)'
  BY <1>2 DEF WriterKnows
<1> QED BY <1>5, <1>7, <1>8, <1>9, NothingBookedStays, SettleIs

LEMMA SettlePartRead ==
  ASSUME OneHandler, IsFiniteSet(Pays), IndInv, AloneInv, FundInv, SettleInv, [Next]_vars,
         NEW w \in Workers, PartRead(w), \A e \in Emis : SamePaid(e)
  PROVE  SettleInv'
<1> DEFINE t == task[w]
           e == t.emi
<1>1. emi \in EmiTable /\ task \in [Workers -> Tasks] /\ pc \in [Workers -> Labels]
  BY DEF IndInv, TypeOK
<1>2. pc[w] = "partRead" /\ emi' = emi /\ t \in Tasks
  BY <1>1 DEF PartRead, db
<1>3. \A d \in Emis : CalmEmi(d)
  BY <1>1, <1>2, CalmEmiOf
<1>4. \A v \in Workers : v = w
  BY DEF OneHandler
<1>5. \A d \in Unpaid : d # e => Open(d) /\ Open(d)'
  <2>1. TAKE d \in Unpaid
  <2>2. d # e => Open(d)
    BY <1>4 DEF SettleInv, UnpaidAreOpen, AtPart
  <2>3. d \in Emis
    BY DEF Unpaid
  <2> QED BY <1>3, <2>2, <2>3, StaysOpen
<1>6. Unpaid' = Unpaid
  BY <1>2 DEF Unpaid
<1>7. NothingBooked'
  BY <1>3, NothingBookedStays
<1>8. CASE e = NoEmi /\ Return(w)
  <2>1. pc'[w] \in {"part", "idle"}
    BY <1>1, <1>8 DEF Return, Goto
  <2>2. UnpaidAreOpen'
    BY <1>5, <1>6, <1>8 DEF UnpaidAreOpen, Unpaid, Emis, NoEmi
  <2>3. AllSynced'
    <3>1. \A d \in Emis : Synced(d)
      BY <1>2, <1>4, <1>8 DEF SettleInv, AllSynced, Refreshing
    <3> QED BY <1>3, <3>1, StaysSynced DEF AllSynced
  <2>4. WriterKnows(w)'
    BY <2>1 DEF WriterKnows
  <2> QED BY <1>7, <2>2, <2>3, <2>4, SettleIs
<1>9. CASE e # NoEmi /\ emi[e].paid /\ Goto(w, "userStatus")
  <2>1. pc'[w] = "userStatus"
    BY <1>1, <1>9 DEF Goto
  <2>2. UnpaidAreOpen'
    BY <1>5, <1>6, <1>9 DEF UnpaidAreOpen, Unpaid
  <2>3. AllSynced'
    BY <2>1 DEF AllSynced, Refreshing
  <2>4. WriterKnows(w)'
    BY <2>1 DEF WriterKnows
  <2> QED BY <1>7, <2>2, <2>3, <2>4, SettleIs
<1> DEFINE pay == Settled(e)
           left == IF Settled(e) THEN emi[e].left ELSE LeftOf(e)
           done == t.id \in Completed /\ row[t.id].part.emi = e
<1>10. CASE /\ e # NoEmi /\ Goto(w, "partWrite")
            /\ Keep(w, [t EXCEPT !.pay = pay, !.left = left, !.done = done])
  <2>1. e \in Emis /\ pc'[w] = "partWrite"
    BY <1>1, <1>2, <1>10 DEF Goto, Tasks
  <2>2. /\ task'[w].pay = pay /\ task'[w].left = left /\ task'[w].emi = e
    <3>1. task'[w] = [t EXCEPT !.pay = pay, !.left = left, !.done = done]
      BY <1>1, <1>10 DEF Keep
    <3> HIDE DEF pay, left, done
    <3> QED BY <1>2, <3>1 DEF Tasks
  <2>3. UnpaidAreOpen'
    BY <1>5, <1>6, <2>1, <2>2 DEF UnpaidAreOpen, AtPart
  <2>4. AllSynced'
    BY <1>10, <2>1, <2>2 DEF AllSynced, Refreshing
  <2>5. ~pay => left = OwedPi(e) /\ Owed(e) > 0
    <3>1. PICK o, c : o = OwedPi(e) /\ c = OwedCharge(e)
      OBVIOUS
    <3>2. o \in Nat /\ c \in Nat /\ o <= emi[e].left /\ emi[e].left \in Nat
      BY <1>1, <2>1, <3>1, OwedNat DEF FundInv, LeftCovers, EmiTable, EmiType
    <3>3. LeftOf(e) = o
      <4>1. LeftOf(e) = AtMost(emi[e].left, o)
        BY <3>1 DEF LeftOf, OwedPi
      <4> QED BY <3>2, <4>1 DEF AtMost
    <3>4. ~Settled(e) => o # 0 \/ c # 0
      BY <3>1, <3>3 DEF Settled
    <3>5. Owed(e) = o + c
      BY <3>1 DEF Owed
    <3> HIDE DEF e
    <3> QED BY <3>1, <3>2, <3>3, <3>4, <3>5
  <2>6. OwedPi(e)' = OwedPi(e) /\ (Owed(e) > 0 => Owed(e)' > 0)
    <3>1. \A d \in Emis : OwedPi(d)' = OwedPi(d) /\ (Owed(d) > 0 => Owed(d)' > 0)
      BY <1>3, StaysOwed DEF CalmEmi
    <3>2. PICK d \in Emis : d = e
      BY <2>1
    <3>3. task'[w].emi = d
      BY <2>2, <3>2
    <3> QED BY <2>2, <3>1, <3>2, <3>3
  <2>7. WriterKnows(w)'
    <3>1. ~task'[w].pay => task'[w].left = OwedPi(task[w].emi)' /\ Owed(task[w].emi)' > 0
      BY <2>2, <2>5, <2>6
    <3> QED BY <2>1, <3>1 DEF WriterKnows
  <2> QED BY <1>7, <2>3, <2>4, <2>7, SettleIs
<1> QED BY <1>8, <1>9, <1>10 DEF PartRead

LEMMA SettlePartWrite ==
  ASSUME OneHandler, IsFiniteSet(Pays), IndInv, AloneInv, SettleInv, [Next]_vars,
         NEW w \in Workers, PartWrite(w), \A e \in Emis : SamePaid(e)
  PROVE  SettleInv'
<1> DEFINE t == task[w]
           e == t.emi
<1>1. emi \in EmiTable /\ task \in [Workers -> Tasks] /\ pc \in [Workers -> Labels]
  BY DEF IndInv, TypeOK
<1>2. pc[w] = "partWrite" /\ pc'[w] = "userStatus" /\ t \in Tasks
  BY <1>1 DEF PartWrite, Goto
<1>3. e \in Emis
  <2>1. HandlerOK(w)
    BY DEF IndInv
  <2> QED BY <1>2, <2>1 DEF HandlerOK, Tasks
<1>4. \A v \in Workers : v = w
  BY DEF OneHandler
<1>5. emi' = [emi EXCEPT
               ![e].paid = IF t.pay THEN TRUE ELSE @,
               ![e].done = IF t.pay /\ t.done THEN TRUE ELSE @,
               ![e].left = t.left]
  BY DEF PartWrite
<1>6. /\ emi'[e].paid = IF t.pay THEN TRUE ELSE emi[e].paid
      /\ emi'[e].left = t.left /\ emi'[e].charge = emi[e].charge
      /\ emi'[e].paidPi = emi[e].paidPi /\ emi'[e].paidCharge = emi[e].paidCharge
      /\ emi[e].charge \in Nat
  <2>1. emi[e] \in EmiType
    BY <1>1, <1>3 DEF EmiTable
  <2> HIDE DEF e, t
  <2> QED BY <1>1, <1>3, <1>5, <2>1, ConstantsAssumption DEF EmiTable, EmiType
<1>7. \A d \in Emis : d # e => emi'[d] = emi[d] /\ CalmEmi(d)
  <2>1. \A d \in Emis : d # e => emi'[d] = emi[d]
    <3> HIDE DEF e, t
    <3> QED BY <1>1, <1>5 DEF EmiTable
  <2> QED BY <1>1, <2>1, CalmEmiOf
<1>8. UnpaidAreOpen'
  <2>1. ASSUME NEW d \in Unpaid', d # e PROVE Open(d)'
    <3>1. d \in Unpaid /\ d \in Emis
      BY <1>7, <2>1 DEF Unpaid
    <3>2. Open(d)
      BY <1>4, <2>1, <3>1 DEF SettleInv, UnpaidAreOpen, AtPart
    <3> QED BY <1>7, <2>1, <3>1, <3>2, StaysOpen
  <2>2. ASSUME e \in Unpaid' PROVE \A d \in Emis : d = e => Open(d)'
    <3>1. ~t.pay /\ ~emi[e].paid
      BY <1>6, <2>2 DEF Unpaid
    <3>2. t.left = OwedPi(e) /\ Owed(e) > 0
      BY <1>2, <3>1 DEF SettleInv, WriterKnows
    <3>3. TAKE d \in Emis
    <3>4. HAVE d = e
    <3>5. OwedPi(d)' = OwedPi(d) /\ (Owed(d) > 0 => Owed(d)' > 0)
      BY <1>6, <3>4, StaysOwed
    <3> QED BY <1>6, <3>2, <3>4, <3>5 DEF Open
  <2>3. ASSUME NEW d \in Unpaid' PROVE Open(d)'
    <3>1. d \in Emis
      BY DEF Unpaid
    <3> QED BY <2>1, <2>2, <2>3, <3>1
  <2> QED BY <2>3 DEF UnpaidAreOpen
<1>9. AllSynced'
  BY <1>2 DEF AllSynced, Refreshing
<1>10. WriterKnows(w)'
  BY <1>2 DEF WriterKnows
<1>11. NothingBooked'
  <2>1. Completed' = {} => Completed = {}
    BY CompletedGrows
  <2>2. \A d \in Emis : emi'[d].paidPi = emi[d].paidPi /\ emi'[d].paidCharge = emi[d].paidCharge
    BY <1>6, <1>7
  <2> QED BY <2>1, <2>2 DEF SettleInv, NothingBooked
<1> QED BY <1>8, <1>9, <1>10, <1>11, SettleIs

LEMMA SettleStatus ==
  ASSUME OneHandler, IsFiniteSet(Pays), IndInv, AloneInv, SettleInv, [Next]_vars,
         NEW w \in Workers, StatusRead(w) \/ StatusWrite(w),
         \A e \in Emis : SamePaid(e)
  PROVE  SettleInv'
<1>1. /\ pc[w] \in {"userStatus", "userWrite"} /\ pc'[w] \in {"userWrite", "recalcRead"}
      /\ emi' = emi
  BY DEF StatusRead, StatusWrite, Goto, IndInv, TypeOK, db
<1>2. \A e \in Emis : CalmEmi(e)
  BY <1>1, CalmEmiOf DEF IndInv, TypeOK
<1>3. UnpaidAreOpen'
  <2>1. ASSUME NEW e \in Unpaid' PROVE Open(e)'
    <3>1. e \in Unpaid /\ e \in Emis
      BY <1>1 DEF Unpaid
    <3>2. Open(e)
      BY <1>1, <3>1 DEF SettleInv, UnpaidAreOpen, AtPart, OneHandler
    <3> QED BY <1>2, <3>1, <3>2, StaysOpen
  <2> QED BY <2>1 DEF UnpaidAreOpen
<1>4. AllSynced'
  BY <1>1 DEF AllSynced, Refreshing
<1>5. WriterKnows(w)'
  BY <1>1 DEF WriterKnows
<1> QED BY <1>2, <1>3, <1>4, <1>5, NothingBookedStays, SettleIs

LEMMA SettleRecalcRead ==
  ASSUME OneHandler, IsFiniteSet(Pays), IndInv, AloneInv, SettleInv, [Next]_vars,
         NEW w \in Workers, RecalcRead(w), \A e \in Emis : SamePaid(e)
  PROVE  SettleInv'
<1>0. task \in [Workers -> Tasks] /\ pc \in [Workers -> Labels]
  BY DEF IndInv, TypeOK
<1>1. pc[w] = "recalcRead" /\ emi' = emi /\ row' = row
  BY DEF RecalcRead, db
<1>2. \A e \in Emis : CalmEmi(e)
  BY <1>1, CalmEmiOf DEF IndInv, TypeOK
<1>3. UnpaidAreOpen'
  <2>1. ASSUME NEW e \in Unpaid' PROVE Open(e)'
    <3>1. e \in Unpaid /\ e \in Emis
      BY <1>1 DEF Unpaid
    <3>2. Open(e)
      BY <1>1, <3>1 DEF SettleInv, UnpaidAreOpen, AtPart, OneHandler
    <3> QED BY <1>2, <3>1, <3>2, StaysOpen
  <2> QED BY <2>1 DEF UnpaidAreOpen
<1>4. CASE Completed = {} /\ Goto(w, "closeCheck")
  <2>1. pc'[w] = "closeCheck"
    BY <1>0, <1>4 DEF Goto
  <2>2. ASSUME NEW e \in Emis PROVE Synced(e)
    <3>1. {r \in Completed : row[r].part.emi = e} = {}
      BY <1>4
    <3>2. PaidPi(e) = 0 /\ PaidCharge(e) = 0
      BY <3>1, SumEmpty DEF PaidPi, PaidCharge, Total, Positive
    <3> QED BY <1>4, <3>2 DEF SettleInv, NothingBooked, Synced
  <2>3. AllSynced'
    BY <1>2, <2>2, StaysSynced DEF AllSynced
  <2>4. WriterKnows(w)'
    BY <2>1 DEF WriterKnows
  <2> QED BY <1>2, <1>3, <2>3, <2>4, NothingBookedStays, SettleIs
<1>5. CASE /\ Completed # {} /\ Goto(w, "recalcWrite")
           /\ Keep(w, [task[w] EXCEPT !.ids = Emis, !.sums = Sums])
  <2>1. /\ pc'[w] = "recalcWrite"
        /\ task'[w].ids = Emis /\ task'[w].sums = Sums
    BY <1>0, <1>5 DEF Goto, Keep, Tasks
  <2>2. Sums' = Sums /\ Completed' = Completed
    BY <1>1 DEF Sums, SamePaid, Completed
  <2>3. AllSynced'
    BY <2>1 DEF AllSynced, Refreshing
  <2>4. WriterKnows(w)'
    BY <1>5, <2>1, <2>2 DEF WriterKnows
  <2> QED BY <1>2, <1>3, <2>3, <2>4, NothingBookedStays, SettleIs
<1> QED BY <1>4, <1>5 DEF RecalcRead

LEMMA SettleRecalcWrite ==
  ASSUME OneHandler, IsFiniteSet(Pays), IndInv, AloneInv, SettleInv, [Next]_vars,
         NEW w \in Workers, RecalcWrite(w), \A e \in Emis : SamePaid(e)
  PROVE  SettleInv'
<1> DEFINE t == task[w]
<1>0. task \in [Workers -> Tasks] /\ pc \in [Workers -> Labels] /\ emi \in EmiTable
  BY DEF IndInv, TypeOK
<1>1. pc[w] = "recalcWrite" /\ row' = row /\ t \in Tasks
  BY <1>0 DEF RecalcWrite
<1>2. Completed # {} /\ t.sums = Sums
  BY <1>1 DEF SettleInv, WriterKnows
<1>3. NothingBooked'
  BY <1>2, CompletedGrows DEF NothingBooked
<1>4. \A v \in Workers : v = w
  BY DEF OneHandler
<1>5. \A e \in Emis : e \notin t.ids => Synced(e)
  BY <1>1, <1>4 DEF SettleInv, AllSynced, Refreshing
<1>6. \A e \in Unpaid : Open(e)
  BY <1>1, <1>4 DEF SettleInv, UnpaidAreOpen, AtPart
<1>7. CASE t.ids = {} /\ Goto(w, "closeCheck") /\ emi' = emi
  <2>1. pc'[w] = "closeCheck"
    BY <1>0, <1>7 DEF Goto
  <2>2. \A e \in Emis : CalmEmi(e)
    BY <1>0, <1>7, CalmEmiOf
  <2>3. UnpaidAreOpen'
    BY <1>6, <1>7, <2>2, StaysOpen DEF UnpaidAreOpen, Unpaid
  <2>4. AllSynced'
    BY <1>5, <1>7, <2>2, StaysSynced DEF AllSynced
  <2>5. WriterKnows(w)'
    BY <2>1 DEF WriterKnows
  <2> QED BY <1>3, <2>3, <2>4, <2>5, SettleIs
<1>8. ASSUME NEW e \in t.ids, UNCHANGED pc,
             emi' = [emi EXCEPT ![e].paidPi = t.sums[e].pi,
                                ![e].paidCharge = t.sums[e].charge],
             Keep(w, [t EXCEPT !.ids = @ \ {e}])
      PROVE  SettleInv'
  <2>1. e \in Emis /\ emi[e] \in EmiType
    BY <1>0, <1>1 DEF Tasks, EmiTable
  <2>2. task'[w].ids = t.ids \ {e} /\ task'[w].sums = t.sums
    BY <1>0, <1>1, <1>8 DEF Keep, Tasks
  <2>3. t.sums[e].pi = PaidPi(e) /\ t.sums[e].charge = PaidCharge(e)
    BY <1>2, <2>1 DEF Sums
  <2>4. /\ emi'[e].paidPi = PaidPi(e) /\ emi'[e].paidCharge = PaidCharge(e)
        /\ emi'[e].left = emi[e].left /\ emi'[e].charge = emi[e].charge
        /\ emi'[e].paid = emi[e].paid /\ emi[e].charge \in Nat
    BY <1>0, <1>8, <2>1, <2>3, ConstantsAssumption DEF EmiTable, EmiType
  <2>5. \A d \in Emis : d # e => emi'[d] = emi[d] /\ CalmEmi(d)
    <3>1. \A d \in Emis : d # e => emi'[d] = emi[d]
      BY <1>0, <1>8 DEF EmiTable
    <3> QED BY <1>0, <3>1, CalmEmiOf
  <2>6. UnpaidAreOpen'
    <3>1. ASSUME NEW d \in Unpaid' PROVE Open(d)'
      <4>1. d \in Emis /\ emi'[d].paid = emi[d].paid /\ emi'[d].left = emi[d].left
            /\ emi'[d].charge = emi[d].charge /\ emi[d].charge \in Nat
        BY <2>4, <2>5 DEF Unpaid, CalmEmi
      <4>2. Open(d)
        BY <1>6, <4>1 DEF Unpaid
      <4>3. OwedPi(d)' = OwedPi(d) /\ (Owed(d) > 0 => Owed(d)' > 0)
        BY <4>1, StaysOwed
      <4> QED BY <4>1, <4>2, <4>3 DEF Open
    <3> QED BY <3>1 DEF UnpaidAreOpen
  <2>7. AllSynced'
    <3>1. ASSUME NEW d \in Emis, d \notin task'[w].ids PROVE Synced(d)'
      <4>1. CASE d = e
        <5>1. emi'[d].paidPi = PaidPi(d) /\ emi'[d].paidCharge = PaidCharge(d)
          BY <2>4, <4>1
        <5> QED BY <5>1 DEF Synced, SamePaid
      <4>2. CASE d # e
        <5>1. Synced(d)
          BY <1>5, <2>2, <3>1, <4>2
        <5> QED BY <2>5, <4>2, <5>1, StaysSynced
      <4> QED BY <4>1, <4>2
    <3>2. pc'[w] = "recalcWrite"
      BY <1>1, <1>8
    <3> QED BY <3>1, <3>2 DEF AllSynced, Refreshing
  <2>8. WriterKnows(w)'
    <3>1. Sums' = Sums /\ Completed' = Completed
      BY <1>1 DEF Sums, SamePaid, Completed
    <3> QED BY <1>1, <1>2, <1>8, <2>2, <3>1 DEF WriterKnows
  <2> QED BY <1>3, <2>6, <2>7, <2>8, SettleIs
<1> QED BY <1>7, <1>8 DEF RecalcWrite

LEMMA SettleOrdinary ==
  ASSUME OneHandler, IsFiniteSet(Pays), IndInv, AloneInv, SettleInv, [Next]_vars,
         NEW w \in Workers, pc[w] \notin Settling,
         pc'[w] \notin {"partWrite", "recalcWrite"}
  PROVE  SettleInv'
<1>1. \A v \in Workers : v = w
  BY DEF OneHandler
<1>2. \A e \in Emis : CalmEmi(e)
  <2>1. \A v \in Workers : ~PartWrite(v) /\ ~RecalcWrite(v)
    BY <1>1 DEF PartWrite, RecalcWrite, Settling
  <2> QED BY <2>1, CalmEmis
<1>3. CASE \A e \in Emis : SamePaid(e)
  BY <1>2, <1>3, SettleCalm
<1>4. CASE \E e \in Emis : ~SamePaid(e)
  <2>1. PICK e \in Emis, v \in Workers : Credits(v, e)
    BY <1>4, PaidChanges
  <2> QED BY <2>1, SettleUpdate DEF Credits
<1> QED BY <1>3, <1>4

LEMMA SettleHandler ==
  ASSUME OneHandler, MaxAborts = 0, IsFiniteSet(Pays), IndInv, AloneInv, FundInv, SettleInv,
         [Next]_vars, NEW w \in Workers, Ordinary(w) \/ Closing(w) \/ Breaks(w)
  PROVE  SettleInv'
<1>1. ASSUME pc[w] # "update" PROVE \A e \in Emis : SamePaid(e)
  <2>1. \A v \in Workers : \A e : ~Credits(v, e)
    BY <1>1, UpdatedIs DEF Credits, OneHandler
  <2> QED BY <2>1, PaidChanges
<1>2. ASSUME NEW label PROVE Goto(w, label) => pc'[w] = label
  BY DEF Goto, IndInv, TypeOK
<1>3. Return(w) => pc'[w] \in {"part", "idle"}
  BY <1>2 DEF Return
<1>4. CASE PartRead(w)
  BY <1>1, <1>4, SettlePartRead DEF PartRead
<1>5. CASE PartWrite(w)
  BY <1>1, <1>5, SettlePartWrite DEF PartWrite
<1>6. CASE Ordinary(w) /\ ~PartRead(w) /\ ~PartWrite(w)
  <2>1. pc[w] \in Busy /\ pc'[w] \in Busy
    BY <1>6, OrdinaryIs
  <2>2. pc[w] \notin {"partRead", "partWrite", "userStatus"}
    <3>1. PICK l : l = pc[w]
      OBVIOUS
    <3>2. CASE \E p \in Pays : \/ Poll(w, p)
                               \/ \E event \in {"captured", "failed"} : ManualWebhook(w, p, event)
                               \/ SigndeskBatch(w, p)
      BY <3>2 DEF Poll, ManualWebhook, SigndeskBatch
    <3>3. CASE \/ ResetPenalty(w) \/ Bifurcate(w) \/ SplitPart(w) \/ UpdateTransaction(w)
               \/ BounceRead(w) \/ BounceTrace(w) \/ BounceWrite(w)
               \/ FullRead(w) \/ FullWrite(w) \/ ArchiveRead(w) \/ ArchiveDelete(w)
      BY <3>3 DEF ResetPenalty, Bifurcate, SplitPart, UpdateTransaction, BounceRead,
                  BounceTrace, BounceWrite, FullRead, FullWrite, ArchiveRead, ArchiveDelete
    <3> QED BY <1>6, <3>2, <3>3 DEF Ordinary
  <2>3. pc[w] \notin Settling /\ pc'[w] \notin {"partWrite", "recalcWrite"}
    <3>1. pc'[w] # "partWrite"
      BY <1>6, <2>2, WaysToWrite
    <3> QED BY <2>1, <2>2, <3>1 DEF Busy, ClosingLabels, Settling, Labels
  <2> QED BY <2>3, SettleOrdinary
<1>7. CASE StatusRead(w) \/ StatusWrite(w)
  BY <1>1, <1>7, SettleStatus DEF StatusRead, StatusWrite
<1>8. CASE RecalcRead(w)
  BY <1>1, <1>8, SettleRecalcRead DEF RecalcRead
<1>9. CASE RecalcWrite(w)
  BY <1>1, <1>9, SettleRecalcWrite DEF RecalcWrite
<1>10. CASE CloseCheck(w) \/ CloseTheLoan(w) \/ ReadUser(w) \/ GiveReferral(w) \/ CountLoan(w)
  <2>1. pc[w] \notin Settling
    BY <1>10 DEF CloseCheck, CloseTheLoan, ReadUser, GiveReferral, CountLoan, Settling
  <2>2. pc'[w] \notin {"partWrite", "recalcWrite"}
    <3>1. CASE CloseCheck(w)
      BY <1>2, <1>3, <3>1 DEF CloseCheck
    <3>2. CASE CloseTheLoan(w)
      BY <1>2, <3>2 DEF CloseTheLoan
    <3>3. CASE ReadUser(w)
      BY <1>2, <3>3 DEF ReadUser
    <3>4. CASE GiveReferral(w) \/ CountLoan(w)
      BY <1>2, <1>3, <3>4 DEF GiveReferral, CountLoan
    <3> QED BY <1>10, <3>1, <3>2, <3>3, <3>4
  <2> QED BY <2>1, <2>2, SettleOrdinary
<1>11. CASE Breaks(w)
  <2>1. ~Abort(w)
    <3>1. aborts \in 0 .. MaxAborts
      BY DEF IndInv, TypeOK
    <3> QED BY <3>1 DEF Abort
  <2>2. pc[w] \notin Settling
    BY <1>11, <2>1 DEF Breaks, DuesRead, DuesWrite, Settling
  <2>3. pc'[w] \notin {"partWrite", "recalcWrite"}
    BY <1>2, <1>11, <2>1 DEF Breaks, DuesRead, DuesWrite
  <2> QED BY <2>2, <2>3, SettleOrdinary
<1> QED BY <1>4, <1>5, <1>6, <1>7, <1>8, <1>9, <1>10, <1>11 DEF Closing

(* SettleInv is inductive, together with IndInv, AloneInv and FundInv.     *)
LEMMA SettleInductive ==
  ASSUME OneHandler, MaxAborts = 0, IsFiniteSet(Pays), IndInv, AloneInv, FundInv, SettleInv,
         [Next]_vars
  PROVE  SettleInv'
<1>1. CASE UNCHANGED vars
  BY <1>1, SettleStands DEF vars
<1>2. CASE DatePasses \/ \E p \in Pays : CreateOrder(p) \/ GatewayCapture(p) \/ GatewayFail(p)
  BY <1>2, SettleStands DEF CreateOrder, GatewayCapture, GatewayFail, DatePasses, db
<1>3. ASSUME NEW w \in Workers, NEW p \in Pays,
             \/ Poll(w, p)
             \/ \E event \in {"captured", "failed"} : ManualWebhook(w, p, event)
             \/ SigndeskBatch(w, p)
      PROVE  SettleInv'
  BY <1>3, SettleHandler DEF Ordinary
<1>4. ASSUME NEW w \in Workers, DuesRead(w) \/ ArchiveRead(w) \/ Advance(w) \/ Abort(w)
      PROVE  SettleInv'
  <2>1. Ordinary(w) \/ Closing(w) \/ Breaks(w)
    BY <1>4 DEF Ordinary, Closing, Breaks, Advance
  <2> QED BY <2>1, SettleHandler
<1> QED BY <1>1, <1>2, <1>3, <1>4 DEF Next

(* The columns of an instalment say what its rows say, except where the one *)
(* handler in flight is bringing them up to date.                          *)
THEOREM SettleInvariance ==
  ASSUME OneHandler, MaxAborts = 0, IsFiniteSet(Pays)
  PROVE  Spec => [](IndInv /\ AloneInv /\ FundInv /\ SettleInv)
<1>1. Init => IndInv /\ AloneInv /\ FundInv /\ SettleInv
  BY InitInv, AloneInit, FundInit, SettleInit
<1>2. (IndInv /\ AloneInv /\ FundInv /\ SettleInv) /\ [Next]_vars
        => (IndInv /\ AloneInv /\ FundInv /\ SettleInv)'
  BY Inductive, AloneInductive, FundInductive, SettleInductive
<1> QED BY <1>1, <1>2, PTL DEF Spec

(* When no handler is in flight there is no exception.                     *)
LEMMA QuietIsSettled ==
  ASSUME SettleInv, Quiet
  PROVE  (\A e \in Unpaid : Open(e)) /\ (\A e \in Emis : Synced(e))
<1>1. \A w \in Workers : \A e : ~AtPart(w, e) /\ ~Refreshing(w, e)
  BY DEF Quiet, AtPart, Refreshing
<1> QED BY <1>1 DEF SettleInv, UnpaidAreOpen, AllSynced

(* When the handlers rest, an instalment that is not marked as paid still  *)
(* owes something.                                                         *)
THEOREM CoveredAreSettled ==
  ASSUME OneHandler, MaxAborts = 0, IsFiniteSet(Pays)
  PROVE  Spec => []CoveredIsSettled
<1>1. IndInv /\ AloneInv /\ FundInv /\ SettleInv => CoveredIsSettled
  BY QuietIsSettled DEF CoveredIsSettled, Open
<1> QED BY <1>1, SettleInvariance, PTL

(* ... emi_amount says what of its principal and interest it owes.         *)
THEOREM LeftStaysOwed ==
  ASSUME OneHandler, MaxAborts = 0, IsFiniteSet(Pays)
  PROVE  Spec => []LeftIsOwed
<1>1. IndInv /\ AloneInv /\ FundInv /\ SettleInv => LeftIsOwed
  BY QuietIsSettled DEF LeftIsOwed, Open
<1> QED BY <1>1, SettleInvariance, PTL

(* ... and its next order is billed for what it owes, charge included.     *)
THEOREM BillsWhatIsOwed ==
  ASSUME OneHandler, MaxAborts = 0, IsFiniteSet(Pays)
  PROVE  Spec => []BilledIsOwed
<1>1. IndInv /\ AloneInv /\ FundInv /\ SettleInv => BilledIsOwed
  <2> SUFFICES ASSUME SettleInv, Quiet, NEW e \in Unpaid PROVE EmiBill(e) = Owed(e)
    BY DEF BilledIsOwed
  <2>1. e \in Emis
    BY DEF Unpaid
  <2>2. emi[e].paidPi = PaidPi(e) /\ emi[e].paidCharge = PaidCharge(e)
    BY <2>1, QuietIsSettled DEF Synced
  <2> QED BY <2>2 DEF EmiBill, ChargeBill, Owed, OwedPi, OwedCharge
<1> QED BY <1>1, SettleInvariance, PTL
-----------------------------------------------------------------------------
(* The split of an amount over the overdue instalments.                    *)

(* A nonempty finite set of integers has a last element.                   *)
LEMMA LastOf ==
  ASSUME NEW S, IsFiniteSet(S), S \subseteq Int, S # {}
  PROVE  \E c \in S : \A x \in S : x <= c
<1> DEFINE Last(s, c) == \A x \in s : x <= c
           G == {s \in SUBSET S : s # {} => \E c \in s : Last(s, c)}
<1>1. ASSUME NEW m \in SUBSET S, \A t \in SUBSET m : t # m => t \in G
      PROVE  m \in G
  <2> SUFFICES ASSUME m # {} PROVE \E c \in m : Last(m, c)
    OBVIOUS
  <2>1. PICK d \in m : TRUE
    OBVIOUS
  <2>2. CASE m = {d}
    <3>1. Last(m, d)
      BY <2>2
    <3> QED BY <3>1
  <2>3. CASE m # {d}
    <3>1. m \ {d} # {} /\ m \ {d} \in SUBSET m /\ m \ {d} # m
      BY <2>1, <2>3
    <3>2. m \ {d} \in G
      BY <1>1, <3>1
    <3>3. PICK c \in m \ {d} : Last(m \ {d}, c)
      BY <3>1, <3>2
    <3>4. CASE d <= c
      <4>1. Last(m, c)
        BY <3>3, <3>4
      <4> QED BY <4>1
    <3>5. CASE ~(d <= c)
      <4>1. \A x \in m : x <= d
        <5>1. TAKE x \in m
        <5>2. x \in Int /\ d \in Int /\ c \in Int /\ (x = d \/ x <= c)
          BY <3>3
        <5> QED BY <3>5, <5>2
      <4> QED BY <2>1, <4>1
    <3> QED BY <3>4, <3>5
  <2> QED BY <2>2, <2>3
<1> HIDE DEF G
<1>2. \A m \in SUBSET S : m \in G
  BY <1>1, SubsetInduction
<1>3. S \in G
  BY <1>2
<1> QED BY <1>3 DEF G

(* The values of a function on a finite set are finitely many.             *)
LEMMA FiniteValues ==
  ASSUME NEW S, IsFiniteSet(S), NEW f
  PROVE  IsFiniteSet({f[x] : x \in S})
<1> DEFINE T == {f[x] : x \in S}
           g == [x \in S |-> f[x]]
<1>1. g \in Surjection(S, T)
  BY DEF Surjection
<1> HIDE DEF T, g
<1>2. IsFiniteSet(T)
  BY <1>1, FS_Surjection
<1> QED BY <1>2 DEF T

(* Each takes its own of what the older ones leave.                        *)
Before(D, e) == {d \in D : d < e}
Take(o, a, D, e) == AtMost(o[e], Positive(a - SumFunctionOnSet(o, Before(D, e))))

(* What they take together is the amount, or all they want.                *)
LEMMA GreedyTotal ==
  ASSUME NEW D, IsFiniteSet(D), D \subseteq Int, NEW o, \A e \in D : o[e] \in Nat,
         NEW a \in Int
  PROVE  SumFunctionOnSet([e \in D |-> Take(o, a, D, e)], D)
           = AtMost(Positive(a), SumFunctionOnSet(o, D))
<1> DEFINE takes(m) == [e \in m |-> Take(o, a, m, e)]
           G == {m \in SUBSET D : SumFunctionOnSet(takes(m), m)
                                    = AtMost(Positive(a), SumFunctionOnSet(o, m))}
<1>1. ASSUME NEW m \in SUBSET D, \A t \in SUBSET m : t # m => t \in G
      PROVE  m \in G
  <2>1. CASE m = {}
    <3>1. \A f : SumFunctionOnSet(f, {}) = 0
      BY SumEmpty
    <3>2. SumFunctionOnSet(takes(m), m) = 0 /\ SumFunctionOnSet(o, m) = 0
      <4> HIDE DEF takes
      <4> QED BY <2>1, <3>1
    <3> HIDE DEF takes
    <3> QED BY <3>2 DEF AtMost, Positive
  <2>2. CASE m # {}
    <3>0. IsFiniteSet(m)
      BY FS_Subset
    <3>1. PICK c \in m : \A x \in m : x <= c
      BY <2>2, <3>0, LastOf
    <3> DEFINE r == m \ {c}
    <3>2. r \in SUBSET m /\ r # m /\ IsFiniteSet(r)
      BY <3>0, FS_Subset
    <3>3. SumFunctionOnSet(takes(r), r) = AtMost(Positive(a), SumFunctionOnSet(o, r))
      <4>1. r \in G
        BY <1>1, <3>2
      <4> QED BY <4>1
    <3>4. /\ SumFunctionOnSet(o, r) \in Nat
          /\ SumFunctionOnSet(o, m) = o[c] + SumFunctionOnSet(o, r)
      <4>1. (\A x \in m : o[x] \in Nat) /\ (\A x \in r : o[x] \in Nat)
            /\ (\A x \in m : o[x] \in Int)
        OBVIOUS
      <4> HIDE DEF r
      <4>2. SumFunctionOnSet(o, r) \in Nat
        BY <3>2, <4>1, SumOfNaturals
      <4>3. SumFunctionOnSet(o, m) = o[c] + SumFunctionOnSet(o, m \ {c})
        <5>1. \A x \in m : SumFunctionOnSet(o, m) = o[x] + SumFunctionOnSet(o, m \ {x})
          BY ONLY <3>0, <4>1, SumAnyFirst
        <5> QED BY <5>1
      <4> QED BY <4>2, <4>3 DEF r
    <3>5. Before(m, c) = r
      <4>1. \A x \in m : x \in Int /\ x <= c
        BY <3>1
      <4>2. \A x \in m : x < c <=> x # c
        BY <4>1
      <4> QED BY <4>2 DEF Before
    <3>6. \A x \in r : Before(m, x) = Before(r, x)
      BY <3>1 DEF Before
    <3>7. \A x \in m : Take(o, a, m, x) \in Int
      <4>1. TAKE x \in m
      <4>2. PICK n : n = SumFunctionOnSet(o, Before(m, x))
        OBVIOUS
      <4>3. o[x] \in Nat
        OBVIOUS
      <4> QED BY <4>2, <4>3 DEF Take, AtMost, Positive
    <3>8. takes(m)[c] = Take(o, a, m, c) /\ \A x \in r : takes(m)[x] = takes(r)[x]
      BY <3>6 DEF Take
    <3>9. SumFunctionOnSet(takes(m), m) = takes(m)[c] + SumFunctionOnSet(takes(m), m \ {c})
      <4>1. \A x \in m : takes(m)[x] \in Int
        BY <3>7
      <4> HIDE DEF takes
      <4>2. \A x \in m : SumFunctionOnSet(takes(m), m)
                           = takes(m)[x] + SumFunctionOnSet(takes(m), m \ {x})
        BY ONLY <3>0, <4>1, SumAnyFirst
      <4> QED BY <4>2
    <3>10. SumFunctionOnSet(takes(m), r) = SumFunctionOnSet(takes(r), r)
      <4> HIDE DEF takes, r
      <4> QED BY <3>2, <3>8, SumSame
    <3>11. Take(o, a, m, c) = AtMost(o[c], Positive(a - SumFunctionOnSet(o, r)))
      BY <3>5 DEF Take
    <3>12. o[c] \in Nat
      OBVIOUS
    <3>13. PICK n \in Nat, k \in Nat : n = SumFunctionOnSet(o, r) /\ k = o[c]
      BY <3>4, <3>12
    <3>14. AtMost(k, Positive(a - n)) + AtMost(Positive(a), n) = AtMost(Positive(a), k + n)
      BY <3>13 DEF AtMost, Positive
    <3>15. SumFunctionOnSet(takes(m), m) = AtMost(Positive(a), SumFunctionOnSet(o, m))
      <4> HIDE DEF takes
      <4> QED BY <3>3, <3>4, <3>8, <3>9, <3>10, <3>11, <3>13, <3>14
    <3> QED BY <3>15
  <2> QED BY <2>1, <2>2
<1> HIDE DEF G
<1>2. \A m \in SUBSET D : m \in G
  BY <1>1, SubsetInduction
<1> QED BY <1>2 DEF G

(* What an instalment takes of an amount, and what no instalment takes.    *)
PiTaken(a, e) == AtMost(OwedPi(e), Positive(a - Total(OwedPi, Before(DueUnpaid, e))))
ChargeTaken(a, e) ==
  AtMost(OwedCharge(e), Positive((a - Total(OwedPi, DueUnpaid))
                                   - Total(OwedCharge, Before(DueUnpaid, e))))

(* A part of a split is what one instalment takes, or the refundable rest. *)
TakenPart(part, a) ==
  /\ part.emi \in DueUnpaid /\ part.extra = 0
  /\ part.pi = PiTaken(a, part.emi) /\ part.charge = ChargeTaken(a, part.emi)

LEMMA SplitIsTaken ==
  ASSUME NEW a, NEW part \in SplitParts(a)
  PROVE  TakenPart(part, a) \/ part = [NoPart EXCEPT !.extra = RestOf(a)]
<1> DEFINE settling == {[emi |-> e, pi |-> PiTaken(a, e), charge |-> ChargeTaken(a, e),
                         extra |-> 0] : e \in DueUnpaid}
<1>1. part \in settling \union {[NoPart EXCEPT !.extra = RestOf(a)]}
  BY DEF SplitParts, PiTaken, ChargeTaken, Before
<1>2. part \in settling => TakenPart(part, a)
  BY DEF TakenPart
<1> QED BY <1>1, <1>2

(* What all instalments take, with the rest, is the amount.                *)
LEMMA TakenTotal ==
  ASSUME IndInv, NEW a \in Nat
  PROVE  /\ IsFiniteSet(DueUnpaid)
         /\ \A e \in DueUnpaid : PiTaken(a, e) \in Nat /\ ChargeTaken(a, e) \in Nat
         /\ RestOf(a) \in Nat
         /\ SumFunctionOnSet([e \in DueUnpaid |-> PiTaken(a, e)], DueUnpaid)
              + SumFunctionOnSet([e \in DueUnpaid |-> ChargeTaken(a, e)], DueUnpaid)
              + RestOf(a) = a
<1> DEFINE D == DueUnpaid
           o == [e \in D |-> OwedPi(e)]
           q == [e \in D |-> OwedCharge(e)]
<1>1. IsFiniteSet(D) /\ D \subseteq Int
  <2>1. D \subseteq 1 .. NumEmis /\ IsFiniteSet(1 .. NumEmis) /\ NumEmis \in Nat
    BY FS_Interval, ConstantsAssumption DEF DueUnpaid, Unpaid, Emis
  <2>2. IsFiniteSet(D)
    <3> HIDE DEF D
    <3> QED BY <2>1, FS_Subset
  <2>3. 1 .. NumEmis \subseteq Int
    BY <2>1
  <2> HIDE DEF D
  <2> QED BY <2>1, <2>2, <2>3
<1>2. \A e : OwedPi(e) \in Nat /\ OwedCharge(e) \in Nat
  BY DEF OwedPi, OwedCharge, Positive
<1>3. (\A e \in D : o[e] \in Nat) /\ (\A e \in D : q[e] \in Nat)
  BY <1>2
<1>4. \A S \in SUBSET D : /\ IsFiniteSet(S)
                          /\ Total(OwedPi, S) = SumFunctionOnSet(o, S)
                          /\ Total(OwedCharge, S) = SumFunctionOnSet(q, S)
                          /\ SumFunctionOnSet(o, S) \in Nat
                          /\ SumFunctionOnSet(q, S) \in Nat
  <2>1. TAKE S \in SUBSET D
  <2> DEFINE f == [e \in S |-> OwedPi(e)]
             g == [e \in S |-> OwedCharge(e)]
  <2>2. IsFiniteSet(S)
    BY <1>1, FS_Subset
  <2>3. /\ \A e \in S : f[e] = o[e] /\ g[e] = q[e]
        /\ (\A e \in S : o[e] \in Nat) /\ (\A e \in S : q[e] \in Nat)
    BY <1>2
  <2>4. Total(OwedPi, S) = Positive(SumFunctionOnSet(f, S))
        /\ Total(OwedCharge, S) = Positive(SumFunctionOnSet(g, S))
    BY DEF Total
  <2> HIDE DEF f, g, o, q
  <2>5. SumFunctionOnSet(f, S) = SumFunctionOnSet(o, S)
        /\ SumFunctionOnSet(g, S) = SumFunctionOnSet(q, S)
    BY <2>2, <2>3, SumSame
  <2>6. SumFunctionOnSet(o, S) \in Nat /\ SumFunctionOnSet(q, S) \in Nat
    BY <2>2, <2>3, SumOfNaturals
  <2> QED BY <2>2, <2>4, <2>5, <2>6 DEF Positive
<1>5. \A e \in D : /\ PiTaken(a, e) = Take(o, a, D, e)
                   /\ ChargeTaken(a, e) = Take(q, a - Total(OwedPi, D), D, e)
  <2>1. TAKE e \in D
  <2>2. Before(D, e) \in SUBSET D
    BY DEF Before
  <2>3. o[e] = OwedPi(e) /\ q[e] = OwedCharge(e)
    OBVIOUS
  <2>4. /\ Total(OwedPi, Before(D, e)) = SumFunctionOnSet(o, Before(D, e))
        /\ Total(OwedCharge, Before(D, e)) = SumFunctionOnSet(q, Before(D, e))
    BY <1>4, <2>2
  <2> HIDE DEF o, q
  <2> QED BY <2>3, <2>4 DEF PiTaken, ChargeTaken, Take
<1>6. PICK P \in Nat, Q \in Nat : /\ P = Total(OwedPi, D) /\ P = SumFunctionOnSet(o, D)
                                  /\ Q = Total(OwedCharge, D) /\ Q = SumFunctionOnSet(q, D)
  BY <1>4
<1>7. SumFunctionOnSet([e \in D |-> PiTaken(a, e)], D) = AtMost(Positive(a), P)
  <2>1. [e \in D |-> PiTaken(a, e)] = [e \in D |-> Take(o, a, D, e)]
    <3> HIDE DEF o, q
    <3> QED BY <1>5
  <2>3. a \in Int
    OBVIOUS
  <2> HIDE DEF o, D
  <2>2. SumFunctionOnSet([e \in D |-> Take(o, a, D, e)], D)
           = AtMost(Positive(a), SumFunctionOnSet(o, D))
    BY <1>1, <1>3, <2>3, GreedyTotal
  <2> QED BY <1>6, <2>1, <2>2
<1>8. SumFunctionOnSet([e \in D |-> ChargeTaken(a, e)], D) = AtMost(Positive(a - P), Q)
  <2>1. [e \in D |-> ChargeTaken(a, e)] = [e \in D |-> Take(q, a - P, D, e)]
    <3> HIDE DEF o, q
    <3> QED BY <1>5, <1>6
  <2>3. a - P \in Int
    BY <1>6
  <2> HIDE DEF q, D
  <2>2. SumFunctionOnSet([e \in D |-> Take(q, a - P, D, e)], D)
           = AtMost(Positive(a - P), SumFunctionOnSet(q, D))
    BY <1>1, <1>3, <2>3, GreedyTotal
  <2> QED BY <1>6, <2>1, <2>2
<1>9. RestOf(a) = Positive(a - P - Q)
  BY <1>6 DEF RestOf
<1>10. AtMost(Positive(a), P) + AtMost(Positive(a - P), Q) + Positive(a - P - Q) = a
  BY <1>6 DEF AtMost, Positive
<1>11. \A e \in D : PiTaken(a, e) \in Nat /\ ChargeTaken(a, e) \in Nat
  <2>1. TAKE e \in D
  <2>2. OwedPi(e) \in Nat /\ OwedCharge(e) \in Nat
    BY <1>2
  <2>3. PICK m, n : /\ m = Positive(a - Total(OwedPi, Before(DueUnpaid, e)))
                    /\ n = Positive((a - Total(OwedPi, DueUnpaid))
                                      - Total(OwedCharge, Before(DueUnpaid, e)))
    OBVIOUS
  <2>4. m \in Nat /\ n \in Nat
    BY <2>3 DEF Positive
  <2> QED BY <2>2, <2>3, <2>4 DEF PiTaken, ChargeTaken, AtMost
<1>12. RestOf(a) \in Nat
  BY DEF RestOf, Positive
<1> HIDE DEF o, q
<1> QED BY <1>1, <1>7, <1>8, <1>9, <1>10, <1>11, <1>12

(* The sum of the amounts of a set of parts.                               *)
Coming(parts) == SumFunctionOnSet([part \in parts |-> Amount(part)], parts)

(* The parts yet to be written add up, and one can be taken off.           *)
LEMMA ComingIs ==
  ASSUME NEW parts, IsFiniteSet(parts), parts \subseteq Parts
  PROVE  /\ Coming(parts) \in Nat
         /\ \A part \in parts : /\ Amount(part) \in Nat
                                /\ Coming(parts) = Amount(part) + Coming(parts \ {part})
                                /\ Coming(parts \ {part}) \in Nat
                                /\ IsFiniteSet(parts \ {part})
<1> DEFINE f == [x \in parts |-> Amount(x)]
<1>1. \A x \in parts : Amount(x) \in Nat /\ f[x] = Amount(x) /\ f[x] \in Nat /\ f[x] \in Int
  BY DEF Parts, Money, Amount
<1>2. Coming(parts) = SumFunctionOnSet(f, parts)
  BY DEF Coming
<1> HIDE DEF f
<1>3. SumFunctionOnSet(f, parts) \in Nat
  BY <1>1, SumOfNaturals
<1>4. ASSUME NEW part \in parts
      PROVE  /\ Coming(parts) = Amount(part) + Coming(parts \ {part})
             /\ Coming(parts \ {part}) \in Nat
             /\ IsFiniteSet(parts \ {part})
  <2> DEFINE r == parts \ {part}
             g == [x \in r |-> Amount(x)]
  <2>1. IsFiniteSet(r) /\ Coming(r) = SumFunctionOnSet(g, r)
    BY FS_Subset DEF Coming
  <2>2. \A x \in r : g[x] = f[x] /\ g[x] \in Nat
    BY <1>1
  <2> HIDE DEF g
  <2>3. SumFunctionOnSet(g, r) = SumFunctionOnSet(f, r)
    <3> HIDE DEF r
    <3> QED BY ONLY <2>1, <2>2, SumSame
  <2>4. SumFunctionOnSet(g, r) \in Nat
    <3> HIDE DEF r
    <3> QED BY ONLY <2>1, <2>2, SumOfNaturals
  <2>5. \A x \in parts : SumFunctionOnSet(f, parts) = f[x] + SumFunctionOnSet(f, parts \ {x})
    BY ONLY <1>1, IsFiniteSet(parts), SumAnyFirst
  <2> QED BY <1>1, <1>2, <2>1, <2>3, <2>4, <2>5
<1> QED BY <1>1, <1>2, <1>3, <1>4

LEMMA TakenIsWithin ==
  ASSUME IndInv, NEW a \in Nat, NEW T, IsFiniteSet(T), T \subseteq Parts,
         \A part \in T : TakenPart(part, a)
  PROVE  Coming(T) <= a - RestOf(a)
<1> DEFINE D == DueUnpaid
           f == [x \in T |-> Amount(x)]
           key == [x \in T |-> x.emi]
           group == [e \in D |-> {x \in T : x.emi = e}]
           g == [e \in D |-> SumFunctionOnSet(f, group[e])]
           pis == [e \in D |-> PiTaken(a, e)]
           cs == [e \in D |-> ChargeTaken(a, e)]
           h == [e \in D |-> PiTaken(a, e) + ChargeTaken(a, e)]
<1>1. /\ IsFiniteSet(D) /\ RestOf(a) \in Nat
      /\ \A e \in D : PiTaken(a, e) \in Nat /\ ChargeTaken(a, e) \in Nat
      /\ SumFunctionOnSet(pis, D) + SumFunctionOnSet(cs, D) + RestOf(a) = a
  BY TakenTotal
<1>2. \A x \in T : /\ f[x] = Amount(x) /\ f[x] \in Int /\ f[x] \in Nat
                    /\ f[x] = PiTaken(a, x.emi) + ChargeTaken(a, x.emi)
  <2>1. TAKE x \in T
  <2>2. TakenPart(x, a) /\ x \in Parts
    OBVIOUS
  <2>3. x.pi \in Nat /\ x.charge \in Nat /\ x.extra = 0
    BY <2>2 DEF TakenPart, Parts, Money
  <2> QED BY <2>2, <2>3 DEF TakenPart, Amount
<1>3. Groups(group, key, T, D, T)
  BY DEF Groups, TakenPart
<1>4. \A e \in D : g[e] = SumFunctionOnSet(f, group[e])
  OBVIOUS
<1>5. SumFunctionOnSet(g, D) = SumFunctionOnSet(f, T)
  <2>1. \A x \in T : f[x] \in Int
    BY <1>2
  <2> HIDE DEF f, g, key, group, D
  <2> QED BY <1>1, <1>3, <1>4, <2>1, SumByKey
<1>6. \A e \in D : g[e] \in Int /\ g[e] <= h[e] /\ h[e] \in Int /\ h[e] = pis[e] + cs[e]
                   /\ pis[e] \in Int /\ cs[e] \in Int
  <2>1. TAKE e \in D
  <2>2. /\ h[e] = PiTaken(a, e) + ChargeTaken(a, e) /\ pis[e] = PiTaken(a, e)
        /\ cs[e] = ChargeTaken(a, e) /\ PiTaken(a, e) \in Nat /\ ChargeTaken(a, e) \in Nat
    BY <1>1
  <2>3. g[e] \in Int /\ g[e] <= h[e]
    <3>1. CASE group[e] = {}
      <4>1. SumFunctionOnSet(f, {}) = 0
        BY SumEmpty
      <4>2. g[e] = 0
        <5> HIDE DEF f, group
        <5> QED BY <3>1, <4>1
      <4> HIDE DEF g, h, f
      <4> QED BY <2>2, <4>2
    <3>2. CASE group[e] # {}
      <4>1. PICK x \in T : x.emi = e
        BY <3>2
      <4>2. group[e] = {x}
        <5>1. ASSUME NEW y \in T, y.emi = e PROVE y = x
          <6>1. TakenPart(y, a) /\ y \in Parts /\ TakenPart(x, a) /\ x \in Parts
            OBVIOUS
          <6>2. y.pi = x.pi /\ y.charge = x.charge /\ y.extra = x.extra /\ y.emi = x.emi
            BY <4>1, <5>1, <6>1 DEF TakenPart
          <6> QED BY <6>1, <6>2 DEF Parts
        <5> QED BY <4>1, <5>1
      <4>3. SumFunctionOnSet(f, {x}) = f[x]
        <5>1. IsFiniteSet({x}) /\ {x} \ {x} = {}
          BY FS_Singleton
        <5>2. \A y \in {x} : f[y] \in Int
          BY <1>2
        <5> HIDE DEF f
        <5>3. \A y \in {x} : SumFunctionOnSet(f, {x}) = f[y] + SumFunctionOnSet(f, {x} \ {y})
          BY ONLY <5>1, <5>2, SumAnyFirst
        <5>4. SumFunctionOnSet(f, {}) = 0
          BY SumEmpty
        <5>5. SumFunctionOnSet(f, {x}) = f[x] + SumFunctionOnSet(f, {x} \ {x})
          BY <5>3
        <5> QED BY <5>1, <5>2, <5>4, <5>5
      <4>4. g[e] = f[x]
        <5> HIDE DEF f, group
        <5> QED BY <4>2, <4>3
      <4>5. f[x] = PiTaken(a, e) + ChargeTaken(a, e)
        BY <1>2, <4>1
      <4> HIDE DEF g, h, f
      <4> QED BY <2>2, <4>4, <4>5
    <3> QED BY <3>1, <3>2
  <2> HIDE DEF g, h, pis, cs
  <2> QED BY <2>2, <2>3
<1> HIDE DEF g, h, pis, cs, D
<1>7. SumFunctionOnSet(g, D) <= SumFunctionOnSet(h, D)
  BY <1>1, <1>6, SumMonotone
<1>8. SumFunctionOnSet(h, D) = SumFunctionOnSet(pis, D) + SumFunctionOnSet(cs, D)
  BY <1>1, <1>6, SumPlus
<1>9. Coming(T) = SumFunctionOnSet(f, T)
  BY DEF Coming
<1>10. SumFunctionOnSet(f, T) \in Nat
  <2> HIDE DEF f
  <2> QED BY <1>2, SumOfNaturals
<1>11. SumFunctionOnSet(pis, D) \in Int /\ SumFunctionOnSet(cs, D) \in Int
  BY <1>1, <1>6, SumAnyFirst
<1> HIDE DEF f
<1> QED BY <1>1, <1>5, <1>7, <1>8, <1>9, <1>10, <1>11

(* The parts of a split, whichever instalment the refundable one is kept   *)
(* with, add up to no more than the amount.                                *)
LEMMA PartsWithin ==
  ASSUME IndInv, NEW a \in Nat, NEW S, IsFiniteSet(S), S \subseteq Parts,
         NEW rest \in Parts, Amount(rest) = RestOf(a),
         \A part \in S : TakenPart(part, a) \/ part = rest
  PROVE  Coming(S) <= a
<1>1. RestOf(a) \in Nat
  BY TakenTotal
<1>2. CASE rest \in S
  <2>1. /\ Coming(S) = Amount(rest) + Coming(S \ {rest})
        /\ IsFiniteSet(S \ {rest}) /\ Coming(S \ {rest}) \in Nat
    BY <1>2, ComingIs
  <2>2. Coming(S \ {rest}) <= a - RestOf(a)
    <3>1. S \ {rest} \subseteq Parts /\ \A part \in S \ {rest} : TakenPart(part, a)
      OBVIOUS
    <3> QED BY <2>1, <3>1, TakenIsWithin
  <2> QED BY <1>1, <2>1, <2>2
<1>3. CASE rest \notin S
  <2>1. \A part \in S : TakenPart(part, a)
    BY <1>3
  <2>2. Coming(S) <= a - RestOf(a) /\ Coming(S) \in Nat
    BY <2>1, TakenIsWithin, ComingIs
  <2> QED BY <1>1, <2>2
<1> QED BY <1>2, <1>3

(* What the bifurcation puts aside, or writes in place.                    *)
LEMMA SplitWithin ==
  ASSUME IndInv, NEW a \in Nat, NEW e \in Emis
  PROVE  /\ IsFiniteSet(OwnParts(SplitParts(a), e))
         /\ Coming(OwnParts(SplitParts(a), e)) <= a
         /\ \A part \in SplitParts(a) : Amount(part) <= a
<1> DEFINE parts == SplitParts(a)
           left == [NoPart EXCEPT !.extra = RestOf(a)]
           rest == [emi |-> e, pi |-> 0, charge |-> 0, extra |-> RestOf(a)]
<1>1. /\ IsFiniteSet(DueUnpaid) /\ RestOf(a) \in Nat
  BY TakenTotal
<1>2. parts \subseteq Parts
  BY SplitPartsType
<1>3. left \in Parts /\ left = [emi |-> NoEmi, pi |-> 0, charge |-> 0, extra |-> RestOf(a)]
  BY <1>1 DEF NoPart, Parts, Money
<1>5. /\ rest \in Parts /\ Amount(rest) = RestOf(a) /\ Amount(left) = RestOf(a)
  BY <1>1, <1>3 DEF Parts, Money, Amount
<1> HIDE DEF left
<1>6. \A part \in parts : TakenPart(part, a) \/ part = left
  BY SplitIsTaken DEF left
<1>7. IsFiniteSet(parts)
  <2> DEFINE taken == {[emi |-> d, pi |-> PiTaken(a, d), charge |-> ChargeTaken(a, d),
                        extra |-> 0] : d \in DueUnpaid}
             f == [d \in DueUnpaid |-> [emi |-> d, pi |-> PiTaken(a, d),
                                       charge |-> ChargeTaken(a, d), extra |-> 0]]
  <2>1. IsFiniteSet(taken)
    <3>1. taken = {f[d] : d \in DueUnpaid}
      OBVIOUS
    <3> HIDE DEF taken, f
    <3> QED BY <1>1, <3>1, FiniteValues
  <2>2. parts \subseteq taken \union {left}
    <3>1. ASSUME NEW part \in parts, TakenPart(part, a) PROVE part \in taken
      <4>1. part \in Parts /\ part.emi \in DueUnpaid
        BY <1>2, <3>1 DEF TakenPart
      <4>2. part = [emi |-> part.emi, pi |-> PiTaken(a, part.emi),
                    charge |-> ChargeTaken(a, part.emi), extra |-> 0]
        BY <3>1, <4>1 DEF TakenPart, Parts
      <4> QED BY <4>1, <4>2
    <3> QED BY <1>6, <3>1
  <2> HIDE DEF taken
  <2> QED BY <2>1, <2>2, FS_AddElement, FS_Subset
<1>8. \A part \in parts : TakenPart(part, a) => Own(part, e) = part
  BY DEF TakenPart, Own, DueUnpaid, Unpaid, Emis, NoEmi
<1>9. Own(left, e) = rest
  BY <1>3 DEF Own
<1>10. OwnParts(parts, e) \subseteq Parts
       /\ \A part \in OwnParts(parts, e) : TakenPart(part, a) \/ part = rest
  <2>1. ASSUME NEW own \in OwnParts(parts, e)
        PROVE  own \in Parts /\ (TakenPart(own, a) \/ own = rest)
    <3>1. PICK part \in parts : own = Own(part, e)
      BY DEF OwnParts
    <3> HIDE DEF rest
    <3> QED BY <1>2, <1>5, <1>6, <1>8, <1>9, <3>1
  <2> QED BY <2>1
<1>11. IsFiniteSet(OwnParts(parts, e))
  <2> DEFINE f == [part \in parts |-> Own(part, e)]
  <2>1. OwnParts(parts, e) = {f[part] : part \in parts}
    BY DEF OwnParts
  <2> HIDE DEF f, parts
  <2> QED BY <1>7, <2>1, FiniteValues
<1> HIDE DEF rest
<1>12. Coming(OwnParts(parts, e)) <= a
  BY <1>5, <1>10, <1>11, PartsWithin
<1>13. Coming(parts) <= a
  BY <1>2, <1>3, <1>5, <1>6, <1>7, PartsWithin
<1>14. \A part \in parts : Amount(part) <= a
  <2>1. TAKE part \in parts
  <2>2. /\ Coming(parts) = Amount(part) + Coming(parts \ {part})
        /\ Coming(parts \ {part}) \in Nat /\ Amount(part) \in Nat
    BY <1>2, <1>7, ComingIs
  <2> QED BY <1>13, <2>2
<1> QED BY <1>11, <1>12, <1>14

-----------------------------------------------------------------------------
(* What the rows of an order hold of it, COMPLETED or not.                 *)
HeldBy(rows) == [r \in RowIds |-> IF rows[r].status \in Gone THEN 0 ELSE Amount(rows[r].part)]
Held(rows, p) == SumFunctionOnSet(HeldBy(rows), RowsOf(p))

(* What the rows of an order hold is a natural number.                     *)
LEMMA HeldIs ==
  ASSUME IsFiniteSet(Pays), NEW rows \in RowTable, NEW p
  PROVE  /\ \A r \in RowIds : /\ HeldBy(rows)[r] \in Nat /\ Amount(rows[r].part) \in Nat
                              /\ HeldBy(rows)[r] = IF rows[r].status \in Gone THEN 0
                                                   ELSE Amount(rows[r].part)
         /\ RowsOf(p) \in SUBSET RowIds /\ IsFiniteSet(RowsOf(p))
         /\ Held(rows, p) \in Nat
         /\ \A r \in RowsOf(p) : HeldBy(rows)[r] <= Held(rows, p)
<1>1. \A r \in RowIds : Amount(rows[r].part) \in Nat
  BY DEF RowTable, RowType, Parts, Money, Amount
<1>2. \A r \in RowIds : HeldBy(rows)[r] \in Nat
                        /\ HeldBy(rows)[r] = IF rows[r].status \in Gone THEN 0
                                             ELSE Amount(rows[r].part)
  BY <1>1 DEF HeldBy
<1>3. RowsOf(p) \in SUBSET RowIds /\ IsFiniteSet(RowsOf(p))
  BY RowsFinite, FS_Subset DEF RowsOf
<1>4. \A r \in RowsOf(p) : HeldBy(rows)[r] \in Nat
  BY <1>2, <1>3
<1>5. /\ SumFunctionOnSet(HeldBy(rows), RowsOf(p)) \in Nat
      /\ \A r \in RowsOf(p) : HeldBy(rows)[r] <= SumFunctionOnSet(HeldBy(rows), RowsOf(p))
  BY <1>3, <1>4, SumOfNaturals
<1> QED BY <1>1, <1>2, <1>3, <1>5 DEF Held

(* An order whose rows hold no more than before.                           *)
LEMMA HeldShrinks ==
  ASSUME IsFiniteSet(Pays), NEW rows \in RowTable, NEW next \in RowTable, NEW p,
         \A r \in RowsOf(p) : HeldBy(next)[r] <= HeldBy(rows)[r]
  PROVE  Held(next, p) <= Held(rows, p)
<1>1. \A r \in RowsOf(p) : HeldBy(next)[r] \in Int /\ HeldBy(rows)[r] \in Int
                           /\ HeldBy(next)[r] <= HeldBy(rows)[r]
  BY HeldIs
<1>2. IsFiniteSet(RowsOf(p))
  BY HeldIs
<1> QED BY <1>1, <1>2, SumMonotone DEF Held

(* An order of which one row is written.                                   *)
LEMMA HeldChanges ==
  ASSUME IsFiniteSet(Pays), NEW rows \in RowTable, NEW next \in RowTable, NEW p,
         NEW c \in RowsOf(p), \A r \in RowsOf(p) : r # c => next[r] = rows[r]
  PROVE  Held(next, p) = Held(rows, p) - HeldBy(rows)[c] + HeldBy(next)[c]
<1>1. \A r \in RowsOf(p) : HeldBy(next)[r] \in Int /\ HeldBy(rows)[r] \in Int
  BY HeldIs
<1>2. \A r \in RowsOf(p) \ {c} : HeldBy(next)[r] = HeldBy(rows)[r]
  BY HeldIs
<1>3. IsFiniteSet(RowsOf(p))
  BY HeldIs
<1> QED BY <1>1, <1>2, <1>3, SumChange DEF Held

(* The rows of an order hold, with what its handler is about to put into   *)
(* rows, no more than its price.                                           *)
Priced == \A p \in Pays : /\ Held(row, p) <= price[p]
                          /\ row[<<p, 1>>].status = "NONE" => price[p] = 0
BookFacts(w) ==
  LET t == task[w] IN
  pc[w] \in OrderLabels =>
    /\ IsFiniteSet(t.parts)
    /\ pc[w] = "part" /\ t.i = 0 =>
         Stands(t.id) /\ Coming(t.parts) <= Amount(row[t.id].part)
    /\ t.i > 0 => Held(row, t.id[1]) + Coming(t.parts) <= price[t.id[1]]
    /\ pc[w] = "update" /\ Stands(t.id) /\ t.upd # NoPart =>
         Amount(t.upd) <= Amount(row[t.id].part)
BookInv == Priced /\ \A w \in Workers : BookFacts(w)

(* With one handler, what holds of it is all there is to show.             *)
LEMMA BookIs ==
  ASSUME OneHandler, NEW w \in Workers, Priced', BookFacts(w)'
  PROVE  BookInv'
  BY DEF OneHandler, BookInv

LEMMA BookStands ==
  ASSUME BookInv, UNCHANGED <<row, price, pc, task>>
  PROVE  BookInv'
  BY DEF BookInv, Priced, BookFacts, Stands

(* No order, no row, nothing held.                                         *)
LEMMA BookInit ==
  ASSUME IsFiniteSet(Pays), Init
  PROVE  BookInv
<1>1. IndInv
  BY InitInv
<1>2. row \in RowTable /\ \A r \in RowIds : row[r].status \in Gone
  BY <1>1 DEF IndInv, TypeOK, Init, NoRow, Gone
<1>3. ASSUME NEW p \in Pays PROVE Held(row, p) <= price[p] /\ price[p] = 0
  <2> DEFINE f == HeldBy(row)
             zero == [r \in RowsOf(p) |-> 0]
  <2>1. IsFiniteSet(RowsOf(p)) /\ \A r \in RowsOf(p) : f[r] = 0
    BY <1>2, HeldIs
  <2> HIDE DEF f
  <2>2. SumFunctionOnSet(f, RowsOf(p)) = 0 * Cardinality(RowsOf(p))
    BY <2>1, SumConstant
  <2>3. Cardinality(RowsOf(p)) \in Nat
    BY <2>1, FS_CardinalityType
  <2>4. Held(row, p) = 0
    BY <2>2, <2>3 DEF Held, f
  <2>5. price[p] = 0
    BY DEF Init
  <2> QED BY <2>4, <2>5
<1>4. Priced
  BY <1>3 DEF Priced
<1>5. \A w \in Workers : BookFacts(w)
  BY DEF Init, BookFacts, OrderLabels
<1> QED BY <1>4, <1>5 DEF BookInv

(* A new order holds its price.                                            *)
LEMMA OrderPartIsPrice ==
  ASSUME NEW p \in Pays, CreateOrder(p)
  PROVE  \E kind \in Kinds, e \in Unpaid, amount \in Prices :
           /\ Created(p, kind, e, TRUE, amount) \/ Created(p, kind, e, FALSE, amount)
           /\ Amount(OrderPart(kind[1], e, amount)) = amount
<1>1. PICK kind \in Kinds, e \in Unpaid, onTime \in BOOLEAN, amount \in Prices :
        Created(p, kind, e, onTime, amount)
  BY OrderCreated
<1>2. amount \in Nat
  BY ConstantsAssumption DEF Prices
<1>3. Amount(OrderPart(kind[1], e, amount)) = amount
  <2>1. CASE kind[1] = "FULLPAY"
    <3>1. amount = Total(OwedPi, Unpaid) + Total(ChargeBill, Unpaid)
      BY <1>1, <2>1 DEF Created, LoanBill
    <3>2. OrderPart(kind[1], e, amount) =
            [emi |-> NoEmi, pi |-> Total(OwedPi, Unpaid),
             charge |-> Total(ChargeBill, Unpaid), extra |-> 0]
      BY <2>1 DEF OrderPart
    <3>3. PICK m, n : m = Total(OwedPi, Unpaid) /\ n = Total(ChargeBill, Unpaid)
      OBVIOUS
    <3>4. m \in Nat /\ n \in Nat
      BY <3>3, TotalNat
    <3> QED BY <3>1, <3>2, <3>3, <3>4 DEF Amount
  <2>2. CASE kind[1] # "FULLPAY"
    <3>1. PICK m, n : m = OwedPi(e) /\ n = OwedCharge(e)
      OBVIOUS
    <3>2. m \in Nat /\ n \in Nat
      BY <3>1 DEF OwedPi, OwedCharge, Positive
    <3>3. OrderPart(kind[1], e, amount) =
            [emi |-> e, pi |-> AtMost(amount, m), charge |-> AtMost(amount - AtMost(amount, m), n),
             extra |-> amount - AtMost(amount, m) - AtMost(amount - AtMost(amount, m), n)]
      BY <2>2, <3>1 DEF OrderPart
    <3>4. AtMost(amount, m) \in Int /\ AtMost(amount - AtMost(amount, m), n) \in Int
      BY <1>2, <3>2 DEF AtMost
    <3> QED BY <1>2, <3>3, <3>4 DEF Amount
  <2> QED BY <2>1, <2>2
<1> QED BY <1>1, <1>3

LEMMA BookCreateOrder ==
  ASSUME OneHandler, IsFiniteSet(Pays), IndInv, IndInv', AloneInv, BookInv,
         NEW p \in Pays, CreateOrder(p)
  PROVE  BookInv'
<1>1. PICK kind \in Kinds, e \in Unpaid, amount \in Prices :
        /\ Created(p, kind, e, TRUE, amount) \/ Created(p, kind, e, FALSE, amount)
        /\ Amount(OrderPart(kind[1], e, amount)) = amount
  BY OrderPartIsPrice
<1> DEFINE id == <<p, 1>>
<1>2. /\ row \in RowTable /\ row' \in RowTable /\ price \in [Pays -> Money]
      /\ id \in RowIds /\ row[id].status = "NONE" /\ UNCHANGED <<pc, task>>
  BY ConstantsAssumption DEF IndInv, TypeOK, RowIds, CreateOrder
<1>3. /\ price' = [price EXCEPT ![p] = amount] /\ amount \in Nat
  BY <1>1, ConstantsAssumption DEF Created, Prices
<1>4. /\ row'[id].status = "INITIALIZED" /\ Amount(row'[id].part) = amount
      /\ \A r \in RowIds : r # id => row'[r] = row[r]
  <2>1. ASSUME NEW onTime, Created(p, kind, e, onTime, amount)
        PROVE  /\ row'[id].status = "INITIALIZED" /\ Amount(row'[id].part) = amount
               /\ \A r \in RowIds : r # id => row'[r] = row[r]
    <3> DEFINE new == [status |-> "INITIALIZED", type |-> kind[1], mode |-> kind[2],
                       onTime |-> onTime, part |-> OrderPart(kind[1], e, amount)]
    <3>1. row' = [row EXCEPT ![id] = new]
      BY <2>1 DEF Created
    <3>2. new.status = "INITIALIZED" /\ Amount(new.part) = amount
      BY <1>1
    <3> HIDE DEF new, id
    <3>3. row'[id] = new /\ \A r \in RowIds : r # id => row'[r] = row[r]
      BY <1>2, <3>1 DEF RowTable
    <3> QED BY <3>2, <3>3
  <2> QED BY <1>1, <2>1
<1>5. Held(row', p) = amount
  <2>1. id \in RowsOf(p) /\ \A r \in RowsOf(p) : r # id => row'[r] = row[r]
    BY <1>2, <1>4 DEF RowsOf
  <2>2. Held(row', p) = Held(row, p) - HeldBy(row)[id] + HeldBy(row')[id]
    <3> HIDE DEF id
    <3> QED BY <1>2, <2>1, HeldChanges
  <2>3. HeldBy(row)[id] = 0 /\ HeldBy(row')[id] = amount
    BY <1>2, <1>4, HeldIs DEF Gone
  <2>4. Held(row, p) \in Nat /\ Held(row, p) <= 0
    BY <1>2, HeldIs DEF BookInv, Priced
  <2> HIDE DEF id
  <2> QED BY <1>3, <2>2, <2>3, <2>4
<1>6. ASSUME NEW q \in Pays, q # p
      PROVE  /\ Held(row', q) <= Held(row, q) /\ price'[q] = price[q]
             /\ row'[<<q, 1>>] = row[<<q, 1>>]
  <2>1. <<q, 1>> \in RowIds /\ <<q, 1>> # id
    BY <1>6, ConstantsAssumption DEF RowIds
  <2>2. \A r \in RowsOf(q) : r # id /\ r \in RowIds
    BY <1>6 DEF RowsOf
  <2>3. \A r \in RowsOf(q) : HeldBy(row')[r] <= HeldBy(row)[r]
    <3>1. TAKE r \in RowsOf(q)
    <3>2. row'[r] = row[r] /\ r \in RowIds
      BY <1>4, <2>2
    <3>3. HeldBy(row')[r] = HeldBy(row)[r] /\ HeldBy(row)[r] \in Nat
      BY <1>2, <3>2, HeldIs
    <3> QED BY <3>3
  <2>4. Held(row', q) <= Held(row, q)
    BY <1>2, <2>3, HeldShrinks
  <2> QED BY <1>2, <1>3, <1>4, <1>6, <2>1, <2>4
<1>7. Priced'
  <2>1. ASSUME NEW q \in Pays
        PROVE  Held(row', q) <= price'[q] /\ (row'[<<q, 1>>].status = "NONE" => price'[q] = 0)
    <3>1. CASE q = p
      BY <1>2, <1>3, <1>4, <1>5, <3>1
    <3>2. CASE q # p
      <4>1. Held(row, q) <= price[q] /\ (row[<<q, 1>>].status = "NONE" => price[q] = 0)
        BY DEF BookInv, Priced
      <4>2. Held(row, q) \in Nat /\ Held(row', q) \in Nat /\ price[q] \in Nat
        BY <1>2, HeldIs DEF Money
      <4> QED BY <1>6, <3>2, <4>1, <4>2
    <3> QED BY <3>1, <3>2
  <2> QED BY <2>1 DEF Priced
<1>8. ASSUME NEW w \in Workers PROVE BookFacts(w)'
  <2> SUFFICES ASSUME pc[w] \in OrderLabels PROVE BookFacts(w)'
    BY <1>2 DEF BookFacts
  <2>1. PICK q \in Pays : task[w].id[1] = q /\ row[<<q, 1>>].status # "NONE"
                          /\ \E k : task[w].id = <<q, k>>
    <3>1. row[<<task[w].id[1], 1>>].status # "NONE"
      BY DEF AloneInv, HandlerFacts
    <3> QED BY <3>1, FirstRow
  <2>2. q # p
    BY <1>2, <2>1
  <2>3. task[w].id # id
    BY <2>1, <2>2
  <2>4. Stands(task[w].id)' => Stands(task[w].id) /\ row'[task[w].id] = row[task[w].id]
    BY <1>2, <1>4, <2>3 DEF Stands
  <2>5. Stands(task[w].id) => Stands(task[w].id)' /\ row'[task[w].id] = row[task[w].id]
    BY <1>2, <1>4, <2>3 DEF Stands
  <2>6. /\ Held(row', q) <= Held(row, q) /\ price'[q] = price[q] /\ price[q] \in Nat
        /\ Held(row, q) \in Nat /\ Held(row', q) \in Nat
    BY <1>2, <1>6, <2>2, HeldIs DEF Money
  <2>7. BookFacts(w)
    BY DEF BookInv
  <2>8. task[w].i > 0 => Held(row', q) + Coming(task[w].parts) <= price'[q]
    <3> SUFFICES ASSUME task[w].i > 0
                 PROVE  Held(row', q) + Coming(task[w].parts) <= price'[q]
      OBVIOUS
    <3>1. IsFiniteSet(task[w].parts) /\ Held(row, q) + Coming(task[w].parts) <= price[q]
      BY <2>1, <2>7 DEF BookFacts
    <3>2. Coming(task[w].parts) \in Nat
      BY <3>1, ComingIs DEF IndInv, TypeOK, Tasks
    <3> QED BY <2>6, <3>1, <3>2
  <2> QED BY <1>2, <2>1, <2>4, <2>5, <2>7, <2>8 DEF BookFacts
<1> QED BY <1>7, <1>8 DEF BookInv

(* A step that writes no row, or leaves each row of each order with no     *)
(* more, keeps the rows within their prices.                               *)
LEMMA PricedStays ==
  ASSUME IsFiniteSet(Pays), IndInv, IndInv', Priced, price' = price,
         \A r \in RowIds : /\ HeldBy(row')[r] <= HeldBy(row)[r]
                           /\ row'[r].status = "NONE" => row[r].status = "NONE"
  PROVE  /\ Priced'
         /\ \A p \in Pays : Held(row', p) <= Held(row, p)
<1>1. row \in RowTable /\ row' \in RowTable /\ price \in [Pays -> Money]
  BY DEF IndInv, TypeOK
<1>2. ASSUME NEW p \in Pays PROVE Held(row', p) <= Held(row, p)
  <2>1. \A r \in RowsOf(p) : HeldBy(row')[r] <= HeldBy(row)[r]
    BY DEF RowsOf
  <2> QED BY <1>1, <2>1, HeldShrinks
<1>3. ASSUME NEW p \in Pays
      PROVE  Held(row', p) <= price[p] /\ (row'[<<p, 1>>].status = "NONE" => price[p] = 0)
  <2>1. Held(row, p) \in Nat /\ Held(row', p) \in Nat /\ price[p] \in Nat
    BY <1>1, HeldIs DEF Money
  <2>2. <<p, 1>> \in RowIds
    BY ConstantsAssumption DEF RowIds
  <2>3. Held(row, p) <= price[p] /\ (row[<<p, 1>>].status = "NONE" => price[p] = 0)
    BY DEF Priced
  <2>4. Held(row', p) <= Held(row, p)
    BY <1>2
  <2> QED BY <2>1, <2>2, <2>3, <2>4
<1> QED BY <1>2, <1>3 DEF Priced

LEMMA PricedSame ==
  ASSUME Priced, row' = row, price' = price
  PROVE  Priced'
  BY DEF Priced

LEMMA BookEnds ==
  ASSUME OneHandler, NEW w \in Workers, Priced', pc'[w] \notin OrderLabels
  PROVE  BookInv'
<1>1. BookFacts(w)'
  BY DEF BookFacts
<1> QED BY <1>1, BookIs

LEMMA BookEnters ==
  ASSUME OneHandler, IndInv, BookInv, NEW w \in Workers, NEW p \in Pays,
         \/ Poll(w, p)
         \/ \E event \in {"captured", "failed"} : ManualWebhook(w, p, event)
         \/ SigndeskBatch(w, p)
  PROVE  BookInv'
<1>1. PICK res \in {"COMPLETED", "FAILED"} : Enter(w, p, res)
  BY DEF Poll, ManualWebhook, SigndeskBatch
<1>2. /\ row' = row /\ price' = price
      /\ pc'[w] \in {"penalty", "update"}
      /\ task'[w].i = 0 /\ task'[w].parts = {} /\ task'[w].upd = NoPart
  BY <1>1 DEF Enter, Goto, Keep, NoTask, db, world, IndInv, TypeOK
<1>3. Priced'
  BY <1>2, PricedSame DEF BookInv
<1>4. BookFacts(w)'
  BY <1>2, FS_EmptySet DEF BookFacts
<1> QED BY <1>3, <1>4, BookIs

LEMMA BookResetPenalty ==
  ASSUME OneHandler, IndInv, AloneInv, BookInv, NEW w \in Workers, ResetPenalty(w)
  PROVE  BookInv'
<1>1. /\ pc[w] = "penalty" /\ pc'[w] = "bifurcate" /\ row' = row /\ price' = price
      /\ task' = task
  BY DEF ResetPenalty, Goto, world, IndInv, TypeOK
<1>2. Priced'
  BY <1>1, PricedSame DEF BookInv
<1>3. BookFacts(w) /\ task[w].i = 0
  BY <1>1, Bifurcating DEF BookInv
<1>4. BookFacts(w)'
  BY <1>1, <1>3 DEF BookFacts, OrderLabels, Labels
<1> QED BY <1>2, <1>4, BookIs

LEMMA BookBifurcate ==
  ASSUME OneHandler, IndInv, AloneInv, BookInv, NEW w \in Workers, Bifurcate(w)
  PROVE  BookInv'
<1> DEFINE t == task[w]
           r == row[t.id]
           a == Amount(r.part)
           parts == SplitParts(a)
<1>1. /\ pc[w] = "bifurcate" /\ row' = row /\ price' = price
      /\ Bifurcated(w) /\ HandlerFacts(w) /\ BookFacts(w)
  BY BifurcatedIs DEF AloneInv, BookInv, db, world
<1>2. t \in Tasks /\ t.i = 0 /\ t.id \in RowIds /\ r \in RowType
  BY <1>1, Bifurcating
<1>3. t.upd = NoPart /\ t.parts = {} /\ a \in Nat
  BY <1>1, <1>2 DEF HandlerFacts, OrderLabels, Labels, RowType, Parts, Money, Amount
<1>4. Priced'
  BY <1>1, PricedSame DEF BookInv
<1>5. ~StopsAt(r) => Stands(t.id)
  BY <1>2 DEF StopsAt, Stands
<1>6. Applies(r) => r.part.emi \in Emis
  BY <1>2 DEF Applies, RowType, Parts
<1>7. CASE pc'[w] = "idle"
  BY <1>4, <1>7, BookEnds DEF OrderLabels
<1>8. CASE pc'[w] = "update" /\ task'[w] = t
  <2>1. task'[w].i = 0 /\ task'[w].parts = {} /\ task'[w].upd = NoPart
    BY <1>2, <1>3, <1>8
  <2>2. BookFacts(w)'
    BY <1>8, <2>1, FS_EmptySet DEF BookFacts
  <2> QED BY <1>4, <2>2, BookIs
<1>9. ASSUME NEW part \in parts, Applies(r), pc'[w] = "update",
             task'[w] = [t EXCEPT !.upd = part, !.emi = part.emi]
      PROVE  BookInv'
  <2>1. Amount(part) <= a
    BY <1>3, <1>6, <1>9, SplitWithin
  <2>2. /\ task'[w].upd = part /\ task'[w].id = t.id
        /\ task'[w].i = 0 /\ task'[w].parts = {}
    BY <1>2, <1>3, <1>9 DEF Tasks
  <2>3. BookFacts(w)'
    BY <1>1, <1>9, <2>1, <2>2, FS_EmptySet DEF BookFacts
  <2> QED BY <1>4, <2>3, BookIs
<1>10. CASE /\ ~StopsAt(r) /\ Applies(r) /\ pc'[w] = "part"
            /\ task'[w] = [t EXCEPT !.parts = OwnParts(parts, r.part.emi)]
  <2>1. /\ task'[w].parts = OwnParts(parts, r.part.emi) /\ task'[w].id = t.id
        /\ task'[w].i = 0
    BY <1>2, <1>10 DEF Tasks
  <2>2. /\ IsFiniteSet(OwnParts(parts, r.part.emi))
        /\ Coming(OwnParts(parts, r.part.emi)) <= a
    BY <1>3, <1>6, <1>10, SplitWithin
  <2>3. Stands(t.id)'
    BY <1>1, <1>5, <1>10 DEF Stands
  <2>4. BookFacts(w)'
    <3> HIDE DEF parts
    <3> QED BY <1>1, <1>10, <2>1, <2>2, <2>3 DEF BookFacts
  <2> QED BY <1>4, <2>4, BookIs
<1> QED BY <1>1, <1>7, <1>8, <1>9, <1>10 DEF Bifurcated

LEMMA BookFollows ==
  ASSUME OneHandler, IndInv, AloneInv, BookInv, NEW w \in Workers, Follows(w),
         price' = price
  PROVE  BookInv'
<1>1. row' = row /\ pc[w] \in FollowLabels /\ Followed(w)
  BY FollowedIs
<1>2. Priced'
  BY <1>1, PricedSame DEF BookInv
<1>3. CASE pc'[w] = "idle"
  BY <1>2, <1>3, BookEnds DEF OrderLabels
<1>4. CASE pc'[w] # "idle"
  <2>1. /\ pc'[w] \in OrderLabels \ {"update"}
        /\ pc'[w] = "part" => task[w].parts # {}
        /\ task'[w].id = task[w].id /\ task'[w].i = task[w].i
        /\ task'[w].parts = task[w].parts
        /\ pc[w] \in OrderLabels \ {"part"}
    BY <1>1, <1>4 DEF Followed, FollowLabels, OrderLabels, SameWork, Labels
  <2>2. HandlerFacts(w) /\ BookFacts(w)
    BY DEF AloneInv, BookInv
  <2>3. pc'[w] = "part" => task[w].i # 0
    BY <2>1, <2>2 DEF HandlerFacts
  <2>4. BookFacts(w)'
    BY <1>1, <2>1, <2>2, <2>3 DEF BookFacts
  <2> QED BY <1>2, <2>4, BookIs
<1> QED BY <1>3, <1>4

(* A row is settled with the part it has, or with what was taken of it.    *)
LEMMA SettledWithin ==
  ASSUME IndInv, AloneInv, BookInv, NEW w \in Workers, pc[w] = "update",
         Stands(task[w].id)
  PROVE  Amount(PartOf(w)) <= Amount(row[task[w].id].part)
<1>1. /\ row[task[w].id].part \in Parts /\ task[w].upd \in Parts
  BY DEF IndInv, TypeOK, RowTable, RowType, Tasks, Stands
<1>2. task[w].upd # NoPart => Amount(task[w].upd) <= Amount(row[task[w].id].part)
  BY DEF BookInv, BookFacts, OrderLabels, Labels
<1>3. Amount([task[w].upd EXCEPT !.emi = row[task[w].id].part.emi]) = Amount(task[w].upd)
  BY <1>1 DEF Parts, Amount
<1>4. Amount(row[task[w].id].part) \in Nat
  BY <1>1 DEF Parts, Money, Amount
<1> QED BY <1>2, <1>3, <1>4 DEF PartOf

LEMMA BookUpdate ==
  ASSUME OneHandler, IsFiniteSet(Pays), IndInv, IndInv', AloneInv, BookInv,
         NEW w \in Workers, UpdateTransaction(w)
  PROVE  BookInv'
<1> DEFINE t == task[w]
<1>1. /\ pc[w] = "update" /\ Updated(w) /\ price' = price
      /\ HandlerFacts(w) /\ BookFacts(w)
      /\ row \in RowTable /\ row' \in RowTable /\ price \in [Pays -> Money]
  BY UpdatedIs DEF AloneInv, BookInv, world, IndInv, TypeOK
<1>2. ASSUME NEW r \in RowIds
      PROVE  /\ HeldBy(row')[r] <= HeldBy(row)[r]
             /\ row'[r].status = "NONE" => row[r].status = "NONE"
  <2>1. /\ HeldBy(row)[r] \in Nat /\ HeldBy(row')[r] \in Nat
        /\ HeldBy(row)[r] = IF row[r].status \in Gone THEN 0 ELSE Amount(row[r].part)
        /\ HeldBy(row')[r] = IF row'[r].status \in Gone THEN 0 ELSE Amount(row'[r].part)
    BY <1>1, HeldIs
  <2>2. CASE row'[r] = row[r]
    BY <2>1, <2>2
  <2>3. CASE /\ r = t.id /\ Stands(r) /\ row'[r].status = t.res
             /\ row'[r].part = PartOf(w)
    <3>1. row'[r].status \notin Gone /\ row'[r].status # "NONE" /\ row[r].status \notin Gone
      BY <1>1, <2>3 DEF Updated, Tasks, Gone, Stands
    <3>2. Amount(PartOf(w)) <= Amount(row[r].part)
      BY <1>1, <2>3, SettledWithin
    <3> QED BY <2>1, <2>3, <3>1, <3>2
  <2> QED BY <2>2, <2>3, UpdatedRows
<1>3. Priced' /\ \A p \in Pays : Held(row', p) <= Held(row, p)
  BY <1>1, <1>2, PricedStays DEF BookInv
<1>4. CASE pc'[w] = "idle"
  BY <1>3, <1>4, BookEnds DEF OrderLabels
<1>5. CASE pc'[w] # "idle"
  <2>1. /\ task'[w] = t /\ pc'[w] \in {"part", "fullRead", "partRead", "bounceRead"}
        /\ pc'[w] = "part" => t.parts # {}
    BY <1>1, <1>5 DEF Updated
  <2>2. /\ t.i = 0 => t.parts = {}
        /\ IsFiniteSet(t.parts)
        /\ t.i > 0 => Held(row, t.id[1]) + Coming(t.parts) <= price[t.id[1]]
    BY <1>1 DEF HandlerFacts, BookFacts, OrderLabels, Labels
  <2>3. PICK p \in Pays : t.id[1] = p /\ t \in Tasks
    BY <1>1, FirstRow DEF OrderLabels, Labels
  <2>4. /\ Held(row', p) \in Nat /\ Held(row, p) \in Nat /\ Held(row', p) <= Held(row, p)
        /\ price[p] \in Nat
    BY <1>1, <1>3, HeldIs DEF Money
  <2>5. Coming(t.parts) \in Nat
    BY <2>2, <2>3, ComingIs DEF Tasks
  <2>6. t.i > 0 => Held(row', p) + Coming(t.parts) <= price'[p]
    BY <1>1, <2>2, <2>3, <2>4, <2>5
  <2>7. BookFacts(w)'
    BY <2>1, <2>2, <2>3, <2>6 DEF BookFacts
  <2> QED BY <1>3, <2>7, BookIs
<1> QED BY <1>4, <1>5

LEMMA BookJobs ==
  ASSUME OneHandler, IsFiniteSet(Pays), IndInv, IndInv', BookInv, NEW w \in Workers,
         DuesRead(w) \/ DuesWrite(w) \/ ArchiveRead(w) \/ ArchiveDelete(w) \/ Abort(w)
  PROVE  BookInv'
<1>1. pc \in [Workers -> Labels] /\ row \in RowTable /\ row' \in RowTable
  BY DEF IndInv, TypeOK
<1>2. price' = price /\ pc'[w] \in {"idle", "dues", "archive"}
  BY <1>1 DEF DuesRead, DuesWrite, ArchiveRead, ArchiveDelete, Abort, Goto, world
<1>3. CASE row' = row
  <2>1. Priced'
    BY <1>2, <1>3, PricedSame DEF BookInv
  <2> QED BY <1>2, <2>1, BookEnds DEF OrderLabels
<1>4. CASE ArchiveDelete(w)
  <2>1. row' = [r \in RowIds |-> IF r \in task[w].old
                                   THEN [row[r] EXCEPT !.status = "ARCHIVED"]
                                 ELSE row[r]]
    BY <1>4 DEF ArchiveDelete
  <2>2. ASSUME NEW r \in RowIds
        PROVE  /\ HeldBy(row')[r] <= HeldBy(row)[r]
               /\ row'[r].status = "NONE" => row[r].status = "NONE"
    <3>1. /\ HeldBy(row)[r] \in Nat
          /\ HeldBy(row)[r] = IF row[r].status \in Gone THEN 0 ELSE Amount(row[r].part)
          /\ HeldBy(row')[r] = IF row'[r].status \in Gone THEN 0 ELSE Amount(row'[r].part)
      BY <1>1, HeldIs
    <3>2. CASE r \in task[w].old
      <4>1. row'[r].status = "ARCHIVED"
        BY <1>1, <2>1, <3>2 DEF RowTable, RowType
      <4> QED BY <3>1, <4>1 DEF Gone
    <3>3. CASE r \notin task[w].old
      BY <2>1, <3>1, <3>3
    <3> QED BY <3>2, <3>3
  <2>3. Priced'
    BY <1>2, <2>2, PricedStays DEF BookInv
  <2> QED BY <1>2, <2>3, BookEnds DEF OrderLabels
<1> QED BY <1>3, <1>4 DEF DuesRead, DuesWrite, ArchiveRead, Abort, db

(* One part moves from what is coming into a row.                          *)
LEMMA PartIsBooked ==
  ASSUME OneHandler, IsFiniteSet(Pays), IndInv, IndInv', BookInv,
         NEW w \in Workers, pc[w] = "part",
         NEW p \in Pays, NEW i \in Nat, NEW part \in task[w].parts, Parted(w, p, i, part)
  PROVE  /\ IsFiniteSet(task[w].parts) /\ Coming(task[w].parts \ {part}) \in Nat
         /\ Held(row', p) + Coming(task[w].parts \ {part}) <= price[p]
<1> DEFINE t == task[w]
           id == <<p, i>>
           rest == Coming(t.parts \ {part})
           new == [row[t.id] EXCEPT !.status = IF part.extra > 0 THEN "COMPLETED"
                                               ELSE "INITIALIZED",
                                    !.type = "PARTPAY", !.part = part]
<1>1. /\ row \in RowTable /\ row' \in RowTable /\ price \in [Pays -> Money]
      /\ t \in Tasks /\ t.id[1] = p /\ i = t.i + 1 /\ t.i \in Nat
      /\ t.id = <<p, IF t.i = 0 THEN 1 ELSE t.i>>
      /\ \A r \in RowIds : r # id => row'[r] = row[r]
      /\ id \in RowIds => /\ t.id \in RowIds /\ row[t.id] \in RowType
                          /\ row'[id] = IF i = 1 /\ row[id].status \in Gone
                                          THEN row[id] ELSE new
      /\ i = 1 \/ row[id].status \in Gone
  BY DEF Parted, IndInv, TypeOK, Tasks
<1>2. /\ IsFiniteSet(t.parts)
      /\ t.i = 0 => Stands(t.id) /\ Coming(t.parts) <= Amount(row[t.id].part)
      /\ t.i > 0 => Held(row, p) + Coming(t.parts) <= price[p]
  BY <1>1 DEF BookInv, BookFacts, OrderLabels, Labels
<1>3. /\ Coming(t.parts) \in Nat /\ rest \in Nat /\ Amount(part) \in Nat
      /\ Coming(t.parts) = Amount(part) + rest
  <2>1. t.parts \subseteq Parts
    BY <1>1 DEF Tasks
  <2> HIDE DEF t
  <2>2. /\ Coming(t.parts) \in Nat
        /\ \A x \in t.parts : /\ Amount(x) \in Nat
                              /\ Coming(t.parts) = Amount(x) + Coming(t.parts \ {x})
                              /\ Coming(t.parts \ {x}) \in Nat
    BY ONLY <1>2, <2>1, ComingIs
  <2>3. part \in t.parts
    BY DEF t
  <2> QED BY <2>2, <2>3
<1>4. /\ Held(row, p) \in Nat /\ Held(row', p) \in Nat /\ price[p] \in Nat
      /\ Held(row, p) <= price[p]
  BY <1>1, HeldIs DEF Money, BookInv, Priced
<1>5. row[t.id] \in RowType => new.status \notin Gone /\ new.part = part
  BY DEF RowType, Gone
<1> HIDE DEF rest, new
<1>6. CASE id \notin RowIds
  <2>1. t.i > 0
    <3>1. <<p, 1>> \in RowIds
      BY ConstantsAssumption DEF RowIds
    <3> QED BY <1>1, <1>6, <3>1
  <2>2. Held(row', p) <= Held(row, p)
    <3>1. \A r \in RowsOf(p) : HeldBy(row')[r] <= HeldBy(row)[r]
      <4>1. TAKE r \in RowsOf(p)
      <4>2. r \in RowIds /\ row'[r] = row[r]
        BY <1>1, <1>6 DEF RowsOf
      <4>3. HeldBy(row')[r] = HeldBy(row)[r] /\ HeldBy(row)[r] \in Nat
        BY <1>1, <4>2, HeldIs
      <4> QED BY <4>3
    <3> QED BY <1>1, <3>1, HeldShrinks
  <2>3. Held(row, p) + Coming(t.parts) <= price[p]
    BY <1>2, <2>1
  <2> QED BY <1>2, <1>3, <1>4, <2>2, <2>3 DEF rest
<1>7. CASE id \in RowIds
  <2>1. id \in RowsOf(p) /\ \A r \in RowsOf(p) : r # id => row'[r] = row[r]
    BY <1>1, <1>7 DEF RowsOf
  <2>2. Held(row', p) = Held(row, p) - HeldBy(row)[id] + HeldBy(row')[id]
    <3> HIDE DEF id
    <3> QED BY <1>1, <2>1, HeldChanges
  <2>3. /\ HeldBy(row)[id] = IF row[id].status \in Gone THEN 0 ELSE Amount(row[id].part)
        /\ HeldBy(row')[id] = IF row'[id].status \in Gone THEN 0 ELSE Amount(row'[id].part)
        /\ Amount(row[id].part) \in Nat
    BY <1>1, <1>7, HeldIs
  <2>4. CASE t.i = 0
    <3>1. t.id = id /\ row[id].status \notin Gone /\ Coming(t.parts) <= Amount(row[id].part)
      BY <1>1, <1>2, <2>4 DEF Stands
    <3>2. row'[id] = new
      BY <1>1, <1>7, <3>1
    <3>3. HeldBy(row)[id] = Amount(row[id].part) /\ HeldBy(row')[id] = Amount(part)
      BY <1>1, <1>5, <1>7, <2>3, <3>1, <3>2
    <3> HIDE DEF id
    <3> QED BY <1>2, <1>3, <1>4, <2>2, <2>3, <3>1, <3>3 DEF rest
  <2>5. CASE t.i # 0
    <3>1. i # 1 /\ t.i > 0
      BY <1>1, <2>5
    <3>2. row[id].status \in Gone /\ row'[id] = new
      BY <1>1, <1>7, <3>1
    <3>3. HeldBy(row)[id] = 0 /\ HeldBy(row')[id] = Amount(part)
      BY <1>1, <1>5, <1>7, <2>3, <3>2
    <3>4. Held(row, p) + Coming(t.parts) <= price[p]
      BY <1>2, <3>1
    <3> HIDE DEF id
    <3> QED BY <1>2, <1>3, <1>4, <2>2, <3>3, <3>4 DEF rest
  <2> QED BY <2>4, <2>5
<1> QED BY <1>6, <1>7

LEMMA BookSplitPart ==
  ASSUME OneHandler, IsFiniteSet(Pays), IndInv, IndInv', AloneInv, BookInv,
         NEW w \in Workers, SplitPart(w)
  PROVE  BookInv'
<1>1. /\ pc[w] = "part" /\ price' = price /\ HandlerFacts(w)
      /\ row \in RowTable /\ row' \in RowTable /\ price \in [Pays -> Money]
  BY PartedIs DEF AloneInv, world, IndInv, TypeOK
<1>2. CASE row' = row /\ pc'[w] = "idle"
  <2>1. Priced'
    BY <1>1, <1>2, PricedSame DEF BookInv
  <2> QED BY <1>2, <2>1, BookEnds DEF OrderLabels
<1>3. ASSUME NEW p \in Pays, NEW i \in Nat, NEW part \in task[w].parts,
             Parted(w, p, i, part)
      PROVE  BookInv'
  <2> DEFINE t == task[w]
             id == <<p, i>>
             new == [row[t.id] EXCEPT !.status = IF part.extra > 0 THEN "COMPLETED"
                                                 ELSE "INITIALIZED",
                                      !.type = "PARTPAY", !.part = part]
  <2>1. /\ IsFiniteSet(t.parts) /\ Coming(t.parts \ {part}) \in Nat
        /\ Held(row', p) + Coming(t.parts \ {part}) <= price[p]
    BY <1>1, <1>3, PartIsBooked
  <2>2. \A r \in RowIds : \/ row'[r] = row[r]
                          \/ r = id /\ row'[r].status # "NONE"
    <3>1. row[t.id] \in RowType => new.status # "NONE"
      BY DEF RowType
    <3>2. \A r \in RowIds : \/ row'[r] = row[r]
                            \/ r = id /\ row[t.id] \in RowType /\ row'[r] = new
      BY <1>3 DEF Parted
    <3> HIDE DEF new
    <3> QED BY <3>1, <3>2
  <2>3. Priced'
    <3>1. ASSUME NEW q \in Pays
          PROVE  Held(row', q) <= price[q] /\ (row'[<<q, 1>>].status = "NONE" => price[q] = 0)
      <4>1. Held(row, q) \in Nat /\ Held(row', q) \in Nat /\ price[q] \in Nat
        BY <1>1, HeldIs DEF Money
      <4>2. <<q, 1>> \in RowIds
        BY ConstantsAssumption DEF RowIds
      <4>3. Held(row, q) <= price[q] /\ (row[<<q, 1>>].status = "NONE" => price[q] = 0)
        BY DEF BookInv, Priced
      <4>4. CASE q = p
        BY <2>1, <2>2, <4>1, <4>2, <4>3, <4>4
      <4>5. CASE q # p
        <5>1. \A r \in RowsOf(q) : HeldBy(row')[r] <= HeldBy(row)[r]
          <6>1. TAKE r \in RowsOf(q)
          <6>2. r \in RowIds /\ r # id
            BY <4>5 DEF RowsOf
          <6>3. row'[r] = row[r]
            BY <2>2, <6>2
          <6>4. HeldBy(row')[r] = HeldBy(row)[r] /\ HeldBy(row)[r] \in Nat
            BY <1>1, <6>2, <6>3, HeldIs
          <6> QED BY <6>4
        <5>2. Held(row', q) <= Held(row, q)
          BY <1>1, <5>1, HeldShrinks
        <5> QED BY <2>2, <4>1, <4>2, <4>3, <5>2
      <4> QED BY <4>4, <4>5
    <3> QED BY <1>1, <3>1 DEF Priced
  <2>4. CASE pc'[w] = "idle"
    BY <2>3, <2>4, BookEnds DEF OrderLabels
  <2>5. CASE pc'[w] # "idle"
    <3>1. /\ pc'[w] = "update" /\ t \in Tasks
          /\ task'[w] = [t EXCEPT !.id = id, !.i = i, !.type = "PARTPAY",
                                  !.emi = part.emi, !.parts = @ \ {part}]
      BY <1>3, <2>5 DEF Parted
    <3>2. /\ task'[w].id = id /\ task'[w].parts = t.parts \ {part} /\ task'[w].upd = t.upd
      BY <3>1 DEF Tasks
    <3>3. t.upd = NoPart
      BY <1>1 DEF HandlerFacts, OrderLabels, Labels
    <3>4. IsFiniteSet(t.parts \ {part}) /\ id[1] = p
      BY <2>1, FS_Subset
    <3>5. BookFacts(w)'
      <4> HIDE DEF id
      <4> QED BY <1>1, <2>1, <3>1, <3>2, <3>3, <3>4 DEF BookFacts
    <3> QED BY <2>3, <3>5, BookIs
  <2> QED BY <2>4, <2>5
<1> QED BY <1>2, <1>3, PartedIs

(* BookInv is inductive, together with IndInv and AloneInv.                *)
LEMMA BookInductive ==
  ASSUME OneHandler, IsFiniteSet(Pays), IndInv, AloneInv, BookInv, [Next]_vars
  PROVE  BookInv'
<1>0. IndInv'
  BY Inductive
<1>1. CASE UNCHANGED vars
  BY <1>1, BookStands DEF vars
<1>2. ASSUME NEW p \in Pays, CreateOrder(p) \/ GatewayCapture(p) \/ GatewayFail(p)
      PROVE  BookInv'
  BY <1>0, <1>2, BookCreateOrder, BookStands DEF GatewayCapture, GatewayFail, db
<1>3. CASE DatePasses
  BY <1>3, BookStands DEF DatePasses, db
<1>4. ASSUME NEW w \in Workers, NEW p \in Pays,
             \/ Poll(w, p)
             \/ \E event \in {"captured", "failed"} : ManualWebhook(w, p, event)
             \/ SigndeskBatch(w, p)
      PROVE  BookInv'
  BY <1>4, BookEnters
<1>5. ASSUME NEW w \in Workers,
             DuesRead(w) \/ ArchiveRead(w) \/ Advance(w) \/ Abort(w)
      PROVE  BookInv'
  <2>1. CASE ResetPenalty(w)
    BY <2>1, BookResetPenalty
  <2>2. CASE Bifurcate(w)
    BY <2>2, BookBifurcate
  <2>3. CASE SplitPart(w)
    BY <1>0, <2>3, BookSplitPart
  <2>4. CASE UpdateTransaction(w)
    BY <1>0, <2>4, BookUpdate
  <2>5. CASE Follows(w)
    <3>1. price' = price
      BY <2>5 DEF Follows, BounceRead, BounceTrace, BounceWrite, PartRead, PartWrite,
                  FullRead, FullWrite, StatusRead, StatusWrite, RecalcRead, RecalcWrite,
                  CloseCheck, CloseTheLoan, ReadUser, GiveReferral, CountLoan, world
    <3> QED BY <2>5, <3>1, BookFollows
  <2>6. CASE DuesRead(w) \/ DuesWrite(w) \/ ArchiveRead(w) \/ ArchiveDelete(w) \/ Abort(w)
    BY <1>0, <2>6, BookJobs
  <2> QED BY <1>5, <2>1, <2>2, <2>3, <2>4, <2>5, <2>6 DEF Advance, Follows
<1> QED BY <1>1, <1>2, <1>3, <1>4, <1>5 DEF Next

(* The rows of each order stay within its price, together with the parts   *)
(* that its handler has yet to write.                                      *)
THEOREM BookInvariance ==
  ASSUME OneHandler, IsFiniteSet(Pays)
  PROVE  Spec => [](IndInv /\ AloneInv /\ BookInv)
<1>1. Init => IndInv /\ AloneInv /\ BookInv
  BY InitInv, AloneInit, BookInit
<1>2. (IndInv /\ AloneInv /\ BookInv) /\ [Next]_vars => (IndInv /\ AloneInv /\ BookInv)'
  BY Inductive, AloneInductive, BookInductive
<1> QED BY <1>1, <1>2, PTL DEF Spec

(* So the COMPLETED rows of an order never add up to more than its price,  *)
(* whatever was split off it and whichever handler died half way.          *)
THEOREM BooksWhatWasPaid ==
  ASSUME OneHandler, IsFiniteSet(Pays)
  PROVE  Spec => []NeverOverbooked
<1>1. IndInv /\ BookInv => NeverOverbooked
  <2> SUFFICES ASSUME IndInv, BookInv, NEW p \in Pays
               PROVE  SumOf(RowsOf(p) \intersect Completed) <= price[p]
    BY DEF NeverOverbooked
  <2> DEFINE T == RowsOf(p) \intersect Completed
             f == HeldBy(row)
             g == [r \in T |-> Amount(row[r].part)]
  <2>1. row \in RowTable /\ price[p] \in Nat
    BY DEF IndInv, TypeOK, Money
  <2>2. /\ T \in SUBSET RowsOf(p) /\ RowsOf(p) \in SUBSET RowIds /\ IsFiniteSet(RowsOf(p))
        /\ \A r \in RowsOf(p) : f[r] \in Nat
    BY <2>1, HeldIs
  <2>3. \A r \in T : g[r] \in Nat /\ g[r] <= f[r]
    <3>1. TAKE r \in T
    <3>2. r \in RowIds /\ row[r].status \notin Gone
      BY <2>2 DEF Completed, Gone
    <3>3. Amount(row[r].part) \in Nat /\ f[r] = Amount(row[r].part)
      BY <2>1, <3>2, HeldIs
    <3> HIDE DEF f
    <3> QED BY <3>3
  <2> HIDE DEF f, g
  <2>4. /\ SumFunctionOnSet(g, T) \in Nat /\ SumFunctionOnSet(f, RowsOf(p)) \in Nat
        /\ SumFunctionOnSet(g, T) <= SumFunctionOnSet(f, RowsOf(p))
    BY <2>2, <2>3, SumShrinks
  <2>5. SumOf(T) = Positive(SumFunctionOnSet(g, T))
    BY DEF SumOf, Total, g
  <2>6. SumFunctionOnSet(f, RowsOf(p)) <= price[p]
    BY DEF BookInv, Priced, Held, f
  <2> QED BY <2>1, <2>4, <2>5, <2>6 DEF Positive
<1> QED BY <1>1, BookInvariance, PTL
=============================================================================
