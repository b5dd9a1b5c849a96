-------------------------- MODULE RefundProperties --------------------------
(* What Refund is meant to guarantee. *)
EXTENDS Refund

Statuses == {"NONE", "INITIALIZED", "COMPLETED", "FAILED", "DELETED"}
Resps == {"NONE", "PAYMENT", "REFUND", "ERROR"}
Parts == [tran : Payments \union {NoTran}, amount : Nat]
RowType == [status : Statuses, emi : Emis \union {NoEmi}, amount : Nat,
            tran : Payments \union {NoTran}, after : RowIds \union {0},
            resp : Resps]
TaskType == [emi : Emis \union {NoEmi}, total : Int, amount : Nat,
             billed : SUBSET Emis, after : RowIds \union {0},
             parts : Seq(Parts), i : Nat, row : RowIds \union {0},
             answer : {"PENDING", "PAID", "REJECTED", "LOST"},
             todo : SUBSET RowIds]
Places == {"idle", "paid", "named", "emis", "rows", "transactions", "trace",
           "row", "gateway", "save", "ask", "settle", "delete"}

(* Every variable has its type. *)
TypeOK ==
  /\ paid \subseteq Payments
  /\ due \subseteq Emis
  /\ row \in [RowIds -> RowType]
  /\ trace \subseteq Emis \union {NoEmi}
  /\ gw \in [RowIds -> {"NONE", "PENDING", "PAID", "REJECTED"}]
  /\ pc \in [Workers -> Places]
  /\ task \in [Workers -> TaskType]
  /\ losses \in 0 .. MaxLosses
  /\ aborts \in 0 .. MaxAborts

(* However handlers overlap, die or lose an answer, a gateway is asked at   *)
(* most once to refund something for an instalment: the trace row T7 comes  *)
(* first and is never removed, not even when a failed refund is deleted and *)
(* placed again, nor between the parts of one refund.                       *)
Asked == {r \in RowIds : gw[r] # "NONE"}
OneRefundPerEmi ==
  \A r, s \in Asked : row[r].emi = row[s].emi => r = s

(* What is sent back never exceeds what the loan paid beyond the bill that  *)
(* the handler had read, counting all that the gateways have paid or will.  *)
(* It relies on REFUND rows being counted before their gateway answers, and *)
(* on nobody else placing a refund meanwhile.                               *)
NeverOverRefunded ==
  [][\A w \in Workers :
       pc[w] = "gateway" /\ Live' # Live =>
         Total(Amount, Live') <=
           Total(LAMBDA p : PayAmount[p], paid) - Bill(task[w].billed)]_vars

(* prePareRefundAmount hands out exactly the excess, never more from a      *)
(* payment than it brought, each payment once, and an ICICI_UPI payment     *)
(* only if no other payment covers the excess alone (RPC 1.1.0).            *)
AllocationSound ==
  [][\A w \in Workers :
       pc[w] = "transactions" /\ pc'[w] = "trace" =>
         LET parts == task'[w].parts
             used == {i \in DOMAIN parts : parts[i].amount > 0}
             sources == {parts[i].tran : i \in used} \ {NoTran}
         IN  /\ Total(LAMBDA i : parts[i].amount, used) = task[w].amount
             /\ \A i, j \in used : parts[i].tran = parts[j].tran => i = j
             /\ \A i \in used : parts[i].tran # NoTran =>
                                  parts[i].amount <= PayAmount[parts[i].tran]
             /\ (\E p \in sources : PaySource[p] = "ICICI_UPI") =>
                  ~\E q \in paid : /\ PaySource[q] = "RAZORPAY"
                                   /\ PayAmount[q] >= task[w].amount]_vars

(* A COMPLETED row was paid by the gateway, a FAILED one was not, unless an *)
(* answer got lost: what a handler was told stays true until it writes it.  *)
BooksAreTrue ==
  \A r \in RowIds :
    /\ row[r].status = "COMPLETED" => gw[r] = "PAID"
    /\ row[r].status = "FAILED" /\ losses = 0 => r \notin Live

(* As long as no answer is lost, money that is on its way back always has   *)
(* its row: reInitializeRefund deletes by id what it has checked before.    *)
MoneyHasRow ==
  losses = 0 => \A r \in Live : row[r].status \in {"INITIALIZED", "COMPLETED"}

(* The inductive invariant behind these: a row has its trace row, and is    *)
(* the only one of its instalment; whoever creates it is alone in doing so, *)
(* and alone with it until its gateway is asked.                            *)
Exists(r) == row[r].status # "NONE"
Busy == {"gateway", "save", "settle", "delete"}
RowsTraced == \A r \in RowIds : Exists(r) => row[r].emi \in trace
OneRowPerEmi ==
  \A r, s \in RowIds : Exists(r) /\ Exists(s) /\ row[r].emi = row[s].emi => r = s
TracerIsAlone ==
  \A w \in Workers :
    pc[w] = "row" =>
      /\ task[w].i \in DOMAIN task[w].parts
      /\ task[w].emi \in trace
      /\ \A r \in RowIds : Exists(r) => row[r].emi # task[w].emi
      /\ \A v \in Workers :
           pc[v] = "row" /\ task[v].emi = task[w].emi => v = w
AskedExist == \A r \in Asked : Exists(r)
BusyOnRow ==
  \A w \in Workers :
    pc[w] \in Busy => task[w].row \in RowIds /\ Exists(task[w].row)
CallerIsAlone ==
  \A w \in Workers :
    pc[w] = "gateway" =>
      /\ row[task[w].row].status = "INITIALIZED"
      /\ gw[task[w].row] = "NONE"
      /\ \A v \in Workers :
           pc[v] \in Busy /\ task[v].row = task[w].row => v = w
AnswersAreTrue ==
  \A w \in Workers :
    pc[w] \in {"save", "settle"} =>
      LET answer == task[w].answer
          r == task[w].row
      IN  /\ answer \in {"PAID", "REJECTED"} => gw[r] = answer
          /\ answer = "PENDING" => gw[r] # "NONE"
          /\ answer = "LOST" => pc[w] = "save" /\ losses > 0
DeletedIsUnpaid ==
  \A w \in Workers :
    pc[w] = "delete" /\ losses = 0 => task[w].row \notin Live
RefundInv ==
  /\ TypeOK
  /\ RowsTraced
  /\ OneRowPerEmi
  /\ TracerIsAlone
  /\ AskedExist
  /\ BusyOnRow
  /\ CallerIsAlone
  /\ AnswersAreTrue
  /\ DeletedIsUnpaid
  /\ BooksAreTrue
  /\ MoneyHasRow

(* Each instalment's refund, as RefundOnce sees it. *)
RefundOf(e) ==
  LET asked == {r \in Asked : row[r].emi = e}
  IN  IF asked = {} THEN [state |-> "NONE", amount |-> 0]
      ELSE LET r == CHOOSE r \in asked : TRUE
           IN  [state |-> gw[r], amount |-> row[r].amount]
Abstract == INSTANCE RefundOnce
              WITH refund <- [e \in Emis |-> RefundOf(e)]

(* Seen from the gateways, the handlers implement RefundOnce. *)
ImplementsRefundOnce == Abstract!Spec

(* A refund that the gateway has decided, and can be asked about, does not  *)
(* stay INITIALIZED: it would block every further refund of the loan.       *)
PendingSettles ==
  \A r \in RowIds :
    (/\ row[r].status = "INITIALIZED"
     /\ CanAsk(r)
     /\ gw[r] \in {"PAID", "REJECTED"}) ~> row[r].status # "INITIALIZED"
=============================================================================
