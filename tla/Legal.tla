------------------------------- MODULE Legal -------------------------------
(***************************************************************************)
(* The legal proceedings against the borrower of one overdue loan: the     *)
(* rows of LegalCollectionEntity, the loan's legalId and legalType, the    *)
(* full-payment debits that come before a notice, and the handlers of      *)
(* LegalService.                                                           *)
(*                                                                         *)
(* Every stage of a proceeding is a row of its own: a handler reads the    *)
(* current one, copies it, marks it as history and links the loan to the   *)
(* copy.  A worker is a handler in flight, cut at those awaits.            *)
(***************************************************************************)
EXTENDS Integers, FiniteSets

CONSTANTS
  Workers,    \* handlers that may be in flight at the same time
  MaxRows,    \* how many rows this instance has room for
  MaxDebits,  \* how many full-payment debits may be placed
  MaxAborts   \* how many handlers may die between two awaits

RowIds == 1 .. MaxRows
DebitIds == 1 .. MaxDebits

ASSUME LegalAssumption ==
  /\ MaxRows \in Nat
  /\ MaxDebits \in Nat
  /\ MaxAborts \in Nat

VARIABLES
  loan,    \* loanStatus, legalType, legalId (0: none), whether it has a followerId
  row,     \* LegalCollectionEntity
  debit,   \* FULLPAY auto debits of the loan in TransactionEntity
  stale,   \* those placed more than seven days ago
  trace,   \* kinds of disposal that have a SystemTrace row TYPE=3 or TYPE=4
  pc,      \* where each handler stands
  task,    \* its local variables
  calm,    \* so far no two handlers overlapped and none died
  aborts   \* handlers lost so far

vars == <<loan, row, debit, stale, trace, pc, task, calm, aborts>>

(* The types of a row, in the order of globals.ts.  A loan's legalType may *)
(* be AUTODEBIT as well: its proceeding waits for a full-payment debit.  A *)
(* debit was sent if the bank has it: its row then has a utr.              *)
Open == {"NOTICE", "TO_FILE", "IN_PROGRESS", "FILLED", "SUMMONS", "WARRENT", "ASSIGN"}
Over == {"WITHDRAWAL", "DISPOSAL", "PAID"}
InCourt == {"FILLED", "SUMMONS", "WARRENT"}

NoRow == [type |-> "NONE", history |-> FALSE, numbered |-> FALSE, debit |-> 0]
NoDebit == [status |-> "NONE", sent |-> FALSE, noticed |-> FALSE]
NoTask == [job |-> "NONE", row |-> 0, new |-> 0, debit |-> 0, todo |-> {}]
Job(job, r, todo) == [job |-> job, row |-> r, new |-> 0, debit |-> 0, todo |-> todo]
NoticeJob(d) == [job |-> "notice", row |-> 0, new |-> 0, debit |-> d, todo |-> {}]

-----------------------------------------------------------------------------
(* What the queries find. *)

Rows == {r \in RowIds : row[r].type # "NONE"}
Current(T) == {r \in Rows : row[r].type \in T /\ ~row[r].history}
Newest(R) == {r \in R : \A s \in R : s <= r}
FreeRows == {r \in RowIds : \A s \in RowIds : s < r <=> s \in Rows}
FreeDebits ==
  {d \in DebitIds : /\ debit[d].status = "NONE"
                    /\ \A c \in DebitIds : c < d => debit[c].status # "NONE"}
Refused == {d \in DebitIds : debit[d].status = "FAILED" /\ ~debit[d].noticed}
Unanswered == {d \in DebitIds : debit[d].status = "INITIALIZED"}
Pending == {d \in Unanswered : debit[d].sent}
Active == loan.status = "Active"

(* The stage that each job moves a row of a stage to. *)
Target(job, type) ==
  CASE job = "toFile"   -> "TO_FILE"
    [] job = "progress" -> "IN_PROGRESS"
    [] job = "file"     -> "FILLED"
    [] job = "summons"  -> "SUMMONS"
    [] job = "warrant"  -> "WARRENT"
    [] job = "withdraw" -> "WITHDRAWAL"
    [] job = "assign"   -> "ASSIGN"
    [] job = "close"    -> IF type \in InCourt THEN "WITHDRAWAL" ELSE "PAID"
    [] OTHER            -> "DISPOSAL"

(* These jobs hand otherDetails to the new row, as read and not history;   *)
(* the others let createRowDataWithCopy copy what the old row holds now.   *)
Given == {"summons", "warrant", "disposePaid"}

-----------------------------------------------------------------------------
(* Handlers *)

Idle(w) == pc[w] = "idle"
Quiet == \A w \in Workers : Idle(w)

Goto(w, l) == pc' = [pc EXCEPT ![w] = l]
Done(w) == Goto(w, "idle") /\ task' = [task EXCEPT ![w] = NoTask]

(* A request arrives. *)
Start(w) ==
  /\ Idle(w)
  /\ calm' = (calm /\ Quiet)
  /\ UNCHANGED <<stale, aborts>>
Step(w, l) ==
  /\ pc[w] = l
  /\ UNCHANGED <<stale, calm, aborts>>

(* Takes the rows of todo one after the other. *)
TakeNext(w, job, todo) ==
  IF todo = {}
    THEN Done(w)
    ELSE \E r \in todo :
           /\ Goto(w, "create")
           /\ task' = [task EXCEPT ![w] = Job(job, r, todo \ {r})]

(* A handler that moves rows begins: what it read decides. *)
Move(w, job, todo) ==
  /\ Start(w)
  /\ todo # {}
  /\ TakeNext(w, job, todo)
  /\ UNCHANGED <<loan, row, debit, trace>>

-----------------------------------------------------------------------------
(* createAndUpdateNewLegal: copy, mark the old row, link the loan. *)

Create(w) ==
  LET t == task[w]
  IN  /\ Step(w, "create")
      /\ \E n \in FreeRows :
           /\ row' = [row EXCEPT ![n] =
                [type |-> Target(t.job, row[t.row].type),
                 history |-> row[t.row].history /\ t.job \notin Given,
                 numbered |-> row[t.row].numbered \/ t.job \in {"summons", "warrant"},
                 debit |-> row[t.row].debit]]
           /\ task' = [task EXCEPT ![w].new = n]
      /\ Goto(w, "mark")
      /\ UNCHANGED <<loan, debit, trace>>

Mark(w) ==
  /\ Step(w, "mark")
  /\ row' = [row EXCEPT ![task[w].row].history = TRUE]
  /\ Goto(w, "link")
  /\ UNCHANGED <<loan, debit, trace, task>>

Link(w) ==
  LET t == task[w]
  IN  /\ Step(w, "link")
      /\ loan' = [loan EXCEPT !.at = t.new, !.type = row[t.new].type]
      /\ IF t.job = "notice"
           THEN Goto(w, "remark") /\ UNCHANGED task
           ELSE TakeNext(w, t.job, t.todo)
      /\ UNCHANGED <<row, debit, trace>>

-----------------------------------------------------------------------------
(* The stages of a proceeding *)

MoveToCaseToBeFile(w) ==
  /\ Active
  /\ Move(w, "toFile", Current({"NOTICE"}))

MoveToProgress(w) ==
  /\ Active
  /\ \E R \in SUBSET Current({"TO_FILE"}) : Move(w, "progress", R)

FillingInProgress(w) ==
  /\ Active
  /\ \E r \in Current({"IN_PROGRESS"}) : Move(w, "file", {r})

UploadSummons(w) ==
  /\ Active
  /\ \E r \in Current({"FILLED", "SUMMONS"}) : Move(w, "summons", {r})
UploadWarrent(w) ==
  /\ Active
  /\ \E r \in Current({"SUMMONS", "WARRENT"}) : Move(w, "warrant", {r})

CaseWithdrawal_AnyStage(w) ==    \* mutant: the filter on the type forgotten
  \E r \in Current(InCourt) : Move(w, "withdraw", {r})
CaseWithdrawal(w) ==
  \E r \in Current({"WARRENT"}) : Move(w, "withdraw", {r})

(* funAssingedToCollection: the loan is marked before the row is there, if *)
(* calcuLoanRepayment found less than 5000 left, and something left.       *)
AssignToCollection(w) ==
  /\ \E r \in Current({"NOTICE", "TO_FILE", "IN_PROGRESS"}) :
       task' = [task EXCEPT ![w] = Job("assign", r, {})]
  /\ Start(w)
  /\ Goto(w, "assign")
  /\ UNCHANGED <<loan, row, debit, trace>>
CalcuLoanRepayment(w) ==
  /\ Step(w, "assign")
  /\ \/ Active /\ Goto(w, "owing") /\ UNCHANGED task
     \/ Done(w)
  /\ UNCHANGED <<loan, row, debit, trace>>
AssignLoan(w) ==
  /\ Step(w, "owing")
  /\ loan' = [loan EXCEPT !.type = "ASSIGN"]
  /\ Goto(w, "create")
  /\ UNCHANGED <<row, debit, trace, task>>

-----------------------------------------------------------------------------
(* Closing: legalCloseLegalAndCloseLoan, called by closeTheLoan of the     *)
(* transaction service once the loan is Complete, and by an endpoint.      *)

Closable_NotInCourt == Current(Open \ InCourt)    \* mutant: court cases forgotten
Closable == Current(Open)

CloseTheLoan(w) ==
  /\ Active
  /\ Start(w)
  /\ loan' = [loan EXCEPT !.status = "Complete"]
  /\ Goto(w, "close")
  /\ UNCHANGED <<row, debit, trace, task>>
CloseRead(w) ==
  /\ Step(w, "close")
  /\ TakeNext(w, "close", IF loan.followed THEN Closable ELSE {})
  /\ UNCHANGED <<loan, row, debit, trace>>
CloseLegal(w) ==
  /\ ~Active
  /\ loan.followed
  /\ Move(w, "close", Closable)

-----------------------------------------------------------------------------
(* Disposal: funCaseDisposal, and caseDisposalViaFile with its trace row.  *)

CaseDisposal(w) ==
  \E r \in Current({"WITHDRAWAL"}) : Move(w, "dispose", {r})

Disposable(job) ==
  IF job = "dispose"
    THEN Newest(Current({"WITHDRAWAL"}))
    ELSE {r \in Newest(Rows) : ~Active /\ \A s \in Rows : row[s].type # "DISPOSAL"}

DisposalViaFile(w) ==
  /\ Start(w)
  /\ \E job \in {"dispose", "disposePaid"} : \E r \in Disposable(job) :
       task' = [task EXCEPT ![w] = Job(job, r, {})]
  /\ Goto(w, "trace")
  /\ UNCHANGED <<loan, row, debit, trace>>
TraceDisposal(w) ==
  LET job == task[w].job
  IN  /\ Step(w, "trace")
      /\ IF job \in trace
           THEN Done(w)
           ELSE Goto(w, "dispose") /\ UNCHANGED task
      /\ trace' = trace \union {job}
      /\ UNCHANGED <<loan, row, debit>>
DisposalRead(w) ==
  LET t == task[w]
      found == IF t.job = "dispose"
                 THEN t.row \in Current({"WITHDRAWAL"})
                 ELSE row[t.row].type \in InCourt \union {"WITHDRAWAL", "PAID", "ASSIGN"}
  IN  /\ Step(w, "dispose")
      /\ TakeNext(w, t.job, IF found THEN {t.row} ELSE {})
      /\ UNCHANGED <<loan, row, debit, trace>>

-----------------------------------------------------------------------------
(* Legal notices and the debits before them *)

(* getDefaultLoanData and getDelayFullPayLoan: the loan is read, then its  *)
(* newest refused debit.  One that the bank refused leads to a notice, one *)
(* that was never sent, or none, to a debit.  legalType keeps a loan from  *)
(* coming back.                                                            *)
Eligible == Active /\ loan.type = "NONE"

CreateLegalNotice(w) ==
  /\ Eligible
  /\ Start(w)
  /\ Goto(w, "debits")
  /\ UNCHANGED <<loan, row, debit, trace, task>>
NoticeAgain(w) ==
  /\ Step(w, "read")
  /\ IF Eligible THEN Goto(w, "debits") /\ UNCHANGED task ELSE Done(w)
  /\ UNCHANGED <<loan, row, debit, trace>>
ReadDebits(w) ==
  /\ Step(w, "debits")
  /\ \/ \E d \in Newest(Refused) :
          /\ debit[d].sent
          /\ Goto(w, "notice")
          /\ task' = [task EXCEPT ![w] = NoticeJob(d)]
     \/ /\ \A d \in Newest(Refused) : ~debit[d].sent
        /\ Goto(w, "check")
        /\ UNCHANGED task
  /\ UNCHANGED <<loan, row, debit, trace>>

(* createLegalPdf, updateLegalToLoan (as Link) and                         *)
(* updateLegalProcessTransaction.  Without a document there is no notice.  *)
CreateNotice(w) ==
  /\ Step(w, "notice")
  /\ \/ /\ \E n \in FreeRows :
             /\ row' = [row EXCEPT ![n] =
                   [type |-> "NOTICE", history |-> FALSE, numbered |-> FALSE,
                    debit |-> task[w].debit]]
             /\ task' = [task EXCEPT ![w].new = n]
        /\ Goto(w, "link")
     \/ Done(w) /\ UNCHANGED row
  /\ UNCHANGED <<loan, debit, trace>>
RemarkDebit(w) ==
  /\ Step(w, "remark")
  /\ debit' = [debit EXCEPT ![task[w].debit].noticed = TRUE]
  /\ Done(w)
  /\ UNCHANGED <<loan, row, trace>>

(* placeRemainingAutoDebit.  The cool-off may end it; a debit that is not  *)
(* answered counts for seven days.                                         *)
CheckDebit(w) ==
  /\ Step(w, "check")
  /\ \/ Unanswered \subseteq stale /\ Goto(w, "place") /\ UNCHANGED task
     \/ Done(w)
  /\ UNCHANGED <<loan, row, debit, trace>>

(* createPaymentOrder writes the row and asks the gateway, which takes the *)
(* debit, or refuses it at once (an error with Razorpay and none with the  *)
(* others), or the request fails, with its row written or without.         *)
PlaceDebit(w) ==
  /\ Step(w, "place")
  /\ \/ /\ Active
        /\ \E d \in FreeDebits, status \in {"INITIALIZED", "FAILED"}, sent \in BOOLEAN :
             /\ sent => status = "INITIALIZED"
             /\ debit' = [debit EXCEPT ![d].status = status, ![d].sent = sent]
             /\ \/ /\ sent \/ status = "FAILED"
                   /\ Goto(w, "placed")
                   /\ UNCHANGED task
                \/ ~sent /\ Done(w)
     \/ Done(w) /\ UNCHANGED debit
  /\ UNCHANGED <<loan, row, trace>>
DebitPlaced_Status(w) ==    \* mutant: the debit's status for the loan's type
  /\ Step(w, "placed")
  /\ loan' = [loan EXCEPT !.type = "INITIALIZED"]
  /\ IF task[w].job = "retire" THEN Goto(w, "retire") /\ UNCHANGED task ELSE Done(w)
  /\ UNCHANGED <<row, debit, trace>>
DebitPlaced(w) ==
  /\ Step(w, "placed")
  /\ loan' = [loan EXCEPT !.type = "AUTODEBIT"]
  /\ IF task[w].job = "retire" THEN Goto(w, "retire") /\ UNCHANGED task ELSE Done(w)
  /\ UNCHANGED <<row, debit, trace>>

(* funPlaceAutodebitAfterCase: a case that was not begun for 30 days gets  *)
(* another debit; its row becomes history and nothing takes its place.     *)
PlaceAutodebitAfterCase(w) ==
  /\ Active
  /\ Start(w)
  /\ \E r \in Current({"TO_FILE"}) :
       task' = [task EXCEPT ![w] = Job("retire", r, {})]
  /\ Goto(w, "check")
  /\ UNCHANGED <<loan, row, debit, trace>>
RetireRow_Kept(w) ==    \* mutant: the row stays current
  /\ Step(w, "retire")
  /\ Done(w)
  /\ UNCHANGED <<loan, row, debit, trace>>
RetireRow(w) ==
  /\ Step(w, "retire")
  /\ row' = [row EXCEPT ![task[w].row].history = TRUE]
  /\ Done(w)
  /\ UNCHANGED <<loan, debit, trace>>

(* A handler of the transaction service that read the debit as INITIALIZED *)
(* learns that it failed, writes that and calls makeLegalEligible.         *)
ReportDebit(w) ==
  /\ Start(w)
  /\ \E d \in Pending : task' = [task EXCEPT ![w].debit = d]
  /\ Goto(w, "fail")
  /\ UNCHANGED <<loan, row, debit, trace>>
FailDebit(w) ==
  /\ Step(w, "fail")
  /\ debit' = [debit EXCEPT ![task[w].debit].status = "FAILED"]
  /\ Goto(w, "eligible")
  /\ UNCHANGED <<loan, row, trace, task>>
MakeLegalEligible(w) ==
  /\ Step(w, "eligible")
  /\ loan' = IF Active THEN [loan EXCEPT !.type = "NONE"] ELSE loan
  /\ Goto(w, "read")
  /\ task' = [task EXCEPT ![w] = NoTask]
  /\ UNCHANGED <<row, debit, trace>>

-----------------------------------------------------------------------------
(* removeDuplicateLegel: of every stage that has two current rows, all     *)
(* rows but the newest become history.  Summonses are numbered and left.   *)
Twins(r) == {s \in Rows : row[s].type = row[r].type}
Duplicates ==
  {r \in Rows : \E s, t \in Current({row[r].type}) :
                  /\ s # t
                  /\ ~row[s].numbered
                  /\ ~row[t].numbered}
RemoveDuplicates(w) ==
  /\ Start(w)
  /\ Duplicates # {}
  /\ task' = [task EXCEPT ![w].todo = {r \in Duplicates : r \notin Newest(Twins(r))}]
  /\ Goto(w, "dedupe")
  /\ UNCHANGED <<loan, row, debit, trace>>
MarkDuplicates(w) ==
  /\ Step(w, "dedupe")
  /\ row' = [r \in RowIds |-> [row[r] EXCEPT !.history = @ \/ r \in task[w].todo]]
  /\ Done(w)
  /\ UNCHANGED <<loan, debit, trace>>

(* Seven days go by since a debit that is not answered was placed. *)
SevenDaysPass ==
  /\ \E d \in Unanswered : stale' = stale \union {d}
  /\ UNCHANGED <<loan, row, debit, trace, pc, task, calm, aborts>>

(* The process restarts, or an error ends the handler: an exception, or no *)
(* advocate found where a notice is made or a case closed.                 *)
Abort(w) ==
  /\ ~Idle(w)
  /\ aborts < MaxAborts
  /\ aborts' = aborts + 1
  /\ calm' = FALSE
  /\ Done(w)
  /\ UNCHANGED <<loan, row, debit, stale, trace>>

-----------------------------------------------------------------------------
Init ==
  /\ loan \in [status : {"Active"}, type : {"NONE"}, at : {0}, followed : BOOLEAN]
  /\ row = [r \in RowIds |-> NoRow]
  /\ debit = [d \in DebitIds |-> NoDebit]
  /\ stale = {}
  /\ trace = {}
  /\ pc = [w \in Workers |-> "idle"]
  /\ task = [w \in Workers |-> NoTask]
  /\ calm = TRUE
  /\ aborts = 0

(* A request begins to be handled. *)
Handle(w) ==
  \/ MoveToCaseToBeFile(w) \/ MoveToProgress(w) \/ FillingInProgress(w)
  \/ UploadSummons(w) \/ UploadWarrent(w) \/ CaseWithdrawal(w)
  \/ AssignToCollection(w)
  \/ CloseTheLoan(w) \/ CloseLegal(w)
  \/ CaseDisposal(w) \/ DisposalViaFile(w)
  \/ CreateLegalNotice(w) \/ PlaceAutodebitAfterCase(w) \/ ReportDebit(w)
  \/ RemoveDuplicates(w)

(* A handler in flight goes on. *)
Continue(w) ==
  \/ Create(w) \/ Mark(w) \/ Link(w)
  \/ CalcuLoanRepayment(w) \/ AssignLoan(w) \/ CloseRead(w)
  \/ TraceDisposal(w) \/ DisposalRead(w)
  \/ NoticeAgain(w) \/ ReadDebits(w) \/ CreateNotice(w) \/ RemarkDebit(w)
  \/ CheckDebit(w) \/ PlaceDebit(w) \/ DebitPlaced(w) \/ RetireRow(w)
  \/ FailDebit(w) \/ MakeLegalEligible(w)
  \/ MarkDuplicates(w)

Next ==
  \/ \E w \in Workers : Handle(w) \/ Continue(w) \/ Abort(w)
  \/ SevenDaysPass

Spec == Init /\ [][Next]_vars
=============================================================================
