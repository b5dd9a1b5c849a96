----------------------------- MODULE LegalProofs -----------------------------
(***************************************************************************)
(* Proofs about Legal for any number of handlers, rows and debits: the     *)
(* type invariant, and that no interleaving of handlers takes a            *)
(* proceeding to a stage without what must come before it.                 *)
(***************************************************************************)
EXTENDS LegalProperties, TLAPS

-----------------------------------------------------------------------------
(* The inductive invariant.  The type of a row never changes, and a loan   *)
(* that is Complete stays so: what a handler has read of these is still    *)
(* true when it writes.                                                    *)

Source(job) ==
  CASE job = "toFile"   -> {"NOTICE"}
    [] job = "progress" -> {"TO_FILE"}
    [] job = "file"     -> {"IN_PROGRESS"}
    [] job = "summons"  -> {"FILLED", "SUMMONS"}
    [] job = "warrant"  -> {"SUMMONS", "WARRENT"}
    [] job = "withdraw" -> {"WARRENT"}
    [] job = "assign"   -> {"NOTICE", "TO_FILE", "IN_PROGRESS"}
    [] job = "close"    -> Open
    [] job = "dispose"  -> {"WITHDRAWAL"}
    [] OTHER            -> Types

Moves == {"toFile", "progress", "file", "summons", "warrant", "withdraw", "assign",
          "close", "dispose", "disposePaid"}

MayMove(job, r) ==
  /\ job \in Moves
  /\ r \in RowIds
  /\ row[r].type \in Source(job)
  /\ job \in {"close", "disposePaid"} => ~Active

HandlerOK(w) ==
  LET t == task[w]
  IN  /\ pc[w] = "create" => \A r \in t.todo \union {t.row} : MayMove(t.job, r)
      /\ pc[w] = "mark" => t.job # "notice"
      /\ pc[w] \in {"mark", "link"} =>
           /\ t.new \in Rows
           /\ t.job # "notice" => \A r \in t.todo : MayMove(t.job, r)
      /\ pc[w] \in {"assign", "owing"} =>
           t.job = "assign" /\ t.todo = {} /\ MayMove(t.job, t.row)
      /\ pc[w] = "close" => ~Active
      /\ pc[w] \in {"trace", "dispose"} =>
           t.job \in {"dispose", "disposePaid"} /\ MayMove(t.job, t.row)
      /\ pc[w] = "notice" => /\ t.job = "notice"
                             /\ t.debit \in DebitIds
                             /\ debit[t.debit].status = "FAILED"
                             /\ debit[t.debit].sent

HandlersOK == \A w \in Workers : HandlerOK(w)

LegalInv == TypeOK /\ HandlersOK /\ CaseByTheBook

(* What no step takes back. *)
Grows ==
  /\ \A r \in RowIds : row[r].type # "NONE" =>
       row'[r].type = row[r].type /\ row'[r].debit = row[r].debit
  /\ ~Active => ~Active'
  /\ \A d \in DebitIds : debit[d].status = "FAILED" /\ debit[d].sent =>
       debit'[d].status = "FAILED" /\ debit'[d].sent

SameStages ==
  \A r \in RowIds : row'[r].type = row[r].type /\ row'[r].debit = row[r].debit

Others(w) ==
  \A v \in Workers \ {w} : pc'[v] = pc[v] /\ task'[v] = task[v]

-----------------------------------------------------------------------------
(* What stays true while others work. *)

LEMMA SourceTypes ==
  ASSUME NEW job \in Moves
  PROVE  Source(job) \subseteq Types /\ "NONE" \notin Types
  BY DEF Source, Moves, Types, Open, Over

LEMMA MayMoveStays ==
  ASSUME Grows, NEW job, NEW r, MayMove(job, r)
  PROVE  MayMove(job, r)'
<1>1. row[r].type # "NONE"
  BY SourceTypes DEF MayMove
<1> QED BY <1>1 DEF MayMove, Grows

LEMMA HandlerStays ==
  ASSUME Grows, NEW w, pc'[w] = pc[w], task'[w] = task[w], HandlerOK(w)
  PROVE  HandlerOK(w)'
<1> PICK t : t = task[w]
  OBVIOUS
<1> PICK l : l = pc[w]
  OBVIOUS
<1>1. \A r : MayMove(t.job, r) => MayMove(t.job, r)'
  BY MayMoveStays
<1>2. t.new \in Rows => t.new \in Rows'
  BY DEF Grows, Rows
<1>3. t.debit \in DebitIds /\ debit[t.debit].status = "FAILED" /\ debit[t.debit].sent
        => debit'[t.debit].status = "FAILED" /\ debit'[t.debit].sent
  BY DEF Grows
<1>4. ~Active => ~Active'
  BY DEF Grows
<1>5. /\ l = "create" => \A r \in t.todo \union {t.row} : MayMove(t.job, r)'
      /\ l = "mark" => t.job # "notice"
      /\ l \in {"mark", "link"} =>
           /\ t.new \in Rows'
           /\ t.job # "notice" => \A r \in t.todo : MayMove(t.job, r)'
      /\ l \in {"assign", "owing"} =>
           t.job = "assign" /\ t.todo = {} /\ MayMove(t.job, t.row)'
      /\ l = "close" => ~Active'
      /\ l \in {"trace", "dispose"} =>
           t.job \in {"dispose", "disposePaid"} /\ MayMove(t.job, t.row)'
      /\ l = "notice" => /\ t.job = "notice"
                         /\ t.debit \in DebitIds
                         /\ debit'[t.debit].status = "FAILED"
                         /\ debit'[t.debit].sent
  BY <1>1, <1>2, <1>3, <1>4 DEF HandlerOK
<1> QED BY <1>5 DEF HandlerOK, MayMove

LEMMA GroundedStays ==
  ASSUME Grows, SameStages, CaseByTheBook
  PROVE  CaseByTheBook'
<1> SUFFICES ASSUME NEW r \in RowIds PROVE Grounded(r)'
  BY DEF CaseByTheBook
<1>1. \A T : After(r, T) => After(r, T)'
  BY DEF After, SameStages
<1>2. Grounded(r)
  BY DEF CaseByTheBook
<1> QED BY <1>1, <1>2 DEF Grounded, Grows, SameStages

LEMMA StepKeeps ==
  ASSUME LegalInv, Grows, SameStages, NEW w \in Workers, Others(w),
         TypeOK', HandlerOK(w)'
  PROVE  LegalInv'
<1>1. ASSUME NEW v \in Workers PROVE HandlerOK(v)'
  <2>1. CASE v = w
    BY <2>1
  <2>2. CASE v # w
    BY <2>2, HandlerStays DEF LegalInv, HandlersOK, Others
  <2> QED BY <2>1, <2>2
<1> QED BY <1>1, GroundedStays DEF LegalInv, HandlersOK

-----------------------------------------------------------------------------
(* The pieces that actions are made of. *)

Tasks == [job : Jobs \union {"NONE"}, row : 0 .. MaxRows, new : 0 .. MaxRows,
          debit : 0 .. MaxDebits, todo : SUBSET RowIds]

LEMMA InFlight ==
  ASSUME LegalInv, NEW w \in Workers
  PROVE  HandlerOK(w) /\ TypeOK /\ task[w] \in Tasks
  BY DEF LegalInv, HandlersOK, TypeOK, Tasks

LEMMA RowIdsBound == RowIds \subseteq 0 .. MaxRows /\ DebitIds \subseteq 0 .. MaxDebits
  BY LegalAssumption DEF RowIds, DebitIds

LEMMA JobTyped ==
  ASSUME NEW job \in Jobs, NEW r \in RowIds, NEW todo \in SUBSET RowIds
  PROVE  /\ Job(job, r, todo) \in Tasks
         /\ Job(job, r, todo).job = job
         /\ Job(job, r, todo).row = r
         /\ Job(job, r, todo).todo = todo
<1>1. r \in 0 .. MaxRows /\ 0 \in 0 .. MaxRows /\ 0 \in 0 .. MaxDebits
  BY LegalAssumption, RowIdsBound
<1> QED BY <1>1 DEF Job, Tasks

LEMMA NoTaskTyped == NoTask \in Tasks
  BY LegalAssumption DEF NoTask, Tasks

LEMMA GotoTyped ==
  ASSUME TypeOK, NEW w \in Workers, NEW l \in Labels, Goto(w, l)
  PROVE  /\ pc' \in [Workers -> Labels]
         /\ pc'[w] = l
         /\ \A v \in Workers \ {w} : pc'[v] = pc[v]
  BY DEF TypeOK, Goto

LEMMA TaskTyped ==
  ASSUME TypeOK, NEW w \in Workers, NEW t \in Tasks, task' = [task EXCEPT ![w] = t]
  PROVE  /\ task' \in [Workers -> Tasks]
         /\ task'[w] = t
         /\ \A v \in Workers \ {w} : task'[v] = task[v]
  BY DEF TypeOK, Tasks

LEMMA RestOK ==
  ASSUME NEW w, pc'[w] \in {"idle", "remark", "read", "debits", "check", "place",
                            "placed", "retire", "fail", "eligible", "dedupe"}
  PROVE  HandlerOK(w)'
  BY DEF HandlerOK

LEMMA DoneKeeps ==
  ASSUME TypeOK, NEW w \in Workers, Done(w)
  PROVE  /\ pc' \in [Workers -> Labels]
         /\ task' \in [Workers -> Tasks]
         /\ Others(w)
         /\ HandlerOK(w)'
<1>1. "idle" \in Labels
  BY DEF Labels
<1>2. /\ pc' \in [Workers -> Labels]
      /\ pc'[w] = "idle"
      /\ \A v \in Workers \ {w} : pc'[v] = pc[v]
  BY <1>1, GotoTyped DEF Done
<1>3. /\ task' \in [Workers -> Tasks]
      /\ \A v \in Workers \ {w} : task'[v] = task[v]
  BY NoTaskTyped, TaskTyped DEF Done
<1>4. HandlerOK(w)'
  BY <1>2, RestOK
<1> QED BY <1>2, <1>3, <1>4 DEF Others

LEMMA TakeNextKeeps ==
  ASSUME TypeOK, NEW w \in Workers, NEW job \in Moves, NEW todo \in SUBSET RowIds,
         \A r \in todo : MayMove(job, r)', TakeNext(w, job, todo)
  PROVE  /\ pc' \in [Workers -> Labels]
         /\ task' \in [Workers -> Tasks]
         /\ Others(w)
         /\ HandlerOK(w)'
<1>1. CASE todo = {}
  BY <1>1, DoneKeeps DEF TakeNext
<1>2. CASE todo # {}
  <2>1. PICK r \in todo :
          /\ Goto(w, "create")
          /\ task' = [task EXCEPT ![w] = Job(job, r, todo \ {r})]
    BY <1>2 DEF TakeNext
  <2>2. PICK t : t = Job(job, r, todo \ {r})
    OBVIOUS
  <2>3. t \in Tasks /\ t.job = job /\ t.row = r /\ t.todo = todo \ {r}
    BY <2>2, JobTyped DEF Moves, Jobs
  <2>4. /\ task' \in [Workers -> Tasks]
        /\ task'[w] = t
        /\ \A v \in Workers \ {w} : task'[v] = task[v]
    BY <2>1, <2>2, <2>3, TaskTyped
  <2>5. /\ pc' \in [Workers -> Labels]
        /\ pc'[w] = "create"
        /\ \A v \in Workers \ {w} : pc'[v] = pc[v]
    BY <2>1, GotoTyped DEF Labels
  <2>6. HandlerOK(w)'
    BY <2>3, <2>4, <2>5 DEF HandlerOK, MayMove
  <2> QED BY <2>4, <2>5, <2>6 DEF Others
<1> QED BY <1>1, <1>2

LEMMA RowsStay ==
  ASSUME UNCHANGED <<loan, row, debit>>
  PROVE  Grows /\ SameStages
  BY DEF Grows, SameStages, Active

(* A step that leaves the tables as they are. *)
LEMMA QuietStepKeeps ==
  ASSUME LegalInv, NEW w \in Workers, UNCHANGED <<loan, row, debit, stale, trace, aborts>>,
         calm' \in BOOLEAN, Others(w), HandlerOK(w)',
         pc' \in [Workers -> Labels], task' \in [Workers -> Tasks]
  PROVE  LegalInv'
<1>1. TypeOK'
  BY DEF LegalInv, TypeOK, Tasks
<1> QED BY <1>1, RowsStay, StepKeeps

LEMMA CalmTyped ==
  ASSUME TypeOK, NEW w
  PROVE  /\ Start(w) => calm' \in BOOLEAN /\ aborts' = aborts /\ stale' = stale
         /\ \A l : Step(w, l) =>
              calm' \in BOOLEAN /\ calm' = calm /\ aborts' = aborts /\ stale' = stale
  BY DEF TypeOK, Start, Step, Quiet

LEMMA MoveKeeps ==
  ASSUME LegalInv, NEW w \in Workers, NEW job \in Moves, NEW todo \in SUBSET RowIds,
         \A r \in todo : MayMove(job, r), Move(w, job, todo)
  PROVE  LegalInv'
<1>1. Grows
  BY RowsStay DEF Move
<1>2. \A r \in todo : MayMove(job, r)'
  BY <1>1, MayMoveStays
<1>3. /\ pc' \in [Workers -> Labels]
      /\ task' \in [Workers -> Tasks]
      /\ Others(w)
      /\ HandlerOK(w)'
  BY <1>2, TakeNextKeeps DEF LegalInv, Move
<1> QED BY <1>3, QuietStepKeeps, CalmTyped DEF LegalInv, Move

-----------------------------------------------------------------------------
(* Requests *)

LEMMA CurrentMayMove ==
  ASSUME NEW job \in Moves \ {"close", "disposePaid"}, NEW r \in Current(Source(job))
  PROVE  MayMove(job, r)
  BY DEF Current, Rows, MayMove

LEMMA ClosableMayMove ==
  ASSUME ~Active, NEW r \in Closable
  PROVE  MayMove("close", r)
  BY DEF Closable, Current, Rows, MayMove, Moves, Source

LEMMA CurrentIsRow ==
  ASSUME NEW T
  PROVE  Current(T) \subseteq RowIds
  BY DEF Current, Rows

LEMMA MoveRequestsKeep ==
  ASSUME LegalInv, NEW w \in Workers,
         \/ MoveToCaseToBeFile(w) \/ MoveToProgress(w) \/ FillingInProgress(w)
         \/ UploadSummons(w) \/ UploadWarrent(w) \/ CaseWithdrawal(w)
         \/ CaseDisposal(w)
  PROVE  LegalInv'
<1>1. \A job \in Moves \ {"close", "disposePaid"} : \A R \in SUBSET Current(Source(job)) :
        Move(w, job, R) => LegalInv'
  BY CurrentMayMove, CurrentIsRow, MoveKeeps
<1>2. CASE MoveToCaseToBeFile(w)
  BY <1>1, <1>2 DEF MoveToCaseToBeFile, Moves, Source
<1>3. CASE MoveToProgress(w)
  BY <1>1, <1>3 DEF MoveToProgress, Moves, Source
<1>4. CASE FillingInProgress(w)
  BY <1>1, <1>4 DEF FillingInProgress, Moves, Source
<1>5. CASE UploadSummons(w)
  BY <1>1, <1>5 DEF UploadSummons, Moves, Source
<1>6. CASE UploadWarrent(w)
  BY <1>1, <1>6 DEF UploadWarrent, Moves, Source
<1>7. CASE CaseWithdrawal(w)
  BY <1>1, <1>7 DEF CaseWithdrawal, Moves, Source
<1>8. CASE CaseDisposal(w)
  BY <1>1, <1>8 DEF CaseDisposal, Moves, Source
<1> QED BY <1>2, <1>3, <1>4, <1>5, <1>6, <1>7, <1>8

LEMMA CloseLegalKeeps ==
  ASSUME LegalInv, NEW w \in Workers, CloseLegal(w)
  PROVE  LegalInv'
<1>1. \A r \in Closable : MayMove("close", r)
  BY ClosableMayMove DEF CloseLegal
<1>2. Closable \in SUBSET RowIds
  BY CurrentIsRow DEF Closable
<1>3. "close" \in Moves
  BY DEF Moves
<1> QED BY <1>1, <1>2, <1>3, MoveKeeps DEF CloseLegal

(* A handler goes on, or begins, with a task it was given. *)
LEMMA TaskStepKeeps ==
  ASSUME LegalInv, NEW w \in Workers, NEW l \in Labels, NEW t \in Tasks,
         UNCHANGED <<loan, row, debit, stale, trace, aborts>>, calm' \in BOOLEAN,
         Goto(w, l), task' = [task EXCEPT ![w] = t],
         pc'[w] = l /\ task'[w] = t => HandlerOK(w)'
  PROVE  LegalInv'
<1>1. /\ pc' \in [Workers -> Labels]
      /\ pc'[w] = l
      /\ \A v \in Workers \ {w} : pc'[v] = pc[v]
  BY GotoTyped DEF LegalInv
<1>2. /\ task' \in [Workers -> Tasks]
      /\ task'[w] = t
      /\ \A v \in Workers \ {w} : task'[v] = task[v]
  BY TaskTyped DEF LegalInv
<1>3. Others(w)
  BY <1>1, <1>2 DEF Others
<1> QED BY <1>1, <1>2, <1>3, QuietStepKeeps

LEMMA AssignToCollectionKeeps ==
  ASSUME LegalInv, NEW w \in Workers, AssignToCollection(w)
  PROVE  LegalInv'
<1>1. PICK r \in Current({"NOTICE", "TO_FILE", "IN_PROGRESS"}) :
        task' = [task EXCEPT ![w] = Job("assign", r, {})]
  BY DEF AssignToCollection
<1>2. PICK t : t = Job("assign", r, {})
  OBVIOUS
<1>3. r \in RowIds /\ MayMove("assign", r)
  BY CurrentIsRow, CurrentMayMove DEF Source, Moves
<1>4. t \in Tasks /\ t.job = "assign" /\ t.row = r /\ t.todo = {}
  BY <1>2, <1>3, JobTyped DEF Jobs
<1>5. MayMove("assign", r)'
  BY <1>3, RowsStay, MayMoveStays DEF AssignToCollection
<1>6. pc'[w] = "assign" /\ task'[w] = t => HandlerOK(w)'
  BY <1>4, <1>5 DEF HandlerOK, MayMove
<1> QED BY <1>1, <1>2, <1>4, <1>6, TaskStepKeeps, CalmTyped
        DEF AssignToCollection, Labels, LegalInv

LEMMA DisposalViaFileKeeps ==
  ASSUME LegalInv, NEW w \in Workers, DisposalViaFile(w)
  PROVE  LegalInv'
<1>1. PICK job \in {"dispose", "disposePaid"} : \E r \in Disposable(job) :
        task' = [task EXCEPT ![w] = Job(job, r, {})]
  BY DEF DisposalViaFile
<1>2. PICK r \in Disposable(job) :
        task' = [task EXCEPT ![w] = Job(job, r, {})]
  BY <1>1
<1>3. PICK t : t = Job(job, r, {})
  OBVIOUS
<1>4. r \in RowIds /\ MayMove(job, r)
  <2>1. CASE job = "dispose"
    <3>1. r \in Current({"WITHDRAWAL"})
      BY <2>1 DEF Disposable, Newest
    <3> QED BY <2>1, <3>1, CurrentIsRow, CurrentMayMove DEF Source, Moves
  <2>2. CASE job = "disposePaid"
    <3>1. r \in Rows /\ ~Active
      BY <2>2 DEF Disposable, Newest
    <3>2. r \in RowIds /\ row[r].type \in Types
      BY <3>1 DEF Rows, LegalInv, TypeOK
    <3> QED BY <2>2, <3>1, <3>2 DEF MayMove, Moves, Source
  <2> QED BY <2>1, <2>2
<1>5. t \in Tasks /\ t.job = job /\ t.row = r /\ t.todo = {}
  BY <1>3, <1>4, JobTyped DEF Jobs
<1>6. MayMove(job, r)'
  BY <1>4, RowsStay, MayMoveStays DEF DisposalViaFile
<1>7. pc'[w] = "trace" /\ task'[w] = t => HandlerOK(w)'
  BY <1>5, <1>6 DEF HandlerOK, MayMove
<1> QED BY <1>2, <1>3, <1>5, <1>7, TaskStepKeeps, CalmTyped
        DEF DisposalViaFile, Labels, LegalInv

LEMMA AfterCaseKeeps ==
  ASSUME LegalInv, NEW w \in Workers, PlaceAutodebitAfterCase(w)
  PROVE  LegalInv'
<1>1. PICK r \in Current({"TO_FILE"}) :
        task' = [task EXCEPT ![w] = Job("retire", r, {})]
  BY DEF PlaceAutodebitAfterCase
<1>2. PICK t : t = Job("retire", r, {})
  OBVIOUS
<1>3. t \in Tasks
  BY <1>2, CurrentIsRow, JobTyped DEF Jobs
<1>4. pc'[w] = "check" => HandlerOK(w)'
  BY RestOK
<1> QED BY <1>1, <1>2, <1>3, <1>4, TaskStepKeeps, CalmTyped
        DEF PlaceAutodebitAfterCase, Labels, LegalInv

(* A step to a label that promises nothing, or with the same task.         *)
LEMMA GotoKeeps ==
  ASSUME LegalInv, NEW w \in Workers, NEW l \in Labels, Goto(w, l), UNCHANGED task
  PROVE  /\ pc' \in [Workers -> Labels]
         /\ task' \in [Workers -> Tasks]
         /\ pc'[w] = l
         /\ Others(w)
  BY GotoTyped DEF LegalInv, TypeOK, Tasks, Others

LEMMA CloseTheLoanKeeps ==
  ASSUME LegalInv, NEW w \in Workers, CloseTheLoan(w)
  PROVE  LegalInv'
<1>1. /\ pc' \in [Workers -> Labels]
      /\ task' \in [Workers -> Tasks]
      /\ pc'[w] = "close"
      /\ Others(w)
  BY GotoKeeps DEF CloseTheLoan, Labels
<1>2. loan' = [loan EXCEPT !.status = "Complete"] /\ UNCHANGED <<row, debit, trace>>
  BY DEF CloseTheLoan
<1>3. ~Active'
  BY <1>2 DEF Active, LegalInv, TypeOK
<1>4. Grows /\ SameStages
  BY <1>2, <1>3 DEF Grows, SameStages
<1>5. HandlerOK(w)'
  BY <1>1, <1>3 DEF HandlerOK
<1>6. TypeOK'
  BY <1>1, <1>2, CalmTyped DEF LegalInv, TypeOK, Tasks, CloseTheLoan
<1> QED BY <1>1, <1>4, <1>5, <1>6, StepKeeps

LEMMA NoticeJobTyped ==
  ASSUME NEW d \in DebitIds
  PROVE  NoticeJob(d) \in Tasks /\ NoticeJob(d).job = "notice" /\ NoticeJob(d).debit = d
<1>1. d \in 0 .. MaxDebits /\ 0 \in 0 .. MaxRows
  BY LegalAssumption, RowIdsBound
<1> QED BY <1>1 DEF NoticeJob, Tasks, Jobs

LEMMA CreateLegalNoticeKeeps ==
  ASSUME LegalInv, NEW w \in Workers, CreateLegalNotice(w)
  PROVE  LegalInv'
<1>1. /\ pc' \in [Workers -> Labels]
      /\ task' \in [Workers -> Tasks]
      /\ pc'[w] = "debits"
      /\ Others(w)
  BY GotoKeeps DEF CreateLegalNotice, Labels
<1> QED BY <1>1, RestOK, QuietStepKeeps, CalmTyped DEF CreateLegalNotice, LegalInv

LEMMA ReadDebitsKeeps ==
  ASSUME LegalInv, NEW w \in Workers, ReadDebits(w)
  PROVE  LegalInv'
<1>1. UNCHANGED <<loan, row, debit, stale, trace, aborts>> /\ calm' \in BOOLEAN
  BY CalmTyped DEF ReadDebits, LegalInv
<1>2. CASE Goto(w, "check") /\ UNCHANGED task
  <2>1. /\ pc' \in [Workers -> Labels]
        /\ task' \in [Workers -> Tasks]
        /\ pc'[w] = "check"
        /\ Others(w)
    BY <1>2, GotoKeeps DEF Labels
  <2> QED BY <1>1, <2>1, RestOK, QuietStepKeeps
<1>3. CASE \E d \in Newest(Refused) : /\ debit[d].sent
                                      /\ Goto(w, "notice")
                                      /\ task' = [task EXCEPT ![w] = NoticeJob(d)]
  <2>1. PICK d \in Newest(Refused) : /\ debit[d].sent
                                     /\ Goto(w, "notice")
                                     /\ task' = [task EXCEPT ![w] = NoticeJob(d)]
    BY <1>3
  <2>2. d \in DebitIds /\ debit[d].status = "FAILED"
    BY DEF Newest, Refused
  <2>3. debit'[d].status = "FAILED" /\ debit'[d].sent
    BY <1>1, <2>1, <2>2
  <2>4. NoticeJob(d) \in Tasks /\ NoticeJob(d).job = "notice" /\ NoticeJob(d).debit = d
    BY <2>2, NoticeJobTyped
  <2>5. pc'[w] = "notice" /\ task'[w] = NoticeJob(d) => HandlerOK(w)'
    BY <2>2, <2>3, <2>4 DEF HandlerOK
  <2> QED BY <1>1, <2>1, <2>4, <2>5, TaskStepKeeps DEF Labels
<1> QED BY <1>2, <1>3 DEF ReadDebits

LEMMA ReportDebitKeeps ==
  ASSUME LegalInv, NEW w \in Workers, ReportDebit(w)
  PROVE  LegalInv'
<1>1. PICK d \in Pending : task' = [task EXCEPT ![w].debit = d]
  BY DEF ReportDebit
<1>2. PICK t : t = [task[w] EXCEPT !.debit = d]
  OBVIOUS
<1>3. t \in Tasks
  <2>1. d \in 0 .. MaxDebits
    BY RowIdsBound DEF Pending, Unanswered
  <2>2. task[w] \in Tasks
    BY InFlight
  <2> QED BY <1>2, <2>1, <2>2 DEF Tasks
<1>4. task' = [task EXCEPT ![w] = t]
  BY <1>1, <1>2 DEF LegalInv, TypeOK
<1>5. pc'[w] = "fail" => HandlerOK(w)'
  BY RestOK
<1> QED BY <1>3, <1>4, <1>5, TaskStepKeeps, CalmTyped DEF ReportDebit, Labels, LegalInv

LEMMA RemoveDuplicatesKeeps ==
  ASSUME LegalInv, NEW w \in Workers, RemoveDuplicates(w)
  PROVE  LegalInv'
<1>1. PICK R : R = {r \in Duplicates : r \notin Newest(Twins(r))}
  OBVIOUS
<1>2. R \in SUBSET RowIds
  BY <1>1 DEF Duplicates, Rows
<1>3. PICK t : t = [task[w] EXCEPT !.todo = R]
  OBVIOUS
<1>4. t \in Tasks
  BY <1>2, <1>3, InFlight DEF Tasks
<1>5. task' = [task EXCEPT ![w] = t]
  BY <1>1, <1>3 DEF LegalInv, TypeOK, RemoveDuplicates
<1>6. pc'[w] = "dedupe" => HandlerOK(w)'
  BY RestOK
<1> QED BY <1>4, <1>5, <1>6, TaskStepKeeps, CalmTyped DEF RemoveDuplicates, Labels, LegalInv

LEMMA HandleKeeps ==
  ASSUME LegalInv, NEW w \in Workers, Handle(w)
  PROVE  LegalInv'
  BY MoveRequestsKeep, CloseLegalKeeps, AssignToCollectionKeeps, DisposalViaFileKeeps,
     AfterCaseKeeps, CloseTheLoanKeeps, CreateLegalNoticeKeeps, ReportDebitKeeps,
     RemoveDuplicatesKeeps
  DEF Handle

-----------------------------------------------------------------------------
(* Handlers go on *)

LEMMA QuietDoneKeeps ==
  ASSUME LegalInv, NEW w \in Workers, Done(w), calm' \in BOOLEAN,
         UNCHANGED <<loan, row, debit, stale, trace, aborts>>
  PROVE  LegalInv'
  BY InFlight, DoneKeeps, QuietStepKeeps

RowTypes == [type : Types \union {"NONE"}, history : BOOLEAN,
             numbered : BOOLEAN, debit : 0 .. MaxDebits]

LEMMA MarkedTyped ==
  ASSUME TypeOK, NEW r, row' = [row EXCEPT ![r].history = TRUE]
  PROVE  row' \in [RowIds -> RowTypes]
<1>1. row \in [RowIds -> RowTypes]
  BY DEF TypeOK, RowTypes
<1> DEFINE marked == [row[r] EXCEPT !.history = TRUE]
<1>2. r \in RowIds => marked \in RowTypes
  BY <1>1 DEF RowTypes
<1>3. row' = [row EXCEPT ![r] = marked]
  OBVIOUS
<1> HIDE DEF marked
<1> QED BY <1>1, <1>2, <1>3

LEMMA LinkOK ==
  ASSUME NEW w, pc'[w] = "link", NEW t, t = task'[w], t.new \in Rows',
         t.job # "notice" => \A r \in t.todo : MayMove(t.job, r)'
  PROVE  HandlerOK(w)'
<1> PICK l : l = pc'[w]
  OBVIOUS
<1>1. l = "link"
  OBVIOUS
<1> QED BY <1>1 DEF HandlerOK, MayMove

LEMMA MarkKeeps ==
  ASSUME LegalInv, NEW w \in Workers, Mark(w)
  PROVE  LegalInv'
<1>1. HandlerOK(w) /\ TypeOK /\ pc[w] = "mark"
  BY InFlight DEF Mark, Step
<1>2. /\ pc' \in [Workers -> Labels]
      /\ task' \in [Workers -> Tasks]
      /\ pc'[w] = "link"
      /\ Others(w)
  BY GotoKeeps DEF Mark, Labels
<1>3. row' = [row EXCEPT ![task[w].row].history = TRUE] /\ UNCHANGED <<loan, debit, trace>>
  BY DEF Mark
<1>4. Grows /\ SameStages
  BY <1>1, <1>3 DEF Grows, SameStages, Active, TypeOK
<1>5. HandlerOK(w)'
  <2> PICK t : t = task[w] /\ t = task'[w]
    BY DEF Mark
  <2>1. t.new \in Rows'
    BY <1>1, <1>4 DEF HandlerOK, Rows, SameStages
  <2>2. \A r \in t.todo : MayMove(t.job, r)'
    BY <1>1, <1>4, MayMoveStays DEF HandlerOK
  <2>3. t.job # "notice"
    BY <1>1 DEF HandlerOK
  <2> QED BY <1>2, <2>1, <2>2, <2>3, LinkOK
<1>6. TypeOK'
  <2>1. row' \in [RowIds -> RowTypes]
    BY <1>1, <1>3, MarkedTyped
  <2> QED BY <1>1, <1>2, <1>3, <2>1, CalmTyped DEF TypeOK, Tasks, RowTypes, Mark
<1> QED BY <1>2, <1>4, <1>5, <1>6, StepKeeps

LEMMA LinkKeeps ==
  ASSUME LegalInv, NEW w \in Workers, Link(w)
  PROVE  LegalInv'
<1>1. HandlerOK(w) /\ TypeOK /\ pc[w] = "link" /\ task[w] \in Tasks
  BY InFlight DEF Link, Step
<1>2. task[w].new \in Rows /\ task[w].new \in 0 .. MaxRows
  BY <1>1, RowIdsBound DEF HandlerOK, Rows
<1>3. loan'.status = loan.status /\ UNCHANGED <<row, debit, trace>>
  BY <1>1 DEF Link, TypeOK
<1>4. loan' \in [status : {"Active", "Complete"}, type : Types \union {"NONE", "AUTODEBIT"},
                 at : 0 .. MaxRows, followed : BOOLEAN]
  <2>1. row[task[w].new].type \in Types
    BY <1>1, <1>2 DEF Rows, TypeOK
  <2> QED BY <1>1, <1>2, <2>1 DEF Link, TypeOK
<1>5. Grows /\ SameStages
  BY <1>3 DEF Grows, SameStages, Active
<1>6. /\ pc' \in [Workers -> Labels]
      /\ task' \in [Workers -> Tasks]
      /\ Others(w)
      /\ HandlerOK(w)'
  <2>1. CASE task[w].job = "notice"
    <3>1. Goto(w, "remark") /\ UNCHANGED task
      BY <2>1 DEF Link
    <3> QED BY <3>1, GotoKeeps, RestOK DEF Labels
  <2>2. CASE task[w].job # "notice"
    <3>1. TakeNext(w, task[w].job, task[w].todo)
      BY <2>2 DEF Link
    <3>2. \A r \in task[w].todo : MayMove(task[w].job, r)
      BY <1>1, <2>2 DEF HandlerOK
    <3> PICK job, todo : job = task[w].job /\ todo = task[w].todo
      OBVIOUS
    <3>3. CASE todo = {}
      BY <1>1, <3>1, <3>3, DoneKeeps DEF TakeNext
    <3>4. CASE todo # {}
      <4>1. \A r \in todo : MayMove(job, r) /\ MayMove(job, r)'
        BY <1>5, <3>2, MayMoveStays
      <4>2. job \in Moves /\ todo \in SUBSET RowIds
        BY <1>1, <3>4, <4>1 DEF MayMove, Tasks
      <4>3. TakeNext(w, job, todo)
        BY <3>1
      <4> QED BY <1>1, <4>1, <4>2, <4>3, TakeNextKeeps
    <3> QED BY <3>3, <3>4
  <2> QED BY <2>1, <2>2
<1>7. TypeOK'
  BY <1>1, <1>3, <1>4, <1>6, CalmTyped DEF TypeOK, Tasks, Link
<1> QED BY <1>5, <1>6, <1>7, StepKeeps

LEMMA CalcuLoanRepaymentKeeps ==
  ASSUME LegalInv, NEW w \in Workers, CalcuLoanRepayment(w)
  PROVE  LegalInv'
<1>1. /\ HandlerOK(w) /\ TypeOK /\ pc[w] = "assign"
      /\ UNCHANGED <<loan, row, debit, stale, trace, aborts>> /\ calm' \in BOOLEAN
  BY InFlight, CalmTyped DEF CalcuLoanRepayment, Step
<1>2. CASE Done(w)
  BY <1>1, <1>2, QuietDoneKeeps
<1>3. CASE Goto(w, "owing") /\ UNCHANGED task
  <2>1. /\ pc' \in [Workers -> Labels]
        /\ task' \in [Workers -> Tasks]
        /\ pc'[w] = "owing"
        /\ Others(w)
    BY <1>3, GotoKeeps DEF Labels
  <2>2. HandlerOK(w)'
    <3> PICK t : t = task[w] /\ t = task'[w]
      BY <1>3
    <3>1. t.job = "assign" /\ t.todo = {} /\ MayMove(t.job, t.row)'
      BY <1>1, RowsStay, MayMoveStays DEF HandlerOK
    <3> QED BY <2>1, <3>1 DEF HandlerOK, MayMove
  <2> QED BY <1>1, <2>1, <2>2, QuietStepKeeps
<1> QED BY <1>2, <1>3 DEF CalcuLoanRepayment

LEMMA AssignLoanKeeps ==
  ASSUME LegalInv, NEW w \in Workers, AssignLoan(w)
  PROVE  LegalInv'
<1>1. HandlerOK(w) /\ TypeOK /\ pc[w] = "owing"
  BY InFlight DEF AssignLoan, Step
<1>2. /\ loan' = [loan EXCEPT !.type = "ASSIGN"]
      /\ Goto(w, "create")
      /\ UNCHANGED <<row, debit, trace, task>>
  BY DEF AssignLoan
<1>3. /\ pc' \in [Workers -> Labels]
      /\ task' \in [Workers -> Tasks]
      /\ pc'[w] = "create"
      /\ Others(w)
  BY <1>2, GotoKeeps DEF Labels
<1>4. Grows /\ SameStages
  BY <1>1, <1>2 DEF Grows, SameStages, Active, TypeOK
<1>5. HandlerOK(w)'
  <2> PICK t : t = task[w] /\ t = task'[w]
    BY <1>2
  <2>1. MayMove(t.job, t.row)' /\ t.todo = {}
    BY <1>1, <1>4, MayMoveStays DEF HandlerOK
  <2> QED BY <1>3, <2>1 DEF HandlerOK, MayMove
<1>6. TypeOK'
  BY <1>1, <1>2, <1>3, CalmTyped DEF TypeOK, Tasks, Types, Open, AssignLoan
<1> QED BY <1>3, <1>4, <1>5, <1>6, StepKeeps

LEMMA CloseReadKeeps ==
  ASSUME LegalInv, NEW w \in Workers, CloseRead(w)
  PROVE  LegalInv'
<1>1. ~Active /\ TypeOK
  BY InFlight DEF CloseRead, Step, HandlerOK
<1>2. PICK todo : /\ todo = (IF loan.followed THEN Closable ELSE {})
                  /\ TakeNext(w, "close", todo)
  BY DEF CloseRead
<1>3. todo \in SUBSET RowIds /\ \A r \in todo : MayMove("close", r)
  BY <1>1, <1>2, ClosableMayMove, CurrentIsRow DEF Closable
<1>4. \A r \in todo : MayMove("close", r)'
  BY <1>3, RowsStay, MayMoveStays DEF CloseRead
<1>5. /\ pc' \in [Workers -> Labels]
      /\ task' \in [Workers -> Tasks]
      /\ Others(w)
      /\ HandlerOK(w)'
  BY <1>1, <1>2, <1>3, <1>4, TakeNextKeeps DEF Moves
<1> QED BY <1>1, <1>5, QuietStepKeeps, CalmTyped DEF CloseRead

LEMMA TraceDisposalKeeps ==
  ASSUME LegalInv, NEW w \in Workers, TraceDisposal(w)
  PROVE  LegalInv'
<1>1. HandlerOK(w) /\ TypeOK /\ pc[w] = "trace"
  BY InFlight DEF TraceDisposal, Step
<1>2. task[w].job \in {"dispose", "disposePaid"}
  BY <1>1 DEF HandlerOK
<1>3. Grows /\ SameStages
  BY RowsStay DEF TraceDisposal
<1>4. /\ pc' \in [Workers -> Labels]
      /\ task' \in [Workers -> Tasks]
      /\ Others(w)
      /\ HandlerOK(w)'
  <2>1. CASE Done(w)
    BY <1>1, <2>1, DoneKeeps
  <2>2. CASE Goto(w, "dispose") /\ UNCHANGED task
    <3>1. /\ pc' \in [Workers -> Labels]
          /\ task' \in [Workers -> Tasks]
          /\ pc'[w] = "dispose"
          /\ Others(w)
      BY <2>2, GotoKeeps DEF Labels
    <3> PICK t : t = task[w] /\ t = task'[w]
      BY <2>2
    <3>2. t.job \in {"dispose", "disposePaid"} /\ MayMove(t.job, t.row)'
      BY <1>1, <1>3, MayMoveStays DEF HandlerOK
    <3>3. HandlerOK(w)'
      BY <3>1, <3>2 DEF HandlerOK, MayMove
    <3> QED BY <3>1, <3>3
  <2> QED BY <2>1, <2>2 DEF TraceDisposal
<1>5. TypeOK'
  BY <1>1, <1>2, <1>4, CalmTyped DEF TypeOK, Tasks, TraceDisposal
<1> QED BY <1>3, <1>4, <1>5, StepKeeps

LEMMA DisposalReadKeeps ==
  ASSUME LegalInv, NEW w \in Workers, DisposalRead(w)
  PROVE  LegalInv'
<1>1. HandlerOK(w) /\ TypeOK /\ pc[w] = "dispose" /\ task[w] \in Tasks
  BY InFlight DEF DisposalRead, Step
<1> PICK job, r : job = task[w].job /\ r = task[w].row
  OBVIOUS
<1>2. job \in Moves /\ MayMove(job, r) /\ r \in RowIds
  BY <1>1 DEF HandlerOK, MayMove
<1>3. PICK todo \in SUBSET {r} : TakeNext(w, job, todo)
  BY DEF DisposalRead
<1>4. \A s \in todo : MayMove(job, s)'
  BY <1>2, RowsStay, MayMoveStays DEF DisposalRead
<1>5. /\ pc' \in [Workers -> Labels]
      /\ task' \in [Workers -> Tasks]
      /\ Others(w)
      /\ HandlerOK(w)'
  BY <1>1, <1>2, <1>3, <1>4, TakeNextKeeps
<1> QED BY <1>1, <1>5, QuietStepKeeps, CalmTyped DEF DisposalRead

(* A stage rests on what came before it, however far back. *)
LEMMA AfterGrows ==
  ASSUME Grows, NEW r, NEW T, "NONE" \notin T, After(r, T)
  PROVE  After(r, T)'
  BY DEF After, Grows

LEMMA AfterNew ==
  ASSUME TypeOK, Grows, NEW n \in RowIds, NEW o \in RowIds, o < n, NEW T, "NONE" \notin T,
         row[o].type \in T \/ After(o, T)
  PROVE  After(n, T)'
<1>1. CASE row[o].type \in T
  BY <1>1 DEF After, Grows
<1>2. CASE After(o, T)
  <2>1. PICK s \in RowIds : s < o /\ row[s].type \in T
    BY <1>2 DEF After
  <2>2. s < n
    BY <2>1 DEF RowIds
  <2> QED BY <2>1, <2>2 DEF After, Grows
<1> QED BY <1>1, <1>2

LEMMA AfterAfter ==
  ASSUME NEW o \in RowIds, NEW s \in RowIds, s < o, NEW T, After(s, T)
  PROVE  After(o, T)
  BY DEF After, RowIds

LEMMA Chains ==
  ASSUME CaseByTheBook, NEW o \in RowIds
  PROVE  /\ row[o].type = "SUMMONS" => After(o, {"FILLED"})
         /\ row[o].type = "WARRENT" => After(o, {"SUMMONS"}) /\ After(o, {"FILLED"})
         /\ row[o].type \in {"TO_FILE", "IN_PROGRESS", "ASSIGN"} => After(o, {"NOTICE"})
<1>1. \A r \in RowIds : Grounded(r)
  BY DEF CaseByTheBook
<1>2. \A r \in RowIds : row[r].type = "SUMMONS" => After(r, {"FILLED"})
  BY <1>1 DEF Grounded
<1>3. \A r \in RowIds : row[r].type \in {"TO_FILE", "ASSIGN"} => After(r, {"NOTICE"})
  BY <1>1 DEF Grounded
<1>4. row[o].type = "WARRENT" => After(o, {"SUMMONS"})
  BY <1>1 DEF Grounded
<1>5. row[o].type = "WARRENT" => After(o, {"FILLED"})
  BY <1>2, <1>4, AfterAfter DEF After
<1>6. row[o].type = "IN_PROGRESS" => After(o, {"TO_FILE"})
  BY <1>1 DEF Grounded
<1>7. row[o].type = "IN_PROGRESS" => After(o, {"NOTICE"})
  BY <1>3, <1>6, AfterAfter DEF After
<1> QED BY <1>2, <1>3, <1>4, <1>5, <1>7

(* A new row in an empty place: what was there stays, and stays grounded. *)
LEMMA FreeRow ==
  ASSUME NEW n \in FreeRows
  PROVE  /\ n \in RowIds
         /\ row[n].type = "NONE"
         /\ \A s \in Rows : s < n
<1>1. n \in RowIds /\ \A s \in RowIds : s < n <=> s \in Rows
  BY DEF FreeRows
<1>2. ~(n < n)
  BY <1>1 DEF RowIds
<1> QED BY <1>1, <1>2 DEF Rows

LEMMA NewRowKeeps ==
  ASSUME LegalInv, NEW w \in Workers, NEW n \in FreeRows, NEW x \in RowTypes,
         row' = [row EXCEPT ![n] = x], UNCHANGED <<loan, debit, stale, trace, aborts>>,
         calm' \in BOOLEAN, pc' \in [Workers -> Labels], task' \in [Workers -> Tasks],
         Others(w), Grows => HandlerOK(w)' /\ Grounded(n)'
  PROVE  LegalInv'
<1>1. n \in RowIds /\ row[n].type = "NONE" /\ TypeOK
  BY FreeRow DEF LegalInv
<1>2. row \in [RowIds -> RowTypes]
  BY DEF LegalInv, TypeOK, RowTypes
<1>3. Grows
  BY <1>1, <1>2 DEF Grows, Active
<1>4. TypeOK'
  <2>1. row' \in [RowIds -> RowTypes]
    BY <1>1, <1>2
  <2> QED BY <1>1, <2>1 DEF TypeOK, RowTypes, Tasks
<1>5. CaseByTheBook'
  <2> SUFFICES ASSUME NEW r \in RowIds PROVE Grounded(r)'
    BY DEF CaseByTheBook
  <2>1. CASE r = n
    BY <1>3, <2>1
  <2>2. CASE r # n
    <3>1. row'[r] = row[r]
      BY <1>2, <2>2
    <3>2. \A T : "NONE" \notin T /\ After(r, T) => After(r, T)'
      BY <1>3, AfterGrows
    <3>3. Grounded(r)
      BY DEF LegalInv, CaseByTheBook
    <3> QED BY <1>3, <3>1, <3>2, <3>3 DEF Grounded, Grows
  <2> QED BY <2>1, <2>2
<1>6. HandlersOK'
  <2> SUFFICES ASSUME NEW v \in Workers PROVE HandlerOK(v)'
    BY DEF HandlersOK
  <2>1. CASE v = w
    BY <1>3, <2>1
  <2>2. CASE v # w
    BY <1>3, <2>2, HandlerStays DEF LegalInv, HandlersOK, Others
  <2> QED BY <2>1, <2>2
<1> QED BY <1>4, <1>5, <1>6 DEF LegalInv

(* Where a row may be moved, the new stage is grounded. *)
LEMMA TargetGrounded ==
  ASSUME LegalInv, Grows, UNCHANGED loan, NEW n \in RowIds, NEW o \in RowIds, o < n,
         NEW job \in Moves, MayMove(job, o), row'[n].type = Target(job, row[o].type)
  PROVE  Grounded(n)'
<1>1. PICK k : k = row[o].type
  OBVIOUS
<1>2. k \in Source(job) /\ (job \in {"close", "disposePaid"} => ~Active')
  BY <1>1 DEF MayMove, Active
<1>3. \A T : "NONE" \notin T /\ (k \in T \/ After(o, T)) => After(n, T)'
  BY <1>1, AfterNew DEF LegalInv
<1>4. /\ k = "SUMMONS" => After(o, {"FILLED"})
      /\ k = "WARRENT" => After(o, {"SUMMONS"}) /\ After(o, {"FILLED"})
      /\ k \in {"TO_FILE", "IN_PROGRESS", "ASSIGN"} => After(o, {"NOTICE"})
  BY <1>1, Chains DEF LegalInv
<1>5. /\ k \in {"FILLED", "SUMMONS", "WARRENT"} => After(n, {"FILLED"})'
      /\ k \in {"SUMMONS", "WARRENT"} => After(n, {"SUMMONS"})'
      /\ k \in {"NOTICE", "TO_FILE", "IN_PROGRESS", "ASSIGN"} => After(n, {"NOTICE"})'
      /\ k = "TO_FILE" => After(n, {"TO_FILE"})'
      /\ k = "IN_PROGRESS" => After(n, {"IN_PROGRESS"})'
      /\ k = "WARRENT" => After(n, {"WARRENT"})'
      /\ k = "WITHDRAWAL" => After(n, {"WITHDRAWAL"})'
  BY <1>3, <1>4
<1>6. PICK new : new = row'[n].type
  OBVIOUS
<1>7. new = Target(job, k)
  BY <1>1, <1>6
<1>8. /\ new # "NOTICE"
      /\ new = "TO_FILE" => After(n, {"NOTICE"})'
      /\ new = "IN_PROGRESS" => After(n, {"TO_FILE"})'
      /\ new = "FILLED" => After(n, {"IN_PROGRESS"})'
      /\ new = "SUMMONS" => After(n, {"FILLED"})'
      /\ new = "WARRENT" => After(n, {"SUMMONS"})'
      /\ new = "WITHDRAWAL" => After(n, {"WARRENT"})' \/ (~Active' /\ After(n, {"FILLED"})')
      /\ new = "ASSIGN" => After(n, {"NOTICE"})'
      /\ new = "PAID" => ~Active' /\ After(n, {"NOTICE"})'
      /\ new = "DISPOSAL" => ~Active' \/ After(n, {"WITHDRAWAL"})'
  <2>1. CASE job = "toFile" BY <1>2, <1>5, <1>7, <2>1 DEF Target, Source
  <2>2. CASE job = "progress" BY <1>2, <1>5, <1>7, <2>2 DEF Target, Source
  <2>3. CASE job = "file" BY <1>2, <1>5, <1>7, <2>3 DEF Target, Source
  <2>4. CASE job = "summons" BY <1>2, <1>5, <1>7, <2>4 DEF Target, Source
  <2>5. CASE job = "warrant" BY <1>2, <1>5, <1>7, <2>5 DEF Target, Source
  <2>6. CASE job = "withdraw" BY <1>2, <1>5, <1>7, <2>6 DEF Target, Source
  <2>7. CASE job = "assign" BY <1>2, <1>5, <1>7, <2>7 DEF Target, Source
  <2>8. CASE job = "close" BY <1>2, <1>5, <1>7, <2>8 DEF Target, Source, Open, InCourt
  <2>9. CASE job = "dispose" BY <1>2, <1>5, <1>7, <2>9 DEF Target, Source
  <2>10. CASE job = "disposePaid" BY <1>2, <1>5, <1>7, <2>10 DEF Target, Source
  <2> QED BY <2>1, <2>2, <2>3, <2>4, <2>5, <2>6, <2>7, <2>8, <2>9, <2>10 DEF Moves
<1> QED BY <1>6, <1>8 DEF Grounded

LEMMA CreateOK ==
  ASSUME NEW w, pc'[w] = "mark", NEW t, t = task'[w], t.new \in Rows',
         t.job # "notice", \A r \in t.todo : MayMove(t.job, r)'
  PROVE  HandlerOK(w)'
<1> PICK l : l = pc'[w]
  OBVIOUS
<1>1. l = "mark"
  OBVIOUS
<1> QED BY <1>1 DEF HandlerOK, MayMove

LEMMA NewTyped ==
  ASSUME TypeOK, NEW w \in Workers, NEW n \in RowIds, task' = [task EXCEPT ![w].new = n]
  PROVE  /\ task' \in [Workers -> Tasks]
         /\ \A v \in Workers \ {w} : task'[v] = task[v]
         /\ task'[w].new = n
         /\ task'[w].job = task[w].job
         /\ task'[w].todo = task[w].todo
         /\ task'[w].debit = task[w].debit
<1>1. task \in [Workers -> Tasks] /\ n \in 0 .. MaxRows
  BY RowIdsBound DEF TypeOK, Tasks
<1> DEFINE t == [task[w] EXCEPT !.new = n]
<1>2. /\ t \in Tasks
      /\ t.new = n
      /\ t.job = task[w].job
      /\ t.todo = task[w].todo
      /\ t.debit = task[w].debit
  BY <1>1 DEF Tasks
<1>3. task' = [task EXCEPT ![w] = t]
  OBVIOUS
<1> HIDE DEF t
<1> QED BY <1>1, <1>2, <1>3

LEMMA TargetTyped ==
  ASSUME NEW job \in Moves, NEW k
  PROVE  Target(job, k) \in Types
  BY DEF Target, Moves, Types, Open, Over

LEMMA CreateKeeps ==
  ASSUME LegalInv, NEW w \in Workers, Create(w)
  PROVE  LegalInv'
<1>1. /\ HandlerOK(w) /\ TypeOK /\ pc[w] = "create" /\ task[w] \in Tasks
      /\ UNCHANGED <<loan, debit, stale, trace, aborts>> /\ calm' \in BOOLEAN
  BY InFlight, CalmTyped DEF Create, Step
<1> PICK t : t = task[w]
  OBVIOUS
<1>2. /\ t.job \in Moves /\ t.job # "notice"
      /\ MayMove(t.job, t.row) /\ \A r \in t.todo : MayMove(t.job, r)
  BY <1>1 DEF HandlerOK, MayMove, Moves
<1> PICK old : old = row[t.row]
  OBVIOUS
<1>3. t.row \in Rows /\ old \in RowTypes
  BY <1>1, <1>2, SourceTypes DEF MayMove, Rows, TypeOK, RowTypes
<1> DEFINE x == [type |-> Target(t.job, old.type),
                 history |-> old.history /\ t.job \notin Given,
                 numbered |-> old.numbered \/ t.job \in {"summons", "warrant"},
                 debit |-> old.debit]
<1>4. PICK n \in FreeRows : row' = [row EXCEPT ![n] = x]
                            /\ task' = [task EXCEPT ![w].new = n]
  BY DEF Create
<1>5. n \in RowIds /\ row[n].type = "NONE" /\ t.row < n
  BY <1>3, <1>4, FreeRow
<1>6. x \in RowTypes /\ x.type = Target(t.job, old.type) /\ x.type \in Types
  <2>1. Target(t.job, old.type) \in Types
    BY <1>2, TargetTyped
  <2>2. (old.history /\ t.job \notin Given) \in BOOLEAN
    OBVIOUS
  <2>3. (old.numbered \/ t.job \in {"summons", "warrant"}) \in BOOLEAN
    OBVIOUS
  <2>4. old.debit \in 0 .. MaxDebits
    BY <1>3 DEF RowTypes
  <2> QED BY <2>1, <2>2, <2>3, <2>4 DEF RowTypes
<1> HIDE DEF x
<1>7. /\ pc' \in [Workers -> Labels]
      /\ pc'[w] = "mark"
      /\ \A v \in Workers \ {w} : pc'[v] = pc[v]
  BY <1>1, GotoTyped DEF Create, Labels
<1>8. /\ task' \in [Workers -> Tasks]
      /\ \A v \in Workers \ {w} : task'[v] = task[v]
      /\ task'[w].new = n /\ task'[w].job = t.job /\ task'[w].todo = t.todo
  BY <1>1, <1>4, <1>5, NewTyped
<1>9. row'[n] = x
  BY <1>1, <1>4, <1>5 DEF TypeOK
<1>10. Grows => Grounded(n)'
  BY <1>1, <1>2, <1>3, <1>5, <1>6, <1>9, TargetGrounded DEF Rows
<1>11. Grows => HandlerOK(w)'
  <2> SUFFICES ASSUME Grows PROVE HandlerOK(w)'
    OBVIOUS
  <2>1. n \in Rows'
    BY <1>5, <1>6, <1>9, SourceTypes DEF Rows, Types, Open, Over
  <2>2. \A r \in t.todo : MayMove(t.job, r)'
    BY <1>2, MayMoveStays
  <2>3. PICK u : u = task'[w]
    OBVIOUS
  <2>4. u.new = n /\ u.job = t.job /\ u.todo = t.todo
    BY <1>8, <2>3
  <2>5. u.new \in Rows' /\ u.job # "notice" /\ \A r \in u.todo : MayMove(u.job, r)'
    BY <1>2, <2>1, <2>2, <2>4
  <2> QED BY <1>7, <2>3, <2>5, CreateOK
<1>12. Others(w)
  BY <1>7, <1>8 DEF Others
<1> QED BY <1>1, <1>4, <1>6, <1>7, <1>8, <1>10, <1>11, <1>12, NewRowKeeps

LEMMA CreateNoticeKeeps ==
  ASSUME LegalInv, NEW w \in Workers, CreateNotice(w)
  PROVE  LegalInv'
<1>12. CASE Done(w) /\ UNCHANGED row
  BY <1>12, CalmTyped, QuietDoneKeeps, InFlight DEF CreateNotice
<1> SUFFICES ASSUME \E n \in FreeRows :
                      /\ row' = [row EXCEPT ![n] =
                           [type |-> "NOTICE", history |-> FALSE, numbered |-> FALSE,
                            debit |-> task[w].debit]]
                      /\ task' = [task EXCEPT ![w].new = n],
                    Goto(w, "link")
             PROVE  LegalInv'
  BY <1>12 DEF CreateNotice
<1>1. /\ HandlerOK(w) /\ TypeOK /\ pc[w] = "notice" /\ task[w] \in Tasks
      /\ UNCHANGED <<loan, debit, stale, trace, aborts>> /\ calm' \in BOOLEAN
  BY InFlight, CalmTyped DEF CreateNotice, Step
<1> PICK d : d = task[w].debit
  OBVIOUS
<1>2. task[w].job = "notice" /\ d \in DebitIds /\ debit[d].status = "FAILED" /\ debit[d].sent
  BY <1>1 DEF HandlerOK
<1> DEFINE x == [type |-> "NOTICE", history |-> FALSE, numbered |-> FALSE, debit |-> d]
<1>3. x \in RowTypes /\ x.type = "NOTICE" /\ x.debit = d
  BY <1>2, RowIdsBound DEF RowTypes, Types, Open
<1>4. PICK n \in FreeRows : row' = [row EXCEPT ![n] = x]
                            /\ task' = [task EXCEPT ![w].new = n]
  OBVIOUS
<1> HIDE DEF x
<1>5. n \in RowIds /\ row[n].type = "NONE"
  BY <1>4, FreeRow
<1>6. /\ pc' \in [Workers -> Labels]
      /\ pc'[w] = "link"
      /\ \A v \in Workers \ {w} : pc'[v] = pc[v]
  BY <1>1, GotoTyped DEF Labels
<1>7. /\ task' \in [Workers -> Tasks]
      /\ \A v \in Workers \ {w} : task'[v] = task[v]
      /\ task'[w].new = n /\ task'[w].job = "notice"
  BY <1>1, <1>2, <1>4, <1>5, NewTyped
<1>8. row'[n] = x
  BY <1>1, <1>4, <1>5 DEF TypeOK
<1>9. Grounded(n)'
  BY <1>1, <1>2, <1>3, <1>8 DEF Grounded
<1>10. HandlerOK(w)'
  <2>1. n \in Rows'
    BY <1>3, <1>5, <1>8 DEF Rows
  <2>2. PICK u : u = task'[w]
    OBVIOUS
  <2>3. u.new \in Rows' /\ u.job = "notice"
    BY <1>7, <2>1, <2>2
  <2> QED BY <1>6, <2>2, <2>3, LinkOK
<1>11. Others(w)
  BY <1>6, <1>7 DEF Others
<1> QED BY <1>1, <1>3, <1>4, <1>6, <1>7, <1>9, <1>10, <1>11, NewRowKeeps

(* Steps that end the handler, or go on without promising anything.        *)
LEMMA EndOrRest ==
  ASSUME LegalInv, NEW w \in Workers,
         \/ Done(w)
         \/ \E l \in {"remark", "read", "debits", "check", "place", "placed", "retire", "fail",
                      "eligible"} : Goto(w, l) /\ UNCHANGED task
  PROVE  /\ pc' \in [Workers -> Labels]
         /\ task' \in [Workers -> Tasks]
         /\ Others(w)
         /\ HandlerOK(w)'
<1>1. CASE Done(w)
  BY <1>1, InFlight, DoneKeeps
<1>2. CASE \E l \in {"remark", "read", "debits", "check", "place", "placed", "retire", "fail",
                     "eligible"} : Goto(w, l) /\ UNCHANGED task
  <2>1. PICK l \in {"remark", "read", "debits", "check", "place", "placed", "retire", "fail",
                    "eligible"} : Goto(w, l) /\ UNCHANGED task
    BY <1>2
  <2>2. l \in Labels
    BY DEF Labels
  <2> QED BY <2>1, <2>2, GotoKeeps, RestOK
<1> QED BY <1>1, <1>2

DebitTypes == [status : {"NONE", "INITIALIZED", "FAILED"},
               sent : BOOLEAN, noticed : BOOLEAN]

LEMMA DebitTyped ==
  ASSUME TypeOK, NEW d
  PROVE  /\ debit' = [debit EXCEPT ![d].noticed = TRUE] =>
              /\ debit' \in [DebitIds -> DebitTypes]
              /\ \A c \in DebitIds : /\ debit'[c].status = debit[c].status
                                    /\ debit'[c].sent = debit[c].sent
         /\ debit' = [debit EXCEPT ![d].status = "FAILED"] =>
              /\ debit' \in [DebitIds -> DebitTypes]
              /\ \A c \in DebitIds : c # d => debit'[c] = debit[c]
              /\ d \in DebitIds => /\ debit'[d].status = "FAILED"
                                   /\ debit'[d].sent = debit[d].sent
                                   /\ debit'[d].noticed = debit[d].noticed
         /\ \A s \in {"INITIALIZED", "FAILED"}, b \in BOOLEAN :
              debit' = [debit EXCEPT ![d].status = s, ![d].sent = b] =>
                /\ debit' \in [DebitIds -> DebitTypes]
                /\ \A c \in DebitIds : c # d => debit'[c] = debit[c]
                /\ d \in DebitIds => /\ debit'[d].status = s
                                     /\ debit'[d].sent = b
                                     /\ debit'[d].noticed = debit[d].noticed
<1>1. debit \in [DebitIds -> DebitTypes]
  BY DEF TypeOK, DebitTypes
<1>2. ASSUME debit' = [debit EXCEPT ![d].noticed = TRUE]
      PROVE  /\ debit' \in [DebitIds -> DebitTypes]
             /\ \A c \in DebitIds : /\ debit'[c].status = debit[c].status
                                   /\ debit'[c].sent = debit[c].sent
  <2> DEFINE x == [debit[d] EXCEPT !.noticed = TRUE]
  <2>1. d \in DebitIds =>
          x \in DebitTypes /\ x.status = debit[d].status /\ x.sent = debit[d].sent
    BY <1>1 DEF DebitTypes
  <2>2. debit' = [debit EXCEPT ![d] = x]
    BY <1>2
  <2> HIDE DEF x
  <2> QED BY <1>1, <2>1, <2>2
<1>3. ASSUME debit' = [debit EXCEPT ![d].status = "FAILED"]
      PROVE  /\ debit' \in [DebitIds -> DebitTypes]
             /\ \A c \in DebitIds : c # d => debit'[c] = debit[c]
             /\ d \in DebitIds => /\ debit'[d].status = "FAILED"
                                  /\ debit'[d].sent = debit[d].sent
                                  /\ debit'[d].noticed = debit[d].noticed
  <2> DEFINE x == [debit[d] EXCEPT !.status = "FAILED"]
  <2>1. d \in DebitIds => /\ x \in DebitTypes
                          /\ x.status = "FAILED"
                          /\ x.sent = debit[d].sent
                          /\ x.noticed = debit[d].noticed
    BY <1>1 DEF DebitTypes
  <2>2. debit' = [debit EXCEPT ![d] = x]
    BY <1>3
  <2> HIDE DEF x
  <2> QED BY <1>1, <2>1, <2>2
<1>4. ASSUME NEW s \in {"INITIALIZED", "FAILED"}, NEW b \in BOOLEAN,
             debit' = [debit EXCEPT ![d].status = s, ![d].sent = b]
      PROVE  /\ debit' \in [DebitIds -> DebitTypes]
             /\ \A c \in DebitIds : c # d => debit'[c] = debit[c]
             /\ d \in DebitIds => /\ debit'[d].status = s
                                  /\ debit'[d].sent = b
                                  /\ debit'[d].noticed = debit[d].noticed
  <2> DEFINE x == [debit[d] EXCEPT !.status = s, !.sent = b]
  <2>1. d \in DebitIds => /\ x \in DebitTypes
                          /\ x.status = s
                          /\ x.sent = b
                          /\ x.noticed = debit[d].noticed
    BY <1>1 DEF DebitTypes
  <2>2. debit' = [debit EXCEPT ![d] = x]
    BY <1>1, <1>4
  <2> HIDE DEF x
  <2> QED BY <1>1, <2>1, <2>2
<1> QED BY <1>2, <1>3, <1>4

(* The handlers that end or go on after a write to one table. *)
LEMMA WriteKeeps ==
  ASSUME LegalInv, NEW w \in Workers, calm' \in BOOLEAN, UNCHANGED <<stale, trace, aborts>>,
         Grows, SameStages,
         pc' \in [Workers -> Labels], task' \in [Workers -> Tasks], Others(w), HandlerOK(w)',
         loan' \in [status : {"Active", "Complete"}, type : Types \union {"NONE", "AUTODEBIT"},
                    at : 0 .. MaxRows, followed : BOOLEAN],
         row' \in [RowIds -> RowTypes], debit' \in [DebitIds -> DebitTypes]
  PROVE  LegalInv'
<1>1. TypeOK'
  BY DEF LegalInv, TypeOK, RowTypes, DebitTypes, Tasks
<1> QED BY <1>1, StepKeeps

LEMMA TablesTyped ==
  ASSUME TypeOK
  PROVE  /\ loan \in [status : {"Active", "Complete"},
                      type : Types \union {"NONE", "AUTODEBIT"},
                      at : 0 .. MaxRows, followed : BOOLEAN]
         /\ row \in [RowIds -> RowTypes]
         /\ debit \in [DebitIds -> DebitTypes]
  BY DEF TypeOK, RowTypes, DebitTypes

LEMMA RemarkDebitKeeps ==
  ASSUME LegalInv, NEW w \in Workers, RemarkDebit(w)
  PROVE  LegalInv'
<1>1. TypeOK /\ calm' \in BOOLEAN /\ UNCHANGED <<stale, aborts>>
  BY CalmTyped DEF RemarkDebit, LegalInv
<1>2. /\ debit' \in [DebitIds -> DebitTypes]
      /\ \A c \in DebitIds : /\ debit'[c].status = debit[c].status
                            /\ debit'[c].sent = debit[c].sent
  BY <1>1, DebitTyped DEF RemarkDebit
<1>3. Grows /\ SameStages
  BY <1>2 DEF Grows, SameStages, Active, RemarkDebit
<1> QED BY <1>1, <1>2, <1>3, EndOrRest, WriteKeeps, TablesTyped DEF RemarkDebit

LEMMA NoticeAgainKeeps ==
  ASSUME LegalInv, NEW w \in Workers, NoticeAgain(w)
  PROVE  LegalInv'
  BY EndOrRest, QuietStepKeeps, CalmTyped DEF NoticeAgain, LegalInv

LEMMA CheckDebitKeeps ==
  ASSUME LegalInv, NEW w \in Workers, CheckDebit(w)
  PROVE  LegalInv'
  BY EndOrRest, QuietStepKeeps, CalmTyped DEF CheckDebit, LegalInv

(* The row of a debit that is placed. *)
LEMMA NewDebit ==
  ASSUME TypeOK, NEW d \in FreeDebits, NEW s \in {"INITIALIZED", "FAILED"},
         NEW b \in BOOLEAN, debit' = [debit EXCEPT ![d].status = s, ![d].sent = b]
  PROVE  /\ d \in DebitIds /\ debit[d].status = "NONE"
         /\ debit' \in [DebitIds -> DebitTypes]
         /\ \A c \in DebitIds : c # d => debit'[c] = debit[c]
         /\ debit'[d].status = s /\ debit'[d].sent = b
         /\ \A c \in DebitIds : debit'[c].noticed = debit[c].noticed
<1>1. d \in DebitIds /\ debit[d].status = "NONE"
  BY DEF FreeDebits
<1>2. /\ debit' \in [DebitIds -> DebitTypes]
      /\ \A c \in DebitIds : c # d => debit'[c] = debit[c]
      /\ debit'[d].status = s /\ debit'[d].sent = b
      /\ debit'[d].noticed = debit[d].noticed
  BY <1>1, DebitTyped
<1>3. \A c \in DebitIds : debit'[c].noticed = debit[c].noticed
  BY <1>2
<1> QED BY <1>1, <1>2, <1>3

LEMMA PlaceDebitKeeps ==
  ASSUME LegalInv, NEW w \in Workers, PlaceDebit(w)
  PROVE  LegalInv'
<1>1. /\ TypeOK /\ calm' \in BOOLEAN
      /\ UNCHANGED <<loan, row, stale, trace, aborts>>
  BY CalmTyped DEF PlaceDebit, LegalInv
<1>2. CASE Done(w) /\ UNCHANGED debit
  BY <1>1, <1>2, QuietDoneKeeps
<1>3. ASSUME NEW d \in FreeDebits, NEW s \in {"INITIALIZED", "FAILED"}, NEW b \in BOOLEAN,
             debit' = [debit EXCEPT ![d].status = s, ![d].sent = b],
             Done(w) \/ (Goto(w, "placed") /\ UNCHANGED task)
      PROVE  LegalInv'
  <2>1. /\ d \in DebitIds /\ debit[d].status = "NONE"
        /\ debit' \in [DebitIds -> DebitTypes]
        /\ \A c \in DebitIds : c # d => debit'[c] = debit[c]
    BY <1>1, <1>3, NewDebit
  <2>2. Grows /\ SameStages
    BY <1>1, <2>1 DEF Grows, SameStages, Active
  <2> QED BY <1>1, <1>3, <2>1, <2>2, EndOrRest, WriteKeeps, TablesTyped
<1> QED BY <1>2, <1>3 DEF PlaceDebit

LEMMA DebitPlacedKeeps ==
  ASSUME LegalInv, NEW w \in Workers, DebitPlaced(w)
  PROVE  LegalInv'
<1>1. TypeOK /\ calm' \in BOOLEAN /\ UNCHANGED <<stale, aborts>>
  BY CalmTyped DEF DebitPlaced, LegalInv
<1>2. loan' = [loan EXCEPT !.type = "AUTODEBIT"] /\ UNCHANGED <<row, debit, trace>>
  BY DEF DebitPlaced
<1>3. Grows /\ SameStages
  BY <1>1, <1>2 DEF Grows, SameStages, Active, TypeOK
<1>4. loan' \in [status : {"Active", "Complete"}, type : Types \union {"NONE", "AUTODEBIT"},
                 at : 0 .. MaxRows, followed : BOOLEAN]
  BY <1>1, <1>2 DEF TypeOK
<1> QED BY <1>1, <1>2, <1>3, <1>4, EndOrRest, WriteKeeps, TablesTyped DEF DebitPlaced

LEMMA RetireRowKeeps ==
  ASSUME LegalInv, NEW w \in Workers, RetireRow(w)
  PROVE  LegalInv'
<1>1. TypeOK /\ calm' \in BOOLEAN /\ UNCHANGED <<stale, aborts>>
  BY CalmTyped DEF RetireRow, LegalInv
<1>2. row' = [row EXCEPT ![task[w].row].history = TRUE] /\ UNCHANGED <<loan, debit, trace>>
  BY DEF RetireRow
<1>3. Grows /\ SameStages
  BY <1>1, <1>2 DEF Grows, SameStages, Active, TypeOK
<1>4. row' \in [RowIds -> RowTypes]
  BY <1>1, <1>2, MarkedTyped
<1> QED BY <1>1, <1>2, <1>3, <1>4, EndOrRest, WriteKeeps, TablesTyped DEF RetireRow

LEMMA FailDebitKeeps ==
  ASSUME LegalInv, NEW w \in Workers, FailDebit(w)
  PROVE  LegalInv'
<1>1. TypeOK /\ calm' \in BOOLEAN /\ UNCHANGED <<stale, aborts>>
  BY CalmTyped DEF FailDebit, LegalInv
<1> PICK d : d = task[w].debit
  OBVIOUS
<1>2. /\ debit' \in [DebitIds -> DebitTypes]
      /\ \A c \in DebitIds : c # d => debit'[c] = debit[c]
      /\ d \in DebitIds => debit'[d].status = "FAILED" /\ debit'[d].sent = debit[d].sent
  BY <1>1, DebitTyped DEF FailDebit
<1>3. Grows /\ SameStages
  BY <1>2 DEF Grows, SameStages, Active, FailDebit
<1> QED BY <1>1, <1>2, <1>3, EndOrRest, WriteKeeps, TablesTyped DEF FailDebit

LEMMA MakeLegalEligibleKeeps ==
  ASSUME LegalInv, NEW w \in Workers, MakeLegalEligible(w)
  PROVE  LegalInv'
<1>1. TypeOK /\ calm' \in BOOLEAN /\ UNCHANGED <<stale, aborts>>
  BY CalmTyped DEF MakeLegalEligible, LegalInv
<1>2. UNCHANGED <<row, debit, trace>> /\ loan'.status = loan.status
  BY <1>1 DEF MakeLegalEligible, TypeOK
<1>3. Grows /\ SameStages
  BY <1>2 DEF Grows, SameStages, Active
<1>4. loan' \in [status : {"Active", "Complete"}, type : Types \union {"NONE", "AUTODEBIT"},
                 at : 0 .. MaxRows, followed : BOOLEAN]
  BY <1>1 DEF TypeOK, MakeLegalEligible
<1>5. /\ pc' \in [Workers -> Labels]
      /\ pc'[w] = "read"
      /\ \A v \in Workers \ {w} : pc'[v] = pc[v]
  BY <1>1, GotoTyped DEF MakeLegalEligible, Labels
<1>6. /\ task' \in [Workers -> Tasks]
      /\ \A v \in Workers \ {w} : task'[v] = task[v]
  BY <1>1, TaskTyped, NoTaskTyped DEF MakeLegalEligible
<1>7. HandlerOK(w)' /\ Others(w)
  BY <1>5, <1>6, RestOK DEF Others
<1> QED BY <1>1, <1>2, <1>3, <1>4, <1>5, <1>6, <1>7, WriteKeeps, TablesTyped

LEMMA MarkDuplicatesKeeps ==
  ASSUME LegalInv, NEW w \in Workers, MarkDuplicates(w)
  PROVE  LegalInv'
<1>1. TypeOK /\ calm' \in BOOLEAN /\ UNCHANGED <<stale, aborts>>
  BY CalmTyped DEF MarkDuplicates, LegalInv
<1> PICK R : R = task[w].todo
  OBVIOUS
<1>2. row' = [r \in RowIds |-> [row[r] EXCEPT !.history = @ \/ r \in R]]
  BY DEF MarkDuplicates
<1>3. ASSUME NEW r \in RowIds
      PROVE  /\ row'[r] \in RowTypes
             /\ row'[r].type = row[r].type
             /\ row'[r].debit = row[r].debit
  <2>1. row[r] \in RowTypes
    BY <1>1 DEF TypeOK, RowTypes
  <2>2. (row[r].history \/ r \in R) \in BOOLEAN
    OBVIOUS
  <2>3. row'[r] = [row[r] EXCEPT !.history = row[r].history \/ r \in R]
    BY <1>2
  <2> QED BY <2>1, <2>2, <2>3 DEF RowTypes
<1>4. row' \in [RowIds -> RowTypes]
  BY <1>2, <1>3
<1>5. UNCHANGED <<loan, debit, trace>>
  BY DEF MarkDuplicates
<1>6. Grows /\ SameStages
  BY <1>3, <1>5 DEF Grows, SameStages, Active
<1> QED BY <1>1, <1>4, <1>5, <1>6, EndOrRest, WriteKeeps, TablesTyped DEF MarkDuplicates

LEMMA ContinueKeeps ==
  ASSUME LegalInv, NEW w \in Workers, Continue(w)
  PROVE  LegalInv'
  BY CreateKeeps, MarkKeeps, LinkKeeps, CalcuLoanRepaymentKeeps, AssignLoanKeeps,
     CloseReadKeeps, TraceDisposalKeeps, DisposalReadKeeps, NoticeAgainKeeps,
     ReadDebitsKeeps, CreateNoticeKeeps,
     RemarkDebitKeeps, CheckDebitKeeps, PlaceDebitKeeps, DebitPlacedKeeps, RetireRowKeeps,
     FailDebitKeeps, MakeLegalEligibleKeeps, MarkDuplicatesKeeps
  DEF Continue

LEMMA AbortKeeps ==
  ASSUME LegalInv, NEW w \in Workers, Abort(w)
  PROVE  LegalInv'
<1>1. TypeOK /\ calm' \in BOOLEAN /\ UNCHANGED <<loan, row, debit, stale, trace>>
  BY DEF Abort, LegalInv
<1>2. aborts' \in 0 .. MaxAborts
  BY <1>1, LegalAssumption DEF Abort, TypeOK
<1>3. /\ pc' \in [Workers -> Labels]
      /\ task' \in [Workers -> Tasks]
      /\ Others(w)
      /\ HandlerOK(w)'
  BY EndOrRest DEF Abort
<1>4. TypeOK'
  BY <1>1, <1>2, <1>3 DEF TypeOK, Tasks
<1> QED BY <1>1, <1>3, <1>4, RowsStay, StepKeeps

-----------------------------------------------------------------------------
LEMMA LegalInit ==
  ASSUME Init
  PROVE  LegalInv
<1>1. \A r \in RowIds : row[r] = NoRow
  BY DEF Init
<1>2. TypeOK
  <2>1. /\ row = [r \in RowIds |-> NoRow]
        /\ debit = [d \in DebitIds |-> NoDebit]
        /\ task = [w \in Workers |-> NoTask]
    BY DEF Init
  <2>2. NoRow \in RowTypes
    BY LegalAssumption DEF NoRow, RowTypes
  <2>3. NoDebit \in DebitTypes
    BY DEF NoDebit, DebitTypes
  <2>4. task \in [Workers -> Tasks]
    BY <2>1, NoTaskTyped
  <2>5. row \in [RowIds -> RowTypes] /\ debit \in [DebitIds -> DebitTypes]
    BY <2>1, <2>2, <2>3
  <2>6. loan \in [status : {"Active", "Complete"}, type : Types \union {"NONE", "AUTODEBIT"},
                  at : 0 .. MaxRows, followed : BOOLEAN]
    BY LegalAssumption DEF Init
  <2>7. pc \in [Workers -> Labels]
    BY DEF Init, Labels
  <2>8. stale = {} /\ trace = {} /\ calm \in BOOLEAN /\ aborts \in 0 .. MaxAborts
    BY LegalAssumption DEF Init
  <2> QED BY <2>4, <2>5, <2>6, <2>7, <2>8 DEF TypeOK, Tasks, RowTypes, DebitTypes
<1>3. HandlersOK
  BY DEF Init, HandlersOK, HandlerOK
<1>4. CaseByTheBook
  BY <1>1 DEF CaseByTheBook, Grounded, NoRow
<1> QED BY <1>2, <1>3, <1>4 DEF LegalInv

(* Time goes by, or nothing happens. *)
LEMMA IdleKeeps ==
  ASSUME LegalInv, UNCHANGED <<loan, row, debit, trace, pc, task, calm, aborts>>,
         stale' \subseteq DebitIds
  PROVE  LegalInv'
<1>1. Grows /\ SameStages
  BY RowsStay
<1>2. \A w \in Workers : HandlerOK(w)'
  BY <1>1, HandlerStays DEF LegalInv, HandlersOK
<1>3. TypeOK'
  BY DEF LegalInv, TypeOK
<1> QED BY <1>1, <1>2, <1>3, GroundedStays DEF LegalInv, HandlersOK

LEMMA LegalStep ==
  ASSUME LegalInv, [Next]_vars
  PROVE  LegalInv'
<1>1. CASE \E w \in Workers : Handle(w) \/ Continue(w) \/ Abort(w)
  BY <1>1, HandleKeeps, ContinueKeeps, AbortKeeps
<1>2. CASE SevenDaysPass
  <2>1. stale' \subseteq DebitIds
    BY <1>2 DEF SevenDaysPass, Unanswered, LegalInv, TypeOK
  <2> QED BY <1>2, <2>1, IdleKeeps DEF SevenDaysPass
<1>3. CASE UNCHANGED vars
  <2>1. stale' \subseteq DebitIds
    BY <1>3 DEF vars, LegalInv, TypeOK
  <2> QED BY <1>3, <2>1, IdleKeeps DEF vars
<1> QED BY <1>1, <1>2, <1>3 DEF Next

(* The inductive invariant: in every interleaving of any number of         *)
(* handlers, what a handler read about stages is still true when it writes.*)
THEOREM LegalInvariance == Spec => []LegalInv
<1> QED BY LegalInit, LegalStep, PTL DEF Spec

(* Every table of the proceedings and every handler stays in its domain.   *)
THEOREM LegalTypeCorrect == Spec => []TypeOK
<1>1. LegalInv => TypeOK
  BY DEF LegalInv
<1> QED BY <1>1, LegalInvariance, PTL

(* A notice follows a refused debit, a case a notice, a summons the        *)
(* filing, a warrant a summons, and a case ends without being withdrawn    *)
(* only against a loan that is Complete: moveLegalNextStep and its callers *)
(* keep this although each works on rows it read many awaits before.       *)
THEOREM LegalByTheBook == Spec => []CaseByTheBook
<1>1. LegalInv => CaseByTheBook
  BY DEF LegalInv
<1> QED BY <1>1, LegalInvariance, PTL
=============================================================================
