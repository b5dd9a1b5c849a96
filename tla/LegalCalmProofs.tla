--------------------------- MODULE LegalCalmProofs ---------------------------
(***************************************************************************)
(* Proofs about Legal while handlers neither overlap nor die: a loan has   *)
(* one proceeding at most and shows its stage, no debit leads to two       *)
(* notices, and a loan that is Complete leaves nothing open.  Any number   *)
(* of handlers may exist; calm says that they took turns so far.           *)
(***************************************************************************)
EXTENDS LegalProofs

-----------------------------------------------------------------------------
(* The tables between two handlers.  A debit that waits for the bank is    *)
(* the only one, and its loan has no row and is not eligible for a notice. *)

Single(S) == \A c, d \in S : c = d

Linked == \A r \in Current(Types) : loan.at = r /\ loan.type = row[r].type
Waiting ==
  /\ Single(Pending)
  /\ Pending # {} => Current(Types) = {} /\ loan.type = "AUTODEBIT"
Closed == loan.followed /\ ~Active => Current(Open) = {}
Rest == Linked /\ Waiting /\ Closed

(* Always: a row is history because another took its place, or because its *)
(* case was put aside for a debit.                                         *)
Superseded ==
  \A r \in Rows : row[r].history => row[r].type = "TO_FILE" \/ \E s \in Rows : r < s

(* Always: a debit that led to a notice is remarked or about to be.        *)
Remarking(d) ==
  \E w \in Workers : /\ pc[w] \in {"link", "remark"}
                     /\ task[w].job = "notice"
                     /\ task[w].debit = d
OneNotice ==
  /\ \A r \in Rows : row[r].type = "NOTICE" =>
       \/ row[r].debit \in DebitIds /\ debit[row[r].debit].noticed
       \/ Remarking(row[r].debit)
  /\ \A r, s \in Rows :
       row[r].type = "NOTICE" /\ row[s].type = "NOTICE" /\ r # s
         => row[r].debit # row[s].debit

(* What the handler at work knows at each of its awaits: which of the rows *)
(* are current, that no debit waits while it moves one, and that it opens  *)
(* a stage only for a loan that is Active.                                 *)
Retiring(t) ==
  IF t.job = "retire"
    THEN t.row \in Rows /\ row[t.row].type = "TO_FILE" /\ Current(Types) \subseteq {t.row}
    ELSE Current(Types) = {}

Stage(l, t) ==
  /\ l \in {"idle", "read"} => t.job # "retire"
  /\ l = "create" => /\ t.todo = {}
                     /\ t.row \in Current(Types)
                     /\ Current(Types) \subseteq {t.row}
                     /\ Pending = {}
                     /\ Target(t.job, row[t.row].type) \in Open => Active
  /\ l = "mark" => /\ t.row < t.new
                   /\ Current(Types) \subseteq {t.row, t.new}
  /\ l = "link" => Current(Types) \subseteq {t.new}
  /\ l \in {"mark", "link"} => /\ t.todo = {}
                               /\ t.new \in Rows
                               /\ Pending = {}
                               /\ row[t.new].type \in Open => Active
  /\ l \in {"assign", "owing"} => t.row \in Current(Types)
  /\ l = "owing" => Active
  /\ l = "close" => Linked /\ Waiting
  /\ l \in {"trace", "dispose"} /\ t.job = "disposePaid" => t.row \in Newest(Rows)
  /\ l \in {"assign", "owing", "trace", "dispose", "remark", "read", "debits", "check",
            "place"} => Rest
  /\ l = "debits" => t.job # "retire" /\ Eligible
  /\ l = "notice" => /\ Active
                     /\ Current(Types) = {}
                     /\ Pending = {}
                     /\ t.todo = {}
                     /\ ~debit[t.debit].noticed
  /\ l \in {"check", "place", "placed", "retire"} => Retiring(t)
  /\ l \in {"check", "place"} => Pending = {}
  /\ l = "placed" => Single(Pending)
  /\ l = "retire" => t.job = "retire" /\ Single(Pending) /\ loan.type = "AUTODEBIT"
  /\ l = "fail" => Current(Types) = {} /\ Single(Pending) /\ t.debit \in Pending
  /\ l = "eligible" => Current(Types) = {} /\ Pending = {}
  /\ l # "dedupe"

(* The inductive invariant. *)
Calm ==
  calm =>
    /\ \A v, w \in Workers : Idle(v) \/ Idle(w) \/ v = w
    /\ Quiet => Rest
    /\ Superseded
    /\ OneNotice
    /\ \A w \in Workers : Stage(pc[w], task[w])

(* The part of it that is about one handler, the only one at work. *)
Alone(w) == \A v \in Workers \ {w} : Idle(v)
Sound(w) ==
  /\ Superseded
  /\ OneNotice
  /\ Stage(pc[w], task[w])
  /\ Idle(w) => Rest

-----------------------------------------------------------------------------
(* What follows when the tables stay as they are. *)

LEMMA SameTables ==
  ASSUME UNCHANGED <<loan, row, debit>>
  PROVE  /\ \A T : Current(T)' = Current(T)
         /\ Rows' = Rows /\ Pending' = Pending /\ Active' = Active
         /\ Newest(Rows)' = Newest(Rows)
         /\ Rest' = Rest /\ Linked' = Linked /\ Waiting' = Waiting
         /\ Superseded' = Superseded
<1>1. \A T : Current(T)' = Current(T)
  BY DEF Current, Rows
<1>2. Rows' = Rows /\ Pending' = Pending /\ Active' = Active
  BY DEF Rows, Pending, Unanswered, Active
<1>3. Newest(Rows)' = Newest(Rows)
  BY <1>2 DEF Newest
<1>4. Linked' = Linked /\ Waiting' = Waiting
  BY <1>1, <1>2 DEF Linked, Waiting, Single
<1>5. Closed' = Closed
  BY <1>1, <1>2 DEF Closed
<1>6. Superseded' = Superseded
  BY <1>2 DEF Superseded
<1> QED BY <1>1, <1>2, <1>3, <1>4, <1>5, <1>6 DEF Rest

LEMMA StageSame ==
  ASSUME UNCHANGED <<loan, row, debit>>, NEW l, NEW t, Stage(l, t)
  PROVE  Stage(l, t)'
<1>1. Retiring(t)' = Retiring(t)
  BY SameTables DEF Retiring
<1>2. Eligible' = Eligible
  BY SameTables DEF Eligible
<1> QED BY <1>1, <1>2, SameTables DEF Stage

LEMMA StageAt ==
  ASSUME NEW w, NEW l, NEW t, pc'[w] = l, task'[w] = t, Stage(l, t)'
  PROVE  Stage(pc[w], task[w])'
<1>1. Retiring(t)' = Retiring(task[w])'
  BY DEF Retiring
<1> QED BY <1>1 DEF Stage

(* The notices stay one for each debit. *)
LEMMA NoticesKept ==
  ASSUME LegalInv, OneNotice,
         \A r \in Rows' : row'[r].type = "NOTICE" =>
           r \in Rows /\ row[r].type = "NOTICE" /\ row'[r].debit = row[r].debit,
         \A d \in DebitIds : debit[d].noticed => debit'[d].noticed,
         \A d \in DebitIds : Remarking(d) => Remarking(d)' \/ debit'[d].noticed
  PROVE  OneNotice'
<1>1. \A r \in Rows : row[r].type = "NOTICE" => row[r].debit \in DebitIds
  BY DEF LegalInv, CaseByTheBook, Grounded, Rows
<1>2. ASSUME NEW r \in Rows', row'[r].type = "NOTICE"
      PROVE  \/ row'[r].debit \in DebitIds /\ debit'[row'[r].debit].noticed
             \/ \E v \in Workers : /\ pc'[v] \in {"link", "remark"}
                                   /\ task'[v].job = "notice"
                                   /\ task'[v].debit = row'[r].debit
  <2> PICK d : d = row[r].debit
    OBVIOUS
  <2>1. d \in DebitIds /\ row'[r].debit = d /\ (debit[d].noticed \/ Remarking(d))
    BY <1>1, <1>2 DEF OneNotice
  <2>2. debit'[d].noticed \/ Remarking(d)'
    BY <2>1
  <2> QED BY <2>1, <2>2 DEF Remarking
<1>3. \A r, s \in Rows' :
         row'[r].type = "NOTICE" /\ row'[s].type = "NOTICE" /\ r # s
           => row'[r].debit # row'[s].debit
  BY DEF OneNotice
<1> QED BY <1>2, <1>3 DEF OneNotice, Remarking

LEMMA NotRemarking ==
  ASSUME NEW w \in Workers, Alone(w), NEW d, Remarking(d)
  PROVE  pc[w] \in {"link", "remark"} /\ task[w].job = "notice" /\ task[w].debit = d
  BY DEF Remarking, Alone, Idle

LEMMA NoticesStay ==
  ASSUME LegalInv, OneNotice, NEW w \in Workers, Alone(w),
         \A r \in Rows' : row'[r].type = "NOTICE" =>
           r \in Rows /\ row[r].type = "NOTICE" /\ row'[r].debit = row[r].debit,
         \A d \in DebitIds : debit[d].noticed => debit'[d].noticed,
         pc[w] \notin {"link", "remark"} \/ task[w].job # "notice"
  PROVE  OneNotice'
<1>1. \A d : ~Remarking(d)
  BY NotRemarking
<1> QED BY <1>1, NoticesKept

LEMMA QuietSound ==
  ASSUME LegalInv, NEW w \in Workers, Alone(w), Sound(w),
         UNCHANGED <<loan, row, debit>>, pc[w] \notin {"link", "remark"},
         NEW l, NEW t, pc'[w] = l, task'[w] = t, Stage(l, t),
         l = "idle" => Rest
  PROVE  Sound(w)'
<1>1. Stage(pc[w], task[w])'
  BY StageSame, StageAt
<1>2. Rest' = Rest /\ Superseded' = Superseded
  BY SameTables
<1>3. OneNotice'
  <2>1. Rows' = Rows
    BY SameTables
  <2> QED BY <2>1, NoticesStay DEF Sound
<1> QED BY <1>1, <1>2, <1>3 DEF Sound, Idle

LEMMA DoneSound ==
  ASSUME LegalInv, NEW w \in Workers, Alone(w), Sound(w),
         UNCHANGED <<loan, row, debit>>, pc[w] \notin {"link", "remark"},
         Done(w), Rest
  PROVE  Sound(w)'
<1>1. pc'[w] = "idle" /\ task'[w] = NoTask
  BY DEF Done, Goto, LegalInv, TypeOK
<1>2. Stage("idle", NoTask)
  BY DEF Stage, NoTask
<1> QED BY <1>1, <1>2, QuietSound

(* The one current row of a loan at rest. *)
LEMMA OnlyCurrent ==
  ASSUME Linked, NEW T, NEW r \in Current(T), T \subseteq Types
  PROVE  /\ r \in Current(Types)
         /\ Current(Types) = {r}
         /\ Waiting => Pending = {}
  BY DEF Linked, Waiting, Current

(* A handler takes the only current row. *)
LEMMA TakeSound ==
  ASSUME LegalInv, NEW w \in Workers, Alone(w), Sound(w),
         UNCHANGED <<loan, row, debit>>, pc[w] \notin {"link", "remark"},
         Linked, Waiting,
         NEW job, NEW todo \in SUBSET Current(Types), TakeNext(w, job, todo),
         todo = {} => Rest,
         \A r \in todo : Target(job, row[r].type) \in Open => Active
  PROVE  Sound(w)'
<1>1. CASE todo = {}
  BY <1>1, DoneSound DEF TakeNext
<1>2. CASE todo # {}
  <2>1. PICK r \in todo :
          /\ Goto(w, "create")
          /\ task' = [task EXCEPT ![w] = Job(job, r, todo \ {r})]
    BY <1>2 DEF TakeNext
  <2>2. r \in Current(Types) /\ Current(Types) = {r} /\ Pending = {}
    BY <2>1, OnlyCurrent
  <2> DEFINE t == Job(job, r, todo \ {r})
  <2>3. t.todo = {} /\ t.row = r /\ t.job = job
    BY <2>2 DEF Job
  <2>4. pc'[w] = "create" /\ task'[w] = t
    BY <2>1 DEF Goto, LegalInv, TypeOK
  <2> HIDE DEF t
  <2>5. Stage("create", t)
    BY <2>1, <2>2, <2>3 DEF Stage
  <2> QED BY <2>4, <2>5, QuietSound
<1> QED BY <1>1, <1>2

-----------------------------------------------------------------------------
(* Requests, at rest *)

LEMMA CurrentOf ==
  ASSUME NEW T, T \subseteq Types
  PROVE  Current(T) \subseteq Current(Types)
  BY DEF Current

LEMMA Ends ==
  /\ "WITHDRAWAL" \notin Open /\ "PAID" \notin Open /\ "DISPOSAL" \notin Open
  /\ \A type : Target("withdraw", type) \notin Open
  /\ \A type : Target("close", type) \notin Open
  /\ \A type : Target("dispose", type) \notin Open
  /\ \A type : Target("disposePaid", type) \notin Open
  BY DEF Open, Target

LEMMA MoveSound ==
  ASSUME LegalInv, NEW w \in Workers, Alone(w), Sound(w),
         NEW job, NEW T, T \subseteq Types, NEW todo \in SUBSET Current(T),
         Move(w, job, todo),
         Active \/ \A type : Target(job, type) \notin Open
  PROVE  Sound(w)'
<1>1. UNCHANGED <<loan, row, debit>> /\ pc[w] = "idle" /\ todo # {} /\ TakeNext(w, job, todo)
  BY DEF Move, Start, Idle
<1>2. Linked /\ Waiting
  BY <1>1 DEF Sound, Rest, Idle
<1>3. todo \in SUBSET Current(Types)
  BY CurrentOf
<1> QED BY <1>1, <1>2, <1>3, TakeSound

LEMMA MoveRequestsSound ==
  ASSUME LegalInv, NEW w \in Workers, Alone(w), Sound(w),
         \/ MoveToCaseToBeFile(w) \/ MoveToProgress(w) \/ FillingInProgress(w)
         \/ UploadSummons(w) \/ UploadWarrent(w) \/ CaseWithdrawal(w)
         \/ CaseDisposal(w) \/ CloseLegal(w)
  PROVE  Sound(w)'
<1>1. \A T \in SUBSET Types : \A R \in SUBSET Current(T) : \A job :
        Move(w, job, R) /\ (Active \/ \A type : Target(job, type) \notin Open) => Sound(w)'
  BY MoveSound
<1>2. /\ {"NOTICE"} \in SUBSET Types /\ {"TO_FILE"} \in SUBSET Types
      /\ {"IN_PROGRESS"} \in SUBSET Types /\ {"FILLED", "SUMMONS"} \in SUBSET Types
      /\ {"SUMMONS", "WARRENT"} \in SUBSET Types /\ {"WARRENT"} \in SUBSET Types
      /\ {"WITHDRAWAL"} \in SUBSET Types /\ Open \in SUBSET Types
  BY DEF Types, Open, Over
<1>3. CASE MoveToCaseToBeFile(w)
  BY <1>1, <1>2, <1>3 DEF MoveToCaseToBeFile
<1>4. CASE MoveToProgress(w)
  BY <1>1, <1>2, <1>4 DEF MoveToProgress
<1>5. CASE FillingInProgress(w)
  <2>1. PICK r \in Current({"IN_PROGRESS"}) : Active /\ Move(w, "file", {r})
    BY <1>5 DEF FillingInProgress
  <2>2. {r} \in SUBSET Current({"IN_PROGRESS"})
    OBVIOUS
  <2> QED BY <1>1, <1>2, <2>1, <2>2
<1>6. CASE UploadSummons(w)
  <2>1. PICK r \in Current({"FILLED", "SUMMONS"}) : Active /\ Move(w, "summons", {r})
    BY <1>6 DEF UploadSummons
  <2>2. {r} \in SUBSET Current({"FILLED", "SUMMONS"})
    OBVIOUS
  <2> QED BY <1>1, <1>2, <2>1, <2>2
<1>7. CASE UploadWarrent(w)
  <2>1. PICK r \in Current({"SUMMONS", "WARRENT"}) : Active /\ Move(w, "warrant", {r})
    BY <1>7 DEF UploadWarrent
  <2>2. {r} \in SUBSET Current({"SUMMONS", "WARRENT"})
    OBVIOUS
  <2> QED BY <1>1, <1>2, <2>1, <2>2
<1>8. CASE CaseWithdrawal(w)
  <2>1. PICK r \in Current({"WARRENT"}) : Move(w, "withdraw", {r})
    BY <1>8 DEF CaseWithdrawal
  <2>2. {r} \in SUBSET Current({"WARRENT"})
    OBVIOUS
  <2> QED BY <1>1, <1>2, <2>1, <2>2, Ends
<1>9. CASE CaseDisposal(w)
  <2>1. PICK r \in Current({"WITHDRAWAL"}) : Move(w, "dispose", {r})
    BY <1>9 DEF CaseDisposal
  <2>2. {r} \in SUBSET Current({"WITHDRAWAL"})
    OBVIOUS
  <2> QED BY <1>1, <1>2, <2>1, <2>2, Ends
<1>10. CASE CloseLegal(w)
  <2>1. Move(w, "close", Current(Open))
    BY <1>10 DEF CloseLegal, Closable
  <2>2. Current(Open) \in SUBSET Current(Open)
    OBVIOUS
  <2> QED BY <1>1, <1>2, <2>1, <2>2, Ends
<1> QED BY <1>3, <1>4, <1>5, <1>6, <1>7, <1>8, <1>9, <1>10

(* A request that begins with a step of its own. *)
LEMMA BeginSound ==
  ASSUME LegalInv, NEW w \in Workers, Alone(w), Sound(w), Start(w),
         UNCHANGED <<loan, row, debit>>,
         NEW l, NEW t, Goto(w, l), task' = [task EXCEPT ![w] = t],
         Stage(l, t), l # "idle"
  PROVE  Sound(w)'
<1>1. pc'[w] = l /\ task'[w] = t
  BY DEF Goto, LegalInv, TypeOK
<1> QED BY <1>1, QuietSound DEF Start, Idle

LEMMA AssignToCollectionSound ==
  ASSUME LegalInv, NEW w \in Workers, Alone(w), Sound(w), AssignToCollection(w)
  PROVE  Sound(w)'
<1>1. PICK r \in Current({"NOTICE", "TO_FILE", "IN_PROGRESS"}) :
        task' = [task EXCEPT ![w] = Job("assign", r, {})]
  BY DEF AssignToCollection
<1>2. r \in Current(Types)
  BY DEF Current, Types, Open
<1> DEFINE t == Job("assign", r, {})
<1>3. t.row = r /\ t.job = "assign" /\ t.todo = {}
  BY DEF Job
<1> HIDE DEF t
<1>4. Rest
  BY DEF Sound, AssignToCollection, Start
<1>5. Stage("assign", t)
  BY <1>2, <1>3, <1>4 DEF Stage
<1> QED BY <1>1, <1>5, BeginSound DEF AssignToCollection, t

LEMMA DisposalViaFileSound ==
  ASSUME LegalInv, NEW w \in Workers, Alone(w), Sound(w), DisposalViaFile(w)
  PROVE  Sound(w)'
<1>1. PICK job \in {"dispose", "disposePaid"} : \E r \in Disposable(job) :
        task' = [task EXCEPT ![w] = Job(job, r, {})]
  BY DEF DisposalViaFile
<1>2. PICK r \in Disposable(job) : task' = [task EXCEPT ![w] = Job(job, r, {})]
  BY <1>1
<1>3. job = "disposePaid" => r \in Newest(Rows)
  BY <1>2 DEF Disposable
<1> DEFINE t == Job(job, r, {})
<1>4. t.row = r /\ t.job = job
  BY DEF Job
<1> HIDE DEF t
<1>5. Rest
  BY DEF Sound, DisposalViaFile, Start
<1>6. Stage("trace", t)
  BY <1>3, <1>4, <1>5 DEF Stage
<1> QED BY <1>2, <1>6, BeginSound DEF DisposalViaFile, t

LEMMA AfterCaseSound ==
  ASSUME LegalInv, NEW w \in Workers, Alone(w), Sound(w), PlaceAutodebitAfterCase(w)
  PROVE  Sound(w)'
<1>1. PICK r \in Current({"TO_FILE"}) :
        task' = [task EXCEPT ![w] = Job("retire", r, {})]
  BY DEF PlaceAutodebitAfterCase
<1>2. Rest
  BY DEF Sound, PlaceAutodebitAfterCase, Start
<1>3. Current(Types) = {r} /\ r \in Rows /\ row[r].type = "TO_FILE" /\ Pending = {}
  <2>1. {"TO_FILE"} \subseteq Types
    BY DEF Types, Open
  <2> QED BY <1>2, <2>1, OnlyCurrent DEF Rest, Current
<1> DEFINE t == Job("retire", r, {})
<1>4. t.row = r /\ t.job = "retire"
  BY DEF Job
<1> HIDE DEF t
<1>5. Stage("check", t)
  BY <1>2, <1>3, <1>4 DEF Stage, Retiring
<1> QED BY <1>1, <1>5, BeginSound DEF PlaceAutodebitAfterCase, t

LEMMA ReportDebitSound ==
  ASSUME LegalInv, NEW w \in Workers, Alone(w), Sound(w), ReportDebit(w)
  PROVE  Sound(w)'
<1>1. PICK d \in Pending : task' = [task EXCEPT ![w].debit = d]
  BY DEF ReportDebit
<1>2. Rest
  BY DEF Sound, ReportDebit, Start
<1>3. pc'[w] = "fail" /\ task'[w].debit = d /\ pc[w] = "idle"
  BY <1>1 DEF ReportDebit, Goto, LegalInv, TypeOK, Start, Idle
<1> PICK t : t = task'[w]
  OBVIOUS
<1>4. Stage("fail", t)
  BY <1>1, <1>2, <1>3 DEF Stage, Rest, Waiting
<1> QED BY <1>3, <1>4, QuietSound DEF ReportDebit

LEMMA CreateLegalNoticeSound ==
  ASSUME LegalInv, NEW w \in Workers, Alone(w), Sound(w), CreateLegalNotice(w)
  PROVE  Sound(w)'
<1> PICK t : t = task[w]
  OBVIOUS
<1>1. pc[w] = "idle" /\ UNCHANGED <<loan, row, debit>> /\ Eligible
  BY DEF CreateLegalNotice, Start, Idle
<1>2. pc'[w] = "debits" /\ task'[w] = t
  BY DEF CreateLegalNotice, Goto, LegalInv, TypeOK
<1>3. Stage("debits", t)
  BY <1>1 DEF Sound, Stage, Idle
<1> QED BY <1>1, <1>2, <1>3, QuietSound

(* At rest there is no stage with two current rows. *)
LEMMA NoDuplicates ==
  ASSUME LegalInv, NEW w \in Workers, Sound(w), RemoveDuplicates(w)
  PROVE  FALSE
<1>1. PICK r \in Rows : \E s, t \in Current({row[r].type}) : s # t
  BY DEF RemoveDuplicates, Duplicates
<1>2. row[r].type \in Types
  BY DEF LegalInv, TypeOK, Rows
<1>3. Linked
  BY DEF RemoveDuplicates, Start, Sound, Rest
<1> QED BY <1>1, <1>2, <1>3, OnlyCurrent

LEMMA CloseTheLoanSound ==
  ASSUME LegalInv, NEW w \in Workers, Alone(w), Sound(w), CloseTheLoan(w)
  PROVE  Sound(w)'
<1>1. pc[w] = "idle" /\ pc'[w] = "close" /\ task'[w] = task[w] /\ UNCHANGED <<row, debit>>
  BY DEF CloseTheLoan, Start, Idle, Goto, LegalInv, TypeOK
<1>2. loan'.at = loan.at /\ loan'.type = loan.type
  BY DEF CloseTheLoan, LegalInv, TypeOK
<1>3. Linked /\ Waiting /\ Superseded /\ OneNotice
  BY <1>1 DEF Sound, Rest, Idle
<1>4. Rows' = Rows /\ Pending' = Pending /\ Current(Types)' = Current(Types)
  BY <1>1 DEF Rows, Pending, Unanswered, Current
<1>5. Linked' /\ Waiting' /\ Superseded'
  BY <1>1, <1>2, <1>3, <1>4 DEF Linked, Waiting, Superseded, Single
<1>6. OneNotice'
  BY <1>1, <1>3, <1>4, NoticesStay
<1>7. Stage("close", task[w])'
  BY <1>5 DEF Stage
<1>8. Stage(pc[w], task[w])'
  BY <1>1, <1>5 DEF Stage
<1> QED BY <1>1, <1>5, <1>6, <1>8 DEF Sound, Idle

-----------------------------------------------------------------------------
(* Handlers in flight *)

LEMMA CalcuLoanRepaymentSound ==
  ASSUME LegalInv, NEW w \in Workers, Alone(w), Sound(w), CalcuLoanRepayment(w)
  PROVE  Sound(w)'
<1> PICK t : t = task[w]
  OBVIOUS
<1>1. pc[w] = "assign" /\ UNCHANGED <<loan, row, debit>>
  BY DEF CalcuLoanRepayment, Step
<1>2. Rest /\ t.row \in Current(Types)
  BY <1>1 DEF Sound, Stage
<1>3. CASE Done(w)
  BY <1>1, <1>2, <1>3, DoneSound
<1>4. CASE Active /\ Goto(w, "owing") /\ UNCHANGED task
  <2>1. pc'[w] = "owing" /\ task'[w] = t
    BY <1>4 DEF Goto, LegalInv, TypeOK
  <2>2. Stage("owing", t)
    BY <1>2, <1>4 DEF Stage
  <2> QED BY <1>1, <2>1, <2>2, QuietSound
<1> QED BY <1>3, <1>4 DEF CalcuLoanRepayment

LEMMA AssignLoanSound ==
  ASSUME LegalInv, NEW w \in Workers, Alone(w), Sound(w), AssignLoan(w)
  PROVE  Sound(w)'
<1> PICK t : t = task[w]
  OBVIOUS
<1>1. /\ pc[w] = "owing" /\ UNCHANGED <<row, debit>>
      /\ loan' = [loan EXCEPT !.type = "ASSIGN"]
  BY DEF AssignLoan, Step
<1>2. /\ Superseded /\ OneNotice /\ Rest /\ t.row \in Current(Types) /\ Active
      /\ HandlerOK(w)
  BY <1>1, InFlight DEF Sound, Stage
<1>3. pc'[w] = "create" /\ task'[w] = t
  BY DEF AssignLoan, Goto, LegalInv, TypeOK
<1>4. Active'
  BY <1>1, <1>2 DEF Active, LegalInv, TypeOK
<1>5. Rows' = Rows /\ Pending' = Pending /\ Current(Types)' = Current(Types)
  BY <1>1 DEF Rows, Pending, Unanswered, Current
<1>6. t.todo = {}
  BY <1>1, <1>2 DEF HandlerOK
<1>7. Current(Types) = {t.row} /\ Pending = {}
  BY <1>2, OnlyCurrent DEF Rest
<1>8. Superseded'
  BY <1>1, <1>2, <1>5 DEF Superseded
<1>9. OneNotice'
  BY <1>1, <1>2, <1>5, NoticesStay
<1>10. Stage("create", t)'
  BY <1>4, <1>5, <1>6, <1>7 DEF Stage
<1>11. Stage(pc[w], task[w])'
  BY <1>3, <1>10, StageAt
<1> QED BY <1>3, <1>8, <1>9, <1>11 DEF Sound, Idle

LEMMA CloseReadSound ==
  ASSUME LegalInv, NEW w \in Workers, Alone(w), Sound(w), CloseRead(w)
  PROVE  Sound(w)'
<1> DEFINE todo == IF loan.followed THEN Closable ELSE {}
<1>1. pc[w] = "close" /\ UNCHANGED <<loan, row, debit>> /\ TakeNext(w, "close", todo)
  BY DEF CloseRead, Step
<1>2. Linked /\ Waiting
  BY <1>1 DEF Sound, Stage
<1>3. todo \in SUBSET Current(Types)
  BY DEF Closable, Current, Types
<1>4. todo = {} => Rest
  BY <1>2 DEF Rest, Closed, Closable
<1> HIDE DEF todo
<1> QED BY <1>1, <1>2, <1>3, <1>4, Ends, TakeSound

LEMMA TraceDisposalSound ==
  ASSUME LegalInv, NEW w \in Workers, Alone(w), Sound(w), TraceDisposal(w)
  PROVE  Sound(w)'
<1> PICK t : t = task[w]
  OBVIOUS
<1>1. pc[w] = "trace" /\ UNCHANGED <<loan, row, debit>>
  BY DEF TraceDisposal, Step
<1>2. Rest /\ (t.job = "disposePaid" => t.row \in Newest(Rows))
  BY <1>1 DEF Sound, Stage
<1>3. CASE Done(w)
  BY <1>1, <1>2, <1>3, DoneSound
<1>4. CASE Goto(w, "dispose") /\ UNCHANGED task
  <2>1. pc'[w] = "dispose" /\ task'[w] = t
    BY <1>4 DEF Goto, LegalInv, TypeOK
  <2>2. Stage("dispose", t)
    BY <1>2 DEF Stage
  <2> QED BY <1>1, <2>1, <2>2, QuietSound
<1> QED BY <1>3, <1>4 DEF TraceDisposal

(* A newest row that is history was put aside for another debit. *)
LEMMA DisposalReadSound ==
  ASSUME LegalInv, NEW w \in Workers, Alone(w), Sound(w), DisposalRead(w)
  PROVE  Sound(w)'
<1> PICK t : t = task[w]
  OBVIOUS
<1> DEFINE found == IF t.job = "dispose"
                      THEN t.row \in Current({"WITHDRAWAL"})
                      ELSE row[t.row].type \in InCourt \union {"WITHDRAWAL", "PAID", "ASSIGN"}
           todo == IF found THEN {t.row} ELSE {}
<1>1. /\ pc[w] = "dispose" /\ UNCHANGED <<loan, row, debit>> /\ TakeNext(w, t.job, todo)
      /\ t.job \in {"dispose", "disposePaid"}
  BY InFlight DEF DisposalRead, Step, HandlerOK
<1>2. Rest /\ Superseded /\ (t.job = "disposePaid" => t.row \in Newest(Rows))
  BY <1>1 DEF Sound, Stage
<1>3. todo \in SUBSET Current(Types)
  <2>1. CASE t.job = "dispose"
    BY <2>1 DEF Current, Types, Over
  <2>2. CASE t.job = "disposePaid" /\ found
    <3>1. t.row \in Rows /\ \A s \in Rows : s <= t.row
      BY <1>2, <2>2 DEF Newest
    <3>2. Rows \subseteq Int
      BY DEF Rows, RowIds
    <3>3. row[t.row].type # "TO_FILE" /\ row[t.row].type \in Types
      BY <2>2 DEF InCourt, Types, Open, Over
    <3>4. ~row[t.row].history
      <4>1. ASSUME NEW s \in Rows PROVE ~(t.row < s)
        <5>1. s \in Int /\ t.row \in Int /\ s <= t.row
          BY <3>1, <3>2
        <5> QED BY <5>1
      <4> QED BY <1>2, <3>1, <3>3, <4>1 DEF Superseded
    <3> QED BY <3>1, <3>3, <3>4 DEF Current
  <2> QED BY <1>1, <2>1, <2>2
<1> HIDE DEF todo
<1>4. \A type : Target(t.job, type) \notin Open
  BY <1>1, Ends
<1> QED BY <1>1, <1>2, <1>3, <1>4, TakeSound DEF Rest

LEMMA NoticeAgainSound ==
  ASSUME LegalInv, NEW w \in Workers, Alone(w), Sound(w), NoticeAgain(w)
  PROVE  Sound(w)'
<1> PICK t : t = task[w]
  OBVIOUS
<1>1. pc[w] = "read" /\ Rest /\ UNCHANGED <<loan, row, debit>> /\ t.job # "retire"
  BY DEF NoticeAgain, Step, Sound, Stage
<1>2. CASE Eligible /\ Goto(w, "debits") /\ UNCHANGED task
  <2>1. pc'[w] = "debits" /\ task'[w] = t
    BY <1>2 DEF Goto, LegalInv, TypeOK
  <2>2. Stage("debits", t)
    BY <1>1, <1>2 DEF Stage
  <2> QED BY <1>1, <2>1, <2>2, QuietSound
<1>3. CASE Done(w)
  BY <1>1, <1>3, DoneSound
<1> QED BY <1>2, <1>3 DEF NoticeAgain

LEMMA ReadDebitsSound ==
  ASSUME LegalInv, NEW w \in Workers, Alone(w), Sound(w), ReadDebits(w)
  PROVE  Sound(w)'
<1> PICK t : t = task[w]
  OBVIOUS
<1>1. /\ pc[w] = "debits" /\ UNCHANGED <<loan, row, debit>> /\ t.job # "retire"
      /\ Rest /\ Eligible
  BY DEF ReadDebits, Step, Sound, Stage
<1>2. Current(Types) = {}
  BY <1>1 DEF Rest, Linked, Eligible, Current, Rows
<1>3. Pending = {}
  BY <1>1 DEF Rest, Waiting, Eligible
<1>4. CASE Goto(w, "check") /\ UNCHANGED task
  <2>1. pc'[w] = "check" /\ task'[w] = t
    BY <1>4 DEF Goto, LegalInv, TypeOK
  <2>2. Stage("check", t)
    BY <1>1, <1>2, <1>3 DEF Stage, Retiring
  <2> QED BY <1>1, <2>1, <2>2, QuietSound
<1>5. ASSUME NEW d \in Newest(Refused), Goto(w, "notice"),
             task' = [task EXCEPT ![w] = NoticeJob(d)]
      PROVE  Sound(w)'
  <2> PICK u : u = NoticeJob(d)
    OBVIOUS
  <2>1. u.todo = {} /\ u.debit = d
    BY DEF NoticeJob
  <2>2. pc'[w] = "notice" /\ task'[w] = u
    BY <1>5 DEF Goto, LegalInv, TypeOK
  <2>3. ~debit[d].noticed
    BY DEF Newest, Refused
  <2>4. Stage("notice", u)
    BY <1>1, <1>2, <1>3, <2>1, <2>3 DEF Stage, Eligible
  <2> QED BY <1>1, <2>2, <2>4, QuietSound
<1> QED BY <1>4, <1>5 DEF ReadDebits

LEMMA CheckDebitSound ==
  ASSUME LegalInv, NEW w \in Workers, Alone(w), Sound(w), CheckDebit(w)
  PROVE  Sound(w)'
<1> PICK t : t = task[w]
  OBVIOUS
<1>1. /\ pc[w] = "check" /\ UNCHANGED <<loan, row, debit>> /\ Rest /\ Retiring(t)
      /\ Pending = {}
  BY DEF CheckDebit, Step, Sound, Stage
<1>2. CASE Goto(w, "place") /\ UNCHANGED task
  <2>1. pc'[w] = "place" /\ task'[w] = t
    BY <1>2 DEF Goto, LegalInv, TypeOK
  <2>2. Stage("place", t)
    BY <1>1 DEF Stage
  <2> QED BY <1>1, <2>1, <2>2, QuietSound
<1>3. CASE Done(w)
  BY <1>1, <1>3, DoneSound
<1> QED BY <1>2, <1>3 DEF CheckDebit

LEMMA PlaceDebitSound ==
  ASSUME LegalInv, NEW w \in Workers, Alone(w), Sound(w), PlaceDebit(w)
  PROVE  Sound(w)'
<1> PICK t : t = task[w]
  OBVIOUS
<1>1. pc[w] = "place" /\ UNCHANGED <<loan, row>>
  BY DEF PlaceDebit, Step
<1>2. Superseded /\ OneNotice /\ Rest /\ Pending = {} /\ Retiring(t)
  BY <1>1 DEF Sound, Stage
<1>3. CASE Done(w) /\ UNCHANGED debit
  BY <1>1, <1>2, <1>3, DoneSound
<1>4. ASSUME NEW d \in FreeDebits, NEW s \in {"INITIALIZED", "FAILED"}, NEW b \in BOOLEAN,
             debit' = [debit EXCEPT ![d].status = s, ![d].sent = b],
             \/ Goto(w, "placed") /\ UNCHANGED task
             \/ ~b /\ Done(w)
      PROVE  Sound(w)'
  <2>1. /\ d \in DebitIds /\ debit'[d].sent = b
        /\ \A c \in DebitIds : c # d => debit'[c] = debit[c]
        /\ \A c \in DebitIds : debit'[c].noticed = debit[c].noticed
    BY <1>4, NewDebit DEF LegalInv
  <2>2. Pending' \subseteq {d} /\ (~b => Pending' = {})
    BY <1>2, <2>1 DEF Pending, Unanswered
  <2>3. Rows' = Rows /\ \A T : Current(T)' = Current(T)
    BY <1>1 DEF Rows, Current
  <2>4. Superseded'
    BY <1>1, <1>2, <2>3 DEF Superseded
  <2>5. OneNotice'
    BY <1>1, <1>2, <2>1, <2>3, NoticesStay
  <2>6. CASE Goto(w, "placed") /\ UNCHANGED task
    <3>1. pc'[w] = "placed" /\ task'[w] = t
      BY <2>6 DEF Goto, LegalInv, TypeOK
    <3>2. Retiring(t)'
      BY <1>1, <1>2, <2>3 DEF Retiring
    <3>3. Stage("placed", t)'
      BY <2>2, <3>2 DEF Stage, Single
    <3>4. Stage(pc[w], task[w])'
      BY <3>1, <3>3, StageAt
    <3> QED BY <2>4, <2>5, <3>1, <3>4 DEF Sound, Idle
  <2>7. CASE ~b /\ Done(w)
    <3>1. pc'[w] = "idle" /\ task'[w] = NoTask
      BY <2>7 DEF Done, Goto, LegalInv, TypeOK
    <3>2. Stage("idle", NoTask)'
      BY DEF Stage, NoTask
    <3>3. Stage(pc[w], task[w])'
      BY <3>1, <3>2, StageAt
    <3>4. Rest'
      BY <1>1, <1>2, <2>2, <2>3, <2>7 DEF Rest, Linked, Waiting, Closed, Single, Active
    <3> QED BY <2>4, <2>5, <3>3, <3>4 DEF Sound
  <2> QED BY <1>4, <2>6, <2>7
<1> QED BY <1>3, <1>4 DEF PlaceDebit

LEMMA DebitPlacedSound ==
  ASSUME LegalInv, NEW w \in Workers, Alone(w), Sound(w), DebitPlaced(w)
  PROVE  Sound(w)'
<1> PICK t : t = task[w]
  OBVIOUS
<1>1. pc[w] = "placed" /\ UNCHANGED <<row, debit>>
  BY DEF DebitPlaced, Step
<1>2. Superseded /\ OneNotice /\ Retiring(t) /\ Single(Pending)
  BY <1>1 DEF Sound, Stage
<1>3. loan'.type = "AUTODEBIT"
  BY DEF DebitPlaced, LegalInv, TypeOK
<1>4. Rows' = Rows /\ Pending' = Pending /\ \A T : Current(T)' = Current(T)
  BY <1>1 DEF Rows, Pending, Unanswered, Current
<1>5. Superseded'
  BY <1>1, <1>2, <1>4 DEF Superseded
<1>6. OneNotice'
  BY <1>1, <1>2, <1>4, NoticesStay
<1>7. CASE t.job = "retire"
  <2>1. pc'[w] = "retire" /\ task'[w] = t
    BY <1>7 DEF DebitPlaced, Goto, LegalInv, TypeOK
  <2>2. Retiring(t)'
    BY <1>1, <1>2, <1>4 DEF Retiring
  <2>3. Stage("retire", t)'
    BY <1>2, <1>3, <1>4, <1>7, <2>2 DEF Stage, Single
  <2>4. Stage(pc[w], task[w])'
    BY <2>1, <2>3, StageAt
  <2> QED BY <1>5, <1>6, <2>1, <2>4 DEF Sound, Idle
<1>8. CASE t.job # "retire"
  <2>1. pc'[w] = "idle" /\ task'[w] = NoTask
    BY <1>8 DEF DebitPlaced, Done, Goto, LegalInv, TypeOK
  <2>2. Current(Types)' = {} /\ Current(Open)' = {}
    BY <1>2, <1>4, <1>8 DEF Retiring, Current, Types
  <2>3. Linked' /\ Waiting' /\ Closed'
    BY <1>2, <1>3, <1>4, <2>2 DEF Linked, Waiting, Closed, Single
  <2>4. Stage("idle", NoTask)'
    BY DEF Stage, NoTask
  <2>5. Stage(pc[w], task[w])'
    BY <2>1, <2>4, StageAt
  <2> QED BY <1>5, <1>6, <2>3, <2>5 DEF Sound, Rest
<1> QED BY <1>7, <1>8

(* A row becomes history. *)
LEMMA RowMarked ==
  ASSUME LegalInv, NEW r, row' = [row EXCEPT ![r].history = TRUE]
  PROVE  /\ Rows' = Rows
         /\ \A s \in Rows : row'[s].type = row[s].type /\ row'[s].debit = row[s].debit
         /\ \A T : Current(T)' = Current(T) \ {r}
         /\ Superseded /\ (r \in Rows => row[r].type = "TO_FILE" \/ \E s \in Rows : r < s)
              => Superseded'
<1>1. \A s \in RowIds : /\ row'[s].type = row[s].type /\ row'[s].debit = row[s].debit
                        /\ row'[s].history = (IF s = r THEN TRUE ELSE row[s].history)
  BY DEF LegalInv, TypeOK
<1>2. Rows' = Rows
  BY <1>1 DEF Rows
<1>3. ASSUME NEW T PROVE Current(T)' = Current(T) \ {r}
  <2>1. Rows \subseteq RowIds
    BY DEF Rows
  <2> QED BY <1>1, <1>2, <2>1 DEF Current
<1>4. ASSUME Superseded, r \in Rows => row[r].type = "TO_FILE" \/ \E s \in Rows : r < s
      PROVE  Superseded'
  <2>1. Rows \subseteq RowIds
    BY DEF Rows
  <2> QED BY <1>1, <1>2, <1>4, <2>1 DEF Superseded
<1>5. Rows \subseteq RowIds
  BY DEF Rows
<1> QED BY <1>1, <1>2, <1>3, <1>4, <1>5

LEMMA RetireRowSound ==
  ASSUME LegalInv, NEW w \in Workers, Alone(w), Sound(w), RetireRow(w)
  PROVE  Sound(w)'
<1> PICK t : t = task[w]
  OBVIOUS
<1>1. /\ pc[w] = "retire" /\ UNCHANGED <<loan, debit>>
      /\ row' = [row EXCEPT ![t.row].history = TRUE]
  BY DEF RetireRow, Step
<1>2. /\ Superseded /\ OneNotice /\ Single(Pending) /\ loan.type = "AUTODEBIT"
      /\ t.row \in Rows /\ row[t.row].type = "TO_FILE" /\ Current(Types) \subseteq {t.row}
  BY <1>1 DEF Sound, Stage, Retiring
<1>3. /\ Rows' = Rows /\ \A T : Current(T)' = Current(T) \ {t.row}
      /\ \A s \in Rows : row'[s].type = row[s].type /\ row'[s].debit = row[s].debit
  BY <1>1, RowMarked
<1>4. Superseded'
  BY <1>1, <1>2, RowMarked
<1>5. OneNotice'
  BY <1>1, <1>2, <1>3, NoticesStay
<1>6. Current(Types)' = {} /\ Current(Open)' = {}
  <2>1. Current(Open) \subseteq Current(Types)
    BY DEF Current, Types
  <2> QED BY <1>2, <1>3, <2>1
<1>7. Pending' = Pending
  BY <1>1 DEF Pending, Unanswered
<1>8. Linked' /\ Waiting' /\ Closed'
  BY <1>1, <1>2, <1>6, <1>7 DEF Linked, Waiting, Closed, Single
<1>9. pc'[w] = "idle" /\ task'[w] = NoTask
  BY DEF RetireRow, Done, Goto, LegalInv, TypeOK
<1>10. Stage("idle", NoTask)'
  BY DEF Stage, NoTask
<1>11. Stage(pc[w], task[w])'
  BY <1>9, <1>10, StageAt
<1> QED BY <1>4, <1>5, <1>8, <1>11 DEF Sound, Rest

LEMMA MarkSound ==
  ASSUME LegalInv, NEW w \in Workers, Alone(w), Sound(w), Mark(w)
  PROVE  Sound(w)'
<1> PICK t : t = task[w]
  OBVIOUS
<1>1. /\ pc[w] = "mark" /\ UNCHANGED <<loan, debit>>
      /\ row' = [row EXCEPT ![t.row].history = TRUE]
  BY DEF Mark, Step
<1>2. /\ Superseded /\ OneNotice /\ t.row < t.new /\ Current(Types) \subseteq {t.row, t.new}
      /\ t.todo = {} /\ t.new \in Rows /\ Pending = {}
      /\ row[t.new].type \in Open => Active
  BY <1>1 DEF Sound, Stage
<1>3. /\ Rows' = Rows /\ \A T : Current(T)' = Current(T) \ {t.row}
      /\ \A s \in Rows : row'[s].type = row[s].type /\ row'[s].debit = row[s].debit
  BY <1>1, RowMarked
<1>4. Superseded'
  BY <1>1, <1>2, RowMarked
<1>5. OneNotice'
  BY <1>1, <1>2, <1>3, NoticesStay
<1>6. Pending' = Pending /\ Active' = Active
  BY <1>1 DEF Pending, Unanswered, Active
<1>7. pc'[w] = "link" /\ task'[w] = t
  BY DEF Mark, Goto, LegalInv, TypeOK
<1>8. Stage("link", t)'
  BY <1>2, <1>3, <1>6 DEF Stage
<1>9. Stage(pc[w], task[w])'
  BY <1>7, <1>8, StageAt
<1> QED BY <1>4, <1>5, <1>7, <1>9 DEF Sound, Idle

LEMMA LinkSound ==
  ASSUME LegalInv, NEW w \in Workers, Alone(w), Sound(w), Link(w)
  PROVE  Sound(w)'
<1> PICK t : t = task[w]
  OBVIOUS
<1>1. /\ pc[w] = "link" /\ UNCHANGED <<row, debit>>
      /\ loan' = [loan EXCEPT !.at = t.new, !.type = row[t.new].type]
  BY DEF Link, Step
<1>2. /\ Superseded /\ OneNotice /\ Current(Types) \subseteq {t.new}
      /\ t.todo = {} /\ t.new \in Rows /\ Pending = {}
      /\ row[t.new].type \in Open => Active
  BY <1>1 DEF Sound, Stage
<1>3. loan'.at = t.new /\ loan'.type = row[t.new].type /\ loan'.status = loan.status
  BY <1>1 DEF LegalInv, TypeOK
<1>4. /\ Rows' = Rows /\ Pending' = Pending /\ \A T : Current(T)' = Current(T)
      /\ Active' = Active
  BY <1>1, <1>3 DEF Rows, Pending, Unanswered, Current, Active
<1>5. Superseded'
  BY <1>1, <1>2, <1>4 DEF Superseded
<1>6. Rest'
  <2>1. Linked' /\ Waiting'
    BY <1>1, <1>2, <1>3, <1>4 DEF Linked, Waiting, Single
  <2>2. Closed'
    <3>1. ~Active => Current(Open) = {}
      BY <1>2 DEF Current, Types
    <3> QED BY <1>4, <3>1 DEF Closed
  <2> QED BY <2>1, <2>2 DEF Rest
<1>7. CASE t.job = "notice"
  <2>1. pc'[w] = "remark" /\ task'[w] = t
    BY <1>7 DEF Link, Goto, LegalInv, TypeOK
  <2>2. \A d : Remarking(d) => Remarking(d)'
    <3>1. ASSUME NEW d, Remarking(d) PROVE Remarking(d)'
      <4>1. t.job = "notice" /\ t.debit = d
        BY <3>1, NotRemarking
      <4> QED BY <2>1, <4>1 DEF Remarking
    <3> QED BY <3>1
  <2>3. OneNotice'
    BY <1>1, <1>2, <1>4, <2>2, NoticesKept
  <2>4. Stage("remark", t)'
    BY <1>6 DEF Stage
  <2>5. Stage(pc[w], task[w])'
    BY <2>1, <2>4, StageAt
  <2> QED BY <1>5, <1>6, <2>3, <2>5 DEF Sound
<1>8. CASE t.job # "notice"
  <2>1. pc'[w] = "idle" /\ task'[w] = NoTask
    BY <1>2, <1>8 DEF Link, TakeNext, Done, Goto, LegalInv, TypeOK
  <2>2. OneNotice'
    BY <1>1, <1>2, <1>4, <1>8, NoticesStay
  <2>3. Stage("idle", NoTask)'
    BY DEF Stage, NoTask
  <2>4. Stage(pc[w], task[w])'
    BY <2>1, <2>3, StageAt
  <2> QED BY <1>5, <1>6, <2>2, <2>4 DEF Sound
<1> QED BY <1>7, <1>8

LEMMA FailDebitSound ==
  ASSUME LegalInv, NEW w \in Workers, Alone(w), Sound(w), FailDebit(w)
  PROVE  Sound(w)'
<1> PICK t : t = task[w]
  OBVIOUS
<1>1. /\ pc[w] = "fail" /\ UNCHANGED <<loan, row>>
      /\ debit' = [debit EXCEPT ![t.debit].status = "FAILED"]
  BY DEF FailDebit, Step
<1>2. /\ Superseded /\ OneNotice /\ Current(Types) = {}
      /\ Single(Pending) /\ t.debit \in Pending
  BY <1>1 DEF Sound, Stage
<1>3. Rows' = Rows /\ \A T : Current(T)' = Current(T)
  BY <1>1 DEF Rows, Current
<1>4. Superseded'
  BY <1>1, <1>2, <1>3 DEF Superseded
<1>5. OneNotice'
  <2>1. \A c \in DebitIds : debit'[c].noticed = debit[c].noticed
    BY <1>1, DebitTyped DEF LegalInv
  <2> QED BY <1>1, <1>2, <1>3, <2>1, NoticesStay
<1>6. Pending' = {}
  <2>1. /\ \A c \in DebitIds : c # t.debit => debit'[c] = debit[c]
        /\ t.debit \in DebitIds /\ debit'[t.debit].status = "FAILED"
    BY <1>1, <1>2, DebitTyped DEF LegalInv, Pending, Unanswered
  <2>2. \A c \in DebitIds : c # t.debit => c \notin Pending
    BY <1>2 DEF Single
  <2> QED BY <2>1, <2>2 DEF Pending, Unanswered
<1>7. pc'[w] = "eligible" /\ task'[w] = t
  BY DEF FailDebit, Goto, LegalInv, TypeOK
<1>8. Stage("eligible", t)'
  BY <1>2, <1>3, <1>6 DEF Stage
<1>9. Stage(pc[w], task[w])'
  BY <1>7, <1>8, StageAt
<1> QED BY <1>4, <1>5, <1>7, <1>9 DEF Sound, Idle

LEMMA MakeLegalEligibleSound ==
  ASSUME LegalInv, NEW w \in Workers, Alone(w), Sound(w), MakeLegalEligible(w)
  PROVE  Sound(w)'
<1>1. pc[w] = "eligible" /\ UNCHANGED <<row, debit>>
  BY DEF MakeLegalEligible, Step
<1>2. Superseded /\ OneNotice /\ Current(Types) = {} /\ Pending = {}
  BY <1>1 DEF Sound, Stage
<1>3. Rows' = Rows /\ Pending' = Pending /\ \A T : Current(T)' = Current(T)
  BY <1>1 DEF Rows, Pending, Unanswered, Current
<1>4. Superseded'
  BY <1>1, <1>2, <1>3 DEF Superseded
<1>5. OneNotice'
  BY <1>1, <1>2, <1>3, NoticesStay
<1>6. Rest'
  <2>1. Current(Open) = {}
    BY <1>2 DEF Current, Types
  <2> QED BY <1>2, <1>3, <2>1 DEF Rest, Linked, Waiting, Closed, Single
<1>7. pc'[w] = "read" /\ task'[w] = NoTask
  BY DEF MakeLegalEligible, Goto, LegalInv, TypeOK
<1>8. Stage("read", NoTask)'
  BY <1>6 DEF Stage, NoTask
<1>9. Stage(pc[w], task[w])'
  BY <1>7, <1>8, StageAt
<1> QED BY <1>4, <1>5, <1>7, <1>9 DEF Sound, Idle

LEMMA RemarkDebitSound ==
  ASSUME LegalInv, NEW w \in Workers, Alone(w), Sound(w), RemarkDebit(w)
  PROVE  Sound(w)'
<1> PICK c : c = task[w].debit
  OBVIOUS
<1>1. /\ pc[w] = "remark" /\ UNCHANGED <<loan, row>>
      /\ debit' = [debit EXCEPT ![c].noticed = TRUE]
  BY DEF RemarkDebit, Step
<1>2. Superseded /\ OneNotice /\ Rest
  BY <1>1 DEF Sound, Stage
<1>3. Rows' = Rows /\ \A T : Current(T)' = Current(T)
  BY <1>1 DEF Rows, Current
<1>4. \A d \in DebitIds : /\ debit'[d].status = debit[d].status
                          /\ debit'[d].sent = debit[d].sent
                          /\ d = c => debit'[d].noticed
                          /\ debit[d].noticed => debit'[d].noticed
  BY <1>1 DEF LegalInv, TypeOK
<1>5. Pending' = Pending
  BY <1>4 DEF Pending, Unanswered
<1>6. Superseded'
  BY <1>1, <1>2, <1>3 DEF Superseded
<1>7. OneNotice'
  <2>1. \A d \in DebitIds : Remarking(d) => debit'[d].noticed
    <3>1. \A d : Remarking(d) => d = c
      BY NotRemarking
    <3> QED BY <1>4, <3>1
  <2>2. \A d \in DebitIds : debit[d].noticed => debit'[d].noticed
    BY <1>4
  <2> QED BY <1>1, <1>2, <1>3, <2>1, <2>2, NoticesKept
<1>8. Rest'
  BY <1>1, <1>2, <1>3, <1>5 DEF Rest, Linked, Waiting, Closed, Single, Active
<1>9. pc'[w] = "idle" /\ task'[w] = NoTask
  BY DEF RemarkDebit, Done, Goto, LegalInv, TypeOK
<1>10. Stage("idle", NoTask)'
  BY DEF Stage, NoTask
<1>11. Stage(pc[w], task[w])'
  BY <1>9, <1>10, StageAt
<1> QED BY <1>6, <1>7, <1>8, <1>11 DEF Sound

(* A row is added. *)
LEMMA RowAdded ==
  ASSUME LegalInv, NEW n \in FreeRows, NEW x, x.type \in Types, ~x.history,
         row' = [row EXCEPT ![n] = x]
  PROVE  /\ n \in RowIds /\ n \notin Rows
         /\ row'[n] = x /\ Rows' = Rows \union {n}
         /\ \A r \in Rows : r < n /\ row'[r] = row[r]
         /\ \A T : Current(T)' \subseteq Current(T) \union {n}
         /\ Superseded => Superseded'
<1>1. n \in RowIds /\ n \notin Rows /\ \A r \in Rows : r < n
  BY FreeRow DEF Rows
<1>2. row'[n] = x /\ \A r \in RowIds : r # n => row'[r] = row[r]
  BY <1>1 DEF LegalInv, TypeOK
<1>3. Rows' = Rows \union {n}
  <2>1. x.type # "NONE"
    BY DEF Types, Open, Over
  <2> QED BY <1>1, <1>2, <2>1 DEF Rows
<1>4. \A r \in Rows : row'[r] = row[r]
  BY <1>1, <1>2 DEF Rows
<1>5. \A T : Current(T)' \subseteq Current(T) \union {n}
  BY <1>3, <1>4 DEF Current
<1>6. Superseded => Superseded'
  BY <1>1, <1>2, <1>3, <1>4 DEF Superseded
<1> QED BY <1>1, <1>2, <1>3, <1>4, <1>5, <1>6

LEMMA CreateSound ==
  ASSUME LegalInv, NEW w \in Workers, Alone(w), Sound(w), Create(w)
  PROVE  Sound(w)'
<1> PICK t : t = task[w]
  OBVIOUS
<1> PICK old : old = row[t.row]
  OBVIOUS
<1>1. pc[w] = "create" /\ UNCHANGED <<loan, debit>> /\ HandlerOK(w)
  BY InFlight DEF Create, Step
<1>2. /\ Superseded /\ OneNotice /\ t.todo = {}
      /\ t.row \in Current(Types) /\ Current(Types) \subseteq {t.row} /\ Pending = {}
      /\ Target(t.job, old.type) \in Open => Active
  BY <1>1 DEF Sound, Stage
<1> DEFINE x == [type |-> Target(t.job, old.type),
                 history |-> old.history /\ t.job \notin Given,
                 numbered |-> old.numbered \/ t.job \in {"summons", "warrant"},
                 debit |-> old.debit]
<1>3. PICK n \in FreeRows : row' = [row EXCEPT ![n] = x]
                            /\ task' = [task EXCEPT ![w].new = n]
  BY DEF Create
<1>4. x.type = Target(t.job, old.type) /\ x.type \in Types /\ ~x.history
  <2>1. t.job \in Moves
    BY <1>1 DEF HandlerOK, MayMove
  <2>2. Target(t.job, old.type) \in Types
    BY <2>1, TargetTyped
  <2>3. ~old.history
    BY <1>2 DEF Current
  <2> QED BY <2>2, <2>3
<1> HIDE DEF x
<1>5. /\ n \in RowIds /\ n \notin Rows /\ row'[n] = x /\ Rows' = Rows \union {n}
      /\ \A r \in Rows : r < n /\ row'[r] = row[r]
      /\ \A T : Current(T)' \subseteq Current(T) \union {n}
      /\ Superseded'
  BY <1>2, <1>3, <1>4, RowAdded
<1>6. OneNotice'
  <2>1. x.type # "NOTICE"
    BY <1>4 DEF Target
  <2>2. \A r \in Rows' : row'[r].type = "NOTICE" =>
           r \in Rows /\ row[r].type = "NOTICE" /\ row'[r].debit = row[r].debit
    BY <1>5, <2>1
  <2> QED BY <1>1, <1>2, <2>2, NoticesStay
<1>7. pc'[w] = "mark" /\ task'[w].new = n /\ task'[w].row = t.row /\ task'[w].todo = t.todo
      /\ task'[w].job = t.job
  BY <1>3 DEF Create, Goto, LegalInv, TypeOK
<1> PICK u : u = task'[w]
  OBVIOUS
<1>8. Stage("mark", u)'
  <2>1. u.row < u.new
    BY <1>2, <1>5, <1>7 DEF Current
  <2>2. Current(Types)' \subseteq {u.row, u.new}
    BY <1>2, <1>5, <1>7
  <2>3. u.todo = {} /\ u.new \in Rows'
    BY <1>2, <1>5, <1>7
  <2>4. Pending' = {}
    BY <1>1, <1>2 DEF Pending, Unanswered
  <2>5. row'[u.new].type \in Open => Active'
    BY <1>1, <1>2, <1>4, <1>5, <1>7 DEF Active
  <2> QED BY <2>1, <2>2, <2>3, <2>4, <2>5 DEF Stage
<1>9. Stage(pc[w], task[w])'
  BY <1>7, <1>8, StageAt
<1> QED BY <1>5, <1>6, <1>7, <1>9 DEF Sound, Idle

LEMMA CreateNoticeSound ==
  ASSUME LegalInv, NEW w \in Workers, Alone(w), Sound(w), CreateNotice(w)
  PROVE  Sound(w)'
<1> PICK t : t = task[w]
  OBVIOUS
<1> PICK d : d = t.debit
  OBVIOUS
<1>1. pc[w] = "notice" /\ UNCHANGED <<loan, debit>> /\ t.job = "notice" /\ d \in DebitIds
  BY InFlight DEF CreateNotice, Step, HandlerOK
<1>2. /\ Superseded /\ OneNotice /\ Active /\ Current(Types) = {} /\ Pending = {}
      /\ t.todo = {} /\ ~debit[d].noticed
  BY <1>1 DEF Sound, Stage
<1>10. CASE Done(w) /\ UNCHANGED row
  <2>1. Rest
    BY <1>2 DEF Rest, Linked, Waiting, Closed, Single
  <2> QED BY <1>1, <1>10, <2>1, DoneSound
<1> SUFFICES ASSUME \E n \in FreeRows :
                      /\ row' = [row EXCEPT ![n] =
                           [type |-> "NOTICE", history |-> FALSE, numbered |-> FALSE,
                            debit |-> task[w].debit]]
                      /\ task' = [task EXCEPT ![w].new = n],
                    Goto(w, "link")
             PROVE  Sound(w)'
  BY <1>10 DEF CreateNotice
<1> DEFINE x == [type |-> "NOTICE", history |-> FALSE, numbered |-> FALSE, debit |-> d]
<1>3. PICK n \in FreeRows : row' = [row EXCEPT ![n] = x]
                            /\ task' = [task EXCEPT ![w].new = n]
  OBVIOUS
<1>4. x.type \in Types /\ ~x.history /\ x.type = "NOTICE" /\ x.debit = d
  BY DEF Types, Open
<1> HIDE DEF x
<1>5. /\ n \in RowIds /\ n \notin Rows /\ row'[n] = x /\ Rows' = Rows \union {n}
      /\ \A r \in Rows : r < n /\ row'[r] = row[r]
      /\ \A T : Current(T)' \subseteq Current(T) \union {n}
      /\ Superseded'
  BY <1>2, <1>3, <1>4, RowAdded
<1>6. pc'[w] = "link" /\ task'[w].new = n /\ task'[w].todo = t.todo
      /\ task'[w].job = t.job /\ task'[w].debit = t.debit
  BY <1>3 DEF Goto, LegalInv, TypeOK
<1>7. OneNotice'
  <2>1. \A r \in Rows : row[r].type = "NOTICE" =>
           row[r].debit \in DebitIds /\ debit[row[r].debit].noticed
    <3>1. \A c : ~Remarking(c)
      BY <1>1, NotRemarking
    <3> QED BY <1>2, <3>1 DEF OneNotice
  <2>2. ASSUME NEW r \in Rows', row'[r].type = "NOTICE"
        PROVE  \/ row'[r].debit \in DebitIds /\ debit'[row'[r].debit].noticed
               \/ \E v \in Workers : /\ pc'[v] \in {"link", "remark"}
                                     /\ task'[v].job = "notice"
                                     /\ task'[v].debit = row'[r].debit
    <3>1. CASE r = n
      BY <1>1, <1>4, <1>5, <1>6, <3>1
    <3>2. CASE r \in Rows
      BY <1>1, <1>5, <2>1, <2>2, <3>2
    <3> QED BY <1>5, <3>1, <3>2
  <2>3. ASSUME NEW r \in Rows', NEW s \in Rows',
               row'[r].type = "NOTICE", row'[s].type = "NOTICE", r # s
        PROVE  row'[r].debit # row'[s].debit
    <3>1. \A q \in Rows : row[q].type = "NOTICE" => row[q].debit # d
      BY <1>2, <2>1
    <3>2. CASE r \in Rows /\ s \in Rows
      BY <1>2, <1>5, <2>3, <3>2 DEF OneNotice
    <3>3. CASE r = n /\ s \in Rows
      BY <1>4, <1>5, <2>3, <3>1, <3>3
    <3>4. CASE s = n /\ r \in Rows
      BY <1>4, <1>5, <2>3, <3>1, <3>4
    <3> QED BY <1>5, <2>3, <3>2, <3>3, <3>4
  <2> QED BY <2>2, <2>3 DEF OneNotice, Remarking
<1> PICK u : u = task'[w]
  OBVIOUS
<1>8. Stage("link", u)'
  <2>1. Current(Types)' \subseteq {u.new}
    BY <1>2, <1>5, <1>6
  <2>2. u.todo = {} /\ u.new \in Rows'
    BY <1>2, <1>5, <1>6
  <2>3. Pending' = {} /\ Active'
    BY <1>1, <1>2 DEF Pending, Unanswered, Active
  <2> QED BY <2>1, <2>2, <2>3 DEF Stage
<1>9. Stage(pc[w], task[w])'
  BY <1>6, <1>8, StageAt
<1> QED BY <1>5, <1>6, <1>7, <1>9 DEF Sound, Idle

-----------------------------------------------------------------------------
(* The whole step *)

LEMMA HandleSound ==
  ASSUME LegalInv, NEW w \in Workers, Alone(w), Sound(w), Handle(w)
  PROVE  Sound(w)'
  BY MoveRequestsSound, AssignToCollectionSound, CloseTheLoanSound, DisposalViaFileSound,
     CreateLegalNoticeSound, AfterCaseSound, ReportDebitSound, NoDuplicates
  DEF Handle

LEMMA ContinueSound ==
  ASSUME LegalInv, NEW w \in Workers, Alone(w), Sound(w), Continue(w)
  PROVE  Sound(w)'
<1>1. ~MarkDuplicates(w)
  BY DEF MarkDuplicates, Step, Sound, Stage
<1> QED BY <1>1, CreateSound, MarkSound, LinkSound, CalcuLoanRepaymentSound,
     AssignLoanSound, CloseReadSound, TraceDisposalSound, DisposalReadSound,
     NoticeAgainSound, ReadDebitsSound, CreateNoticeSound,
     RemarkDebitSound, CheckDebitSound, PlaceDebitSound, DebitPlacedSound, RetireRowSound,
     FailDebitSound, MakeLegalEligibleSound
  DEF Continue

LEMMA HandleStarts ==
  ASSUME NEW w \in Workers, Handle(w)
  PROVE  Start(w)
  BY DEF Handle, MoveToCaseToBeFile, MoveToProgress, FillingInProgress, UploadSummons,
         UploadWarrent, CaseWithdrawal, AssignToCollection, CloseTheLoan, CloseLegal,
         CaseDisposal, DisposalViaFile, CreateLegalNotice, PlaceAutodebitAfterCase,
         ReportDebit, RemoveDuplicates, Move

LEMMA ContinueSteps ==
  ASSUME NEW w \in Workers, Continue(w)
  PROVE  ~Idle(w) /\ calm' = calm
  BY DEF Continue, Create, Mark, Link, CalcuLoanRepayment, AssignLoan, CloseRead, TraceDisposal,
         DisposalRead, NoticeAgain, ReadDebits, CreateNotice, RemarkDebit, CheckDebit, PlaceDebit, DebitPlaced,
         RetireRow, FailDebit, MakeLegalEligible, MarkDuplicates, Step, Idle

LEMMA OthersWait ==
  ASSUME LegalInv, NEW w \in Workers, Handle(w) \/ Continue(w)
  PROVE  Others(w)
<1>1. TypeOK
  BY DEF LegalInv
<1>2. \A l : Goto(w, l) => \A v \in Workers \ {w} : pc'[v] = pc[v]
  BY <1>1 DEF Goto, TypeOK
<1>3. /\ \A t : task' = [task EXCEPT ![w] = t] => \A v \in Workers \ {w} : task'[v] = task[v]
      /\ UNCHANGED task => \A v \in Workers \ {w} : task'[v] = task[v]
      /\ \A n : task' = [task EXCEPT ![w].new = n] => \A v \in Workers \ {w} : task'[v] = task[v]
      /\ \A d : task' = [task EXCEPT ![w].debit = d] => \A v \in Workers \ {w} : task'[v] = task[v]
      /\ \A R : task' = [task EXCEPT ![w].todo = R] => \A v \in Workers \ {w} : task'[v] = task[v]
  BY <1>1 DEF TypeOK
<1>4. Done(w) => Others(w)
  BY <1>2, <1>3 DEF Done, Others
<1>5. \A job, R : TakeNext(w, job, R) => Others(w)
  BY <1>2, <1>3, <1>4 DEF TakeNext, Others
<1>6. \A job, R : Move(w, job, R) => Others(w)
  BY <1>5 DEF Move
<1>8. CASE Handle(w)
  BY <1>2, <1>3, <1>6, <1>8
  DEF Handle, MoveToCaseToBeFile, MoveToProgress, FillingInProgress, UploadSummons,
      UploadWarrent, CaseWithdrawal, AssignToCollection, CloseTheLoan, CloseLegal,
      CaseDisposal, DisposalViaFile, CreateLegalNotice, PlaceAutodebitAfterCase,
      ReportDebit, RemoveDuplicates, Others
<1>9. CASE Continue(w)
  BY <1>2, <1>3, <1>4, <1>5, <1>9
  DEF Continue, Create, Mark, Link, CalcuLoanRepayment, AssignLoan, CloseRead, TraceDisposal,
      DisposalRead, NoticeAgain, ReadDebits, CreateNotice, RemarkDebit, CheckDebit, PlaceDebit, DebitPlaced,
      RetireRow, FailDebit, MakeLegalEligible, MarkDuplicates, Others
<1> QED BY <1>8, <1>9

(* While calm, a handler that works is alone. *)
LEMMA CalmAlone ==
  ASSUME Calm, calm, NEW w \in Workers, Quiet \/ ~Idle(w)
  PROVE  Alone(w) /\ Sound(w)
<1>1. Alone(w)
  BY DEF Calm, Alone, Quiet
<1>2. Idle(w) => Quiet
  BY DEF Quiet
<1> QED BY <1>1, <1>2 DEF Calm, Sound

LEMMA AloneCalm ==
  ASSUME NEW w \in Workers, Alone(w), Others(w), Sound(w)',
         \A v \in Workers \ {w} : Stage(pc[v], task[v])
  PROVE  Calm'
<1>1. \A v \in Workers \ {w} : pc'[v] = "idle" /\ task'[v] = task[v]
  BY DEF Alone, Idle, Others
<1>2. Quiet' => Rest'
  BY DEF Quiet, Sound
<1>3. ASSUME NEW v \in Workers \ {w} PROVE Stage(pc[v], task[v])'
  <2> PICK t : t = task[v]
    OBVIOUS
  <2>1. pc[v] = "idle" /\ pc'[v] = "idle" /\ task'[v] = t
    BY <1>1 DEF Alone, Idle
  <2>2. t.job # "retire"
    BY <2>1 DEF Stage
  <2>3. Stage("idle", t)'
    BY <2>2 DEF Stage
  <2> QED BY <2>1, <2>3, StageAt
<1>4. \A u, v \in Workers : Idle(u)' \/ Idle(v)' \/ u = v
  BY <1>1 DEF Idle
<1> QED BY <1>2, <1>3, <1>4 DEF Calm, Sound

LEMMA CalmStep ==
  ASSUME LegalInv, Calm, [Next]_vars
  PROVE  Calm'
<1>1. ASSUME NEW w \in Workers, Handle(w) \/ Continue(w), calm'
      PROVE  Calm'
  <2>1. calm /\ (Quiet \/ ~Idle(w))
    BY <1>1, HandleStarts, ContinueSteps DEF Start
  <2>2. Alone(w) /\ Sound(w)
    BY <2>1, CalmAlone
  <2>3. Sound(w)'
    BY <1>1, <2>2, HandleSound, ContinueSound
  <2>4. \A v \in Workers \ {w} : Stage(pc[v], task[v])
    BY <2>1 DEF Calm
  <2> QED BY <1>1, <2>2, <2>3, <2>4, OthersWait, AloneCalm
<1>2. ASSUME NEW w \in Workers, Abort(w)
      PROVE  Calm'
  BY <1>2 DEF Abort, Calm
<1>3. ASSUME SevenDaysPass \/ UNCHANGED vars
      PROVE  Calm'
  <2>1. UNCHANGED <<loan, row, debit, pc, task, calm>>
    BY <1>3 DEF SevenDaysPass, vars
  <2>2. Rest' = Rest /\ Superseded' = Superseded /\ Rows' = Rows
    BY <2>1, SameTables
  <2>3. OneNotice' = OneNotice
    <3>1. \A d : Remarking(d)' = Remarking(d)
      BY <2>1 DEF Remarking
    <3> QED BY <2>1, <2>2, <3>1 DEF OneNotice, Remarking
  <2>4. ASSUME NEW w \in Workers, Stage(pc[w], task[w]) PROVE Stage(pc[w], task[w])'
    <3> PICK t : t = task[w]
      OBVIOUS
    <3> PICK l : l = pc[w]
      OBVIOUS
    <3>1. Stage(l, t)'
      BY <2>1, <2>4, StageSame
    <3>2. pc'[w] = l /\ task'[w] = t
      BY <2>1
    <3> QED BY <3>1, <3>2, StageAt
  <2>5. Quiet' = Quiet /\ \A v : Idle(v)' = Idle(v)
    BY <2>1 DEF Quiet, Idle
  <2> QED BY <2>1, <2>2, <2>3, <2>4, <2>5 DEF Calm
<1>4. ~calm' => Calm'
  BY DEF Calm
<1> QED BY <1>1, <1>2, <1>3, <1>4 DEF Next

LEMMA CalmInit ==
  ASSUME Init
  PROVE  Calm
<1>1. Rows = {}
  BY DEF Init, Rows, NoRow
<1>2. \A T : Current(T) = {}
  BY <1>1 DEF Current
<1>3. Pending = {}
  BY DEF Init, Pending, Unanswered, NoDebit
<1>4. Rest
  BY <1>2, <1>3 DEF Rest, Linked, Waiting, Closed, Single
<1>5. Superseded /\ OneNotice
  BY <1>1 DEF Superseded, OneNotice
<1>6. \A w \in Workers : Stage(pc[w], task[w]) /\ Idle(w)
  BY DEF Init, Stage, NoTask, Idle
<1> QED BY <1>4, <1>5, <1>6 DEF Calm

-----------------------------------------------------------------------------
(* While handlers take turns and none dies, each finds the tables at rest  *)
(* and leaves them so, and between two of its awaits exactly the row it    *)
(* moves is current.                                                       *)
THEOREM CalmInvariance == Spec => [](LegalInv /\ Calm)
<1>1. Init => LegalInv /\ Calm
  BY LegalInit, CalmInit
<1>2. LegalInv /\ Calm /\ [Next]_vars => LegalInv' /\ Calm'
  BY LegalStep, CalmStep
<1> QED BY <1>1, <1>2, PTL DEF Spec

(* As long as no two handlers overlapped and none died, a loan has one     *)
(* proceeding at most, points at it and shows its stage, and no full       *)
(* payment debit led to two notices: createAndUpdateNewLegal and           *)
(* updateLegalProcessTransaction keep the three tables together.           *)
THEOREM LegalOneProceeding == Spec => []OneProceeding
<1>1. Calm => OneProceeding
  BY DEF Calm, OneProceeding, OneNotice, Rest, Linked
<1> QED BY <1>1, CalmInvariance, PTL

(* Under the same condition, legalCloseLegalAndCloseLoan leaves no notice  *)
(* and no case open against a loan that is Complete and was followed, and  *)
(* no later handler opens one.                                             *)
THEOREM LegalClosedHasNoCase == Spec => []ClosedHasNoCase
<1>1. Calm => ClosedHasNoCase
  BY DEF Calm, ClosedHasNoCase, Rest, Closed
<1> QED BY <1>1, CalmInvariance, PTL
=============================================================================
