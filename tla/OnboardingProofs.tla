-------------------------- MODULE OnboardingProofs --------------------------
(***************************************************************************)
(* Proofs about Onboarding. For any number of handlers: the type           *)
(* invariant, and that no interleaving of handlers with stale copies of    *)
(* the status invents an approval, a registered mandate or a signature.    *)
(* For one handler at a time: that the status column and the rows are      *)
(* changed together, and that the handlers implement LoanApplication.      *)
(***************************************************************************)
EXTENDS OnboardingProperties, SequenceTheorems, TLAPS

-----------------------------------------------------------------------------
(* The inductive invariant. A copy of the status is as truthful as the     *)
(* master row; a handler about to act on what it found out found it out;   *)
(* and the steps that act on a finding come first among a handler's steps. *)

CopyOK(m) ==
  /\ m.eMandate = 1 => SomeRegistered
  /\ m.eSign = 1 \/ m.disbursement # -1 => signer # {}
  /\ m.loan \in {1, 6} => approved

Acting == {"approve", "reject", "subActive", "createDoc", "docStatus", "dropDoc"}

HeadOK(step, t) ==
  /\ step = "approve" => approved
  /\ step = "reject" => Len(t.todo) >= 2
  /\ step = "subActive" => t.sub \in Subs /\ Registered(t.sub)
  /\ step \in {"createDoc", "dropDoc"} => approved /\ SomeRegistered
  /\ step = "docStatus" => (t.copy.eSign = 1 => t.doc \in signer)

TaskOK(t) ==
  /\ t \in Tasks
  /\ CopyOK(t.copy)
  /\ \A i \in 2 .. Len(t.todo) : t.todo[i] \notin Acting
  /\ t.todo # <<>> => HeadOK(t.todo[1], t)

TasksOK ==
  /\ task \in [Workers -> Tasks]
  /\ \A w \in Workers : TaskOK(task[w])

RowTypes ==
  /\ loan \in LoanRows
  /\ master \in MasterRows
  /\ doc \in [Docs -> {"none", "invited", "signed", "deleted"}]
  /\ sub \in [Subs -> {"none", "INITIALIZED", "ACTIVE", "FAILED", "deleted"}]
  /\ account \in Subs \union {None}
  /\ signer \subseteq Docs
  /\ bank \in [Subs -> {"none", "pending", "failed", "active", "recovered"}]
  /\ approved \in BOOLEAN
  /\ aborts \in 0 .. MaxAborts

RowsOK ==
  /\ \A s \in Subs : sub[s] = "ACTIVE" => Registered(s)
  /\ \A d \in Docs : doc[d] = "signed" => d \in signer
  /\ \A d \in Docs : doc[d] # "none" => approved /\ SomeRegistered
  /\ loan.verified = "approved" => approved
  /\ loan.status = "Active" => approved /\ SomeRegistered /\ signer # {}

IInv == RowTypes /\ RowsOK /\ CopyOK(master) /\ TasksOK

(* What is never taken back. *)
Grows ==
  /\ approved => approved'
  /\ signer \subseteq signer'
  /\ \A s \in Subs : Registered(s) => Registered(s)'

-----------------------------------------------------------------------------
(* Sequences of steps. *)

LEMMA TailKeeps ==
  ASSUME NEW s \in Seq(Steps), s # <<>>
  PROVE  /\ Tail(s) \in Seq(Steps)
         /\ Len(s) \in Nat \ {0} /\ Head(s) = s[1] /\ Head(s) \in Steps
         /\ Len(Tail(s)) = Len(s) - 1
         /\ \A i \in 1 .. Len(Tail(s)) : Tail(s)[i] = s[i + 1]
  BY HeadTailProperties, EmptySeq, LenProperties

(* The steps behind the first do not act on a finding: neither do those of *)
(* the rest, nor those of the rest behind steps that do not.               *)
LEMMA TailBehind ==
  ASSUME NEW s \in Seq(Steps), s # <<>>, \A i \in 2 .. Len(s) : s[i] \notin Acting
  PROVE  \A i \in 1 .. Len(Tail(s)) : Tail(s)[i] \notin Acting
<1>1. Len(s) \in Nat /\ Len(Tail(s)) = Len(s) - 1
  BY TailKeeps
<1> SUFFICES ASSUME NEW i \in 1 .. Len(Tail(s)) PROVE Tail(s)[i] \notin Acting
  OBVIOUS
<1>2. Tail(s)[i] = s[i + 1]
  BY TailKeeps
<1>3. i + 1 \in 2 .. Len(s)
  BY <1>1
<1> QED BY <1>2, <1>3

LEMMA ConcatBehind ==
  ASSUME NEW s \in Seq(Steps), NEW r \in Seq(Steps),
         \A i \in 1 .. Len(s) : s[i] \notin Acting,
         \A i \in 1 .. Len(r) : r[i] \notin Acting
  PROVE  /\ s \o r \in Seq(Steps)
         /\ \A i \in 1 .. Len(s \o r) : (s \o r)[i] \notin Acting
<1>1. /\ s \o r \in Seq(Steps)
      /\ Len(s \o r) = Len(s) + Len(r)
      /\ \A i \in 1 .. Len(s) + Len(r) :
           (s \o r)[i] = IF i <= Len(s) THEN s[i] ELSE r[i - Len(s)]
  BY ConcatProperties
<1>2. Len(s) \in Nat /\ Len(r) \in Nat
  BY LenProperties
<1> SUFFICES ASSUME NEW i \in 1 .. Len(s) + Len(r) PROVE (s \o r)[i] \notin Acting
  BY <1>1
<1>3. CASE i <= Len(s)
  BY <1>1, <1>2, <1>3
<1>4. CASE ~(i <= Len(s))
  <2>1. i - Len(s) \in 1 .. Len(r)
    BY <1>2, <1>4
  <2> QED BY <1>1, <1>4, <2>1
<1> QED BY <1>3, <1>4

-----------------------------------------------------------------------------
(* One task changes. *)

LEMMA CopyGrows ==
  ASSUME Grows, NEW m, CopyOK(m)
  PROVE  CopyOK(m)'
  BY DEF Grows, CopyOK, SomeRegistered

LEMMA TaskGrows ==
  ASSUME Grows, NEW t, TaskOK(t)
  PROVE  TaskOK(t)'
<1>1. CopyOK(t.copy)'
  <2> PICK m : m = t.copy
    OBVIOUS
  <2>1. CopyOK(m)'
    BY CopyGrows DEF TaskOK
  <2> QED BY <2>1 DEF CopyOK
<1>2. t.todo # <<>> => HeadOK(t.todo[1], t)'
  BY DEF Grows, TaskOK, HeadOK, SomeRegistered
<1> QED BY <1>1, <1>2 DEF TaskOK

LEMMA NoTaskOK == TaskOK(NoTask)
<1>1. NewMaster \in MasterRows /\ CopyOK(NewMaster)
  BY DEF NewMaster, MasterRows, CopyOK
<1>2. NoTask \in Tasks
  BY <1>1, EmptySeq DEF NoTask, Tasks
<1>3. NoTask.todo = <<>> /\ NoTask.copy = NewMaster /\ Len(<<>>) = 0
  BY DEF NoTask
<1> QED BY <1>1, <1>2, <1>3 DEF TaskOK

(* A handler's next task, as good as what is known after the step. *)
LEMMA TaskStepNew ==
  ASSUME TasksOK, Grows, NEW w \in Workers, NEW t, TaskOK(t)', Do(w, t)
  PROVE  TasksOK'
<1>1. PICK u : u = (IF t.todo = <<>> THEN NoTask ELSE t)
  OBVIOUS
<1>2. PICK n : n = NoTask
  OBVIOUS
<1>3. TaskOK(n)'
  BY <1>2, NoTaskOK, TaskGrows
<1>4. TaskOK(u)'
  BY <1>1, <1>2, <1>3
<1>5. task' = [task EXCEPT ![w] = u] /\ u \in Tasks
  BY <1>1, <1>4 DEF Do, TaskOK
<1>6. task' \in [Workers -> Tasks]
  BY <1>5 DEF TasksOK
<1>7. ASSUME NEW v \in Workers PROVE TaskOK(task[v])'
  <2>1. PICK x : x = task[v]'
    OBVIOUS
  <2>2. CASE v = w
    <3>1. x = u
      BY <1>5, <2>1, <2>2 DEF TasksOK
    <3>2. TaskOK(x)'
      BY <1>4, <3>1
    <3> QED BY <2>1, <3>2 DEF TaskOK, CopyOK, HeadOK
  <2>3. CASE v # w
    <3>1. TaskOK(x)
      BY <1>5, <2>1, <2>3 DEF TasksOK
    <3>2. TaskOK(x)'
      BY <3>1, TaskGrows
    <3> QED BY <2>1, <3>2 DEF TaskOK, CopyOK, HeadOK
  <2> QED BY <2>2, <2>3
<1> QED BY <1>6, <1>7 DEF TasksOK

LEMMA TaskStep ==
  ASSUME TasksOK, Grows, NEW w \in Workers, NEW t, TaskOK(t), Do(w, t)
  PROVE  TasksOK'
  BY TaskGrows, TaskStepNew

LEMMA TasksStay ==
  ASSUME TasksOK, Grows, task' = task
  PROVE  TasksOK'
<1>1. ASSUME NEW v \in Workers PROVE TaskOK(task[v])'
  <2>1. PICK x : x = task[v]'
    OBVIOUS
  <2>2. TaskOK(x)'
    BY <2>1, TaskGrows DEF TasksOK
  <2> QED BY <2>1, <2>2 DEF TaskOK, CopyOK, HeadOK
<1> QED BY <1>1 DEF TasksOK

(* A handler goes on with its next step, with a copy as good as it had. *)
LEMMA TailTask ==
  ASSUME NEW t, TaskOK(t), t.todo # <<>>,
         NEW u \in Tasks, u.todo = Tail(t.todo), CopyOK(u.copy)
  PROVE  TaskOK(u)
<1>1. t.todo \in Seq(Steps)
  BY DEF TaskOK, Tasks
<1>2. \A i \in 1 .. Len(u.todo) : u.todo[i] \notin Acting
  BY <1>1, TailBehind DEF TaskOK
<1>3. u.todo \in Seq(Steps) /\ Len(u.todo) \in Nat /\ (u.todo # <<>> => Len(u.todo) # 0)
  BY <1>1, TailKeeps, LenProperties, EmptySeq
<1>4. u.todo # <<>> => HeadOK(u.todo[1], u)
  BY <1>2, <1>3 DEF Acting, HeadOK
<1>5. \A i \in 2 .. Len(u.todo) : u.todo[i] \notin Acting
  BY <1>2, <1>3
<1> QED BY <1>4, <1>5 DEF TaskOK

LEMMA GoStep ==
  ASSUME TasksOK, Grows, NEW w \in Workers, NEW step, At(w, step), Go(w)
  PROVE  TasksOK'
<1>1. PICK t : t = task[w]
  OBVIOUS
<1>2. TaskOK(t) /\ t.todo # <<>> /\ t \in Tasks
  BY <1>1 DEF TasksOK, At
<1>3. PICK u : u = [t EXCEPT !.todo = Tail(@)]
  OBVIOUS
<1>4. u \in Tasks /\ u.todo = Tail(t.todo) /\ u.copy = t.copy
  BY <1>2, <1>3, TailKeeps DEF Tasks
<1>5. TaskOK(u)
  BY <1>2, <1>4, TailTask DEF TaskOK
<1>6. Do(w, u)
  BY <1>1, <1>3 DEF Go
<1> QED BY <1>5, <1>6, TaskStep

LEMMA StopStep ==
  ASSUME TasksOK, Grows, NEW w \in Workers, Stop(w)
  PROVE  TasksOK'
  BY NoTaskOK, TaskStep DEF Stop

(* A handler reads the status anew and puts steps before those it has.     *)
LEMMA ReadStep ==
  ASSUME TasksOK, Grows, NEW w \in Workers, NEW step, At(w, step),
         NEW m \in MasterRows, CopyOK(m),
         NEW q \in Seq(Steps), \A i \in 1 .. Len(q) : q[i] \notin Acting,
         Read(w, m, q)
  PROVE  TasksOK'
<1>1. PICK t : t = task[w]
  OBVIOUS
<1>2. TaskOK(t) /\ t.todo # <<>> /\ t \in Tasks /\ t.todo \in Seq(Steps)
  BY <1>1 DEF TasksOK, At, Tasks
<1>3. PICK r : r = q \o Tail(t.todo)
  OBVIOUS
<1>4. r \in Seq(Steps) /\ \A i \in 1 .. Len(r) : r[i] \notin Acting
  BY <1>2, <1>3, TailKeeps, TailBehind, ConcatBehind DEF TaskOK
<1>5. PICK u : u = [t EXCEPT !.copy = m, !.todo = r]
  OBVIOUS
<1>6. u \in Tasks /\ u.todo = r /\ u.copy = m
  BY <1>2, <1>4, <1>5 DEF Tasks
<1>7. Len(r) \in Nat /\ (r # <<>> => Len(r) # 0)
  BY <1>4, LenProperties, EmptySeq
<1>8. TaskOK(u)
  BY <1>4, <1>6, <1>7 DEF TaskOK, HeadOK, Acting
<1>9. Do(w, u)
  BY <1>1, <1>3, <1>5 DEF Read
<1> QED BY <1>8, <1>9, TaskStep

(* A handler starts. *)
LEMMA NewTask ==
  ASSUME NEW t \in Tasks, CopyOK(t.copy),
         \A i \in 2 .. Len(t.todo) : t.todo[i] \notin Acting,
         t.todo # <<>> => HeadOK(t.todo[1], t)
  PROVE  TaskOK(t)
  BY DEF TaskOK

-----------------------------------------------------------------------------
(* The initial states. *)

LEMMA InitIInv == Init => IInv
<1> SUFFICES ASSUME Init PROVE IInv
  OBVIOUS
<1>1. RowTypes
  <2>1. loan \in LoanRows
    BY DEF Init, LoanRows, Status
  <2>2. master \in MasterRows
    BY NoTaskOK DEF Init, TaskOK, Tasks, NoTask
  <2>3. account \in Subs \union {None}
    BY OnboardingAssumption DEF Init, Subs
  <2>4. /\ doc \in [Docs -> {"none", "invited", "signed", "deleted"}]
        /\ sub \in [Subs -> {"none", "INITIALIZED", "ACTIVE", "FAILED", "deleted"}]
        /\ bank \in [Subs -> {"none", "pending", "failed", "active", "recovered"}]
    BY DEF Init
  <2>5. signer \subseteq Docs
    BY DEF Init
  <2>6. approved \in BOOLEAN
    BY DEF Init
  <2>7. aborts \in 0 .. MaxAborts
    BY OnboardingAssumption DEF Init
  <2> QED BY <2>1, <2>2, <2>3, <2>4, <2>5, <2>6, <2>7 DEF RowTypes
<1>2. RowsOK /\ CopyOK(master)
  BY DEF Init, RowsOK, CopyOK, NewMaster, Registered
<1>3. TasksOK
  <2>1. NoTask \in Tasks
    BY NoTaskOK DEF TaskOK
  <2>2. \A w \in Workers : task[w] = NoTask
    BY DEF Init
  <2> QED BY <2>1, <2>2, NoTaskOK DEF Init, TasksOK
<1> QED BY <1>1, <1>2, <1>3 DEF IInv

-----------------------------------------------------------------------------
(* A handler starts, or reads, and writes nothing yet. *)

LEMMA RowsStay ==
  ASSUME IInv, UNCHANGED <<db, world, aborts>>
  PROVE  Grows /\ RowTypes' /\ RowsOK' /\ CopyOK(master)'
<1>1. UNCHANGED <<loan, master, doc, sub, account, approved, signer, bank, aborts>>
  BY DEF db, world
<1>2. \A s \in Subs : Registered(s)' = Registered(s)
  BY <1>1 DEF Registered
<1>3. Grows
  BY <1>1, <1>2 DEF Grows
<1>4. RowTypes'
  BY <1>1 DEF IInv, RowTypes
<1>5. RowsOK' /\ CopyOK(master)'
  BY <1>1, <1>2 DEF IInv, RowsOK, CopyOK, SomeRegistered
<1> QED BY <1>3, <1>4, <1>5

LEMMA TaskStarts ==
  ASSUME IInv, UNCHANGED <<db, world, aborts>>,
         NEW w \in Workers, NEW t, TaskOK(t), Do(w, t)
  PROVE  IInv'
<1>1. Grows /\ RowTypes' /\ RowsOK' /\ CopyOK(master)'
  BY RowsStay
<1>2. TasksOK'
  BY <1>1, TaskStep DEF IInv
<1> QED BY <1>1, <1>2 DEF IInv

LEMMA PlainTask ==
  ASSUME NEW t \in Tasks, CopyOK(t.copy),
         \A i \in 1 .. Len(t.todo) : t.todo[i] \notin Acting
  PROVE  TaskOK(t)
<1>1. Len(t.todo) \in Nat /\ (t.todo # <<>> => Len(t.todo) # 0)
  BY LenProperties, EmptySeq DEF Tasks
<1>2. t.todo # <<>> => HeadOK(t.todo[1], t)
  BY <1>1 DEF HeadOK, Acting
<1>3. \A i \in 2 .. Len(t.todo) : t.todo[i] \notin Acting
  BY <1>1
<1> QED BY <1>2, <1>3, NewTask

(* Steps that act on no finding. *)
Passing == Steps \ Acting

LEMMA PassingSeq ==
  ASSUME NEW q \in Seq(Passing)
  PROVE  q \in Seq(Steps) /\ \A i \in 1 .. Len(q) : q[i] \notin Acting
<1>1. \A i \in 1 .. Len(q) : q[i] \in Passing
  BY ElementOfSeq
<1>2. q \in Seq(Steps)
  BY SeqMonotonic DEF Passing
<1> QED BY <1>1, <1>2 DEF Passing

LEMMA PassingSteps ==
  /\ <<"mandateRead">> \in Seq(Passing)
  /\ <<"refer", "master">> \in Seq(Passing)
  /\ <<"rejectRead", "stepsRead", "master">> \in Seq(Passing)
  /\ <<"rejectRead">> \in Seq(Passing)
  /\ <<"decline", "master", "stepsRead", "master">> \in Seq(Passing)
  /\ <<"reopen", "master">> \in Seq(Passing)
  /\ <<"kfs">> \in Seq(Passing)
  /\ <<"master", "kfs">> \in Seq(Passing)
  /\ <<"linkRead">> \in Seq(Passing)
  /\ <<"createSub", "linkSub", "master">> \in Seq(Passing)
  /\ <<"subFailed", "master">> \in Seq(Passing)
  /\ <<"subFailed", "webhookRead", "master">> \in Seq(Passing)
  /\ <<"unlinkSub", "master", "dropSub">> \in Seq(Passing)
  /\ <<"deleteRow">> \in Seq(Passing)
  /\ <<"reinitiate">> \in Seq(Passing)
  /\ <<"master">> \in Seq(Passing)
<1>1. /\ {"mandateRead", "webhookRead"} \subseteq Passing
      /\ {"refer", "rejectRead", "stepsRead", "decline", "reopen", "kfs"} \subseteq Passing
      /\ {"linkRead", "createSub", "linkSub", "subFailed", "unlinkSub", "dropSub"} \subseteq Passing
      /\ {"deleteRow", "reinitiate", "master"} \subseteq Passing
  BY DEF Passing, Steps, Acting
<1> HIDE DEF Passing
<1> QED BY <1>1

(* Those that delete an agreement or send it anew. *)
LEMMA PassingDocSteps ==
  /\ <<"deleteRead", "deleteRow", "unlinkDoc", "master">> \in Seq(Passing)
  /\ <<"deleteRead", "deleteRow", "unlinkDoc", "master", "inviteRead">> \in Seq(Passing)
<1>1. {"deleteRead", "deleteRow", "unlinkDoc", "inviteRead", "master"} \subseteq Passing
  BY DEF Passing, Steps, Acting
<1> QED BY <1>1

(* Begin and Start with steps that act on no finding. *)
LEMMA BeginStep ==
  ASSUME IInv, UNCHANGED <<db, world, aborts>>, NEW w \in Workers,
         NEW m \in MasterRows, CopyOK(m),
         NEW q \in Seq(Passing), Begin(w, m, q)
  PROVE  IInv'
<1>1. PICK t : t = [NoTask EXCEPT !.copy = m, !.todo = q]
  OBVIOUS
<1>2. t \in Tasks /\ t.copy = m /\ t.todo = q
  BY <1>1, NoTaskOK, PassingSeq DEF TaskOK, Tasks
<1>3. TaskOK(t)
  BY <1>2, PlainTask, PassingSeq
<1>4. Do(w, t)
  BY <1>1 DEF Begin
<1> QED BY <1>3, <1>4, TaskStarts

LEMMA StartStep ==
  ASSUME IInv, UNCHANGED <<db, world, aborts>>, NEW w \in Workers,
         NEW q \in Seq(Passing), Start(w, q)
  PROVE  IInv'
<1>1. PICK t : t = [NoTask EXCEPT !.todo = q]
  OBVIOUS
<1>2. t \in Tasks /\ t.copy = NoTask.copy /\ t.todo = q
  BY <1>1, NoTaskOK, PassingSeq DEF TaskOK, Tasks
<1>3. TaskOK(t)
  BY <1>2, NoTaskOK, PlainTask, PassingSeq DEF TaskOK
<1>4. Do(w, t)
  BY <1>1 DEF Start
<1> QED BY <1>3, <1>4, TaskStarts

LEMMA ApproveKeeps ==
  ASSUME IInv, NEW w \in Workers, Approve(w)
  PROVE  IInv'
<1>1. master \in MasterRows /\ CopyOK(master)
  BY DEF IInv, RowTypes
<1> QED BY <1>1, PassingSteps, BeginStep DEF Approve

LEMMA ReferKeeps ==
  ASSUME IInv, NEW w \in Workers, Refer(w)
  PROVE  IInv'
<1>1. [master EXCEPT !.loan = 0] \in MasterRows /\ CopyOK([master EXCEPT !.loan = 0])
  BY DEF IInv, RowTypes, MasterRows, CopyOK
<1> QED BY <1>1, PassingSteps, BeginStep DEF Refer

LEMMA FinalRejectKeeps ==
  ASSUME IInv, NEW w \in Workers, FinalReject(w)
  PROVE  IInv'
  BY PassingSteps, StartStep DEF FinalReject

LEMMA AutoDeclineKeeps ==
  ASSUME IInv, NEW w \in Workers, AutoDecline(w)
  PROVE  IInv'
  BY PassingSteps, StartStep DEF AutoDecline

LEMMA GenerateLinkKeeps ==
  ASSUME IInv, NEW w \in Workers, GenerateLink(w)
  PROVE  IInv'
  BY PassingSteps, StartStep DEF GenerateLink

LEMMA ReInitiateKeeps ==
  ASSUME IInv, NEW w \in Workers, ReInitiate(w)
  PROVE  IInv'
  BY PassingSteps, StartStep DEF ReInitiate

LEMMA DeclineKeeps ==
  ASSUME IInv, NEW w \in Workers, Decline(w)
  PROVE  IInv'
<1>1. [master EXCEPT !.loan = 2] \in MasterRows /\ CopyOK([master EXCEPT !.loan = 2])
  BY DEF IInv, RowTypes, MasterRows, CopyOK
<1> QED BY <1>1, PassingSteps, BeginStep DEF Decline

LEMMA ReopenKeeps ==
  ASSUME IInv, NEW w \in Workers, Reopen(w)
  PROVE  IInv'
<1>1. [master EXCEPT !.loan = 0] \in MasterRows /\ CopyOK([master EXCEPT !.loan = 0])
  BY DEF IInv, RowTypes, MasterRows, CopyOK
<1> QED BY <1>1, PassingSteps, BeginStep DEF Reopen

LEMMA AcceptKFSKeeps ==
  ASSUME IInv, NEW w \in Workers, AcceptKFS(w)
  PROVE  IInv'
<1>1. master \in MasterRows /\ CopyOK(master) /\ UNCHANGED <<db, world, aborts>>
  BY DEF IInv, RowTypes, AcceptKFS
<1>2. CASE Start(w, <<"kfs">>)
  BY <1>1, <1>2, PassingSteps, StartStep
<1>3. CASE Begin(w, master, <<"master", "kfs">>)
  BY <1>1, <1>3, PassingSteps, BeginStep
<1> QED BY <1>2, <1>3 DEF AcceptKFS

(* The payout service reports only loans that are active. *)
LEMMA LoanIsActiveKeeps ==
  ASSUME IInv, NEW w \in Workers, LoanIsActive(w)
  PROVE  IInv'
<1>1. [master EXCEPT !.loan = 6, !.disbursement = 1] \in MasterRows
      /\ CopyOK([master EXCEPT !.loan = 6, !.disbursement = 1])
  BY DEF IInv, RowTypes, MasterRows, CopyOK, RowsOK, LoanIsActive
<1> QED BY <1>1, PassingSteps, BeginStep DEF LoanIsActive

LEMMA AdminRejectKeeps ==
  ASSUME IInv, NEW w \in Workers, AdminReject(w)
  PROVE  IInv'
<1>1. PICK q : q = IF HasDoc(loan.doc)
                     THEN <<"deleteRead", "deleteRow", "unlinkDoc", "master">> ELSE <<>>
  OBVIOUS
<1>2. q \in Seq(Passing)
  BY <1>1, PassingDocSteps, EmptySeq
<1>3. PICK r : r = q \o ThenReject
  OBVIOUS
<1>4. r \in Seq(Passing)
  <2>1. ThenReject \in Seq(Passing)
    BY PassingSteps, EmptySeq DEF ThenReject
  <2> QED BY <1>2, <1>3, <2>1, ConcatProperties
<1>5. PICK d : d = IF HasDoc(loan.doc) THEN loan.doc ELSE None
  OBVIOUS
<1>6. d \in Docs \union {None}
  BY <1>5 DEF IInv, RowTypes, LoanRows
<1>7. PICK t : t = [NoTask EXCEPT !.force = TRUE, !.doc = d, !.todo = r]
  OBVIOUS
<1>8. t \in Tasks /\ t.copy = NoTask.copy /\ t.todo = r
  BY <1>4, <1>6, <1>7, NoTaskOK, PassingSeq DEF TaskOK, Tasks
<1>9. TaskOK(t)
  BY <1>4, <1>8, NoTaskOK, PlainTask, PassingSeq DEF TaskOK
<1>10. Do(w, t) /\ UNCHANGED <<db, world, aborts>>
  BY <1>1, <1>3, <1>5, <1>7 DEF AdminReject
<1> QED BY <1>9, <1>10, TaskStarts

(* The bank is asked before a mandate is taken for registered. *)
LEMMA SubTask ==
  ASSUME IInv, UNCHANGED <<db, world, aborts>>, NEW w \in Workers, NEW s \in Subs,
         NEW m \in MasterRows, CopyOK(m),
         NEW q,
         \/ q \in Seq(Passing)
         \/ /\ Registered(s)
            /\ q \in {<<"subActive", "master">>, <<"subActive", "webhookRead", "master">>},
         Do(w, [NoTask EXCEPT !.copy = m, !.sub = s, !.todo = q])
  PROVE  IInv'
<1>1. PICK t : t = [NoTask EXCEPT !.copy = m, !.sub = s, !.todo = q]
  OBVIOUS
<1>2. q \in Seq(Steps)
  <2>1. /\ <<"subActive", "master">> \in Seq(Steps)
        /\ <<"subActive", "webhookRead", "master">> \in Seq(Steps)
    BY DEF Steps
  <2>2. q \in Seq(Passing) => q \in Seq(Steps)
    BY PassingSeq
  <2> QED BY <2>1, <2>2
<1>3. t \in Tasks /\ t.copy = m /\ t.sub = s /\ t.todo = q
  BY <1>1, <1>2, NoTaskOK DEF TaskOK, Tasks
<1>4. CASE q \in Seq(Passing)
  <2>1. TaskOK(t)
    BY <1>3, <1>4, PlainTask, PassingSeq
  <2> QED BY <1>1, <2>1, TaskStarts
<1>5. CASE /\ Registered(s)
           /\ q \in {<<"subActive", "master">>, <<"subActive", "webhookRead", "master">>}
  <2>1. \A i \in 2 .. Len(t.todo) : t.todo[i] \notin Acting
    <3>1. CASE q = <<"subActive", "master">>
      BY <1>3, <3>1 DEF Acting
    <3>2. CASE q = <<"subActive", "webhookRead", "master">>
      BY <1>3, <3>2 DEF Acting
    <3> QED BY <1>5, <3>1, <3>2
  <2>2. HeadOK(t.todo[1], t)
    BY <1>3, <1>5 DEF HeadOK
  <2>3. TaskOK(t)
    BY <1>3, <2>1, <2>2, NewTask
  <2> QED BY <1>1, <2>3, TaskStarts
<1> QED BY <1>4, <1>5

LEMMA LinkedSub ==
  ASSUME IInv, HasSub(loan.sub)
  PROVE  loan.sub \in Subs
  BY DEF IInv, RowTypes, LoanRows, HasSub

LEMMA CheckMandateKeeps ==
  ASSUME IInv, NEW w \in Workers, CheckMandate(w)
  PROVE  IInv'
<1>1. PICK s : s = loan.sub
  OBVIOUS
<1>2. s \in Subs /\ UNCHANGED <<db, world, aborts>>
  BY <1>1, LinkedSub DEF CheckMandate
<1>3. CASE /\ IsSuccess(s)
           /\ Do(w, [NoTask EXCEPT !.copy = [master EXCEPT !.eMandate = 1],
                                   !.sub = s, !.todo = <<"subActive", "master">>])
  <2>1. Registered(s) /\ SomeRegistered
    BY <1>2, <1>3 DEF IsSuccess, SomeRegistered
  <2>2. /\ [master EXCEPT !.eMandate = 1] \in MasterRows
        /\ CopyOK([master EXCEPT !.eMandate = 1])
    BY <2>1 DEF IInv, RowTypes, MasterRows, CopyOK
  <2> QED BY <1>2, <1>3, <2>1, <2>2, SubTask
<1>4. CASE Do(w, [NoTask EXCEPT !.copy = [master EXCEPT !.eMandate = 2],
                                !.sub = s, !.todo = <<"subFailed", "master">>])
  <2>1. /\ [master EXCEPT !.eMandate = 2] \in MasterRows
        /\ CopyOK([master EXCEPT !.eMandate = 2])
    BY DEF IInv, RowTypes, MasterRows, CopyOK
  <2> QED BY <1>2, <1>4, <2>1, SubTask, PassingSteps
<1> QED BY <1>1, <1>3, <1>4 DEF CheckMandate

LEMMA ADPaymentWebhookKeeps ==
  ASSUME IInv, NEW w \in Workers, ADPaymentWebhook(w)
  PROVE  IInv'
<1>1. UNCHANGED <<db, world, aborts>>
  BY DEF ADPaymentWebhook
<1>2. PICK s \in Subs, captured \in BOOLEAN :
        /\ captured => Registered(s)
        /\ Do(w, [NoTask EXCEPT
                  !.sub = s,
                  !.copy.eMandate = IF captured THEN 1 ELSE 2,
                  !.todo = <<IF captured THEN "subActive" ELSE "subFailed",
                             "webhookRead", "master">>])
  BY DEF ADPaymentWebhook
<1>3. PICK e : e = IF captured THEN 1 ELSE 2
  OBVIOUS
<1>4. PICK q : q = <<IF captured THEN "subActive" ELSE "subFailed", "webhookRead", "master">>
  OBVIOUS
<1>5. \/ q \in Seq(Passing)
      \/ Registered(s) /\ q = <<"subActive", "webhookRead", "master">>
  BY <1>2, <1>4, PassingSteps
<1>6. PICK m : m = [NewMaster EXCEPT !.eMandate = e]
  OBVIOUS
<1>7. m \in MasterRows
  BY <1>3, <1>6 DEF NewMaster, MasterRows
<1>8. CopyOK(m)
  BY <1>2, <1>3, <1>6 DEF NewMaster, CopyOK, SomeRegistered
<1>9. Do(w, [NoTask EXCEPT !.copy = m, !.sub = s, !.todo = q])
  BY <1>2, <1>3, <1>4, <1>6 DEF NoTask
<1> QED BY <1>1, <1>5, <1>7, <1>8, <1>9, SubTask

LEMMA DeleteMandateKeeps ==
  ASSUME IInv, NEW w \in Workers, DeleteMandate(w)
  PROVE  IInv'
<1>1. PICK s : s = loan.sub
  OBVIOUS
<1>2. s \in Subs /\ UNCHANGED <<db, world, aborts>>
  BY <1>1, LinkedSub DEF DeleteMandate
<1>3. CASE /\ IsRevived(s)
           /\ Do(w, [NoTask EXCEPT !.copy = [master EXCEPT !.eMandate = 1],
                                   !.sub = s, !.todo = <<"subActive", "master">>])
  <2>1. Registered(s) /\ SomeRegistered
    BY <1>2, <1>3 DEF IsRevived, SomeRegistered
  <2>2. /\ [master EXCEPT !.eMandate = 1] \in MasterRows
        /\ CopyOK([master EXCEPT !.eMandate = 1])
    BY <2>1 DEF IInv, RowTypes, MasterRows, CopyOK
  <2> QED BY <1>2, <1>3, <2>1, <2>2, SubTask
<1>4. CASE Do(w, [NoTask EXCEPT !.copy = [master EXCEPT !.eMandate = -1],
                                !.sub = s, !.todo = <<"unlinkSub", "master", "dropSub">>])
  <2>1. /\ [master EXCEPT !.eMandate = -1] \in MasterRows
        /\ CopyOK([master EXCEPT !.eMandate = -1])
    BY DEF IInv, RowTypes, MasterRows, CopyOK
  <2> QED BY <1>2, <1>4, <2>1, SubTask, PassingSteps
<1> QED BY <1>1, <1>3, <1>4 DEF DeleteMandate

(* The provider is asked before an agreement is taken for signed. *)
LEMMA CheckStatusKeeps ==
  ASSUME IInv, NEW w \in Workers, CheckStatus(w)
  PROVE  IInv'
<1>1. PICK d : d = loan.doc
  OBVIOUS
<1>2. d \in Docs /\ UNCHANGED <<db, world, aborts>>
  BY <1>1 DEF IInv, RowTypes, LoanRows, HasDoc, CheckStatus
<1>3. PICK m : m = IF d \in signer
                     THEN [master EXCEPT !.eSign = 1,
                                         !.disbursement = IF @ = 1 THEN 1 ELSE 0]
                     ELSE [master EXCEPT !.eSign = 0]
  OBVIOUS
<1>4. m \in MasterRows
  BY <1>3 DEF IInv, RowTypes, MasterRows
<1>5. CopyOK(m) /\ (m.eSign = 1 => d \in signer)
  BY <1>3 DEF IInv, RowTypes, MasterRows, CopyOK
<1>6. PICK t : t = [NoTask EXCEPT !.doc = d, !.copy = m, !.todo = <<"docStatus", "master">>]
  OBVIOUS
<1>7. <<"docStatus", "master">> \in Seq(Steps)
  BY DEF Steps
<1>8. /\ t \in Tasks /\ t.copy = m /\ t.doc = d
      /\ t.todo = <<"docStatus", "master">>
  BY <1>2, <1>4, <1>6, <1>7, NoTaskOK DEF TaskOK, Tasks
<1>9. \A i \in 2 .. Len(t.todo) : t.todo[i] \notin Acting
  BY <1>8 DEF Acting
<1>10. HeadOK(t.todo[1], t)
  BY <1>5, <1>8 DEF HeadOK
<1>11. TaskOK(t)
  BY <1>5, <1>8, <1>9, <1>10, NewTask
<1>12. Do(w, t)
  BY <1>1, <1>3, <1>6 DEF CheckStatus
<1> QED BY <1>2, <1>11, <1>12, TaskStarts

LEMMA RegenerateKeeps ==
  ASSUME IInv, NEW w \in Workers, NEW d \in Docs, Regenerate(w, d)
  PROVE  IInv'
<1>1. PICK q : q = <<"deleteRead", "deleteRow", "unlinkDoc", "master", "inviteRead">>
  OBVIOUS
<1>2. q \in Seq(Passing)
  BY <1>1, PassingDocSteps
<1>3. PICK t : t = [NoTask EXCEPT !.doc = d, !.force = TRUE, !.todo = q]
  OBVIOUS
<1>4. t \in Tasks /\ t.copy = NoTask.copy /\ t.todo = q
  BY <1>2, <1>3, NoTaskOK, PassingSeq DEF TaskOK, Tasks
<1>5. TaskOK(t)
  BY <1>2, <1>4, NoTaskOK, PlainTask, PassingSeq DEF TaskOK
<1>6. Do(w, t) /\ UNCHANGED <<db, world, aborts>>
  BY <1>1, <1>3 DEF Regenerate
<1> QED BY <1>5, <1>6, TaskStarts

LEMMA ReEsignKeeps ==
  ASSUME IInv, NEW w \in Workers, ReEsign(w)
  PROVE  IInv'
<1>1. PICK q : q = <<"dropDoc", "resetLoan", "master", "reinitiate">>
  OBVIOUS
<1>2. q \in Seq(Steps)
  BY <1>1 DEF Steps
<1>3. PICK m : m = [master EXCEPT !.eSign = -1, !.disbursement = -1]
  OBVIOUS
<1>4. m \in MasterRows /\ CopyOK(m)
  <2>1. /\ m \in MasterRows /\ m.eSign = -1 /\ m.disbursement = -1
        /\ m.loan = master.loan /\ m.eMandate = master.eMandate
    BY <1>3 DEF IInv, RowTypes, MasterRows
  <2> QED BY <2>1 DEF IInv, CopyOK
<1>5. PICK t : t = [NoTask EXCEPT !.doc = loan.doc, !.copy = m, !.todo = q]
  OBVIOUS
<1>6. loan.doc \in Docs \union {None}
  BY DEF IInv, RowTypes, LoanRows
<1>7. t \in Tasks /\ t.copy = m /\ t.todo = q
  BY <1>2, <1>4, <1>5, <1>6, NoTaskOK DEF TaskOK, Tasks
<1>8. TaskOK(t)
  <2>1. approved /\ SomeRegistered
    BY <1>6 DEF ReEsign, HasDoc, IInv, RowsOK
  <2>2. \A i \in 2 .. Len(t.todo) : t.todo[i] \notin Acting
    BY <1>1, <1>7 DEF Acting
  <2>3. HeadOK(t.todo[1], t)
    BY <1>1, <1>7, <2>1 DEF HeadOK
  <2> QED BY <1>4, <1>7, <2>2, <2>3, NewTask
<1>9. Do(w, t) /\ UNCHANGED <<db, world, aborts>>
  BY <1>1, <1>3, <1>5 DEF ReEsign
<1> QED BY <1>8, <1>9, TaskStarts

-----------------------------------------------------------------------------
(* A handler that is under way reads the status, or gives up. *)

LEMMA RejectTodo ==
  ASSUME NEW s \in Seq(Steps), s # <<>>, \A i \in 2 .. Len(s) : s[i] \notin Acting,
         NEW r, r = <<"reject", "master">> \o Tail(s)
  PROVE  /\ r \in Seq(Steps) /\ Len(r) \in Nat /\ Len(r) >= 2
         /\ \A i \in 2 .. Len(r) : r[i] \notin Acting
         /\ r[1] = "reject"
<1>1. PICK a : a = <<"reject", "master">>
  OBVIOUS
<1>2. a \in Seq(Steps) /\ Len(a) = 2 /\ a[1] = "reject" /\ a[2] = "master"
  BY <1>1 DEF Steps
<1>3. PICK b : b = Tail(s)
  OBVIOUS
<1>4. b \in Seq(Steps) /\ Len(b) \in Nat
  BY <1>3, TailKeeps, LenProperties
<1>5. \A i \in 1 .. Len(b) : b[i] \notin Acting
  BY <1>3, TailBehind
<1>6. /\ r \in Seq(Steps) /\ Len(r) = 2 + Len(b)
      /\ \A i \in 1 .. 2 + Len(b) : r[i] = IF i <= 2 THEN a[i] ELSE b[i - 2]
  BY <1>1, <1>2, <1>3, <1>4, ConcatProperties
<1>7. Len(r) \in Nat /\ Len(r) >= 2 /\ r[1] = "reject"
  BY <1>2, <1>4, <1>6
<1>8. ASSUME NEW i \in 2 .. Len(r) PROVE r[i] \notin Acting
  <2>1. CASE i = 2
    BY <1>2, <1>4, <1>6, <2>1 DEF Acting
  <2>2. CASE i > 2
    <3>1. i - 2 \in 1 .. Len(b) /\ r[i] = b[i - 2]
      BY <1>4, <1>6, <2>2
    <3> QED BY <1>5, <3>1
  <2> QED BY <1>6, <1>4, <2>1, <2>2
<1> QED BY <1>6, <1>7, <1>8

LEMMA RejectReadKeeps ==
  ASSUME IInv, NEW w \in Workers, RejectRead(w)
  PROVE  IInv'
<1>1. At(w, "rejectRead") /\ UNCHANGED <<db, world, aborts>>
  BY DEF RejectRead
<1>2. Grows /\ RowTypes' /\ RowsOK' /\ CopyOK(master)'
  BY <1>1, RowsStay
<1>3. CASE Go(w)
  BY <1>1, <1>2, <1>3, GoStep DEF IInv
<1>4. CASE Read(w, [master EXCEPT !.loan = 2], <<"reject", "master">>)
  <2>1. PICK m : m = [master EXCEPT !.loan = 2]
    OBVIOUS
  <2>2. m \in MasterRows /\ CopyOK(m)
    BY <2>1 DEF IInv, RowTypes, MasterRows, CopyOK
  <2>3. PICK t : t = task[w]
    OBVIOUS
  <2>4. TaskOK(t) /\ t \in Tasks /\ t.todo # <<>> /\ t.todo \in Seq(Steps)
    BY <1>1, <2>3 DEF IInv, TasksOK, At, Tasks
  <2>5. PICK r : r = <<"reject", "master">> \o Tail(t.todo)
    OBVIOUS
  <2>6. /\ r \in Seq(Steps) /\ Len(r) \in Nat /\ Len(r) >= 2
        /\ \A i \in 2 .. Len(r) : r[i] \notin Acting
        /\ r[1] = "reject"
    BY <2>4, <2>5, RejectTodo DEF TaskOK
  <2>7. PICK u : u = [t EXCEPT !.copy = m, !.todo = r]
    OBVIOUS
  <2>8. u \in Tasks /\ u.todo = r /\ u.copy = m
    BY <2>2, <2>4, <2>6, <2>7 DEF Tasks
  <2>9. TaskOK(u)
    BY <2>2, <2>6, <2>8, NewTask DEF HeadOK
  <2>10. Do(w, u)
    BY <1>4, <2>1, <2>3, <2>5, <2>7 DEF Read
  <2> QED BY <1>1, <2>9, <2>10, TaskStarts
<1> QED BY <1>3, <1>4 DEF RejectRead

LEMMA StepsReadKeeps ==
  ASSUME IInv, NEW w \in Workers, StepsRead(w)
  PROVE  IInv'
<1>1. At(w, "stepsRead") /\ UNCHANGED <<db, world, aborts>> /\ Read(w, master, <<>>)
  BY DEF StepsRead
<1>2. Grows /\ RowTypes' /\ RowsOK' /\ CopyOK(master)'
  BY <1>1, RowsStay
<1>3. <<>> \in Seq(Steps) /\ \A i \in 1 .. Len(<<>>) : <<>>[i] \notin Acting
  BY EmptySeq, PassingSeq
<1>4. TasksOK'
  BY <1>1, <1>2, <1>3, ReadStep DEF IInv, RowTypes
<1> QED BY <1>2, <1>4 DEF IInv

LEMMA WebhookReadKeeps ==
  ASSUME IInv, NEW w \in Workers, WebhookRead(w)
  PROVE  IInv'
<1>1. PICK e : e = task[w].copy.eMandate
  OBVIOUS
<1>2. PICK m : m = [master EXCEPT !.eMandate = e]
  OBVIOUS
<1>3. At(w, "webhookRead") /\ UNCHANGED <<db, world, aborts>> /\ Read(w, m, <<>>)
  BY <1>1, <1>2 DEF WebhookRead
<1>4. Grows /\ RowTypes' /\ RowsOK' /\ CopyOK(master)'
  BY <1>3, RowsStay
<1>5. <<>> \in Seq(Steps) /\ \A i \in 1 .. Len(<<>>) : <<>>[i] \notin Acting
  BY EmptySeq, PassingSeq
<1>6. e \in {-1, 0, 1, 2} /\ (e = 1 => SomeRegistered)
  BY <1>1 DEF IInv, TasksOK, TaskOK, CopyOK, Tasks, MasterRows
<1>7. /\ m \in MasterRows /\ m.eMandate = e /\ m.loan = master.loan
      /\ m.eSign = master.eSign /\ m.disbursement = master.disbursement
  BY <1>2, <1>6 DEF IInv, RowTypes, MasterRows
<1>8. CopyOK(m)
  BY <1>6, <1>7 DEF IInv, CopyOK
<1>9. TasksOK'
  BY <1>3, <1>4, <1>5, <1>7, <1>8, ReadStep DEF IInv
<1> QED BY <1>4, <1>9 DEF IInv

LEMMA DeleteReadKeeps ==
  ASSUME IInv, NEW w \in Workers, DeleteRead(w)
  PROVE  IInv'
<1>1. At(w, "deleteRead") /\ UNCHANGED <<db, world, aborts>>
  BY DEF DeleteRead
<1>2. Grows /\ RowTypes' /\ RowsOK' /\ CopyOK(master)'
  BY <1>1, RowsStay
<1>3. PICK t : t = task[w]
  OBVIOUS
<1>4. TaskOK(t) /\ t \in Tasks /\ t.todo # <<>> /\ t.todo \in Seq(Steps)
  BY <1>1, <1>3 DEF IInv, TasksOK, At, Tasks
<1>5. PICK m : m = [master EXCEPT !.eSign = -1]
  OBVIOUS
<1>6. m \in MasterRows /\ CopyOK(m)
  BY <1>5 DEF IInv, RowTypes, MasterRows, CopyOK
<1>7. CASE Stop(w)
  BY <1>2, <1>7, StopStep DEF IInv
<1>8. CASE Do(w, [t EXCEPT !.copy = m, !.todo = Tail(@)])
  <2>1. PICK u : u = [t EXCEPT !.copy = m, !.todo = Tail(@)]
    OBVIOUS
  <2>2. u \in Tasks /\ u.todo = Tail(t.todo) /\ u.copy = m
    BY <1>4, <1>6, <2>1, TailKeeps DEF Tasks
  <2>3. TaskOK(u)
    BY <1>4, <1>6, <2>2, TailTask
  <2> QED BY <1>1, <1>8, <2>1, <2>3, TaskStarts
<1>9. CASE Do(w, [t EXCEPT !.copy = m, !.todo = <<"deleteRow">>])
  <2>1. PICK u : u = [t EXCEPT !.copy = m, !.todo = <<"deleteRow">>]
    OBVIOUS
  <2>2. u \in Tasks /\ u.todo = <<"deleteRow">> /\ u.copy = m
    BY <1>4, <1>6, <2>1, PassingSteps, PassingSeq DEF Tasks
  <2>3. TaskOK(u)
    BY <1>6, <2>2, PlainTask, PassingSteps, PassingSeq
  <2> QED BY <1>1, <1>9, <2>1, <2>3, TaskStarts
<1> QED BY <1>3, <1>5, <1>7, <1>8, <1>9 DEF DeleteRead

LEMMA AbortKeeps ==
  ASSUME IInv, NEW w \in Workers, Abort(w)
  PROVE  IInv'
<1>1. UNCHANGED <<loan, master, doc, sub, account, approved, signer, bank>>
  BY DEF Abort, db, world
<1>2. \A s \in Subs : Registered(s)' = Registered(s)
  BY <1>1 DEF Registered
<1>3. Grows
  BY <1>1, <1>2 DEF Grows
<1>4. aborts' \in 0 .. MaxAborts
  BY OnboardingAssumption DEF Abort, IInv, RowTypes
<1>5. RowTypes'
  BY <1>1, <1>4 DEF IInv, RowTypes
<1>6. RowsOK' /\ CopyOK(master)'
  BY <1>1, <1>2 DEF IInv, RowsOK, CopyOK, SomeRegistered
<1>7. TasksOK'
  BY <1>3, StopStep DEF Abort, IInv
<1> QED BY <1>5, <1>6, <1>7 DEF IInv

-----------------------------------------------------------------------------
(* A handler writes the loan. *)

LEMMA LoanRowKeeps ==
  ASSUME IInv, UnchangedButLoan, loan' \in LoanRows,
         loan'.verified = "approved" => approved,
         loan'.status = "Active" => approved /\ SomeRegistered /\ signer # {}
  PROVE  Grows /\ RowTypes' /\ RowsOK' /\ CopyOK(master)'
<1>1. UNCHANGED <<master, doc, sub, account, approved, signer, bank, aborts>>
  BY DEF UnchangedButLoan, world
<1>2. \A s \in Subs : Registered(s)' = Registered(s)
  BY <1>1 DEF Registered
<1>3. Grows
  BY <1>1, <1>2 DEF Grows
<1>4. RowTypes'
  BY <1>1 DEF IInv, RowTypes
<1>5. RowsOK' /\ CopyOK(master)'
  BY <1>1, <1>2 DEF IInv, RowsOK, CopyOK, SomeRegistered
<1> QED BY <1>3, <1>4, <1>5

LEMMA LoanGoes ==
  ASSUME IInv, UnchangedButLoan, loan' \in LoanRows,
         loan'.verified = "approved" => approved,
         loan'.status = "Active" => approved /\ SomeRegistered /\ signer # {},
         NEW w \in Workers, NEW step, LoanStep(w, step)
  PROVE  IInv'
<1>1. Grows /\ RowTypes' /\ RowsOK' /\ CopyOK(master)'
  BY LoanRowKeeps
<1>2. TasksOK'
  BY <1>1, GoStep DEF LoanStep, IInv
<1> QED BY <1>1, <1>2 DEF IInv

(* Only an approval that was decided is written. *)
LEMMA ApproveLoanKeeps ==
  ASSUME IInv, NEW w \in Workers, ApproveLoan(w)
  PROVE  IInv'
<1>1. PICK t : t = task[w]
  OBVIOUS
<1>2. /\ t \in Tasks /\ TaskOK(t) /\ t.todo # <<>> /\ Head(t.todo) = "approve"
      /\ t.todo \in Seq(Steps)
  BY <1>1 DEF ApproveLoan, LoanStep, At, IInv, TasksOK, Tasks
<1>3. approved
  BY <1>2, TailKeeps DEF TaskOK, HeadOK
<1>4. PICK s : s = IF t.sub = None THEN loan.sub ELSE t.sub
  OBVIOUS
<1>5. s \in Subs \union {None}
  BY <1>2, <1>4 DEF IInv, RowTypes, LoanRows, Tasks
<1>6. loan' = [loan EXCEPT !.verified = "approved", !.sub = s]
  BY <1>1, <1>4 DEF ApproveLoan
<1>7. loan' \in LoanRows /\ loan'.status = loan.status
  BY <1>5, <1>6 DEF IInv, RowTypes, LoanRows
<1> QED BY <1>3, <1>7, LoanGoes DEF ApproveLoan, IInv, RowsOK

(* The steps that take nothing for approved and no loan for active. *)
LEMMA MeekLoanStep ==
  ASSUME IInv, UnchangedButLoan, NEW w \in Workers, NEW step, LoanStep(w, step),
         loan' \in LoanRows,
         loan'.verified \in {loan.verified, "pending", "rejected"},
         loan'.status \in {loan.status, "Rejected", "Accepted"}
  PROVE  IInv'
<1>1. loan'.verified = "approved" => approved
  BY DEF IInv, RowsOK
<1>2. loan'.status = "Active" => approved /\ SomeRegistered /\ signer # {}
  BY DEF IInv, RowsOK
<1> QED BY <1>1, <1>2, LoanGoes

LEMMA ReferLoanKeeps ==
  ASSUME IInv, NEW w \in Workers, ReferLoan(w)
  PROVE  IInv'
<1>1. loan' \in LoanRows /\ loan'.verified = "pending" /\ loan'.status = loan.status
  BY DEF ReferLoan, IInv, RowTypes, LoanRows
<1> QED BY <1>1, MeekLoanStep DEF ReferLoan

LEMMA DeclineLoanKeeps ==
  ASSUME IInv, NEW w \in Workers, DeclineLoan(w)
  PROVE  IInv'
<1>1. loan' \in LoanRows /\ loan'.verified = "rejected" /\ loan'.status = "Rejected"
  BY DEF DeclineLoan, IInv, RowTypes, LoanRows, Status
<1> QED BY <1>1, MeekLoanStep DEF DeclineLoan

LEMMA ReopenLoanKeeps ==
  ASSUME IInv, NEW w \in Workers, ReopenLoan(w)
  PROVE  IInv'
<1>1. loan' \in LoanRows /\ loan'.verified = "pending" /\ loan'.status = "Accepted"
  BY DEF ReopenLoan, IInv, RowTypes, LoanRows, Status
<1> QED BY <1>1, MeekLoanStep DEF ReopenLoan

LEMMA AcceptLoanKeeps ==
  ASSUME IInv, NEW w \in Workers, AcceptLoan(w)
  PROVE  IInv'
<1>1. loan' \in LoanRows /\ loan'.verified = loan.verified /\ loan'.status = "Accepted"
  BY DEF AcceptLoan, IInv, RowTypes, LoanRows, Status
<1> QED BY <1>1, MeekLoanStep DEF AcceptLoan

LEMMA LinkSubKeeps ==
  ASSUME IInv, NEW w \in Workers, LinkSub(w)
  PROVE  IInv'
<1>1. task[w].sub \in Subs \union {None}
  BY DEF IInv, TasksOK, Tasks
<1>2. loan' \in LoanRows /\ loan'.verified = loan.verified /\ loan'.status = loan.status
  BY <1>1 DEF LinkSub, IInv, RowTypes, LoanRows
<1> QED BY <1>2, MeekLoanStep DEF LinkSub

LEMMA LinkDocKeeps ==
  ASSUME IInv, NEW w \in Workers, LinkDoc(w)
  PROVE  IInv'
<1>1. task[w].doc \in Docs \union {None}
  BY DEF IInv, TasksOK, Tasks
<1>2. PICK d : d = task[w].doc
  OBVIOUS
<1>3. PICK st : st = IF task[w].force THEN "Accepted" ELSE loan.status
  OBVIOUS
<1>4. loan' = [loan EXCEPT !.doc = d, !.status = st]
  BY <1>2, <1>3 DEF LinkDoc
<1>5. d \in Docs \union {None} /\ st \in {loan.status, "Accepted"}
  BY <1>1, <1>2, <1>3
<1>6. loan' \in LoanRows /\ loan'.verified = loan.verified /\ loan'.status = st
  BY <1>4, <1>5 DEF IInv, RowTypes, LoanRows, Status
<1> QED BY <1>5, <1>6, MeekLoanStep DEF LinkDoc

LEMMA UnlinkDocKeeps ==
  ASSUME IInv, NEW w \in Workers, UnlinkDoc(w)
  PROVE  IInv'
<1>1. loan' \in LoanRows /\ loan'.verified = loan.verified /\ loan'.status = loan.status
  BY DEF UnlinkDoc, IInv, RowTypes, LoanRows
<1> QED BY <1>1, MeekLoanStep DEF UnlinkDoc

LEMMA ResetLoanKeeps ==
  ASSUME IInv, NEW w \in Workers, ResetLoan(w)
  PROVE  IInv'
<1>1. loan' \in LoanRows /\ loan'.verified = loan.verified /\ loan'.status = loan.status
  BY DEF ResetLoan, IInv, RowTypes, LoanRows
<1> QED BY <1>1, MeekLoanStep DEF ResetLoan

LEMMA ReInitiateStepKeeps ==
  ASSUME IInv, NEW w \in Workers, ReInitiateStep(w)
  PROVE  IInv'
<1>1. loan' \in LoanRows /\ loan'.verified = loan.verified /\ loan'.status = loan.status
  BY DEF ReInitiateStep, IInv, RowTypes, LoanRows
<1> QED BY <1>1, MeekLoanStep DEF ReInitiateStep

(* A rejection that comes too late skips the master row. *)
LEMMA RejectLoanKeeps ==
  ASSUME IInv, NEW w \in Workers, RejectLoan(w)
  PROVE  IInv'
<1>1. PICK t : t = task[w]
  OBVIOUS
<1>2. /\ t \in Tasks /\ TaskOK(t) /\ t.todo # <<>> /\ Head(t.todo) = "reject"
      /\ t.todo \in Seq(Steps) /\ At(w, "reject") /\ UnchangedButLoan
  BY <1>1 DEF RejectLoan, At, IInv, TasksOK, Tasks
<1>3. CASE MayReject(w)
  <2>1. /\ loan' = [loan EXCEPT !.status = "Rejected", !.verified = "rejected"]
        /\ LoanStep(w, "reject")
    BY <1>3 DEF RejectLoan, LoanStep
  <2>2. loan' \in LoanRows /\ loan'.verified = "rejected" /\ loan'.status = "Rejected"
    BY <2>1 DEF IInv, RowTypes, LoanRows, Status
  <2> QED BY <1>2, <2>1, <2>2, MeekLoanStep
<1>4. CASE ~MayReject(w)
  <2>1. loan' = loan /\ Do(w, [t EXCEPT !.todo = Tail(Tail(@))])
    BY <1>1, <1>4 DEF RejectLoan
  <2>2. Grows /\ RowTypes' /\ RowsOK' /\ CopyOK(master)'
    BY <1>2, <2>1, LoanRowKeeps DEF IInv, RowTypes, RowsOK
  <2>3. PICK s : s = Tail(t.todo)
    OBVIOUS
  <2>4. /\ s \in Seq(Steps) /\ Len(s) \in Nat /\ Len(s) >= 1
        /\ \A i \in 1 .. Len(s) : s[i] \notin Acting
    <3>1. Len(t.todo) >= 2
      BY <1>2, TailKeeps DEF TaskOK, HeadOK
    <3> QED BY <1>2, <2>3, <3>1, TailKeeps, TailBehind DEF TaskOK
  <2>5. s # <<>>
    BY <2>4, EmptySeq
  <2>6. PICK u : u = [t EXCEPT !.todo = s]
    OBVIOUS
  <2>7. u \in Tasks /\ u.todo = s /\ u.copy = t.copy
    BY <1>2, <2>4, <2>6 DEF Tasks
  <2>8. TaskOK(u)
    BY <1>2, <2>4, <2>7, PlainTask DEF TaskOK
  <2>9. PICK v : v = [t EXCEPT !.todo = Tail(s)]
    OBVIOUS
  <2>10. v \in Tasks /\ v.todo = Tail(u.todo) /\ v.copy = u.copy
    BY <1>2, <2>4, <2>5, <2>7, <2>9, TailKeeps DEF Tasks
  <2>11. TaskOK(v)
    BY <2>5, <2>7, <2>8, <2>10, TailTask DEF TaskOK
  <2>12. Do(w, v)
    BY <2>1, <2>3, <2>9
  <2>13. TasksOK'
    BY <2>2, <2>11, <2>12, TaskStep DEF IInv
  <2> QED BY <2>2, <2>13 DEF IInv
<1> QED BY <1>3, <1>4

LEMMA UnlinkSubKeeps ==
  ASSUME IInv, NEW w \in Workers, UnlinkSub(w)
  PROVE  IInv'
<1>1. CASE loan.sub = task[w].sub
  <2>1. loan' = [loan EXCEPT !.sub = None] /\ LoanStep(w, "unlinkSub") /\ UnchangedButLoan
    BY <1>1 DEF UnlinkSub, LoanStep
  <2>2. loan' \in LoanRows /\ loan'.verified = loan.verified /\ loan'.status = loan.status
    BY <2>1 DEF IInv, RowTypes, LoanRows
  <2> QED BY <2>1, <2>2, MeekLoanStep
<1>2. CASE loan.sub # task[w].sub
  <2>1. loan' = loan /\ Stop(w) /\ UnchangedButLoan
    BY <1>2 DEF UnlinkSub
  <2>2. Grows /\ RowTypes' /\ RowsOK' /\ CopyOK(master)'
    BY <2>1, LoanRowKeeps DEF IInv, RowTypes, RowsOK
  <2>3. TasksOK'
    BY <2>1, <2>2, StopStep DEF IInv
  <2> QED BY <2>2, <2>3 DEF IInv
<1> QED BY <1>1, <1>2

-----------------------------------------------------------------------------
(* A handler writes a mandate. *)

(* Whoever marks a mandate as active knows that the bank registered it. *)
LEMMA SubRowsKeep ==
  ASSUME IInv, UNCHANGED <<loan, master, doc, approved, world, aborts>>,
         account' \in Subs \union {None},
         sub' \in [Subs -> {"none", "INITIALIZED", "ACTIVE", "FAILED", "deleted"}],
         \A s \in Subs : sub'[s] = "ACTIVE" => sub[s] = "ACTIVE" \/ Registered(s)
  PROVE  Grows /\ RowTypes' /\ RowsOK' /\ CopyOK(master)'
<1>1. UNCHANGED <<loan, master, doc, approved, signer, bank, aborts>>
  BY DEF world
<1>2. \A s \in Subs : Registered(s)' = Registered(s)
  BY <1>1 DEF Registered
<1>3. Grows
  BY <1>1, <1>2 DEF Grows
<1>4. RowTypes'
  BY <1>1 DEF IInv, RowTypes
<1>5. RowsOK' /\ CopyOK(master)'
  BY <1>1, <1>2 DEF IInv, RowsOK, CopyOK, SomeRegistered
<1> QED BY <1>3, <1>4, <1>5

LEMMA RefreshedRows ==
  ASSUME IInv
  PROVE  /\ Refreshed \in [Subs -> {"none", "INITIALIZED", "ACTIVE", "FAILED", "deleted"}]
         /\ \A s \in Subs : Refreshed[s] = "ACTIVE" => Registered(s)
<1>1. HasSub(account) => account \in Subs
  BY DEF IInv, RowTypes, HasSub
<1>2. BankStatus(account) \in {"ACTIVE", "INITIALIZED"}
      /\ (BankStatus(account) = "ACTIVE" => Registered(account))
  BY DEF BankStatus
<1>3. CASE Cashfree /\ HasSub(account)
  <2>1. Refreshed = [sub EXCEPT ![account] = BankStatus(account)]
    BY <1>3 DEF Refreshed
  <2> QED BY <1>1, <1>2, <1>3, <2>1 DEF IInv, RowTypes, RowsOK
<1>4. CASE ~(Cashfree /\ HasSub(account))
  BY <1>4 DEF Refreshed, IInv, RowTypes, RowsOK
<1> QED BY <1>3, <1>4

LEMMA MandateRegistered ==
  ASSUME IInv, HasMandate
  PROVE  account \in Subs /\ Registered(account) /\ SomeRegistered
<1>1. account \in Subs
  BY DEF IInv, RowTypes, HasMandate, HasSub
<1>2. Registered(account)
  BY <1>1, RefreshedRows DEF HasMandate
<1> QED BY <1>1, <1>2 DEF SomeRegistered

LEMMA LinkReadKeeps ==
  ASSUME IInv, NEW w \in Workers, LinkRead(w)
  PROVE  IInv'
<1>1. At(w, "linkRead") /\ UNCHANGED <<loan, master, doc, sub, approved, world, aborts>>
      /\ account' \in {account, None}
  BY DEF LinkRead
<1>2. Grows /\ RowTypes' /\ RowsOK' /\ CopyOK(master)'
  BY <1>1, SubRowsKeep DEF IInv, RowTypes
<1>3. CASE Stop(w)
  BY <1>2, <1>3, StopStep DEF IInv
<1>4. CASE Read(w, [master EXCEPT !.eMandate = 0], <<"createSub", "linkSub", "master">>)
  <2>1. /\ [master EXCEPT !.eMandate = 0] \in MasterRows
        /\ CopyOK([master EXCEPT !.eMandate = 0])
    BY DEF IInv, RowTypes, MasterRows, CopyOK
  <2>2. TasksOK'
    BY <1>1, <1>2, <1>4, <2>1, PassingSteps, PassingSeq, ReadStep DEF IInv
  <2> QED BY <1>2, <2>2 DEF IInv
<1> QED BY <1>3, <1>4 DEF LinkRead

LEMMA CreateSubKeeps ==
  ASSUME IInv, NEW w \in Workers, CreateSub(w)
  PROVE  IInv'
<1>1. At(w, "createSub") /\ UNCHANGED <<loan, master, doc, approved, signer, aborts>>
  BY DEF CreateSub
<1>2. CASE Stop(w) /\ UNCHANGED <<sub, account, bank>>
  <2>1. Grows /\ RowTypes' /\ RowsOK' /\ CopyOK(master)'
    BY <1>1, <1>2, SubRowsKeep DEF IInv, RowTypes, world
  <2>2. TasksOK'
    BY <1>2, <2>1, StopStep DEF IInv
  <2> QED BY <2>1, <2>2 DEF IInv
<1>3. CASE \E s \in FreeSubs :
             /\ sub' = [sub EXCEPT ![s] = "INITIALIZED"]
             /\ bank' = [bank EXCEPT ![s] = "pending"]
             /\ account' = s
             /\ Do(w, [task[w] EXCEPT !.sub = s, !.todo = Tail(@)])
  <2>1. PICK s \in FreeSubs :
             /\ sub' = [sub EXCEPT ![s] = "INITIALIZED"]
             /\ bank' = [bank EXCEPT ![s] = "pending"]
             /\ account' = s
             /\ Do(w, [task[w] EXCEPT !.sub = s, !.todo = Tail(@)])
    BY <1>3
  <2>2. s \in Subs /\ bank[s] = "none"
    BY DEF FreeSubs
  <2>3. \A r \in Subs : Registered(r) => Registered(r)' /\ r # s
    BY <2>1, <2>2 DEF Registered, IInv, RowTypes
  <2>4. Grows
    BY <1>1, <2>3 DEF Grows
  <2>5. RowTypes'
    BY <1>1, <2>1, <2>2 DEF IInv, RowTypes
  <2>6. RowsOK' /\ CopyOK(master)'
    BY <1>1, <2>1, <2>2, <2>3 DEF IInv, RowsOK, RowTypes, CopyOK, SomeRegistered
  <2>7. PICK t : t = task[w]
    OBVIOUS
  <2>8. TaskOK(t) /\ t \in Tasks /\ t.todo # <<>> /\ t.todo \in Seq(Steps)
    BY <1>1, <2>7 DEF IInv, TasksOK, At, Tasks
  <2>9. PICK u : u = [t EXCEPT !.sub = s, !.todo = Tail(@)]
    OBVIOUS
  <2>10. u \in Tasks /\ u.todo = Tail(t.todo) /\ u.copy = t.copy
    BY <2>2, <2>8, <2>9, TailKeeps DEF Tasks
  <2>11. TaskOK(u) /\ Do(w, u)
    BY <2>1, <2>7, <2>8, <2>9, <2>10, TailTask DEF TaskOK
  <2>12. TasksOK'
    BY <2>4, <2>11, TaskStep DEF IInv
  <2> QED BY <2>5, <2>6, <2>12 DEF IInv
<1> QED BY <1>2, <1>3 DEF CreateSub

(* A handler marks a mandate as active only after the bank confirmed it.   *)
LEMMA WriteSubKeeps ==
  ASSUME IInv, NEW w \in Workers,
         NEW step, NEW status, WriteSub(w, step, status),
         \/ step = "subActive" /\ status = "ACTIVE"
         \/ step = "subFailed" /\ status = "FAILED"
  PROVE  IInv'
<1>1. PICK t : t = task[w]
  OBVIOUS
<1>2. /\ t \in Tasks /\ TaskOK(t) /\ t.todo # <<>> /\ Head(t.todo) = step
      /\ t.todo \in Seq(Steps) /\ At(w, step) /\ Go(w)
      /\ UNCHANGED <<loan, master, doc, account, approved, world, aborts>>
  BY <1>1 DEF WriteSub, At, IInv, TasksOK, Tasks
<1>3. status = "ACTIVE" => t.sub \in Subs /\ Registered(t.sub)
  BY <1>2, TailKeeps DEF TaskOK, HeadOK
<1>4. PICK v : v = IF HasSub(t.sub) THEN status ELSE sub[t.sub]
  OBVIOUS
<1>5. sub' = [sub EXCEPT ![t.sub] = v]
  BY <1>1, <1>4 DEF WriteSub
<1>6. t.sub \in Subs => v \in {sub[t.sub], status}
  BY <1>4
<1>7. sub' \in [Subs -> {"none", "INITIALIZED", "ACTIVE", "FAILED", "deleted"}]
  BY <1>5, <1>6 DEF IInv, RowTypes
<1>8. \A s \in Subs : sub'[s] = "ACTIVE" => sub[s] = "ACTIVE" \/ Registered(s)
  BY <1>3, <1>5, <1>6 DEF IInv, RowTypes
<1>9. Grows /\ RowTypes' /\ RowsOK' /\ CopyOK(master)'
  BY <1>2, <1>7, <1>8, SubRowsKeep DEF IInv, RowTypes
<1>10. TasksOK'
  BY <1>2, <1>9, GoStep DEF IInv
<1> QED BY <1>9, <1>10 DEF IInv

LEMMA CallbackKeeps ==
  ASSUME IInv, NEW s \in Subs, Callback(s)
  PROVE  IInv'
<1>1. /\ UNCHANGED <<loan, master, doc, account, approved, world, aborts>>
      /\ task' = task
  BY DEF Callback
<1>2. /\ sub' \in [Subs -> {"none", "INITIALIZED", "ACTIVE", "FAILED", "deleted"}]
      /\ \A r \in Subs : sub'[r] = "ACTIVE" => sub[r] = "ACTIVE" \/ Registered(r)
  BY DEF Callback, IInv, RowTypes
<1>3. Grows /\ RowTypes' /\ RowsOK' /\ CopyOK(master)'
  BY <1>1, <1>2, SubRowsKeep DEF IInv, RowTypes
<1>4. TasksOK'
  BY <1>1, <1>3, TasksStay DEF IInv
<1> QED BY <1>3, <1>4 DEF IInv

LEMMA DropSubKeeps ==
  ASSUME IInv, NEW w \in Workers, DropSub(w)
  PROVE  IInv'
<1>1. /\ UNCHANGED <<loan, master, doc, approved, world, aborts>>
      /\ account' \in {account, None} /\ At(w, "dropSub") /\ Go(w)
  BY DEF DropSub
<1>2. PICK s : s = task[w].sub
  OBVIOUS
<1>3. sub' = [sub EXCEPT ![s] = "deleted"]
  BY <1>2 DEF DropSub
<1>4. /\ sub' \in [Subs -> {"none", "INITIALIZED", "ACTIVE", "FAILED", "deleted"}]
      /\ \A r \in Subs : sub'[r] = "ACTIVE" => sub[r] = "ACTIVE"
  BY <1>3 DEF IInv, RowTypes
<1>5. Grows /\ RowTypes' /\ RowsOK' /\ CopyOK(master)'
  BY <1>1, <1>4, SubRowsKeep DEF IInv, RowTypes
<1>6. TasksOK'
  BY <1>1, <1>5, GoStep DEF IInv
<1> QED BY <1>5, <1>6 DEF IInv

(* The approval decides, refreshes the earlier mandate and copies a status *)
(* that says so.                                                           *)
LEMMA MandateReadKeeps ==
  ASSUME IInv, NEW w \in Workers, MandateRead(w)
  PROVE  IInv'
<1>1. UNCHANGED <<loan, master, doc, account, signer, bank, aborts>> /\ approved' = TRUE
      /\ sub' = Refreshed
  BY DEF MandateRead, world
<1>2. \A s \in Subs : Registered(s)' = Registered(s)
  BY <1>1 DEF Registered
<1>3. Grows
  BY <1>1, <1>2 DEF Grows
<1>4. RowTypes'
  BY <1>1, RefreshedRows DEF IInv, RowTypes
<1>5. RowsOK' /\ CopyOK(master)'
  BY <1>1, <1>2, RefreshedRows DEF IInv, RowsOK, CopyOK, SomeRegistered
<1>6. PICK o : o = task[w]
  OBVIOUS
<1>7. o \in Tasks /\ TaskOK(o)
  BY <1>6 DEF IInv, TasksOK
<1>8. PICK e : e = IF HasMandate THEN 1 ELSE o.copy.eMandate
  OBVIOUS
<1>9. PICK m : m = [o.copy EXCEPT !.loan = 1, !.eMandate = e]
  OBVIOUS
<1>10. /\ m \in MasterRows /\ m.loan = 1 /\ m.eMandate = e
       /\ m.eSign = o.copy.eSign /\ m.disbursement = o.copy.disbursement
  BY <1>7, <1>8, <1>9 DEF Tasks, MasterRows
<1>11. CopyOK(m)'
  BY <1>1, <1>2, <1>7, <1>8, <1>10, MandateRegistered DEF IInv, TaskOK, CopyOK, SomeRegistered
<1>12. PICK s : s = IF HasMandate THEN account ELSE None
  OBVIOUS
<1>13. s \in Subs \union {None}
  BY <1>12 DEF IInv, RowTypes
<1>14. PICK t : t = [o EXCEPT !.copy.loan = 1, !.copy.eMandate = e, !.sub = s,
                              !.todo = <<"approve", "master">>]
  OBVIOUS
<1>15. <<"approve", "master">> \in Seq(Steps)
  BY DEF Steps
<1>16. t \in Tasks /\ t.copy = m /\ t.todo = <<"approve", "master">>
  <2>1. t = [o EXCEPT !.copy = m, !.sub = s, !.todo = <<"approve", "master">>]
    BY <1>7, <1>9, <1>14 DEF Tasks, MasterRows
  <2> QED BY <1>7, <1>10, <1>13, <1>15, <2>1 DEF Tasks
<1>17. TaskOK(t)'
  <2>1. \A i \in 2 .. Len(t.todo) : t.todo[i] \notin Acting
    BY <1>16 DEF Acting
  <2>2. HeadOK(t.todo[1], t)'
    BY <1>1, <1>16 DEF HeadOK
  <2>3. CopyOK(t.copy)'
    BY <1>11, <1>16 DEF CopyOK
  <2> QED BY <1>16, <2>1, <2>2, <2>3 DEF TaskOK
<1>18. Do(w, t)
  BY <1>6, <1>8, <1>12, <1>14 DEF MandateRead
<1>19. TasksOK'
  BY <1>3, <1>17, <1>18, TaskStepNew DEF IInv
<1> QED BY <1>4, <1>5, <1>19 DEF IInv

-----------------------------------------------------------------------------
(* A handler invites, or writes an agreement. *)

(* An agreement is invited to only after an approval, on a mandate that    *)
(* the bank has registered.                                                *)
LEMMA SendInvitationKeeps ==
  ASSUME IInv, NEW w \in Workers, NEW force \in BOOLEAN, SendInvitation(w, force)
  PROVE  IInv'
<1>1. UNCHANGED <<loan, master, doc, account, approved, world, aborts>>
  BY DEF SendInvitation
<1>2. sub' \in {Refreshed, sub}
  BY DEF SendInvitation
<1>3. Grows /\ RowTypes' /\ RowsOK' /\ CopyOK(master)'
  BY <1>1, <1>2, RefreshedRows, SubRowsKeep DEF IInv, RowTypes
<1>4. CASE Stop(w)
  BY <1>3, <1>4, StopStep DEF IInv
<1>5. CASE MayInvite(force) /\ HasMandate
  <2>1. approved /\ SomeRegistered
    BY <1>5, MandateRegistered DEF MayInvite, IInv, RowsOK
  <2>2. PICK l : l = IF force THEN 1 ELSE master.loan
    OBVIOUS
  <2>3. PICK m : m = [master EXCEPT !.eSign = 0, !.loan = l]
    OBVIOUS
  <2>4. /\ m \in MasterRows /\ m.eSign = 0 /\ m.eMandate = master.eMandate
        /\ m.disbursement = master.disbursement
    BY <2>2, <2>3 DEF IInv, RowTypes, MasterRows
  <2>5. CopyOK(m)
    BY <2>1, <2>4 DEF IInv, CopyOK
  <2>6. PICK t : t = [NoTask EXCEPT !.force = force, !.copy = m,
                                    !.todo = <<"createDoc", "linkDoc", "master">>]
    OBVIOUS
  <2>7. <<"createDoc", "linkDoc", "master">> \in Seq(Steps)
    BY DEF Steps
  <2>8. t \in Tasks /\ t.copy = m /\ t.todo = <<"createDoc", "linkDoc", "master">>
    BY <2>4, <2>6, <2>7, NoTaskOK DEF TaskOK, Tasks
  <2>9. \A i \in 2 .. Len(t.todo) : t.todo[i] \notin Acting
    BY <2>8 DEF Acting
  <2>10. HeadOK(t.todo[1], t)
    BY <2>1, <2>8 DEF HeadOK
  <2>11. TaskOK(t)
    BY <2>5, <2>8, <2>9, <2>10, NewTask
  <2>12. CASE Do(w, t)
    <3>1. TasksOK'
      BY <1>3, <2>11, <2>12, TaskStep DEF IInv
    <3> QED BY <1>3, <3>1 DEF IInv
  <2> QED BY <1>4, <2>2, <2>3, <2>6, <2>12 DEF SendInvitation
<1> QED BY <1>4, <1>5 DEF SendInvitation

LEMMA DocRowsKeep ==
  ASSUME IInv, UNCHANGED <<loan, master, sub, account, approved, world, aborts>>,
         doc' \in [Docs -> {"none", "invited", "signed", "deleted"}],
         \A d \in Docs : doc'[d] = "signed" => d \in signer,
         \A d \in Docs : doc'[d] # "none" => doc[d] # "none" \/ (approved /\ SomeRegistered)
  PROVE  Grows /\ RowTypes' /\ RowsOK' /\ CopyOK(master)'
<1>1. UNCHANGED <<loan, master, sub, account, approved, signer, bank, aborts>>
  BY DEF world
<1>2. \A s \in Subs : Registered(s)' = Registered(s)
  BY <1>1 DEF Registered
<1>3. Grows
  BY <1>1, <1>2 DEF Grows
<1>4. RowTypes'
  BY <1>1 DEF IInv, RowTypes
<1>5. RowsOK' /\ CopyOK(master)'
  BY <1>1, <1>2 DEF IInv, RowsOK, CopyOK, SomeRegistered
<1> QED BY <1>3, <1>4, <1>5

LEMMA CreateDocKeeps ==
  ASSUME IInv, NEW w \in Workers, CreateDoc(w)
  PROVE  IInv'
<1>1. PICK t : t = task[w]
  OBVIOUS
<1>2. /\ t \in Tasks /\ TaskOK(t) /\ t.todo # <<>> /\ Head(t.todo) = "createDoc"
      /\ t.todo \in Seq(Steps)
  BY <1>1 DEF CreateDoc, At, IInv, TasksOK, Tasks
<1>3. approved /\ SomeRegistered
  BY <1>2, TailKeeps DEF TaskOK, HeadOK
<1>4. PICK d \in FreeDocs : /\ doc' = [doc EXCEPT ![d] = "invited"]
                            /\ Do(w, [t EXCEPT !.doc = d, !.todo = Tail(@)])
  BY <1>1 DEF CreateDoc
<1>5. d \in Docs
  BY DEF FreeDocs
<1>6. Grows /\ RowTypes' /\ RowsOK' /\ CopyOK(master)'
  BY <1>3, <1>4, <1>5, DocRowsKeep DEF CreateDoc, IInv, RowTypes, RowsOK
<1>7. PICK u : u = [t EXCEPT !.doc = d, !.todo = Tail(@)]
  OBVIOUS
<1>8. u \in Tasks /\ u.todo = Tail(t.todo) /\ u.copy = t.copy
  BY <1>2, <1>5, <1>7, TailKeeps DEF Tasks
<1>9. TaskOK(u) /\ Do(w, u)
  BY <1>2, <1>4, <1>7, <1>8, TailTask DEF TaskOK
<1>10. TasksOK'
  BY <1>6, <1>9, TaskStep DEF IInv
<1> QED BY <1>6, <1>10 DEF IInv

(* A handler marks an agreement as signed only after the provider said so. *)
LEMMA DocStatusKeeps ==
  ASSUME IInv, NEW w \in Workers, DocStatus(w)
  PROVE  IInv'
<1>1. PICK t : t = task[w]
  OBVIOUS
<1>2. /\ t \in Tasks /\ TaskOK(t) /\ t.todo # <<>> /\ Head(t.todo) = "docStatus"
      /\ t.todo \in Seq(Steps) /\ At(w, "docStatus") /\ Go(w)
  BY <1>1 DEF DocStatus, At, IInv, TasksOK, Tasks
<1>3. t.copy.eSign = 1 => t.doc \in signer
  BY <1>2, TailKeeps DEF TaskOK, HeadOK
<1>4. PICK v : v = IF ~HasDoc(t.doc) THEN doc[t.doc]
                   ELSE IF t.copy.eSign = 1 THEN "signed" ELSE "invited"
  OBVIOUS
<1>5. doc' = [doc EXCEPT ![t.doc] = v]
  BY <1>1, <1>4 DEF DocStatus
<1>6. t.doc \in Docs =>
        /\ v \in {doc[t.doc], "signed", "invited"}
        /\ v = "signed" => t.doc \in signer
        /\ v # "none" => doc[t.doc] # "none"
  BY <1>3, <1>4 DEF HasDoc, IInv, RowsOK
<1>7. /\ doc' \in [Docs -> {"none", "invited", "signed", "deleted"}]
      /\ \A d \in Docs : doc'[d] = "signed" => d \in signer
      /\ \A d \in Docs : doc'[d] # "none" => doc[d] # "none"
  BY <1>5, <1>6 DEF IInv, RowTypes, RowsOK
<1>8. Grows /\ RowTypes' /\ RowsOK' /\ CopyOK(master)'
  BY <1>7, DocRowsKeep DEF DocStatus
<1>9. TasksOK'
  BY <1>2, <1>8, GoStep DEF IInv
<1> QED BY <1>8, <1>9 DEF IInv

LEMMA DeleteRowKeeps ==
  ASSUME IInv, NEW w \in Workers, DeleteRow(w)
  PROVE  IInv'
<1>1. PICK d : d = task[w].doc
  OBVIOUS
<1>2. At(w, "deleteRow") /\ UNCHANGED <<loan, master, sub, account, approved, world, aborts>>
  BY DEF DeleteRow
<1>3. doc' = doc \/ (doc' = [doc EXCEPT ![d] = "deleted"] /\ doc[d] = "invited")
  BY <1>1 DEF DeleteRow
<1>4. /\ doc' \in [Docs -> {"none", "invited", "signed", "deleted"}]
      /\ \A e \in Docs : doc'[e] = "signed" => e \in signer
      /\ \A e \in Docs : doc'[e] # "none" => doc[e] # "none"
  BY <1>3 DEF IInv, RowTypes, RowsOK
<1>5. Grows /\ RowTypes' /\ RowsOK' /\ CopyOK(master)'
  BY <1>2, <1>4, DocRowsKeep
<1>6. Go(w) \/ Stop(w)
  BY DEF DeleteRow
<1>7. TasksOK'
  BY <1>2, <1>5, <1>6, GoStep, StopStep DEF IInv
<1> QED BY <1>5, <1>7 DEF IInv

(* An agreement of a failed payout is dropped: it was invited to before.   *)
LEMMA DropDocKeeps ==
  ASSUME IInv, NEW w \in Workers, DropDoc(w)
  PROVE  IInv'
<1>1. PICK t : t = task[w]
  OBVIOUS
<1>2. /\ t \in Tasks /\ TaskOK(t) /\ t.todo # <<>> /\ Head(t.todo) = "dropDoc"
      /\ t.todo \in Seq(Steps) /\ At(w, "dropDoc") /\ Go(w)
      /\ UNCHANGED <<loan, master, sub, account, approved, world, aborts>>
  BY <1>1 DEF DropDoc, At, IInv, TasksOK, Tasks
<1>3. approved /\ SomeRegistered
  BY <1>2, TailKeeps DEF TaskOK, HeadOK
<1>4. doc' = [doc EXCEPT ![t.doc] = "deleted"]
  BY <1>1 DEF DropDoc
<1>5. /\ doc' \in [Docs -> {"none", "invited", "signed", "deleted"}]
      /\ \A d \in Docs : doc'[d] = "signed" => d \in signer
  BY <1>4 DEF IInv, RowTypes, RowsOK
<1>6. Grows /\ RowTypes' /\ RowsOK' /\ CopyOK(master)'
  BY <1>2, <1>3, <1>5, DocRowsKeep
<1>7. TasksOK'
  BY <1>2, <1>6, GoStep DEF IInv
<1> QED BY <1>6, <1>7 DEF IInv

-----------------------------------------------------------------------------
(* The master row is written, and what happens outside. *)

LEMMA WriteMasterKeeps ==
  ASSUME IInv, NEW w \in Workers, WriteMaster(w)
  PROVE  IInv'
<1>1. PICK t : t = task[w]
  OBVIOUS
<1>2. TaskOK(t) /\ t \in Tasks /\ t.todo # <<>> /\ t.todo \in Seq(Steps)
  BY <1>1 DEF IInv, TasksOK, WriteMaster, At, Tasks
<1>3. /\ master' = t.copy
      /\ UNCHANGED <<loan, doc, sub, account, approved, signer, bank, aborts>>
  BY <1>1 DEF WriteMaster, world
<1>4. \A s \in Subs : Registered(s)' = Registered(s)
  BY <1>3 DEF Registered
<1>5. Grows
  BY <1>3, <1>4 DEF Grows
<1>6. RowTypes'
  BY <1>2, <1>3 DEF IInv, RowTypes, Tasks
<1>7. RowsOK' /\ CopyOK(master)'
  BY <1>2, <1>3, <1>4 DEF IInv, RowsOK, TaskOK, CopyOK, SomeRegistered
<1>8. PICK u : u = [t EXCEPT !.copy = NewMaster, !.todo = Tail(@)]
  OBVIOUS
<1>9. NewMaster \in MasterRows /\ CopyOK(NewMaster)
  BY NoTaskOK DEF TaskOK, NoTask, Tasks
<1>10. u \in Tasks /\ u.todo = Tail(t.todo) /\ u.copy = NewMaster
  BY <1>2, <1>8, <1>9, TailKeeps DEF Tasks
<1>11. TaskOK(u) /\ Do(w, u)
  BY <1>1, <1>2, <1>8, <1>9, <1>10, TailTask DEF WriteMaster
<1>12. TasksOK'
  BY <1>5, <1>11, TaskStep DEF IInv
<1> QED BY <1>6, <1>7, <1>12 DEF IInv

(* Only a signed agreement is paid on. *)
LEMMA DisburseKeeps ==
  ASSUME IInv, Disburse
  PROVE  IInv'
<1>1. UnchangedButLoan /\ task' = task
  BY DEF Disburse
<1>2. loan.doc \in Docs /\ doc[loan.doc] = "signed"
  BY DEF Disburse, HasDoc, IInv, RowTypes, LoanRows
<1>3. approved /\ SomeRegistered /\ signer # {}
  BY <1>2 DEF IInv, RowsOK
<1>4. loan' \in LoanRows
  <2>1. CASE loan' = [loan EXCEPT !.disbursed = TRUE, !.status = "Active", !.payout = "sent"]
    BY <2>1 DEF IInv, RowTypes, LoanRows, Status
  <2>2. CASE loan' = [loan EXCEPT !.disbursed = TRUE, !.payout = "failed"]
    BY <2>2 DEF IInv, RowTypes, LoanRows
  <2> QED BY <2>1, <2>2 DEF Disburse
<1>5. Grows /\ RowTypes' /\ RowsOK' /\ CopyOK(master)'
  BY <1>1, <1>3, <1>4, LoanRowKeeps
<1>6. TasksOK'
  BY <1>1, <1>5, TasksStay DEF IInv
<1> QED BY <1>5, <1>6 DEF IInv

(* The bank does not take back a registration. *)
LEMMA BankAnswersKeeps ==
  ASSUME IInv, NEW s \in Subs, NEW answer \in {"active", "failed", "recovered"},
         BankAnswers(s, answer)
  PROVE  IInv'
<1>1. /\ UNCHANGED <<loan, master, doc, sub, account, approved, signer, aborts>>
      /\ task' = task /\ bank' = [bank EXCEPT ![s] = answer]
      /\ bank[s] \in {"pending", "failed"}
  BY DEF BankAnswers, db
<1>2. \A r \in Subs : Registered(r) => Registered(r)'
  BY <1>1 DEF Registered, IInv, RowTypes
<1>3. Grows
  BY <1>1, <1>2 DEF Grows
<1>4. RowTypes'
  BY <1>1 DEF IInv, RowTypes
<1>5. RowsOK' /\ CopyOK(master)'
  BY <1>1, <1>2 DEF IInv, RowsOK, CopyOK, SomeRegistered
<1>6. TasksOK'
  BY <1>1, <1>3, TasksStay DEF IInv
<1> QED BY <1>4, <1>5, <1>6 DEF IInv

LEMMA SignKeeps ==
  ASSUME IInv, NEW d \in Docs, Sign(d)
  PROVE  IInv'
<1>1. /\ UNCHANGED <<loan, master, doc, sub, account, approved, bank, aborts>>
      /\ task' = task /\ signer' = signer \union {d}
  BY DEF Sign, db
<1>2. \A s \in Subs : Registered(s)' = Registered(s)
  BY <1>1 DEF Registered
<1>3. Grows
  BY <1>1, <1>2 DEF Grows
<1>4. RowTypes'
  BY <1>1 DEF IInv, RowTypes
<1>5. RowsOK' /\ CopyOK(master)'
  BY <1>1, <1>2 DEF IInv, RowsOK, CopyOK, SomeRegistered
<1>6. TasksOK'
  BY <1>1, <1>3, TasksStay DEF IInv
<1> QED BY <1>4, <1>5, <1>6 DEF IInv

-----------------------------------------------------------------------------
(* The invariant and what follows from it. *)

LEMMA HandleKeeps ==
  ASSUME IInv, NEW w \in Workers, Handle(w)
  PROVE  IInv'
<1>1. CASE Invite(w)
  BY <1>1, SendInvitationKeeps DEF Invite
<1>2. CASE \E d \in Docs : Regenerate(w, d)
  BY <1>2, RegenerateKeeps
<1>3. CASE \/ Approve(w) \/ Refer(w) \/ FinalReject(w) \/ AutoDecline(w) \/ AdminReject(w)
           \/ Decline(w) \/ Reopen(w) \/ AcceptKFS(w) \/ GenerateLink(w)
  BY <1>3, ApproveKeeps, ReferKeeps, FinalRejectKeeps, AutoDeclineKeeps, AdminRejectKeeps,
     DeclineKeeps, ReopenKeeps, AcceptKFSKeeps, GenerateLinkKeeps
<1>4. CASE \/ CheckMandate(w) \/ DeleteMandate(w) \/ CheckStatus(w) \/ ReInitiate(w)
           \/ ReEsign(w) \/ LoanIsActive(w) \/ ADPaymentWebhook(w)
  BY <1>4, CheckMandateKeeps, DeleteMandateKeeps, CheckStatusKeeps, ReInitiateKeeps,
     ReEsignKeeps, LoanIsActiveKeeps, ADPaymentWebhookKeeps
<1> QED BY <1>1, <1>2, <1>3, <1>4 DEF Handle

LEMMA ContinueKeeps ==
  ASSUME IInv, NEW w \in Workers, Continue(w)
  PROVE  IInv'
<1>1. CASE WriteSub(w, "subActive", "ACTIVE") \/ WriteSub(w, "subFailed", "FAILED")
  BY <1>1, WriteSubKeeps
<1>2. CASE InviteRead(w)
  BY <1>2, SendInvitationKeeps DEF InviteRead
<1>3. CASE \/ WriteMaster(w) \/ ApproveLoan(w) \/ ReferLoan(w) \/ RejectRead(w)
           \/ RejectLoan(w) \/ StepsRead(w) \/ DeclineLoan(w) \/ ReopenLoan(w)
           \/ AcceptLoan(w) \/ MandateRead(w) \/ WebhookRead(w)
  BY <1>3, MandateReadKeeps, WebhookReadKeeps, WriteMasterKeeps, ApproveLoanKeeps,
     ReferLoanKeeps, RejectReadKeeps,
     RejectLoanKeeps, StepsReadKeeps, DeclineLoanKeeps, ReopenLoanKeeps, AcceptLoanKeeps
<1>4. CASE \/ LinkRead(w) \/ CreateSub(w) \/ LinkSub(w) \/ UnlinkSub(w) \/ DropSub(w)
  BY <1>4, LinkReadKeeps, CreateSubKeeps, LinkSubKeeps, UnlinkSubKeeps, DropSubKeeps
<1>5. CASE \/ CreateDoc(w) \/ LinkDoc(w) \/ DocStatus(w) \/ DeleteRead(w) \/ DeleteRow(w)
           \/ UnlinkDoc(w) \/ DropDoc(w) \/ ResetLoan(w) \/ ReInitiateStep(w)
  BY <1>5, CreateDocKeeps, LinkDocKeeps, DocStatusKeeps, DeleteReadKeeps, DeleteRowKeeps,
     UnlinkDocKeeps, DropDocKeeps, ResetLoanKeeps, ReInitiateStepKeeps
<1> QED BY <1>1, <1>2, <1>3, <1>4, <1>5 DEF Continue

LEMMA WorldKeeps ==
  ASSUME IInv, World
  PROVE  IInv'
<1>1. CASE \E s \in Subs : Callback(s)
                 \/ \E a \in {"active", "failed", "recovered"} : BankAnswers(s, a)
  BY <1>1, CallbackKeeps, BankAnswersKeeps
<1>2. CASE \E d \in Docs : Sign(d)
  BY <1>2, SignKeeps
<1>3. CASE Disburse
  BY <1>3, DisburseKeeps
<1> QED BY <1>1, <1>2, <1>3 DEF World

LEMMA StutterKeeps ==
  ASSUME IInv, UNCHANGED vars
  PROVE  IInv'
<1>1. UNCHANGED <<db, world, aborts>> /\ task' = task
  BY DEF vars
<1>2. Grows /\ RowTypes' /\ RowsOK' /\ CopyOK(master)'
  BY <1>1, RowsStay
<1>3. TasksOK'
  BY <1>1, <1>2, TasksStay DEF IInv
<1> QED BY <1>2, <1>3 DEF IInv

(* However many handlers overlap, die, or write back what they read long   *)
(* ago, the status in the master row and in every handler's memory claims  *)
(* no approval, registered mandate or signature that there never was.      *)
THEOREM OnboardingInvariance == Spec => []IInv
<1>1. Init => IInv
  BY InitIInv
<1>2. IInv /\ [Next]_vars => IInv'
  <2> SUFFICES ASSUME IInv, [Next]_vars PROVE IInv'
    OBVIOUS
  <2>1. CASE UNCHANGED vars
    BY <2>1, StutterKeeps
  <2>2. CASE World
    BY <2>2, WorldKeeps
  <2>3. CASE \E w \in Workers : Handle(w) \/ Continue(w) \/ Abort(w)
    BY <2>3, HandleKeeps, ContinueKeeps, AbortKeeps
  <2> QED BY <2>1, <2>2, <2>3 DEF Next
<1> QED BY <1>1, <1>2, PTL DEF Spec

(* The rows, the handlers' copies and their steps have their types.        *)
THEOREM OnboardingTypeCorrect == Spec => []TypeOK
<1>1. IInv => TypeOK
  BY DEF IInv, RowTypes, TasksOK, TypeOK
<1> QED BY <1>1, OnboardingInvariance, PTL

LEMMA CopiesOK ==
  ASSUME IInv
  PROVE  \A m \in Copies : CopyOK(m)
  BY DEF Copies, IInv, TasksOK, TaskOK

(* No interleaving of checks, webhooks, deletions and stale writes takes a *)
(* mandate for registered that the bank has not registered.                *)
THEOREM MandatesAreReal == Spec => []MandateIsReal
<1>1. IInv => MandateIsReal
  BY CopiesOK DEF IInv, RowsOK, CopyOK, MandateIsReal
<1> QED BY <1>1, OnboardingInvariance, PTL

(* Nor an agreement for signed, or a payout for due, without a signature.  *)
THEOREM SignaturesAreReal == Spec => []SignatureIsReal
<1>1. IInv => SignatureIsReal
  BY CopiesOK DEF IInv, RowsOK, CopyOK, SignatureIsReal
<1> QED BY <1>1, OnboardingInvariance, PTL

(* An agreement goes out only after an approval and on a mandate that the  *)
(* bank registered, whatever was read before either was taken back.        *)
THEOREM AgreementsAreEarned == Spec => []AgreementIsEarned
<1>1. IInv => AgreementIsEarned
  BY DEF IInv, RowsOK, AgreementIsEarned
<1> QED BY <1>1, OnboardingInvariance, PTL

(* A loan is shown as approved or active, and paid, only if it was once    *)
(* approved; paid only if a mandate and an agreement stood behind it.      *)
THEOREM PaymentsAreAuthorised == Spec => []PaidIsAuthorised
<1>1. IInv => PaidIsAuthorised
  BY CopiesOK DEF IInv, RowsOK, CopyOK, PaidIsAuthorised
<1> QED BY <1>1, OnboardingInvariance, PTL

-----------------------------------------------------------------------------
(* One handler at a time, Razorpay, and no handler that died so far. Then  *)
(* the status column m agrees with the rows between handlers: the decision *)
(* on the loan, its mandate and its agreement.                             *)

OneHandler == \E w : Workers = {w}

Signed == loan.doc # None /\ doc[loan.doc] = "signed"
Mandated == loan.sub # None /\ sub[loan.sub] = "ACTIVE"
Underwritten == loan.verified = "approved" /\ Mandated

Decision(m) ==
  /\ loan.verified = "pending" => m.loan = 0
  /\ loan.verified = "approved" => m.loan \in {1, 6}
  /\ loan.verified = "rejected" => m.loan = 2
  /\ loan.status = "Rejected" <=> loan.verified = "rejected"
Mandate(m) ==
  /\ m.eMandate = -1 <=> loan.sub = None
  /\ m.eMandate = 1 <=> Mandated
  /\ loan.sub # None => HasSub(loan.sub) /\ account = loan.sub
  /\ loan.sub = None /\ account # None =>
       sub[account] = "ACTIVE" /\ loan.verified # "approved"
  /\ m.eMandate = 2 => sub[loan.sub] = "FAILED"
  /\ \A s \in Subs : sub[s] = "INITIALIZED" => s = loan.sub
Agreement(m) ==
  /\ m.eSign = Signature
  /\ \A d \in Docs : HasDoc(d) => d = loan.doc
  /\ loan.doc # None =>
       HasDoc(loan.doc) /\ Underwritten /\ loan.status \in {"Accepted", "Active"}
  /\ m.disbursement # -1 \/ loan.status = "Active" => Signed
Rest(m) == Decision(m) /\ Mandate(m) /\ Agreement(m)

(* There is no agreement, whatever the loan points at.                     *)
NoAgreement(m) ==
  /\ \A d \in Docs : ~HasDoc(d)
  /\ m.eSign = -1 /\ m.disbursement = -1
  /\ loan.status # "Active"

(* What is due for the payout is in order, until the payout failed.        *)
Due == master.disbursement = 0 => loan.payout = "failed" \/ (Signed /\ Underwritten)

(* How a handler can stand: it is about to write its first row, having     *)
(* changed the status c in its memory from the master row's ...            *)
Deletion == {<<"deleteRow", "unlinkDoc", "master">>,
             <<"deleteRow", "unlinkDoc", "master", "inviteRead">>,
             <<"deleteRow", "unlinkDoc", "master", "rejectRead", "stepsRead", "master">>}
Rejection == {<<"reject", "master">>, <<"reject", "master", "stepsRead", "master">>,
              <<"decline", "master", "stepsRead", "master">>}
Unwritten(t, c) ==
  /\ Rest(master)
  /\ \/ t.todo = <<"mandateRead">> /\ loan.status = "InProcess" /\ c = master
     \/ /\ t.todo = <<"approve", "master">> /\ loan.status = "InProcess"
        /\ \/ /\ t.sub = None /\ (account = None \/ sub[account] # "ACTIVE")
              /\ c = [master EXCEPT !.loan = 1]
           \/ /\ t.sub # None /\ t.sub = account /\ sub[account] = "ACTIVE"
              /\ c = [master EXCEPT !.loan = 1, !.eMandate = 1]
     \/ /\ t.todo = <<"refer", "master">> /\ loan.status = "InProcess"
        /\ c = [master EXCEPT !.loan = 0]
     \/ /\ t.todo \in Rejection /\ loan.doc = None
        /\ c = [master EXCEPT !.loan = 2]
     \/ /\ t.todo = <<"reopen", "master">> /\ loan.status = "Rejected" /\ loan.sub = None
        /\ c = [master EXCEPT !.loan = 0]
     \/ /\ t.todo = <<"subActive", "master">> /\ t.sub = loan.sub /\ loan.sub # None
        /\ c = [master EXCEPT !.eMandate = 1]
     \/ /\ t.todo = <<"subFailed", "master">> /\ t.sub = loan.sub /\ loan.sub # None
        /\ loan.doc = None
        /\ c = [master EXCEPT !.eMandate = 2]
     \/ /\ \/ t.todo = <<"subActive", "webhookRead", "master">> /\ c.eMandate = 1
           \/ t.todo = <<"subFailed", "webhookRead", "master">> /\ c.eMandate = 2
        /\ t.sub = loan.sub /\ loan.sub # None /\ sub[loan.sub] = "INITIALIZED"
     \/ /\ t.todo = <<"unlinkSub", "master", "dropSub">> /\ t.sub = loan.sub
        /\ loan.sub # None /\ loan.doc = None /\ ~Mandated
        /\ c = [master EXCEPT !.eMandate = -1]
     \/ /\ t.todo = <<"createDoc", "linkDoc", "master">> /\ loan.doc = None /\ Underwritten
        /\ \/ t.force /\ c = [master EXCEPT !.eSign = 0, !.loan = 1]
           \/ ~t.force /\ loan.status = "Accepted" /\ c = [master EXCEPT !.eSign = 0]
     \/ /\ t.todo = <<"docStatus", "master">>
        /\ t.doc = loan.doc /\ loan.doc # None /\ ~Signed
        /\ \/ c = [master EXCEPT !.eSign = 1, !.disbursement = 0]
           \/ c = [master EXCEPT !.eSign = 0]
     \/ /\ t.todo \in Deletion
        /\ t.doc = loan.doc /\ loan.doc # None /\ ~Signed
        /\ c = [master EXCEPT !.eSign = -1]
     \/ /\ t.todo = <<"dropDoc", "resetLoan", "master", "reinitiate">>
        /\ t.doc = loan.doc /\ Signed /\ loan.status = "Accepted" /\ loan.payout = "failed"
        /\ c = [master EXCEPT !.eSign = -1, !.disbursement = -1]

(* ... or has written one of two rows that belong together ...             *)
Unlinking == {<<"unlinkDoc", "master">>, <<"unlinkDoc", "master", "inviteRead">>,
              <<"unlinkDoc", "master", "rejectRead", "stepsRead", "master">>}
Between(t, c) ==
  /\ Decision(c)
  /\ \/ /\ t.todo = <<"createSub", "linkSub", "master">> /\ account = None
        /\ \A s \in Subs : sub[s] # "INITIALIZED"
        /\ c.eMandate = 0 /\ loan.doc = None /\ NoAgreement(c)
     \/ /\ t.todo = <<"linkSub", "master">> /\ t.sub # None /\ account = t.sub
        /\ \A s \in Subs : sub[s] = "INITIALIZED" <=> s = t.sub
        /\ c.eMandate = 0 /\ loan.doc = None /\ NoAgreement(c)
     \/ /\ t.todo = <<"master", "dropSub">> /\ t.sub # None /\ account = t.sub
        /\ \A s \in Subs : sub[s] = "INITIALIZED" => s = t.sub
        /\ c.eMandate = -1 /\ loan.sub = None /\ loan.doc = None /\ NoAgreement(c)
     \/ /\ t.todo = <<"linkDoc", "master">> /\ loan.doc = None /\ Underwritten
        /\ t.doc # None /\ doc[t.doc] = "invited"
        /\ \A d \in Docs : HasDoc(d) => d = t.doc
        /\ t.force \/ loan.status = "Accepted"
        /\ loan.status # "Active"
        /\ Mandate(c) /\ c.eSign = 0 /\ c.disbursement = -1
     \/ t.todo \in Unlinking /\ Mandate(c) /\ NoAgreement(c)
     \/ /\ t.todo = <<"resetLoan", "master", "reinitiate">> /\ loan.payout = "failed"
        /\ Mandate(c) /\ NoAgreement(c)

(* ... or has written its rows and has yet to write the status ...         *)
Written(t, c) ==
  /\ Rest(c)
  /\ \/ t.todo \in {<<"master">>, <<"master", "stepsRead", "master">>,
                    <<"master", "inviteRead">>, <<"master", "reinitiate">>}
     \/ t.todo = <<"master", "rejectRead", "stepsRead", "master">> /\ loan.doc = None
     \/ t.todo = <<"master", "kfs">> /\ loan.status = "InProcess"

(* ... or has written the status, or nothing yet.                          *)
Rejecting == {<<"rejectRead">>, <<"rejectRead", "stepsRead", "master">>}
Deleting == {<<"deleteRead", "deleteRow", "unlinkDoc", "master">>,
            <<"deleteRead", "deleteRow", "unlinkDoc", "master", "inviteRead">>,
             <<"deleteRead", "deleteRow", "unlinkDoc", "master", "rejectRead",
               "stepsRead", "master">>}
Resting(t) ==
  \/ /\ Rest(master)
     /\ \/ t.todo \in {<<>>, <<"stepsRead", "master">>, <<"inviteRead">>, <<"reinitiate">>}
        \/ t.todo \in Rejecting /\ loan.doc = None
        \/ t.todo = <<"kfs">> /\ loan.status = "InProcess"
        \/ t.todo = <<"linkRead">> /\ loan.doc = None /\ MayLink
        \/ t.todo \in Deleting /\ t.doc = loan.doc /\ loan.doc # None /\ ~Signed
  \/ /\ t.todo = <<"dropSub">> /\ t.sub # None /\ account = t.sub
     /\ \A s \in Subs : sub[s] = "INITIALIZED" => s = t.sub
     /\ Decision(master) /\ NoAgreement(master)
     /\ master.eMandate = -1 /\ loan.sub = None /\ loan.doc = None

(* ... or has written what Razorpay reported, and has read nothing yet.    *)
Reported(t, c) ==
  /\ t.todo = <<"webhookRead", "master">> /\ loan.doc = None
  /\ Decision(master) /\ NoAgreement(master) /\ Mandate(c)

Position(t) ==
  \/ Unwritten(t, t.copy) \/ Between(t, t.copy) \/ Written(t, t.copy)
  \/ Resting(t) \/ Reported(t, t.copy)
Straight == aborts = 0 => Due /\ \A w \in Workers : Position(task[w])

USE DEF Docs, Subs, None

(* The steps a handler puts in front of those it still has to do.          *)
LEMMA JoinTwo ==
  ASSUME NEW S, NEW a \in S, NEW b \in S, NEW t \in Seq(S), Len(t) = 2,
         t[1] \in S, t[2] \in S
  PROVE  <<a, b>> \o t = <<a, b, t[1], t[2]>>
<1>1. PICK s : s = <<a, b>>
  OBVIOUS
<1>2. s \in Seq(S) /\ Len(s) = 2 /\ s[1] = a /\ s[2] = b
  BY <1>1
<1>3. PICK r : r = s \o t
  OBVIOUS
<1>4. /\ r \in Seq(S) /\ Len(r) = Len(s) + Len(t)
      /\ \A i \in 1 .. (Len(s) + Len(t)) : r[i] = IF i <= Len(s) THEN s[i] ELSE t[i - Len(s)]
  BY <1>2, <1>3, ConcatProperties, Zenon
<1>5. r[1] = a /\ r[2] = b /\ r[3] = t[1] /\ r[4] = t[2]
  BY <1>2, <1>4
<1>7. PICK u : u = <<a, b, t[1], t[2]>>
  OBVIOUS
<1>8. /\ u \in Seq(S) /\ Len(u) = 4
      /\ u[1] = a /\ u[2] = b /\ u[3] = t[1] /\ u[4] = t[2]
  BY <1>7
<1>9. Len(r) = Len(u)
  BY <1>2, <1>4, <1>8
<1>10. ASSUME NEW i \in 1 .. Len(r) PROVE r[i] = u[i]
  <2>1. i \in {1, 2, 3, 4}
    BY <1>8, <1>9
  <2> QED BY <1>5, <1>8, <2>1
<1>11. r = u
  BY <1>4, <1>8, <1>9, <1>10, SeqEqual, Zenon
<1> QED BY <1>1, <1>3, <1>7, <1>11

LEMMA DeleteThenReject ==
  <<"deleteRead", "deleteRow", "unlinkDoc", "master">>
      \o <<"rejectRead", "stepsRead", "master">>
    = <<"deleteRead", "deleteRow", "unlinkDoc", "master", "rejectRead", "stepsRead", "master">>
<1>1. PICK s : s = <<"deleteRead", "deleteRow", "unlinkDoc", "master">>
  OBVIOUS
<1>2. PICK t : t = <<"rejectRead", "stepsRead", "master">>
  OBVIOUS
<1>3. /\ s \in Seq(Steps) /\ Len(s) = 4 /\ s[1] = "deleteRead" /\ s[2] = "deleteRow"
      /\ s[3] = "unlinkDoc" /\ s[4] = "master"
  BY <1>1 DEF Steps
<1>4. /\ t \in Seq(Steps) /\ Len(t) = 3 /\ t[1] = "rejectRead"
      /\ t[2] = "stepsRead" /\ t[3] = "master"
  BY <1>2 DEF Steps
<1>5. PICK r : r = s \o t
  OBVIOUS
<1>6. /\ r \in Seq(Steps) /\ Len(r) = Len(s) + Len(t)
      /\ \A i \in 1 .. (Len(s) + Len(t)) : r[i] = IF i <= Len(s) THEN s[i] ELSE t[i - Len(s)]
  BY <1>3, <1>4, <1>5, ConcatProperties, Zenon
<1>7. r[1] = "deleteRead" /\ r[2] = "deleteRow" /\ r[3] = "unlinkDoc" /\ r[4] = "master"
  BY <1>3, <1>4, <1>6
<1>8. r[5] = "rejectRead" /\ r[6] = "stepsRead" /\ r[7] = "master"
  BY <1>3, <1>4, <1>6
<1>9. PICK u :
        u = <<"deleteRead", "deleteRow", "unlinkDoc", "master", "rejectRead", "stepsRead",
              "master">>
  OBVIOUS
<1>10. /\ u \in Seq(Steps) /\ Len(u) = 7 /\ u[1] = "deleteRead"
       /\ u[2] = "deleteRow" /\ u[3] = "unlinkDoc" /\ u[4] = "master"
       /\ u[5] = "rejectRead" /\ u[6] = "stepsRead" /\ u[7] = "master"
  BY <1>9 DEF Steps
<1>11. Len(r) = Len(u)
  BY <1>3, <1>4, <1>6, <1>10
<1>12. ASSUME NEW i \in 1 .. Len(r) PROVE r[i] = u[i]
  <2>1. i \in {1, 2, 3, 4, 5, 6, 7}
    BY <1>10, <1>11
  <2> QED BY <1>7, <1>8, <1>10, <2>1
<1>13. r = u
  BY <1>6, <1>10, <1>11, <1>12, SeqEqual, Zenon
<1> QED BY <1>1, <1>2, <1>5, <1>9, <1>13

LEMMA RestStays ==
  ASSUME UNCHANGED <<loan, doc, sub, account>>, NEW m
  PROVE  /\ Rest(m)' <=> Rest(m)
         /\ Decision(m)' <=> Decision(m)
         /\ Mandate(m)' <=> Mandate(m)
         /\ NoAgreement(m)' <=> NoAgreement(m)
  BY DEF Rest, Decision, Mandate, Agreement, NoAgreement, Mandated, Underwritten, Signed,
         Signature, HasDoc, HasSub

(* The master row takes the place of what was read of it.                  *)
LEMMA RestOfMaster ==
  ASSUME NEW m, m = master'
  PROVE  /\ Rest(m)' <=> Rest(master)'
         /\ Decision(m)' <=> Decision(master)'
         /\ NoAgreement(m)' <=> NoAgreement(master)'
  BY DEF Rest, Decision, Mandate, Agreement, NoAgreement

(* The handler's task takes the place of what it was before it was stored. *)
LEMMA TaskPosition ==
  ASSUME NEW w, NEW x, x = task[w]', Position(x)'
  PROVE  Position(task[w])'
<1>1. PICK c : c = x.copy
  OBVIOUS
<1>2. /\ Rest(c)' <=> Rest(task[w].copy)'
      /\ Decision(c)' <=> Decision(task[w].copy)'
      /\ Mandate(c)' <=> Mandate(task[w].copy)'
      /\ NoAgreement(c)' <=> NoAgreement(task[w].copy)'
  BY <1>1 DEF Rest, Decision, Mandate, Agreement, NoAgreement
<1>3. CASE Unwritten(x, c)'
  BY <1>1, <1>3 DEF Position, Unwritten
<1>4. CASE Between(x, c)'
  BY <1>1, <1>2, <1>4 DEF Position, Between
<1>5. CASE Written(x, c)'
  BY <1>1, <1>2, <1>5 DEF Position, Written
<1>6. CASE Resting(x)'
  BY <1>6 DEF Position, Resting
<1>7. CASE Reported(x, c)'
  BY <1>1, <1>2, <1>7 DEF Position, Reported
<1> QED BY <1>1, <1>3, <1>4, <1>5, <1>6, <1>7 DEF Position

LEMMA Lands ==
  ASSUME IInv, NEW w, Workers = {w}, NEW t, Do(w, t), Due', Position(t)'
  PROVE  Straight'
<1>1. PICK u : u = (IF t.todo = <<>> THEN NoTask ELSE t)
  OBVIOUS
<1>2. Position(u)'
  <2>1. CASE t.todo = <<>>
    <3>1. Rest(master)'
      BY <2>1 DEF Position, Unwritten, Between, Written, Resting,
     Reported, Rejection, Deletion,
         Unlinking, Rejecting, Deleting
    <3>2. u.todo = <<>>
      BY <1>1, <2>1 DEF NoTask
    <3> QED BY <3>1, <3>2 DEF Position, Resting
  <2> QED BY <1>1, <2>1
<1>3. u = task[w]'
  BY <1>1 DEF Do, IInv, TasksOK
<1>4. Position(task[w])'
  BY <1>2, <1>3, TaskPosition
<1> QED BY <1>4 DEF Straight

(* Nothing but the task of the handler, or the world, changes.             *)
LEMMA PositionStays ==
  ASSUME UNCHANGED <<loan, master, doc, sub, account>>, NEW t
  PROVE  /\ Rest(master)' <=> Rest(master)
         /\ Due' <=> Due
         /\ Position(t)' <=> Position(t)
<1>1. PICK m : m = master
  OBVIOUS
<1>2. /\ Rest(m)' <=> Rest(m)
      /\ Decision(m)' <=> Decision(m)
      /\ NoAgreement(m)' <=> NoAgreement(m)
  BY RestStays
<1>3. /\ Rest(master)' <=> Rest(master)
      /\ Decision(master)' <=> Decision(master)
      /\ NoAgreement(master)' <=> NoAgreement(master)
  BY <1>1, <1>2, RestOfMaster
<1>4. PICK c : c = t.copy
  OBVIOUS
<1>5. /\ Rest(c)' <=> Rest(c)
      /\ Decision(c)' <=> Decision(c)
      /\ Mandate(c)' <=> Mandate(c)
      /\ NoAgreement(c)' <=> NoAgreement(c)
  BY RestStays
<1>6. Unwritten(t, c)' <=> Unwritten(t, c)
  BY <1>3 DEF Unwritten, Underwritten, Mandated, Signed
<1>7. Between(t, c)' <=> Between(t, c)
  BY <1>5 DEF Between, Underwritten, Mandated, HasDoc
<1>8. Written(t, c)' <=> Written(t, c)
  BY <1>5 DEF Written
<1>9. Resting(t)' <=> Resting(t)
  BY <1>3 DEF Resting, Signed, MayLink
<1>10. Reported(t, c)' <=> Reported(t, c)
  BY <1>3, <1>5 DEF Reported
<1>11. Position(t)' <=> Position(t)
  BY <1>4, <1>6, <1>7, <1>8, <1>9, <1>10 DEF Position
<1> QED BY <1>3, <1>11 DEF Due, Underwritten, Mandated, Signed

LEMMA IdleRests ==
  ASSUME NEW w, Position(task[w]), Idle(w)
  PROVE  Rest(master)
  BY DEF Idle, Position, Unwritten, Between, Written, Resting,
     Reported, Rejection, Deletion,
         Unlinking, Rejecting, Deleting

(* What the steps and the guards below take from Rest.                     *)
LEMMA NoDoc ==
  ASSUME NEW m, Rest(m), loan.doc = None
  PROVE  NoAgreement(m) /\ ~Signed
<1>1. \A d \in Docs : d # None
  OBVIOUS
<1> QED BY <1>1 DEF Rest, Agreement, NoAgreement, Signature, Signed, HasDoc

LEMMA RestFacts ==
  ASSUME NEW m, Rest(m)
  PROVE  /\ loan.status \notin {"Accepted", "Active"} => loan.doc = None
         /\ ~Mandated => loan.doc = None
         /\ loan.status = "Active" => Signed
         /\ m.disbursement # -1 => Signed /\ Underwritten
         /\ m.eSign = -1 => loan.doc = None
  BY DEF Rest, Agreement, Signed, Signature, Underwritten

(* A handler starts, or goes on, without writing anything.                 *)
LEMMA Reads ==
  ASSUME IInv, NEW w, Workers = {w}, Due, UNCHANGED <<db, world, aborts>>,
         NEW t, Do(w, t), Position(t)
  PROVE  Straight'
<1>1. UNCHANGED <<loan, master, doc, sub, account>>
  BY DEF db
<1>2. Position(t)' /\ Due'
  BY <1>1, PositionStays
<1> QED BY <1>2, Lands

LEMMA Begins ==
  ASSUME IInv, NEW w, Workers = {w}, Due, UNCHANGED <<db, world, aborts>>,
         NEW c, NEW todo, Begin(w, c, todo),
         \A t : t.todo = todo /\ t.copy = c /\ t.sub = None /\ t.doc = None => Position(t)
  PROVE  Straight'
<1>1. PICK t : t = [NoTask EXCEPT !.copy = c, !.todo = todo]
  OBVIOUS
<1>2. t.todo = todo /\ t.copy = c /\ t.sub = None /\ t.doc = None
  BY <1>1 DEF NoTask
<1>3. Do(w, t)
  BY <1>1 DEF Begin
<1> QED BY <1>2, <1>3, Reads

LEMMA StartsRest ==
  ASSUME IInv, NEW w, Workers = {w}, Due, UNCHANGED <<db, world, aborts>>,
         NEW todo, Start(w, todo),
         \A t : t.todo = todo /\ t.sub = None /\ t.doc = None => Position(t)
  PROVE  Straight'
<1>1. PICK t : t = [NoTask EXCEPT !.todo = todo]
  OBVIOUS
<1>2. t.todo = todo /\ t.sub = None /\ t.doc = None
  BY <1>1 DEF NoTask
<1>3. Do(w, t)
  BY <1>1 DEF Start
<1> QED BY <1>2, <1>3, Reads

-----------------------------------------------------------------------------
(* How each handler starts. *)

LEMMA ApproveStraight ==
  ASSUME IInv, NEW w, Workers = {w}, Due, Position(task[w]), Approve(w)
  PROVE  Straight'
<1>1. Rest(master)
  BY IdleRests DEF Approve, Begin
<1>2. PICK c : c = master
  OBVIOUS
<1>3. Begin(w, c, <<"mandateRead">>)
  BY <1>2 DEF Approve
<1>4. ASSUME NEW t, t.todo = <<"mandateRead">>, t.copy = c PROVE Position(t)
  <2>1. Unwritten(t, c)
    BY <1>1, <1>2, <1>4 DEF Unwritten, Approve, MayDecide
  <2> QED BY <1>4, <2>1 DEF Position
<1> QED BY <1>3, <1>4, Begins DEF Approve

LEMMA ReferStraight ==
  ASSUME IInv, NEW w, Workers = {w}, Due, Position(task[w]), Refer(w)
  PROVE  Straight'
<1>1. Rest(master)
  BY IdleRests DEF Refer, Begin
<1> QED BY <1>1, Begins DEF Refer, MayDecide, Position, Unwritten

LEMMA FinalRejectStraight ==
  ASSUME IInv, NEW w, Workers = {w}, Due, Position(task[w]), FinalReject(w)
  PROVE  Straight'
<1>1. Rest(master) /\ loan.status = "InProcess"
  BY IdleRests DEF FinalReject, Start, MayDecide
<1>2. loan.doc = None
  BY <1>1, RestFacts
<1> QED BY <1>1, <1>2, StartsRest DEF FinalReject, Position, Resting, Rejecting

LEMMA AutoDeclineStraight ==
  ASSUME IInv, NEW w, Workers = {w}, Due, Position(task[w]), AutoDecline(w)
  PROVE  Straight'
<1>1. Rest(master)
  BY IdleRests DEF AutoDecline, Start
<1> QED BY <1>1, StartsRest DEF AutoDecline, Position, Resting, Rejecting

LEMMA DeclineStraight ==
  ASSUME IInv, NEW w, Workers = {w}, Due, Position(task[w]), Decline(w)
  PROVE  Straight'
<1>1. Rest(master) /\ loan.doc = None
  BY IdleRests, RestFacts DEF Decline, Begin, MayDecline
<1> QED BY <1>1, Begins DEF Decline, Position, Unwritten, Rejection

LEMMA ReopenStraight ==
  ASSUME IInv, NEW w, Workers = {w}, Due, Position(task[w]), Reopen(w)
  PROVE  Straight'
<1>1. Rest(master)
  BY IdleRests DEF Reopen, Begin
<1> QED BY <1>1, Begins DEF Reopen, Position, Unwritten

LEMMA AcceptKFSStraight ==
  ASSUME IInv, NEW w, Workers = {w}, Due, Position(task[w]), AcceptKFS(w)
  PROVE  Straight'
<1>1. /\ Rest(master) /\ loan.status = "InProcess" /\ UNCHANGED <<db, world, aborts>>
      /\ Start(w, <<"kfs">>) \/ Begin(w, master, <<"master", "kfs">>)
  BY IdleRests DEF AcceptKFS, Start, Begin
<1>2. CASE Start(w, <<"kfs">>)
  BY <1>1, <1>2, StartsRest DEF Position, Resting
<1>3. CASE Begin(w, master, <<"master", "kfs">>)
  <2>1. PICK c : c = master
    OBVIOUS
  <2>2. Rest(c) /\ Begin(w, c, <<"master", "kfs">>)
    BY <1>1, <1>3, <2>1 DEF Rest, Decision, Mandate, Agreement
  <2>3. ASSUME NEW t, t.todo = <<"master", "kfs">>, t.copy = c PROVE Position(t)
    <3>1. Written(t, c)
      BY <1>1, <2>2, <2>3 DEF Written
    <3> QED BY <2>3, <3>1 DEF Position
  <2> QED BY <1>1, <2>2, <2>3, Begins
<1> QED BY <1>1, <1>2, <1>3

LEMMA GenerateLinkStraight ==
  ASSUME IInv, NEW w, Workers = {w}, Due, Position(task[w]), GenerateLink(w)
  PROVE  Straight'
<1>1. Rest(master)
  BY IdleRests DEF GenerateLink, Start
<1>2. loan.doc = None
  BY <1>1, RestFacts DEF GenerateLink, MayLink, Rest, Mandate
<1> QED BY <1>1, <1>2, StartsRest DEF GenerateLink, Position, Resting

LEMMA ReInitiateStraight ==
  ASSUME IInv, NEW w, Workers = {w}, Due, Position(task[w]), ReInitiate(w)
  PROVE  Straight'
<1>1. Rest(master)
  BY IdleRests DEF ReInitiate, Start
<1> QED BY <1>1, StartsRest DEF ReInitiate, Position, Resting

LEMMA LoanIsActiveStraight ==
  ASSUME IInv, NEW w, Workers = {w}, Due, Position(task[w]), LoanIsActive(w)
  PROVE  Straight'
<1>1. Rest(master) /\ loan.status = "Active" /\ UNCHANGED <<db, world, aborts>>
  BY IdleRests DEF LoanIsActive, Begin
<1>2. PICK c : c = [master EXCEPT !.loan = 6, !.disbursement = 1]
  OBVIOUS
<1>3. /\ c.loan = 6 /\ c.disbursement = 1
      /\ c.eMandate = master.eMandate /\ c.eSign = master.eSign
  BY <1>2 DEF IInv, RowTypes, MasterRows
<1>4. Rest(c)
  <2>1. Signed /\ Underwritten
    BY <1>1, RestFacts DEF Rest, Agreement, Signed
  <2>2. Decision(c)
    BY <1>1, <1>3, <2>1 DEF Rest, Decision, Underwritten
  <2>3. Mandate(c)
    BY <1>1, <1>3 DEF Rest, Mandate
  <2>4. Agreement(c)
    BY <1>1, <1>3, <2>1 DEF Rest, Agreement
  <2> QED BY <2>2, <2>3, <2>4 DEF Rest
<1>5. ASSUME NEW t, t.todo = <<"master">>, t.copy = c PROVE Position(t)
  <2>1. Written(t, c)
    BY <1>4, <1>5 DEF Written
  <2> QED BY <1>5, <2>1 DEF Position
<1> QED BY <1>1, <1>2, <1>5, Begins DEF LoanIsActive

LEMMA AdminRejectStraight ==
  ASSUME IInv, NEW w, Workers = {w}, Due, Position(task[w]), AdminReject(w)
  PROVE  Straight'
<1>1. Rest(master) /\ UNCHANGED <<db, world, aborts>>
  BY IdleRests DEF AdminReject
<1>2. PICK q : q = IF HasDoc(loan.doc)
                     THEN <<"deleteRead", "deleteRow", "unlinkDoc", "master">> ELSE <<>>
  OBVIOUS
<1>3. PICK r : r = q \o ThenReject
  OBVIOUS
<1>4. PICK t : t = [NoTask EXCEPT !.force = TRUE,
                                  !.doc = IF HasDoc(loan.doc) THEN loan.doc ELSE None,
                                  !.todo = r]
  OBVIOUS
<1>5. t.todo = r /\ t.doc = (IF HasDoc(loan.doc) THEN loan.doc ELSE None)
  BY <1>4 DEF NoTask
<1>6. Do(w, t)
  BY <1>2, <1>3, <1>4 DEF AdminReject
<1>7. CASE HasDoc(loan.doc)
  <2>1. r \in {<<"deleteRead", "deleteRow", "unlinkDoc", "master">>,
               <<"deleteRead", "deleteRow", "unlinkDoc", "master", "rejectRead",
                 "stepsRead", "master">>}
    <3>2. q = <<"deleteRead", "deleteRow", "unlinkDoc", "master">>
      BY <1>2, <1>7
    <3>3. CASE ThenReject = <<>>
      <4>1. r = <<"deleteRead", "deleteRow", "unlinkDoc", "master">>
        BY <1>3, <3>2, <3>3
      <4> QED BY <4>1
    <3>4. CASE ThenReject = <<"rejectRead", "stepsRead", "master">>
      <4>1. r = <<"deleteRead", "deleteRow", "unlinkDoc", "master", "rejectRead",
                  "stepsRead", "master">>
        BY <1>3, <3>2, <3>4, DeleteThenReject, Zenon
      <4> QED BY <4>1
    <3> QED BY <3>3, <3>4 DEF ThenReject
  <2>2. t.doc = loan.doc /\ loan.doc # None /\ ~Signed
    BY <1>5, <1>7 DEF AdminReject, HasDoc, Signed
  <2>3. Position(t)
    BY <1>1, <1>5, <2>1, <2>2 DEF Position, Resting, Deleting
  <2> QED BY <1>1, <1>6, <2>3, Reads
<1>8. CASE ~HasDoc(loan.doc)
  <2>1. r \in {<<>>, <<"rejectRead", "stepsRead", "master">>}
    <3>2. q = <<>>
      BY <1>2, <1>8
    <3>3. CASE ThenReject = <<>>
      BY <1>3, <3>2, <3>3
    <3>4. CASE ThenReject = <<"rejectRead", "stepsRead", "master">>
      BY <1>3, <3>2, <3>4
    <3> QED BY <3>3, <3>4 DEF ThenReject
  <2>2. loan.doc = None
    BY <1>1, <1>8 DEF Rest, Agreement
  <2>3. Position(t)
    BY <1>1, <1>5, <2>1, <2>2 DEF Position, Resting, Rejecting
  <2> QED BY <1>1, <1>6, <2>3, Reads
<1> QED BY <1>7, <1>8

(* CheckMandate and DeleteMandate: what the handler makes of the mandate.  *)
LEMMA MandateTask ==
  ASSUME IInv, NEW w, Workers = {w}, Due, UNCHANGED <<db, world, aborts>>,
         Rest(master), HasSub(loan.sub), NEW value, NEW todo,
         Do(w, [NoTask EXCEPT !.copy = [master EXCEPT !.eMandate = value],
                              !.sub = loan.sub, !.todo = todo]),
         \/ value = 1 /\ todo = <<"subActive", "master">>
         \/ value = 2 /\ todo = <<"subFailed", "master">> /\ loan.doc = None
         \/ /\ value = -1 /\ todo = <<"unlinkSub", "master", "dropSub">>
            /\ loan.doc = None /\ ~Mandated
  PROVE  Straight'
<1>1. PICK c : c = [master EXCEPT !.eMandate = value]
  OBVIOUS
<1>2. PICK t : t = [NoTask EXCEPT !.copy = c, !.sub = loan.sub, !.todo = todo]
  OBVIOUS
<1>3. t.todo = todo /\ t.copy = c /\ t.sub = loan.sub /\ loan.sub # None
  BY <1>2 DEF NoTask, HasSub
<1>4. Unwritten(t, c)
  BY <1>1, <1>3 DEF Unwritten
<1>5. Do(w, t)
  BY <1>1, <1>2
<1> QED BY <1>3, <1>4, <1>5, Reads DEF Position

LEMMA CheckMandateStraight ==
  ASSUME IInv, NEW w, Workers = {w}, Due, Position(task[w]), CheckMandate(w)
  PROVE  Straight'
<1>1. Rest(master) /\ HasSub(loan.sub) /\ UNCHANGED <<db, world, aborts>>
  BY IdleRests DEF CheckMandate
<1>2. IsFailure(loan.sub) => loan.doc = None
  BY <1>1, RestFacts DEF IsFailure, Mandated
<1> QED BY <1>1, <1>2, MandateTask DEF CheckMandate

LEMMA ADPaymentWebhookStraight ==
  ASSUME IInv, NEW w, Workers = {w}, Due, Position(task[w]), ADPaymentWebhook(w)
  PROVE  Straight'
<1>1. Rest(master) /\ UNCHANGED <<db, world, aborts>>
  BY IdleRests DEF ADPaymentWebhook
<1>2. PICK s \in Subs, captured \in BOOLEAN :
        /\ sub[s] = "INITIALIZED"
        /\ Do(w, [NoTask EXCEPT
                    !.sub = s,
                    !.copy.eMandate = IF captured THEN 1 ELSE 2,
                    !.todo = <<IF captured THEN "subActive" ELSE "subFailed",
                               "webhookRead", "master">>])
  BY DEF ADPaymentWebhook
<1>3. s = loan.sub /\ loan.sub # None
  BY <1>1, <1>2 DEF Rest, Mandate
<1>4. PICK e : e = IF captured THEN 1 ELSE 2
  OBVIOUS
<1>5. PICK step : step = IF captured THEN "subActive" ELSE "subFailed"
  OBVIOUS
<1>6. PICK t : t = [NoTask EXCEPT !.sub = s, !.copy.eMandate = e,
                                  !.todo = <<step, "webhookRead", "master">>]
  OBVIOUS
<1>7. t.todo = <<step, "webhookRead", "master">> /\ t.copy.eMandate = e /\ t.sub = s
  BY <1>6 DEF NoTask, NewMaster
<1>8. Do(w, t)
  BY <1>2, <1>4, <1>5, <1>6
<1>9. Unwritten(t, t.copy)
  BY <1>1, <1>2, <1>3, <1>4, <1>5, <1>7 DEF Unwritten
<1> QED BY <1>1, <1>8, <1>9, Reads DEF Position

LEMMA DeleteMandateStraight ==
  ASSUME IInv, ~Cashfree, NEW w, Workers = {w}, Due, Position(task[w]), DeleteMandate(w)
  PROVE  Straight'
<1>1. Rest(master) /\ HasSub(loan.sub) /\ UNCHANGED <<db, world, aborts>>
  BY IdleRests DEF DeleteMandate
<1>2. loan.sub \in Subs
  BY <1>1, LinkedSub
<1>3. MayDelete(loan.sub) => ~Mandated
  BY <1>2 DEF MayDelete, Mandated, IInv, RowsOK
<1>4. MayDelete(loan.sub) => loan.doc = None
  BY <1>1, <1>3, RestFacts
<1> QED BY <1>1, <1>3, <1>4, MandateTask DEF DeleteMandate

(* inviteForESign, from the app or when an agreement is sent anew.         *)
LEMMA SendInvitationStraight ==
  ASSUME IInv, ~Cashfree, NEW w, Workers = {w}, Due, Rest(master),
         NEW force \in BOOLEAN, SendInvitation(w, force)
  PROVE  Straight'
<1>1. /\ UNCHANGED <<loan, master, doc, account>>
      /\ sub' = sub /\ HasMandate = (account # None /\ sub[account] = "ACTIVE")
  BY DEF SendInvitation, Refreshed, HasMandate, HasSub
<1>2. CASE MayInvite(force) /\ HasMandate /\ \A d \in Docs : ~HasDoc(d)
  <2>1. PICK c : c = [master EXCEPT !.eSign = 0, !.loan = IF force THEN 1 ELSE @]
    OBVIOUS
  <2>2. PICK t : t = [NoTask EXCEPT !.force = force, !.copy = c,
                                    !.todo = <<"createDoc", "linkDoc", "master">>]
    OBVIOUS
  <2>3. t.force = force /\ t.copy = c /\ t.todo = <<"createDoc", "linkDoc", "master">>
    BY <2>2 DEF NoTask
  <2>4. Do(w, t)
    BY <1>2, <2>1, <2>2 DEF SendInvitation
  <2>5. loan.doc = None
    <3>1. loan.doc \in Docs \union {None}
      BY DEF IInv, RowTypes, LoanRows
    <3> QED BY <1>2, <3>1 DEF Rest, Agreement
  <2>6. Underwritten
    BY <1>1, <1>2 DEF MayInvite, Rest, Mandate, Underwritten, Mandated
  <2>7. Unwritten(t, c)
    <3>1. CASE force
      <4>1. c = [master EXCEPT !.eSign = 0, !.loan = 1]
        BY <2>1, <3>1
      <4> QED BY <2>3, <2>5, <2>6, <3>1, <4>1 DEF Unwritten
    <3>2. CASE ~force
      <4>1. c = [master EXCEPT !.eSign = 0]
        BY <2>1, <3>2 DEF IInv, RowTypes, MasterRows
      <4>2. loan.status = "Accepted"
        BY <1>2, <3>2 DEF MayInvite
      <4> QED BY <2>3, <2>5, <2>6, <3>2, <4>1, <4>2 DEF Unwritten
    <3> QED BY <3>1, <3>2
  <2>8. Position(t)' /\ Due'
    BY <1>1, <2>3, <2>7, PositionStays DEF Position
  <2> QED BY <2>4, <2>8, Lands
<1>3. CASE Stop(w)
  <2>1. PICK t : t = NoTask
    OBVIOUS
  <2>2. Position(t)
    BY <2>1 DEF NoTask, Position, Resting
  <2>3. Position(t)' /\ Due'
    BY <1>1, <2>2, PositionStays
  <2>4. Do(w, t)
    BY <1>3, <2>1 DEF Stop
  <2> QED BY <2>3, <2>4, Lands
<1> QED BY <1>2, <1>3 DEF SendInvitation

LEMMA InviteStraight ==
  ASSUME IInv, ~Cashfree, NEW w, Workers = {w}, Due, Position(task[w]), Invite(w)
  PROVE  Straight'
  BY IdleRests, SendInvitationStraight DEF Invite

LEMMA CheckStatusStraight ==
  ASSUME IInv, NEW w, Workers = {w}, Due, Position(task[w]), CheckStatus(w)
  PROVE  Straight'
<1>1. /\ Rest(master) /\ loan.doc # None /\ ~Signed
      /\ UNCHANGED <<db, world, aborts>>
  BY IdleRests DEF CheckStatus, HasDoc, Signed
<1>2. PICK c : c = IF loan.doc \in signer
                     THEN [master EXCEPT !.eSign = 1,
                                         !.disbursement = IF @ = 1 THEN 1 ELSE 0]
                     ELSE [master EXCEPT !.eSign = 0]
  OBVIOUS
<1>3. master.disbursement = -1
  BY <1>1, RestFacts
<1>4. c \in {[master EXCEPT !.eSign = 1, !.disbursement = 0], [master EXCEPT !.eSign = 0]}
  BY <1>2, <1>3
<1>5. PICK t : t = [NoTask EXCEPT !.doc = loan.doc, !.copy = c,
                                  !.todo = <<"docStatus", "master">>]
  OBVIOUS
<1>6. t.doc = loan.doc /\ t.copy = c /\ t.todo = <<"docStatus", "master">>
  BY <1>5 DEF NoTask
<1>7. Do(w, t)
  BY <1>2, <1>5 DEF CheckStatus
<1>8. Unwritten(t, c)
  BY <1>1, <1>4, <1>6 DEF Unwritten
<1> QED BY <1>1, <1>6, <1>7, <1>8, Reads DEF Position

LEMMA RegenerateStraight ==
  ASSUME IInv, NEW w, Workers = {w}, Due, Position(task[w]), NEW d \in Docs, Regenerate(w, d)
  PROVE  Straight'
<1>1. Rest(master) /\ UNCHANGED <<db, world, aborts>>
  BY IdleRests DEF Regenerate
<1>2. d = loan.doc /\ loan.doc # None /\ ~Signed
  BY <1>1 DEF Regenerate, Rest, Agreement, HasDoc, Signed
<1>3. PICK t : t = [NoTask EXCEPT !.doc = d, !.force = TRUE,
                      !.todo = <<"deleteRead", "deleteRow", "unlinkDoc", "master", "inviteRead">>]
  OBVIOUS
<1>4. /\ t.doc = loan.doc
      /\ t.todo = <<"deleteRead", "deleteRow", "unlinkDoc", "master", "inviteRead">>
  BY <1>2, <1>3 DEF NoTask
<1>5. Do(w, t)
  BY <1>3 DEF Regenerate
<1>6. Position(t)
  BY <1>1, <1>2, <1>4 DEF Position, Resting, Deleting
<1> QED BY <1>1, <1>5, <1>6, Reads

LEMMA ReEsignStraight ==
  ASSUME IInv, NEW w, Workers = {w}, Due, Position(task[w]), ReEsign(w)
  PROVE  Straight'
<1>1. /\ Rest(master) /\ Signed /\ loan.status = "Accepted" /\ loan.payout = "failed"
      /\ UNCHANGED <<db, world, aborts>>
  BY IdleRests DEF ReEsign, HasDoc, Signed
<1>2. PICK c : c = [master EXCEPT !.eSign = -1, !.disbursement = -1]
  OBVIOUS
<1>3. PICK t : t = [NoTask EXCEPT !.doc = loan.doc, !.copy = c,
                                  !.todo = <<"dropDoc", "resetLoan", "master", "reinitiate">>]
  OBVIOUS
<1>4. /\ t.doc = loan.doc /\ t.copy = c
      /\ t.todo = <<"dropDoc", "resetLoan", "master", "reinitiate">>
  BY <1>3 DEF NoTask
<1>5. Do(w, t)
  BY <1>2, <1>3 DEF ReEsign
<1>6. Unwritten(t, c)
  BY <1>1, <1>2, <1>4 DEF Unwritten
<1> QED BY <1>1, <1>4, <1>5, <1>6, Reads DEF Position

-----------------------------------------------------------------------------
(* How each handler goes on. *)

(* Nothing is due without an agreement, unless a payout failed.            *)
LEMMA NothingDue ==
  ASSUME IInv, Due, master' = master, loan'.payout = loan.payout,
         \/ loan.payout = "failed"
         \/ master.disbursement # 0
         \/ loan.doc = None
         \/ NoAgreement(master)
         \/ \A d \in Docs : ~HasDoc(d)
  PROVE  Due'
<1>1. loan.doc \in Docs \union {None}
  BY DEF IInv, RowTypes, LoanRows
<1> QED BY <1>1 DEF Due, Signed, HasDoc, NoAgreement

LEMMA Goes ==
  ASSUME IInv, NEW w, Workers = {w}, NEW step, At(w, step), Go(w)
  PROVE  \E u \in Tasks :
           /\ u = [task[w] EXCEPT !.todo = Tail(task[w].todo)]
           /\ u.todo = Tail(task[w].todo) /\ u.copy = task[w].copy
           /\ u.sub = task[w].sub /\ u.doc = task[w].doc /\ u.force = task[w].force
           /\ Do(w, u)
<1>1. PICK t : t = task[w]
  OBVIOUS
<1>2. t \in Tasks /\ t.todo \in Seq(Steps) /\ t.todo # <<>>
  BY <1>1 DEF IInv, TasksOK, At, Tasks
<1>3. Tail(t.todo) \in Seq(Steps)
  BY <1>2, TailKeeps
<1>4. PICK u : u = [t EXCEPT !.todo = Tail(t.todo)]
  OBVIOUS
<1>5. /\ u \in Tasks /\ u.todo = Tail(t.todo) /\ u.copy = t.copy
      /\ u.sub = t.sub /\ u.doc = t.doc /\ u.force = t.force
  BY <1>2, <1>3, <1>4 DEF Tasks
<1>6. Do(w, u)
  BY <1>1, <1>4 DEF Go
<1> QED BY <1>1, <1>4, <1>5, <1>6

(* The next step of a handler says how it stands.                          *)
LEMMA MandateReadStraight ==
  ASSUME IInv, ~Cashfree, NEW w, Workers = {w}, Due, Position(task[w]), MandateRead(w)
  PROVE  Straight'
<1>1. PICK t : t = task[w]
  OBVIOUS
<1>2. /\ Rest(master) /\ t.todo = <<"mandateRead">> /\ t.copy = master
      /\ loan.status = "InProcess"
  BY <1>1 DEF MandateRead, At, Position, Unwritten, Between, Written, Resting, Reported,
     Rejection, Deletion, Unlinking, Rejecting, Deleting
<1>3. Refreshed = sub
  BY DEF Refreshed
<1>4. PICK e : e = IF HasMandate THEN 1 ELSE master.eMandate
  OBVIOUS
<1>5. PICK u : u = [t EXCEPT !.copy.loan = 1, !.copy.eMandate = e,
                             !.sub = IF HasMandate THEN account ELSE None,
                             !.todo = <<"approve", "master">>]
  OBVIOUS
<1>6. master \in MasterRows /\ t \in Tasks
  BY <1>1 DEF IInv, RowTypes, TasksOK
<1>7. /\ u.todo = <<"approve", "master">>
      /\ u.copy = [master EXCEPT !.loan = 1, !.eMandate = e]
      /\ u.sub = IF HasMandate THEN account ELSE None
  BY <1>2, <1>5, <1>6 DEF Tasks, MasterRows
<1>8. HasMandate <=> account # None /\ sub[account] = "ACTIVE"
  BY <1>3 DEF HasMandate, HasSub
<1>9. Unwritten(u, u.copy)
  <2>1. CASE HasMandate
    <3>1. u.copy = [master EXCEPT !.loan = 1, !.eMandate = 1]
      BY <1>4, <1>7, <2>1
    <3> QED BY <1>2, <1>7, <1>8, <2>1, <3>1 DEF Unwritten
  <2>2. CASE ~HasMandate
    <3>1. u.copy = [master EXCEPT !.loan = 1]
      BY <1>4, <1>6, <1>7, <2>2 DEF MasterRows
    <3> QED BY <1>2, <1>7, <1>8, <2>2, <3>1 DEF Unwritten
  <2> QED BY <2>1, <2>2
<1>10. Do(w, u)
  BY <1>1, <1>2, <1>4, <1>5 DEF MandateRead
<1>11. UNCHANGED <<loan, master, doc, sub, account>>
  BY <1>3 DEF MandateRead
<1>12. Position(u)' /\ Due'
  BY <1>9, <1>11, PositionStays DEF Position
<1> QED BY <1>10, <1>12, Lands

LEMMA AtApprove ==
  ASSUME NEW t, Position(t), t.todo # <<>>, Head(t.todo) = "approve"
  PROVE  /\ Rest(master) /\ t.todo = <<"approve", "master">> /\ loan.status = "InProcess"
         /\ \/ /\ t.sub = None /\ (account = None \/ sub[account] # "ACTIVE")
               /\ t.copy = [master EXCEPT !.loan = 1]
            \/ /\ t.sub # None /\ t.sub = account /\ sub[account] = "ACTIVE"
               /\ t.copy = [master EXCEPT !.loan = 1, !.eMandate = 1]
  BY DEF Position, Unwritten, Between, Written, Resting, Reported, Rejection, Deletion,
     Unlinking, Rejecting, Deleting

LEMMA ApproveLoanStraight ==
  ASSUME IInv, NEW w, Workers = {w}, Due, Position(task[w]), ApproveLoan(w)
  PROVE  Straight'
<1>1. PICK t : t = task[w]
  OBVIOUS
<1>2. PICK c : c = t.copy
  OBVIOUS
<1>3. /\ Rest(master) /\ t.todo = <<"approve", "master">> /\ loan.status = "InProcess"
      /\ \/ /\ t.sub = None /\ (account = None \/ sub[account] # "ACTIVE")
            /\ c = [master EXCEPT !.loan = 1]
         \/ /\ t.sub # None /\ t.sub = account /\ sub[account] = "ACTIVE"
            /\ c = [master EXCEPT !.loan = 1, !.eMandate = 1]
  BY <1>1, <1>2, AtApprove DEF ApproveLoan, LoanStep, At
<1>4. PICK u \in Tasks :
        /\ u.todo = Tail(t.todo) /\ u.copy = c /\ Do(w, u)
  BY <1>1, <1>2, Goes DEF ApproveLoan, LoanStep
<1>5. u.todo = <<"master">>
  BY <1>3, <1>4
<1>6. /\ UNCHANGED <<master, doc, sub, account>>
      /\ loan'.status = loan.status /\ loan'.verified = "approved"
      /\ loan'.doc = loan.doc /\ loan'.payout = loan.payout
      /\ loan'.sub = IF t.sub = None THEN loan.sub ELSE t.sub
  BY <1>1 DEF ApproveLoan, UnchangedButLoan, IInv, RowTypes, LoanRows
<1>7. loan.doc = None
  BY <1>3, RestFacts
<1>8. NoAgreement(master)
  BY <1>3, <1>7, NoDoc
<1>9. /\ c.loan = 1 /\ c.eSign = master.eSign /\ c.disbursement = master.disbursement
      /\ c.eMandate = IF t.sub = None THEN master.eMandate ELSE 1
  BY <1>3 DEF IInv, RowTypes, MasterRows
<1>10. Rest(c)'
  <2>1. Decision(c)'
    BY <1>3, <1>6, <1>9 DEF Decision
  <2>2. Mandate(c)'
    <3>1. CASE t.sub = None
      BY <1>3, <1>6, <1>9, <3>1 DEF Rest, Mandate, Mandated, HasSub
    <3>2. CASE t.sub # None
      BY <1>3, <1>6, <1>9, <3>2 DEF Rest, Mandate, Mandated, HasSub
    <3> QED BY <3>1, <3>2
  <2>3. Agreement(c)'
    BY <1>3, <1>6, <1>7, <1>8, <1>9 DEF Agreement, NoAgreement, Signature, HasDoc
  <2> QED BY <2>1, <2>2, <2>3 DEF Rest
<1>11. Position(u)'
  BY <1>4, <1>5, <1>10 DEF Position, Written
<1>12. Due'
  BY <1>6, <1>7, NothingDue
<1> QED BY <1>4, <1>11, <1>12, Lands

(* The decision changes on a loan that has no agreement.                   *)
LEMMA Redecided ==
  ASSUME IInv, Due, Rest(master), loan.doc = None, UNCHANGED <<master, doc, sub, account>>,
         loan'.doc = loan.doc, loan'.sub = loan.sub, loan'.payout = loan.payout,
         loan'.status # "Active", loan'.verified # "approved",
         NEW value \in {0, 2}, NEW c, c = [master EXCEPT !.loan = value],
         c.loan = value => Decision(c)'
  PROVE  Rest(c)' /\ Due'
<1>1. /\ c.loan = value /\ c.eSign = master.eSign
      /\ c.disbursement = master.disbursement /\ c.eMandate = master.eMandate
  BY DEF IInv, RowTypes, MasterRows
<1>2. NoAgreement(master)
  BY NoDoc
<1>3. Mandate(c)'
  BY <1>1 DEF Rest, Mandate, Mandated, HasSub
<1>4. Agreement(c)'
  BY <1>1, <1>2 DEF Agreement, NoAgreement, Signature, HasDoc
<1>5. Due'
  BY NothingDue
<1> QED BY <1>1, <1>3, <1>4, <1>5 DEF Rest

LEMMA ReferLoanStraight ==
  ASSUME IInv, NEW w, Workers = {w}, Due, Position(task[w]), ReferLoan(w)
  PROVE  Straight'
<1>1. PICK t : t = task[w]
  OBVIOUS
<1>2. PICK c : c = t.copy
  OBVIOUS
<1>3. /\ Rest(master) /\ t.todo = <<"refer", "master">> /\ loan.status = "InProcess"
      /\ c = [master EXCEPT !.loan = 0]
  BY <1>1, <1>2 DEF ReferLoan, LoanStep, At, Position, Unwritten, Between, Written, Resting,
     Reported, Rejection, Deletion, Unlinking, Rejecting, Deleting
<1>4. PICK u \in Tasks : u.todo = Tail(t.todo) /\ u.copy = c /\ Do(w, u)
  BY <1>1, <1>2, Goes DEF ReferLoan, LoanStep
<1>5. u.todo = <<"master">>
  BY <1>3, <1>4
<1>6. /\ UNCHANGED <<master, doc, sub, account>>
      /\ loan'.status = loan.status /\ loan'.verified = "pending"
      /\ loan'.doc = loan.doc /\ loan'.payout = loan.payout /\ loan'.sub = loan.sub
  BY DEF ReferLoan, UnchangedButLoan, IInv, RowTypes, LoanRows
<1>7. loan.doc = None
  BY <1>3, RestFacts
<1>8. c.loan = 0 => Decision(c)'
  BY <1>3, <1>6 DEF Decision
<1>9. Rest(c)' /\ Due'
  BY <1>3, <1>6, <1>7, <1>8, Redecided
<1>10. Position(u)'
  BY <1>4, <1>5, <1>9 DEF Position, Written
<1> QED BY <1>4, <1>9, <1>10, Lands

LEMMA AtRejection ==
  ASSUME NEW t, NEW c, c = t.copy, Position(t),
         t.todo # <<>>, Head(t.todo) \in {"reject", "decline"}
  PROVE  /\ Rest(master) /\ t.todo \in Rejection /\ loan.doc = None
         /\ c = [master EXCEPT !.loan = 2]
  BY DEF Position, Unwritten, Between, Written, Resting,
     Reported, Rejection, Deletion, Unlinking,
     Rejecting, Deleting

(* rejectLoan and the borrower's own rejection write the same.             *)
LEMMA RejectionWritten ==
  ASSUME IInv, NEW w, Workers = {w}, Due, Position(task[w]),
         task[w].todo # <<>>, Head(task[w].todo) \in {"reject", "decline"},
         loan' = [loan EXCEPT !.status = "Rejected", !.verified = "rejected"],
         UnchangedButLoan, Go(w)
  PROVE  Straight'
<1>1. PICK t : t = task[w]
  OBVIOUS
<1>2. PICK c : c = t.copy
  OBVIOUS
<1>3. /\ Rest(master) /\ t.todo \in Rejection /\ loan.doc = None
      /\ c = [master EXCEPT !.loan = 2]
  BY <1>1, <1>2, AtRejection
<1>4. At(w, Head(task[w].todo))
  BY DEF At
<1>5. PICK u \in Tasks : u.todo = Tail(t.todo) /\ u.copy = c /\ Do(w, u)
  BY <1>1, <1>2, <1>4, Goes
<1>6. u.todo \in {<<"master">>, <<"master", "stepsRead", "master">>}
  <2>1. CASE t.todo = <<"reject", "master">>
    BY <1>5, <2>1
  <2>2. CASE t.todo = <<"reject", "master", "stepsRead", "master">>
    BY <1>5, <2>2
  <2>3. CASE t.todo = <<"decline", "master", "stepsRead", "master">>
    BY <1>5, <2>3
  <2> QED BY <1>3, <2>1, <2>2, <2>3 DEF Rejection
<1>7. /\ UNCHANGED <<master, doc, sub, account>>
      /\ loan'.status = "Rejected" /\ loan'.verified = "rejected"
      /\ loan'.doc = loan.doc /\ loan'.payout = loan.payout /\ loan'.sub = loan.sub
  BY DEF UnchangedButLoan, IInv, RowTypes, LoanRows
<1>8. c.loan = 2 => Decision(c)'
  BY <1>7 DEF Decision
<1>9. Rest(c)' /\ Due'
  BY <1>3, <1>7, <1>8, Redecided
<1>10. Position(u)'
  BY <1>5, <1>6, <1>9 DEF Position, Written
<1> QED BY <1>5, <1>9, <1>10, Lands

LEMMA RejectLoanStraight ==
  ASSUME IInv, NEW w, Workers = {w}, Due, Position(task[w]), RejectLoan(w)
  PROVE  Straight'
<1>1. loan.doc = None
  BY DEF RejectLoan, At, Position, Unwritten, Between, Written, Resting, Reported,
     Rejection, Deletion, Unlinking, Rejecting, Deleting
<1> QED BY <1>1, RejectionWritten DEF RejectLoan, MayReject, At

LEMMA DeclineLoanStraight ==
  ASSUME IInv, NEW w, Workers = {w}, Due, Position(task[w]), DeclineLoan(w)
  PROVE  Straight'
  BY RejectionWritten DEF DeclineLoan, LoanStep, At

LEMMA AtReopenLoan ==
  ASSUME NEW t, NEW c, c = t.copy, Position(t), t.todo # <<>>, Head(t.todo) = "reopen"
  PROVE  /\ Rest(master) /\ t.todo = <<"reopen", "master">> /\ loan.status = "Rejected"
         /\ c = [master EXCEPT !.loan = 0]
  BY DEF Position, Unwritten, Between, Written, Resting,
     Reported, Rejection, Deletion, Unlinking,
     Rejecting, Deleting

LEMMA ReopenLoanStraight ==
  ASSUME IInv, NEW w, Workers = {w}, Due, Position(task[w]), ReopenLoan(w)
  PROVE  Straight'
<1>1. PICK t : t = task[w]
  OBVIOUS
<1>2. PICK c : c = t.copy
  OBVIOUS
<1>3. /\ Rest(master) /\ t.todo = <<"reopen", "master">> /\ loan.status = "Rejected"
      /\ c = [master EXCEPT !.loan = 0]
  BY <1>1, <1>2, AtReopenLoan DEF ReopenLoan, LoanStep, At
<1>4. PICK u \in Tasks : u.todo = Tail(t.todo) /\ u.copy = c /\ Do(w, u)
  BY <1>1, <1>2, Goes DEF ReopenLoan, LoanStep
<1>5. u.todo = <<"master">>
  BY <1>3, <1>4
<1>6. /\ UNCHANGED <<master, doc, sub, account>>
      /\ loan'.status = "Accepted" /\ loan'.verified = "pending"
      /\ loan'.doc = loan.doc /\ loan'.payout = loan.payout /\ loan'.sub = loan.sub
  BY DEF ReopenLoan, UnchangedButLoan, IInv, RowTypes, LoanRows
<1>7. loan.doc = None
  BY <1>3, RestFacts
<1>8. c.loan = 0 => Decision(c)'
  BY <1>6 DEF Decision
<1>9. Rest(c)' /\ Due'
  BY <1>3, <1>6, <1>7, <1>8, Redecided
<1>10. Position(u)'
  BY <1>4, <1>5, <1>9 DEF Position, Written
<1> QED BY <1>4, <1>9, <1>10, Lands

LEMMA AtAcceptLoan ==
  ASSUME NEW t, Position(t), t.todo # <<>>, Head(t.todo) = "kfs"
  PROVE  Rest(master) /\ t.todo = <<"kfs">> /\ loan.status = "InProcess"
  BY DEF Position, Unwritten, Between, Written, Resting,
     Reported, Rejection, Deletion, Unlinking,
     Rejecting, Deleting

LEMMA AcceptLoanStraight ==
  ASSUME IInv, NEW w, Workers = {w}, Due, Position(task[w]), AcceptLoan(w)
  PROVE  Straight'
<1>1. PICK t : t = task[w]
  OBVIOUS
<1>2. Rest(master) /\ t.todo = <<"kfs">> /\ loan.status = "InProcess"
  BY <1>1, AtAcceptLoan DEF AcceptLoan, LoanStep, At
<1>3. PICK u \in Tasks : u.todo = Tail(t.todo) /\ Do(w, u)
  BY <1>1, Goes DEF AcceptLoan, LoanStep
<1>4. u.todo = <<>>
  BY <1>2, <1>3
<1>5. /\ UNCHANGED <<master, doc, sub, account>>
      /\ loan'.status = "Accepted" /\ loan'.verified = loan.verified
      /\ loan'.doc = loan.doc /\ loan'.payout = loan.payout /\ loan'.sub = loan.sub
  BY DEF AcceptLoan, UnchangedButLoan, IInv, RowTypes, LoanRows
<1>6. loan.doc = None
  BY <1>2, RestFacts
<1>7. PICK m : m = master
  OBVIOUS
<1>8. Rest(m)
  BY <1>2, <1>7 DEF Rest, Decision, Mandate, Agreement
<1>9. Rest(m)'
  <2>1. Decision(m)'
    BY <1>2, <1>5, <1>8 DEF Rest, Decision
  <2>2. Mandate(m)'
    BY <1>5, <1>8 DEF Rest, Mandate, Mandated, HasSub
  <2>3. Agreement(m)'
    BY <1>5, <1>6, <1>8, NoDoc DEF Agreement, NoAgreement, Signature, HasDoc
  <2> QED BY <2>1, <2>2, <2>3 DEF Rest
<1>10. Rest(master)'
  BY <1>5, <1>7, <1>9, RestOfMaster
<1>11. Position(u)'
  BY <1>4, <1>10 DEF Position, Resting
<1>12. Due'
  BY <1>5, <1>6, NothingDue
<1> QED BY <1>3, <1>11, <1>12, Lands

LEMMA RejectReadStraight ==
  ASSUME IInv, NEW w, Workers = {w}, Due, Position(task[w]), RejectRead(w)
  PROVE  Straight'
<1>1. PICK t : t = task[w]
  OBVIOUS
<1>2. Rest(master) /\ t.todo \in Rejecting /\ loan.doc = None
  BY <1>1 DEF RejectRead, At, Position, Unwritten, Between, Written, Resting, Reported,
     Rejection, Deletion, Unlinking, Rejecting, Deleting
<1>3. UNCHANGED <<db, world, aborts>>
  BY DEF RejectRead
<1>4. CASE Go(w)
  <2>1. PICK u \in Tasks : u.todo = Tail(t.todo) /\ Do(w, u)
    BY <1>1, <1>4, Goes DEF RejectRead
  <2>2. u.todo \in {<<>>, <<"stepsRead", "master">>}
    <3>1. CASE t.todo = <<"rejectRead">>
      BY <2>1, <3>1
    <3>2. CASE t.todo = <<"rejectRead", "stepsRead", "master">>
      BY <2>1, <3>2
    <3> QED BY <1>2, <3>1, <3>2 DEF Rejecting
  <2>3. Position(u)
    BY <1>2, <2>2 DEF Position, Resting
  <2> QED BY <1>3, <2>1, <2>3, Reads
<1>5. CASE Read(w, [master EXCEPT !.loan = 2], <<"reject", "master">>)
  <2>1. PICK c : c = [master EXCEPT !.loan = 2]
    OBVIOUS
  <2>2. PICK r : r = <<"reject", "master">> \o Tail(t.todo)
    OBVIOUS
  <2>3. r \in {<<"reject", "master">>, <<"reject", "master", "stepsRead", "master">>}
    <3>1. CASE t.todo = <<"rejectRead">>
      <4>1. r = <<"reject", "master">>
        BY <2>2, <3>1
      <4> QED BY <4>1
    <3>2. CASE t.todo = <<"rejectRead", "stepsRead", "master">>
      <4>1. PICK b : b = Tail(t.todo)
        OBVIOUS
      <4>2. b = <<"stepsRead", "master">>
        BY <3>2, <4>1
      <4>3. b \in Seq(Steps) /\ Len(b) = 2 /\ b[1] = "stepsRead" /\ b[2] = "master"
        BY <4>2 DEF Steps
      <4>4. "reject" \in Steps /\ "master" \in Steps /\ b[1] \in Steps /\ b[2] \in Steps
        BY <4>3 DEF Steps
      <4>5. <<"reject", "master">> \o b = <<"reject", "master", b[1], b[2]>>
        BY <4>3, <4>4, JoinTwo, Zenon
      <4>6. r = <<"reject", "master", "stepsRead", "master">>
        BY <2>2, <4>1, <4>3, <4>5
      <4> QED BY <4>6
    <3> QED BY <1>2, <3>1, <3>2 DEF Rejecting
  <2>4. PICK u : u = [t EXCEPT !.copy = c, !.todo = r]
    OBVIOUS
  <2>5. u.todo = r /\ u.copy = c
    BY <1>1, <2>4 DEF IInv, TasksOK, Tasks
  <2>6. Do(w, u)
    BY <1>1, <1>5, <2>1, <2>2, <2>4 DEF Read
  <2>7. Unwritten(u, c)
    BY <1>2, <2>1, <2>3, <2>5 DEF Unwritten, Rejection
  <2> QED BY <1>3, <2>5, <2>6, <2>7, Reads DEF Position
<1> QED BY <1>4, <1>5 DEF RejectRead

LEMMA StepsReadStraight ==
  ASSUME IInv, NEW w, Workers = {w}, Due, Position(task[w]), StepsRead(w)
  PROVE  Straight'
<1>1. PICK t : t = task[w]
  OBVIOUS
<1>2. Rest(master) /\ t.todo = <<"stepsRead", "master">>
  BY <1>1 DEF StepsRead, At, Position, Unwritten, Between, Written, Resting, Reported,
     Rejection, Deletion, Unlinking, Rejecting, Deleting
<1>3. PICK c : c = master
  OBVIOUS
<1>4. PICK r : r = <<>> \o Tail(t.todo)
  OBVIOUS
<1>5. r = <<"master">>
  BY <1>2, <1>4
<1>6. PICK u : u = [t EXCEPT !.copy = c, !.todo = r]
  OBVIOUS
<1>7. u.todo = r /\ u.copy = c
  BY <1>1, <1>6 DEF IInv, TasksOK, Tasks
<1>8. Do(w, u) /\ UNCHANGED <<db, world, aborts>>
  BY <1>1, <1>3, <1>4, <1>6 DEF StepsRead, Read
<1>9. Rest(c)
  BY <1>2, <1>3 DEF Rest, Decision, Mandate, Agreement
<1>10. Position(u)
  BY <1>5, <1>7, <1>9 DEF Position, Written
<1> QED BY <1>8, <1>10, Reads

LEMMA InviteReadStraight ==
  ASSUME IInv, ~Cashfree, NEW w, Workers = {w}, Due, Position(task[w]), InviteRead(w)
  PROVE  Straight'
<1>1. Rest(master)
  BY DEF InviteRead, At, Position, Unwritten, Between, Written, Resting, Reported,
     Rejection, Deletion, Unlinking, Rejecting, Deleting
<1> QED BY <1>1, SendInvitationStraight DEF InviteRead

-----------------------------------------------------------------------------
(* The mandate. *)

LEMMA LinkReadStraight ==
  ASSUME IInv, NEW w, Workers = {w}, Due, Position(task[w]), LinkRead(w)
  PROVE  Straight'
<1>1. PICK t : t = task[w]
  OBVIOUS
<1>2. Rest(master) /\ t.todo = <<"linkRead">> /\ loan.doc = None /\ MayLink
  BY <1>1 DEF LinkRead, At, Position, Unwritten, Between, Written, Resting, Reported,
     Rejection, Deletion, Unlinking, Rejecting, Deleting
<1>3. UNCHANGED <<loan, master, doc, sub>>
  BY DEF LinkRead
<1>4. CASE Stop(w) /\ account' = account
  <2>1. PICK u : u = NoTask
    OBVIOUS
  <2>2. Position(u)
    BY <1>2, <2>1 DEF NoTask, Position, Resting
  <2>3. Position(u)' /\ Due'
    BY <1>3, <1>4, <2>2, PositionStays
  <2>4. Do(w, u)
    BY <1>4, <2>1 DEF Stop
  <2> QED BY <2>3, <2>4, Lands
<1>5. CASE /\ account' = None
           /\ Read(w, [master EXCEPT !.eMandate = 0], <<"createSub", "linkSub", "master">>)
  <2>1. PICK c : c = [master EXCEPT !.eMandate = 0]
    OBVIOUS
  <2>2. PICK r : r = <<"createSub", "linkSub", "master">> \o Tail(t.todo)
    OBVIOUS
  <2>3. r = <<"createSub", "linkSub", "master">>
    BY <1>2, <2>2
  <2>4. PICK u : u = [t EXCEPT !.copy = c, !.todo = r]
    OBVIOUS
  <2>5. u.todo = r /\ u.copy = c
    BY <1>1, <2>4 DEF IInv, TasksOK, Tasks
  <2>6. Do(w, u)
    BY <1>1, <1>5, <2>1, <2>2, <2>4 DEF Read
  <2>7. /\ c.loan = master.loan /\ c.eMandate = 0 /\ c.eSign = master.eSign
        /\ c.disbursement = master.disbursement
    BY <2>1 DEF IInv, RowTypes, MasterRows
  <2>8. Decision(c)' /\ NoAgreement(c)'
    BY <1>2, <1>3, <2>7, NoDoc DEF Rest, Decision, NoAgreement, HasDoc
  <2>9. \A s \in Subs : sub[s] # "INITIALIZED"
    BY <1>2 DEF MayLink, Rest, Mandate
  <2>10. Position(u)'
    BY <1>2, <1>3, <1>5, <2>3, <2>5, <2>7, <2>8, <2>9 DEF Position, Between
  <2>11. Due'
    BY <1>2, <1>3, NothingDue
  <2> QED BY <2>6, <2>10, <2>11, Lands
<1> QED BY <1>4, <1>5 DEF LinkRead

LEMMA CreateSubStraight ==
  ASSUME IInv, NEW w, Workers = {w}, Due, Position(task[w]), CreateSub(w)
  PROVE  Straight'
<1>1. PICK t : t = task[w]
  OBVIOUS
<1>2. PICK c : c = t.copy
  OBVIOUS
<1>3. /\ t.todo = <<"createSub", "linkSub", "master">> /\ account = None
      /\ c.eMandate = 0 /\ loan.doc = None /\ Decision(c) /\ NoAgreement(c)
      /\ \A s \in Subs : sub[s] # "INITIALIZED"
  <2>1. t.todo # <<>> /\ Head(t.todo) = "createSub"
    BY <1>1 DEF CreateSub, At
  <2>2. ~Unwritten(t, c)
    BY <2>1 DEF Unwritten, Rejection, Deletion
  <2>3. ~Written(t, c)
    BY <2>1 DEF Written
  <2>4. ~Resting(t) /\ ~Reported(t, c)
    BY <2>1 DEF Resting, Reported, Rejecting, Deleting
  <2>5. Between(t, c)
    BY <1>1, <1>2, <2>2, <2>3, <2>4 DEF Position
  <2> QED BY <2>1, <2>5 DEF Between, Unlinking
<1>4. UNCHANGED <<loan, master, doc>>
  BY DEF CreateSub
<1>5. PICK s \in FreeSubs :
        /\ sub' = [sub EXCEPT ![s] = "INITIALIZED"] /\ account' = s
        /\ Do(w, [task[w] EXCEPT !.sub = s, !.todo = Tail(@)])
  BY <1>3 DEF CreateSub
<1>6. /\ s \in Subs /\ s # None /\ sub'[s] = "INITIALIZED"
      /\ \A r \in Subs : sub'[r] = "INITIALIZED" <=> r = s
  BY <1>3, <1>5 DEF FreeSubs, IInv, RowTypes
<1>7. PICK u : u = [t EXCEPT !.sub = s, !.todo = Tail(t.todo)]
  OBVIOUS
<1>8. u.todo = Tail(t.todo) /\ u.copy = c /\ u.sub = s
  BY <1>1, <1>2, <1>7 DEF IInv, TasksOK, Tasks
<1>9. u.todo = <<"linkSub", "master">>
  BY <1>3, <1>8
<1>10. Do(w, u)
  BY <1>1, <1>5, <1>7
<1>11. Decision(c)' /\ NoAgreement(c)'
  BY <1>3, <1>4 DEF Decision, NoAgreement, HasDoc
<1>12. Position(u)'
  BY <1>3, <1>4, <1>5, <1>6, <1>8, <1>9, <1>11 DEF Position, Between
<1>13. Due'
  BY <1>3, <1>4, NothingDue
<1> QED BY <1>10, <1>12, <1>13, Lands

LEMMA LinkSubStraight ==
  ASSUME IInv, NEW w, Workers = {w}, Due, Position(task[w]), LinkSub(w)
  PROVE  Straight'
<1>1. PICK t : t = task[w]
  OBVIOUS
<1>2. PICK c : c = t.copy
  OBVIOUS
<1>3. /\ t.todo = <<"linkSub", "master">> /\ t.sub # None /\ account = t.sub
      /\ sub[t.sub] = "INITIALIZED"
      /\ \A s \in Subs : sub[s] = "INITIALIZED" => s = t.sub
      /\ c.eMandate = 0 /\ loan.doc = None /\ Decision(c) /\ NoAgreement(c)
  <2>1. t.todo # <<>> /\ Head(t.todo) = "linkSub"
    BY <1>1 DEF LinkSub, LoanStep, At
  <2>2. ~Unwritten(t, c) /\ ~Written(t, c)
    BY <2>1 DEF Unwritten, Written, Rejection, Deletion
  <2>3. ~Resting(t) /\ ~Reported(t, c)
    BY <2>1 DEF Resting, Reported, Rejecting, Deleting
  <2>4. Between(t, c)
    BY <1>1, <1>2, <2>2, <2>3 DEF Position
  <2>5. t.sub \in Subs \union {None}
    BY <1>1 DEF IInv, TasksOK, Tasks
  <2> QED BY <2>1, <2>4, <2>5 DEF Between, Unlinking
<1>4. PICK u \in Tasks : u.todo = Tail(t.todo) /\ u.copy = c /\ Do(w, u)
  BY <1>1, <1>2, Goes DEF LinkSub, LoanStep
<1>5. u.todo = <<"master">>
  BY <1>3, <1>4
<1>6. /\ UNCHANGED <<master, doc, sub, account>>
      /\ loan'.status = loan.status /\ loan'.verified = loan.verified
      /\ loan'.doc = loan.doc /\ loan'.payout = loan.payout /\ loan'.sub = t.sub
  BY <1>1 DEF LinkSub, UnchangedButLoan, IInv, RowTypes, LoanRows
<1>7. Rest(c)'
  <2>1. Decision(c)'
    BY <1>3, <1>6 DEF Decision
  <2>2. Mandate(c)'
    BY <1>3, <1>6 DEF Mandate, Mandated, HasSub
  <2>3. Agreement(c)'
    BY <1>3, <1>6 DEF Agreement, NoAgreement, Signature, HasDoc
  <2> QED BY <2>1, <2>2, <2>3 DEF Rest
<1>8. Position(u)'
  BY <1>4, <1>5, <1>7 DEF Position, Written
<1>9. Due'
  BY <1>3, <1>6, NothingDue
<1> QED BY <1>4, <1>8, <1>9, Lands

LEMMA SubActiveStraight ==
  ASSUME IInv, NEW w, Workers = {w}, Due, Position(task[w]),
         WriteSub(w, "subActive", "ACTIVE")
  PROVE  Straight'
<1>1. PICK t : t = task[w]
  OBVIOUS
<1>2. PICK c : c = t.copy
  OBVIOUS
<1>3. /\ Rest(master) /\ t.sub = loan.sub /\ loan.sub # None
      /\ \/ t.todo = <<"subActive", "master">> /\ c = [master EXCEPT !.eMandate = 1]
         \/ /\ t.todo = <<"subActive", "webhookRead", "master">> /\ c.eMandate = 1
            /\ sub[loan.sub] = "INITIALIZED"
  BY <1>1, <1>2 DEF WriteSub, At, Position, Unwritten, Between, Written, Resting, Reported,
     Rejection, Deletion, Unlinking, Rejecting, Deleting
<1>4. PICK u \in Tasks : u.todo = Tail(t.todo) /\ u.copy = c /\ Do(w, u)
  BY <1>1, <1>2, Goes DEF WriteSub
<1>5. HasSub(loan.sub) /\ loan.sub \in Subs /\ account = loan.sub
  BY <1>3, LinkedSub DEF Rest, Mandate
<1>6. /\ UNCHANGED <<loan, master, doc, account>>
      /\ sub' = [sub EXCEPT ![loan.sub] = "ACTIVE"]
  BY <1>1, <1>3, <1>5 DEF WriteSub
<1>7. /\ sub'[loan.sub] = "ACTIVE"
      /\ \A s \in Subs : s # loan.sub => sub'[s] = sub[s]
  BY <1>5, <1>6 DEF IInv, RowTypes
<1>8. c.eMandate = 1
  BY <1>3 DEF IInv, RowTypes, MasterRows
<1>9. Mandated'
  BY <1>3, <1>6, <1>7 DEF Mandated
<1>10. Mandate(c)'
  BY <1>3, <1>5, <1>6, <1>7, <1>8, <1>9 DEF Rest, Mandate, HasSub
<1>11. Due'
  BY <1>6, <1>9 DEF Due, Signed, Underwritten
<1>12. CASE t.todo = <<"subActive", "master">> /\ c = [master EXCEPT !.eMandate = 1]
  <2>1. u.todo = <<"master">>
    BY <1>4, <1>12
  <2>2. /\ c.loan = master.loan /\ c.eSign = master.eSign
        /\ c.disbursement = master.disbursement
    BY <1>12 DEF IInv, RowTypes, MasterRows
  <2>3. Decision(c)'
    BY <1>3, <1>6, <2>2 DEF Rest, Decision
  <2>4. Agreement(c)'
    BY <1>3, <1>6, <1>9, <2>2 DEF Rest, Agreement, Signature, Signed, HasDoc, Underwritten
  <2>5. Position(u)'
    BY <1>4, <1>10, <2>1, <2>3, <2>4 DEF Position, Written, Rest
  <2> QED BY <1>4, <1>11, <2>5, Lands
<1>13. CASE t.todo = <<"subActive", "webhookRead", "master">> /\ sub[loan.sub] = "INITIALIZED"
  <2>1. u.todo = <<"webhookRead", "master">>
    BY <1>4, <1>13
  <2>2. loan.doc = None
    BY <1>3, <1>13, RestFacts DEF Mandated
  <2>3. PICK m : m = master
    OBVIOUS
  <2>4. Decision(m) /\ NoAgreement(m)
    BY <1>3, <2>2, <2>3, NoDoc DEF Rest, Decision, NoAgreement
  <2>5. Decision(m)' /\ NoAgreement(m)'
    BY <1>6, <2>4 DEF Decision, NoAgreement, HasDoc
  <2>6. Decision(master)' /\ NoAgreement(master)'
    BY <1>6, <2>3, <2>5, RestOfMaster
  <2>7. Reported(u, c)'
    BY <1>6, <1>10, <2>1, <2>2, <2>6 DEF Reported
  <2>8. Position(u)'
    BY <1>4, <2>7 DEF Position
  <2> QED BY <1>4, <1>11, <2>8, Lands
<1> QED BY <1>3, <1>12, <1>13

LEMMA SubFailedStraight ==
  ASSUME IInv, NEW w, Workers = {w}, Due, Position(task[w]),
         WriteSub(w, "subFailed", "FAILED")
  PROVE  Straight'
<1>1. PICK t : t = task[w]
  OBVIOUS
<1>2. PICK c : c = t.copy
  OBVIOUS
<1>3. /\ Rest(master) /\ t.sub = loan.sub /\ loan.sub # None
      /\ \/ /\ t.todo = <<"subFailed", "master">> /\ loan.doc = None
            /\ c = [master EXCEPT !.eMandate = 2]
         \/ /\ t.todo = <<"subFailed", "webhookRead", "master">> /\ c.eMandate = 2
            /\ sub[loan.sub] = "INITIALIZED"
  BY <1>1, <1>2 DEF WriteSub, At, Position, Unwritten, Between, Written, Resting, Reported,
     Rejection, Deletion, Unlinking, Rejecting, Deleting
<1>4. PICK u \in Tasks : u.todo = Tail(t.todo) /\ u.copy = c /\ Do(w, u)
  BY <1>1, <1>2, Goes DEF WriteSub
<1>5. HasSub(loan.sub) /\ loan.sub \in Subs /\ account = loan.sub
  BY <1>3, LinkedSub DEF Rest, Mandate
<1>6. /\ UNCHANGED <<loan, master, doc, account>>
      /\ sub' = [sub EXCEPT ![loan.sub] = "FAILED"]
  BY <1>1, <1>3, <1>5 DEF WriteSub
<1>7. /\ sub'[loan.sub] = "FAILED"
      /\ \A s \in Subs : s # loan.sub => sub'[s] = sub[s]
  BY <1>5, <1>6 DEF IInv, RowTypes
<1>8. c.eMandate = 2
  BY <1>3 DEF IInv, RowTypes, MasterRows
<1>9. loan.doc = None
  BY <1>3, RestFacts DEF Mandated
<1>10. Mandate(c)'
  BY <1>3, <1>5, <1>6, <1>7, <1>8 DEF Rest, Mandate, Mandated, HasSub
<1>11. Due'
  BY <1>6, <1>9, NothingDue
<1>12. CASE t.todo = <<"subFailed", "master">> /\ c = [master EXCEPT !.eMandate = 2]
  <2>1. u.todo = <<"master">>
    BY <1>4, <1>12
  <2>2. /\ c.loan = master.loan /\ c.eSign = master.eSign
        /\ c.disbursement = master.disbursement
    BY <1>12 DEF IInv, RowTypes, MasterRows
  <2>3. Decision(c)'
    BY <1>3, <1>6, <2>2 DEF Rest, Decision
  <2>4. Agreement(c)'
    BY <1>3, <1>6, <1>9, <2>2, NoDoc DEF Agreement, NoAgreement, Signature, HasDoc
  <2>5. Position(u)'
    BY <1>4, <1>10, <2>1, <2>3, <2>4 DEF Position, Written, Rest
  <2> QED BY <1>4, <1>11, <2>5, Lands
<1>13. CASE t.todo = <<"subFailed", "webhookRead", "master">> /\ sub[loan.sub] = "INITIALIZED"
  <2>1. u.todo = <<"webhookRead", "master">>
    BY <1>4, <1>13
  <2>2. loan.doc = None
    BY <1>3, <1>13, RestFacts DEF Mandated
  <2>3. PICK m : m = master
    OBVIOUS
  <2>4. Decision(m) /\ NoAgreement(m)
    BY <1>3, <2>2, <2>3, NoDoc DEF Rest, Decision, NoAgreement
  <2>5. Decision(m)' /\ NoAgreement(m)'
    BY <1>6, <2>4 DEF Decision, NoAgreement, HasDoc
  <2>6. Decision(master)' /\ NoAgreement(master)'
    BY <1>6, <2>3, <2>5, RestOfMaster
  <2>7. Reported(u, c)'
    BY <1>6, <1>10, <2>1, <2>2, <2>6 DEF Reported
  <2>8. Position(u)'
    BY <1>4, <2>7 DEF Position
  <2> QED BY <1>4, <1>11, <2>8, Lands
<1> QED BY <1>3, <1>12, <1>13

LEMMA WebhookReadStraight ==
  ASSUME IInv, NEW w, Workers = {w}, Due, Position(task[w]), WebhookRead(w)
  PROVE  Straight'
<1>1. PICK t : t = task[w]
  OBVIOUS
<1>2. PICK c : c = t.copy
  OBVIOUS
<1>3. t.todo # <<>> /\ Head(t.todo) = "webhookRead"
  BY <1>1 DEF WebhookRead, At
<1>4. ~Unwritten(t, c)
  BY <1>3 DEF Unwritten, Rejection, Deletion
<1>5. ~Between(t, c)
  BY <1>3 DEF Between, Unlinking
<1>6. ~Written(t, c) /\ ~Resting(t)
  BY <1>3 DEF Written, Resting, Rejecting, Deleting
<1>7. /\ t.todo = <<"webhookRead", "master">> /\ loan.doc = None
      /\ Decision(master) /\ NoAgreement(master) /\ Mandate(c)
  BY <1>1, <1>2, <1>4, <1>5, <1>6 DEF Position, Reported
<1>8. PICK m : m = [master EXCEPT !.eMandate = c.eMandate]
  OBVIOUS
<1>9. PICK r : r = <<>> \o Tail(t.todo)
  OBVIOUS
<1>10. r = <<"master">>
  BY <1>7, <1>9
<1>11. PICK u : u = [t EXCEPT !.copy = m, !.todo = r]
  OBVIOUS
<1>12. u.todo = r /\ u.copy = m
  BY <1>1, <1>11 DEF IInv, TasksOK, Tasks
<1>13. Do(w, u) /\ UNCHANGED <<db, world, aborts>>
  BY <1>1, <1>2, <1>8, <1>9, <1>11 DEF WebhookRead, Read
<1>14. /\ m.eMandate = c.eMandate /\ m.loan = master.loan
       /\ m.eSign = master.eSign /\ m.disbursement = master.disbursement
  BY <1>8 DEF IInv, RowTypes, MasterRows
<1>15. Rest(m)
  <2>1. Decision(m)
    BY <1>7, <1>14 DEF Decision
  <2>2. Mandate(m)
    BY <1>7, <1>14 DEF Mandate
  <2>3. Agreement(m)
    BY <1>7, <1>14 DEF Agreement, NoAgreement, Signature, HasDoc
  <2> QED BY <2>1, <2>2, <2>3 DEF Rest
<1>16. Position(u)
  BY <1>10, <1>12, <1>15 DEF Position, Written
<1> QED BY <1>13, <1>16, Reads

LEMMA UnlinkSubStraight ==
  ASSUME IInv, NEW w, Workers = {w}, Due, Position(task[w]), UnlinkSub(w)
  PROVE  Straight'
<1>1. PICK t : t = task[w]
  OBVIOUS
<1>2. PICK c : c = t.copy
  OBVIOUS
<1>3. /\ Rest(master) /\ t.todo = <<"unlinkSub", "master", "dropSub">>
      /\ t.sub = loan.sub /\ loan.sub # None /\ loan.doc = None
      /\ c = [master EXCEPT !.eMandate = -1]
  BY <1>1, <1>2 DEF UnlinkSub, At, Position, Unwritten, Between, Written, Resting, Reported,
     Rejection, Deletion, Unlinking, Rejecting, Deleting
<1>4. loan' = [loan EXCEPT !.sub = None] /\ Go(w)
  BY <1>1, <1>3 DEF UnlinkSub
<1>5. PICK u \in Tasks :
        u.todo = Tail(t.todo) /\ u.copy = c /\ u.sub = t.sub /\ Do(w, u)
  BY <1>1, <1>2, <1>4, Goes DEF UnlinkSub
<1>6. u.todo = <<"master", "dropSub">>
  BY <1>3, <1>5
<1>7. /\ UNCHANGED <<master, doc, sub, account>>
      /\ loan'.status = loan.status /\ loan'.verified = loan.verified
      /\ loan'.doc = loan.doc /\ loan'.payout = loan.payout /\ loan'.sub = None
  BY <1>4 DEF UnlinkSub, UnchangedButLoan, IInv, RowTypes, LoanRows
<1>8. /\ c.eMandate = -1 /\ c.loan = master.loan /\ c.eSign = master.eSign
      /\ c.disbursement = master.disbursement
  BY <1>3 DEF IInv, RowTypes, MasterRows
<1>9. Decision(c)' /\ NoAgreement(c)'
  BY <1>3, <1>7, <1>8, NoDoc DEF Rest, Decision, NoAgreement, HasDoc
<1>10. account = t.sub /\ \A s \in Subs : sub[s] = "INITIALIZED" => s = t.sub
  BY <1>3 DEF Rest, Mandate
<1>11. Position(u)'
  BY <1>3, <1>5, <1>6, <1>7, <1>8, <1>9, <1>10 DEF Position, Between
<1>12. Due'
  BY <1>3, <1>7, NothingDue
<1> QED BY <1>5, <1>11, <1>12, Lands

LEMMA DropSubStraight ==
  ASSUME IInv, NEW w, Workers = {w}, Due, Position(task[w]), DropSub(w)
  PROVE  Straight'
<1>1. PICK t : t = task[w]
  OBVIOUS
<1>2. /\ t.todo = <<"dropSub">> /\ t.sub # None /\ account = t.sub
      /\ Decision(master) /\ NoAgreement(master)
      /\ master.eMandate = -1 /\ loan.sub = None /\ loan.doc = None
      /\ \A s \in Subs : sub[s] = "INITIALIZED" => s = t.sub
  BY <1>1 DEF DropSub, At, Position, Unwritten, Between, Written, Resting, Reported,
     Rejection, Deletion, Unlinking, Rejecting, Deleting
<1>3. PICK u \in Tasks : u.todo = Tail(t.todo) /\ Do(w, u)
  BY <1>1, Goes DEF DropSub
<1>4. u.todo = <<>>
  BY <1>2, <1>3
<1>5. UNCHANGED <<loan, master, doc>> /\ account' = None
  BY <1>1, <1>2 DEF DropSub
<1>6. \A s \in Subs : sub'[s] # "INITIALIZED"
  BY <1>1, <1>2 DEF DropSub, IInv, RowTypes
<1>7. PICK m : m = master
  OBVIOUS
<1>8. Decision(m) /\ NoAgreement(m) /\ m.eMandate = -1
  BY <1>2, <1>7 DEF Decision, NoAgreement
<1>9. Rest(m)'
  <2>1. Decision(m)'
    BY <1>5, <1>8 DEF Decision
  <2>2. Mandate(m)'
    BY <1>2, <1>5, <1>8, <1>6 DEF Mandate, Mandated
  <2>3. Agreement(m)'
    BY <1>2, <1>5, <1>8 DEF Agreement, NoAgreement, Signature, HasDoc
  <2> QED BY <2>1, <2>2, <2>3 DEF Rest
<1>10. Rest(master)'
  BY <1>5, <1>7, <1>9, RestOfMaster
<1>11. Position(u)'
  BY <1>4, <1>10 DEF Position, Resting
<1>12. Due'
  BY <1>2, <1>5, NothingDue
<1> QED BY <1>3, <1>11, <1>12, Lands

-----------------------------------------------------------------------------
(* The agreement. *)

LEMMA CreateDocStraight ==
  ASSUME IInv, NEW w, Workers = {w}, Due, Position(task[w]), CreateDoc(w)
  PROVE  Straight'
<1>1. PICK t : t = task[w]
  OBVIOUS
<1>2. PICK c : c = t.copy
  OBVIOUS
<1>3. /\ Rest(master) /\ t.todo = <<"createDoc", "linkDoc", "master">>
      /\ loan.doc = None /\ Underwritten
      /\ \/ t.force /\ c = [master EXCEPT !.eSign = 0, !.loan = 1]
         \/ ~t.force /\ loan.status = "Accepted" /\ c = [master EXCEPT !.eSign = 0]
  <2>1. t.todo # <<>> /\ Head(t.todo) = "createDoc"
    BY <1>1 DEF CreateDoc, At
  <2>2. ~Between(t, c)
    BY <2>1 DEF Between, Unlinking
  <2>3. ~Written(t, c)
    BY <2>1 DEF Written
  <2>4. ~Resting(t) /\ ~Reported(t, c)
    BY <2>1 DEF Resting, Reported, Rejecting, Deleting
  <2>5. Unwritten(t, c)
    BY <1>1, <1>2, <2>2, <2>3, <2>4 DEF Position
  <2> QED BY <2>1, <2>5 DEF Unwritten, Rejection, Deletion
<1>4. UNCHANGED <<loan, master, sub, account>>
  BY DEF CreateDoc
<1>5. PICK d \in FreeDocs :
        /\ doc' = [doc EXCEPT ![d] = "invited"]
        /\ Do(w, [task[w] EXCEPT !.doc = d, !.todo = Tail(@)])
  BY DEF CreateDoc
<1>6. /\ d \in Docs /\ d # None /\ doc'[d] = "invited"
      /\ \A e \in Docs : e # d => doc'[e] = doc[e]
  BY <1>5 DEF FreeDocs, IInv, RowTypes
<1>7. PICK u : u = [t EXCEPT !.doc = d, !.todo = Tail(t.todo)]
  OBVIOUS
<1>8. u.todo = Tail(t.todo) /\ u.copy = c /\ u.doc = d /\ u.force = t.force
  BY <1>1, <1>2, <1>7 DEF IInv, TasksOK, Tasks
<1>9. u.todo = <<"linkDoc", "master">>
  BY <1>3, <1>8
<1>10. Do(w, u)
  BY <1>1, <1>5, <1>7
<1>11. NoAgreement(master)
  BY <1>3, NoDoc
<1>12. /\ c.eSign = 0 /\ c.disbursement = -1 /\ c.eMandate = master.eMandate
       /\ c.loan = IF t.force THEN 1 ELSE master.loan
  BY <1>3, <1>11 DEF IInv, RowTypes, MasterRows, NoAgreement
<1>13. Decision(c)'
  BY <1>3, <1>4, <1>12 DEF Rest, Decision, Underwritten
<1>14. Mandate(c)'
  BY <1>3, <1>4, <1>12 DEF Rest, Mandate, Mandated, HasSub
<1>15. \A e \in Docs : HasDoc(e)' => e = d
  BY <1>6, <1>11 DEF NoAgreement, HasDoc
<1>16. loan.status # "Active" /\ Underwritten'
  BY <1>3, <1>4, <1>11 DEF NoAgreement, Underwritten, Mandated
<1>17. Between(u, c)'
  BY <1>3, <1>4, <1>6, <1>8, <1>9, <1>12, <1>13, <1>14, <1>15, <1>16 DEF Between
<1>18. Position(u)'
  BY <1>8, <1>17 DEF Position
<1>19. Due'
  BY <1>3, <1>4, NothingDue
<1> QED BY <1>10, <1>18, <1>19, Lands

LEMMA AtLinkDoc ==
  ASSUME NEW t, NEW c, c = t.copy, Position(t), t.todo # <<>>, Head(t.todo) = "linkDoc"
  PROVE  /\ t.todo = <<"linkDoc", "master">> /\ loan.doc = None /\ Underwritten
         /\ t.doc # None /\ doc[t.doc] = "invited"
         /\ \A d \in Docs : HasDoc(d) => d = t.doc
         /\ t.force \/ loan.status = "Accepted"
         /\ loan.status # "Active"
         /\ Decision(c) /\ Mandate(c) /\ c.eSign = 0 /\ c.disbursement = -1
<1>2. ~Unwritten(t, c)
  BY DEF Unwritten, Rejection, Deletion
<1>3. ~Written(t, c)
  BY DEF Written
<1>4. ~Resting(t) /\ ~Reported(t, c)
  BY DEF Resting, Reported, Rejecting, Deleting
<1>5. Between(t, c)
  BY <1>2, <1>3, <1>4 DEF Position
<1> QED BY <1>5 DEF Between, Unlinking

LEMMA LinkDocStraight ==
  ASSUME IInv, NEW w, Workers = {w}, Due, Position(task[w]), LinkDoc(w)
  PROVE  Straight'
<1>1. PICK t : t = task[w]
  OBVIOUS
<1>2. PICK c : c = t.copy
  OBVIOUS
<1>3. /\ t.todo = <<"linkDoc", "master">> /\ loan.doc = None /\ Underwritten
      /\ t.doc # None /\ doc[t.doc] = "invited"
      /\ \A d \in Docs : HasDoc(d) => d = t.doc
      /\ t.force \/ loan.status = "Accepted"
      /\ loan.status # "Active"
      /\ Decision(c) /\ Mandate(c) /\ c.eSign = 0 /\ c.disbursement = -1
  BY <1>1, <1>2, AtLinkDoc DEF LinkDoc, LoanStep, At
<1>4. PICK u \in Tasks : u.todo = Tail(t.todo) /\ u.copy = c /\ Do(w, u)
  BY <1>1, <1>2, Goes DEF LinkDoc, LoanStep
<1>5. u.todo = <<"master">>
  BY <1>3, <1>4
<1>6. /\ UNCHANGED <<master, doc, sub, account>>
      /\ loan'.status = (IF t.force THEN "Accepted" ELSE loan.status)
      /\ loan'.verified = loan.verified
      /\ loan'.doc = t.doc /\ loan'.payout = loan.payout /\ loan'.sub = loan.sub
  BY <1>1 DEF LinkDoc, UnchangedButLoan, IInv, RowTypes, LoanRows
<1>7. Rest(c)'
  <2>1. Decision(c)'
    BY <1>3, <1>6 DEF Decision, Underwritten
  <2>2. Mandate(c)'
    BY <1>3, <1>6 DEF Mandate, Mandated, HasSub
  <2>3. Agreement(c)'
    BY <1>3, <1>6 DEF Agreement, Signature, Signed, HasDoc, Underwritten, Mandated
  <2> QED BY <2>1, <2>2, <2>3 DEF Rest
<1>8. Position(u)'
  BY <1>4, <1>5, <1>7 DEF Position, Written
<1>9. Due'
  BY <1>3, <1>6, NothingDue
<1> QED BY <1>4, <1>8, <1>9, Lands

LEMMA AtDocStatus ==
  ASSUME NEW t, NEW c, c = t.copy, Position(t), t.todo # <<>>, Head(t.todo) = "docStatus"
  PROVE  /\ Rest(master) /\ t.todo = <<"docStatus", "master">>
         /\ t.doc = loan.doc /\ loan.doc # None /\ ~Signed
         /\ \/ c = [master EXCEPT !.eSign = 1, !.disbursement = 0]
            \/ c = [master EXCEPT !.eSign = 0]
  BY DEF Position, Unwritten, Between, Written, Resting,
     Reported, Rejection, Deletion, Unlinking,
     Rejecting, Deleting

LEMMA DocStatusStraight ==
  ASSUME IInv, NEW w, Workers = {w}, Due, Position(task[w]), DocStatus(w)
  PROVE  Straight'
<1>1. PICK t : t = task[w]
  OBVIOUS
<1>2. PICK c : c = t.copy
  OBVIOUS
<1>3. /\ Rest(master) /\ t.todo = <<"docStatus", "master">>
      /\ t.doc = loan.doc /\ loan.doc # None /\ ~Signed
      /\ \/ c = [master EXCEPT !.eSign = 1, !.disbursement = 0]
         \/ c = [master EXCEPT !.eSign = 0]
  BY <1>1, <1>2, AtDocStatus DEF DocStatus, At
<1>4. PICK u \in Tasks : u.todo = Tail(t.todo) /\ u.copy = c /\ Do(w, u)
  BY <1>1, <1>2, Goes DEF DocStatus
<1>5. u.todo = <<"master">>
  BY <1>3, <1>4
<1>6. /\ HasDoc(loan.doc) /\ loan.doc \in Docs /\ Underwritten
      /\ loan.status = "Accepted" /\ master.disbursement = -1
  <2>1. loan.doc \in Docs
    BY <1>3 DEF IInv, RowTypes, LoanRows
  <2> QED BY <1>3, <2>1, RestFacts DEF Rest, Agreement
<1>7. /\ UNCHANGED <<loan, master, sub, account>>
      /\ doc' = [doc EXCEPT ![loan.doc] = IF c.eSign = 1 THEN "signed" ELSE "invited"]
  BY <1>1, <1>2, <1>3, <1>6 DEF DocStatus
<1>8. /\ doc'[loan.doc] = IF c.eSign = 1 THEN "signed" ELSE "invited"
      /\ \A e \in Docs : e # loan.doc => doc'[e] = doc[e]
  BY <1>6, <1>7 DEF IInv, RowTypes
<1>9. /\ c.loan = master.loan /\ c.eMandate = master.eMandate
      /\ \/ c.eSign = 1 /\ c.disbursement = 0
         \/ c.eSign = 0 /\ c.disbursement = -1
  BY <1>3, <1>6 DEF IInv, RowTypes, MasterRows
<1>10. Rest(c)'
  <2>1. Decision(c)'
    BY <1>3, <1>7, <1>9 DEF Rest, Decision
  <2>2. Mandate(c)'
    BY <1>3, <1>7, <1>9 DEF Rest, Mandate, Mandated, HasSub
  <2>3. \A d \in Docs : HasDoc(d)' => d = loan.doc
    BY <1>3, <1>8 DEF Rest, Agreement, HasDoc
  <2>4. Agreement(c)'
    BY <1>3, <1>6, <1>7, <1>8, <1>9, <2>3 DEF Agreement, Signature, Signed, HasDoc,
       Underwritten, Mandated
  <2> QED BY <2>1, <2>2, <2>4 DEF Rest
<1>11. Position(u)'
  BY <1>4, <1>5, <1>10 DEF Position, Written
<1>12. Due'
  BY <1>6, <1>7, NothingDue
<1> QED BY <1>4, <1>11, <1>12, Lands

LEMMA DeleteReadStraight ==
  ASSUME IInv, NEW w, Workers = {w}, Due, Position(task[w]), DeleteRead(w)
  PROVE  Straight'
<1>1. PICK t : t = task[w]
  OBVIOUS
<1>2. /\ Rest(master) /\ t.todo \in Deleting
      /\ t.doc = loan.doc /\ loan.doc # None /\ ~Signed
  BY <1>1 DEF DeleteRead, At, Position, Unwritten, Between, Written, Resting, Reported,
     Rejection, Deletion, Unlinking, Rejecting, Deleting
<1>3. UNCHANGED <<db, world, aborts>>
  BY DEF DeleteRead
<1>4. CASE Stop(w)
  <2>1. PICK u : u = NoTask
    OBVIOUS
  <2>2. Position(u)
    BY <1>2, <2>1 DEF NoTask, Position, Resting
  <2>3. Do(w, u)
    BY <1>4, <2>1 DEF Stop
  <2> QED BY <1>3, <2>2, <2>3, Reads
<1>5. CASE ~Stop(w)
  <2>1. PICK c : c = [master EXCEPT !.eSign = -1]
    OBVIOUS
  <2>2. PICK u : u = [t EXCEPT !.copy = c, !.todo = Tail(t.todo)]
    OBVIOUS
  <2>3. u.todo = Tail(t.todo) /\ u.copy = c /\ u.doc = t.doc
    BY <1>1, <2>2 DEF IInv, TasksOK, Tasks
  <2>4. u.todo \in Deletion
    <3>1. CASE t.todo = <<"deleteRead", "deleteRow", "unlinkDoc", "master", "inviteRead">>
      <4>1. u.todo = <<"deleteRow", "unlinkDoc", "master", "inviteRead">>
        BY <2>3, <3>1
      <4> QED BY <4>1 DEF Deletion
    <3>2. CASE t.todo = <<"deleteRead", "deleteRow", "unlinkDoc", "master", "rejectRead",
                          "stepsRead", "master">>
      <4>1. u.todo = <<"deleteRow", "unlinkDoc", "master", "rejectRead", "stepsRead", "master">>
        BY <2>3, <3>2
      <4> QED BY <4>1 DEF Deletion
    <3>3. CASE t.todo = <<"deleteRead", "deleteRow", "unlinkDoc", "master">>
      <4>1. u.todo = <<"deleteRow", "unlinkDoc", "master">>
        BY <2>3, <3>3
      <4> QED BY <4>1 DEF Deletion
    <3> QED BY <1>2, <3>1, <3>2, <3>3 DEF Deleting
  <2>5. Do(w, u)
    BY <1>1, <1>2, <1>5, <2>1, <2>2 DEF DeleteRead
  <2>6. Unwritten(u, c)
    BY <1>2, <2>1, <2>3, <2>4 DEF Unwritten
  <2> QED BY <1>3, <2>3, <2>5, <2>6, Reads DEF Position
<1> QED BY <1>4, <1>5

LEMMA DeleteRowStraight ==
  ASSUME IInv, NEW w, Workers = {w}, Due, Position(task[w]), DeleteRow(w)
  PROVE  Straight'
<1>1. PICK t : t = task[w]
  OBVIOUS
<1>2. PICK c : c = t.copy
  OBVIOUS
<1>3. /\ Rest(master) /\ t.todo \in Deletion
      /\ t.doc = loan.doc /\ loan.doc # None /\ ~Signed
      /\ c = [master EXCEPT !.eSign = -1]
  BY <1>1, <1>2 DEF DeleteRow, At, Position, Unwritten, Between, Written, Resting, Reported,
     Rejection, Deletion, Unlinking, Rejecting, Deleting
<1>4. /\ HasDoc(loan.doc) /\ loan.doc \in Docs /\ doc[loan.doc] = "invited"
      /\ loan.status # "Active" /\ master.disbursement = -1
  <2>1. loan.doc \in Docs
    BY <1>3 DEF IInv, RowTypes, LoanRows
  <2> QED BY <1>3, <2>1, RestFacts DEF Rest, Agreement, HasDoc, Signed
<1>5. /\ UNCHANGED <<loan, master, sub, account>> /\ Go(w)
      /\ doc' = [doc EXCEPT ![loan.doc] = "deleted"]
  BY <1>1, <1>3, <1>4 DEF DeleteRow
<1>6. PICK u \in Tasks : u.todo = Tail(t.todo) /\ u.copy = c /\ Do(w, u)
  BY <1>1, <1>2, <1>5, Goes DEF DeleteRow
<1>7. u.todo \in Unlinking
  <2>1. CASE t.todo = <<"deleteRow", "unlinkDoc", "master", "inviteRead">>
    <3>1. u.todo = <<"unlinkDoc", "master", "inviteRead">>
      BY <1>6, <2>1
    <3> QED BY <3>1 DEF Unlinking
  <2>2. CASE t.todo = <<"deleteRow", "unlinkDoc", "master", "rejectRead", "stepsRead", "master">>
    <3>1. u.todo = <<"unlinkDoc", "master", "rejectRead", "stepsRead", "master">>
      BY <1>6, <2>2
    <3> QED BY <3>1 DEF Unlinking
  <2>3. CASE t.todo = <<"deleteRow", "unlinkDoc", "master">>
    <3>1. u.todo = <<"unlinkDoc", "master">>
      BY <1>6, <2>3
    <3> QED BY <3>1 DEF Unlinking
  <2> QED BY <1>3, <2>1, <2>2, <2>3 DEF Deletion
<1>8. /\ c.eSign = -1 /\ c.disbursement = -1
      /\ c.loan = master.loan /\ c.eMandate = master.eMandate
  BY <1>3, <1>4 DEF IInv, RowTypes, MasterRows
<1>9. Decision(c)'
  BY <1>3, <1>5, <1>8 DEF Rest, Decision
<1>10. Mandate(c)'
  BY <1>3, <1>5, <1>8 DEF Rest, Mandate, Mandated, HasSub
<1>11. NoAgreement(c)'
  <2>1. /\ doc'[loan.doc] = "deleted"
        /\ \A e \in Docs : e # loan.doc => doc'[e] = doc[e]
    BY <1>4, <1>5 DEF IInv, RowTypes
  <2>2. \A e \in Docs : ~HasDoc(e)'
    BY <1>3, <2>1 DEF Rest, Agreement, HasDoc
  <2> QED BY <1>4, <1>5, <1>8, <2>2 DEF NoAgreement
<1>12. Position(u)'
  BY <1>6, <1>7, <1>9, <1>10, <1>11 DEF Position, Between
<1>13. Due'
  BY <1>4, <1>5, NothingDue
<1> QED BY <1>6, <1>12, <1>13, Lands

LEMMA AtUnlinkDoc ==
  ASSUME NEW t, NEW c, c = t.copy, Position(t), t.todo # <<>>, Head(t.todo) = "unlinkDoc"
  PROVE  t.todo \in Unlinking /\ Decision(c) /\ Mandate(c) /\ NoAgreement(c)
<1>2. ~Unwritten(t, c)
  BY DEF Unwritten, Rejection, Deletion
<1>3. ~Written(t, c)
  BY DEF Written
<1>4. ~Resting(t) /\ ~Reported(t, c)
  BY DEF Resting, Reported, Rejecting, Deleting
<1>5. Between(t, c)
  BY <1>2, <1>3, <1>4 DEF Position
<1> QED BY <1>5 DEF Between, Unlinking

LEMMA UnlinkDocStraight ==
  ASSUME IInv, NEW w, Workers = {w}, Due, Position(task[w]), UnlinkDoc(w)
  PROVE  Straight'
<1>1. PICK t : t = task[w]
  OBVIOUS
<1>2. PICK c : c = t.copy
  OBVIOUS
<1>3. t.todo \in Unlinking /\ Decision(c) /\ Mandate(c) /\ NoAgreement(c)
  BY <1>1, <1>2, AtUnlinkDoc DEF UnlinkDoc, LoanStep, At
<1>4. PICK u \in Tasks : u.todo = Tail(t.todo) /\ u.copy = c /\ Do(w, u)
  BY <1>1, <1>2, Goes DEF UnlinkDoc, LoanStep
<1>5. u.todo \in {<<"master">>, <<"master", "inviteRead">>,
                  <<"master", "rejectRead", "stepsRead", "master">>}
  <2>1. CASE t.todo = <<"unlinkDoc", "master", "inviteRead">>
    <3>1. u.todo = <<"master", "inviteRead">>
      BY <1>4, <2>1
    <3> QED BY <3>1
  <2>2. CASE t.todo = <<"unlinkDoc", "master", "rejectRead", "stepsRead", "master">>
    <3>1. u.todo = <<"master", "rejectRead", "stepsRead", "master">>
      BY <1>4, <2>2
    <3> QED BY <3>1
  <2>3. CASE t.todo = <<"unlinkDoc", "master">>
    <3>1. u.todo = <<"master">>
      BY <1>4, <2>3
    <3> QED BY <3>1
  <2> QED BY <1>3, <2>1, <2>2, <2>3 DEF Unlinking
<1>6. /\ UNCHANGED <<master, doc, sub, account>>
      /\ loan'.status = loan.status /\ loan'.verified = loan.verified
      /\ loan'.doc = None /\ loan'.payout = loan.payout /\ loan'.sub = loan.sub
  BY DEF UnlinkDoc, UnchangedButLoan, IInv, RowTypes, LoanRows
<1>7. Rest(c)'
  <2>1. Decision(c)'
    BY <1>3, <1>6 DEF Decision
  <2>2. Mandate(c)'
    BY <1>3, <1>6 DEF Mandate, Mandated, HasSub
  <2>3. Agreement(c)'
    BY <1>3, <1>6 DEF Agreement, NoAgreement, Signature, HasDoc
  <2> QED BY <2>1, <2>2, <2>3 DEF Rest
<1>8. Position(u)'
  BY <1>4, <1>5, <1>6, <1>7 DEF Position, Written
<1>9. \A d \in Docs : ~HasDoc(d)
  BY <1>3 DEF NoAgreement
<1>10. Due'
  BY <1>6, <1>9, NothingDue
<1> QED BY <1>4, <1>8, <1>10, Lands

LEMMA AtDropDoc ==
  ASSUME NEW t, NEW c, c = t.copy, Position(t), t.todo # <<>>, Head(t.todo) = "dropDoc"
  PROVE  /\ Rest(master) /\ t.todo = <<"dropDoc", "resetLoan", "master", "reinitiate">>
         /\ t.doc = loan.doc /\ Signed /\ loan.status = "Accepted" /\ loan.payout = "failed"
         /\ c = [master EXCEPT !.eSign = -1, !.disbursement = -1]
  BY DEF Position, Unwritten, Between, Written, Resting,
     Reported, Rejection, Deletion, Unlinking,
     Rejecting, Deleting

LEMMA DropDocStraight ==
  ASSUME IInv, NEW w, Workers = {w}, Due, Position(task[w]), DropDoc(w)
  PROVE  Straight'
<1>1. PICK t : t = task[w]
  OBVIOUS
<1>2. PICK c : c = t.copy
  OBVIOUS
<1>3. /\ Rest(master) /\ t.todo = <<"dropDoc", "resetLoan", "master", "reinitiate">>
      /\ t.doc = loan.doc /\ Signed /\ loan.status = "Accepted" /\ loan.payout = "failed"
      /\ c = [master EXCEPT !.eSign = -1, !.disbursement = -1]
  BY <1>1, <1>2, AtDropDoc DEF DropDoc, At
<1>4. PICK u \in Tasks : u.todo = Tail(t.todo) /\ u.copy = c /\ Do(w, u)
  BY <1>1, <1>2, Goes DEF DropDoc
<1>5. u.todo = <<"resetLoan", "master", "reinitiate">>
  BY <1>3, <1>4
<1>6. loan.doc \in Docs
  BY <1>3 DEF Signed, IInv, RowTypes, LoanRows
<1>7. /\ UNCHANGED <<loan, master, sub, account>>
      /\ doc' = [doc EXCEPT ![loan.doc] = "deleted"]
  BY <1>1, <1>3 DEF DropDoc
<1>8. /\ c.eSign = -1 /\ c.disbursement = -1
      /\ c.loan = master.loan /\ c.eMandate = master.eMandate
  BY <1>3 DEF IInv, RowTypes, MasterRows
<1>9. Decision(c)'
  BY <1>3, <1>7, <1>8 DEF Rest, Decision
<1>10. Mandate(c)'
  BY <1>3, <1>7, <1>8 DEF Rest, Mandate, Mandated, HasSub
<1>11. NoAgreement(c)'
  <2>1. /\ doc'[loan.doc] = "deleted"
        /\ \A e \in Docs : e # loan.doc => doc'[e] = doc[e]
    BY <1>6, <1>7 DEF IInv, RowTypes
  <2>2. \A e \in Docs : ~HasDoc(e)'
    BY <1>3, <2>1 DEF Rest, Agreement, HasDoc
  <2> QED BY <1>3, <1>7, <1>8, <2>2 DEF NoAgreement
<1>12. Position(u)'
  BY <1>3, <1>4, <1>5, <1>7, <1>9, <1>10, <1>11 DEF Position, Between
<1>13. Due'
  BY <1>3, <1>7, NothingDue
<1> QED BY <1>4, <1>12, <1>13, Lands

LEMMA AtResetLoan ==
  ASSUME NEW t, NEW c, c = t.copy, Position(t), t.todo # <<>>, Head(t.todo) = "resetLoan"
  PROVE  /\ t.todo = <<"resetLoan", "master", "reinitiate">> /\ loan.payout = "failed"
         /\ Decision(c) /\ Mandate(c) /\ NoAgreement(c)
<1>2. ~Unwritten(t, c)
  BY DEF Unwritten, Rejection, Deletion
<1>3. ~Written(t, c)
  BY DEF Written
<1>4. ~Resting(t) /\ ~Reported(t, c)
  BY DEF Resting, Reported, Rejecting, Deleting
<1>5. Between(t, c)
  BY <1>2, <1>3, <1>4 DEF Position
<1> QED BY <1>5 DEF Between, Unlinking

LEMMA ResetLoanStraight ==
  ASSUME IInv, NEW w, Workers = {w}, Due, Position(task[w]), ResetLoan(w)
  PROVE  Straight'
<1>1. PICK t : t = task[w]
  OBVIOUS
<1>2. PICK c : c = t.copy
  OBVIOUS
<1>3. /\ t.todo = <<"resetLoan", "master", "reinitiate">> /\ loan.payout = "failed"
      /\ Decision(c) /\ Mandate(c) /\ NoAgreement(c)
  BY <1>1, <1>2, AtResetLoan DEF ResetLoan, LoanStep, At
<1>4. PICK u \in Tasks : u.todo = Tail(t.todo) /\ u.copy = c /\ Do(w, u)
  BY <1>1, <1>2, Goes DEF ResetLoan, LoanStep
<1>5. u.todo = <<"master", "reinitiate">>
  BY <1>3, <1>4
<1>6. /\ UNCHANGED <<master, doc, sub, account>>
      /\ loan'.status = loan.status /\ loan'.verified = loan.verified
      /\ loan'.doc = None /\ loan'.payout = loan.payout /\ loan'.sub = loan.sub
  BY DEF ResetLoan, UnchangedButLoan, IInv, RowTypes, LoanRows
<1>7. Rest(c)'
  <2>1. Decision(c)'
    BY <1>3, <1>6 DEF Decision
  <2>2. Mandate(c)'
    BY <1>3, <1>6 DEF Mandate, Mandated, HasSub
  <2>3. Agreement(c)'
    BY <1>3, <1>6 DEF Agreement, NoAgreement, Signature, HasDoc
  <2> QED BY <2>1, <2>2, <2>3 DEF Rest
<1>8. Position(u)'
  BY <1>4, <1>5, <1>7 DEF Position, Written
<1>9. Due'
  BY <1>3, <1>6, NothingDue
<1> QED BY <1>4, <1>8, <1>9, Lands

LEMMA ReInitiateStepStraight ==
  ASSUME IInv, NEW w, Workers = {w}, Due, Position(task[w]), ReInitiateStep(w)
  PROVE  Straight'
<1>1. PICK t : t = task[w]
  OBVIOUS
<1>2. Rest(master) /\ t.todo = <<"reinitiate">>
  BY <1>1 DEF ReInitiateStep, LoanStep, At, Position, Unwritten, Between, Written, Resting,
     Reported, Rejection, Deletion, Unlinking, Rejecting, Deleting
<1>3. PICK u \in Tasks : u.todo = Tail(t.todo) /\ Do(w, u)
  BY <1>1, Goes DEF ReInitiateStep, LoanStep
<1>4. u.todo = <<>>
  BY <1>2, <1>3
<1>5. /\ UNCHANGED <<master, doc, sub, account>>
      /\ loan'.status = loan.status /\ loan'.verified = loan.verified
      /\ loan'.doc = loan.doc /\ loan'.sub = loan.sub
  BY DEF ReInitiateStep, UnchangedButLoan, IInv, RowTypes, LoanRows
<1>6. PICK m : m = master
  OBVIOUS
<1>7. Rest(m)
  BY <1>2, <1>6 DEF Rest, Decision, Mandate, Agreement
<1>8. Rest(m)'
  BY <1>5, <1>7 DEF Rest, Decision, Mandate, Mandated, HasSub, Agreement, Signature, HasDoc,
     Signed, Underwritten
<1>9. Rest(master)'
  BY <1>5, <1>6, <1>8, RestOfMaster
<1>10. Position(u)'
  BY <1>4, <1>9 DEF Position, Resting
<1>11. master.disbursement = 0 => (Signed /\ Underwritten)
  BY <1>2, RestFacts
<1>12. Due'
  BY <1>5, <1>11 DEF Due, Signed, Underwritten, Mandated
<1> QED BY <1>3, <1>10, <1>12, Lands

-----------------------------------------------------------------------------
(* The handler writes the status back, and the world acts.                 *)

LEMMA WriteMasterStraight ==
  ASSUME IInv, NEW w, Workers = {w}, Due, Position(task[w]), WriteMaster(w)
  PROVE  Straight'
<1>1. PICK t : t = task[w]
  OBVIOUS
<1>2. PICK c : c = t.copy
  OBVIOUS
<1>3. /\ t.todo # <<>> /\ Head(t.todo) = "master"
      /\ UNCHANGED <<loan, doc, sub, account>> /\ master' = c
  BY <1>1, <1>2 DEF WriteMaster, At
<1>4. PICK u : u = [t EXCEPT !.copy = NewMaster, !.todo = Tail(t.todo)]
  OBVIOUS
<1>5. u.todo = Tail(t.todo) /\ u.sub = t.sub /\ u.doc = t.doc
  BY <1>1, <1>4 DEF IInv, TasksOK, Tasks
<1>6. Do(w, u)
  BY <1>1, <1>4 DEF WriteMaster
<1>7. /\ ~Unwritten(t, c) /\ ~Resting(t) /\ ~Reported(t, c)
  BY <1>3 DEF Unwritten, Resting, Reported, Rejection, Deletion, Rejecting, Deleting
<1>8. /\ Rest(c)' <=> Rest(c)
      /\ Decision(c)' <=> Decision(c)
      /\ NoAgreement(c)' <=> NoAgreement(c)
  BY <1>3, RestStays
<1>9. /\ Rest(c)' <=> Rest(master)'
      /\ Decision(c)' <=> Decision(master)'
      /\ NoAgreement(c)' <=> NoAgreement(master)'
  BY <1>3, RestOfMaster
<1>10. CASE Between(t, c)
  <2>1. /\ t.todo = <<"master", "dropSub">> /\ t.sub # None /\ account = t.sub
        /\ c.eMandate = -1 /\ loan.sub = None /\ loan.doc = None
        /\ Decision(c) /\ NoAgreement(c)
        /\ \A s \in Subs : sub[s] = "INITIALIZED" => s = t.sub
    BY <1>3, <1>10 DEF Between, Unlinking
  <2>2. u.todo = <<"dropSub">>
    BY <1>5, <2>1
  <2>3. Position(u)'
    BY <1>3, <1>5, <1>8, <1>9, <2>1, <2>2 DEF Position, Resting
  <2>4. Due'
    BY <1>3, <2>1 DEF Due, NoAgreement
  <2> QED BY <1>6, <2>3, <2>4, Lands
<1>11. CASE Written(t, c)
  <2>1. Rest(c) /\ Rest(master)'
    BY <1>8, <1>9, <1>11 DEF Written
  <2>2. Due'
    BY <1>3, <2>1 DEF Due, Rest, Agreement, Signed, Underwritten, Mandated
  <2>3. CASE t.todo \in {<<"master">>, <<"master", "stepsRead", "master">>,
                         <<"master", "inviteRead">>, <<"master", "reinitiate">>}
    <3>1. u.todo \in {<<>>, <<"stepsRead", "master">>, <<"inviteRead">>, <<"reinitiate">>}
      <4>1. CASE t.todo = <<"master">>
        BY <1>5, <4>1
      <4>2. CASE t.todo = <<"master", "stepsRead", "master">>
        BY <1>5, <4>2
      <4>3. CASE t.todo = <<"master", "inviteRead">>
        BY <1>5, <4>3
      <4>4. CASE t.todo = <<"master", "reinitiate">>
        BY <1>5, <4>4
      <4> QED BY <2>3, <4>1, <4>2, <4>3, <4>4
    <3>2. Position(u)'
      BY <2>1, <3>1 DEF Position, Resting
    <3> QED BY <1>6, <2>2, <3>2, Lands
  <2>4. CASE t.todo = <<"master", "rejectRead", "stepsRead", "master">> /\ loan.doc = None
    <3>1. u.todo = <<"rejectRead", "stepsRead", "master">>
      BY <1>5, <2>4
    <3>2. Position(u)'
      BY <1>3, <2>1, <2>4, <3>1 DEF Position, Resting, Rejecting
    <3> QED BY <1>6, <2>2, <3>2, Lands
  <2>5. CASE t.todo = <<"master", "kfs">> /\ loan.status = "InProcess"
    <3>1. u.todo = <<"kfs">>
      BY <1>5, <2>5
    <3>2. Position(u)'
      BY <1>3, <2>1, <2>5, <3>1 DEF Position, Resting
    <3> QED BY <1>6, <2>2, <3>2, Lands
  <2> QED BY <1>11, <2>3, <2>4, <2>5 DEF Written
<1> QED BY <1>1, <1>2, <1>7, <1>10, <1>11 DEF Position

LEMMA StaysStraight ==
  ASSUME IInv, NEW w, Workers = {w}, Due, Position(task[w]),
         UNCHANGED <<loan, master, doc, sub, account, task>>
  PROVE  Straight'
<1>1. PICK t : t = task[w]
  OBVIOUS
<1>2. Position(t)' /\ Due'
  BY <1>1, PositionStays
<1>3. t = task[w]'
  BY <1>1
<1>4. Position(task[w])'
  BY <1>2, <1>3, TaskPosition
<1> QED BY <1>2, <1>4 DEF Straight

(* The payout service pays, or fails, whatever handler is under way.       *)
LEMMA DisburseStraight ==
  ASSUME IInv, NEW w, Workers = {w}, Due, Position(task[w]), Disburse
  PROVE  Straight'
<1>1. PICK t : t = task[w]
  OBVIOUS
<1>2. PICK c : c = t.copy
  OBVIOUS
<1>3. /\ UNCHANGED <<master, doc, sub, account, task>>
      /\ loan.status = "Accepted" /\ loan'.status \in {"Accepted", "Active"}
      /\ loan'.verified = loan.verified /\ loan'.doc = loan.doc /\ loan'.sub = loan.sub
  BY DEF Disburse, UnchangedButLoan, IInv, RowTypes, LoanRows
<1>4. /\ Signed /\ loan.doc # None /\ HasDoc(loan.doc) /\ loan.doc \in Docs
      /\ loan.payout = "none" /\ Underwritten
  BY DEF Disburse, Due, Signed, HasDoc, IInv, RowTypes, LoanRows
<1>5. Due'
  BY <1>3, <1>4 DEF Due, Signed, Underwritten, Mandated
<1>6. ASSUME NEW m, Rest(m)
      PROVE  Rest(m)'
  <2>1. Decision(m)'
    BY <1>3, <1>6 DEF Rest, Decision
  <2>2. Mandate(m)'
    BY <1>3, <1>6 DEF Rest, Mandate, Mandated, HasSub
  <2>3. Agreement(m)'
    BY <1>3, <1>4, <1>6 DEF Rest, Agreement, Signature, Signed, HasDoc, Underwritten, Mandated
  <2> QED BY <2>1, <2>2, <2>3 DEF Rest
<1>7. Rest(master) => Rest(master)'
  <2> SUFFICES ASSUME Rest(master) PROVE Rest(master)'
    OBVIOUS
  <2>1. PICK m : m = master
    OBVIOUS
  <2>2. Rest(m)
    BY <2>1 DEF Rest, Decision, Mandate, Agreement
  <2>3. Rest(m)'
    BY <1>6, <2>2
  <2> QED BY <1>3, <2>1, <2>3, RestOfMaster
<1>8. Position(t)'
  <2>1. CASE Unwritten(t, c)
    <3>1. /\ Rest(master) /\ t.todo = <<"subActive", "master">>
          /\ t.sub = loan.sub /\ loan.sub # None /\ c = [master EXCEPT !.eMandate = 1]
      BY <1>3, <1>4, <2>1 DEF Unwritten, Underwritten, Mandated
    <3>2. Unwritten(t, c)'
      BY <1>3, <1>7, <3>1 DEF Unwritten
    <3> QED BY <1>2, <3>2 DEF Position
  <2>2. CASE Between(t, c)
    BY <1>4, <2>2 DEF Between, NoAgreement
  <2>3. CASE Written(t, c)
    <3>1. /\ Rest(c)
          /\ t.todo \in {<<"master">>, <<"master", "stepsRead", "master">>,
                         <<"master", "inviteRead">>, <<"master", "reinitiate">>}
      BY <1>3, <1>4, <2>3 DEF Written
    <3>2. Rest(c)'
      BY <1>6, <3>1
    <3> QED BY <1>2, <3>1, <3>2 DEF Position, Written
  <2>4. CASE Resting(t)
    <3>1. /\ Rest(master)
          /\ t.todo \in {<<>>, <<"stepsRead", "master">>, <<"inviteRead">>, <<"reinitiate">>}
      BY <1>3, <1>4, <2>4 DEF Resting
    <3> QED BY <1>7, <3>1 DEF Position, Resting
  <2>5. ~Reported(t, c)
    BY <1>4 DEF Reported
  <2> QED BY <1>1, <1>2, <2>1, <2>2, <2>3, <2>4, <2>5 DEF Position
<1>9. t = task[w]'
  BY <1>1, <1>3
<1>10. Position(task[w])'
  BY <1>8, <1>9, TaskPosition
<1> QED BY <1>5, <1>10 DEF Straight

-----------------------------------------------------------------------------
(* The invariant of one handler. *)

LEMMA HandleStraight ==
  ASSUME IInv, ~Cashfree, NEW w, Workers = {w}, Due, Position(task[w]), Handle(w)
  PROVE  Straight'
<1>1. CASE \/ Approve(w) \/ Refer(w) \/ FinalReject(w) \/ AutoDecline(w) \/ AdminReject(w)
           \/ Decline(w) \/ Reopen(w) \/ AcceptKFS(w) \/ GenerateLink(w)
  BY <1>1, ApproveStraight, ReferStraight, FinalRejectStraight, AutoDeclineStraight,
     AdminRejectStraight, DeclineStraight, ReopenStraight, AcceptKFSStraight,
     GenerateLinkStraight
<1>2. CASE \/ CheckMandate(w) \/ DeleteMandate(w) \/ Invite(w) \/ CheckStatus(w)
           \/ ReInitiate(w) \/ ReEsign(w) \/ LoanIsActive(w)
  BY <1>2, CheckMandateStraight, DeleteMandateStraight, InviteStraight, CheckStatusStraight,
     ReInitiateStraight, ReEsignStraight, LoanIsActiveStraight
<1>3. CASE \E d \in Docs : Regenerate(w, d)
  BY <1>3, RegenerateStraight
<1>4. CASE ADPaymentWebhook(w)
  BY <1>4, ADPaymentWebhookStraight
<1> QED BY <1>1, <1>2, <1>3, <1>4 DEF Handle

LEMMA ContinueStraight ==
  ASSUME IInv, ~Cashfree, NEW w, Workers = {w}, Due, Position(task[w]), Continue(w)
  PROVE  Straight'
<1>1. CASE \/ WriteMaster(w) \/ ApproveLoan(w) \/ ReferLoan(w) \/ RejectRead(w)
           \/ RejectLoan(w) \/ StepsRead(w) \/ DeclineLoan(w) \/ ReopenLoan(w)
           \/ AcceptLoan(w)
  BY <1>1, WriteMasterStraight, ApproveLoanStraight, ReferLoanStraight, RejectReadStraight,
     RejectLoanStraight, StepsReadStraight, DeclineLoanStraight, ReopenLoanStraight,
     AcceptLoanStraight
<1>2. CASE \/ LinkRead(w) \/ CreateSub(w) \/ LinkSub(w) \/ UnlinkSub(w) \/ DropSub(w)
           \/ WriteSub(w, "subActive", "ACTIVE") \/ WriteSub(w, "subFailed", "FAILED")
  BY <1>2, LinkReadStraight, CreateSubStraight, LinkSubStraight, UnlinkSubStraight,
     DropSubStraight, SubActiveStraight, SubFailedStraight
<1>3. CASE \/ InviteRead(w) \/ CreateDoc(w) \/ LinkDoc(w) \/ DocStatus(w)
           \/ DeleteRead(w) \/ DeleteRow(w) \/ UnlinkDoc(w)
           \/ DropDoc(w) \/ ResetLoan(w) \/ ReInitiateStep(w)
  BY <1>3, InviteReadStraight, CreateDocStraight, LinkDocStraight, DocStatusStraight,
     DeleteReadStraight, DeleteRowStraight, UnlinkDocStraight, DropDocStraight,
     ResetLoanStraight, ReInitiateStepStraight
<1>4. CASE MandateRead(w) \/ WebhookRead(w)
  BY <1>4, MandateReadStraight, WebhookReadStraight
<1> QED BY <1>1, <1>2, <1>3, <1>4 DEF Continue

(* The bank and the borrower change no row.                                *)
LEMMA WorldStraight ==
  ASSUME IInv, ~Cashfree, NEW w, Workers = {w}, Due, Position(task[w]), World
  PROVE  Straight'
<1>1. CASE \E s \in Subs : Callback(s)
                 \/ \E a \in {"active", "failed", "recovered"} : BankAnswers(s, a)
  <2>1. UNCHANGED <<loan, master, doc, sub, account, task>>
    BY <1>1 DEF Callback, BankAnswers, db
  <2> QED BY <2>1, StaysStraight
<1>2. CASE \E d \in Docs : Sign(d)
  <2>1. UNCHANGED <<loan, master, doc, sub, account, task>>
    BY <1>2 DEF Sign, db
  <2> QED BY <2>1, StaysStraight
<1>3. CASE Disburse
  BY <1>3, DisburseStraight
<1> QED BY <1>1, <1>2, <1>3 DEF World

(* Handlers that died stay dead.                                           *)
LEMMA AbortsGrow ==
  ASSUME IInv, [Next]_vars
  PROVE  aborts' = aborts \/ aborts' = aborts + 1
<1>1. ASSUME NEW w, Handle(w) PROVE aborts' = aborts
  <2>1. ASSUME NEW f, SendInvitation(w, f) PROVE aborts' = aborts
    BY <2>1 DEF SendInvitation
  <2>2. CASE \/ Approve(w) \/ Refer(w) \/ FinalReject(w) \/ AutoDecline(w) \/ AdminReject(w)
             \/ Decline(w) \/ Reopen(w) \/ AcceptKFS(w) \/ GenerateLink(w)
    BY <2>2 DEF Approve, Refer, FinalReject, AutoDecline, AdminReject, Decline, Reopen,
       AcceptKFS, GenerateLink
  <2>3. CASE \/ CheckMandate(w) \/ DeleteMandate(w) \/ Invite(w) \/ CheckStatus(w)
             \/ ReInitiate(w) \/ ReEsign(w) \/ LoanIsActive(w) \/ ADPaymentWebhook(w)
             \/ \E d \in Docs : Regenerate(w, d)
    BY <2>1, <2>3 DEF CheckMandate, DeleteMandate, Invite, CheckStatus, ReInitiate, ReEsign,
       LoanIsActive, ADPaymentWebhook, Regenerate
  <2> QED BY <1>1, <2>2, <2>3 DEF Handle
<1>2. ASSUME NEW w, Continue(w) PROVE aborts' = aborts
  <2>1. CASE \/ WriteMaster(w) \/ ApproveLoan(w) \/ ReferLoan(w) \/ RejectRead(w)
             \/ RejectLoan(w) \/ StepsRead(w) \/ DeclineLoan(w) \/ ReopenLoan(w)
             \/ AcceptLoan(w) \/ LinkSub(w) \/ LinkDoc(w) \/ UnlinkSub(w) \/ UnlinkDoc(w)
             \/ ResetLoan(w) \/ ReInitiateStep(w)
    BY <2>1 DEF WriteMaster, ApproveLoan, ReferLoan, RejectRead, RejectLoan, StepsRead,
       DeclineLoan, ReopenLoan, AcceptLoan, LinkSub, LinkDoc, UnlinkSub, UnlinkDoc,
       ResetLoan, ReInitiateStep, UnchangedButLoan
  <2>2. CASE \/ LinkRead(w) \/ CreateSub(w) \/ DropSub(w)
             \/ WriteSub(w, "subActive", "ACTIVE") \/ WriteSub(w, "subFailed", "FAILED")
             \/ InviteRead(w) \/ CreateDoc(w) \/ DocStatus(w)
             \/ DeleteRead(w) \/ DeleteRow(w) \/ DropDoc(w)
             \/ MandateRead(w) \/ WebhookRead(w)
    BY <2>2 DEF LinkRead, CreateSub, DropSub, WriteSub, InviteRead, SendInvitation, CreateDoc,
       DocStatus, DeleteRead, DeleteRow, DropDoc, MandateRead, WebhookRead
  <2> QED BY <1>2, <2>1, <2>2 DEF Continue
<1>3. CASE World
  BY <1>3 DEF World, Callback, BankAnswers, Sign, Disburse, UnchangedButLoan
<1>4. CASE \E w \in Workers : Abort(w)
  BY <1>4 DEF Abort
<1>5. CASE UNCHANGED vars
  BY <1>5 DEF vars
<1> QED BY <1>1, <1>2, <1>3, <1>4, <1>5 DEF Next

LEMMA InitStraight ==
  ASSUME Init, OneHandler
  PROVE  Straight
<1>1. Rest(master)
  <2>1. Decision(master)
    BY DEF Init, Decision
  <2>2. account # None => account \in Subs /\ sub[account] = "ACTIVE"
    BY OnboardingAssumption DEF Init
  <2>3. Mandate(master)
    BY <2>2 DEF Init, Mandate, Mandated, NewMaster
  <2>4. Agreement(master)
    BY DEF Init, Agreement, Signature, HasDoc, NewMaster
  <2> QED BY <2>1, <2>3, <2>4 DEF Rest
<1>2. Due
  BY DEF Init, Due, NewMaster
<1>3. \A w \in Workers : task[w].todo = <<>>
  BY DEF Init, NoTask
<1> QED BY <1>1, <1>2, <1>3 DEF Straight, Position, Resting

(* With one handler at a time and mandates placed with Razorpay, the       *)
(* status column and the rows are changed together by every handler that   *)
(* runs to its end: between any two of its steps it stands at one of the   *)
(* positions above, and the payout service never finds a loan due out of   *)
(* order.                                                                  *)
THEOREM StraightInvariance ==
  ASSUME OneHandler, ~Cashfree
  PROVE  Spec => []Straight
<1>1. Init => Straight
  BY InitStraight
<1>2. ASSUME IInv, Straight, [Next]_vars PROVE Straight'
  <2>1. aborts \in Nat /\ aborts' \in {aborts, aborts + 1}
    BY <1>2, AbortsGrow DEF IInv, RowTypes
  <2>2. CASE aborts # 0
    BY <2>1, <2>2 DEF Straight
  <2>3. CASE aborts = 0
    <3>1. PICK w : Workers = {w}
      BY DEF OneHandler
    <3>2. Due /\ Position(task[w])
      BY <1>2, <2>3, <3>1 DEF Straight
    <3>3. CASE Handle(w)
      BY <1>2, <3>1, <3>2, <3>3, HandleStraight
    <3>4. CASE Continue(w)
      BY <1>2, <3>1, <3>2, <3>4, ContinueStraight
    <3>5. CASE Abort(w)
      BY <2>3, <3>5 DEF Abort, Straight
    <3>6. CASE World
      BY <1>2, <3>1, <3>2, <3>6, WorldStraight
    <3>7. CASE UNCHANGED vars
      <4>1. UNCHANGED <<loan, master, doc, sub, account, task>>
        BY <3>7 DEF vars, db
      <4> QED BY <1>2, <3>1, <3>2, <4>1, StaysStraight
    <3> QED BY <1>2, <3>1, <3>3, <3>4, <3>5, <3>6, <3>7 DEF Next
  <2> QED BY <2>2, <2>3
<1> QED BY <1>1, <1>2, OnboardingInvariance, PTL DEF Spec

(* Between handlers that ran to their end one at a time, the status column *)
(* says what the rows it stands for say.                                   *)
THEOREM MasterTellsTheRows ==
  ASSUME OneHandler, ~Cashfree
  PROVE  Spec => []MasterAgrees
<1>1. IInv /\ Straight => MasterAgrees
  <2> SUFFICES ASSUME IInv, Straight, Quiet, aborts = 0
               PROVE  /\ loan.verified = "approved" => master.loan \in {1, 6}
                      /\ loan.verified = "pending" => master.loan = 0
                      /\ loan.verified = "rejected" => master.loan = 2
                      /\ master.eMandate = -1 <=> loan.sub = None
                      /\ master.eMandate = 1 => HasSub(loan.sub) /\ Registered(loan.sub)
                      /\ master.eSign = Signature
                      /\ HasDoc(loan.doc) <=> loan.doc # None
    BY DEF MasterAgrees
  <2>1. PICK w \in Workers : TRUE
    BY DEF OneHandler
  <2>2. Rest(master)
    BY <2>1, IdleRests DEF Straight, Quiet
  <2>3. master.eMandate = 1 => HasSub(loan.sub) /\ Registered(loan.sub)
    <3> SUFFICES ASSUME master.eMandate = 1
                 PROVE  HasSub(loan.sub) /\ Registered(loan.sub)
      OBVIOUS
    <3>1. HasSub(loan.sub) /\ sub[loan.sub] = "ACTIVE"
      BY <2>2 DEF Rest, Mandate, Mandated
    <3>2. loan.sub \in Subs
      BY <3>1, LinkedSub
    <3> QED BY <3>1, <3>2 DEF IInv, RowsOK
  <2>4. HasDoc(loan.doc) <=> loan.doc # None
    BY <2>2 DEF Rest, Agreement, HasDoc
  <2> QED BY <2>2, <2>3, <2>4 DEF Rest, Decision, Mandate, Agreement
<1> QED BY <1>1, StraightInvariance, OnboardingInvariance, PTL

(* A loan that the payout service finds due is approved, its mandate is    *)
(* registered at the bank and its agreement is signed, also after payouts  *)
(* that failed and agreements that were signed again.                      *)
THEOREM PayoutsAreOrdered ==
  ASSUME OneHandler, ~Cashfree
  PROVE  Spec => []PayableIsOrdered
<1>1. IInv /\ Straight => PayableIsOrdered
  <2> SUFFICES ASSUME IInv, Straight, Payable, aborts = 0
               PROVE  /\ loan.verified = "approved"
                      /\ HasSub(loan.sub) /\ Registered(loan.sub)
                      /\ HasDoc(loan.doc) /\ doc[loan.doc] = "signed"
    BY DEF PayableIsOrdered
  <2>1. Signed /\ Underwritten
    BY DEF Payable, Straight, Due
  <2>2. HasSub(loan.sub) /\ loan.sub \in Subs
    BY <2>1 DEF Underwritten, Mandated, HasSub, IInv, RowTypes, LoanRows
  <2>3. Registered(loan.sub)
    BY <2>1, <2>2 DEF Underwritten, Mandated, IInv, RowsOK
  <2> QED BY <2>1, <2>2, <2>3 DEF Signed, Underwritten, HasDoc
<1> QED BY <1>1, StraightInvariance, OnboardingInvariance, PTL

-----------------------------------------------------------------------------
(* The handlers implement the application. What a step needs to know of    *)
(* the loan to be a step of the application:                               *)

Staged(t) ==
  LET step == Head(t.todo)
  IN  t.todo # <<>> =>
        /\ step \in {"reject", "decline"} => loan.status # "Active" /\ ~Signed
        /\ step = "reopen" => loan.status = "Rejected" /\ ~Signed
        /\ step = "kfs" => loan.status = "InProcess"
        /\ step = "linkDoc" =>
             /\ ~Signed /\ doc[t.doc] = "invited"
             /\ t.force => loan.status \notin {"Rejected", "Active"}
        /\ step = "docStatus" =>
             /\ t.doc = loan.doc /\ ~Signed
             /\ \/ loan.status = "Accepted" /\ loan.verified = "approved"
                \/ loan.status = "Rejected"
        /\ step \in {"unlinkDoc", "resetLoan"} => ~Signed
        /\ step = "dropDoc" => loan.status = "Accepted" /\ loan.verified = "approved"

StageOf(status, verified, signed) ==
  IF status = "Active" THEN "paid"
  ELSE IF status = "Rejected" THEN "rejected"
  ELSE IF signed THEN "signed"
  ELSE IF verified = "approved" THEN "approved" ELSE "applied"

LEMMA StageIs == IInv => Stage = StageOf(loan.status, loan.verified, Signed)
<1> SUFFICES ASSUME IInv PROVE Stage = StageOf(loan.status, loan.verified, Signed)
  OBVIOUS
<1>1. (HasDoc(loan.doc) /\ doc[loan.doc] = "signed") <=> Signed
  BY DEF HasDoc, Signed
<1>2. CASE loan.status = "Active"
  BY <1>2 DEF Stage, StageOf
<1>3. CASE loan.status = "Rejected"
  BY <1>3 DEF Stage, StageOf
<1>4. CASE loan.status \notin {"Rejected", "Active"}
  <2>1. Stage = IF HasDoc(loan.doc) /\ doc[loan.doc] = "signed" THEN "signed"
                ELSE IF loan.verified = "approved" THEN "approved" ELSE "applied"
    BY <1>4 DEF Stage
  <2> QED BY <1>1, <1>4, <2>1 DEF StageOf
<1> QED BY <1>2, <1>3, <1>4

LEMMA StageIsNext == (IInv => Stage = StageOf(loan.status, loan.verified, Signed))'
  BY StageIs, PTL

(* A step is one of the application's when the loan's status, its          *)
(* verification and its signature change as the application allows.        *)
LEMMA Follows ==
  ASSUME IInv, IInv',
         \/ /\ loan'.status = loan.status /\ loan'.verified = loan.verified
            /\ Signed' <=> Signed
         \/ /\ loan'.status = loan.status /\ loan.verified # "approved"
            /\ loan'.verified = "approved" /\ (Signed' <=> Signed)
         \/ /\ loan'.status = loan.status /\ loan'.verified = "pending"
            /\ (Signed' <=> Signed)
         \/ /\ loan'.status = "Rejected" /\ ~Signed /\ loan.status # "Active"
         \/ /\ loan.status = "Rejected" /\ ~Signed /\ ~Signed'
            /\ loan'.status = "Accepted" /\ loan'.verified = "pending"
         \/ /\ loan.status \notin {"Rejected", "Active"} /\ loan'.status = "Accepted"
            /\ loan'.verified = loan.verified /\ (Signed' <=> Signed)
         \/ /\ loan'.status = loan.status /\ loan'.verified = loan.verified
            /\ \/ loan.status = "Accepted" /\ loan.verified = "approved"
               \/ loan.status = "Rejected"
         \/ /\ loan.status = "Accepted" /\ Signed /\ loan'.status = "Active"
  PROVE  [Application!Next]_Stage
<1>1. PICK a : a = StageOf(loan.status, loan.verified, Signed)
  OBVIOUS
<1>2. PICK b : b = StageOf(loan'.status, loan'.verified, Signed')
  OBVIOUS
<1>3. Stage = a /\ Stage' = b
  BY <1>1, <1>2, StageIs, StageIsNext
<1>4. \/ b = a
      \/ a = "applied" /\ b = "approved"
      \/ a = "approved" /\ b = "applied"
      \/ a = "approved" /\ b = "signed"
      \/ a = "signed" /\ b = "approved"
      \/ a = "signed" /\ b = "paid"
      \/ a \in {"applied", "approved"} /\ b = "rejected"
      \/ a = "rejected" /\ b = "applied"
  BY <1>1, <1>2 DEF StageOf
<1> QED
  BY <1>3, <1>4 DEF Application!Next, Application!Approve, Application!Refer,
     Application!Sign, Application!Void, Application!Pay, Application!Reject,
     Application!Reopen

(* Nothing changes in the loan or the agreements when a handler starts.    *)
LEMMA HandleFollows ==
  ASSUME IInv, IInv', NEW w, Handle(w)
  PROVE  [Application!Next]_Stage
<1>1. UNCHANGED <<loan, doc>>
  <2>1. ASSUME NEW f, SendInvitation(w, f) PROVE UNCHANGED <<loan, doc>>
    BY <2>1 DEF SendInvitation
  <2>2. CASE \/ Approve(w) \/ Refer(w) \/ FinalReject(w) \/ AutoDecline(w) \/ AdminReject(w)
             \/ Decline(w) \/ Reopen(w) \/ AcceptKFS(w) \/ GenerateLink(w)
    BY <2>2 DEF Approve, Refer, FinalReject, AutoDecline, AdminReject, Decline, Reopen,
       AcceptKFS, GenerateLink, db
  <2>3. CASE \/ CheckMandate(w) \/ DeleteMandate(w) \/ Invite(w) \/ CheckStatus(w)
             \/ ReInitiate(w) \/ ReEsign(w) \/ LoanIsActive(w) \/ ADPaymentWebhook(w)
             \/ \E d \in Docs : Regenerate(w, d)
    BY <2>1, <2>3 DEF CheckMandate, DeleteMandate, Invite, CheckStatus, ReInitiate, ReEsign,
       LoanIsActive, ADPaymentWebhook, Regenerate, db
  <2> QED BY <2>2, <2>3 DEF Handle
<1>2. Signed' <=> Signed
  BY <1>1 DEF Signed
<1> QED BY <1>1, <1>2, Follows

LEMMA LoanStepFollows ==
  ASSUME IInv, IInv', NEW w, Staged(task[w]),
         \/ ApproveLoan(w) \/ ReferLoan(w) \/ RejectLoan(w) \/ DeclineLoan(w)
         \/ ReopenLoan(w) \/ AcceptLoan(w)
  PROVE  [Application!Next]_Stage
<1>1. doc' = doc
  BY DEF ApproveLoan, ReferLoan, RejectLoan, DeclineLoan, ReopenLoan, AcceptLoan,
     UnchangedButLoan
<1>2. CASE ApproveLoan(w)
  <2>1. /\ loan'.status = loan.status /\ loan'.verified = "approved"
        /\ loan'.doc = loan.doc
    BY <1>2 DEF ApproveLoan, IInv, RowTypes, LoanRows
  <2>2. Signed' <=> Signed
    BY <1>1, <2>1 DEF Signed
  <2> QED BY <2>1, <2>2, Follows
<1>3. CASE ReferLoan(w)
  <2>1. /\ loan'.status = loan.status /\ loan'.verified = "pending"
        /\ loan'.doc = loan.doc
    BY <1>3 DEF ReferLoan, IInv, RowTypes, LoanRows
  <2>2. Signed' <=> Signed
    BY <1>1, <2>1 DEF Signed
  <2> QED BY <2>1, <2>2, Follows
<1>4. CASE RejectLoan(w) \/ DeclineLoan(w)
  <2>1. loan.status # "Active" /\ ~Signed
    BY <1>4 DEF RejectLoan, DeclineLoan, LoanStep, At, Staged
  <2>2. CASE loan' = loan
    BY <1>1, <2>2, Follows DEF Signed
  <2>3. CASE loan' = [loan EXCEPT !.status = "Rejected", !.verified = "rejected"]
    <3>1. loan'.status = "Rejected"
      BY <2>3 DEF IInv, RowTypes, LoanRows
    <3> QED BY <2>1, <3>1, Follows
  <2> QED BY <1>4, <2>2, <2>3 DEF RejectLoan, DeclineLoan
<1>5. CASE ReopenLoan(w)
  <2>1. loan.status = "Rejected" /\ ~Signed
    BY <1>5 DEF ReopenLoan, LoanStep, At, Staged
  <2>2. /\ loan'.status = "Accepted" /\ loan'.verified = "pending"
        /\ loan'.doc = loan.doc
    BY <1>5 DEF ReopenLoan, IInv, RowTypes, LoanRows
  <2>3. ~Signed'
    BY <1>1, <2>1, <2>2 DEF Signed
  <2> QED BY <2>1, <2>2, <2>3, Follows
<1>6. CASE AcceptLoan(w)
  <2>1. loan.status = "InProcess"
    BY <1>6 DEF AcceptLoan, LoanStep, At, Staged
  <2>2. /\ loan'.status = "Accepted" /\ loan'.verified = loan.verified
        /\ loan'.doc = loan.doc
    BY <1>6 DEF AcceptLoan, IInv, RowTypes, LoanRows
  <2>3. Signed' <=> Signed
    BY <1>1, <2>2 DEF Signed
  <2> QED BY <2>1, <2>2, <2>3, Follows
<1> QED BY <1>2, <1>3, <1>4, <1>5, <1>6

LEMMA MandateStepFollows ==
  ASSUME IInv, IInv', NEW w,
         \/ WriteMaster(w) \/ RejectRead(w) \/ StepsRead(w) \/ LinkRead(w) \/ CreateSub(w)
         \/ LinkSub(w) \/ UnlinkSub(w) \/ DropSub(w) \/ InviteRead(w) \/ DeleteRead(w)
         \/ WriteSub(w, "subActive", "ACTIVE") \/ WriteSub(w, "subFailed", "FAILED")
         \/ ReInitiateStep(w) \/ MandateRead(w) \/ WebhookRead(w)
  PROVE  [Application!Next]_Stage
<1>1. /\ doc' = doc /\ loan'.status = loan.status /\ loan'.verified = loan.verified
      /\ loan'.doc = loan.doc
  <2>1. CASE LinkSub(w) \/ UnlinkSub(w)
    BY <2>1 DEF LinkSub, UnlinkSub, UnchangedButLoan, IInv, RowTypes, LoanRows
  <2>3. CASE ReInitiateStep(w)
    BY <2>3 DEF ReInitiateStep, UnchangedButLoan, IInv, RowTypes, LoanRows
  <2>2. CASE \/ WriteMaster(w) \/ RejectRead(w) \/ StepsRead(w) \/ LinkRead(w)
             \/ CreateSub(w) \/ DropSub(w) \/ InviteRead(w) \/ DeleteRead(w)
             \/ WriteSub(w, "subActive", "ACTIVE") \/ WriteSub(w, "subFailed", "FAILED")
             \/ MandateRead(w) \/ WebhookRead(w)
    BY <2>2 DEF WriteMaster, RejectRead, StepsRead, LinkRead, CreateSub, DropSub, InviteRead,
       SendInvitation, DeleteRead, WriteSub, MandateRead, WebhookRead, db
  <2> QED BY <2>1, <2>2, <2>3
<1>2. Signed' <=> Signed
  BY <1>1 DEF Signed
<1> QED BY <1>1, <1>2, Follows

LEMMA DocStepFollows ==
  ASSUME IInv, IInv', NEW w, Staged(task[w]),
         \/ CreateDoc(w) \/ LinkDoc(w) \/ DocStatus(w) \/ DeleteRow(w) \/ UnlinkDoc(w)
         \/ DropDoc(w) \/ ResetLoan(w)
  PROVE  [Application!Next]_Stage
<1>1. loan.doc \in Docs \union {None} /\ doc \in [Docs -> {"none", "invited", "signed", "deleted"}]
  BY DEF IInv, RowTypes, LoanRows
<1>2. CASE CreateDoc(w)
  <2>1. PICK d \in FreeDocs : doc' = [doc EXCEPT ![d] = "invited"]
    BY <1>2 DEF CreateDoc
  <2>2. loan' = loan /\ doc[d] = "none" /\ d \in Docs
    BY <1>2 DEF CreateDoc, FreeDocs
  <2>3. Signed' <=> Signed
    BY <1>1, <2>1, <2>2 DEF Signed
  <2> QED BY <2>2, <2>3, Follows
<1>3. CASE LinkDoc(w)
  <2>1. PICK t : t = task[w]
    OBVIOUS
  <2>2. /\ ~Signed /\ doc[t.doc] = "invited"
        /\ t.force => loan.status \notin {"Rejected", "Active"}
    BY <1>3, <2>1 DEF LinkDoc, LoanStep, At, Staged
  <2>3. /\ doc' = doc /\ loan'.doc = t.doc /\ loan'.verified = loan.verified
        /\ loan'.status = IF t.force THEN "Accepted" ELSE loan.status
    BY <1>3, <2>1 DEF LinkDoc, UnchangedButLoan, IInv, RowTypes, LoanRows
  <2>4. ~Signed'
    BY <2>2, <2>3 DEF Signed
  <2>5. CASE t.force
    BY <2>2, <2>3, <2>4, <2>5, Follows
  <2>6. CASE ~t.force
    BY <2>2, <2>3, <2>4, <2>6, Follows
  <2> QED BY <2>5, <2>6
<1>4. CASE DocStatus(w)
  <2>1. \/ loan.status = "Accepted" /\ loan.verified = "approved"
        \/ loan.status = "Rejected"
    BY <1>4 DEF DocStatus, At, Staged
  <2>2. loan' = loan
    BY <1>4 DEF DocStatus
  <2> QED BY <2>1, <2>2, Follows
<1>5. CASE DeleteRow(w)
  <2>1. PICK t : t = task[w]
    OBVIOUS
  <2>2. /\ loan' = loan
        /\ \/ doc' = doc
           \/ doc[t.doc] = "invited" /\ doc' = [doc EXCEPT ![t.doc] = "deleted"]
    BY <1>5, <2>1 DEF DeleteRow
  <2>3. Signed' <=> Signed
    BY <1>1, <2>2 DEF Signed
  <2> QED BY <2>2, <2>3, Follows
<1>6. CASE UnlinkDoc(w) \/ ResetLoan(w)
  <2>1. ~Signed
    BY <1>6 DEF UnlinkDoc, ResetLoan, LoanStep, At, Staged
  <2>2. /\ doc' = doc /\ loan'.doc = None /\ loan'.status = loan.status
        /\ loan'.verified = loan.verified
    <3>1. CASE UnlinkDoc(w)
      BY <3>1 DEF UnlinkDoc, UnchangedButLoan, IInv, RowTypes, LoanRows
    <3>2. CASE ResetLoan(w)
      BY <3>2 DEF ResetLoan, UnchangedButLoan, IInv, RowTypes, LoanRows
    <3> QED BY <1>6, <3>1, <3>2
  <2>3. ~Signed'
    BY <2>2 DEF Signed
  <2> QED BY <2>1, <2>2, <2>3, Follows
<1>7. CASE DropDoc(w)
  <2>1. loan.status = "Accepted" /\ loan.verified = "approved"
    BY <1>7 DEF DropDoc, At, Staged
  <2>2. loan' = loan
    BY <1>7 DEF DropDoc
  <2> QED BY <2>1, <2>2, Follows
<1> QED BY <1>2, <1>3, <1>4, <1>5, <1>6, <1>7

LEMMA WorldFollows ==
  ASSUME IInv, IInv', World
  PROVE  [Application!Next]_Stage
<1>1. CASE Disburse
  <2>1. /\ loan.status = "Accepted" /\ Signed /\ doc' = doc /\ loan \in LoanRows
        /\ \/ loan' = [loan EXCEPT !.disbursed = TRUE, !.status = "Active", !.payout = "sent"]
           \/ loan' = [loan EXCEPT !.disbursed = TRUE, !.payout = "failed"]
    BY <1>1 DEF Disburse, UnchangedButLoan, Signed, HasDoc, IInv, RowTypes
  <2>3. /\ loan'.verified = loan.verified /\ loan'.doc = loan.doc
        /\ loan'.status = "Active" \/ loan'.status = loan.status
    BY <2>1 DEF LoanRows
  <2>2. Signed' <=> Signed
    BY <2>1, <2>3 DEF Signed
  <2> QED BY <2>1, <2>2, <2>3, Follows
<1>2. CASE ~Disburse
  <2>1. UNCHANGED <<loan, doc>>
    BY <1>2 DEF World, Callback, BankAnswers, Sign, db
  <2>2. Signed' <=> Signed
    BY <2>1 DEF Signed
  <2> QED BY <2>1, <2>2, Follows
<1> QED BY <1>1, <1>2

(* The step of a handler that stands where the application expects it.     *)
LEMMA StepFollows ==
  ASSUME IInv, IInv', [Next]_vars, \A w \in Workers : Staged(task[w])
  PROVE  [Application!Next]_Stage
<1>1. CASE World
  BY <1>1, WorldFollows
<1>2. ASSUME NEW w \in Workers, Handle(w) PROVE [Application!Next]_Stage
  BY <1>2, HandleFollows
<1>3. ASSUME NEW w \in Workers, Continue(w) PROVE [Application!Next]_Stage
  BY <1>3, LoanStepFollows, MandateStepFollows, DocStepFollows DEF Continue
<1>4. CASE UNCHANGED vars \/ \E w \in Workers : Abort(w)
  <2>1. UNCHANGED <<loan, doc>>
    BY <1>4 DEF vars, db, Abort
  <2>2. Signed' <=> Signed
    BY <2>1 DEF Signed
  <2> QED BY <2>1, <2>2, Follows
<1> QED BY <1>1, <1>2, <1>3, <1>4 DEF Next

LEMMA StraightIsStaged ==
  ASSUME IInv, NEW t, Position(t)
  PROVE  Staged(t)
<1>1. PICK c : c = t.copy
  OBVIOUS
<1>2. PICK step : step = Head(t.todo)
  OBVIOUS
<1> SUFFICES ASSUME t.todo # <<>>
             PROVE  /\ step \in {"reject", "decline"} => loan.status # "Active" /\ ~Signed
                    /\ step = "reopen" => loan.status = "Rejected" /\ ~Signed
                    /\ step = "kfs" => loan.status = "InProcess"
                    /\ step = "linkDoc" =>
                         /\ ~Signed /\ doc[t.doc] = "invited"
                         /\ t.force => loan.status \notin {"Rejected", "Active"}
                    /\ step = "docStatus" =>
                         /\ t.doc = loan.doc /\ ~Signed
                         /\ \/ loan.status = "Accepted" /\ loan.verified = "approved"
                            \/ loan.status = "Rejected"
                    /\ step \in {"unlinkDoc", "resetLoan"} => ~Signed
                    /\ step = "dropDoc" =>
                         loan.status = "Accepted" /\ loan.verified = "approved"
  BY <1>2 DEF Staged
<1>3. ASSUME step \in {"reject", "decline"} PROVE loan.status # "Active" /\ ~Signed
  <2>1. Rest(master) /\ loan.doc = None
    BY <1>1, <1>2, <1>3, AtRejection
  <2> QED BY <2>1, NoDoc DEF NoAgreement
<1>4. ASSUME step = "reopen" PROVE loan.status = "Rejected" /\ ~Signed
  <2>1. Rest(master) /\ loan.status = "Rejected"
    BY <1>1, <1>2, <1>4, AtReopenLoan
  <2> QED BY <2>1, RestFacts DEF Signed
<1>5. ASSUME step = "kfs" PROVE loan.status = "InProcess"
  BY <1>2, <1>5, AtAcceptLoan
<1>6. ASSUME step = "linkDoc"
      PROVE  /\ ~Signed /\ doc[t.doc] = "invited"
             /\ t.force => loan.status \notin {"Rejected", "Active"}
  <2>1. /\ loan.doc = None /\ Underwritten /\ doc[t.doc] = "invited"
        /\ loan.status # "Active" /\ Decision(c)
    BY <1>1, <1>2, <1>6, AtLinkDoc
  <2> QED BY <2>1 DEF Signed, Decision, Underwritten
<1>7. ASSUME step = "docStatus"
      PROVE  /\ t.doc = loan.doc /\ ~Signed
             /\ loan.status = "Accepted" /\ loan.verified = "approved"
  <2>1. Rest(master) /\ t.doc = loan.doc /\ loan.doc # None /\ ~Signed
    BY <1>1, <1>2, <1>7, AtDocStatus
  <2> QED BY <2>1, RestFacts DEF Rest, Agreement, Underwritten
<1>8. ASSUME step \in {"unlinkDoc", "resetLoan"} PROVE ~Signed
  <2>1. NoAgreement(c)
    BY <1>1, <1>2, <1>8, AtUnlinkDoc, AtResetLoan
  <2>2. loan.doc \in Docs \union {None}
    BY DEF IInv, RowTypes, LoanRows
  <2> QED BY <2>1, <2>2 DEF NoAgreement, Signed, HasDoc
<1>9. ASSUME step = "dropDoc" PROVE loan.status = "Accepted" /\ loan.verified = "approved"
  <2>1. Rest(master) /\ Signed /\ loan.status = "Accepted"
    BY <1>1, <1>2, <1>9, AtDropDoc
  <2> QED BY <2>1 DEF Rest, Agreement, Signed, Underwritten
<1> QED BY <1>3, <1>4, <1>5, <1>6, <1>7, <1>8, <1>9

(* The handlers implement the application: a loan is paid only after it    *)
(* was approved and then signed, and a signed one is never rejected. With  *)
(* handlers that die this holds for one of them (the run shows it), and    *)
(* fails for two.                                                          *)
THEOREM HandlersFollowTheApplication ==
  ASSUME OneHandler, ~Cashfree, MaxAborts = 0
  PROVE  Spec => FollowsTheApplication
<1>1. Init => Application!Init
  <2> SUFFICES ASSUME Init PROVE Application!Init
    OBVIOUS
  <2>1. loan.status = "InProcess" /\ loan.verified = "none" /\ loan.doc = None
    BY DEF Init
  <2>2. Stage = "applied"
    BY <2>1 DEF Stage, HasDoc
  <2> QED BY <2>2 DEF Application!Init
<1>2. IInv /\ IInv' /\ Straight /\ [Next]_vars => [Application!Next]_Stage
  <2> SUFFICES ASSUME IInv, IInv', Straight, [Next]_vars PROVE [Application!Next]_Stage
    OBVIOUS
  <2>1. aborts = 0
    BY DEF IInv, RowTypes
  <2>2. \A w \in Workers : Staged(task[w])
    BY <2>1, StraightIsStaged DEF Straight
  <2> QED BY <2>2, StepFollows
<1> QED BY <1>1, <1>2, OnboardingInvariance, StraightInvariance, PTL
    DEF Spec, FollowsTheApplication, Application!Spec
=============================================================================
