------------------------ MODULE OnboardingProperties ------------------------
(* What the loan application has to preserve. *)
EXTENDS Onboarding

Status == {"InProcess", "Accepted", "Rejected", "Active"}
LoanRows ==
  [status : Status, verified : {"none", "pending", "approved", "rejected"},
   kfs : BOOLEAN, doc : Docs \union {None}, sub : Subs \union {None},
   payout : {"none", "sent", "failed"}, disbursed : BOOLEAN]
MasterRows ==
  [loan : {-1, 0, 1, 2, 6}, eMandate : {-1, 0, 1, 2}, eSign : {-1, 0, 1},
   disbursement : {-1, 0, 1}]
Tasks ==
  [todo : Seq(Steps), copy : MasterRows, doc : Docs \union {None},
   sub : Subs \union {None}, force : BOOLEAN]

TypeOK ==
  /\ loan \in LoanRows
  /\ master \in MasterRows
  /\ doc \in [Docs -> {"none", "invited", "signed", "deleted"}]
  /\ sub \in [Subs -> {"none", "INITIALIZED", "ACTIVE", "FAILED", "deleted"}]
  /\ account \in Subs \union {None}
  /\ signer \subseteq Docs
  /\ bank \in [Subs -> {"none", "pending", "failed", "active", "recovered"}]
  /\ approved \in BOOLEAN
  /\ task \in [Workers -> Tasks]
  /\ aborts \in 0 .. MaxAborts

-----------------------------------------------------------------------------
(* One handler at a time. *)

Quiet == \A w \in Workers : Idle(w)

(* Between handlers that ran to their end one at a time, the status column *)
(* of the master row says what the rows it stands for say: the decision on *)
(* the loan, the mandate it is linked to, the agreement it is linked to.   *)
Signature ==
  IF loan.doc = None THEN -1 ELSE IF doc[loan.doc] = "signed" THEN 1 ELSE 0
MasterAgrees ==
  Quiet /\ aborts = 0 =>
    /\ loan.verified = "approved" => master.loan \in {1, 6}
    /\ loan.verified = "pending" => master.loan = 0
    /\ loan.verified = "rejected" => master.loan = 2
    /\ master.eMandate = -1 <=> loan.sub = None
    /\ master.eMandate = 1 => HasSub(loan.sub) /\ Registered(loan.sub)
    /\ master.eSign = Signature
    /\ HasDoc(loan.doc) <=> loan.doc # None

(* A loan that the payout service finds due is approved, its mandate is    *)
(* registered at the bank, and its agreement is signed; also after payouts *)
(* that failed and agreements that were signed again.                      *)
Payable ==
  loan.status = "Accepted" /\ loan.payout = "none" /\ master.disbursement = 0
PayableIsOrdered ==
  Payable /\ aborts = 0 =>
    /\ loan.verified = "approved"
    /\ HasSub(loan.sub) /\ Registered(loan.sub)
    /\ HasDoc(loan.doc) /\ doc[loan.doc] = "signed"

(* The handlers implement the application: even when one of them dies on   *)
(* the way, a loan is paid only after it was approved and then signed, and *)
(* a signed loan is never rejected.                                        *)
Stage ==
  CASE loan.status = "Active" -> "paid"
    [] loan.status = "Rejected" -> "rejected"
    [] OTHER -> IF HasDoc(loan.doc) /\ doc[loan.doc] = "signed" THEN "signed"
                ELSE IF loan.verified = "approved" THEN "approved"
                ELSE "applied"
Application == INSTANCE LoanApplication WITH stage <- Stage
FollowsTheApplication == Application!Spec

-----------------------------------------------------------------------------
(* Handlers in any interleaving. The status is the master row's, or one    *)
(* that a handler has read and may still write back.                       *)

Copies == {master} \union {task[w].copy : w \in Workers}
SomeRegistered == \E s \in Subs : Registered(s)

(* No interleaving of checks, callbacks, deletions and stale writes takes  *)
(* a mandate for registered that the bank has not registered.              *)
MandateIsReal ==
  /\ \A s \in Subs : sub[s] = "ACTIVE" => Registered(s)
  /\ \A m \in Copies : m.eMandate = 1 => SomeRegistered

(* Nor an agreement for signed, or a payout for due, without a signature.  *)
SignatureIsReal ==
  /\ \A d \in Docs : doc[d] = "signed" => d \in signer
  /\ \A m \in Copies : m.eSign = 1 \/ m.disbursement # -1 => signer # {}

(* An agreement goes out only after an approval and on a registered        *)
(* mandate, whatever was read before the two were taken back.              *)
AgreementIsEarned ==
  \A d \in Docs : doc[d] # "none" => approved /\ SomeRegistered

(* A loan is shown as approved or active only if it was once approved, and *)
(* is paid only if a mandate was registered and an agreement signed too.   *)
PaidIsAuthorised ==
  /\ \A m \in Copies : m.loan \in {1, 6} => approved
  /\ loan.status = "Active" => approved /\ SomeRegistered /\ signer # {}

(* What loan.service.v4.ts tells the borrower at line 241: "You can not    *)
(* reject the loan as the eSign is already generated".                     *)
RejectedIsUnsigned == loan.status = "Rejected" => ~HasDoc(loan.doc)
=============================================================================
