----------------------------- MODULE Onboarding -----------------------------
(***************************************************************************)
(* A loan application from its final verification to the payout: approval  *)
(* and rejection, the mandate at the bank, the agreement to be signed, and *)
(* the payout that another service makes.                                  *)
(*                                                                         *)
(* Every handler reads the master row, changes the status column in memory *)
(* and writes the whole column back after its other writes. A worker is a  *)
(* handler in flight: what it has read, and the steps it still has to do;  *)
(* the rows it reads in a row are read in one step.                        *)
(***************************************************************************)
EXTENDS Integers, Sequences

CONSTANTS
  Workers,    \* handlers that may be in flight at the same time
  Cashfree,   \* whether mandates are placed with Cashfree, or with Razorpay
  MaxSubs,    \* how many mandates this instance has room for
  MaxDocs,    \* how many agreements this instance has room for
  MaxAborts   \* how many handlers may die between two awaits

Subs == 1 .. MaxSubs
Docs == 1 .. MaxDocs
None == 0     \* a null foreign key

ASSUME OnboardingAssumption ==
  /\ Cashfree \in BOOLEAN
  /\ MaxSubs \in Nat \ {0}
  /\ MaxDocs \in Nat
  /\ MaxAborts \in Nat

VARIABLES
  loan,      \* the row of loanTransaction
  master,    \* the status column of the master row
  doc,       \* rows of esignEntity
  sub,       \* rows of SubScriptionEntity
  account,   \* the row that holds the borrower's account number, or None
  signer,    \* agreements the borrower has signed at the provider
  bank,      \* what the bank says of each mandate
  approved,  \* whether an approval was ever decided (history variable)
  task,      \* the handlers in flight
  aborts     \* handlers lost so far

db == <<loan, master, doc, sub, account, approved>>
world == <<signer, bank>>
vars == <<db, world, task, aborts>>

Steps == {"mandateRead", "approve", "refer", "rejectRead", "reject", "decline",
          "stepsRead", "reopen", "kfs", "linkRead", "createSub", "linkSub",
          "subActive", "subFailed", "webhookRead", "unlinkSub", "dropSub",
          "inviteRead", "createDoc", "linkDoc", "docStatus", "deleteRead",
          "deleteRow", "unlinkDoc", "dropDoc", "resetLoan", "reinitiate", "master"}

NewMaster == [loan |-> -1, eMandate |-> -1, eSign |-> -1, disbursement |-> -1]
NoTask == [todo |-> <<>>, copy |-> NewMaster, doc |-> None, sub |-> None,
           force |-> FALSE]

Registered(s) == bank[s] \in {"active", "recovered"}

(* Bank statement, KYC and references are verified. The borrower may have  *)
(* a registered mandate from an earlier loan.                              *)
Init ==
  /\ loan = [status |-> "InProcess", verified |-> "none", kfs |-> FALSE,
             doc |-> None, sub |-> None, payout |-> "none", disbursed |-> FALSE]
  /\ master = NewMaster
  /\ doc = [d \in Docs |-> "none"]
  /\ account \in {None, 1}
  /\ sub = [s \in Subs |-> IF s = account THEN "ACTIVE" ELSE "none"]
  /\ bank = [s \in Subs |-> IF s = account THEN "active" ELSE "none"]
  /\ signer = {}
  /\ approved = FALSE
  /\ task = [w \in Workers |-> NoTask]
  /\ aborts = 0

-----------------------------------------------------------------------------
(* The steps of a handler. *)

Idle(w) == task[w].todo = <<>>
At(w, step) == task[w].todo # <<>> /\ Head(task[w].todo) = step

Do(w, t) == task' = [task EXCEPT ![w] = IF t.todo = <<>> THEN NoTask ELSE t]
Go(w) == Do(w, [task[w] EXCEPT !.todo = Tail(@)])
Stop(w) == Do(w, NoTask)

(* A handler starts, perhaps from what it makes of the master row it read. *)
Start(w, todo) == Idle(w) /\ Do(w, [NoTask EXCEPT !.todo = todo])
Begin(w, change, todo) ==
  Idle(w) /\ Do(w, [NoTask EXCEPT !.copy = change, !.todo = todo])
Read(w, change, todo) ==
  Do(w, [task[w] EXCEPT !.copy = change, !.todo = todo \o Tail(@)])

WriteMaster(w) ==
  /\ At(w, "master")
  /\ master' = task[w].copy
  /\ Do(w, [task[w] EXCEPT !.copy = NewMaster, !.todo = Tail(@)])
  /\ UNCHANGED <<loan, doc, sub, account, approved, world, aborts>>

LoanStep(w, step) == At(w, step) /\ Go(w)
UnchangedButLoan == UNCHANGED <<master, doc, sub, account, approved, world, aborts>>

HasDoc(d) == d # None /\ doc[d] \in {"invited", "signed"}
HasSub(s) == s # None /\ sub[s] \in {"INITIALIZED", "ACTIVE", "FAILED"}

(* Rows and requests that were never used: the bounds of an instance. *)
FreeDocs == {d \in Docs : doc[d] = "none"}
FreeSubs == {s \in Subs : bank[s] = "none"}

-----------------------------------------------------------------------------
(* Final approval: the prediction or an admin approves, refers the loan to *)
(* an admin, or rejects it.                                                *)

MayDecide == loan.status = "InProcess" /\ ~loan.disbursed

(* Asking for an earlier mandate refreshes its row if it is Cashfree's. *)
BankStatus(s) == IF Registered(s) THEN "ACTIVE" ELSE "INITIALIZED"
Refreshed ==
  IF Cashfree /\ HasSub(account) THEN [sub EXCEPT ![account] = BankStatus(account)]
                                 ELSE sub
HasMandate == HasSub(account) /\ Refreshed[account] = "ACTIVE"

Approve(w) ==
  /\ MayDecide
  /\ Begin(w, master, <<"mandateRead">>)
  /\ UNCHANGED <<db, world, aborts>>

MandateRead(w) ==
  /\ At(w, "mandateRead")
  /\ sub' = Refreshed
  /\ Do(w, [task[w] EXCEPT
              !.copy.loan = 1,
              !.copy.eMandate = IF HasMandate THEN 1 ELSE @,
              !.sub = IF HasMandate THEN account ELSE None,
              !.todo = <<"approve", "master">>])
  /\ approved' = TRUE
  /\ UNCHANGED <<loan, master, doc, account, world, aborts>>

ApproveLoan(w) ==
  /\ LoanStep(w, "approve")
  /\ loan' = [loan EXCEPT !.verified = "approved",
                          !.sub = IF task[w].sub = None THEN @ ELSE task[w].sub]
  /\ UnchangedButLoan

Refer(w) ==
  /\ MayDecide
  /\ Begin(w, [master EXCEPT !.loan = 0], <<"refer", "master">>)
  /\ UNCHANGED <<db, world, aborts>>

ReferLoan(w) ==
  /\ LoanStep(w, "refer")
  /\ loan' = [loan EXCEPT !.verified = "pending"]
  /\ UnchangedButLoan

FinalReject(w) ==
  /\ MayDecide
  /\ Start(w, <<"rejectRead", "stepsRead", "master">>)
  /\ UNCHANGED <<db, world, aborts>>

(* rejectLoan, the tail of every rejection but the borrower's own. *)
RejectRead(w) ==
  /\ At(w, "rejectRead")
  /\ IF loan.status = "Active"
       THEN Go(w)
       ELSE Read(w, [master EXCEPT !.loan = 2], <<"reject", "master">>)
  /\ UNCHANGED <<db, world, aborts>>

MayReject(w) == task[w].force \/ loan.doc = None
RejectLoan(w) ==
  /\ At(w, "reject")
  /\ IF MayReject(w)
       THEN /\ loan' = [loan EXCEPT !.status = "Rejected", !.verified = "rejected"]
            /\ Go(w)
       ELSE /\ Do(w, [task[w] EXCEPT !.todo = Tail(Tail(@))])
            /\ UNCHANGED loan
  /\ UnchangedButLoan

(* checkAndRejectSteps finds every step approved and rewrites the status. *)
StepsRead(w) ==
  /\ At(w, "stepsRead")
  /\ Read(w, master, <<>>)
  /\ UNCHANGED <<db, world, aborts>>

(* An application without an agreement is declined after ten days. *)
AutoDecline(w) ==
  /\ loan.doc = None
  /\ loan.status \in {"InProcess", "Accepted"}
  /\ Start(w, <<"rejectRead">>)
  /\ UNCHANGED <<db, world, aborts>>

(* An admin rejects the loan. An agreement that is not signed is deleted   *)
(* first, even if the loan has a disbursement and so is not rejected.      *)
ThenReject == IF loan.disbursed THEN <<>> ELSE <<"rejectRead", "stepsRead", "master">>
AdminReject_Signed(w) ==    \* mutant: a signed agreement is no obstacle
  /\ master.loan # 6
  /\ loan.status # "Rejected"
  /\ Idle(w)
  /\ LET delete == IF HasDoc(loan.doc) /\ doc[loan.doc] = "invited"
                     THEN <<"deleteRead", "deleteRow", "unlinkDoc", "master">> ELSE <<>>
     IN  Do(w, [NoTask EXCEPT
                  !.force = TRUE,
                  !.doc = IF HasDoc(loan.doc) THEN loan.doc ELSE None,
                  !.todo = delete \o ThenReject])
  /\ UNCHANGED <<db, world, aborts>>
AdminReject(w) ==
  /\ master.loan # 6
  /\ loan.status # "Rejected"
  /\ HasDoc(loan.doc) => doc[loan.doc] = "invited"
  /\ Idle(w)
  /\ LET delete == IF HasDoc(loan.doc)
                     THEN <<"deleteRead", "deleteRow", "unlinkDoc", "master">> ELSE <<>>
     IN  Do(w, [NoTask EXCEPT
                  !.force = TRUE,
                  !.doc = IF HasDoc(loan.doc) THEN loan.doc ELSE None,
                  !.todo = delete \o ThenReject])
  /\ UNCHANGED <<db, world, aborts>>

(* The borrower declines the offer. *)
MayDecline ==
  /\ master.loan # 6
  /\ loan.status # "Active"
  /\ master.eSign = -1

Decline(w) ==
  /\ MayDecline
  /\ Begin(w, [master EXCEPT !.loan = 2], <<"decline", "master", "stepsRead", "master">>)
  /\ UNCHANGED <<db, world, aborts>>

DeclineLoan(w) ==
  /\ LoanStep(w, "decline")
  /\ loan' = [loan EXCEPT !.status = "Rejected", !.verified = "rejected"]
  /\ UnchangedButLoan

(* An admin moves a rejected loan back to the final verification. *)
Reopen(w) ==
  /\ loan.status = "Rejected"
  /\ loan.sub = None
  /\ master.eMandate = -1
  /\ Begin(w, [master EXCEPT !.loan = 0], <<"reopen", "master">>)
  /\ UNCHANGED <<db, world, aborts>>

ReopenLoan(w) ==
  /\ LoanStep(w, "reopen")
  /\ loan' = [loan EXCEPT !.status = "Accepted", !.verified = "pending"]
  /\ UnchangedButLoan

(* The borrower accepts the key fact statement; one who repaid the last    *)
(* loan in time needs no references, which rewrites the status first.      *)
AcceptKFS(w) ==
  /\ ~loan.kfs
  /\ loan.status = "InProcess"
  /\ \/ Start(w, <<"kfs">>)
     \/ Begin(w, master, <<"master", "kfs">>)
  /\ UNCHANGED <<db, world, aborts>>

AcceptLoan(w) ==
  /\ LoanStep(w, "kfs")
  /\ loan' = [loan EXCEPT !.status = "Accepted", !.kfs = TRUE]
  /\ UnchangedButLoan

-----------------------------------------------------------------------------
(* The mandate. *)

MayLink == master.loan = 1 /\ master.eMandate \in {-1, 2}

GenerateLink(w) ==
  /\ MayLink
  /\ FreeSubs # {}
  /\ Start(w, <<"linkRead">>)
  /\ UNCHANGED <<db, world, aborts>>

(* An earlier row gives up the account number unless a running loan uses it. *)
LinkRead(w) ==
  /\ At(w, "linkRead")
  /\ IF loan.status = "Active" /\ loan.sub = account /\ account # None
       THEN Stop(w) /\ UNCHANGED account
       ELSE /\ account' = None
            /\ Read(w, [master EXCEPT !.eMandate = 0], <<"createSub", "linkSub", "master">>)
  /\ UNCHANGED <<loan, master, doc, sub, approved, world, aborts>>

(* The request is placed with the provider; the account number is unique. *)
CreateSub(w) ==
  /\ At(w, "createSub")
  /\ IF account # None
       THEN Stop(w) /\ UNCHANGED <<sub, account, bank>>
       ELSE \E s \in FreeSubs :
              /\ \A r \in FreeSubs : s <= r
              /\ sub' = [sub EXCEPT ![s] = "INITIALIZED"]
              /\ bank' = [bank EXCEPT ![s] = "pending"]
              /\ account' = s
              /\ Do(w, [task[w] EXCEPT !.sub = s, !.todo = Tail(@)])
  /\ UNCHANGED <<loan, master, doc, approved, signer, aborts>>

LinkSub(w) ==
  /\ LoanStep(w, "linkSub")
  /\ loan' = [loan EXCEPT !.sub = task[w].sub]
  /\ UnchangedButLoan

(* The borrower asks what became of the mandate. *)
IsSuccess_Unasked(s) ==    \* mutant: the bank's answer is not looked at
  sub[s] = "INITIALIZED" \/ master.eMandate # 1
IsSuccess(s) == Registered(s) /\ (sub[s] = "INITIALIZED" \/ master.eMandate # 1)
IsFailure(s) == ~Cashfree /\ bank[s] = "failed" /\ sub[s] = "INITIALIZED"

CheckMandate(w) ==
  LET s == loan.sub
      About(value, step) ==
        Do(w, [NoTask EXCEPT !.copy = [master EXCEPT !.eMandate = value],
                             !.sub = s, !.todo = <<step, "master">>])
  IN  /\ Idle(w)
      /\ HasSub(s)
      /\ \/ IsSuccess(s) /\ About(1, "subActive")
         \/ IsFailure(s) /\ About(2, "subFailed")
      /\ UNCHANGED <<db, world, aborts>>

WriteSub(w, step, status) ==
  /\ At(w, step)
  /\ sub' = [sub EXCEPT ![task[w].sub] = IF HasSub(task[w].sub) THEN status ELSE @]
  /\ Go(w)
  /\ UNCHANGED <<loan, master, doc, account, approved, world, aborts>>

(* Razorpay reports a payment of a mandate that is not answered: captured, *)
(* or not, or not yet. The master row is read after the first write.       *)
ADPaymentWebhook(w) ==
  \E s \in Subs, captured \in BOOLEAN :
    /\ ~Cashfree
    /\ sub[s] = "INITIALIZED"
    /\ bank[s] # "pending"
    /\ captured => Registered(s)
    /\ Idle(w)
    /\ Do(w, [NoTask EXCEPT
                !.sub = s,
                !.copy.eMandate = IF captured THEN 1 ELSE 2,
                !.todo = <<IF captured THEN "subActive" ELSE "subFailed",
                           "webhookRead", "master">>])
    /\ UNCHANGED <<db, world, aborts>>

WebhookRead(w) ==
  /\ At(w, "webhookRead")
  /\ Read(w, [master EXCEPT !.eMandate = task[w].copy.eMandate], <<>>)
  /\ UNCHANGED <<db, world, aborts>>

(* Cashfree reports a failed checkout, or a registration. *)
Callback(s) ==
  /\ Cashfree
  /\ HasSub(s)
  /\ \/ /\ bank[s] \in {"failed", "recovered"}
        /\ sub' = [sub EXCEPT ![s] = "FAILED"]
     \/ /\ Registered(s)
        /\ sub' = [sub EXCEPT ![s] = "ACTIVE"]
  /\ UNCHANGED <<loan, master, doc, account, approved, world, task, aborts>>

(* A mandate is deleted by an admin, or fifteen minutes after it failed.   *)
(* Cashfree is not asked about a mandate whose row says FAILED.            *)
IsRevived(s) == ~Cashfree /\ sub[s] = "FAILED" /\ Registered(s)
MayDelete(s) == (Cashfree /\ sub[s] = "FAILED") \/ ~Registered(s)

DeleteMandate(w) ==
  LET s == loan.sub
      About(value, todo) ==
        Do(w, [NoTask EXCEPT !.copy = [master EXCEPT !.eMandate = value],
                             !.sub = s, !.todo = todo])
  IN  /\ Idle(w)
      /\ HasSub(s)
      /\ \/ IsRevived(s) /\ About(1, <<"subActive", "master">>)
         \/ MayDelete(s) /\ About(-1, <<"unlinkSub", "master", "dropSub">>)
      /\ UNCHANGED <<db, world, aborts>>

UnlinkSub(w) ==
  /\ At(w, "unlinkSub")
  /\ IF loan.sub = task[w].sub
       THEN loan' = [loan EXCEPT !.sub = None] /\ Go(w)
       ELSE Stop(w) /\ UNCHANGED loan
  /\ UnchangedButLoan

DropSub(w) ==
  /\ At(w, "dropSub")
  /\ sub' = [sub EXCEPT ![task[w].sub] = "deleted"]
  /\ account' = IF account = task[w].sub THEN None ELSE account
  /\ Go(w)
  /\ UNCHANGED <<loan, master, doc, approved, world, aborts>>

-----------------------------------------------------------------------------
(* The agreement. *)

MayInvite_Unverified(force) ==    \* mutant: the verification is not looked at
  /\ loan.status = "Accepted" \/ force
MayInvite(force) ==
  /\ loan.status = "Accepted" \/ force
  /\ loan.verified = "approved"

(* The mandate is looked up by the account number, not through the loan. *)
SendInvitation(w, force) ==
  /\ sub' = IF MayInvite(force) THEN Refreshed ELSE sub
  /\ IF MayInvite(force) /\ HasMandate /\ \A d \in Docs : ~HasDoc(d)
       THEN Do(w, [NoTask EXCEPT
                     !.force = force,
                     !.copy = [master EXCEPT !.eSign = 0, !.loan = IF force THEN 1 ELSE @],
                     !.todo = <<"createDoc", "linkDoc", "master">>])
       ELSE Stop(w)
  /\ UNCHANGED <<loan, master, doc, account, approved, world, aborts>>

Invite(w) == Idle(w) /\ FreeDocs # {} /\ SendInvitation(w, FALSE)
InviteRead(w) == At(w, "inviteRead") /\ SendInvitation(w, TRUE)

CreateDoc(w) ==
  /\ At(w, "createDoc")
  /\ \E d \in FreeDocs :
       /\ \A e \in FreeDocs : d <= e
       /\ doc' = [doc EXCEPT ![d] = "invited"]
       /\ Do(w, [task[w] EXCEPT !.doc = d, !.todo = Tail(@)])
  /\ UNCHANGED <<loan, master, sub, account, approved, world, aborts>>

LinkDoc(w) ==
  /\ LoanStep(w, "linkDoc")
  /\ loan' = [loan EXCEPT !.doc = task[w].doc,
                          !.status = IF task[w].force THEN "Accepted" ELSE @]
  /\ UnchangedButLoan

(* The borrower, a webhook or the job asks whether the agreement is signed. *)
CheckStatus_Trusting(w) ==    \* mutant: the provider's answer is not looked at
  LET d == loan.doc
  IN  /\ HasDoc(d)
      /\ doc[d] = "invited"
      /\ Idle(w)
      /\ Do(w, [NoTask EXCEPT
                  !.doc = d,
                  !.copy = IF TRUE
                             THEN [master EXCEPT !.eSign = 1,
                                                 !.disbursement = IF @ = 1 THEN 1 ELSE 0]
                             ELSE [master EXCEPT !.eSign = 0],
                  !.todo = <<"docStatus", "master">>])
      /\ UNCHANGED <<db, world, aborts>>
CheckStatus(w) ==
  LET d == loan.doc
  IN  /\ HasDoc(d)
      /\ doc[d] = "invited"
      /\ Idle(w)
      /\ Do(w, [NoTask EXCEPT
                  !.doc = d,
                  !.copy = IF d \in signer
                             THEN [master EXCEPT !.eSign = 1,
                                                 !.disbursement = IF @ = 1 THEN 1 ELSE 0]
                             ELSE [master EXCEPT !.eSign = 0],
                  !.todo = <<"docStatus", "master">>])
      /\ UNCHANGED <<db, world, aborts>>

DocStatus_Raw(w) ==    \* mutant: the provider's own word is stored
  LET d == task[w].doc
  IN  /\ At(w, "docStatus")
      /\ doc' = [doc EXCEPT ![d] = IF ~HasDoc(d) THEN @
                                   ELSE IF task[w].copy.eSign = 1 THEN "sign_complete" ELSE "invited"]
      /\ Go(w)
      /\ UNCHANGED <<loan, master, sub, account, approved, world, aborts>>
DocStatus(w) ==
  LET d == task[w].doc
  IN  /\ At(w, "docStatus")
      /\ doc' = [doc EXCEPT ![d] = IF ~HasDoc(d) THEN @
                                   ELSE IF task[w].copy.eSign = 1 THEN "signed" ELSE "invited"]
      /\ Go(w)
      /\ UNCHANGED <<loan, master, sub, account, approved, world, aborts>>

(* A day-old invitation is deleted and sent anew. *)
Regenerate(w, d) ==
  /\ loan.status = "Accepted"
  /\ doc[d] = "invited"
  /\ FreeDocs # {}
  /\ Idle(w)
  /\ Do(w, [NoTask EXCEPT !.doc = d, !.force = TRUE,
                          !.todo = <<"deleteRead", "deleteRow", "unlinkDoc", "master",
                                     "inviteRead">>])
  /\ UNCHANGED <<db, world, aborts>>

(* funDeleteEsign: the provider is asked before the row is deleted. *)
MayDeleteDoc ==
  /\ master.eSign = 0
  /\ master.loan # 6
  /\ HasDoc(loan.doc)
  /\ loan.doc \notin signer

DeleteRead_Kept(w) ==    \* mutant: the status keeps saying invited
  /\ At(w, "deleteRead")
  /\ IF ~MayDeleteDoc
       THEN Stop(w)
       ELSE Do(w, [task[w] EXCEPT !.copy = master,
                                  !.todo = IF task[w].doc = loan.doc THEN Tail(@)
                                                                     ELSE <<"deleteRow">>])
  /\ UNCHANGED <<db, world, aborts>>
DeleteRead(w) ==
  /\ At(w, "deleteRead")
  /\ IF ~MayDeleteDoc
       THEN Stop(w)
       ELSE Do(w, [task[w] EXCEPT !.copy = [master EXCEPT !.eSign = -1],
                                  !.todo = IF task[w].doc = loan.doc THEN Tail(@)
                                                                     ELSE <<"deleteRow">>])
  /\ UNCHANGED <<db, world, aborts>>

DeleteRow(w) ==
  /\ At(w, "deleteRow")
  /\ IF doc[task[w].doc] = "invited"
       THEN doc' = [doc EXCEPT ![task[w].doc] = "deleted"] /\ Go(w)
       ELSE Stop(w) /\ UNCHANGED doc
  /\ UNCHANGED <<loan, master, sub, account, approved, world, aborts>>

UnlinkDoc(w) ==
  /\ LoanStep(w, "unlinkDoc")
  /\ loan' = [loan EXCEPT !.doc = None]
  /\ UnchangedButLoan

-----------------------------------------------------------------------------
(* The payout: the row of its disbursement, which the loan may point at.   *)

(* Another service pays signed loans and reports the outcome. *)
Disburse ==
  /\ loan.status = "Accepted"
  /\ loan.payout = "none"
  /\ HasDoc(loan.doc) /\ doc[loan.doc] = "signed"
  /\ master.disbursement = 0
  /\ \/ loan' = [loan EXCEPT !.disbursed = TRUE, !.status = "Active", !.payout = "sent"]
     \/ loan' = [loan EXCEPT !.disbursed = TRUE, !.payout = "failed"]
  /\ UnchangedButLoan /\ UNCHANGED task

(* An admin has it try again. *)
ReInitiate(w) ==
  /\ loan.status = "Accepted"
  /\ loan.payout = "failed"
  /\ Start(w, <<"reinitiate">>)
  /\ UNCHANGED <<db, world, aborts>>

(* Or has the agreement signed again. *)
ReEsign_StillDue(w) ==    \* mutant: the payout stays due
  /\ loan.payout = "failed"
  /\ loan.status = "Accepted"
  /\ HasDoc(loan.doc) /\ doc[loan.doc] = "signed"
  /\ Idle(w)
  /\ Do(w, [NoTask EXCEPT
              !.doc = loan.doc,
              !.copy = [master EXCEPT !.eSign = -1],
              !.todo = <<"dropDoc", "resetLoan", "master", "reinitiate">>])
  /\ UNCHANGED <<db, world, aborts>>
ReEsign(w) ==
  /\ loan.payout = "failed"
  /\ loan.status = "Accepted"
  /\ HasDoc(loan.doc) /\ doc[loan.doc] = "signed"
  /\ Idle(w)
  /\ Do(w, [NoTask EXCEPT
              !.doc = loan.doc,
              !.copy = [master EXCEPT !.eSign = -1, !.disbursement = -1],
              !.todo = <<"dropDoc", "resetLoan", "master", "reinitiate">>])
  /\ UNCHANGED <<db, world, aborts>>

DropDoc(w) ==
  /\ At(w, "dropDoc")
  /\ doc' = [doc EXCEPT ![task[w].doc] = "deleted"]
  /\ Go(w)
  /\ UNCHANGED <<loan, master, sub, account, approved, world, aborts>>

ResetLoan(w) ==
  /\ LoanStep(w, "resetLoan")
  /\ loan' = [loan EXCEPT !.doc = None, !.disbursed = FALSE]
  /\ UnchangedButLoan

ReInitiateStep(w) ==
  /\ LoanStep(w, "reinitiate")
  /\ loan' = IF loan.payout = "failed" /\ loan.status = "Accepted"
               THEN [loan EXCEPT !.payout = "none", !.disbursed = FALSE] ELSE loan
  /\ UnchangedButLoan

(* The payout service reports an active loan. *)
LoanIsActive_Unasked(w) ==    \* mutant: the loan's status is not looked at
  /\ Begin(w, [master EXCEPT !.loan = 6, !.disbursement = 1], <<"master">>)
  /\ UNCHANGED <<db, world, aborts>>
LoanIsActive(w) ==
  /\ loan.status = "Active"
  /\ Begin(w, [master EXCEPT !.loan = 6, !.disbursement = 1], <<"master">>)
  /\ UNCHANGED <<db, world, aborts>>

-----------------------------------------------------------------------------
(* The borrower at the bank and at the signature provider. *)

BankAnswers(s, answer) ==
  /\ \/ bank[s] = "pending" /\ answer \in {"active", "failed"}
     \/ bank[s] = "failed" /\ answer = "recovered"
  /\ bank' = [bank EXCEPT ![s] = answer]
  /\ UNCHANGED <<db, signer, task, aborts>>

Sign(d) ==
  /\ doc[d] # "none"
  /\ d \notin signer
  /\ signer' = signer \union {d}
  /\ UNCHANGED <<db, bank, task, aborts>>

(* A handler dies between two awaits, or a write of it fails. *)
Abort(w) ==
  /\ ~Idle(w)
  /\ aborts < MaxAborts
  /\ aborts' = aborts + 1
  /\ Stop(w)
  /\ UNCHANGED <<db, world>>

Handle(w) ==
  \/ Approve(w) \/ Refer(w) \/ FinalReject(w) \/ AutoDecline(w) \/ AdminReject(w)
  \/ Decline(w) \/ Reopen(w) \/ AcceptKFS(w) \/ GenerateLink(w) \/ CheckMandate(w)
  \/ DeleteMandate(w) \/ Invite(w) \/ CheckStatus(w) \/ ReInitiate(w) \/ ReEsign(w)
  \/ LoanIsActive(w) \/ ADPaymentWebhook(w) \/ \E d \in Docs : Regenerate(w, d)

Continue(w) ==
  \/ WriteMaster(w)
  \/ MandateRead(w) \/ WebhookRead(w)
  \/ ApproveLoan(w) \/ ReferLoan(w) \/ RejectRead(w) \/ RejectLoan(w) \/ StepsRead(w)
  \/ DeclineLoan(w) \/ ReopenLoan(w) \/ AcceptLoan(w)
  \/ LinkRead(w) \/ CreateSub(w) \/ LinkSub(w) \/ UnlinkSub(w) \/ DropSub(w)
  \/ WriteSub(w, "subActive", "ACTIVE") \/ WriteSub(w, "subFailed", "FAILED")
  \/ InviteRead(w) \/ CreateDoc(w) \/ LinkDoc(w) \/ DocStatus(w)
  \/ DeleteRead(w) \/ DeleteRow(w) \/ UnlinkDoc(w)
  \/ DropDoc(w) \/ ResetLoan(w) \/ ReInitiateStep(w)

World ==
  \/ \E s \in Subs : Callback(s) \/ \E a \in {"active", "failed", "recovered"} : BankAnswers(s, a)
  \/ \E d \in Docs : Sign(d)
  \/ Disburse

Next == World \/ \E w \in Workers : Handle(w) \/ Continue(w) \/ Abort(w)

Spec == Init /\ [][Next]_vars
=============================================================================
