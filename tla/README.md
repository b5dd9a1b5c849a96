# Loans, refunds, referrals and proceedings: models, checks and proofs

This directory holds TLA+ models of the lending backend in `src/`, the TLC
configurations that check them, and proofs checked by TLAPS. They follow a loan
along its life: the application with its mandate and agreement
(`Onboarding`), the collection of its instalments (`Repayment`), what was paid
in excess (`Refund`), the rewards for whoever brought the borrower
(`Referral`), and the proceedings against a borrower who does not pay
(`Legal`).

Paths below are relative to the repository; *TS* is
`src/src/shared/transaction.service.ts` and *CS* is
`src/src/shared/calculation.service.ts`.

## 1. The system

The backend is one NestJS application (NodeJS, Sequelize, PostgreSQL, Redis)
that gives small loans, collects them in two to four EMIs and follows up on
what is overdue. The repository has about 900 source files and almost no tests:
what the program does is in the services. Its only written rules are the
"Logics" list of `src/README.md` (IDV, AE, EC, CSC, OCC, RPC).

### 1.1 Inventory

| Component | State it keeps | Operations that change it | Hard part | What makes it correct | Module |
|---|---|---|---|---|---|
| Collection (`TransactionSharedService`, TS) | `TransactionEntity` rows, EMI rows, `loanStatus`, user row | create an order, poll, webhooks, batch answers, `markTransactionAsComplete`, archive | every `await` lets another handler in; no transaction, no lock | collected money is booked once; an EMI is paid exactly when its rows cover it; a loan closes when, and only when, it is recovered | `Repayment` |
| Repayment arithmetic (`CalculationSharedService`, CS) | none of its own | `splitPaymentsforPI`, `getFullPaymentData`, `getFullPayDataByTransId` | boundaries: zero left, refundable rest, charges already paid | the parts of a payment add up to the payment | `Repayment` |
| EMI service (`middleware/admin/emi`) | `payment_due_status`, penalties | `updateAllEmiDues`, daily penalties | runs next to handlers that settle the same rows | only unpaid EMIs past their date become overdue | `Repayment` |
| Refunds (`middleware/admin/transaction/refund.service.ts`) | REFUND rows, trace rows `T7=` | place, poll, re-initialise, automation | trace row, refund row and gateway are three awaits; a lost answer | nothing is refunded twice, nothing beyond the excess | `Refund` |
| Referral (`referral.share.service.ts`) | referral rows, history, points of the referrer, payouts | `addReferral`, `updateReferral`, withdrawal | read, add, write back; three tables per reward | no point invented, no payout beyond what was earned | `Referral` |
| Loan application (`eligibility*.service.ts`, `loan*.service*.ts`) | `loanStatus`, `manualVerification`, status column of the master row | approve, refer, five ways to reject, reopen, accept the key fact statement | the whole status column is read, changed in memory and written back | a loan is paid only after it was approved and then signed | `Onboarding` |
| Mandates (`mandate.service.ts`, `mandate.service.v4.ts`) | `SubScriptionEntity`, the borrower's account row, `subscriptionId` | create, check, webhook, delete, revive | webhook against poll, delayed webhooks | only what the bank registered counts as registered | `Onboarding` |
| eSign (`esign*.service.ts`) | `esignEntity`, `esign_id` | invite, check, delete, regenerate | the borrower signs while a handler decides | only what was signed counts as signed | `Onboarding` |
| Disbursement (`disbursementDeshboard.service.ts`) | `status.disbursement`, disbursement row | re-initiate, re-sign, report active | the payout is another service | no payout without approval, mandate and signature | `Onboarding` |
| Legal (`legal.service.ts`) | `LegalCollectionEntity`, `legalId` and `legalType` of the loan | notice, case, stages of the case, withdrawal, disposal, closing | copy, mark as history, link: three awaits | no stage without its predecessor; a closed loan has no open case | `Legal` |
| Assignment (`assignment.service.ts`, Redis) | round-robin indices | assign a loan or a case | index read and written in two awaits | - | no |
| Passcode and sign-in (`passcode.service.v4.ts`) | hash in the user row | set, check, change | sequential per request | - | no |
| Banking, KYC, employment | statements, documents, form steps | uploads and third-party checks | data, mostly sequential per user | amount eligibility (AE) | no |
| Defaulters, CRM, Tally, reports | - | queries | - | - | no |
| Gateways (`thirdParty/razorpay`, `cashfree`, `icici`, Signdesk) | orders, refunds, mandates | outside the repository | duplicated, late, lost and reordered answers | - | external in each |
| Persistence (`repositories`) | the tables | one statement per call | an exception becomes the value `k500Error` | - | `Abort` in each |

`PROJECT.json` lists the same parts with their status and, under `hazards`,
what can go wrong in this code at the line where it bites. Why a part has no
module is said in section 6.

### 1.2 How the parts of the collection interact

1. The user's app or an admin asks for a payment order
   (`funCreatePaymentOrder`, TS 3432). The price is computed from the EMI
   columns, the row is created INITIALIZED, the gateway gets an order.
2. The gateway captures or fails it, at any time, and says so by webhook
   (`checkRazorpayManualWebhook`, `checkRazorpayAutoDebitsWebhook`), by batch
   file (`checkSDAutoDebits`), or when asked (`checkPaymentOrder` and the
   functions it calls, also called by scheduled endpoints).
3. Each of these reads the row, filtered by status, and then calls
   `markTransactionAsComplete` with the values it read. That is an async
   function with dozens of awaits: between any two of them, other handlers of
   the same process run.
4. On COMPLETED it takes back the penalty of a debit that was placed in time,
   re-bifurcates the payment of an overdue EMI (possibly splitting it over new
   rows and calling itself for each), writes the row, settles the EMI, updates
   the user status and the `paid_*` columns, and closes the loan if nothing is
   left. On FAILED it writes the row and may levy the bounce charge.
5. Two maintenance endpoints work on the same rows: `updateAllEmiDues` flags
   EMIs past their date, `addToArchiveInitializedTransactions` moves old
   INITIALIZED rows away.

What is shared is only the database. What orders the handlers is nothing but
the status filters of their first query and a few unique constraints.

### 1.3 How the components hand over to each other

* `Onboarding` ends with `loanIsActive`: from there on the loan has EMIs
  (`Repayment`) and the referrer of the borrower a reward (`Referral`,
  milestone LOAN_ACTIVE).
* `closeTheLoan` (TS) rewards the referrer (LOAN_COMPLETE) and closes the
  proceedings (`legalCloseLegal`). `Repayment` models the closing from the side
  of the money, `Referral` and `Legal` each take it as a handler that starts
  when the loan ends and is cut at its own awaits.
* COMPLETED rows of `Repayment` are the `paid` of `Refund`; the paid or due
  instalments are its bill. REFUND rows are rows of the same table that
  `Repayment` leaves out.
* A full-payment debit that failed for an overdue loan makes the loan eligible
  for a notice (`makeLegalEligible`): the `ReportDebit` of `Legal`.

The models are separate because these handovers go one way: nothing that the
later component does is read by a modelled guard of the earlier one. What
crosses a border (a booked payment, the end of the loan, a failed debit) is an
action of the world or an entry of a handler in the model that receives it.

## 2. The modules

| Module | Role |
|---|---|
| `Repayment` | collection: tables, gateway, handlers; `Spec`, `FairSpec` |
| `LoanLedger`, `OrderBook` | abstract: instalments settled for good, charged at most once, loan closed only when all are settled; a captured order is booked once, in full, in one visible step |
| `Refund` | refunds: rows, trace rows, gateways, handlers; `Spec`, `FairSpec` |
| `RefundOnce` | abstract: money is sent back at most once for an instalment, and what the bank decides is final |
| `Referral` | sign-ups, rewards, withdrawals |
| `Onboarding` | application, mandate, agreement, payout |
| `LoanApplication` | abstract: applied, approved, signed, paid, and the ways back |
| `Legal` | proceedings, the debits before them and the end of the loan |
| `<M>Properties` | type invariant, safety, action and liveness properties, refinement mappings and, for two of them, the inductive invariant |
| `MC<M>` | sets of users, handlers, payments and orders for the runs |
| `<M>Proofs` | theorems for all values of the constants |
| `RepaymentMoneyProofs`, `LegalCalmProofs` | theorems about handlers that do not overlap: the money of a loan, the proceedings of a loan |
| `SumTheorems` | sums of a function over a finite set: what the proofs need to know of `SumFunctionOnSet` |

All modules share one shape. A handler is a worker; an action is what runs
between two awaits that matter, in the order of the source; `pc` and `task` hold
where it stands and its local variables (in `Onboarding` the steps it still has
to do, `task.todo`). `Abort` is a restart of the process between two awaits, or an early
return after `k500Error`: the handler is gone, the database stays as it is.

An `await` is a step of its own when another handler could change what was read
before it or see what was written before it. Queries are one step only where
the text of a module or section 2 says so.

### 2.1 State of `Repayment`

| Variable | In the code |
|---|---|
| `row` | `TransactionEntity`. `<<p, 1>>` is the row made for order `p`, `<<p, k>>` the row with transactionId `...DMYk` split off it. `part` is its bifurcation: EMI, principal and interest together, charges, refundable rest |
| `emi` | `EmiEntity`: `paid` is `payment_status = '1'`, `done` is `payment_done_date` set, `due` is `payment_due_status = '1'`, `left` is `emi_amount`, `charge` is `bounceCharge` with GST, `paidPi` and `paidCharge` are the `paid_*` columns |
| `loan`, `user` | `loanStatus`; the user's `loanStatus`, `completedLoans` and the number of LOAN_COMPLETE referral entries |
| `trace` | EMIs with a row `TYPE=1=EMI=<id>` in `SystemTraceEntity` (unique) |
| `late` | the calendar: EMIs whose date is before today |
| `gw`, `price`, `events` | the gateway, external: state and price of each order, webhooks it has sent (each may arrive any number of times) |
| `pc`, `task` | per handler: the await at which it stands, and its local variables |
| `aborts`, `charges` | a bound on lost handlers; history of written bounce charges |

### 2.2 Actions of `Repayment`

| Action | Code |
|---|---|
| `CreateOrder` | `funCreatePaymentOrder` with `prePareAmount`, `prePareTransaction` |
| `Poll`, `ManualWebhook`, `SigndeskBatch` | entry points with their status filters |
| `ResetPenalty` | `checkAutoDebitResAndUpdatePenalty` |
| `Bifurcate`, `SplitPart` | `reCalculateBifurcation`: the decision, and the loop over the parts |
| `UpdateTransaction` | re-read and update of the row in `markTransactionAsComplete` |
| `BounceRead`, `BounceTrace`, `BounceWrite` | `addEcsBounceCharge`: three statements, three actions |
| `PartRead`, `PartWrite` | `checkAndUpdateEMIPartPay` |
| `FullRead`, `FullWrite` | `getFullPayDataByTransId`, one EMI per step |
| `StatusRead`, `StatusWrite` | `checkUserStatus`: the EMIs are read, the user row is written |
| `RecalcRead`, `RecalcWrite` | `reCalculatePaidAmounts`, `updatePaidEMIBifurcation`, one EMI per step |
| `CloseCheck`, `CloseTheLoan`, `ReadUser`, `GiveReferral`, `CountLoan` | `isEligibleForLoanClose`, `closeTheLoan`, `addReferral` |
| `DuesRead`, `DuesWrite` | `updateAllEmiDues` |
| `ArchiveRead`, `ArchiveDelete` | `addToArchiveInitializedTransactions` |
| `Abort` | restart of the process, or an early return after `k500Error` |
| `GatewayCapture`, `GatewayFail`, `DatePasses` | outside |

Reads taken together are the queries of `isEligibleForLoanClose`, the check of
`canCheckBifurcation` with the EMIs read by `splitTransaction`, and the row
filter of an entry point with the gateway's answer. A poll by the app names its
transaction, whose status is then not asked for: `Polled` lets it find FAILED
rows as well as INITIALIZED ones. For an entry point this
loses nothing: a COMPLETED answer is re-checked against the row at `Bifurcate`,
and a FAILED one is written in a later step anyway.

### 2.3 What `Repayment` abstracts

* One loan of one user. Loans share nothing in this code but the referrer.
* Money is counted in units larger than the 10 rupees of rounding the code
  forgives, so "`<= 10` left" is "nothing left"; principal and interest of an
  EMI are one number, as are all its charges, of which only the bounce charge
  is ever levied here. A rest that the code clamps at 0 is clamped.
* Loans with `MODIFICATION_CALCULATION` only: on older ones the charge sits in
  the penalty column.
* A full payment asks for the remaining principal and interest and the charges;
  saved interest and foreclosure charges are left out, and so are the
  `fullPay*` columns, which are read for paid EMIs only.
* Counters stop at `MaxCount`; lost handlers at `MaxAborts`.
* The referral flow is switched on and the user has a referrer.
* A row's utr is not modelled; transactionId is the row's id, unique as in the
  table.
* The second duplicate check of a split (TS 978-1003) is implied by the first
  read in the same step.

### 2.4 What `Repayment` leaves out

Waivers and settlements (`updateWaiverTransaction`, `updateWaiver`,
`createWaiverPaymentOrder`), promises to pay (`checkPTPTransactionStatus`), NOC
and mails, legal calls, CLTV, `isPartPayment`, the master row, placing of auto
debits and their limits, entries made by an admin with a utr
(`checkAndUpdatePaymenst`), REFUND rows. They either change tables nothing here
reads, or belong to another module, or are named in section 6.

### 2.5 `Refund`

| Variable | In the code |
|---|---|
| `paid`, `due` | COMPLETED payments of the loan; instalments that are paid or whose date has come |
| `row` | REFUND rows: status, EMI, amount, the payment they give back (`NoTran`: to the bank account), the failed refund they come after (part of `transactionId`), and what their response names: nothing, the payment, the refund, an error |
| `trace` | EMIs with a `SystemTraceEntity` row `T7=L<loan>=E<emi>` (unique) |
| `gw` | external: what became of the refund of each row |
| `losses`, `aborts` | lost answers and lost handlers, bounded |

| Action | Code |
|---|---|
| `Place`, `Automate` | `checkAndPlaceRefund`, `refundAutomation` |
| `ReadPaid`, `ReadNamed`, `ReadEmis`, `ReadRows` | the four queries of `getRefundablesData`: the sum paid, the EMIs that rows name, the EMIs billed, the rows again for the EMI to refund |
| `ReadTransactions` | `getTransactionDataFroRfund`, `prePareRefundAmount`: which payments give back how much |
| `CreateTrace`, `CreateRow`, `CallGateway`, `SaveAnswer` | the loop over the parts: trace row, `refundInitialized` |
| `PollRead`, `PollAsk`, `PollSettle` | `checkPendingRefund`, one row per step |
| `CheckFailed`, `DeleteAndPlace` | `reInitializeRefund` |
| `BookPayment`, `FallsDue`, `GatewayPays`, `GatewayRejects` | outside |

What a reader of the code may not expect, and what the model keeps:

* The parts of one refund share the EMI, so the trace row of the first one
  stops all others: only the first part of a split refund is placed.
* A rejected refund that is re-initialised is deleted and then stopped by
  its own trace row: nothing is refunded. That is also what keeps a refund
  whose answer was lost from being paid twice.
* A lost answer makes a row FAILED although the gateway may pay. Rows without a
  response of the gateway (ICICI, bank account) are re-initialised unasked.
* A handler that dies between row and gateway leaves an INITIALIZED row, which
  blocks every further refund of the loan.
* The four queries of the excess are four awaits. A payment booked after the
  first is not counted, an instalment that falls due before the third is
  billed: both only lower the excess (`RefundNeverOver` is proved with them).
* The automation passes over loans with a failed refund. The model asks when it
  starts, the code with the last of the four queries; a failed refund that
  appears in between leads to what an admin's `Place` may do at any time.

Abstracted: money in units above the 10 rupees forgiven, the 150-day limit on
payments, uniqueness of the utr, the FULLPAY row chosen among several, the
on-time and waiver filters of the automation, names, mails, and the read-only
list `getAllRefundedData`.

### 2.6 `Referral`

| Variable | In the code |
|---|---|
| `user` | `registeredUsers`: who referred the user, the referral row, `referralPoints`, `completedLoans` |
| `ref` | `ReferralEntity`: referrer, referred, points |
| `granted` | sum of the `ReferralHistoryEntity` rows of a referrer |
| `progress` | the milestone the master row shows |
| `payout` | `ReferralTransactionEntity` rows, external in what becomes of them |
| `disturbed` | history: users for whom two handlers overlapped or one died |

| Action | Code |
|---|---|
| `SignUp`, `CreateReferral`, `LinkReferral` | `checkReferralCode`, then `addReferral` for a new user |
| `Reward`, `CreateHistory`, `UpdateReferral`, `UpdatePoints` | `addReferral` from its check of the milestone on, `updateReferral`: history first, then the referral row, then the wallet |
| `CloseLoan`, `CountLoan` | `closeTheLoan`: the reward for a loan closed on time, then `completedLoans` |
| `Withdraw`, `RequestPayout` | `placeReferralWithdraw`, `initializedReferral` |
| `CompleteKyc`, `ActivateLoan`, `SettlePayout` | the other services that move the milestone; the scheduler that pays |

Abstracted: points are counted in rewards of 25 rupees, the reads of a
withdrawal are one step, a user closes one loan. Left out: the code generator,
the app-configuration switch, the defaulter and bank checks of a withdrawal,
notifications. The scheduler and the deduction from the wallet are other
services.

### 2.7 `Onboarding`

| Variable | In the code |
|---|---|
| `loan` | `loanTransaction`: `loanStatus`, `manualVerification`, key fact statement, `esign_id`, `subscriptionId`, `loan_disbursement_id` (`disbursed`), state of the payout |
| `master` | the status column of the master row: `loan`, `eMandate`, `eSign`, `disbursement` |
| `doc`, `sub` | `esignEntity`, `SubScriptionEntity` |
| `account` | the mandate that holds the borrower's account number (unique) |
| `signer`, `bank` | external: what the borrower signed, what the bank says |
| `task.copy`, `task.todo` | the status as the handler read and changed it; the writes it still has to do, in order |
| `approved` | history: whether an approval was ever decided |

| Action | Code |
|---|---|
| `Approve`/`MandateRead`/`ApproveLoan`, `Refer`/`ReferLoan`, `FinalReject` | `finalApproval`, `proceedForApproval`, `proceedForManualVerification` |
| `RejectRead`, `RejectLoan`, `StepsRead`, `AutoDecline`, `AdminReject` | `rejectLoan` with `checkAndRejectSteps`, and its callers; an admin's rejection deletes the agreement first and asks about a payout afterwards |
| `Decline`, `Reopen`, `AcceptKFS` and their loan steps | `decline`, `reinitiateToFinalBucket`, `acceptKFS` |
| `GenerateLink`, `LinkRead`, `CreateSub`, `LinkSub` | `generateLink` (v4 and shared) |
| `CheckMandate`, `Callback`, `WriteSub` | `checkStatus` and `validateCallbackData` of `mandate.service.v4.ts` |
| `ADPaymentWebhook`, `WebhookRead` | the mandate part of `checkRazorpayAutoDebitsWebhook` (TS 4815) |
| `DeleteMandate`, `UnlinkSub`, `DropSub` | `deleteMandate` |
| `Invite`, `CreateDoc`, `LinkDoc` | `inviteForESign` with `validateAgreementRequest` |
| `CheckStatus`, `DocStatus` | `checkStatus` of `esign.shared.service.ts` |
| `Regenerate`, `DeleteRead`, `DeleteRow`, `UnlinkDoc`, `InviteRead` | `regenerateEsign`, `funDeleteEsign` of `esign.service.ts` |
| `ReInitiate`, `ReEsign`, `DropDoc`, `ResetLoan` | `reInitiateDisbursement`, `reEsingAfterDisbursementFailed` |
| `LoanIsActive` | `loanIsActive` |
| `WriteMaster` | the last write of each: the whole status column |
| `BankAnswers`, `Sign`, `Disburse`, `ReInitiateStep` | outside |

Merged or abstracted: `manualVerification` '1' and '3' are both "approved";
`checkIfAnyUserNotCloseLoan` is a case of `LoanIsActive`. A registration at the
bank is final (`BankAnswers`): a mandate that the bank cancels later, and that
Razorpay reports as rejected when it is asked again, is not modelled. So
`MandateIsReal`, `AgreementIsEarned` and `PaidIsAuthorised` say that a mandate
was registered, not that it still is; `PayableIsOrdered` says it of the row.
Left out: Signdesk, renaming a mandate whose limit is too small, yearly expiry, the text and stamps
of the agreement, the device-2 route, the refusal of foreign addresses,
`getAmountRange`, references, blacklist, dates and cool-off. `funDeleteEsign` of
`esign.shared.service.ts` is called by nobody.

### 2.8 `Legal`

| Variable | In the code |
|---|---|
| `loan` | `loanStatus`, `legalType`, `legalId`, whether it has a `followerId` |
| `row` | `LegalCollectionEntity`: type, `otherDetails.isHistory`, case number, debit of a notice |
| `debit` | FULLPAY auto debits of the loan: status, whether the bank was asked (`sent`: it has a utr and is not AD_NOT_PLACED), the remark that a notice was made of one |
| `stale` | debits that are older than seven days |
| `trace` | kinds of disposal with a trace row `TYPE=3` or `TYPE=4` (unique) |
| `calm` | history: so far no two handlers overlapped and none died |

Every stage is a new row: `Create` copies the current one with a new type,
`Mark` makes the old one history, `Link` points the loan at the copy
(`createAndUpdateNewLegal`). These three are shared by every handler that moves
a case.

| Action | Code |
|---|---|
| `CreateLegalNotice`, `ReadDebits`, `CreateNotice`, `RemarkDebit` | `funCreateLegalNotice`: the loan, then its newest refused debit; `createLegalPdf`, which may make no document and then no notice; `updateLegalProcessTransaction` |
| `CheckDebit`, `PlaceDebit`, `DebitPlaced` | `placeRemainingAutoDebit`; the debit is taken, refused at once, or not placed, with its row written or without |
| `ReportDebit`, `FailDebit`, `MakeLegalEligible`, `NoticeAgain` | the FAILED path of `markTransactionAsComplete`, `makeLegalEligible` |
| `MoveToCaseToBeFile`, `MoveToProgress`, `FillingInProgress`, `UploadSummons`, `UploadWarrent` | the stages |
| `CaseWithdrawal`, `AssignToCollection`/`CalcuLoanRepayment`/`AssignLoan` | withdrawal; back to collection |
| `SevenDaysPass` | the calendar, external |
| `PlaceAutodebitAfterCase`, `RetireRow` | `funPlaceAutodebitAfterCase` |
| `CloseTheLoan`, `CloseRead`, `CloseLegal` | `closeTheLoan`, `legalCloseLegalAndCloseLoan` |
| `CaseDisposal`, `DisposalViaFile`, `TraceDisposal`, `DisposalRead` | `funCaseDisposal`, `caseDisposalViaFile` (the trace row comes before the disposal) |
| `RemoveDuplicates`, `MarkDuplicates` | `removeDuplicateLegel` |

Abstracted: what a partial payment must reach before a case goes back to
collection ("less than 5000 left and something left") is a choice; so is whether
a document can be made; the 15 and 30 days between stages pass freely, and a
debit may or may not be answered before its seven days are over. "No advocate
found" ends a handler like an error does (`Abort`). The failure of a debit of
this loan always starts the notice anew: `makeLegalEligible` does so when
`isRealTime`, and its one caller passes "the type is FULLPAY", which these
debits all are. A debit that Cashfree or Signdesk refuse at once is written FAILED
without a utr while `createPaymentOrder` still answers that it was placed:
`legalType` is then AUTODEBIT with nothing pending; and a row whose request was
lost stays INITIALIZED without a utr, is answered by nobody and holds back the
next debit for seven days. Both are outcomes of `PlaceDebit`. The subStatus
AD_NOT_PLACED that a later poll passes on is not written by
`markTransactionAsComplete`, so a debit once sent leads to a notice.

Left out: demand letters (rows of their own that no handler moves), mails and the
filters on their success, advocates, consignments, hearings, the legal charge,
the migration service, code behind an early `return {}`.

## 3. What is checked

TLC, two workers, every passing run exhaustively. "Quiet" means that no handler
is in flight.

| Run | Instance | Properties | States |
|---|---|---|---|
| `serial` | 2 EMIs of 2, charge 2, 2 orders (instalment by app, polled or Signdesk debit, full payment by app or debit, part payment by app), 1 handler, both jobs | `TypeOK`, `CoveredIsSettled`, `LeftIsOwed`, `BilledIsOwed`, `OneReferral`, `ReferralOnTime`, `ImplementsOrderBook` | 972,892 |
| `race` | 2 EMIs of 1, 2 orders (full payment, auto debit), 2 handlers, 1 lost | `NoPhantomPayment`, `ChargedOnce`, `ClosedOnlyWhenPaid`, `ImplementsLedger` | 1,327,782 |
| `crash` | 2 EMIs, 2 orders (those of `serial` and part payments by debit), 1 handler at a time, 1 lost, both jobs | `NeverOverbooked`, `PaidIsFunded`, `IndInv` | 2,278,928 |
| `progress` | 2 EMIs, 1 order (auto debit, part, full), 1 handler, dues job, `FairSpec` | `CapturedIsBooked`, `PaidLoanCloses` | 1,456 |
| `refund` | 2 EMIs, 3 payments by the three kinds of gateway, 1 handler, 1 lost, `FairSpec` | `TypeOK`, `MoneyHasRow`, `NeverOverRefunded`, `AllocationSound`, `PendingSettles` | 61,226 |
| `refund_race` | a full payment and a late one, 2 handlers, 1 lost answer | `OneRefundPerEmi`, `BooksAreTrue`, `ImplementsRefundOnce` | 1,000,195 |
| `referral` | 3 users, one with an earlier loan, 2 handlers, 1 lost, 2 rewards, 2 payouts | `TypeOK`, `WalletIsEarned`, `WalletAgrees`, `PayoutsAreCovered` | 1,403,778 |
| `onboarding` | Razorpay, 2 mandates, 2 agreements, 1 handler, 1 lost | `TypeOK`, `MasterAgrees`, `PayableIsOrdered`, `FollowsTheApplication` | 109,588 |
| `onboarding_race` | Cashfree and its webhook, 1 mandate, 1 agreement, 2 handlers | `MandateIsReal`, `SignatureIsReal`, `AgreementIsEarned`, `PaidIsAuthorised` | 2,502,894 |
| `legal` | 9 rows, 2 debits, 1 handler, 1 lost | `TypeOK`, `CaseByTheBook`, `OneProceeding`, `ClosedHasNoCase` | 1,274,460 |

What the properties say:

* `PaidIsFunded`: the money in COMPLETED rows covers every EMI marked as paid.
* `CoveredIsSettled`: an EMI whose rows cover it is marked as paid.
* `LeftIsOwed`, `BilledIsOwed`: `emi_amount`, and the price the next order for
  an unpaid EMI would have, agree with its COMPLETED rows.
* `ImplementsOrderBook`: from outside, a captured order is booked exactly once
  at its price, however it is split; nothing booked changes again.
* `NeverOverbooked`: the part of it that survives crashes.
* `NoPhantomPayment`: nothing is COMPLETED that was not captured.
* `ChargedOnce`, `ClosedOnlyWhenPaid`: what any interleaving preserves.
* `ImplementsLedger`: both, as behaviour: settled, levied and closed only ever
  grow, one instalment at a time.
* `OneReferral`, `ReferralOnTime`: the reward for the first loan.
* `CapturedIsBooked`, `PaidLoanCloses`: what must happen in the end.
* `OneRefundPerEmi`, `ImplementsRefundOnce`: no interleaving, death or lost
  answer makes a gateway send money twice for one instalment.
* `BooksAreTrue`, `MoneyHasRow`: rows say what the gateway did, and money on
  its way has a row.
* `NeverOverRefunded`, `AllocationSound`: never more than the excess the
  handler read, taken from payments along RPC 1.0.0 and RPC 1.1.0.
* `PendingSettles`: a decided refund that can be asked about is written.
* `WalletIsEarned`: overlapping rewards may lose points but invent none;
  `WalletAgrees`: without overlap, wallet, referral rows and history agree;
  `PayoutsAreCovered`: without overlap, payouts stay within what was earned.
* `MandateIsReal`, `SignatureIsReal`, `AgreementIsEarned`, `PaidIsAuthorised`:
  whatever stale copy of the status column is written back, it shows nothing
  that never happened.
* `MasterAgrees`, `PayableIsOrdered`: one after the other, the handlers keep the
  status column true, and what the payout service finds due is in order.
* `FollowsTheApplication`: also when a handler dies on the way, a loan is paid
  only after it was approved and then signed, and a signed one is not rejected.
* `CaseByTheBook`: under any interleaving, no stage without what must precede it.
* `OneProceeding`, `ClosedHasNoCase`: while handlers do not overlap and none
  dies, one proceeding per loan and none open after its end.

### 3.1 Why these bounds

*What a run with one handler does not show.* The money properties of `serial`
and `crash`, `NeverOverRefunded`, `MasterAgrees`, `PayableIsOrdered`,
`FollowsTheApplication`, `OneProceeding` and `ClosedHasNoCase` are checked where
handlers follow one another, because with two of them the code breaks them
(section 3.3). The hazards of `PROJECT.json` that need two handlers therefore name
only what the runs `race`, `refund_race`, `referral` and `onboarding_race` or a
theorem without such a hypothesis can see, and a note says what nothing covers.

*Collection.* Two EMIs are the fewest for which "oldest first", splitting over
several rows and "all EMIs paid" mean something. Two orders are the fewest that
can compete for an EMI. An EMI of two units and a charge of two units can both
be paid partly, which is where columns and rows may part. With that price a
part payment by auto debit as well would double `serial`; it is among the kinds
of `crash`, where prices are smaller. Signdesk takes orders for one EMI in both.
Two handlers suffice
for every race here: each one is a handler that reads before and writes after a
step of another. One lost handler is one crash; a second crash only repeats it,
because a lost handler leaves nothing behind but the database.

*Refunds.* Three payments by the three kinds of gateway make every order of
preference and a split over two payments reachable; three rows leave room for a
refund, its re-initialisation and one for the other instalment. Two handlers
run with two payments, one of them a full payment, which belongs to no single
instalment.

*Referral.* Two new users and one referrer with an earlier loan: two rewards of
one referrer can overlap, and a referred user can refer. Two rewards reach the
smallest withdrawal, which is two rewards here and four in the code.

*Application.* Two mandates and two agreements are needed for an old one to be
mistaken for the new one, and are enough for every deletion to be followed by a
second try. With two handlers one of each keeps the instance finite in minutes:
the stale status column, not the number of rows, is what the race is about. The
race of Razorpay's webhook with the borrower's check needs the other provider:
with two handlers and Razorpay (1,653,392 states) `MandateIsReal` was checked as
well, and it is proved for both.

*Legal.* Nine rows hold the longest way: notice, to file, in progress, filed,
summons, warrant, withdrawal, disposal, and one duplicate. Two debits are two
notices. The run has one handler. Interleavings are not left to the instance:
`CaseByTheBook` is proved for any number of handlers and rows (section 4); two
handlers with five rows and one debit (1,216,952 states) were checked as well.

Symmetry of orders, users and handlers is used for safety only.

### 3.2 Fairness

`FairSpec` of `Repayment` assumes that a started handler goes on (the event loop
runs it until it ends: weak fairness of `Advance`), that an INITIALIZED order is
asked about again and again (the app polls, endpoints are called on schedule:
strong fairness of `Poll`, since a busy process disables it now and then), and
that a gateway repeats the webhook of a capture until it is answered. Nothing is
assumed of users, of the calendar, of the jobs or of failed events. The archive
job is left out of the progress run: an order captured after it was archived is
never booked, and nothing in the repository promises it would be.

`FairSpec` of `Refund` assumes the same of started handlers, and that
`checkPendingRefund`, which a scheduler calls, comes round again and again
(strong fairness of `PollRead`). Gateways are free never to decide; a row whose
gateway was never reached has nothing to ask with and is not promised to end.

The other modules state no liveness: an application, a mandate or a proceeding
waits for people, and the code gives none of them a deadline that it keeps.

### 3.3 Where the code differs from what it says

Two runs check one property each and end with a counterexample; the quotes are
in `PROJECT.json`.

| Run | Property | In short |
|---|---|---|
| `split_twice` | `NeverOverbooked` | two handlers of one order, the EMI flagged overdue between their reads: one books it whole, the other in parts |
| `declined_agreement` | `RejectedIsUnsigned` | a decline reads that there is no agreement, an invitation goes out, the loan is rejected: a rejected loan with an agreement to sign |

What else the models show the code to give up, and therefore no passing run
claims. The properties in code type marked (*) are defined and can be put in a
configuration to see it.

Collection:

* `ChargedOnlyPastDue` (*): OCC 1.0.0 speaks of EMIs past due; the bounce charge
  never looks at the date.
* `NoExcessivePayment` (*): the prevention runs when orders are made, not when
  they are paid.
* `ClosedWhenRecovered` (*): a late 'failed' webhook un-books a payment between
  the check and the closing.
* `RecoveredIsClosed` (*): an EMI marked paid without `payment_done_date` keeps
  its loan from ever qualifying again.
* `OneReferral` with two handlers: `completedLoans` is read by two closers
  before either writes it.
* So the money properties of `serial` are properties of handlers that do not
  overlap. `paid_*` are written from sums read before another handler changed a
  row, and stay stale until the loan's next payment.

Refunds: `NeverOverRefunded` with two handlers. The second one still
counts the excess that the first is about to refund; if a payment is booked
between their reads they may name different instalments, each with its own
trace row, and the check for a pending refund ("Prevention ->
Duplication", `refund.service.ts:672`) is made before either row exists.

Application:

* With Cashfree even one handler at a time violates `PayableIsOrdered`: a late
  webhook about a failed checkout marks a mandate as FAILED that the bank has
  registered since, and `deleteMandate` then deletes the mandate of a signed
  loan. The run with one handler is therefore made with Razorpay.
* With two handlers that die, `FollowsTheApplication` fails too. A handler that
  dies while re-signing leaves the payout marked as due; one that dies between
  creating and linking an agreement blocks every further invitation.
* Lost updates of the status column can leave a signed loan that the payout
  service never finds, and `regenerateEsign` or `acceptKFS` can bring a rejected
  loan back.
* `reinitiateToFinalBucket` leaves an accepted loan 'Accepted', while
  `finalApproval` asks for 'InProcess': a dead end for that loan.

Legal: two handlers that overlap can leave two current rows, two notices for one
debit, or a case that stays open after the loan's end, which is why
`removeDuplicateLegel` exists and why `OneProceeding` and `ClosedHasNoCase` ask
for `calm`.

### 3.4 Mutants

Operators named `X_Something`, placed before `X` in the component's module, are
plausible bugs: a status forgotten in a query, a charge not deducted, a
constraint dropped, an answer not looked at, a swapped order. `PROJECT.json`
pairs each property of each passing run with one that breaks it. They are used
nowhere else.

## 4. What is proved

Every safety property and action property that a passing run checks is a theorem, and
so are three of its four refinements. The theorems hold for any number of EMIs,
orders, users, rows and handlers and any amounts, under the named assumption on
the constants of each module and the hypotheses of the table.

| Module | Theorem | Statement | Hypotheses |
|---|---|---|---|
| `RepaymentProofs` | `Invariance` | `Spec => []IndInv` | |
| | `TypeCorrect` | `Spec => []TypeOK` | |
| | `BounceChargedOnce` | `Spec => []ChargedOnce` | |
| | `NeverClosedUnpaid` | `Spec => []ClosedOnlyWhenPaid` | |
| | `NothingBookedUncaptured` | `Spec => []NoPhantomPayment` | |
| | `LedgerRefinement` | `Spec => ImplementsLedger` | |
| `RepaymentMoneyProofs` | `FundInvariance` | `Spec => [](IndInv /\ AloneInv /\ FundInv)` | H, F |
| | `NothingPaidUnfunded` | `Spec => []PaidIsFunded` | H, F |
| | `BookInvariance` | `Spec => [](IndInv /\ AloneInv /\ BookInv)` | H, F |
| | `BooksWhatWasPaid` | `Spec => []NeverOverbooked` | H, F |
| | `SettleInvariance` | `Spec => [](... /\ FundInv /\ SettleInv)` | H, D, F |
| | `CoveredAreSettled` | `Spec => []CoveredIsSettled` | H, D, F |
| | `LeftStaysOwed` | `Spec => []LeftIsOwed` | H, D, F |
| | `BillsWhatIsOwed` | `Spec => []BilledIsOwed` | H, D, F |
| | `RewardInvariance` | `Spec => [](IndInv /\ ReferralInv)` | H, D |
| | `RewardedOnce` | `Spec => []OneReferral` | H, D |
| | `RewardedOnTime` | `Spec => []ReferralOnTime` | H, D |
| `RefundProofs` | `RefundInvariance` | `Spec => []RefundInv` | |
| | `RefundTypeCorrect` | `Spec => []TypeOK` | |
| | `RefundedOncePerEmi` | `Spec => []OneRefundPerEmi` | |
| | `RefundBooksTrue` | `Spec => []BooksAreTrue` | |
| | `RefundMoneyHasRow` | `Spec => []MoneyHasRow` | |
| | `RefundRefinement` | `Spec => ImplementsRefundOnce` | |
| | `RefundAllocation` | `Spec => AllocationSound` | |
| | `RefundNeverOver` | `Spec => []NeverOverRefunded` | H, L |
| `ReferralProofs` | `ReferralInvariance` | `Spec => []WalletInv` | |
| | `ReferralTypeCorrect` | `Spec => []TypeOK` | |
| | `WalletNeverInvents` | `Spec => []WalletIsEarned` | |
| | `MoneyInvariance` | `Spec => [](WalletInv /\ MoneyInv)` | |
| | `WalletKeepsAgreeing` | `Spec => []WalletAgrees` | |
| | `PayoutsStayCovered` | `Spec => []PayoutsAreCovered` | |
| `OnboardingProofs` | `OnboardingInvariance` | `Spec => []IInv` | |
| | `OnboardingTypeCorrect` | `Spec => []TypeOK` | |
| | `MandatesAreReal` | `Spec => []MandateIsReal` | |
| | `SignaturesAreReal` | `Spec => []SignatureIsReal` | |
| | `AgreementsAreEarned` | `Spec => []AgreementIsEarned` | |
| | `PaymentsAreAuthorised` | `Spec => []PaidIsAuthorised` | |
| | `StraightInvariance` | `Spec => []Straight` | H, R |
| | `MasterTellsTheRows` | `Spec => []MasterAgrees` | H, R |
| | `PayoutsAreOrdered` | `Spec => []PayableIsOrdered` | H, R |
| | `HandlersFollowTheApplication` | `Spec => FollowsTheApplication` | H, R, D |
| `LegalProofs` | `LegalInvariance` | `Spec => []LegalInv` | |
| | `LegalTypeCorrect` | `Spec => []TypeOK` | |
| | `LegalByTheBook` | `Spec => []CaseByTheBook` | |
| `LegalCalmProofs` | `CalmInvariance` | `Spec => [](LegalInv /\ Calm)` | |
| | `LegalOneProceeding` | `Spec => []OneProceeding` | |
| | `LegalClosedHasNoCase` | `Spec => []ClosedHasNoCase` | |

The hypotheses are those of the runs, and what the code gives up without them is
in section 3.3:

* H, `OneHandler`: handlers follow one another (one worker). With two, TLC finds
  `PaidIsFunded`, `NeverOverbooked`, `LeftIsOwed`, `BilledIsOwed`, `OneReferral`,
  `NeverOverRefunded`, `MasterAgrees`, `PayableIsOrdered` and
  `FollowsTheApplication` violated. `CoveredIsSettled` held on the instance of
  `crash` with two handlers, no lost one and no jobs, and `ReferralOnTime` as far
  as that search got; their proofs rest on columns that only one handler keeps.
  `WalletAgrees`, `PayoutsAreCovered`, `OneProceeding` and
  `ClosedHasNoCase` need no such hypothesis: they speak of a user or a loan whose
  handlers have not overlapped so far, next to any number of others.
* D, `MaxAborts = 0`: no handler dies. One that dies between the row and the
  columns leaves the columns behind; one that dies between the reward and the
  count lets the next closing give the reward again. `MasterAgrees` and
  `PayableIsOrdered` say themselves that no handler died.
* L, `MaxLosses = 0`: no answer of a gateway is lost. Where one is, the row
  becomes FAILED although the money goes, and another refund may follow.
* R, `~Cashfree`: mandates are placed with Razorpay.
* F, `IsFiniteSet(Pays)`: finitely many orders, so that their rows have a sum.

None of the safety properties is inductive. What is added to them is what the
code relies on without saying so. Each invariant was checked by TLC on
the instance of its run before it was proved.

*Collection*, `IndInv`:

* `HandlerOK`: a handler stands on the row of an order or on the last row it
  split off it, and past its entry the COMPLETED path is taken only for
  captured orders. A capture is never undone, so what the handler was told
  stays true however long it waits. This gives `NoPhantomPayment`.
* `OrdersHaveRows`, `EventsAreTrue`: the gateway knows no order without a row,
  and reports no capture that did not happen.
* `TraceGuardsCharge`: the unique trace row comes before the charge; whoever
  created it is the only one about to write the charge, and has not yet done
  so. This gives `ChargedOnce`, although the guard `bounceCharge: 0` alone
  would not.
* `CloserSawAllPaid`: whoever is about to close the loan saw every EMI paid, and
  no step makes an EMI unpaid, so this is still so when it closes. This gives
  `ClosedOnlyWhenPaid`.

The refinement follows from it: a step that changes `paid` of one EMI is
`Settle`, the charge is `Levy` by `TraceGuardsCharge`, the closing is `Close` by
`CloserSawAllPaid`, and anything else stutters.

*Collection, one handler*: what a single handler finds when it comes back to its
await.

* `AloneInv`: a handler on its way to booking a row stands on one that is not
  COMPLETED yet, with the type and the EMI it has read, and writes only to the
  instalment it will look at next. Everything below rests on it.
* `FundInv`, for `PaidIsFunded`: the column of what is left never understates what
  the rows of an instalment leave open; an open full payment asks for at least
  all that is owed; and whoever is about to mark an instalment as paid has the
  rows for it, of its own or of the full payment.
* `SettleInv`, for `CoveredIsSettled`, `LeftIsOwed` and `BilledIsOwed`: columns and
  rows of an unpaid instalment agree, except for the one instalment that the
  handler in flight is bringing up to date, of which it says by how much.
* `BookInv`, for `NeverOverbooked`: the rows of an order together with the parts
  its handler has yet to write stay within its price. It rests on the greedy
  split never handing out more than the amount it is given
  (`splitPaymentsforPI`), proved by taking its last instalment off.
* `ReferralInv`, for `OneReferral` and `ReferralOnTime`: once a reward is given the
  loan is Complete with nothing due, and `completedLoans` is counted or about to
  be by the handler that gave it.

*Refunds*, `RefundInv`: every row has its trace row and is the only one of its
instalment (`RowsTraced`, `OneRowPerEmi`, a deleted row counts); whoever has
created the trace row is alone in creating the row (`TracerIsAlone`), and
whoever is about to ask the gateway is alone with it and the gateway has not
been asked (`CallerIsAlone`). `AnswersAreTrue` says that an answer in a local
variable is still what the gateway says, because decisions are final;
`DeletedIsUnpaid` that a row about to be deleted is not being paid unless an
answer was lost. A call of the gateway is then `Send`, its decision `Decide`.
`AllocationSound` is a fact about `prePareRefundAmount` alone: its rounds take
payments off until nothing is left, each at most once, and the parts add up to
the amount. For `NeverOverRefunded`, `Covers` carries the excess that the handler
read through its loop: until the gateway is called, what is on its way back and
what the handler is about to send stay within the payments beyond the bill.

*Referral*, `WalletInv`: besides the types, that a reward under way has a
referrer (`Backed`), and that the history has room for every wallet plus the
reward that a handler is about to add to the balance it has read (`Wallet`). The
order history, row, wallet in `updateReferral` is what makes it inductive.
`MoneyInv` is the same for a user nothing went wrong for: wallet, referral rows
and history agree up to the step of the one handler at work for that user
(`AllAgree`), and the payouts, with the one being made, stay within what the
referrals earned (`AllCovered`).

*Application*, `IInv`: a copy of the status column in a handler's memory is as
truthful as the master row (`CopyOK` of both), what a handler still has to do
starts with the writes it has checked for (`TasksOK`), and what the rows say of
themselves (`RowsOK`). Approvals, signatures and registrations are never
taken back by the world, so a copy that was true stays true: staleness can hide
what happened, but cannot invent it.

`Straight` describes one handler that does not meet a stale copy. `Position` lists
where it can stand: before its first write, between the rows it writes, after
them with the master row still to come, or at rest; at each the rows and the
status it is going to write agree in a known way. At rest the status column says
what the loan, the mandates and the agreements say (`Rest`: `Decision`, `Mandate`,
`Agreement`), which is `MasterAgrees`; `Due` is the same for a payout that is
marked as due, which gives `PayableIsOrdered`. The refinement needs less
(`Staged`): the facts that make a step of a handler one of `LoanApplication`, an
approval before a signature before a payment, and no rejection of a signed loan.
It is proved without deaths. TLC finds `FollowsTheApplication` true with one
handler lost as well and false with two: after linking an agreement the first
dies before the status is written, after signing the second does, and the
borrower's decline, which believes the status, rejects a signed loan.

*Legal*, `LegalInv`: the type of a row never changes, Complete stays
Complete and FAILED stays FAILED. So what a handler found out about the row it
copies, the end of the loan or the debit (`HandlersOK`) is still so when it
writes, although the row may have become history meanwhile.

`Calm`, for `OneProceeding` and `ClosedHasNoCase`, is about a loan whose handlers did
not overlap or die. Between handlers the one current row is the linked one, the
debits that led to a notice are remarked, and a loan that was followed up after
its end has no open case (`Rest`). While one is at work, `Stage` says how
far it is from there: which row is about to be linked or to become history.
Rows only become history when a later one takes their place (`Superseded`).

*Sums.* Induction over the payments or rows of a sum would need a theorem that
takes a predicate. `SumTheorems` does it with sets instead: strict inclusion
on the subsets of a finite set is well founded, so every nonempty set of subsets
has a smallest member (`MinimalSubset`, `SubsetInduction`). From that follow that
`SumFunctionOnSet` has its recursion equation whichever element is taken first
(`SumAnyFirst`), and what the proofs cite: sums of naturals are
naturals and grow with the set, equal functions have equal sums, a larger
function has a larger sum. The models write their sums with `SumFunctionOnSet` for
this reason.

Each module has one lemma per action (`<Action>Keeps`, or a name alike), lemmas
for what most actions share, and one that puts them together.

Only model-checked, not proved:

* liveness under fairness (`CapturedIsBooked`, `PaidLoanCloses`, `PendingSettles`),
  which is out of the prover's reach;
* `ImplementsOrderBook`, which is more than `NeverOverbooked`: the parts of an order
  add up to its price exactly when the handler is done, and stay so. `BookInv` has
  the upper half of this; the lower half is still to be proved;
* `FollowsTheApplication` with one dead handler. What its invariant has to add to
  `Straight` is what a dead handler leaves behind: a master row that lags behind
  the rows by exactly the steps it did not make.

## 5. Running it

    tlc -config Serial.cfg MCRepayment.tla      # Race, Crash, Progress, SplitTwice too
    tlc -config Refund.cfg MCRefund.tla         # and RefundRace.cfg
    tlc -config Referral.cfg MCReferral.tla
    tlc -config Onboarding.cfg MCOnboarding.tla # OnboardingRace, DeclinedAgreement
    tlc -config Legal.cfg MCLegal.tla
    tlapm RepaymentProofs.tla                   # and the other *Proofs modules,
    tlapm SumTheorems.tla                       # each in a few minutes

## 6. Not modelled, and what could follow

| Part | Why |
|---|---|
| Waivers and settlements (`updateWaiverTransaction`, `updateWaiver`, `createWaiverPaymentOrder`) | would change the bill of an EMI while orders are open; the next thing to add to `Repayment` |
| The admin's UPI entries (`checkAndUpdatePaymenst`) and placing of auto debits with their daily limit (TS 3903-3915) | further entries into handlers that are modelled |
| `splitPaymentsforPI` as the loop it is | `SplitParts` models its result; the loop has no awaits. To be checked against it, it needs a recursive operator in a module of its own |
| NOC, mails, CLTV, `isPartPayment`, promises to pay, the daily penalty | write what nothing modelled reads, or run outside these handlers |
| Signdesk mandates, limits and expiry of mandates, the score and the amount of an application | further variants before the steps of `Onboarding` |
| Demand letters, advocates, consignments, hearings | columns and rows that no handler of `Legal` reads |
| Assignment | the index in Redis is read and the next one written in two awaits, so two callers may choose the same officer; nothing says they may not |
| Passcode and sign-in | compares or replaces one hash per request; `setPasscode` writes the status column back whole, the hazard that `Onboarding` has for other writers |
| Banking, KYC, employment | parsing and third-party documents: data, not control |
| Defaulters, CRM, Tally, reports | queries |

Composing `Onboarding`, `Repayment` and `Legal` into one loan was not done: what
one hands to the next (section 1.3) already happens at any moment in the model
that receives it, so the product would mostly multiply states.
