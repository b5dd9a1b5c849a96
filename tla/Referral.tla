------------------------------ MODULE Referral ------------------------------
(***************************************************************************)
(* Referral rewards: who referred whom, the points each referrer earns     *)
(* when a referred user reaches a milestone, and the payouts of points.    *)
(*                                                                         *)
(* A worker is a handler in flight, cut at its awaits as in Repayment: the *)
(* rows a handler reads in a row are read in one step, every write is a    *)
(* step of its own. Points are counted in rewards of 25 rupees.            *)
(***************************************************************************)
EXTENDS Integers, FiniteSets, Functions

CONSTANTS
  Users,        \* registered users
  NoUser,       \* nobody
  Veterans,     \* those who have completed a loan before, without a referrer
  Workers,      \* handlers that may be in flight at the same time
  MinAmount,    \* the smallest withdrawal (100 rupees in the code)
  MaxReferrals, \* how many referral rows this instance has room for
  MaxRewards,   \* how many rewards may be started
  MaxPayouts,   \* how many payouts the scheduler may be asked for
  MaxAborts     \* how many handlers may die between two awaits

Referrals == 1 .. MaxReferrals
NoReferral == 0
Payouts == 1 .. MaxPayouts
Stages == {"AADHAAR", "LOAN_ACTIVE", "LOAN_COMPLETE"}

ASSUME ReferralAssumption ==
  /\ NoUser \notin Users
  /\ Veterans \subseteq Users
  /\ IsFiniteSet(Workers)
  /\ MinAmount \in Nat \ {0}
  /\ MaxReferrals \in Nat
  /\ MaxRewards \in Nat
  /\ MaxPayouts \in Nat
  /\ MaxAborts \in Nat

VARIABLES
  user,      \* rows of registeredUsers, the columns of the referral flow
  ref,       \* rows of ReferralEntity
  granted,   \* points in the ReferralHistory rows of each referrer
  progress,  \* the milestone each user's master row shows
  payout,    \* rows of ReferralTransactionEntity
  pc,        \* where each handler stands
  task,      \* its local variables
  rewards,   \* rewards started so far
  aborts,    \* handlers lost so far
  disturbed  \* users for whom handlers overlapped or died (history variable)

db == <<user, ref, granted, progress, payout>>
vars == <<db, pc, task, rewards, aborts, disturbed>>

NoRef == [by |-> NoUser, to |-> NoUser, points |-> 0]
NoPayout == [user |-> NoUser, amount |-> 0, status |-> "NONE"]
NoTask == [job |-> "NONE", who |-> NoUser, by |-> NoUser, ref |-> NoReferral,
           points |-> 0, balance |-> 0, amount |-> 0, closing |-> FALSE]

Init ==
  /\ user = [u \in Users |-> [by |-> NoUser, ref |-> NoReferral, points |-> 0,
                              completed |-> IF u \in Veterans THEN 1 ELSE 0]]
  /\ ref = [r \in Referrals |-> NoRef]
  /\ granted = [u \in Users |-> 0]
  /\ progress = [u \in Users |-> IF u \in Veterans THEN "COMPLETE" ELSE "NEW"]
  /\ payout = [p \in Payouts |-> NoPayout]
  /\ pc = [w \in Workers |-> "idle"]
  /\ task = [w \in Workers |-> NoTask]
  /\ rewards = 0
  /\ aborts = 0
  /\ disturbed = {}

-----------------------------------------------------------------------------
(* A handler starts as a job about one user; the history variable notes    *)
(* when it is not alone with that user.                                    *)

Busy(job, u) == \E w \in Workers : task[w].job = job /\ task[w].who = u

Start(w, t, label) ==
  /\ task' = [task EXCEPT ![w] = t]
  /\ pc' = [pc EXCEPT ![w] = label]
  /\ disturbed' = disturbed \union {u \in {t.who} : Busy(t.job, u)}

Go(w, label) ==
  /\ pc' = [pc EXCEPT ![w] = label]
  /\ UNCHANGED <<task, disturbed>>

Finish(w) ==
  /\ pc' = [pc EXCEPT ![w] = "idle"]
  /\ task' = [task EXCEPT ![w] = NoTask]
  /\ UNCHANGED disturbed

-----------------------------------------------------------------------------
(* A user enters the code of another one. *)

SignUp(w, u, v) ==
  /\ pc[w] = "idle"
  /\ v # u
  /\ user[u].by = NoUser
  /\ user[u].ref = NoReferral
  /\ Start(w, [NoTask EXCEPT !.job = "signup", !.who = u, !.by = v], "referral")
  /\ UNCHANGED <<db, rewards, aborts>>

CreateReferral(w) ==
  LET free == {r \in Referrals : ref[r] = NoRef}
  IN  /\ pc[w] = "referral"
      /\ \E r \in free :
           /\ \A q \in free : r <= q
           /\ ref' = [ref EXCEPT ![r] = [by |-> task[w].by, to |-> task[w].who,
                                         points |-> 0]]
           /\ task' = [task EXCEPT ![w].ref = r]
      /\ pc' = [pc EXCEPT ![w] = "link"]
      /\ UNCHANGED <<user, granted, progress, payout, rewards, aborts, disturbed>>

LinkReferral(w) ==
  /\ pc[w] = "link"
  /\ user' = [user EXCEPT ![task[w].who].by = task[w].by,
                          ![task[w].who].ref = task[w].ref]
  /\ Finish(w)
  /\ UNCHANGED <<ref, granted, progress, payout, rewards, aborts>>

-----------------------------------------------------------------------------
(* The referrer earns a reward at each milestone of a user who has not     *)
(* completed a loan. Callers: the KYC handler, the disbursement job (and   *)
(* its repair endpoint), the loan closure, and the endpoint addReferral.   *)

Reached(u, stage) ==
  CASE stage = "AADHAAR"       -> progress[u] # "NEW"
    [] stage = "LOAN_ACTIVE"   -> progress[u] = "ACTIVE"
    [] stage = "LOAN_COMPLETE" -> progress[u] = "COMPLETE"

Referred(u) ==
  /\ user[u].completed = 0
  /\ user[u].ref # NoReferral

(* The handler works for the referrer whom the referral row names. *)
RewardTask(u) ==
  LET r == user[u].ref
  IN  [NoTask EXCEPT !.job = "reward", !.who = ref[r].by, !.by = u, !.ref = r,
                     !.points = ref[r].points]

Reward(w, u, stage) ==
  /\ pc[w] = "idle"
  /\ rewards < MaxRewards
  /\ Referred(u)
  /\ Reached(u, stage)
  /\ Start(w, RewardTask(u), "history")
  /\ rewards' = rewards + 1
  /\ UNCHANGED <<db, aborts>>

CreateHistory_Once(w) ==    \* mutant: a later milestone leaves no history
  /\ pc[w] = "history"
  /\ granted' = [granted EXCEPT ![task[w].who] = IF task[w].points = 0 THEN @ + 1 ELSE @]
  /\ Go(w, "update")
  /\ UNCHANGED <<user, ref, progress, payout, rewards, aborts>>
CreateHistory(w) ==
  /\ pc[w] = "history"
  /\ granted' = [granted EXCEPT ![task[w].who] = @ + 1]
  /\ Go(w, "update")
  /\ UNCHANGED <<user, ref, progress, payout, rewards, aborts>>

NewPoints(w) == task[w].points + 1
UpdateReferral(w) ==
  /\ pc[w] = "update"
  /\ ref' = [ref EXCEPT ![task[w].ref].points = NewPoints(w)]
  /\ task' = [task EXCEPT ![w].balance = user[task[w].who].points]
  /\ pc' = [pc EXCEPT ![w] = "points"]
  /\ UNCHANGED <<user, granted, progress, payout, rewards, aborts, disturbed>>

NewBalance_Taken(w) ==    \* mutant: the reward is taken off the wallet
  task[w].balance - 1
NewBalance_OfReferral(w) ==    \* mutant: the user row gets the referral's total
  task[w].points + 1
NewBalance(w) == task[w].balance + 1
UpdatePoints(w) ==
  /\ pc[w] = "points"
  /\ user' = [user EXCEPT ![task[w].who].points = NewBalance(w)]
  /\ IF task[w].closing THEN Go(w, "count") ELSE Finish(w)
  /\ UNCHANGED <<ref, granted, progress, payout, rewards, aborts>>

(* The last instalment is paid: the loan is completed, the referrer of a   *)
(* user who paid on time is rewarded, and then the loan is counted.        *)
CloseLoan(w, u, onTime) ==
  /\ pc[w] = "idle"
  /\ rewards < MaxRewards
  /\ progress[u] = "ACTIVE"
  /\ progress' = [progress EXCEPT ![u] = "COMPLETE"]
  /\ IF Referred(u) /\ onTime
       THEN /\ Start(w, [RewardTask(u) EXCEPT !.closing = TRUE], "history")
            /\ rewards' = rewards + 1
       ELSE /\ Start(w, [NoTask EXCEPT !.job = "count", !.who = u, !.by = u], "count")
            /\ UNCHANGED rewards
  /\ UNCHANGED <<user, ref, granted, payout, aborts>>

CountLoan(w) ==
  /\ pc[w] = "count"
  /\ user' = [user EXCEPT ![task[w].by].completed = 1]
  /\ Finish(w)
  /\ UNCHANGED <<ref, granted, progress, payout, rewards, aborts>>

(* The other two milestones are reached outside this module. *)
CompleteKyc(u) ==
  /\ progress[u] = "NEW"
  /\ progress' = [progress EXCEPT ![u] = "AADHAAR"]
  /\ UNCHANGED <<user, ref, granted, payout, pc, task, rewards, aborts, disturbed>>

ActivateLoan(u) ==
  /\ progress[u] = "AADHAAR"
  /\ progress' = [progress EXCEPT ![u] = "ACTIVE"]
  /\ UNCHANGED <<user, ref, granted, payout, pc, task, rewards, aborts, disturbed>>

-----------------------------------------------------------------------------
(* A referrer withdraws points. The scheduler, another service, creates    *)
(* the payout row and settles it; it does so once per request.             *)

Sum(Op(_), S) == SumFunctionOnSet([x \in S |-> Op(x)], S)
PayoutsOf(v, statuses) ==
  {p \in Payouts : payout[p].user = v /\ payout[p].status \in statuses}

Earned(v) == Sum(LAMBDA r : ref[r].points, {r \in Referrals : ref[r].by = v})
Withdrawn(v) ==
  Sum(LAMBDA p : payout[p].amount, PayoutsOf(v, {"COMPLETED"}))

MayWithdraw_WhilePending(v, n) ==    \* mutant: an INITIALIZED payout is no obstacle
  /\ n >= MinAmount
  /\ user[v].points >= n
  /\ Earned(v) >= Withdrawn(v) + n
MayWithdraw(v, n) ==
  /\ n >= MinAmount
  /\ user[v].points >= n
  /\ PayoutsOf(v, {"INITIALIZED"}) = {}
  /\ Earned(v) >= Withdrawn(v) + n

Withdraw(w, v, n) ==
  /\ pc[w] = "idle"
  /\ MayWithdraw(v, n)
  /\ Start(w, [NoTask EXCEPT !.job = "withdraw", !.who = v, !.amount = n], "payout")
  /\ UNCHANGED <<db, rewards, aborts>>

RequestPayout(w) ==
  /\ pc[w] = "payout"
  /\ \/ \E p \in Payouts :
          /\ payout[p] = NoPayout
          /\ \A q \in Payouts : q < p => payout[q] # NoPayout
          /\ payout' = [payout EXCEPT ![p] = [user |-> task[w].who,
                                              amount |-> task[w].amount,
                                              status |-> "INITIALIZED"]]
     \/ UNCHANGED payout
  /\ Finish(w)
  /\ UNCHANGED <<user, ref, granted, progress, rewards, aborts>>

SettlePayout(p, status) ==
  /\ payout[p].status = "INITIALIZED"
  /\ payout' = [payout EXCEPT ![p].status = status]
  /\ UNCHANGED <<user, ref, granted, progress, pc, task, rewards, aborts, disturbed>>

-----------------------------------------------------------------------------
(* A handler dies between two awaits, or a write of it fails. *)

Abort(w) ==
  /\ pc[w] # "idle"
  /\ aborts < MaxAborts
  /\ aborts' = aborts + 1
  /\ pc' = [pc EXCEPT ![w] = "idle"]
  /\ task' = [task EXCEPT ![w] = NoTask]
  /\ disturbed' = disturbed \union {task[w].who}
  /\ UNCHANGED <<db, rewards>>

Handle(w) ==
  \/ \E u, v \in Users : SignUp(w, u, v)
  \/ CreateReferral(w)
  \/ LinkReferral(w)
  \/ \E u \in Users, stage \in Stages : Reward(w, u, stage)
  \/ CreateHistory(w)
  \/ UpdateReferral(w)
  \/ UpdatePoints(w)
  \/ \E u \in Users, onTime \in BOOLEAN : CloseLoan(w, u, onTime)
  \/ CountLoan(w)
  \/ \E v \in Users, n \in 1 .. MaxRewards : Withdraw(w, v, n)
  \/ RequestPayout(w)
  \/ Abort(w)

World ==
  \/ \E u \in Users : CompleteKyc(u) \/ ActivateLoan(u)
  \/ \E p \in Payouts, status \in {"COMPLETED", "FAILED"} : SettlePayout(p, status)

Next == World \/ \E w \in Workers : Handle(w)

Spec == Init /\ [][Next]_vars
=============================================================================
