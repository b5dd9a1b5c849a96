--------------------------- MODULE ReferralProofs ---------------------------
(* The wallet and the payouts of a referrer, for any users, handlers and   *)
(* bounds.                                                                 *)
EXTENDS ReferralProperties, SumTheorems

(* The rewards of v that are in the history and not yet in the wallet. *)
Pending(v) ==
  {w \in Workers : pc[w] \in {"update", "points"} /\ task[w].who = v}

(* Whatever the wallet holds, or a handler is about to add its reward to,  *)
(* leaves room in the history for every pending reward.                    *)
Room(v, n) == n + Cardinality(Pending(v)) <= granted[v]
Wallet ==
  \A v \in Users :
    /\ Room(v, user[v].points)
    /\ \A w \in Pending(v) : pc[w] = "points" => Room(v, task[w].balance)

(* Behind every reward and every link there is a referrer. *)
Named(r) == r \in Referrals /\ ref[r].by \in Users
Rewarding == {"history", "update", "points"}
Backed ==
  /\ \A w \in Workers :
       /\ pc[w] = "referral" => task[w].by \in Users
       /\ pc[w] = "link" => Named(task[w].ref)
       /\ pc[w] \in Rewarding => task[w].who \in Users /\ task[w].ref \in Referrals
  /\ \A u \in Users : user[u].ref # NoReferral => Named(user[u].ref)

WalletInv == TypeOK /\ Backed /\ Wallet

USE ReferralAssumption DEF Referrals, NoReferral, Payouts, Stages

-----------------------------------------------------------------------------
(* Starting and ending a handler keeps pc, task and disturbed in their     *)
(* domains.                                                                *)

Labels == {"idle", "referral", "link", "history", "update", "points", "count", "payout"}
Tasks ==
  [job : {"NONE", "signup", "reward", "count", "withdraw"},
   who : Users \union {NoUser}, by : Users \union {NoUser},
   ref : Referrals \union {NoReferral}, points : Nat, balance : Nat,
   amount : Nat, closing : BOOLEAN]
HandlersOK ==
  /\ pc \in [Workers -> Labels]
  /\ task \in [Workers -> Tasks]
  /\ disturbed \subseteq Users \union {NoUser}

(* What is left of TypeOK beside the handlers. *)
UserRows ==
  [by : Users \union {NoUser}, ref : Referrals \union {NoReferral},
   points : Nat, completed : 0 .. 1]
RefRows == [by : Users \union {NoUser}, to : Users \union {NoUser}, points : Nat]
PayoutRows ==
  [user : Users \union {NoUser}, amount : Nat,
   status : {"NONE", "INITIALIZED", "COMPLETED", "FAILED"}]
RestOK ==
  /\ user \in [Users -> UserRows]
  /\ ref \in [Referrals -> RefRows]
  /\ granted \in [Users -> Nat]
  /\ progress \in [Users -> {"NEW", "AADHAAR", "ACTIVE", "COMPLETE"}]
  /\ payout \in [Payouts -> PayoutRows]
  /\ rewards \in 0 .. MaxRewards
  /\ aborts \in 0 .. MaxAborts

LEMMA TypeParts == ASSUME TypeOK PROVE HandlersOK /\ RestOK
  BY DEF TypeOK, HandlersOK, RestOK, Labels, Tasks,
            UserRows, RefRows, PayoutRows

LEMMA TypeNext == ASSUME HandlersOK', RestOK' PROVE TypeOK'
  BY DEF TypeOK, HandlersOK, RestOK, Labels, Tasks,
            UserRows, RefRows, PayoutRows

(* A row is updated in place, or there is no such row. *)
LEMMA UpdateType ==
  ASSUME NEW S, NEW T, NEW f \in [S -> T], NEW x, NEW e, x \in S => e \in T
  PROVE  [f EXCEPT ![x] = e] \in [S -> T]
  OBVIOUS

LEMMA StartType ==
  ASSUME HandlersOK, NEW w \in Workers, NEW t \in Tasks, NEW label \in Labels,
         Start(w, t, label)
  PROVE  HandlersOK'
  BY DEF HandlersOK, Start, Tasks

LEMMA GoType ==
  ASSUME HandlersOK, NEW w \in Workers, NEW label \in Labels, Go(w, label)
  PROVE  HandlersOK'
  BY DEF HandlersOK, Go

LEMMA NoTaskType == NoTask \in Tasks
  BY DEF NoTask, Tasks

LEMMA FinishType ==
  ASSUME HandlersOK, NEW w \in Workers, Finish(w)
  PROVE  HandlersOK'
  BY NoTaskType DEF HandlersOK, Finish, Labels

LEMMA RewardTaskType ==
  ASSUME TypeOK, NEW u \in Users, Referred(u)
  PROVE  /\ RewardTask(u) \in Tasks
         /\ [RewardTask(u) EXCEPT !.closing = TRUE] \in Tasks
  <1>1. user[u].ref \in Referrals
    BY DEF TypeOK, Referred
  <1>2. /\ ref[user[u].ref].by \in Users \union {NoUser}
        /\ ref[user[u].ref].points \in Nat
    BY <1>1 DEF TypeOK
  <1> QED BY <1>1, <1>2 DEF RewardTask, NoTask, Tasks

LEMMA InitType == Init => TypeOK
  BY DEF Init, TypeOK, NoRef, NoPayout, NoTask

LEMMA SignUpType ==
  ASSUME TypeOK, NEW w \in Workers, NEW u \in Users, NEW v \in Users, SignUp(w, u, v)
  PROVE  TypeOK'
  <1> DEFINE t == [NoTask EXCEPT !.job = "signup", !.who = u, !.by = v]
  <1>1. t \in Tasks
    BY DEF NoTask, Tasks
  <1>2. HandlersOK'
    <2>1. HandlersOK /\ Start(w, t, "referral")
      BY TypeParts DEF SignUp
    <2> QED BY ONLY <1>1, <2>1, w \in Workers, StartType DEF Labels
  <1>3. UNCHANGED <<user, ref, granted, progress, payout, rewards, aborts>>
    BY DEF SignUp, db
  <1>4. RestOK'
    BY <1>3, TypeParts DEF RestOK
  <1> QED BY <1>2, <1>4, TypeNext

LEMMA CreateReferralType ==
  ASSUME TypeOK, NEW w \in Workers, CreateReferral(w)
  PROVE  TypeOK'
  <1>1. PICK r \in Referrals :
          /\ ref' = [ref EXCEPT ![r] = [by |-> task[w].by, to |-> task[w].who,
                                        points |-> 0]]
          /\ task' = [task EXCEPT ![w].ref = r]
    BY DEF CreateReferral
  <1>2. task[w].by \in Users \union {NoUser} /\ task[w].who \in Users \union {NoUser}
    BY DEF TypeOK
  <1>3. ref' \in [Referrals -> RefRows]
    BY <1>1, <1>2 DEF TypeOK, RefRows
  <1>4. HandlersOK'
    BY <1>1, TypeParts DEF CreateReferral, HandlersOK, Labels, Tasks
  <1>5. RestOK'
    BY <1>3, TypeParts DEF CreateReferral, RestOK
  <1> QED BY <1>4, <1>5, TypeNext

LEMMA LinkReferralType ==
  ASSUME TypeOK, NEW w \in Workers, LinkReferral(w)
  PROVE  TypeOK'
  <1>1. HandlersOK'
    BY TypeParts, FinishType DEF LinkReferral
  <1>2. task[w].by \in Users \union {NoUser} /\ task[w].ref \in Referrals \union {NoReferral}
    BY DEF TypeOK
  <1>3. user' \in [Users -> UserRows]
    <2> DEFINE x == task[w].who
               e == [user[x] EXCEPT !.by = task[w].by, !.ref = task[w].ref]
    <2>1. user \in [Users -> UserRows]
      BY TypeParts DEF RestOK
    <2>2. x \in Users => e \in UserRows
      BY <1>2, <2>1 DEF UserRows
    <2>3. user' = [user EXCEPT ![x] = e]
      BY DEF LinkReferral
    <2> QED BY ONLY <2>1, <2>2, <2>3, UpdateType
  <1>4. RestOK'
    BY <1>3, TypeParts DEF LinkReferral, RestOK
  <1> QED BY <1>1, <1>4, TypeNext

LEMMA RewardType ==
  ASSUME TypeOK, NEW w \in Workers, NEW u \in Users, NEW stage \in Stages,
         Reward(w, u, stage)
  PROVE  TypeOK'
  <1>1. HandlersOK'
    <2>1. HandlersOK /\ Start(w, RewardTask(u), "history")
      BY TypeParts DEF Reward
    <2>2. RewardTask(u) \in Tasks
      BY RewardTaskType DEF Reward
    <2> QED BY ONLY <2>1, <2>2, w \in Workers, StartType DEF Labels
  <1>2. rewards' \in 0 .. MaxRewards
    BY DEF Reward, TypeOK
  <1>3. UNCHANGED <<user, ref, granted, progress, payout, aborts>>
    BY DEF Reward, db
  <1>4. RestOK'
    BY <1>2, <1>3, TypeParts DEF RestOK
  <1> QED BY <1>1, <1>4, TypeNext

LEMMA CreateHistoryType ==
  ASSUME TypeOK, NEW w \in Workers, CreateHistory(w)
  PROVE  TypeOK'
  <1>1. HandlersOK'
    BY TypeParts, GoType DEF CreateHistory, Labels
  <1>2. granted' \in [Users -> Nat]
    <2> DEFINE x == task[w].who
    <2>1. granted \in [Users -> Nat]
      BY TypeParts DEF RestOK
    <2>2. x \in Users => granted[x] + 1 \in Nat
      BY <2>1
    <2>3. granted' = [granted EXCEPT ![x] = granted[x] + 1]
      BY DEF CreateHistory
    <2> QED BY ONLY <2>1, <2>2, <2>3, UpdateType
  <1>3. RestOK'
    BY <1>2, TypeParts DEF CreateHistory, RestOK
  <1> QED BY <1>1, <1>3, TypeNext

LEMMA RewardedRow ==
  ASSUME NEW r \in RefRows, NEW n \in Nat
  PROVE  [r EXCEPT !.points = n] \in RefRows
  BY ONLY r \in RefRows, n \in Nat DEF RefRows

LEMMA UpdateReferralType ==
  ASSUME TypeOK, Backed, NEW w \in Workers, UpdateReferral(w)
  PROVE  TypeOK'
  <1>1. task[w].who \in Users /\ task[w].ref \in Referrals
    BY DEF Backed, UpdateReferral, Rewarding
  <1>2. user[task[w].who].points \in Nat /\ task[w].points \in Nat
    BY <1>1 DEF TypeOK
  <1>3. HandlersOK'
    BY <1>2, TypeParts DEF UpdateReferral, HandlersOK, Labels, Tasks
  <1>4. ref' \in [Referrals -> RefRows]
    <2> DEFINE x == task[w].ref
               e == [ref[x] EXCEPT !.points = task[w].points + 1]
    <2>1. ref \in [Referrals -> RefRows]
      BY TypeParts DEF RestOK
    <2>2. x \in Referrals => e \in RefRows
      <3>1. task[w].points + 1 \in Nat
        BY <1>2
      <3>2. x \in Referrals => ref[x] \in RefRows
        BY <2>1
      <3> SUFFICES ASSUME x \in Referrals PROVE e \in RefRows
        OBVIOUS
      <3>3. PICK r : r = ref[x]
        OBVIOUS
      <3>4. PICK n : n = task[w].points + 1
        OBVIOUS
      <3>5. r \in RefRows /\ n \in Nat
        BY ONLY <3>1, <3>2, <3>3, <3>4, x \in Referrals
      <3>6. [r EXCEPT !.points = n] \in RefRows
        BY ONLY <3>5, RewardedRow
      <3> QED BY ONLY <3>3, <3>4, <3>6
    <2>3. ref' = [ref EXCEPT ![x] = e]
      BY DEF UpdateReferral, NewPoints
    <2>4. PICK y : y = x
      OBVIOUS
    <2>5. PICK v : v = e
      OBVIOUS
    <2>6. (y \in Referrals => v \in RefRows) /\ ref' = [ref EXCEPT ![y] = v]
      BY ONLY <2>2, <2>3, <2>4, <2>5
    <2> HIDE DEF x, e
    <2> QED BY ONLY <2>1, <2>6, UpdateType
  <1>5. RestOK'
    BY <1>4, TypeParts DEF UpdateReferral, RestOK
  <1> QED BY <1>3, <1>5, TypeNext

LEMMA UpdatePointsType ==
  ASSUME TypeOK, NEW w \in Workers, UpdatePoints(w)
  PROVE  TypeOK'
  <1>1. HandlersOK'
    BY TypeParts, GoType, FinishType DEF UpdatePoints, Labels
  <1>2. task[w].balance \in Nat
    BY DEF TypeOK
  <1>3. user' \in [Users -> UserRows]
    <2> DEFINE x == task[w].who
               e == [user[x] EXCEPT !.points = task[w].balance + 1]
    <2>1. user \in [Users -> UserRows]
      BY TypeParts DEF RestOK
    <2>2. x \in Users => e \in UserRows
      BY <1>2, <2>1 DEF UserRows
    <2>3. user' = [user EXCEPT ![x] = e]
      BY DEF UpdatePoints, NewBalance
    <2> QED BY ONLY <2>1, <2>2, <2>3, UpdateType
  <1>4. RestOK'
    BY <1>3, TypeParts DEF UpdatePoints, RestOK
  <1> QED BY <1>1, <1>4, TypeNext

LEMMA CloseLoanType ==
  ASSUME TypeOK, NEW w \in Workers, NEW u \in Users, NEW onTime \in BOOLEAN,
         CloseLoan(w, u, onTime)
  PROVE  TypeOK'
  <1> DEFINE t == [NoTask EXCEPT !.job = "count", !.who = u, !.by = u]
             s == [RewardTask(u) EXCEPT !.closing = TRUE]
  <1>1. HandlersOK'
    <2>1. HandlersOK
      BY TypeParts
    <2>2. t \in Tasks
      BY DEF NoTask, Tasks
    <2>3. Referred(u) => s \in Tasks
      BY RewardTaskType
    <2>4. (Referred(u) /\ Start(w, s, "history")) \/ Start(w, t, "count")
      BY DEF CloseLoan
    <2> QED BY ONLY <2>1, <2>2, <2>3, <2>4, w \in Workers, StartType DEF Labels
  <1>2. rewards' \in 0 .. MaxRewards
    BY DEF CloseLoan, TypeOK
  <1>3. progress' \in [Users -> {"NEW", "AADHAAR", "ACTIVE", "COMPLETE"}]
    BY DEF CloseLoan, TypeOK
  <1>4. RestOK'
    BY <1>2, <1>3, TypeParts DEF CloseLoan, RestOK
  <1> QED BY <1>1, <1>4, TypeNext

LEMMA CountLoanType ==
  ASSUME TypeOK, NEW w \in Workers, CountLoan(w)
  PROVE  TypeOK'
  <1>1. HandlersOK'
    BY TypeParts, FinishType DEF CountLoan
  <1>2. user' \in [Users -> UserRows]
    <2> DEFINE x == task[w].by
               e == [user[x] EXCEPT !.completed = 1]
    <2>1. user \in [Users -> UserRows]
      BY TypeParts DEF RestOK
    <2>2. x \in Users => e \in UserRows
      BY <2>1 DEF UserRows
    <2>3. user' = [user EXCEPT ![x] = e]
      BY DEF CountLoan
    <2> QED BY ONLY <2>1, <2>2, <2>3, UpdateType
  <1>3. RestOK'
    BY <1>2, TypeParts DEF CountLoan, RestOK
  <1> QED BY <1>1, <1>3, TypeNext

LEMMA MilestoneType ==
  ASSUME TypeOK, NEW u \in Users, CompleteKyc(u) \/ ActivateLoan(u)
  PROVE  TypeOK'
  <1>1. HandlersOK'
    BY TypeParts DEF CompleteKyc, ActivateLoan, HandlersOK
  <1>2. progress' \in [Users -> {"NEW", "AADHAAR", "ACTIVE", "COMPLETE"}]
    <2>1. progress \in [Users -> {"NEW", "AADHAAR", "ACTIVE", "COMPLETE"}]
      BY DEF TypeOK
    <2>2. \/ progress' = [progress EXCEPT ![u] = "AADHAAR"]
          \/ progress' = [progress EXCEPT ![u] = "ACTIVE"]
      BY DEF CompleteKyc, ActivateLoan
    <2> QED BY ONLY <2>1, <2>2
  <1>3. RestOK'
    BY <1>2, TypeParts DEF CompleteKyc, ActivateLoan, RestOK
  <1> QED BY <1>1, <1>3, TypeNext

LEMMA WithdrawType ==
  ASSUME TypeOK, NEW w \in Workers, NEW v \in Users, NEW n \in 1 .. MaxRewards,
         Withdraw(w, v, n)
  PROVE  TypeOK'
  <1> DEFINE t == [NoTask EXCEPT !.job = "withdraw", !.who = v, !.amount = n]
  <1>1. t \in Tasks
    <2>1. n \in Nat
      OBVIOUS
    <2> QED BY <2>1 DEF NoTask, Tasks
  <1>2. HandlersOK'
    <2>1. HandlersOK /\ Start(w, t, "payout")
      BY TypeParts DEF Withdraw
    <2> QED BY ONLY <1>1, <2>1, w \in Workers, StartType DEF Labels
  <1>3. UNCHANGED <<user, ref, granted, progress, payout, rewards, aborts>>
    BY DEF Withdraw, db
  <1>4. RestOK'
    BY <1>3, TypeParts DEF RestOK
  <1> QED BY <1>2, <1>4, TypeNext

LEMMA RequestPayoutType ==
  ASSUME TypeOK, NEW w \in Workers, RequestPayout(w)
  PROVE  TypeOK'
  <1>1. HandlersOK'
    BY TypeParts, FinishType DEF RequestPayout
  <1>2. task[w].who \in Users \union {NoUser} /\ task[w].amount \in Nat
    BY DEF TypeOK
  <1>3. payout' \in [Payouts -> PayoutRows]
    <2>1. payout \in [Payouts -> PayoutRows]
      BY TypeParts DEF RestOK
    <2> DEFINE e == [user |-> task[w].who, amount |-> task[w].amount,
                     status |-> "INITIALIZED"]
    <2>2. e \in PayoutRows
      BY <1>2 DEF PayoutRows
    <2>3. payout' = payout \/ \E p \in Payouts : payout' = [payout EXCEPT ![p] = e]
      BY DEF RequestPayout
    <2> QED BY ONLY <2>1, <2>2, <2>3, UpdateType
  <1>4. RestOK'
    BY <1>3, TypeParts DEF RequestPayout, RestOK
  <1> QED BY <1>1, <1>4, TypeNext

LEMMA SettlePayoutType ==
  ASSUME TypeOK, NEW p \in Payouts, NEW status \in {"COMPLETED", "FAILED"},
         SettlePayout(p, status)
  PROVE  TypeOK'
  <1>1. HandlersOK'
    BY TypeParts DEF SettlePayout, HandlersOK
  <1>2. payout' \in [Payouts -> PayoutRows]
    <2>1. payout \in [Payouts -> PayoutRows]
      BY TypeParts DEF RestOK
    <2> DEFINE e == [payout[p] EXCEPT !.status = status]
    <2>2. e \in PayoutRows
      BY <2>1 DEF PayoutRows
    <2>3. payout' = [payout EXCEPT ![p] = e]
      BY DEF SettlePayout
    <2> QED BY ONLY <2>1, <2>2, <2>3, UpdateType
  <1>3. RestOK'
    BY <1>2, TypeParts DEF SettlePayout, RestOK
  <1> QED BY <1>1, <1>3, TypeNext

LEMMA AbortType ==
  ASSUME TypeOK, NEW w \in Workers, Abort(w)
  PROVE  TypeOK'
  <1>1. HandlersOK'
    BY TypeParts, NoTaskType DEF Abort, HandlersOK, Labels, Tasks
  <1>2. aborts' \in 0 .. MaxAborts
    BY DEF Abort, TypeOK
  <1>3. UNCHANGED <<user, ref, granted, progress, payout, rewards>>
    BY DEF Abort, db
  <1>4. RestOK'
    BY <1>2, <1>3, TypeParts DEF RestOK
  <1> QED BY <1>1, <1>4, TypeNext

LEMMA TypeStep == ASSUME TypeOK, Backed, [Next]_vars PROVE TypeOK'
  <1>1. CASE UNCHANGED vars
    BY <1>1 DEF TypeOK, vars, db
  <1>2. CASE World
    BY <1>2, MilestoneType, SettlePayoutType DEF World
  <1>3. CASE \E w \in Workers : Handle(w)
    <2> PICK w \in Workers : Handle(w)
      BY <1>3
    <2>1. CASE \E u, v \in Users : SignUp(w, u, v)
      BY <2>1, SignUpType
    <2>2. CASE CreateReferral(w) \/ LinkReferral(w)
      BY <2>2, CreateReferralType, LinkReferralType
    <2>3. CASE \E u \in Users, stage \in Stages : Reward(w, u, stage)
      BY <2>3, RewardType
    <2>4. CASE CreateHistory(w) \/ UpdateReferral(w) \/ UpdatePoints(w)
      BY <2>4, CreateHistoryType, UpdateReferralType, UpdatePointsType
    <2>5. CASE \E u \in Users, onTime \in BOOLEAN : CloseLoan(w, u, onTime)
      BY <2>5, CloseLoanType
    <2>6. CASE CountLoan(w) \/ RequestPayout(w) \/ Abort(w)
      BY <2>6, CountLoanType, RequestPayoutType, AbortType
    <2>7. CASE \E v \in Users, n \in 1 .. MaxRewards : Withdraw(w, v, n)
      BY <2>7, WithdrawType
    <2> QED BY <2>1, <2>2, <2>3, <2>4, <2>5, <2>6, <2>7 DEF Handle
  <1> QED BY <1>1, <1>2, <1>3 DEF Next
-----------------------------------------------------------------------------
(* A handler that starts has its referrer; the others keep theirs, because *)
(* no row ever loses the name of the referrer in it.                       *)

(* Handler x stands where it stood, or where nothing is asked of it. *)
Unasked == {"idle", "count", "payout"}
Still(x) ==
  \/ pc'[x] \in Unasked
  \/ pc'[x] = pc[x] /\ task'[x] = task[x]

NamesKept == \A r \in Referrals : ref[r].by \in Users => ref'[r].by \in Users

NamedNext(r) == r \in Referrals /\ ref'[r].by \in Users

BackedFor(x) ==
  /\ pc[x] = "referral" => task[x].by \in Users
  /\ pc[x] = "link" => Named(task[x].ref)
  /\ pc[x] \in Rewarding => task[x].who \in Users /\ task[x].ref \in Referrals

LEMMA BackedStep ==
  ASSUME Backed, NamesKept,
         \A x \in Workers : Still(x) \/ BackedFor(x)',
         \A u \in Users : user'[u].ref = user[u].ref \/ NamedNext(user'[u].ref)
  PROVE  Backed'
  <1>1. ASSUME NEW r, Named(r) PROVE NamedNext(r)
    BY <1>1 DEF Named, NamesKept, NamedNext
  <1>2. ASSUME NEW x \in Workers PROVE BackedFor(x)'
    <2>1. CASE Still(x)
      BY <1>1, <2>1 DEF Still, Unasked, BackedFor, Backed, Rewarding, Named, NamedNext
    <2> QED BY <2>1
  <1>3. ASSUME NEW u \in Users, user'[u].ref # NoReferral PROVE NamedNext(user'[u].ref)
    BY <1>1, <1>3 DEF Backed
  <1> QED BY <1>2, <1>3 DEF Backed, BackedFor, Named, NamedNext

LEMMA StartStill ==
  ASSUME TypeOK, NEW w \in Workers, NEW t, NEW label, Start(w, t, label)
  PROVE  /\ pc'[w] = label /\ task'[w] = t
         /\ \A x \in Workers \ {w} : Still(x)
  BY DEF TypeOK, Start, Still

LEMMA GoStill ==
  ASSUME TypeOK, NEW w \in Workers, NEW label, Go(w, label)
  PROVE  /\ pc'[w] = label /\ task' = task
         /\ \A x \in Workers \ {w} : Still(x)
  BY DEF TypeOK, Go, Still

LEMMA FinishStill ==
  ASSUME TypeOK, NEW w \in Workers, Finish(w)
  PROVE  \A x \in Workers : Still(x)
  BY DEF TypeOK, Finish, Still, Unasked

LEMMA SignUpBacked ==
  ASSUME TypeOK, Backed, NEW w \in Workers, NEW u \in Users, NEW v \in Users,
         SignUp(w, u, v)
  PROVE  Backed'
  <1> DEFINE t == [NoTask EXCEPT !.job = "signup", !.who = u, !.by = v]
  <1>1. Start(w, t, "referral") /\ UNCHANGED <<user, ref>>
    BY DEF SignUp, db
  <1>2. pc'[w] = "referral" /\ task'[w] = t /\ \A x \in Workers \ {w} : Still(x)
    BY <1>1, StartStill
  <1>3. BackedFor(w)'
    BY <1>2 DEF BackedFor, NoTask, Rewarding
  <1>4. NamesKept
    BY <1>1 DEF NamesKept
  <1> QED BY <1>1, <1>2, <1>3, <1>4, BackedStep

LEMMA CreateReferralBacked ==
  ASSUME TypeOK, Backed, NEW w \in Workers, CreateReferral(w)
  PROVE  Backed'
  <1>1. PICK r \in Referrals :
          /\ ref[r] = NoRef
          /\ ref' = [ref EXCEPT ![r] = [by |-> task[w].by, to |-> task[w].who,
                                        points |-> 0]]
          /\ task' = [task EXCEPT ![w].ref = r]
    BY DEF CreateReferral
  <1>2. pc' = [pc EXCEPT ![w] = "link"] /\ user' = user
    BY DEF CreateReferral
  <1>3. task[w].by \in Users
    BY DEF Backed, CreateReferral
  <1>4. NamesKept
    BY <1>1, <1>3 DEF NamesKept, TypeOK
  <1>5. BackedFor(w)'
    <2>1. pc'[w] = "link" /\ task'[w].ref = r /\ ref'[r].by = task[w].by
      BY <1>1, <1>2 DEF TypeOK
    <2> QED BY <1>3, <2>1 DEF BackedFor, Named, Rewarding
  <1>6. \A x \in Workers \ {w} : Still(x)
    BY <1>1, <1>2 DEF Still, TypeOK
  <1> QED BY <1>2, <1>4, <1>5, <1>6, BackedStep

LEMMA LinkReferralBacked ==
  ASSUME TypeOK, Backed, NEW w \in Workers, LinkReferral(w)
  PROVE  Backed'
  <1> DEFINE e == [user[task[w].who] EXCEPT !.by = task[w].by, !.ref = task[w].ref]
  <1>1. Named(task[w].ref) /\ ref' = ref
    BY DEF LinkReferral, Backed
  <1>2. \A x \in Workers : Still(x)
    BY FinishStill DEF LinkReferral
  <1>3. user' = [user EXCEPT ![task[w].who] = e] /\ user \in [Users -> UserRows]
    BY TypeParts DEF LinkReferral, RestOK
  <1>4. ASSUME NEW u \in Users PROVE user'[u].ref \in {user[u].ref, task[w].ref}
    <2>1. user[u] \in UserRows
      BY <1>3
    <2> QED BY <1>3, <2>1 DEF UserRows
  <1>5. NamesKept
    BY <1>1 DEF NamesKept
  <1>6. NamedNext(task[w].ref)
    BY <1>1 DEF Named, NamedNext
  <1> QED BY ONLY <1>2, <1>4, <1>5, <1>6, Backed, BackedStep

LEMMA RewardStarts ==
  ASSUME TypeOK, Backed, NEW w \in Workers, NEW u \in Users, Referred(u), NEW t,
         t.who = ref[user[u].ref].by, t.ref = user[u].ref, Start(w, t, "history"),
         UNCHANGED <<user, ref>>
  PROVE  Backed'
  <1>1. pc'[w] = "history" /\ task'[w] = t /\ \A x \in Workers \ {w} : Still(x)
    BY StartStill
  <1>2. Named(user[u].ref)
    BY DEF Referred, Backed
  <1>3. BackedFor(w)'
    BY <1>1, <1>2 DEF BackedFor, Rewarding, Named
  <1>4. NamesKept
    BY DEF NamesKept
  <1> QED BY <1>1, <1>3, <1>4, BackedStep

LEMMA RewardBacked ==
  ASSUME TypeOK, Backed, NEW w \in Workers, NEW u \in Users, NEW stage \in Stages,
         Reward(w, u, stage)
  PROVE  Backed'
  <1>1. UNCHANGED <<user, ref>> /\ Referred(u) /\ Start(w, RewardTask(u), "history")
    BY DEF Reward, db
  <1>2. RewardTask(u).who = ref[user[u].ref].by /\ RewardTask(u).ref = user[u].ref
    BY DEF RewardTask, NoTask
  <1> QED BY <1>1, <1>2, RewardStarts

LEMMA CloseLoanBacked ==
  ASSUME TypeOK, Backed, NEW w \in Workers, NEW u \in Users, NEW onTime \in BOOLEAN,
         CloseLoan(w, u, onTime)
  PROVE  Backed'
  <1> DEFINE s == [RewardTask(u) EXCEPT !.closing = TRUE]
             t == [NoTask EXCEPT !.job = "count", !.who = u, !.by = u]
  <1>1. UNCHANGED <<user, ref>>
    BY DEF CloseLoan
  <1>2. CASE Referred(u) /\ Start(w, s, "history")
    <2>1. s.who = ref[user[u].ref].by /\ s.ref = user[u].ref
      BY DEF RewardTask, NoTask
    <2> QED BY <1>1, <1>2, <2>1, RewardStarts
  <1>3. CASE Start(w, t, "count")
    <2>1. pc'[w] = "count" /\ \A x \in Workers \ {w} : Still(x)
      BY <1>3, StartStill
    <2>2. \A x \in Workers : Still(x)
      BY <2>1 DEF Still, Unasked
    <2> QED BY <1>1, <2>2, BackedStep DEF NamesKept
  <1> QED BY <1>2, <1>3 DEF CloseLoan

(* The steps of a reward that is under way. *)
LEMMA RewardingBacked ==
  ASSUME TypeOK, Backed, NEW w \in Workers,
         CreateHistory(w) \/ UpdateReferral(w) \/ UpdatePoints(w)
  PROVE  Backed'
  <1>1. task[w].who \in Users /\ task[w].ref \in Referrals
    BY DEF Backed, Rewarding, CreateHistory, UpdateReferral, UpdatePoints
  <1>2. CASE CreateHistory(w)
    <2>1. pc'[w] = "update" /\ task' = task /\ \A x \in Workers \ {w} : Still(x)
      BY <1>2, GoStill DEF CreateHistory
    <2>2. BackedFor(w)'
      BY <1>1, <2>1 DEF BackedFor, Rewarding
    <2> QED BY <1>2, <2>1, <2>2, BackedStep DEF CreateHistory, NamesKept
  <1>3. CASE UpdateReferral(w)
    <2>1. /\ pc'[w] = "points" /\ \A x \in Workers \ {w} : Still(x)
          /\ task'[w].who = task[w].who /\ task'[w].ref = task[w].ref
      BY <1>3 DEF UpdateReferral, Still, TypeOK
    <2>2. BackedFor(w)'
      BY <1>1, <2>1 DEF BackedFor, Rewarding
    <2>3. NamesKept
      BY <1>3 DEF UpdateReferral, NamesKept, TypeOK
    <2> QED BY <1>3, <2>1, <2>2, <2>3, BackedStep DEF UpdateReferral
  <1>4. CASE UpdatePoints(w)
    <2>1. \A x \in Workers : Still(x)
      <3>1. CASE Go(w, "count")
        BY <3>1, GoStill DEF Still, Unasked
      <3> QED BY <1>4, <3>1, FinishStill DEF UpdatePoints
    <2>2. user' = [user EXCEPT ![task[w].who] = [user[task[w].who] EXCEPT !.points = NewBalance(w)]]
      BY <1>4 DEF UpdatePoints
    <2>3. \A u \in Users : user'[u].ref = user[u].ref
      <3>1. user \in [Users -> UserRows]
        BY TypeParts DEF RestOK
      <3> QED BY <2>2, <3>1 DEF UserRows
    <2> QED BY <1>4, <2>1, <2>3, BackedStep DEF UpdatePoints, NamesKept
  <1> QED BY <1>2, <1>3, <1>4

(* The steps that start no reward and touch no referral. *)
LEMMA OtherBacked ==
  ASSUME TypeOK, Backed, NEW w \in Workers,
         CountLoan(w) \/ RequestPayout(w) \/ Abort(w)
           \/ \E v \in Users, n \in 1 .. MaxRewards : Withdraw(w, v, n)
  PROVE  Backed'
  <1>1. ref' = ref
    BY DEF CountLoan, RequestPayout, Abort, Withdraw, db
  <1>2. \A x \in Workers : Still(x)
    <2>1. CASE CountLoan(w) \/ RequestPayout(w)
      BY <2>1, FinishStill DEF CountLoan, RequestPayout
    <2>2. CASE Abort(w)
      BY <2>2 DEF Abort, TypeOK, Still, Unasked
    <2>3. ASSUME NEW v \in Users, NEW n \in 1 .. MaxRewards, Withdraw(w, v, n)
          PROVE  \A x \in Workers : Still(x)
      <3>1. pc'[w] = "payout" /\ \A x \in Workers \ {w} : Still(x)
        BY <2>3, StartStill DEF Withdraw
      <3> QED BY <3>1 DEF Still, Unasked
    <2> QED BY <2>1, <2>2, <2>3
  <1>3. \A u \in Users : user'[u].ref = user[u].ref
    <2>1. CASE CountLoan(w)
      <3>1. user \in [Users -> UserRows]
        BY TypeParts DEF RestOK
      <3>2. user' = [user EXCEPT ![task[w].by] = [user[task[w].by] EXCEPT !.completed = 1]]
        BY <2>1 DEF CountLoan
      <3> QED BY <3>1, <3>2 DEF UserRows
    <2>2. CASE UNCHANGED user
      BY <2>2
    <2> QED BY <2>1, <2>2 DEF RequestPayout, Abort, Withdraw, db
  <1> QED BY <1>1, <1>2, <1>3, BackedStep DEF NamesKept

LEMMA WorldBacked ==
  ASSUME Backed, World \/ UNCHANGED vars
  PROVE  Backed'
  <1>1. UNCHANGED <<user, ref, pc, task>>
    BY DEF World, CompleteKyc, ActivateLoan, SettlePayout, vars, db
  <1> QED BY <1>1 DEF Backed, Named

LEMMA BackedInvariant == ASSUME TypeOK, Backed, [Next]_vars PROVE Backed'
  <1>1. CASE World \/ UNCHANGED vars
    BY <1>1, WorldBacked
  <1>2. CASE \E w \in Workers : Handle(w)
    <2> PICK w \in Workers : Handle(w)
      BY <1>2
    <2>1. CASE \E u, v \in Users : SignUp(w, u, v)
      BY <2>1, SignUpBacked
    <2>2. CASE CreateReferral(w) \/ LinkReferral(w)
      BY <2>2, CreateReferralBacked, LinkReferralBacked
    <2>3. CASE \E u \in Users, stage \in Stages : Reward(w, u, stage)
      BY <2>3, RewardBacked
    <2>4. CASE CreateHistory(w) \/ UpdateReferral(w) \/ UpdatePoints(w)
      BY <2>4, RewardingBacked
    <2>5. CASE \E u \in Users, onTime \in BOOLEAN : CloseLoan(w, u, onTime)
      BY <2>5, CloseLoanBacked
    <2>6. CASE \/ CountLoan(w) \/ RequestPayout(w) \/ Abort(w)
               \/ \E v \in Users, n \in 1 .. MaxRewards : Withdraw(w, v, n)
      BY <2>6, OtherBacked
    <2> QED BY <2>1, <2>2, <2>3, <2>4, <2>5, <2>6 DEF Handle
  <1> QED BY <1>1, <1>2 DEF Next

-----------------------------------------------------------------------------
(* The wallet: a reward that is booked in the history makes room for one   *)
(* more pending reward, and one that reaches the wallet takes it.          *)

LEMMA PendingFinite ==
  \A v : IsFiniteSet(Pending(v)) /\ Cardinality(Pending(v)) \in Nat
  <1>1. \A v : IsFiniteSet(Pending(v))
    BY FS_Subset DEF Pending, ReferralAssumption
  <1> QED BY <1>1, FS_CardinalityType

LEMMA PendingFiniteNext ==
  \A v : IsFiniteSet(Pending(v)') /\ Cardinality(Pending(v)') \in Nat
  <1>1. \A v : IsFiniteSet(Pending(v)')
    BY FS_Subset DEF Pending, ReferralAssumption
  <1> QED BY <1>1, FS_CardinalityType

(* A handler is pending after the step only if it was before, unchanged. *)
Settled(x) ==
  \/ pc'[x] \notin {"update", "points"}
  \/ pc'[x] = pc[x] /\ task'[x] = task[x]

LEMMA WalletKept ==
  ASSUME TypeOK, Wallet, granted' = granted,
         \A v \in Users : user'[v].points = user[v].points,
         \A x \in Workers : Settled(x)
  PROVE  Wallet'
  <1> SUFFICES ASSUME NEW v \in Users
               PROVE  /\ Room(v, user[v].points)'
                      /\ \A x \in Pending(v)' : pc'[x] = "points" => Room(v, task[x].balance)'
    BY DEF Wallet
  <1>1. Pending(v)' \subseteq Pending(v)
    BY DEF Pending, Settled
  <1>2. Cardinality(Pending(v)') <= Cardinality(Pending(v))
    BY <1>1, PendingFinite, FS_Subset
  <1>3. ASSUME NEW n \in Nat, Room(v, n) PROVE n + Cardinality(Pending(v)') <= granted[v]
    <2>1. granted[v] \in Nat
      BY DEF TypeOK
    <2> QED BY <1>2, <1>3, <2>1, PendingFinite, PendingFiniteNext DEF Room
  <1>4. user[v].points \in Nat
    BY DEF TypeOK
  <1>5. ASSUME NEW x \in Pending(v)', pc'[x] = "points"
        PROVE  /\ x \in Pending(v) /\ pc[x] = "points" /\ task'[x] = task[x]
               /\ task[x].balance \in Nat
    BY <1>1, <1>5 DEF Pending, Settled, TypeOK
  <1>6. Room(v, user[v].points)'
    BY <1>3, <1>4 DEF Room, Wallet
  <1>7. ASSUME NEW x \in Pending(v)', pc'[x] = "points" PROVE Room(v, task[x].balance)'
    BY <1>3, <1>5, <1>7 DEF Room, Wallet
  <1> QED BY <1>6, <1>7

LEMMA CreateHistoryWallet ==
  ASSUME TypeOK, Backed, Wallet, NEW w \in Workers, CreateHistory(w)
  PROVE  Wallet'
  <1>1. PICK a \in Users : a = task[w].who
    BY DEF Backed, Rewarding, CreateHistory
  <1>2. /\ pc[w] = "history" /\ pc' = [pc EXCEPT ![w] = "update"] /\ task' = task
        /\ user' = user /\ granted' = [granted EXCEPT ![a] = granted[a] + 1]
    BY <1>1 DEF CreateHistory, Go
  <1>3. Pending(a)' = Pending(a) \union {w} /\ w \notin Pending(a)
    BY <1>1, <1>2 DEF Pending, TypeOK
  <1>4. Cardinality(Pending(a)') = Cardinality(Pending(a)) + 1
    BY <1>3, PendingFinite, FS_AddElement
  <1>5. granted'[a] = granted[a] + 1 /\ granted[a] \in Nat
    BY <1>1, <1>2 DEF TypeOK
  <1>6. ASSUME NEW v \in Users \ {a}
        PROVE  Pending(v)' = Pending(v) /\ granted'[v] = granted[v]
    BY <1>1, <1>2 DEF Pending, TypeOK
  <1>7. ASSUME NEW v \in Users, NEW n \in Nat, Room(v, n)
        PROVE  n + Cardinality(Pending(v)') <= granted'[v]
    <2>1. CASE v = a
      <3>1. n + Cardinality(Pending(a)) <= granted[a] /\ Cardinality(Pending(a)) \in Nat
        BY <1>7, <2>1, PendingFinite DEF Room
      <3>2. n + Cardinality(Pending(a)') <= granted'[a]
        BY ONLY <1>4, <1>5, <3>1, n \in Nat
      <3> QED BY ONLY <2>1, <3>2 DEF Pending
    <2>2. CASE v # a
      BY <1>6, <1>7, <2>2 DEF Room
    <2> QED BY <2>1, <2>2
  <1>8. ASSUME NEW v \in Users PROVE Room(v, user[v].points)'
    <2>1. user[v].points \in Nat /\ Room(v, user[v].points)
      BY DEF TypeOK, Wallet
    <2> QED BY <1>2, <1>7, <2>1 DEF Room
  <1>9. ASSUME NEW v \in Users, NEW x \in Pending(v)', pc'[x] = "points"
        PROVE  Room(v, task[x].balance)'
    <2>1. x \in Pending(v) /\ pc[x] = "points" /\ task[x].balance \in Nat
      BY <1>2, <1>9 DEF Pending, TypeOK
    <2> QED BY <1>2, <1>7, <2>1 DEF Room, Wallet
  <1> QED BY <1>8, <1>9 DEF Wallet

LEMMA UpdateReferralWallet ==
  ASSUME TypeOK, Backed, Wallet, NEW w \in Workers, UpdateReferral(w)
  PROVE  Wallet'
  <1>1. PICK a \in Users : a = task[w].who
    BY DEF Backed, Rewarding, UpdateReferral
  <1>2. /\ pc[w] = "update" /\ pc' = [pc EXCEPT ![w] = "points"]
        /\ task' = [task EXCEPT ![w].balance = user[a].points]
        /\ user' = user /\ granted' = granted
    BY <1>1 DEF UpdateReferral
  <1>3. \A x \in Workers : task'[x].who = task[x].who
    BY <1>2 DEF TypeOK
  <1>4. task'[w].balance = user[a].points /\ task'[w].who = a
    BY <1>1, <1>2 DEF TypeOK
  <1>5. \A x \in Workers \ {w} : pc'[x] = pc[x] /\ task'[x] = task[x]
    BY <1>2 DEF TypeOK
  <1>6. pc'[w] = "points"
    BY <1>2 DEF TypeOK
  <1>7. \A v : Pending(v)' = Pending(v)
    BY <1>2, <1>3, <1>5, <1>6 DEF Pending
  <1>8. ASSUME NEW v \in Users PROVE Room(v, user[v].points)'
    BY <1>2, <1>7 DEF Room, Wallet
  <1>9. ASSUME NEW v \in Users, NEW x \in Pending(v)', pc'[x] = "points"
        PROVE  Room(v, task[x].balance)'
    <2>1. CASE x = w
      <3>1. v = a
        BY <1>4, <1>9, <2>1 DEF Pending
      <3> QED BY <1>1, <1>2, <1>4, <1>7, <2>1, <3>1 DEF Room, Wallet
    <2>2. CASE x # w
      <3>1. x \in Pending(v) /\ pc[x] = "points" /\ task'[x] = task[x]
        BY <1>5, <1>7, <1>9, <2>2 DEF Pending
      <3> QED BY <1>2, <1>7, <3>1 DEF Room, Wallet
    <2> QED BY <2>1, <2>2
  <1> QED BY <1>8, <1>9 DEF Wallet

LEMMA UpdatePointsWallet ==
  ASSUME TypeOK, Backed, Wallet, NEW w \in Workers, UpdatePoints(w)
  PROVE  Wallet'
  <1>1. PICK a \in Users : a = task[w].who /\ w \in Pending(a) /\ pc[w] = "points"
    BY DEF Backed, Rewarding, UpdatePoints, Pending
  <1>2. /\ granted' = granted
        /\ user' = [user EXCEPT ![a].points = task[w].balance + 1]
    BY <1>1 DEF UpdatePoints, NewBalance
  <1>3. /\ pc'[w] \notin {"update", "points"}
        /\ \A x \in Workers \ {w} : pc'[x] = pc[x] /\ task'[x] = task[x]
    <2>1. CASE Go(w, "count")
      BY <2>1 DEF Go, TypeOK
    <2>2. CASE Finish(w)
      BY <2>2 DEF Finish, TypeOK
    <2> QED BY <2>1, <2>2 DEF UpdatePoints
  <1>4. /\ user'[a].points = task[w].balance + 1
        /\ \A v \in Users \ {a} : user'[v].points = user[v].points
    BY <1>1, <1>2 DEF TypeOK
  <1>5. \A v : Pending(v)' = Pending(v) \ {w}
    BY <1>3 DEF Pending
  <1>6. Cardinality(Pending(a)') = Cardinality(Pending(a)) - 1
    <2>1. IsFiniteSet(Pending(a)) /\ w \in Pending(a) /\ Pending(a)' = Pending(a) \ {w}
      BY <1>1, <1>3, PendingFinite DEF Pending
    <2> QED BY ONLY <2>1, FS_RemoveElement
  <1>7. \A v \in Users \ {a} : Pending(v)' = Pending(v)
    BY <1>1, <1>5 DEF Pending
  <1>8. task[w].balance \in Nat /\ granted[a] \in Nat /\ Room(a, task[w].balance)
    BY <1>1 DEF TypeOK, Wallet
  <1>9. ASSUME NEW v \in Users, NEW n \in Nat, Room(v, n)
        PROVE  n + Cardinality(Pending(v)') <= granted[v]
    <2>1. CASE v = a
      <3>1. n + Cardinality(Pending(a)) <= granted[a] /\ Cardinality(Pending(a)) \in Nat
        BY <1>9, <2>1, PendingFinite DEF Room
      <3>2. granted[a] \in Nat
        BY <1>8
      <3>3. n + Cardinality(Pending(a)') <= granted[a]
        BY ONLY <1>6, <3>1, <3>2, n \in Nat
      <3> QED BY ONLY <2>1, <3>3 DEF Pending
    <2>2. CASE v # a
      BY <1>7, <1>9, <2>2 DEF Room
    <2> QED BY <2>1, <2>2
  <1>10. ASSUME NEW v \in Users PROVE Room(v, user[v].points)'
    <2>1. CASE v = a
      <3>1. task[w].balance + Cardinality(Pending(a)) <= granted[a]
        BY <1>8 DEF Room
      <3>2. task[w].balance + 1 + Cardinality(Pending(a)') <= granted[a]
        <4>1. Cardinality(Pending(a)) \in Nat
          BY PendingFinite
        <4>2. task[w].balance \in Nat /\ granted[a] \in Nat
          BY <1>8
        <4> QED BY ONLY <1>6, <3>1, <4>1, <4>2
      <3>3. user'[v].points + Cardinality(Pending(v)') <= granted'[v]
        BY ONLY <1>2, <1>4, <2>1, <3>2 DEF Pending
      <3> QED BY <3>3 DEF Room
    <2>2. CASE v # a
      BY <1>2, <1>4, <1>7, <2>2 DEF Room, Wallet
    <2> QED BY <2>1, <2>2
  <1>11. ASSUME NEW v \in Users, NEW x \in Pending(v)', pc'[x] = "points"
         PROVE  Room(v, task[x].balance)'
    <2>1. x \in Pending(v) /\ x # w
      BY <1>5, <1>11
    <2>2. pc[x] = "points" /\ task'[x] = task[x] /\ task[x].balance \in Nat
      BY <1>3, <1>11, <2>1 DEF Pending, TypeOK
    <2>3. Room(v, task[x].balance)
      BY <2>1, <2>2 DEF Wallet
    <2> QED BY <1>2, <1>9, <2>2, <2>3 DEF Room
  <1> QED BY <1>10, <1>11 DEF Wallet

(* The steps that neither book a reward nor change a wallet. *)
LEMMA OtherWallet ==
  ASSUME TypeOK, Wallet, NEW w \in Workers, Handle(w),
         ~ CreateHistory(w), ~ UpdateReferral(w), ~ UpdatePoints(w)
  PROVE  Wallet'
  <1>1. ASSUME NEW t, NEW label \in {"referral", "history", "count", "payout"},
               Start(w, t, label)
        PROVE  \A x \in Workers : Settled(x)
    BY <1>1 DEF Start, Settled, TypeOK
  <1>2. Finish(w) => \A x \in Workers : Settled(x)
    BY DEF Finish, Settled, TypeOK
  <1>3. user \in [Users -> UserRows]
    BY TypeParts DEF RestOK
  <1>4. ASSUME NEW u \in Users, NEW v \in Users, SignUp(w, u, v) PROVE Wallet'
    BY <1>1, <1>4, WalletKept DEF SignUp, db
  <1>5. CASE CreateReferral(w)
    <2>1. pc' = [pc EXCEPT ![w] = "link"] /\ \E r \in Referrals : task' = [task EXCEPT ![w].ref = r]
      BY <1>5 DEF CreateReferral
    <2>2. \A x \in Workers : Settled(x)
      BY <2>1 DEF Settled, TypeOK
    <2> QED BY <1>5, <2>2, WalletKept DEF CreateReferral
  <1>6. CASE LinkReferral(w)
    <2> DEFINE a == task[w].who
    <2>1. user' = [user EXCEPT ![a] = [user[a] EXCEPT !.by = task[w].by, !.ref = task[w].ref]]
      BY <1>6 DEF LinkReferral
    <2>2. \A v \in Users : user'[v].points = user[v].points
      BY <1>3, <2>1 DEF UserRows
    <2> QED BY <1>2, <1>6, <2>2, WalletKept DEF LinkReferral
  <1>7. ASSUME NEW u \in Users, NEW stage \in Stages, Reward(w, u, stage) PROVE Wallet'
    BY <1>1, <1>7, WalletKept DEF Reward, db
  <1>8. ASSUME NEW u \in Users, NEW onTime \in BOOLEAN, CloseLoan(w, u, onTime) PROVE Wallet'
    BY <1>1, <1>8, WalletKept DEF CloseLoan
  <1>9. CASE CountLoan(w)
    <2> DEFINE a == task[w].by
    <2>1. user' = [user EXCEPT ![a] = [user[a] EXCEPT !.completed = 1]]
      BY <1>9 DEF CountLoan
    <2>2. \A v \in Users : user'[v].points = user[v].points
      BY <1>3, <2>1 DEF UserRows
    <2> QED BY <1>2, <1>9, <2>2, WalletKept DEF CountLoan
  <1>10. ASSUME NEW v \in Users, NEW n \in 1 .. MaxRewards, Withdraw(w, v, n) PROVE Wallet'
    BY <1>1, <1>10, WalletKept DEF Withdraw, db
  <1>11. CASE RequestPayout(w)
    BY <1>2, <1>11, WalletKept DEF RequestPayout
  <1>12. CASE Abort(w)
    <2>1. \A x \in Workers : Settled(x)
      BY <1>12 DEF Abort, Settled, TypeOK
    <2> QED BY <1>12, <2>1, WalletKept DEF Abort, db
  <1> QED BY <1>4, <1>5, <1>6, <1>7, <1>8, <1>9, <1>10, <1>11, <1>12 DEF Handle

LEMMA WalletInvariant == ASSUME TypeOK, Backed, Wallet, [Next]_vars PROVE Wallet'
  <1>1. CASE World \/ UNCHANGED vars
    <2>1. UNCHANGED <<user, granted, pc, task>>
      BY <1>1 DEF World, CompleteKyc, ActivateLoan, SettlePayout, vars, db
    <2> QED BY <2>1, WalletKept DEF Settled
  <1>2. CASE \E w \in Workers : Handle(w)
    BY <1>2, CreateHistoryWallet, UpdateReferralWallet, UpdatePointsWallet, OtherWallet
  <1> QED BY <1>1, <1>2 DEF Next

LEMMA InitWallet == Init => Backed /\ Wallet
  <1> SUFFICES ASSUME Init PROVE Backed /\ Wallet
    OBVIOUS
  <1>1. \A v : Pending(v) = {}
    BY DEF Init, Pending
  <1>2. \A v : Cardinality(Pending(v)) = 0
    BY <1>1, FS_EmptySet
  <1>3. \A v \in Users : user[v].points = 0 /\ granted[v] = 0 /\ user[v].ref = 0
    BY DEF Init
  <1>4. Wallet
    BY <1>1, <1>2, <1>3 DEF Wallet, Room
  <1> QED BY <1>3, <1>4 DEF Init, Backed, Rewarding

-----------------------------------------------------------------------------
(* The inductive invariant holds in every reachable state: types, a        *)
(* referrer behind every reward, and room in the history for it.           *)
THEOREM ReferralInvariance == Spec => []WalletInv
  <1>1. Init => WalletInv
    BY InitType, InitWallet DEF WalletInv
  <1>2. WalletInv /\ [Next]_vars => WalletInv'
    BY TypeStep, BackedInvariant, WalletInvariant DEF WalletInv
  <1> QED BY <1>1, <1>2, PTL DEF Spec

(* The variables stay in their domains, for any users and handlers. *)
THEOREM ReferralTypeCorrect == Spec => []TypeOK
  <1>1. WalletInv => TypeOK
    BY DEF WalletInv
  <1> QED BY <1>1, ReferralInvariance, PTL

(* No interleaving of updateReferral and no lost write ever puts more into *)
(* a wallet than the history of rewards accounts for.                      *)
THEOREM WalletNeverInvents == Spec => []WalletIsEarned
  <1>1. WalletInv => WalletIsEarned
    <2> SUFFICES ASSUME WalletInv, NEW v \in Users PROVE user[v].points <= granted[v]
      BY DEF WalletIsEarned
    <2>1. /\ user[v].points \in Nat /\ granted[v] \in Nat
          /\ user[v].points + Cardinality(Pending(v)) <= granted[v]
      BY DEF WalletInv, TypeOK, Wallet, Room
    <2> QED BY <2>1, PendingFinite
  <1> QED BY <1>1, ReferralInvariance, PTL

-----------------------------------------------------------------------------
(* Agreement and cover: what holds of a referrer whose handlers never      *)
(* overlapped and never died.                                              *)

Rewarders(v) == {w \in Workers : task[w].job = "reward" /\ task[w].who = v}
Askers(v) == {w \in Workers : task[w].job = "withdraw" /\ task[w].who = v}

(* What a handler is doing shows at its label, and a reward belongs to the *)
(* referrer whom its row names.                                            *)
JobOK(w) ==
  /\ pc[w] = "idle" => task[w].job = "NONE"
  /\ task[w].job = "reward" => pc[w] \in Rewarding \union {"count"}
  /\ task[w].job = "withdraw" => pc[w] = "payout"
  /\ pc[w] = "payout" => task[w].job = "withdraw"
  /\ pc[w] \in Rewarding => task[w].job = "reward" /\ ref[task[w].ref].by = task[w].who
JobsOK == \A w \in Workers : JobOK(w)

(* How far the reward of handler w has come: history, row, wallet.         *)
Halfway(w, v) ==
  /\ pc[w] \in {"history", "update"} => task[w].points = ref[task[w].ref].points
  /\ granted[v] = user[v].points + (IF pc[w] \in {"update", "points"} THEN 1 ELSE 0)
  /\ granted[v] = Earned(v) + (IF pc[w] = "update" THEN 1 ELSE 0)
  /\ pc[w] = "points" => task[w].balance = user[v].points
Agree(v) ==
  v \notin disturbed =>
    /\ \A w, x \in Rewarders(v) : w = x
    /\ Rewarders(v) = {} => user[v].points = granted[v] /\ Earned(v) = granted[v]
    /\ \A w \in Rewarders(v) : Halfway(w, v)

(* What is paid or promised, and what a handler is about to promise.       *)
Promised(v) ==
  Sum(LAMBDA p : payout[p].amount, PayoutsOf(v, {"INITIALIZED", "COMPLETED"}))
Covered(v) ==
  v \notin disturbed =>
    /\ Promised(v) <= Earned(v)
    /\ \A w, x \in Askers(v) : w = x
    /\ \A w \in Askers(v) : /\ PayoutsOf(v, {"INITIALIZED"}) = {}
                            /\ Promised(v) + task[w].amount <= Earned(v)

AllAgree == JobsOK /\ \A v \in Users : Agree(v)
AllCovered == \A v \in Users : Covered(v)
MoneyInv == AllAgree /\ AllCovered

-----------------------------------------------------------------------------
(* Sums of points and of payouts, as functions of the table.               *)

LEMMA FiniteTables == IsFiniteSet(Referrals) /\ IsFiniteSet(Payouts)
<1>1. IsFiniteSet(1 .. MaxReferrals) /\ IsFiniteSet(1 .. MaxPayouts)
  BY FS_Interval
<1> QED BY <1>1

OwnRefs(f, v) == {r \in Referrals : f[r].by = v}
PointsIn(f, v) == SumFunctionOnSet([r \in OwnRefs(f, v) |-> f[r].points], OwnRefs(f, v))
PointShare(f, v) == [r \in Referrals |-> IF f[r].by = v THEN f[r].points ELSE 0]

OwnPayouts(f, v, T) == {p \in Payouts : f[p].user = v /\ f[p].status \in T}
PaidIn(f, v, T) ==
  SumFunctionOnSet([p \in OwnPayouts(f, v, T) |-> f[p].amount], OwnPayouts(f, v, T))
PayShare(f, v, T) ==
  [p \in Payouts |-> IF f[p].user = v /\ f[p].status \in T THEN f[p].amount ELSE 0]

LEMMA TheSums ==
  /\ \A v : Earned(v) = PointsIn(ref, v) /\ Earned(v)' = PointsIn(ref', v)
  /\ \A v : /\ Withdrawn(v) = PaidIn(payout, v, {"COMPLETED"})
            /\ Promised(v) = PaidIn(payout, v, {"INITIALIZED", "COMPLETED"})
            /\ Promised(v)' = PaidIn(payout', v, {"INITIALIZED", "COMPLETED"})
  /\ \A v, T : /\ PayoutsOf(v, T) = OwnPayouts(payout, v, T)
               /\ PayoutsOf(v, T)' = OwnPayouts(payout', v, T)
<1>1. \A v : Earned(v) = PointsIn(ref, v) /\ Earned(v)' = PointsIn(ref', v)
  BY DEF Earned, Sum, PointsIn, OwnRefs
<1>2. \A v, T : /\ PayoutsOf(v, T) = OwnPayouts(payout, v, T)
                /\ PayoutsOf(v, T)' = OwnPayouts(payout', v, T)
  BY DEF PayoutsOf, OwnPayouts
<1>3. \A v : /\ Withdrawn(v) = PaidIn(payout, v, {"COMPLETED"})
             /\ Promised(v) = PaidIn(payout, v, {"INITIALIZED", "COMPLETED"})
             /\ Promised(v)' = PaidIn(payout', v, {"INITIALIZED", "COMPLETED"})
  BY DEF Withdrawn, Promised, Sum, PaidIn, PayoutsOf, OwnPayouts
<1> QED BY <1>1, <1>2, <1>3

LEMMA PointsAreShares ==
  ASSUME NEW f \in [Referrals -> RefRows], NEW v
  PROVE  /\ PointsIn(f, v) \in Nat
         /\ PointsIn(f, v) = SumFunctionOnSet(PointShare(f, v), Referrals)
         /\ \A r \in Referrals : PointShare(f, v)[r] \in Nat
<1> DEFINE own == OwnRefs(f, v)
           points == [r \in own |-> f[r].points]
           share == PointShare(f, v)
<1>1. \A r \in Referrals : share[r] \in Nat /\ share[r] \in Int
  BY DEF PointShare, RefRows
<1>2. own \in SUBSET Referrals
  BY DEF OwnRefs
<1>3. (\A r \in own : points[r] = share[r]) /\ (\A r \in Referrals \ own : share[r] = 0)
  BY DEF OwnRefs, PointShare
<1>4. PointsIn(f, v) = SumFunctionOnSet(points, own)
  BY DEF PointsIn
<1> HIDE DEF own, points, share
<1>5. SumFunctionOnSet(points, own) = SumFunctionOnSet(share, Referrals)
  <2>1. PICK S : S = Referrals
    OBVIOUS
  <2>2. IsFiniteSet(S) /\ own \in SUBSET S
    BY ONLY <1>2, <2>1, FiniteTables
  <2>3. (\A x \in S : share[x] \in Int) /\ \A x \in S \ own : share[x] = 0
    BY ONLY <1>1, <1>3, <2>1
  <2>4. \A x \in own : points[x] = share[x]
    BY ONLY <1>3
  <2>5. SumFunctionOnSet(points, own) = SumFunctionOnSet(share, S)
    BY ONLY <2>2, <2>3, <2>4, SumSelected
  <2> QED BY ONLY <2>1, <2>5
<1>6. SumFunctionOnSet(share, Referrals) \in Nat
  BY <1>1, FiniteTables, SumOfNaturals
<1> QED BY <1>1, <1>4, <1>5, <1>6 DEF share

LEMMA PointsChange ==
  ASSUME NEW f \in [Referrals -> RefRows], NEW g \in [Referrals -> RefRows], NEW v,
         NEW c \in Referrals, \A r \in Referrals : r # c => g[r] = f[r]
  PROVE  PointsIn(g, v) = PointsIn(f, v) - PointShare(f, v)[c] + PointShare(g, v)[c]
<1> DEFINE before == PointShare(f, v)
           after == PointShare(g, v)
<1>1. (\A r \in Referrals : before[r] \in Int) /\ after[c] \in Int
  BY PointsAreShares
<1>2. \A r \in Referrals \ {c} : after[r] = before[r]
  BY DEF PointShare
<1>3. /\ PointsIn(f, v) = SumFunctionOnSet(before, Referrals)
      /\ PointsIn(g, v) = SumFunctionOnSet(after, Referrals)
  BY PointsAreShares
<1> HIDE DEF before, after
<1>4. SumFunctionOnSet(after, Referrals)
        = SumFunctionOnSet(before, Referrals) - before[c] + after[c]
  <2>1. PICK S : S = Referrals
    OBVIOUS
  <2>2. IsFiniteSet(S)
    BY ONLY <2>1, FiniteTables
  <2>0. PICK d : d = c
    OBVIOUS
  <2>3. d \in S
    BY ONLY <2>0, <2>1, c \in Referrals
  <2>4. \A x \in S : before[x] \in Int
    BY ONLY <1>1, <2>1
  <2>5. after[d] \in Int
    BY ONLY <1>1, <2>0
  <2>6. \A x \in S \ {d} : after[x] = before[x]
    BY ONLY <1>2, <2>0, <2>1
  <2>7. SumFunctionOnSet(after, S) = SumFunctionOnSet(before, S) - before[d] + after[d]
    BY ONLY <2>2, <2>3, <2>4, <2>5, <2>6, SumChange
  <2> QED BY ONLY <2>0, <2>1, <2>7
<1> QED BY <1>3, <1>4 DEF before, after

LEMMA PaidAreShares ==
  ASSUME NEW f \in [Payouts -> PayoutRows], NEW v, NEW T
  PROVE  /\ PaidIn(f, v, T) \in Nat
         /\ PaidIn(f, v, T) = SumFunctionOnSet(PayShare(f, v, T), Payouts)
         /\ \A p \in Payouts : PayShare(f, v, T)[p] \in Nat
<1> DEFINE own == OwnPayouts(f, v, T)
           amounts == [p \in own |-> f[p].amount]
           share == PayShare(f, v, T)
<1>1. \A p \in Payouts : share[p] \in Nat /\ share[p] \in Int
  BY DEF PayShare, PayoutRows
<1>2. own \in SUBSET Payouts
  BY DEF OwnPayouts
<1>3. (\A p \in own : amounts[p] = share[p]) /\ (\A p \in Payouts \ own : share[p] = 0)
  BY DEF OwnPayouts, PayShare
<1>4. PaidIn(f, v, T) = SumFunctionOnSet(amounts, own)
  BY DEF PaidIn
<1> HIDE DEF own, amounts, share
<1>5. SumFunctionOnSet(amounts, own) = SumFunctionOnSet(share, Payouts)
  <2>1. PICK S : S = Payouts
    OBVIOUS
  <2>2. IsFiniteSet(S) /\ own \in SUBSET S
    BY ONLY <1>2, <2>1, FiniteTables
  <2>3. (\A x \in S : share[x] \in Int) /\ \A x \in S \ own : share[x] = 0
    BY ONLY <1>1, <1>3, <2>1
  <2>4. \A x \in own : amounts[x] = share[x]
    BY ONLY <1>3
  <2>5. SumFunctionOnSet(amounts, own) = SumFunctionOnSet(share, S)
    BY ONLY <2>2, <2>3, <2>4, SumSelected
  <2> QED BY ONLY <2>1, <2>5
<1>6. SumFunctionOnSet(share, Payouts) \in Nat
  BY <1>1, FiniteTables, SumOfNaturals
<1> QED BY <1>1, <1>4, <1>5, <1>6 DEF share

LEMMA PaidChange ==
  ASSUME NEW f \in [Payouts -> PayoutRows], NEW g \in [Payouts -> PayoutRows], NEW v, NEW T,
         NEW c \in Payouts, \A p \in Payouts : p # c => g[p] = f[p]
  PROVE  PaidIn(g, v, T) = PaidIn(f, v, T) - PayShare(f, v, T)[c] + PayShare(g, v, T)[c]
<1> DEFINE before == PayShare(f, v, T)
           after == PayShare(g, v, T)
<1>1. (\A p \in Payouts : before[p] \in Int) /\ after[c] \in Int
  BY PaidAreShares
<1>2. \A p \in Payouts \ {c} : after[p] = before[p]
  BY DEF PayShare
<1>3. /\ PaidIn(f, v, T) = SumFunctionOnSet(before, Payouts)
      /\ PaidIn(g, v, T) = SumFunctionOnSet(after, Payouts)
  BY PaidAreShares
<1> HIDE DEF before, after
<1>4. SumFunctionOnSet(after, Payouts)
        = SumFunctionOnSet(before, Payouts) - before[c] + after[c]
  <2>1. PICK S : S = Payouts
    OBVIOUS
  <2>2. IsFiniteSet(S)
    BY ONLY <2>1, FiniteTables
  <2>0. PICK d : d = c
    OBVIOUS
  <2>3. d \in S
    BY ONLY <2>0, <2>1, c \in Payouts
  <2>4. \A x \in S : before[x] \in Int
    BY ONLY <1>1, <2>1
  <2>5. after[d] \in Int
    BY ONLY <1>1, <2>0
  <2>6. \A x \in S \ {d} : after[x] = before[x]
    BY ONLY <1>2, <2>0, <2>1
  <2>7. SumFunctionOnSet(after, S) = SumFunctionOnSet(before, S) - before[d] + after[d]
    BY ONLY <2>2, <2>3, <2>4, <2>5, <2>6, SumChange
  <2> QED BY ONLY <2>0, <2>1, <2>7
<1> QED BY <1>3, <1>4 DEF before, after

LEMMA SumTypes ==
  ASSUME TypeOK, NEW v
  PROVE  /\ Earned(v) \in Nat /\ Promised(v) \in Nat /\ Withdrawn(v) \in Nat
         /\ ref \in [Referrals -> RefRows] /\ payout \in [Payouts -> PayoutRows]
<1>1. ref \in [Referrals -> RefRows] /\ payout \in [Payouts -> PayoutRows]
  BY TypeParts DEF RestOK
<1> QED BY <1>1, PointsAreShares, PaidAreShares, TheSums

LEMMA SumTypesNext ==
  ASSUME TypeOK', NEW v
  PROVE  /\ Earned(v)' \in Nat /\ Promised(v)' \in Nat
         /\ ref' \in [Referrals -> RefRows] /\ payout' \in [Payouts -> PayoutRows]
<1>1. ref' \in [Referrals -> RefRows] /\ payout' \in [Payouts -> PayoutRows]
  BY DEF TypeOK, RefRows, PayoutRows
<1> QED BY <1>1, PointsAreShares, PaidAreShares, TheSums

LEMMA SumsStay ==
  ASSUME NEW v
  PROVE  /\ ref' = ref => Earned(v)' = Earned(v)
         /\ payout' = payout => /\ Promised(v)' = Promised(v)
                                /\ \A T : PayoutsOf(v, T)' = PayoutsOf(v, T)
  BY TheSums

-----------------------------------------------------------------------------
(* What a step of one handler leaves alone. *)

Others(w) ==
  /\ \A x \in Workers \ {w} : pc'[x] = pc[x] /\ task'[x] = task[x]
  /\ disturbed \subseteq disturbed'
NamesStay == \A r \in Referrals : ref[r].by \in Users => ref'[r].by = ref[r].by
PointsStay(v) ==
  /\ user'[v].points = user[v].points
  /\ granted'[v] = granted[v]
  /\ Earned(v)' = Earned(v)
  /\ \A r \in Referrals : ref[r].by = v => ref'[r].points = ref[r].points

LEMMA Started ==
  ASSUME TypeOK, NEW w \in Workers, NEW t, NEW label, Start(w, t, label)
  PROVE  /\ Others(w) /\ pc'[w] = label /\ task'[w] = t
         /\ t.who \notin disturbed' =>
              \A x \in Workers : ~ (task[x].job = t.job /\ task[x].who = t.who)
  BY DEF Start, Busy, Others, TypeOK

LEMMA Gone ==
  ASSUME TypeOK, NEW w \in Workers, NEW label, Go(w, label)
  PROVE  Others(w) /\ pc'[w] = label /\ task'[w] = task[w]
  BY DEF Go, Others, TypeOK

LEMMA Finished ==
  ASSUME TypeOK, NEW w \in Workers, Finish(w)
  PROVE  Others(w) /\ pc'[w] = "idle" /\ task'[w].job = "NONE"
  BY DEF Finish, Others, TypeOK, NoTask

(* Only the handler that moves has to be looked at. *)
LEMMA JobsStep ==
  ASSUME Backed, JobsOK, NEW w \in Workers, Others(w), NamesStay, JobOK(w)'
  PROVE  JobsOK'
  <1> SUFFICES ASSUME NEW x \in Workers, x # w PROVE JobOK(x)'
    BY DEF JobsOK
  <1>1. JobOK(x) /\ pc'[x] = pc[x] /\ task'[x] = task[x]
    BY DEF JobsOK, Others
  <1>2. pc[x] \in Rewarding => ref'[task[x].ref].by = task[x].who
    BY <1>1 DEF JobOK, Backed, NamesStay
  <1> QED BY <1>1, <1>2 DEF JobOK

LEMMA AgreeStep ==
  ASSUME JobsOK, Backed, NEW v \in Users, NEW w \in Workers, Agree(v), Others(w),
         w \in Rewarders(v)' /\ v \notin disturbed' =>
           Halfway(w, v)' /\ \A x \in Rewarders(v) : x = w,
         w \notin Rewarders(v)' /\ w \in Rewarders(v) /\ v \notin disturbed' =>
           user'[v].points = granted'[v] /\ Earned(v)' = granted'[v],
         w \notin Rewarders(v)' /\ w \notin Rewarders(v) /\ v \notin disturbed' =>
           PointsStay(v)
  PROVE  Agree(v)'
  <1> SUFFICES ASSUME v \notin disturbed' PROVE Agree(v)'
    BY DEF Agree
  <1>1. /\ \A x, y \in Rewarders(v) : x = y
        /\ Rewarders(v) = {} => user[v].points = granted[v] /\ Earned(v) = granted[v]
        /\ \A x \in Rewarders(v) : Halfway(x, v)
    BY DEF Agree, Others
  <1>2. \A x \in Workers \ {w} : x \in Rewarders(v)' <=> x \in Rewarders(v)
    BY DEF Rewarders, Others
  <1>3. Rewarders(v) \subseteq Workers /\ Rewarders(v)' \subseteq Workers
    BY DEF Rewarders
  <1>4. CASE w \in Rewarders(v)'
    <2>1. Rewarders(v)' = {w}
      BY <1>2, <1>3, <1>4
    <2> QED BY <1>4, <2>1 DEF Agree
  <1>5. CASE w \notin Rewarders(v)' /\ w \in Rewarders(v)
    <2>1. Rewarders(v)' = {}
      BY <1>1, <1>2, <1>3, <1>5
    <2> QED BY <1>5, <2>1 DEF Agree
  <1>6. CASE w \notin Rewarders(v)' /\ w \notin Rewarders(v)
    <2>1. Rewarders(v)' = Rewarders(v)
      BY <1>2, <1>3, <1>6
    <2>2. PointsStay(v)
      BY <1>6
    <2>3. ASSUME NEW x \in Rewarders(v) PROVE Halfway(x, v)'
      <3>1. x \in Workers /\ x # w /\ task[x].who = v /\ Halfway(x, v)
        BY <1>1, <1>6, <2>3 DEF Rewarders
      <3>2. pc'[x] = pc[x] /\ task'[x] = task[x]
        BY <3>1 DEF Others
      <3>3. pc[x] \in Rewarding => ref[task[x].ref].by = v /\ task[x].ref \in Referrals
        BY <3>1 DEF JobsOK, JobOK, Backed
      <3>4. pc[x] \in {"history", "update"} => ref'[task[x].ref].points = ref[task[x].ref].points
        BY <2>2, <3>3 DEF PointsStay, Rewarding
      <3> QED BY <2>2, <3>1, <3>2, <3>4 DEF Halfway, PointsStay
    <2> QED BY <1>1, <2>1, <2>2, <2>3 DEF Agree, PointsStay
  <1> QED BY <1>4, <1>5, <1>6

LEMMA CoveredKept ==
  ASSUME NEW v \in Users, TypeOK, TypeOK', Covered(v), disturbed \subseteq disturbed',
         v \notin disturbed => Earned(v) <= Earned(v)', payout' = payout,
         \A x \in Askers(v)' : x \in Askers(v) /\ task'[x] = task[x]
  PROVE  Covered(v)'
  <1> SUFFICES ASSUME v \notin disturbed' PROVE Covered(v)'
    BY DEF Covered
  <1>1. /\ Promised(v) <= Earned(v)
        /\ \A x, y \in Askers(v) : x = y
        /\ \A x \in Askers(v) : /\ PayoutsOf(v, {"INITIALIZED"}) = {}
                                /\ Promised(v) + task[x].amount <= Earned(v)
    BY DEF Covered
  <1>2. ASSUME NEW x \in Askers(v)'
        PROVE  x \in Askers(v) /\ task'[x].amount = task[x].amount
    BY <1>2
  <1>3. Promised(v)' = Promised(v) /\ \A T : PayoutsOf(v, T)' = PayoutsOf(v, T)
    BY SumsStay
  <1>4. Promised(v) \in Nat /\ Earned(v) \in Nat /\ Earned(v)' \in Nat
    BY SumTypes, SumTypesNext
  <1>5. Promised(v)' <= Earned(v)'
    BY <1>1, <1>3, <1>4
  <1>6. ASSUME NEW x \in Askers(v)'
        PROVE  /\ PayoutsOf(v, {"INITIALIZED"})' = {}
               /\ Promised(v)' + task'[x].amount <= Earned(v)'
    <2>1. task[x].amount \in Nat
      BY <1>2, <1>6 DEF Askers, TypeOK
    <2>2. Promised(v) + task[x].amount <= Earned(v) /\ task'[x].amount = task[x].amount
      BY <1>1, <1>2, <1>6
    <2>3. Promised(v) + task[x].amount <= Earned(v)'
      BY <1>4, <2>1, <2>2
    <2> QED BY <1>1, <1>2, <1>3, <1>6, <2>2, <2>3
  <1> QED BY <1>1, <1>2, <1>5, <1>6 DEF Covered

-----------------------------------------------------------------------------
(* The wallet, action by action. *)

LEMMA Untouched ==
  ASSUME UNCHANGED <<ref, granted>>, \A v \in Users : user'[v].points = user[v].points
  PROVE  NamesStay /\ \A v \in Users : PointsStay(v)
  BY SumsStay DEF NamesStay, PointsStay

(* A step of a handler that books no reward, or has booked it. *)
LEMMA QuietAgree ==
  ASSUME TypeOK, JobsOK, Backed, \A v \in Users : Agree(v), NEW w \in Workers, Others(w),
         NamesStay, \A v \in Users : PointsStay(v), JobOK(w)', task'[w].job # "reward",
         task[w].job # "reward" \/ pc[w] = "count" \/ task[w].who \in disturbed'
  PROVE  JobsOK' /\ \A v \in Users : Agree(v)'
  <1>1. JobsOK'
    BY JobsStep
  <1>2. ASSUME NEW v \in Users PROVE Agree(v)'
    <2>1. w \notin Rewarders(v)'
      BY DEF Rewarders
    <2>2. ASSUME w \in Rewarders(v), v \notin disturbed'
          PROVE  user'[v].points = granted'[v] /\ Earned(v)' = granted'[v]
      <3>1. pc[w] = "count"
        BY <2>2 DEF Rewarders
      <3>2. Halfway(w, v)
        BY <2>2 DEF Agree, Others
      <3>3. granted[v] = user[v].points + 0 /\ granted[v] = Earned(v) + 0
        BY <3>1, <3>2 DEF Halfway
      <3>4. granted[v] = user[v].points /\ granted[v] = Earned(v)
        BY <3>3, SumTypes DEF TypeOK
      <3> QED BY <3>4 DEF PointsStay
    <2>3. Agree(v) /\ PointsStay(v)
      OBVIOUS
    <2> QED BY <2>1, <2>2, <2>3, AgreeStep
  <1> QED BY <1>1, <1>2

LEMMA CreateReferralAgree ==
  ASSUME TypeOK, TypeOK', Backed, AllAgree, NEW w \in Workers, CreateReferral(w)
  PROVE  /\ AllAgree' /\ Others(w)
         /\ \A v \in Users : Earned(v)' = Earned(v)
         /\ task'[w].job = task[w].job
  <1>1. PICK c \in Referrals :
          /\ ref[c] = NoRef
          /\ ref' = [ref EXCEPT ![c] = [by |-> task[w].by, to |-> task[w].who, points |-> 0]]
          /\ task' = [task EXCEPT ![w].ref = c]
    BY DEF CreateReferral
  <1>2. ref \in [Referrals -> RefRows] /\ ref' \in [Referrals -> RefRows]
    BY SumTypes, SumTypesNext
  <1>3. /\ \A r \in Referrals : r # c => ref'[r] = ref[r]
        /\ ref[c].by = NoUser /\ ref[c].points = 0 /\ ref'[c].points = 0
    BY <1>1, <1>2 DEF NoRef
  <1>4. ASSUME NEW v \in Users PROVE PointsStay(v) /\ Earned(v)' = Earned(v)
    <2>1. PointShare(ref, v)[c] = 0 /\ PointShare(ref', v)[c] = 0
      BY <1>3 DEF PointShare
    <2>2. PointsIn(ref', v) = PointsIn(ref, v) - 0 + 0
      BY <1>2, <1>3, <2>1, PointsChange
    <2>3. Earned(v)' = Earned(v)
      BY <1>2, <2>2, TheSums, PointsAreShares
    <2> QED BY <1>3, <2>3 DEF CreateReferral, PointsStay
  <1>5. NamesStay
    BY <1>3 DEF NamesStay
  <1>6. Others(w)
    BY <1>1 DEF CreateReferral, Others, TypeOK
  <1>7. task'[w].job = task[w].job /\ pc[w] = "referral" /\ pc'[w] = "link"
    BY <1>1 DEF CreateReferral, TypeOK
  <1>8. JobOK(w)' /\ task[w].job # "reward"
    BY <1>7 DEF AllAgree, JobsOK, JobOK, Rewarding
  <1> QED BY <1>4, <1>5, <1>6, <1>7, <1>8, QuietAgree DEF AllAgree

(* A reward starts from a wallet that agrees, or disturbs another one.     *)
LEMMA StartAgree ==
  ASSUME TypeOK, Backed, AllAgree, NEW w \in Workers, NEW t, pc[w] = "idle",
         Start(w, t, "history"), t.job = "reward", t.ref \in Referrals,
         t.who = ref[t.ref].by, t.points = ref[t.ref].points,
         UNCHANGED <<user, ref, granted>>
  PROVE  AllAgree'
  <1>1. /\ Others(w) /\ pc'[w] = "history" /\ task'[w] = t
        /\ t.who \notin disturbed' => \A x \in Workers : ~ (task[x].job = "reward" /\ task[x].who = t.who)
    BY Started
  <1>2. NamesStay /\ \A v \in Users : PointsStay(v)
    BY Untouched
  <1>3. JobOK(w)'
    BY <1>1 DEF JobOK, Rewarding
  <1>4. JobsOK'
    BY <1>1, <1>2, <1>3, JobsStep DEF AllAgree
  <1>5. ASSUME NEW v \in Users PROVE Agree(v)'
    <2>1. w \notin Rewarders(v)
      BY DEF AllAgree, JobsOK, JobOK, Rewarders
    <2>2. ASSUME w \in Rewarders(v)', v \notin disturbed'
          PROVE  Halfway(w, v)' /\ Rewarders(v) = {}
      <3>1. t.who = v
        BY <1>1, <2>2 DEF Rewarders
      <3>2. Rewarders(v) = {}
        BY <1>1, <2>2, <3>1 DEF Rewarders
      <3>3. user[v].points = granted[v] /\ Earned(v) = granted[v]
        BY <1>1, <2>2, <3>2 DEF AllAgree, Agree, Others
      <3>4. user[v].points \in Nat /\ granted[v] \in Nat
        BY DEF TypeOK
      <3>5. granted[v] = user[v].points + 0 /\ granted[v] = Earned(v) + 0
        BY <3>3, <3>4
      <3>6. /\ user'[v].points = user[v].points /\ granted'[v] = granted[v]
            /\ Earned(v)' = Earned(v)
        BY <1>2 DEF PointsStay
      <3>7. task'[w].points = ref'[task'[w].ref].points
        BY <1>1
      <3> QED BY <1>1, <3>2, <3>5, <3>6, <3>7 DEF Halfway
    <2>3. Agree(v) /\ PointsStay(v) /\ JobsOK
      BY <1>2 DEF AllAgree
    <2> QED BY <1>1, <2>1, <2>2, <2>3, AgreeStep
  <1> QED BY <1>4, <1>5 DEF AllAgree

(* A step in the middle of a reward: only the wallet of its referrer is    *)
(* concerned, and the handler stays with it or leaves it agreeing.         *)
LEMMA MiddleAgree ==
  ASSUME TypeOK, Backed, AllAgree, NEW w \in Workers, Others(w), NamesStay, JobOK(w)',
         pc[w] \in Rewarding, NEW a, a = task[w].who,
         task'[w].job = "reward" => task'[w].who = a,
         \A v \in Users : v # a => PointsStay(v),
         a \notin disturbed' /\ Halfway(w, a) =>
           /\ task'[w].job = "reward" => Halfway(w, a)'
           /\ task'[w].job # "reward" =>
                user'[a].points = granted'[a] /\ Earned(a)' = granted'[a]
  PROVE  AllAgree'
  <1>1. JobsOK'
    BY JobsStep DEF AllAgree
  <1>2. task[w].job = "reward"
    BY DEF AllAgree, JobsOK, JobOK
  <1>3. ASSUME NEW v \in Users PROVE Agree(v)'
    <2>0. Agree(v) /\ JobsOK
      BY DEF AllAgree
    <2>1. CASE v # a
      <3>1. w \notin Rewarders(v) /\ w \notin Rewarders(v)'
        BY <2>1 DEF Rewarders
      <3>2. PointsStay(v)
        BY <2>1
      <3> QED BY <2>0, <3>1, <3>2, AgreeStep
    <2>2. CASE v = a
      <3>1. w \in Rewarders(v)
        BY <1>2, <2>2 DEF Rewarders
      <3>2. ASSUME v \notin disturbed'
            PROVE Halfway(w, v) /\ \A x \in Rewarders(v) : x = w
        BY <2>0, <3>1, <3>2 DEF Agree, Others
      <3>3. w \in Rewarders(v)' /\ v \notin disturbed' => Halfway(w, v)'
        BY <2>2, <3>2 DEF Rewarders
      <3>4. w \notin Rewarders(v)' /\ v \notin disturbed' =>
              user'[v].points = granted'[v] /\ Earned(v)' = granted'[v]
        BY <2>2, <3>2 DEF Rewarders
      <3> QED BY <2>0, <3>1, <3>2, <3>3, <3>4, AgreeStep
    <2> QED BY <2>1, <2>2
  <1> QED BY <1>1, <1>3 DEF AllAgree

LEMMA CreateHistoryAgree ==
  ASSUME TypeOK, Backed, AllAgree, NEW w \in Workers, CreateHistory(w)
  PROVE  AllAgree' /\ Others(w) /\ task'[w] = task[w]
  <1> DEFINE a == task[w].who
  <1>1. pc[w] = "history" /\ a \in Users
    BY DEF CreateHistory, Backed, Rewarding
  <1>2. Others(w) /\ pc'[w] = "update" /\ task'[w] = task[w]
    BY Gone DEF CreateHistory
  <1>3. UNCHANGED <<user, ref>> /\ granted' = [granted EXCEPT ![a] = granted[a] + 1]
    BY DEF CreateHistory
  <1>4. /\ granted'[a] = granted[a] + 1
        /\ \A v \in Users : v # a => granted'[v] = granted[v]
    BY <1>1, <1>3 DEF TypeOK
  <1>5. \A v : Earned(v)' = Earned(v)
    BY <1>3, SumsStay
  <1>6. \A v \in Users : v # a => PointsStay(v)
    BY <1>3, <1>4, <1>5 DEF PointsStay
  <1>7. NamesStay
    BY <1>3 DEF NamesStay
  <1>8. JobOK(w) /\ JobOK(w)'
    <2>1. JobOK(w)
      BY DEF AllAgree, JobsOK
    <2> QED BY <1>1, <1>2, <1>3, <2>1 DEF JobOK, Rewarding
  <1>9. PICK b : b = a
    OBVIOUS
  <1>10. ASSUME Halfway(w, b) PROVE Halfway(w, b)'
    <2>1. /\ task[w].points = ref[task[w].ref].points
          /\ granted[b] = user[b].points + 0 /\ granted[b] = Earned(b) + 0
      BY <1>1, <1>10 DEF Halfway
    <2>2. user[b].points \in Nat /\ granted[b] \in Nat /\ Earned(b) \in Nat
      BY <1>1, <1>9, SumTypes DEF TypeOK
    <2>3. granted'[b] = user[b].points + 1 /\ granted'[b] = Earned(b) + 1
      BY <1>4, <1>9, <2>1, <2>2
    <2>4. granted'[b] = user'[b].points + 1 /\ granted'[b] = Earned(b)' + 1
      BY <1>3, <1>5, <2>3
    <2> QED BY <1>2, <1>3, <2>1, <2>4 DEF Halfway
  <1>11. AllAgree'
    <2>1. pc[w] \in Rewarding /\ task'[w].job = "reward"
      BY <1>1, <1>2, <1>8 DEF JobOK, Rewarding
    <2>2. b = task[w].who /\ task'[w].who = b /\ \A v \in Users : v # b => PointsStay(v)
      BY <1>2, <1>6, <1>9
    <2> HIDE DEF a
    <2> QED BY <1>2, <1>7, <1>8, <1>10, <2>1, <2>2, MiddleAgree
  <1> QED BY <1>2, <1>11

LEMMA UpdateReferralAgree ==
  ASSUME TypeOK, TypeOK', Backed, AllAgree, NEW w \in Workers, UpdateReferral(w)
  PROVE  /\ AllAgree' /\ Others(w) /\ task'[w].job = "reward"
         /\ \A v \in Users : v \notin disturbed => Earned(v) <= Earned(v)'
  <1>1. PICK a, c : a = task[w].who /\ c = task[w].ref
    OBVIOUS
  <1>2. pc[w] = "update" /\ a \in Users /\ c \in Referrals /\ ref[c].by = a
    BY <1>1 DEF UpdateReferral, Backed, Rewarding, AllAgree, JobsOK, JobOK
  <1>3. /\ ref' = [ref EXCEPT ![c].points = task[w].points + 1]
        /\ task' = [task EXCEPT ![w].balance = user[a].points]
        /\ pc' = [pc EXCEPT ![w] = "points"]
        /\ UNCHANGED <<user, granted, disturbed>>
    BY <1>1 DEF UpdateReferral, NewPoints
  <1>4. ref \in [Referrals -> RefRows] /\ ref' \in [Referrals -> RefRows]
    BY SumTypes, SumTypesNext
  <1>5. /\ \A r \in Referrals : r # c => ref'[r] = ref[r]
        /\ ref'[c].by = a /\ ref'[c].points = task[w].points + 1
    BY <1>2, <1>3, <1>4 DEF RefRows
  <1>6. /\ Others(w) /\ pc'[w] = "points" /\ task'[w].job = task[w].job
        /\ task'[w].who = a /\ task'[w].ref = c /\ task'[w].balance = user[a].points
    BY <1>1, <1>3 DEF Others, TypeOK
  <1>7. NamesStay
    BY <1>2, <1>5 DEF NamesStay
  <1>8. JobOK(w)' /\ task[w].job = "reward"
    BY <1>2, <1>5, <1>6 DEF AllAgree, JobsOK, JobOK, Rewarding
  <1>9. ASSUME NEW v
        PROVE  PointsIn(ref', v) = PointsIn(ref, v) - PointShare(ref, v)[c] + PointShare(ref', v)[c]
    BY <1>2, <1>4, <1>5, PointsChange
  <1>10. ASSUME NEW v \in Users, v # a PROVE PointsStay(v) /\ Earned(v)' = Earned(v)
    <2>1. PointShare(ref, v)[c] = 0 /\ PointShare(ref', v)[c] = 0
      BY <1>2, <1>5, <1>10 DEF PointShare
    <2>2. PointsIn(ref', v) = PointsIn(ref, v)
      BY <1>4, <1>9, <2>1, PointsAreShares
    <2> QED BY <1>2, <1>3, <1>5, <1>10, <2>2, TheSums DEF PointsStay
  <1>11. ASSUME Halfway(w, a) PROVE Halfway(w, a)' /\ Earned(a)' = Earned(a) + 1
    <2>1. /\ task[w].points = ref[c].points
          /\ granted[a] = user[a].points + 1 /\ granted[a] = Earned(a) + 1
      BY <1>1, <1>2, <1>11 DEF Halfway
    <2>2. PointShare(ref, a)[c] = ref[c].points /\ PointShare(ref', a)[c] = ref[c].points + 1
      BY <1>2, <1>5, <2>1 DEF PointShare
    <2>3. Earned(a)' = Earned(a) - ref[c].points + (ref[c].points + 1)
      BY <1>9, <2>2, TheSums
    <2>4. /\ ref[c].points \in Int /\ Earned(a) \in Int /\ Earned(a)' \in Int
          /\ granted[a] \in Int
      <3>1. ref[c].points \in Nat
        BY <1>2, <1>4 DEF RefRows
      <3>2. Earned(a) \in Nat /\ Earned(a)' \in Nat
        BY SumTypes, SumTypesNext
      <3>3. granted[a] \in Nat
        BY <1>2 DEF TypeOK
      <3> QED BY <3>1, <3>2, <3>3
    <2>5. Earned(a)' = Earned(a) + 1 /\ granted[a] = Earned(a)' + 0
      BY <2>1, <2>3, <2>4
    <2> QED BY <1>3, <1>6, <2>1, <2>5 DEF Halfway
  <1>12. AllAgree'
    <2>1. pc[w] \in Rewarding /\ task'[w].job = "reward"
      BY <1>2, <1>6, <1>8 DEF Rewarding
    <2>2. \A v \in Users : v # a => PointsStay(v)
      BY <1>10
    <2> QED BY <1>1, <1>6, <1>7, <1>8, <1>11, <2>1, <2>2, MiddleAgree
  <1>13. ASSUME NEW v \in Users, v \notin disturbed PROVE Earned(v) <= Earned(v)'
    <2>1. Earned(v) \in Nat /\ Earned(v)' \in Nat
      BY SumTypes, SumTypesNext
    <2>2. CASE v # a
      BY <1>10, <2>1, <2>2
    <2>3. CASE v = a
      <3>1. Halfway(w, a)
        BY <1>1, <1>8, <1>13, <2>3 DEF AllAgree, Agree, Rewarders
      <3> QED BY <1>11, <2>1, <2>3, <3>1
    <2> QED BY <2>2, <2>3
  <1> QED BY <1>6, <1>8, <1>12, <1>13

LEMMA UpdatePointsAgree ==
  ASSUME TypeOK, Backed, AllAgree, NEW w \in Workers, UpdatePoints(w)
  PROVE  AllAgree' /\ Others(w) /\ task'[w].job \in {"reward", "NONE"}
  <1>1. PICK a : a = task[w].who
    OBVIOUS
  <1>2. pc[w] = "points" /\ a \in Users /\ JobOK(w) /\ task[w].job = "reward"
    BY <1>1 DEF UpdatePoints, Backed, Rewarding, AllAgree, JobsOK, JobOK
  <1>3. /\ user' = [user EXCEPT ![a].points = task[w].balance + 1]
        /\ UNCHANGED <<ref, granted>>
    BY <1>1 DEF UpdatePoints, NewBalance
  <1>4. /\ user'[a].points = task[w].balance + 1
        /\ \A v \in Users : v # a => user'[v].points = user[v].points
    BY <1>2, <1>3 DEF TypeOK
  <1>5. Go(w, "count") \/ Finish(w)
    BY DEF UpdatePoints
  <1>6. /\ Others(w)
        /\ \/ pc'[w] = "count" /\ task'[w] = task[w]
           \/ pc'[w] = "idle" /\ task'[w].job = "NONE"
    BY <1>5, Gone, Finished
  <1>7. NamesStay /\ \A v : Earned(v)' = Earned(v)
    BY <1>3, SumsStay DEF NamesStay
  <1>8. JobOK(w)'
    BY <1>2, <1>6 DEF JobOK, Rewarding
  <1>9. \A v \in Users : v # a => PointsStay(v)
    BY <1>3, <1>4, <1>7 DEF PointsStay
  <1>10. ASSUME Halfway(w, a)
         PROVE  /\ user'[a].points = granted'[a] /\ Earned(a)' = granted'[a]
                /\ task'[w].job = "reward" => Halfway(w, a)'
    <2>1. /\ granted[a] = user[a].points + 1 /\ granted[a] = Earned(a) + 0
          /\ task[w].balance = user[a].points
      BY <1>2, <1>10 DEF Halfway
    <2>2. granted[a] \in Nat /\ user[a].points \in Nat /\ Earned(a) \in Nat
      BY <1>2, SumTypes DEF TypeOK
    <2>3. user'[a].points = granted'[a] /\ Earned(a)' = granted'[a]
      BY <1>3, <1>4, <1>7, <2>1, <2>2
    <2>4. granted'[a] = user'[a].points + 0 /\ granted'[a] = Earned(a)' + 0
      BY <1>3, <1>7, <2>2, <2>3
    <2>5. ASSUME task'[w].job = "reward" PROVE Halfway(w, a)'
      BY <1>6, <2>4, <2>5 DEF Halfway
    <2> QED BY <2>3, <2>5
  <1>11. AllAgree'
    <2>1. pc[w] \in Rewarding /\ (task'[w].job = "reward" => task'[w].who = a)
      BY <1>1, <1>2, <1>6 DEF Rewarding
    <2> QED BY <1>1, <1>6, <1>7, <1>8, <1>9, <1>10, <2>1, MiddleAgree
  <1> QED BY <1>2, <1>6, <1>11

LEMMA OtherAgree ==
  ASSUME TypeOK, Backed, AllAgree, NEW w \in Workers, Others(w),
         JobOK(w)', task'[w].job # "reward",
         task[w].job # "reward" \/ pc[w] = "count" \/ task[w].who \in disturbed',
         UNCHANGED <<ref, granted>>, \A v \in Users : user'[v].points = user[v].points
  PROVE  AllAgree'
  BY Untouched, QuietAgree DEF AllAgree

LEMMA SignUpAgree ==
  ASSUME TypeOK, Backed, AllAgree, NEW w \in Workers, NEW u \in Users, NEW v \in Users,
         SignUp(w, u, v)
  PROVE  AllAgree' /\ Others(w) /\ task'[w].job = "signup"
  <1> DEFINE t == [NoTask EXCEPT !.job = "signup", !.who = u, !.by = v]
  <1>1. Others(w) /\ pc'[w] = "referral" /\ task'[w] = t /\ t.job = "signup"
    BY Started DEF SignUp, NoTask
  <1>2. task'[w].job = "signup"
    BY <1>1
  <1>3. JobOK(w)' /\ task[w].job # "reward"
    BY <1>1, <1>2 DEF SignUp, AllAgree, JobsOK, JobOK, Rewarding
  <1>4. UNCHANGED <<user, ref, granted>>
    BY DEF SignUp, db
  <1> QED BY <1>1, <1>2, <1>3, <1>4, OtherAgree

LEMMA LinkReferralAgree ==
  ASSUME TypeOK, Backed, AllAgree, NEW w \in Workers, LinkReferral(w)
  PROVE  AllAgree' /\ Others(w) /\ task'[w].job = "NONE"
  <1>1. Others(w) /\ pc'[w] = "idle" /\ task'[w].job = "NONE"
    BY Finished DEF LinkReferral
  <1>2. JobOK(w)' /\ task[w].job # "reward"
    BY <1>1 DEF LinkReferral, AllAgree, JobsOK, JobOK, Rewarding
  <1> DEFINE a == task[w].who
  <1>3. user' = [user EXCEPT ![a] = [user[a] EXCEPT !.by = task[w].by, !.ref = task[w].ref]]
    BY DEF LinkReferral
  <1>4. \A v \in Users : user'[v].points = user[v].points
    BY <1>3, TypeParts DEF RestOK, UserRows
  <1>5. UNCHANGED <<ref, granted>>
    BY DEF LinkReferral
  <1> HIDE DEF a
  <1> QED BY <1>1, <1>2, <1>4, <1>5, OtherAgree

LEMMA CountLoanAgree ==
  ASSUME TypeOK, Backed, AllAgree, NEW w \in Workers, CountLoan(w)
  PROVE  AllAgree' /\ Others(w) /\ task'[w].job = "NONE"
  <1>1. Others(w) /\ pc'[w] = "idle" /\ task'[w].job = "NONE" /\ pc[w] = "count"
    BY Finished DEF CountLoan
  <1>2. JobOK(w)'
    BY <1>1 DEF JobOK, Rewarding
  <1> DEFINE a == task[w].by
  <1>3. user' = [user EXCEPT ![a] = [user[a] EXCEPT !.completed = 1]]
    BY DEF CountLoan
  <1>4. \A v \in Users : user'[v].points = user[v].points
    BY <1>3, TypeParts DEF RestOK, UserRows
  <1>5. UNCHANGED <<ref, granted>>
    BY DEF CountLoan
  <1> HIDE DEF a
  <1> QED BY <1>1, <1>2, <1>4, <1>5, OtherAgree

LEMMA RewardAgree ==
  ASSUME TypeOK, Backed, AllAgree, NEW w \in Workers, NEW u \in Users, NEW stage \in Stages,
         Reward(w, u, stage)
  PROVE  AllAgree' /\ Others(w) /\ task'[w].job = "reward"
  <1>1. PICK t : t = RewardTask(u)
    OBVIOUS
  <1>2. /\ pc[w] = "idle" /\ Start(w, t, "history") /\ Referred(u)
        /\ UNCHANGED <<user, ref, granted>>
    BY <1>1 DEF Reward, db
  <1>3. user[u].ref \in Referrals
    BY <1>2 DEF TypeOK, Referred
  <1>4. t.job = "reward" /\ t.ref \in Referrals /\ t.who = ref[t.ref].by /\ t.points = ref[t.ref].points
    BY <1>1, <1>3 DEF RewardTask, NoTask
  <1>5. Others(w) /\ task'[w] = t
    BY <1>2, Started
  <1> QED BY <1>2, <1>4, <1>5, StartAgree

LEMMA CloseLoanAgree ==
  ASSUME TypeOK, Backed, AllAgree, NEW w \in Workers, NEW u \in Users, NEW onTime \in BOOLEAN,
         CloseLoan(w, u, onTime)
  PROVE  AllAgree' /\ Others(w) /\ task'[w].job \in {"reward", "count"}
  <1>1. PICK t : t = [RewardTask(u) EXCEPT !.closing = TRUE]
    OBVIOUS
  <1>2. PICK s : s = [NoTask EXCEPT !.job = "count", !.who = u, !.by = u]
    OBVIOUS
  <1>3. /\ pc[w] = "idle" /\ UNCHANGED <<user, ref, granted>>
        /\ (Referred(u) /\ Start(w, t, "history")) \/ Start(w, s, "count")
    BY <1>1, <1>2 DEF CloseLoan
  <1>4. CASE Referred(u) /\ Start(w, t, "history")
    <2>1. user[u].ref \in Referrals
      BY <1>4 DEF TypeOK, Referred
    <2>2. t.job = "reward" /\ t.ref \in Referrals /\ t.who = ref[t.ref].by /\ t.points = ref[t.ref].points
      BY <1>1, <2>1 DEF RewardTask, NoTask
    <2>3. Others(w) /\ task'[w] = t
      BY <1>4, Started
    <2> QED BY <1>3, <1>4, <2>2, <2>3, StartAgree
  <1>5. CASE Start(w, s, "count")
    <2>1. s.job = "count"
      BY <1>2 DEF NoTask
    <2>2. Others(w) /\ pc'[w] = "count" /\ task'[w] = s
      BY <1>5, Started
    <2>3. JobOK(w)' /\ task'[w].job = "count" /\ task[w].job # "reward"
      BY <1>3, <2>1, <2>2 DEF AllAgree, JobsOK, JobOK, Rewarding
    <2> QED BY <1>3, <2>2, <2>3, OtherAgree
  <1> QED BY <1>3, <1>4, <1>5

LEMMA WithdrawAgree ==
  ASSUME TypeOK, Backed, AllAgree, NEW w \in Workers, NEW v \in Users, NEW n \in 1 .. MaxRewards,
         Withdraw(w, v, n)
  PROVE  /\ AllAgree' /\ Others(w)
         /\ task'[w].job = "withdraw" /\ task'[w].who = v /\ task'[w].amount = n
         /\ v \notin disturbed' => Askers(v) = {}
  <1>1. PICK t : t = [NoTask EXCEPT !.job = "withdraw", !.who = v, !.amount = n]
    OBVIOUS
  <1>2. t.job = "withdraw" /\ t.who = v /\ t.amount = n
    BY <1>1 DEF NoTask
  <1>3. pc[w] = "idle" /\ Start(w, t, "payout") /\ UNCHANGED <<user, ref, granted>>
    BY <1>1 DEF Withdraw, db
  <1>4. /\ Others(w) /\ pc'[w] = "payout" /\ task'[w] = t
        /\ t.who \notin disturbed' => \A x \in Workers : ~ (task[x].job = t.job /\ task[x].who = t.who)
    BY <1>3, Started
  <1>5. JobOK(w)' /\ task'[w].job # "reward" /\ task[w].job # "reward"
    BY <1>2, <1>3, <1>4 DEF AllAgree, JobsOK, JobOK, Rewarding
  <1>6. AllAgree'
    BY <1>3, <1>4, <1>5, OtherAgree
  <1>7. v \notin disturbed' => Askers(v) = {}
    BY <1>2, <1>4 DEF Askers
  <1> QED BY <1>2, <1>4, <1>6, <1>7

LEMMA RequestPayoutAgree ==
  ASSUME TypeOK, Backed, AllAgree, NEW w \in Workers, RequestPayout(w)
  PROVE  AllAgree' /\ Others(w) /\ task'[w].job = "NONE" /\ task[w].job = "withdraw"
  <1>1. Others(w) /\ pc'[w] = "idle" /\ task'[w].job = "NONE"
    BY Finished DEF RequestPayout
  <1>2. JobOK(w)' /\ task[w].job = "withdraw"
    BY <1>1 DEF RequestPayout, AllAgree, JobsOK, JobOK, Rewarding
  <1>3. UNCHANGED <<user, ref, granted>>
    BY DEF RequestPayout
  <1> QED BY <1>1, <1>2, <1>3, OtherAgree

LEMMA AbortAgree ==
  ASSUME TypeOK, Backed, AllAgree, NEW w \in Workers, Abort(w)
  PROVE  AllAgree' /\ Others(w) /\ task'[w].job = "NONE"
  <1>1. Others(w) /\ pc'[w] = "idle" /\ task'[w].job = "NONE" /\ task[w].who \in disturbed'
    BY DEF Abort, Others, TypeOK, NoTask
  <1>2. JobOK(w)'
    BY <1>1 DEF JobOK, Rewarding
  <1>3. UNCHANGED <<user, ref, granted>>
    BY DEF Abort, db
  <1> QED BY <1>1, <1>2, <1>3, OtherAgree

LEMMA StillAgree ==
  ASSUME AllAgree, UNCHANGED <<user, ref, granted, pc, task, disturbed>>
  PROVE  AllAgree'
  <1>1. \A v : Earned(v)' = Earned(v) /\ Rewarders(v)' = Rewarders(v)
    BY SumsStay DEF Rewarders
  <1>2. \A v \in Users, w \in Workers : Halfway(w, v) => Halfway(w, v)'
    BY <1>1 DEF Halfway
  <1>3. \A v \in Users : Agree(v)'
    <2> SUFFICES ASSUME NEW v \in Users, v \notin disturbed' PROVE Agree(v)'
      BY DEF Agree
    <2>1. Agree(v) /\ v \notin disturbed
      BY DEF AllAgree
    <2>2. \A w \in Rewarders(v) : Halfway(w, v)'
      BY <1>2, <2>1 DEF Agree, Rewarders
    <2> QED BY <1>1, <2>1, <2>2 DEF Agree
  <1> QED BY <1>3 DEF AllAgree, JobsOK, JobOK

-----------------------------------------------------------------------------
(* The payouts, action by action. *)

(* A step that neither writes a payout nor takes up a withdrawal. *)
LEMMA NoPayoutCovered ==
  ASSUME TypeOK, TypeOK', AllCovered, NEW w \in Workers, Others(w), payout' = payout,
         \A v \in Users : v \notin disturbed => Earned(v) <= Earned(v)',
         task'[w].job # "withdraw"
  PROVE  AllCovered'
  <1> SUFFICES ASSUME NEW v \in Users PROVE Covered(v)'
    BY DEF AllCovered
  <1>1. \A x \in Askers(v)' : x \in Askers(v) /\ task'[x] = task[x]
    BY DEF Askers, Others
  <1>2. Covered(v) /\ disturbed \subseteq disturbed'
    BY DEF AllCovered, Others
  <1> QED BY <1>1, <1>2, CoveredKept

(* While nothing is pending, what is promised is what was withdrawn. *)
LEMMA NonePending ==
  ASSUME NEW v, PayoutsOf(v, {"INITIALIZED"}) = {}
  PROVE  Promised(v) = Withdrawn(v)
  <1>1. OwnPayouts(payout, v, {"INITIALIZED", "COMPLETED"}) = OwnPayouts(payout, v, {"COMPLETED"})
    <2>1. \A p \in Payouts : ~ (payout[p].user = v /\ payout[p].status = "INITIALIZED")
      BY DEF PayoutsOf
    <2> QED BY <2>1 DEF OwnPayouts
  <1>2. PaidIn(payout, v, {"INITIALIZED", "COMPLETED"}) = PaidIn(payout, v, {"COMPLETED"})
    BY <1>1 DEF PaidIn
  <1> QED BY <1>2, TheSums

LEMMA WithdrawCovered ==
  ASSUME TypeOK, TypeOK', Backed, AllAgree, AllCovered, NEW w \in Workers, NEW v \in Users,
         NEW n \in 1 .. MaxRewards, Withdraw(w, v, n)
  PROVE  AllCovered'
  <1>1. /\ Others(w) /\ task'[w].job = "withdraw" /\ task'[w].who = v /\ task'[w].amount = n
        /\ v \notin disturbed' => Askers(v) = {}
    BY WithdrawAgree
  <1>2. UNCHANGED <<ref, payout>>
    BY DEF Withdraw, db
  <1>3. \A u : Earned(u)' = Earned(u) /\ Promised(u)' = Promised(u)
    BY <1>2, SumsStay
  <1>4. \A u : Earned(u) \in Nat /\ Promised(u) \in Nat /\ Withdrawn(u) \in Nat
    BY SumTypes
  <1>5. ASSUME NEW u \in Users, u # v PROVE Covered(u)'
    <2>1. \A x \in Askers(u)' : x \in Askers(u) /\ task'[x] = task[x]
      BY <1>1, <1>5 DEF Askers, Others
    <2>2. Earned(u) <= Earned(u)'
      BY <1>3, <1>4
    <2> QED BY <1>1, <1>2, <2>1, <2>2, CoveredKept DEF AllCovered, Others
  <1>6. Covered(v)'
    <2> SUFFICES ASSUME v \notin disturbed' PROVE Covered(v)'
      BY DEF Covered
    <2>1. PayoutsOf(v, {"INITIALIZED"}) = {} /\ Earned(v) >= Withdrawn(v) + n
      BY DEF Withdraw, MayWithdraw
    <2>2. Promised(v) = Withdrawn(v)
      BY <2>1, NonePending
    <2>3. n \in Nat /\ Promised(v) + n <= Earned(v)
      BY <1>4, <2>1, <2>2
    <2>4. Promised(v) <= Earned(v)
      BY <1>4, <2>3
    <2>5. Askers(v)' = {w}
      BY <1>1 DEF Askers, Others
    <2>6. PayoutsOf(v, {"INITIALIZED"})' = {}
      BY <1>2, <2>1, SumsStay
    <2> QED BY <1>1, <1>3, <2>3, <2>4, <2>5, <2>6 DEF Covered
  <1> QED BY <1>5, <1>6 DEF AllCovered

(* The sums of a user other than the one whose payout row is written. *)
LEMMA OtherPayouts ==
  ASSUME TypeOK, TypeOK', NEW c \in Payouts, \A p \in Payouts : p # c => payout'[p] = payout[p],
         NEW v \in Users, payout[c].user # v, payout'[c].user # v
  PROVE  Promised(v)' = Promised(v) /\ \A T : PayoutsOf(v, T)' = PayoutsOf(v, T)
  <1>1. payout \in [Payouts -> PayoutRows] /\ payout' \in [Payouts -> PayoutRows]
    BY SumTypes, SumTypesNext
  <1> DEFINE T == {"INITIALIZED", "COMPLETED"}
  <1>2. PayShare(payout, v, T)[c] = 0 /\ PayShare(payout', v, T)[c] = 0
    BY DEF PayShare
  <1>3. PaidIn(payout, v, T) \in Nat
    BY <1>1, PaidAreShares
  <1>4. PaidIn(payout', v, T) = PaidIn(payout, v, T) - 0 + 0
    <2> HIDE DEF T
    <2>1. PaidIn(payout', v, T)
            = PaidIn(payout, v, T) - PayShare(payout, v, T)[c] + PayShare(payout', v, T)[c]
      BY <1>1, PaidChange
    <2> QED BY <1>2, <2>1
  <1>5. Promised(v)' = Promised(v)
    BY <1>3, <1>4, TheSums
  <1>6. ASSUME NEW U PROVE PayoutsOf(v, U)' = PayoutsOf(v, U)
    <2>1. \A p \in Payouts : (payout'[p].user = v /\ payout'[p].status \in U)
                               <=> (payout[p].user = v /\ payout[p].status \in U)
      OBVIOUS
    <2>2. OwnPayouts(payout', v, U) = OwnPayouts(payout, v, U)
      BY <2>1 DEF OwnPayouts
    <2> QED BY <2>2, TheSums
  <1> QED BY <1>5, <1>6

(* The same for a user whose sums do not change, with a handler that stops *)
(* asking, if it asked.                                                    *)
LEMMA OtherCovered ==
  ASSUME TypeOK, TypeOK', NEW v \in Users, Covered(v), disturbed \subseteq disturbed',
         ref' = ref, Promised(v)' = Promised(v),
         PayoutsOf(v, {"INITIALIZED"})' = PayoutsOf(v, {"INITIALIZED"}),
         \A x \in Askers(v)' : x \in Askers(v) /\ task'[x] = task[x]
  PROVE  Covered(v)'
  <1> SUFFICES ASSUME v \notin disturbed' PROVE Covered(v)'
    BY DEF Covered
  <1>1. Earned(v)' = Earned(v)
    BY SumsStay
  <1>2. /\ Promised(v) <= Earned(v)
        /\ \A x, y \in Askers(v) : x = y
        /\ \A x \in Askers(v) : /\ PayoutsOf(v, {"INITIALIZED"}) = {}
                                /\ Promised(v) + task[x].amount <= Earned(v)
    BY DEF Covered
  <1> QED BY <1>1, <1>2 DEF Covered

LEMMA RequestPayoutCovered ==
  ASSUME TypeOK, TypeOK', Backed, AllAgree, AllCovered, NEW w \in Workers, RequestPayout(w)
  PROVE  AllCovered'
  <1>1. PICK a, n : a = task[w].who /\ n = task[w].amount
    OBVIOUS
  <1>2. Others(w) /\ task'[w].job = "NONE" /\ task[w].job = "withdraw" /\ n \in Nat
    BY <1>1, RequestPayoutAgree DEF TypeOK
  <1>3. UNCHANGED ref
    BY DEF RequestPayout
  <1>4. \A v : \A x \in Askers(v)' : x \in Askers(v) /\ task'[x] = task[x]
    BY <1>2 DEF Askers, Others
  <1>5. CASE payout' = payout
    <2>1. \A v \in Users : Covered(v)'
      BY <1>2, <1>3, <1>4, <1>5, SumsStay, OtherCovered DEF AllCovered, Others
    <2> QED BY <2>1 DEF AllCovered
  <1>6. CASE payout' # payout
    <2>1. PICK c \in Payouts :
            /\ payout[c] = NoPayout
            /\ payout' = [payout EXCEPT ![c] = [user |-> a, amount |-> n, status |-> "INITIALIZED"]]
      BY <1>1, <1>6 DEF RequestPayout
    <2>2. payout \in [Payouts -> PayoutRows] /\ payout' \in [Payouts -> PayoutRows]
      BY SumTypes, SumTypesNext
    <2>3. /\ payout[c].user = NoUser /\ payout[c].status = "NONE"
          /\ payout'[c].user = a /\ payout'[c].amount = n /\ payout'[c].status = "INITIALIZED"
          /\ \A p \in Payouts : p # c => payout'[p] = payout[p]
      BY <2>1, <2>2 DEF NoPayout
    <2>4. ASSUME NEW v \in Users, v # a PROVE Covered(v)'
      <3>1. Promised(v)' = Promised(v) /\ \A T : PayoutsOf(v, T)' = PayoutsOf(v, T)
        BY <2>3, <2>4, OtherPayouts
      <3> QED BY <1>2, <1>3, <1>4, <3>1, OtherCovered DEF AllCovered, Others
    <2>5. ASSUME a \in Users PROVE Covered(a)'
      <3> SUFFICES ASSUME a \notin disturbed' PROVE Covered(a)'
        BY DEF Covered
      <3>1. a \notin disturbed /\ w \in Askers(a)
        BY <1>1, <1>2 DEF Others, Askers
      <3>2. Promised(a) + n <= Earned(a) /\ \A x \in Askers(a) : x = w
        BY <1>1, <2>5, <3>1 DEF AllCovered, Covered
      <3>3. Askers(a)' = {}
        BY <1>2, <1>4, <3>2 DEF Askers
      <3> DEFINE T == {"INITIALIZED", "COMPLETED"}
      <3>4. PayShare(payout, a, T)[c] = 0 /\ PayShare(payout', a, T)[c] = n
        BY <2>3 DEF PayShare
      <3>5. PaidIn(payout', a, T) = PaidIn(payout, a, T) - 0 + n
        <4> HIDE DEF T
        <4>1. PaidIn(payout', a, T)
                = PaidIn(payout, a, T) - PayShare(payout, a, T)[c] + PayShare(payout', a, T)[c]
          BY <2>2, <2>3, PaidChange
        <4> QED BY <3>4, <4>1
      <3>6. PaidIn(payout, a, T) \in Nat
        BY <2>2, PaidAreShares
      <3>7. Promised(a)' = Promised(a) + n
        BY <1>2, <3>5, <3>6, TheSums
      <3>8. Earned(a)' = Earned(a)
        BY <1>3, SumsStay
      <3> QED BY <3>2, <3>3, <3>7, <3>8 DEF Covered
    <2> QED BY <2>4, <2>5 DEF AllCovered
  <1> QED BY <1>5, <1>6

LEMMA SettlePayoutCovered ==
  ASSUME TypeOK, TypeOK', AllCovered, NEW c \in Payouts, NEW status \in {"COMPLETED", "FAILED"},
         SettlePayout(c, status)
  PROVE  AllCovered'
  <1>1. /\ payout[c].status = "INITIALIZED"
        /\ payout' = [payout EXCEPT ![c].status = status]
        /\ UNCHANGED <<ref, task, disturbed>>
    BY DEF SettlePayout
  <1>2. payout \in [Payouts -> PayoutRows] /\ payout' \in [Payouts -> PayoutRows]
    BY SumTypes, SumTypesNext
  <1>3. PICK a, n : a = payout[c].user /\ n = payout[c].amount
    OBVIOUS
  <1>4. /\ payout'[c].user = a /\ payout'[c].amount = n /\ payout'[c].status = status
        /\ \A p \in Payouts : p # c => payout'[p] = payout[p]
        /\ n \in Nat
    BY <1>1, <1>2, <1>3 DEF PayoutRows
  <1>5. \A v : \A x \in Askers(v)' : x \in Askers(v) /\ task'[x] = task[x]
    BY <1>1 DEF Askers
  <1>6. ASSUME NEW v \in Users, v # a PROVE Covered(v)'
    <2>1. Promised(v)' = Promised(v) /\ \A T : PayoutsOf(v, T)' = PayoutsOf(v, T)
      BY <1>3, <1>4, <1>6, OtherPayouts
    <2> QED BY <1>1, <1>5, <2>1, OtherCovered DEF AllCovered
  <1>7. ASSUME a \in Users PROVE Covered(a)'
    <2> SUFFICES ASSUME a \notin disturbed' PROVE Covered(a)'
      BY DEF Covered
    <2>1. Covered(a) /\ a \notin disturbed
      BY <1>1, <1>7 DEF AllCovered
    <2>2. Promised(a) <= Earned(a)
      BY <2>1 DEF Covered
    <2>3. Askers(a)' = {}
      <3>1. c \in PayoutsOf(a, {"INITIALIZED"})
        BY <1>1, <1>3 DEF PayoutsOf
      <3>2. Askers(a) = {}
        BY <2>1, <3>1 DEF Covered
      <3> QED BY <1>5, <3>2
    <2> DEFINE T == {"INITIALIZED", "COMPLETED"}
    <2>4. PayShare(payout, a, T)[c] = n /\ PayShare(payout', a, T)[c] \in {0, n}
      BY <1>1, <1>3, <1>4 DEF PayShare
    <2>5. PaidIn(payout', a, T)
            = PaidIn(payout, a, T) - PayShare(payout, a, T)[c] + PayShare(payout', a, T)[c]
      <3> HIDE DEF T
      <3> QED BY <1>2, <1>4, PaidChange
    <2>6. PaidIn(payout, a, T) \in Nat
      BY <1>2, PaidAreShares
    <2>7. PaidIn(payout', a, T) <= PaidIn(payout, a, T)
      <3> HIDE DEF T
      <3> QED BY <1>4, <2>4, <2>5, <2>6
    <2>8. Earned(a)' = Earned(a)
      BY <1>1, SumsStay
    <2>9. Promised(a)' <= Earned(a)'
      <3>1. Promised(a)' <= Promised(a)
        BY <2>7, TheSums
      <3>2. Promised(a) \in Nat /\ Promised(a)' \in Nat /\ Earned(a) \in Nat
        BY SumTypes, SumTypesNext
      <3> QED BY <2>2, <2>8, <3>1, <3>2
    <2> QED BY <2>3, <2>9 DEF Covered
  <1> QED BY <1>6, <1>7 DEF AllCovered

-----------------------------------------------------------------------------
LEMMA HandleMoney ==
  ASSUME TypeOK, TypeOK', Backed, MoneyInv, NEW w \in Workers, Handle(w)
  PROVE  MoneyInv'
  <1>0. AllAgree /\ AllCovered /\ \A v \in Users : Earned(v) \in Nat /\ Earned(v)' \in Nat
    BY SumTypes, SumTypesNext DEF MoneyInv
  <1>1. ASSUME NEW u \in Users, NEW v \in Users, SignUp(w, u, v) PROVE MoneyInv'
    <2>1. AllAgree' /\ Others(w) /\ task'[w].job = "signup"
      BY <1>0, <1>1, SignUpAgree
    <2>2. payout' = payout /\ \A x \in Users : Earned(x)' = Earned(x)
      BY <1>1, SumsStay DEF SignUp, db
    <2> QED BY <1>0, <2>1, <2>2, NoPayoutCovered DEF MoneyInv
  <1>2. CASE CreateReferral(w)
    <2>1. /\ AllAgree' /\ Others(w) /\ task'[w].job = task[w].job
          /\ \A x \in Users : Earned(x)' = Earned(x)
      BY <1>0, <1>2, CreateReferralAgree
    <2>2. payout' = payout /\ task[w].job # "withdraw"
      BY <1>0, <1>2 DEF CreateReferral, AllAgree, JobsOK, JobOK
    <2> QED BY <1>0, <2>1, <2>2, NoPayoutCovered DEF MoneyInv
  <1>3. CASE LinkReferral(w)
    <2>1. AllAgree' /\ Others(w) /\ task'[w].job = "NONE"
      BY <1>0, <1>3, LinkReferralAgree
    <2>2. payout' = payout /\ \A x \in Users : Earned(x)' = Earned(x)
      BY <1>3, SumsStay DEF LinkReferral
    <2> QED BY <1>0, <2>1, <2>2, NoPayoutCovered DEF MoneyInv
  <1>4. ASSUME NEW u \in Users, NEW stage \in Stages, Reward(w, u, stage) PROVE MoneyInv'
    <2>1. AllAgree' /\ Others(w) /\ task'[w].job = "reward"
      BY <1>0, <1>4, RewardAgree
    <2>2. payout' = payout /\ \A x \in Users : Earned(x)' = Earned(x)
      BY <1>4, SumsStay DEF Reward, db
    <2> QED BY <1>0, <2>1, <2>2, NoPayoutCovered DEF MoneyInv
  <1>5. CASE CreateHistory(w)
    <2>1. AllAgree' /\ Others(w) /\ task'[w] = task[w] /\ task[w].job # "withdraw"
      BY <1>0, <1>5, CreateHistoryAgree DEF CreateHistory, AllAgree, JobsOK, JobOK
    <2>2. payout' = payout /\ \A x \in Users : Earned(x)' = Earned(x)
      BY <1>5, SumsStay DEF CreateHistory
    <2> QED BY <1>0, <2>1, <2>2, NoPayoutCovered DEF MoneyInv
  <1>6. CASE UpdateReferral(w)
    <2>1. /\ AllAgree' /\ Others(w) /\ task'[w].job = "reward"
          /\ \A v \in Users : v \notin disturbed => Earned(v) <= Earned(v)'
      BY <1>0, <1>6, UpdateReferralAgree
    <2>2. payout' = payout
      BY <1>6 DEF UpdateReferral
    <2> QED BY <1>0, <2>1, <2>2, NoPayoutCovered DEF MoneyInv
  <1>7. CASE UpdatePoints(w)
    <2>1. AllAgree' /\ Others(w) /\ task'[w].job \in {"reward", "NONE"}
      BY <1>0, <1>7, UpdatePointsAgree
    <2>2. payout' = payout /\ \A x \in Users : Earned(x)' = Earned(x)
      BY <1>7, SumsStay DEF UpdatePoints
    <2> QED BY <1>0, <2>1, <2>2, NoPayoutCovered DEF MoneyInv
  <1>8. ASSUME NEW u \in Users, NEW onTime \in BOOLEAN, CloseLoan(w, u, onTime) PROVE MoneyInv'
    <2>1. AllAgree' /\ Others(w) /\ task'[w].job \in {"reward", "count"}
      BY <1>0, <1>8, CloseLoanAgree
    <2>2. payout' = payout /\ \A x \in Users : Earned(x)' = Earned(x)
      BY <1>8, SumsStay DEF CloseLoan
    <2> QED BY <1>0, <2>1, <2>2, NoPayoutCovered DEF MoneyInv
  <1>9. CASE CountLoan(w)
    <2>1. AllAgree' /\ Others(w) /\ task'[w].job = "NONE"
      BY <1>0, <1>9, CountLoanAgree
    <2>2. payout' = payout /\ \A x \in Users : Earned(x)' = Earned(x)
      BY <1>9, SumsStay DEF CountLoan
    <2> QED BY <1>0, <2>1, <2>2, NoPayoutCovered DEF MoneyInv
  <1>10. ASSUME NEW v \in Users, NEW n \in 1 .. MaxRewards, Withdraw(w, v, n) PROVE MoneyInv'
    BY <1>0, <1>10, WithdrawAgree, WithdrawCovered DEF MoneyInv
  <1>11. CASE RequestPayout(w)
    BY <1>0, <1>11, RequestPayoutAgree, RequestPayoutCovered DEF MoneyInv
  <1>12. CASE Abort(w)
    <2>1. AllAgree' /\ Others(w) /\ task'[w].job = "NONE"
      BY <1>0, <1>12, AbortAgree
    <2>2. payout' = payout /\ \A x \in Users : Earned(x)' = Earned(x)
      BY <1>12, SumsStay DEF Abort, db
    <2> QED BY <1>0, <2>1, <2>2, NoPayoutCovered DEF MoneyInv
  <1> QED BY <1>1, <1>2, <1>3, <1>4, <1>5, <1>6, <1>7, <1>8, <1>9, <1>10, <1>11, <1>12
          DEF Handle

LEMMA MoneyInvariant ==
  ASSUME TypeOK, TypeOK', Backed, MoneyInv, [Next]_vars
  PROVE  MoneyInv'
  <1>0. AllAgree /\ AllCovered
    BY DEF MoneyInv
  <1>1. ASSUME UNCHANGED <<user, ref, granted, payout, pc, task, disturbed>> PROVE MoneyInv'
    <2>1. AllAgree'
      BY <1>0, <1>1, StillAgree
    <2>2. ASSUME NEW v \in Users PROVE Covered(v)'
      <3>1. \A x \in Askers(v)' : x \in Askers(v) /\ task'[x] = task[x]
        BY <1>1 DEF Askers
      <3>2. Promised(v)' = Promised(v) /\ \A T : PayoutsOf(v, T)' = PayoutsOf(v, T)
        BY <1>1, SumsStay
      <3> QED BY <1>0, <1>1, <3>1, <3>2, OtherCovered DEF AllCovered
    <2> QED BY <2>1, <2>2 DEF MoneyInv, AllCovered
  <1>2. CASE UNCHANGED vars \/ \E u \in Users : CompleteKyc(u) \/ ActivateLoan(u)
    BY <1>1, <1>2 DEF vars, db, CompleteKyc, ActivateLoan
  <1>3. ASSUME NEW p \in Payouts, NEW status \in {"COMPLETED", "FAILED"},
               SettlePayout(p, status)
        PROVE  MoneyInv'
    <2>1. AllCovered'
      BY <1>0, <1>3, SettlePayoutCovered
    <2>2. AllAgree'
      BY <1>0, <1>3, StillAgree DEF SettlePayout
    <2> QED BY <2>1, <2>2 DEF MoneyInv
  <1>4. CASE \E w \in Workers : Handle(w)
    BY <1>4, HandleMoney
  <1> QED BY <1>2, <1>3, <1>4 DEF Next, World

LEMMA InitMoney == Init => MoneyInv
  <1> SUFFICES ASSUME Init PROVE MoneyInv
    OBVIOUS
  <1>0. TypeOK
    BY InitType
  <1>1. JobsOK
    BY DEF Init, JobsOK, JobOK, NoTask, Rewarding
  <1>2. ASSUME NEW v \in Users
        PROVE  Rewarders(v) = {} /\ Askers(v) = {} /\ user[v].points = 0 /\ granted[v] = 0
    BY DEF Init, Rewarders, Askers, NoTask
  <1>3. ASSUME NEW v \in Users PROVE Earned(v) = 0
    <2>1. \A r \in Referrals : ref[r].by # v
      BY DEF Init, NoRef
    <2>2. OwnRefs(ref, v) = {}
      BY <2>1 DEF OwnRefs
    <2>3. PointsIn(ref, v) = 0
      BY <2>2, SumEmpty DEF PointsIn
    <2> QED BY <2>3, TheSums
  <1>4. ASSUME NEW v \in Users PROVE Promised(v) = 0
    <2>1. \A p \in Payouts : payout[p].user # v
      BY DEF Init, NoPayout
    <2>2. OwnPayouts(payout, v, {"INITIALIZED", "COMPLETED"}) = {}
      BY <2>1 DEF OwnPayouts
    <2>3. PaidIn(payout, v, {"INITIALIZED", "COMPLETED"}) = 0
      BY <2>2, SumEmpty DEF PaidIn
    <2> QED BY <2>3, TheSums
  <1> QED BY <1>1, <1>2, <1>3, <1>4 DEF MoneyInv, AllAgree, AllCovered, Agree, Covered

(* Where no rewards or withdrawals of a referrer overlapped and none died  *)
(* halfway, the wallet is as far behind the history as the one reward      *)
(* under way has come, and what is promised stays within what was earned.  *)
THEOREM MoneyInvariance == Spec => [](WalletInv /\ MoneyInv)
  <1>1. Init => WalletInv /\ MoneyInv
    BY InitType, InitWallet, InitMoney DEF WalletInv
  <1>2. WalletInv /\ MoneyInv /\ [Next]_vars => (WalletInv /\ MoneyInv)'
    BY TypeStep, BackedInvariant, WalletInvariant, MoneyInvariant DEF WalletInv
  <1> QED BY <1>1, <1>2, PTL DEF Spec

(* As soon as no handler works for a referrer whose rewards never          *)
(* overlapped, user.referralPoints, the referral rows and the history      *)
(* written by updateReferral agree.                                        *)
THEOREM WalletKeepsAgreeing == Spec => []WalletAgrees
  <1>1. MoneyInv => WalletAgrees
    <2> SUFFICES ASSUME MoneyInv, NEW v \in Users, Undisturbed(v)
                 PROVE  user[v].points = granted[v] /\ Earned(v) = granted[v]
      BY DEF WalletAgrees
    <2>1. v \notin disturbed /\ Rewarders(v) = {}
      BY DEF Undisturbed, Rewarders
    <2> QED BY <2>1 DEF MoneyInv, AllAgree, Agree
  <1> QED BY <1>1, MoneyInvariance, PTL

(* A referrer whose withdrawals never overlapped is not promised more than *)
(* was earned: checkTransactionData suffices for them.                     *)
THEOREM PayoutsStayCovered == Spec => []PayoutsAreCovered
  <1>1. MoneyInv => PayoutsAreCovered
    BY DEF MoneyInv, AllCovered, Covered, Promised, PayoutsAreCovered
  <1> QED BY <1>1, MoneyInvariance, PTL
=============================================================================
