------------------------- MODULE ReferralProperties -------------------------
(* What the referral rewards of one application must get right. *)
EXTENDS Referral

(* Every variable stays in its domain. *)
TypeOK ==
  /\ user \in [Users -> [by : Users \union {NoUser}, ref : Referrals \union {NoReferral},
                         points : Nat, completed : 0 .. 1]]
  /\ ref \in [Referrals -> [by : Users \union {NoUser}, to : Users \union {NoUser},
                            points : Nat]]
  /\ granted \in [Users -> Nat]
  /\ progress \in [Users -> {"NEW", "AADHAAR", "ACTIVE", "COMPLETE"}]
  /\ payout \in [Payouts -> [user : Users \union {NoUser}, amount : Nat,
                   status : {"NONE", "INITIALIZED", "COMPLETED", "FAILED"}]]
  /\ pc \in [Workers -> {"idle", "referral", "link", "history", "update", "points",
                         "count", "payout"}]
  /\ task \in [Workers -> [job : {"NONE", "signup", "reward", "count", "withdraw"},
                 who : Users \union {NoUser}, by : Users \union {NoUser},
                 ref : Referrals \union {NoReferral}, points : Nat, balance : Nat,
                 amount : Nat, closing : BOOLEAN]]
  /\ rewards \in 0 .. MaxRewards
  /\ aborts \in 0 .. MaxAborts
  /\ disturbed \subseteq Users \union {NoUser}

(* The wallet of a referrer never holds more than the history of rewards   *)
(* says was earned, however the handlers interleave and wherever they die: *)
(* updateReferral books the reward in the history first, and a read of     *)
(* referralPoints that another handler outdates can only lose points.      *)
WalletIsEarned == \A v \in Users : user[v].points <= granted[v]

(* When no two rewards of a referrer overlapped and none died halfway,     *)
(* the wallet, the referral rows and the history agree again as soon as    *)
(* no handler works for the referrer.                                      *)
Undisturbed(v) ==
  /\ v \notin disturbed
  /\ \A w \in Workers : task[w].job = "reward" => task[w].who # v
WalletAgrees ==
  \A v \in Users : Undisturbed(v) =>
    /\ user[v].points = granted[v]
    /\ Earned(v) = granted[v]

(* A referrer whose handlers did not overlap is never paid, or promised,   *)
(* more than the referral rows hold: checkTransactionData counts what was  *)
(* completed and refuses while a payout is pending.                        *)
PayoutsAreCovered ==
  \A v \in Users \ disturbed :
    Sum(LAMBDA p : payout[p].amount, PayoutsOf(v, {"INITIALIZED", "COMPLETED"}))
      <= Earned(v)
=============================================================================
