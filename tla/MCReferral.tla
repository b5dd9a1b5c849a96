----------------------------- MODULE MCReferral -----------------------------
(* Instances of the referral rewards for TLC. *)
EXTENDS ReferralProperties, TLC

CONSTANTS a, b, c, w1, w2    \* three users, two handlers
ThreeUsers == {a, b, c}
OneVeteran == {a}
TwoWorkers == {w1, w2}

(* The new users and the handlers are interchangeable, and no property here is one of  *)
(* liveness.                                                               *)
Symmetry == Permutations({b, c}) \union Permutations(TwoWorkers)
=============================================================================
