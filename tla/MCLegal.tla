------------------------------ MODULE MCLegal ------------------------------
(* Instances of Legal for TLC. Two handlers need fewer rows and debits. *)
EXTENDS LegalProperties, TLC

CONSTANTS w1, w2

OneWorker == {w1}
TwoWorkers == {w1, w2}
Symmetry == Permutations(TwoWorkers)
=============================================================================
