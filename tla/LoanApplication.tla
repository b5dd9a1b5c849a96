--------------------------- MODULE LoanApplication ---------------------------
(* What an application promises: it is paid only once it was approved and  *)
(* then signed, a signed one is not rejected, and a paid one is settled.   *)

VARIABLE stage

Init == stage = "applied"

Approve == stage = "applied" /\ stage' = "approved"
Refer   == stage = "approved" /\ stage' = "applied"
Sign    == stage = "approved" /\ stage' = "signed"
Void    == stage = "signed" /\ stage' = "approved"
Pay     == stage = "signed" /\ stage' = "paid"
Reject  == stage \in {"applied", "approved"} /\ stage' = "rejected"
Reopen  == stage = "rejected" /\ stage' = "applied"

Next == Approve \/ Refer \/ Sign \/ Void \/ Pay \/ Reject \/ Reopen

Spec == Init /\ [][Next]_stage
=============================================================================
