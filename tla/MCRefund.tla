------------------------------ MODULE MCRefund ------------------------------
(* Instances of Refund for TLC. *)
EXTENDS RefundProperties

CONSTANTS p1, p2, p3, w1, w2

OneWorker == {w1}
TwoWorkers == {w1, w2}
ThreePayments == {p1, p2, p3}

(* Two instalments of one unit; the first is paid twice over by ICICI and  *)
(* by an auto debit, the second by Razorpay with one unit too many.        *)
Ones == [e \in Emis |-> 1]
NoneFull == {}
Mixed_Emi == (p1 :> 1) @@ (p2 :> 1) @@ (p3 :> 2)
Mixed_Amount == (p1 :> 2) @@ (p2 :> 1) @@ (p3 :> 2)
Mixed_Source == (p1 :> "ICICI_UPI") @@ (p2 :> "AUTODEBIT") @@ (p3 :> "RAZORPAY")

(* A full payment of both instalments, and one that came late. *)
TwoPayments == {p1, p2}
LastFull == {2}
Full_Emi == (p1 :> NoEmi) @@ (p2 :> 1)
Full_Amount == (p1 :> 2) @@ (p2 :> 1)
Full_Source == (p1 :> "ICICI_UPI") @@ (p2 :> "RAZORPAY")
=============================================================================
