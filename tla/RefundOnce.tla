----------------------------- MODULE RefundOnce -----------------------------
(***************************************************************************)
(* What the refunds of a loan promise: money is sent back at most once for *)
(* an instalment, and a decision of the bank is final.                     *)
(***************************************************************************)
EXTENDS Naturals

CONSTANT Emis

VARIABLE refund    \* the refund of each instalment

None == [state |-> "NONE", amount |-> 0]

Init == refund = [e \in Emis |-> None]

Send(e) ==
  /\ refund[e] = None
  /\ \E state \in {"PENDING", "PAID", "REJECTED"} :
       refund' = [refund EXCEPT ![e] = [state |-> state,
                                        amount |-> refund'[e].amount]]
  /\ refund'[e].amount \in Nat
Decide(e) ==
  /\ refund[e].state = "PENDING"
  /\ \E state \in {"PAID", "REJECTED"} :
       refund' = [refund EXCEPT ![e].state = state]

Next == \E e \in Emis : Send(e) \/ Decide(e)

Spec == Init /\ [][Next]_refund
=============================================================================
