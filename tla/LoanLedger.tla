----------------------------- MODULE LoanLedger -----------------------------
(***************************************************************************)
(* What the repayment code promises about one loan, with no handlers, rows *)
(* or gateways: an instalment is settled once and stays settled, its       *)
(* bounce charge is levied at most once, and the loan is closed, for good, *)
(* only when nothing of it is unsettled.                                   *)
(***************************************************************************)
EXTENDS Integers

CONSTANT Emis

VARIABLES
  settled,   \* instalments with payment_status '1'
  levied,    \* how often the bounce charge of each instalment was levied
  closed     \* loanStatus is Complete

vars == <<settled, levied, closed>>

Init ==
  /\ settled = {}
  /\ levied = [e \in Emis |-> 0]
  /\ closed = FALSE

Settle(e) ==
  /\ settled' = settled \union {e}
  /\ UNCHANGED <<levied, closed>>

Levy(e) ==
  /\ levied[e] = 0
  /\ levied' = [levied EXCEPT ![e] = 1]
  /\ UNCHANGED <<settled, closed>>

Close ==
  /\ settled = Emis
  /\ closed' = TRUE
  /\ UNCHANGED <<settled, levied>>

Next == Close \/ \E e \in Emis : Settle(e) \/ Levy(e)

Spec == Init /\ [][Next]_vars
=============================================================================
