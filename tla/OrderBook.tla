----------------------------- MODULE OrderBook ------------------------------
(***************************************************************************)
(* What the repayment code promises about the money of the orders: an      *)
(* order that the gateway captured is booked once, at its full price, in   *)
(* one step as seen from outside, and the booking is never touched again.  *)
(***************************************************************************)
EXTENDS Integers

CONSTANT Orders

VARIABLES
  price,     \* amount the gateway was asked to collect
  captured,  \* orders the gateway has collected
  credit     \* amount booked in COMPLETED transactions

vars == <<price, captured, credit>>

Init ==
  /\ price = [p \in Orders |-> 0]
  /\ captured = {}
  /\ credit = [p \in Orders |-> 0]

Place(p) ==
  /\ price[p] = 0
  /\ price'[p] > 0
  /\ price' = [price EXCEPT ![p] = price'[p]]
  /\ UNCHANGED <<captured, credit>>

Capture(p) ==
  /\ price[p] > 0
  /\ captured' = captured \union {p}
  /\ UNCHANGED <<price, credit>>

Book(p) ==
  /\ p \in captured
  /\ credit[p] = 0
  /\ credit' = [credit EXCEPT ![p] = price[p]]
  /\ UNCHANGED <<price, captured>>

Next == \E p \in Orders : Place(p) \/ Capture(p) \/ Book(p)

Spec == Init /\ [][Next]_vars
=============================================================================
