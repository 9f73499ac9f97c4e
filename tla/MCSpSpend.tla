----------------------------- MODULE MCSpSpend -----------------------------
(* Spending on a small wallet: three silent payments, the first of them    *)
(* worth less than it costs and found with another device, and one         *)
(* ordinary coin.                                                          *)
EXTENDS SpSpend

CONSTANTS d1, d2, other, p1, p2, p3, own

Listed == <<p1, p2, p3, own>>

Amounts == [c \in {p1, p2, p3, own} |->
              CASE c = p1 -> 50 [] c = p2 -> 500 [] c = p3 -> 542 [] c = own -> 2000]

Keys == [c \in {p1, p2, p3, own} |-> IF c = p1 THEN d2 ELSE d1]

(* From silent payments to the wallet's own code, for which the second coin *)
(* is just too small and the third exactly enough, and the two of them      *)
(* leave change; from the ordinary coin to another code and to an address.  *)
ThreeAsks ==
  {[fromSp |-> TRUE, to |-> d1, sats |-> 400, rate |-> 250, lock |-> 0],
   [fromSp |-> FALSE, to |-> other, sats |-> 700, rate |-> 500, lock |-> 7],
   [fromSp |-> FALSE, to |-> Address, sats |-> 700, rate |-> 500, lock |-> 0]}
=============================================================================
