---------------------------- MODULE MCSharedSend ----------------------------
(* The shared send on small instances: who is there and which coins BDK    *)
(* may select.  The cfg files name these definitions.                      *)
EXTENDS SharedSend

CONSTANTS a, b, c, d1, d2

TwoWallets == {a, b}
ThreeWallets == {a, b, c}

(* One coin of every wallet, named like the wallet it belongs to.          *)
OneCoinEach == [w \in Wallets |-> [d \in Deals |-> {{w}}]]

(* Two coins of every wallet, spent together.                              *)
PairCoins == {<<w, n>> : w \in Wallets, n \in 1..2}
PairEach == [w \in Wallets |-> [d \in Deals |-> {{<<w, 1>>, <<w, 2>>}}]]

(* Two coins of every wallet, spent one at a time.                         *)
EitherCoin == [w \in Wallets |-> [d \in Deals |-> {{<<w, 1>>}, {<<w, 2>>}}]]

(* c has no coins for d2: its amount is more than c has.                    *)
NotBoth ==
  [w \in Wallets |-> [d \in Deals |-> IF w = c /\ d = d2 THEN {} ELSE {{w}}]]

(* The joining wallets accept every deal, or d1 alone.                     *)
AnyTerms == [w \in Wallets |-> Deals]
OnlyFirst == [w \in Wallets |-> {d1}]
=============================================================================
