------------------------- MODULE MCMarmotTransport --------------------------
(* A Marmot group of two wallets on small instances.                       *)
EXTENDS MarmotTransport

CONSTANTS a, b

(* b is invited by a, which may have to create the group twice.            *)
OnePackage == [w \in Wallets |-> IF w = b THEN 1 ELSE 0]
TwoGroups == [w \in Wallets |-> IF w = a THEN 2 ELSE 0]

(* a sends two messages, b one.                                            *)
TwoAndOne == [w \in Wallets |-> IF w = a THEN 2 ELSE 1]
=============================================================================
