--------------------------- MODULE MCSharedFiles ---------------------------
(* The shared send by hand on small instances: a proposes with two         *)
(* processes, b accepts with one.                                          *)
EXTENDS SharedFiles

CONSTANTS a, b, d1, pa1, pa2, pb

Where == [p \in {pa1, pa2, pb} |-> IF p = pb THEN b ELSE a]

OneCoin == [w \in {a, b} |-> {{w}}]

(* The two processes of a are alike.                                       *)
Alike == Permutations({pa1, pa2})
=============================================================================
