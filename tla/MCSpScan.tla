------------------------------ MODULE MCSpScan ------------------------------
(* The search for silent payments on a small chain.                        *)
EXTENDS SpScan

CONSTANTS p

=============================================================================
