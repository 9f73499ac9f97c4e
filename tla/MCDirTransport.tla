--------------------------- MODULE MCDirTransport ---------------------------
(* The channel folder on small instances.                                  *)
EXTENDS DirTransport

(* Processes 1 and 2 run as participant 1, process 3 as participant 2.      *)
TwoAsOne == [p \in Processes |-> IF p = 3 THEN 2 ELSE 1]

(* Participant 1 sends two messages, participant 2 one.                     *)
TwoAndOne == [w \in Participants |-> IF w = 1 THEN 2 ELSE 1]
=============================================================================
