------------------------- MODULE MCCommandAckGroup -------------------------
(* Two servers, the second with a later clock.                             *)
EXTENDS CommandAckGroup

CONSTANTS A, B

MCSkew == [c \in {A, B} |-> IF c = A THEN 0 ELSE 1]
=============================================================================
