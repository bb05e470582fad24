------------------------------ MODULE MCRBTree ------------------------------
(* An instance of RBTree for TLC: two elements compare equal to the middle  *)
(* key, one to each other key.                                              *)
EXTENDS RBTree

CONSTANTS e1, e2, Middle

ElemsOf == [k \in Key |-> IF k = Middle THEN {e1, e2} ELSE {e1}]
=============================================================================
