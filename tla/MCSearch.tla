------------------------------ MODULE MCSearch -------------------------------
(* Search with two words and two searches, whose answers may cross.           *)
EXTENDS Search

CONSTANTS v, w

MCWords == {v, w}
=============================================================================
