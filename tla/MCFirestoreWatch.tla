-------------------------- MODULE MCFirestoreWatch --------------------------
(* FirestoreWatch for TLC: two targets, so that one keeps the stream open    *)
(* while the other comes and goes.                                           *)
EXTENDS FirestoreWatch
=============================================================================
