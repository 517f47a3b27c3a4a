-------------------------- MODULE MCFirestoreWrites --------------------------
(* Instances of FirestoreWrites: three writes and a pipeline of two, so that *)
(* a batch waits for room; two users.                                        *)
EXTENDS FirestoreWrites

CONSTANTS ann, bob, t1

MCUsers == {ann, bob}
MCTokens == {t1}
=============================================================================
