--------------------------- MODULE MCPostSubmission ---------------------------
(* PostSubmission with two accounts, one of which may post; two logins, so   *)
(* that one account follows another or its own, and two articles.            *)
EXTENDS PostSubmission

CONSTANTS a, b

MCAccounts == {a, b}
MCAuthors == {a}
=============================================================================
