------------------------------ MODULE MCSession ------------------------------
(* Session with two accounts and two attempts, each of them a login, a        *)
(* registration or a logout: enough for two logins, or a login and a logout,  *)
(* of different accounts to overlap.                                          *)
EXTENDS Session

CONSTANTS ann, bob, t1, t2

MCAttempts == {t1, t2}
MCAccounts == {ann, bob}
MCFStoreKeys == {"userInfo", "wishlist", "jwtToken"}
=============================================================================
