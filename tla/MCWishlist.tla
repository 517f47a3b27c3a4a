----------------------------- MODULE MCWishlist ------------------------------
(* Wishlist with three articles; three pending writes hold an add, a         *)
(* logout and the next add.                                                  *)
EXTENDS Wishlist

CONSTANTS a1, a2, a3

MCKeys == {"wishlist"}
MCArticles == {a1, a2, a3}
=============================================================================
