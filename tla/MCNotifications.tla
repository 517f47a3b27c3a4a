--------------------------- MODULE MCNotifications ---------------------------
(* Notifications with three pushes of two ids, so that A, B, A can come.      *)
EXTENDS Notifications, TLC

CONSTANTS x, y

MCIds == {x, y}
MCSymmetry == Permutations(MCIds)
=============================================================================
