---------------------------- MODULE MCVideosPaging ----------------------------
(* VideosPaging with a playlist of two and a half pages, a channel that      *)
(* counts fewer videos than it has, as many, or a page more, and loads       *)
(* enough to list it all and to repeat two pages.                            *)
EXTENDS VideosPaging
=============================================================================
