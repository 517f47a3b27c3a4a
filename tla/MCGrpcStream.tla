----------------------------- MODULE MCGrpcStream -----------------------------
(* Instances of GrpcStream: three messages written, so that one is buffered  *)
(* behind another, and two read, so that one comes while a step blocks.      *)
EXTENDS GrpcStream
=============================================================================
