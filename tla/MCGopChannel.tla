---------------------------- MODULE MCGopChannel ----------------------------
(* Instances of GopChannel for TLC. *)
EXTENDS GopChannel
=============================================================================
