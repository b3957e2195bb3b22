------------------------------ MODULE MCStreams ------------------------------
(***************************************************************************)
(* Streams for TLC: the constants are given in the configurations.         *)
(***************************************************************************)
EXTENDS Streams
=============================================================================
