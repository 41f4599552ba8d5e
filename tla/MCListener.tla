----------------------------- MODULE MCListener ------------------------------
(* Small instances of Listener for TLC. *)
EXTENDS Listener, TLC

CONSTANTS s1, s2, s3, a1, a2, c1
=============================================================================
