----------------------------- MODULE MCEventBus ------------------------------
(* Small instances of EventBus for TLC. *)
EXTENDS EventBus, TLC

CONSTANTS p1, p2, s1, s2
=============================================================================
