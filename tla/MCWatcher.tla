------------------------------ MODULE MCWatcher ------------------------------
(* Small instances of Watcher for TLC. *)
EXTENDS Watcher, TLC

CONSTANTS p1, f1, r1, stop

OneFolder == p1 :> f1
=============================================================================
