----------------------------- MODULE MCCatalog -----------------------------
(* Small instances of Catalog for TLC. *)
EXTENDS Catalog, TLC

CONSTANTS g1, g2, p1, f1, w, a, c1, main

\* The first game has a file named after it; the second is only a row.
OwnFile == p1 :> g1
OneFolder == [p \in Paths |-> f1]
Deployed == [x \in Watchers \cup Scanners |-> main]
=============================================================================
