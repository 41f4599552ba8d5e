----------------------------- MODULE MCLibrary -----------------------------
(* Small instances of Library for TLC. *)
EXTENDS Library, TLC

CONSTANTS g1, p1, p2, f1, w1, s1, s2, main, router

\* Files of one package in one folder.
OneFolder == [p \in Paths |-> f1]
SamePackage == [p \in Paths |-> g1]

\* The watcher works through the GameManager of main.go, rescans through that
\* of router.go.
Deployed == [x \in Watchers \cup Scanners |-> IF x \in Watchers THEN main ELSE router]
=============================================================================
