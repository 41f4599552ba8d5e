-------------------------- MODULE MCLibraryHistory --------------------------
(* Small instances of LibraryHistory for TLC. *)
EXTENDS LibraryHistory, TLC

CONSTANTS g1, g2, p1, p2, p3, f1, f2, w, s1, a, main, router

\* Three files of one package: one in the first folder, two in the second, of
\* which the name of one spells another package.
TwoFolders == p1 :> f1 @@ p2 :> f2 @@ p3 :> f2
SamePackage == [p \in Paths |-> g1]
Misnamed == p1 :> g1 @@ p2 :> g1 @@ p3 :> g2

\* The watcher works through the GameManager of main.go, rescans through the
\* one of router.go.
Deployed == [x \in Watchers \cup Scanners |-> IF x \in Watchers THEN main ELSE router]
=============================================================================
