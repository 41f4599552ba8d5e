--------------------------- MODULE MCGameArchive ---------------------------
(* Small instances of GameArchive for TLC. *)
EXTENDS GameArchive, TLC

CONSTANTS sweep, import, old, new

\* The second version is smaller.
TwoThenOne == 1 :> 2 @@ 2 :> 1

\* No action and no property tells two generators or two passwords apart.
Alike == Permutations(Generators) \cup Permutations(Passwords)
=============================================================================
