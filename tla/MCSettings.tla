----------------------------- MODULE MCSettings -----------------------------
(* Small instances of Settings for TLC. *)
EXTENDS Settings, TLC

CONSTANTS r1, r2, here, there, games, pw1, pw2

\* What the wizard wrote, with folders or without; an archive put together by
\* hand may hold it again.
Wizard == [addr : {here}, folders : {games, NoFolders}, login : {pw1}, key : {0}]

Alike == Permutations(Requests)
=============================================================================
