------------------------------- MODULE MCSetup -------------------------------
(* Small instances of Setup for TLC. *)
EXTENDS Setup, TLC

CONSTANTS r1, r2, p1, p2

\* An installation from before archive passwords, bound to a loopback address,
\* with or without a secret against CSRF.
OldInstall == [login : {1}, archive : {FALSE}, port : {p1}, loop : {TRUE},
               folder : {TRUE}, key : {0}, csrf : BOOLEAN, mode : {"normal"}]
=============================================================================
