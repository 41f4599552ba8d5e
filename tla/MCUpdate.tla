------------------------------ MODULE MCUpdate ------------------------------
(* Small instances of Update for TLC. *)
EXTENDS Update, TLC

CONSTANTS a1, a2

Linux == [os |-> "linux", copies |-> FALSE, autoApply |-> TRUE, autoRestart |-> FALSE]
Windows == [os |-> "windows", copies |-> TRUE, autoApply |-> FALSE, autoRestart |-> TRUE]
SeveralHosts == {Linux, [Linux EXCEPT !.copies = TRUE],
                 Windows, [Windows EXCEPT !.autoRestart = FALSE]}
=============================================================================
