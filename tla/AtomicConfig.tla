---------------------------- MODULE AtomicConfig ----------------------------
(***************************************************************************)
(* What UpdateConfig promises of the configuration ("atomically writes     *)
(* newCfg to disk AND swaps h.Config"): a save is one step that replaces   *)
(* the file and what the handlers see of it, or it does not happen. Only a *)
(* restore replaces the file alone, and a start reads it again.            *)
(***************************************************************************)
CONSTANTS
    Configs,    \* complete configurations
    Unreadable  \* a file the server cannot start from

VARIABLES
    up,     \* whether the server runs
    file,   \* what a start would read
    view    \* what a handler that asks now is given

Init ==
    /\ up = FALSE
    /\ file \in Configs
    /\ view = file

\* A start reads the file; without a key in it, it draws one and saves it, or
\* fails to save it.
Start ==
    /\ ~up
    /\ file # Unreadable
    /\ up' = TRUE
    /\ \/ view' = file /\ file' = file
       \/ /\ file.key = 0
          /\ view' \in Configs /\ view' = [file EXCEPT !.key = view'.key]
          /\ file' \in {file, view'}

Stop == up /\ up' = FALSE /\ UNCHANGED <<file, view>>

Save ==
    /\ up
    /\ file' \in Configs
    /\ view' = file'
    /\ UNCHANGED up

Restore ==
    /\ up
    /\ file' \in Configs \cup {Unreadable}
    /\ UNCHANGED <<up, view>>

Next == Start \/ Stop \/ Save \/ Restore

Spec == Init /\ [][Next]_<<up, file, view>>
=============================================================================
