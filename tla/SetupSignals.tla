----------------------------- MODULE SetupSignals -----------------------------
(* What a set-up operation shares with the download and the command it       *)
(* waits for: the event that cancels it, and the deadline, which either of   *)
(* the two makes anew when it begins.  Sources: downloads.py, wsl.py and     *)
(* ollama.py of redpath_setup.                                               *)

VARIABLES
    late,           \* the deadline of the download or the command has passed
    cancelled       \* the event of the set-up operation
=============================================================================
