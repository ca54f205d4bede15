------------------------- MODULE MCActionExecution -------------------------
(* Small instances of ActionExecution for TLC. *)
EXTENDS ActionExecution, TLC

CONSTANTS s1, p1, p2, w1, w2, o1

MCOneSessionOf == p1 :> s1 @@ p2 :> s1
MCSingleJob == p1 :> s1
MCShortExpiry == s1 :> 1
\* The session expires after its target does.
MCLateExpiry == s1 :> 2
WorkerSymmetry == Permutations(Workers)
=============================================================================
