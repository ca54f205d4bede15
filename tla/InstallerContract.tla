-------------------------- MODULE InstallerContract --------------------------
(* What a repair relies on of the installer it calls (setup_api.py, _repair) *)
(* and what the installers of redpath_setup promise it: one answer for each  *)
(* call, and never that a call was cancelled whose event nobody set.  An     *)
(* installer may answer "ready" to a call that was cancelled too late for    *)
(* it; complete() looks at the event again (SetupOperations).                *)
VARIABLES
    busy,       \* the installer works on a call
    event,      \* the event of that call is set
    stage       \* what it answered, "none" before it does

contract == <<busy, event, stage>>

InstallerStages == {"ready", "cancelled", "other"}

ContractInit ==
    /\ busy = FALSE
    /\ event = FALSE
    /\ stage = "none"

\* Every call has an event of its own, which may be set before the call.
Call ==
    /\ ~busy
    /\ busy' = TRUE
    /\ event' \in BOOLEAN
    /\ stage' = "none"

Cancel ==
    /\ busy
    /\ event' = TRUE
    /\ UNCHANGED <<busy, stage>>

Return(s) ==
    /\ busy
    /\ busy' = FALSE
    /\ s = "cancelled" => event
    /\ stage' = s
    /\ UNCHANGED event

\* The process dies with whatever the call had done by then.
Die ==
    /\ busy' = FALSE
    /\ event' = FALSE
    /\ stage' = "none"

ContractNext ==
    \/ Call \/ Cancel \/ Die
    \/ \E s \in InstallerStages : Return(s)

ContractSpec == ContractInit /\ [][ContractNext]_contract
=============================================================================
