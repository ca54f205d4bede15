---------------------------- MODULE SetupContract ----------------------------
(* What a repair of a setup component promises to the user who asks for it   *)
(* or cancels it and to the process that shuts down: one installer at a      *)
(* time, a cancel that counts until the answer is decided and only for the   *)
(* repair it was meant for.  The locks, events and tickets behind it are in  *)
(* SetupOperations, which implements this.                                   *)
CONSTANTS
    Threads,    \* whoever may ask for a repair
    NoThread    \* nobody's repair runs

VARIABLES
    open,       \* repairs are still let in
    phase,      \* where each request is
    slot,       \* whose repair runs
    doomed,     \* requests that were cancelled, by the user or a shutdown
    answer      \* what each was told last

contract == <<open, phase, slot, doomed, answer>>

Phases == {"away", "waiting", "repairing", "answered"}
Results == {"ready", "cancelled", "other"}

ContractInit ==
    /\ open = TRUE
    /\ phase = [t \in Threads |-> "away"]
    /\ slot = NoThread
    /\ doomed = {}
    /\ answer = [t \in Threads |-> "none"]

Move(t, from, to) ==
    /\ phase[t] = from
    /\ phase' = [phase EXCEPT ![t] = to]

Tell(t, text) == answer' = [answer EXCEPT ![t] = text]

\* A request is let in, with no cancel of an earlier one upon it.
Ask(t) ==
    /\ open
    /\ Move(t, "away", "waiting")
    /\ doomed' = doomed \ {t}
    /\ Tell(t, "none")
    /\ UNCHANGED <<open, slot>>

TurnAway(t) ==
    /\ ~open
    /\ phase[t] = "away"
    /\ Tell(t, "refused")
    /\ UNCHANGED <<open, phase, slot, doomed>>

Start(t) ==
    /\ slot = NoThread
    /\ slot' = t
    /\ Move(t, "waiting", "repairing")
    /\ UNCHANGED <<open, doomed, answer>>

\* Nobody is told to wait for a repair that is over.
TellBusy(t) ==
    /\ slot # NoThread
    /\ Move(t, "waiting", "answered")
    /\ Tell(t, "busy")
    /\ UNCHANGED <<open, slot, doomed>>

\* A cancel reaches the repair that runs, and no other.
Cancel(t) ==
    /\ slot = t
    /\ doomed' = doomed \cup {t}
    /\ UNCHANGED <<open, phase, slot, answer>>

\* Shutting down reaches every request that was let in.
Shutdown ==
    /\ open
    /\ open' = FALSE
    /\ doomed' = doomed \cup {t \in Threads : phase[t] # "away"}
    /\ UNCHANGED <<phase, slot, answer>>

\* Deciding the answer and freeing the slot are one step.
Finish(t, result) ==
    /\ slot = t
    /\ slot' = NoThread
    /\ Move(t, "repairing", "answered")
    /\ result = "ready" => t \notin doomed
    /\ result = "cancelled" => t \in doomed
    /\ Tell(t, result)
    /\ UNCHANGED <<open, doomed>>

Depart(t) ==
    /\ Move(t, "answered", "away")
    /\ UNCHANGED <<open, slot, doomed, answer>>

ContractNext ==
    \/ Shutdown
    \/ \E t \in Threads :
         \/ Ask(t) \/ TurnAway(t) \/ Start(t) \/ TellBusy(t) \/ Cancel(t)
         \/ Depart(t)
         \/ \E result \in Results : Finish(t, result)

ContractSpec == ContractInit /\ [][ContractNext]_contract
=============================================================================
