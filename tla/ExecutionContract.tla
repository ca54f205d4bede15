------------------------- MODULE ExecutionContract -------------------------
(* What RedPath promises about running an approved action, with no threads, *)
(* locks, clock or database in it.  A proposal is decided once, an approval *)
(* is consumed at most once, a consumed approval is started at most once,   *)
(* never while the emergency stop holds, and then only settles.             *)
(* ActionExecution is shown to implement this module.                       *)
CONSTANT Proposals

VARIABLES
    phase,   \* how far each proposal has come
    halt     \* "no"; "volatile": held by the running process only; "durable"

cvars == <<phase, halt>>

Phases == {"open", "rejected", "approved", "consumed", "cancelled",
           "started", "finished"}
Halts == {"no", "volatile", "durable"}

ContractInit ==
    /\ phase = [p \in Proposals |-> "open"]
    /\ halt = "no"

MovePhase(p, from, to) ==
    /\ phase[p] = from
    /\ phase' = [phase EXCEPT ![p] = to]

(* The user decides; the claim consumes the approval; the start is granted  *)
(* or the claim is cancelled; a start ends with one recorded result.        *)
Decide(p) ==
    /\ \E d \in {"approved", "rejected"} : MovePhase(p, "open", d)
    /\ UNCHANGED halt

Consume(p) ==
    /\ halt # "durable"
    /\ MovePhase(p, "approved", "consumed")
    /\ UNCHANGED halt

Start(p) ==
    /\ halt = "no"
    /\ MovePhase(p, "consumed", "started")
    /\ UNCHANGED halt

Cancel(p) ==
    /\ MovePhase(p, "consumed", "cancelled")
    /\ UNCHANGED halt

Settle(p) ==
    /\ MovePhase(p, "started", "finished")
    /\ UNCHANGED halt

(* A stop request first holds in memory, then durably; only clearing lifts  *)
(* a durable stop, a restart also forgets one that was not yet durable.     *)
Stop ==
    /\ halt = "no"
    /\ halt' = "volatile"
    /\ UNCHANGED phase

MakeDurable ==
    /\ halt = "volatile"
    /\ halt' = "durable"
    /\ UNCHANGED phase

Clear ==
    /\ halt = "durable"
    /\ halt' \in {"volatile", "no"}
    /\ UNCHANGED phase

Forget ==
    /\ halt = "volatile"
    /\ halt' = "no"
    /\ UNCHANGED phase

ContractNext ==
    \/ \E p \in Proposals :
         Decide(p) \/ Consume(p) \/ Start(p) \/ Cancel(p) \/ Settle(p)
    \/ Stop \/ MakeDurable \/ Clear \/ Forget

ContractSpec == ContractInit /\ [][ContractNext]_cvars
=============================================================================
