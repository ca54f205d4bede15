--------------------------- MODULE InstanceContract ---------------------------
(* What the instance guard promises to the other processes of the machine,   *)
(* and to the database they share: one process at a time works, a process    *)
(* gives the guard up only when it has closed and its work is over, and from *)
(* then on it never works again.  ProtectedShutdown implements this.         *)
CONSTANTS
    Hosts,      \* processes, each started once
    NoHost      \* nobody owns the guard

VARIABLES
    owner,      \* the process that owns the guard
    stage,      \* "new", "open" to work, "closed" to new work, "dead"
    working     \* processes with a server, a worker or a child that runs

contract == <<owner, stage, working>>

ContractInit ==
    /\ owner = NoHost
    /\ stage = [h \in Hosts |-> "new"]
    /\ working = {}

Turn(h, from, to) ==
    /\ stage[h] = from
    /\ stage' = [stage EXCEPT ![h] = to]

Start(h) ==
    /\ owner = NoHost
    /\ owner' = h
    /\ Turn(h, "new", "open")
    /\ UNCHANGED working

TurnAway(h) ==
    /\ owner # NoHost
    /\ Turn(h, "new", "closed")
    /\ UNCHANGED <<owner, working>>

\* Only an open owner can begin to work.
Begin(h) ==
    /\ owner = h
    /\ stage[h] = "open"
    /\ working' = working \cup {h}
    /\ UNCHANGED <<owner, stage>>

Rest(h) ==
    /\ working' = working \ {h}
    /\ UNCHANGED <<owner, stage>>

\* What is at work when admission closes may go on.
Close(h) ==
    /\ Turn(h, "open", "closed")
    /\ working' \in {working, working \ {h}}
    /\ UNCHANGED owner

Release(h) ==
    /\ owner = h
    /\ stage[h] = "closed"
    /\ h \notin working
    /\ owner' = NoHost
    /\ UNCHANGED <<stage, working>>

\* A killed process loses its guard with everything else.
Die(h) ==
    /\ stage[h] \in {"open", "closed"}
    /\ stage' = [stage EXCEPT ![h] = "dead"]
    /\ owner' = IF owner = h THEN NoHost ELSE owner
    /\ working' = working \ {h}

ContractNext ==
    \E h \in Hosts :
        \/ Start(h) \/ TurnAway(h) \/ Begin(h) \/ Rest(h) \/ Close(h)
        \/ Release(h) \/ Die(h)

ContractSpec == ContractInit /\ [][ContractNext]_contract
=============================================================================
