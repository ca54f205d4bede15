--------------------------- MODULE SessionContract ---------------------------
(* What the routes of session_api.py do to the one row pair everything else  *)
(* looks at: a session and its target, from the moment the target exists.    *)
(* SessionLifecycle implements it, and ActionExecution is checked against    *)
(* every step it allows, so that the two can be run beside each other.       *)
(* A request is only known by what it will write.                            *)
CONSTANT Sessions

VARIABLES
    state,      \* "preparing" until the target exists, then as in the table
    locked,     \* whether the target is locked
    overdue,    \* sessions whose deadline has passed
    closing,    \* sessions some request will close, locking the target
    blind,      \* sessions some request will close, leaving the target open
    expiring    \* sessions some request will mark as expired

contract == <<state, locked, overdue, closing, blind, expiring>>

States == {"preparing", "ready", "completed", "expired"}

\* Requests, other than those that have nothing left to do, for one session.
OneLess(requests, s) == {requests, requests \ {s}}

ContractInit ==
    /\ state = [s \in Sessions |-> "preparing"]
    /\ locked = [s \in Sessions |-> FALSE]
    /\ overdue \in SUBSET Sessions
    /\ closing = {}
    /\ blind = {}
    /\ expiring = {}

Write(s, from, to) ==
    /\ state[s] \in from
    /\ state' = [state EXCEPT ![s] = to]

\* A target is registered; whoever had read the session before goes on.
Register(s) ==
    /\ Write(s, {"preparing"}, "ready")
    /\ closing' \in {closing, closing \cup {s}}
    /\ blind' \in {blind, blind \cup {s}}
    /\ \/ UNCHANGED expiring
       \/ s \in overdue /\ expiring' = expiring \cup {s}
    /\ UNCHANGED <<locked, overdue>>

BeginClose(s) ==
    /\ state[s] = "ready"
    /\ s \notin overdue
    /\ closing' = closing \cup {s}
    /\ UNCHANGED <<state, locked, overdue, blind, expiring>>

BeginExpire(s) ==
    /\ state[s] = "ready"
    /\ s \in overdue
    /\ expiring' = expiring \cup {s}
    /\ UNCHANGED <<state, locked, overdue, closing, blind>>

CommitClose(s) ==
    /\ s \in closing
    /\ Write(s, States, "completed")
    /\ locked' = [locked EXCEPT ![s] = TRUE]
    /\ closing' \in OneLess(closing, s)
    /\ UNCHANGED <<overdue, blind, expiring>>

CommitBlindClose(s) ==
    /\ s \in blind
    /\ Write(s, States, "completed")
    /\ blind' \in OneLess(blind, s)
    /\ UNCHANGED <<locked, overdue, closing, expiring>>

CommitExpire(s) ==
    /\ s \in expiring
    /\ Write(s, States, "expired")
    /\ expiring' \in OneLess(expiring, s)
    /\ UNCHANGED <<locked, overdue, closing, blind>>

\* Reading and writing in one immediate transaction.
ExpireAtOnce(s) ==
    /\ s \in overdue
    /\ Write(s, {"ready"}, "expired")
    /\ UNCHANGED <<locked, overdue, closing, blind, expiring>>

\* Requests end before they commit, all of them when the process dies.
Abandon ==
    /\ closing' \in SUBSET closing
    /\ blind' \in SUBSET blind
    /\ expiring' \in SUBSET expiring
    /\ UNCHANGED <<state, locked, overdue>>

TimePasses ==
    /\ overdue' \in SUBSET Sessions
    /\ overdue \subseteq overdue'
    /\ UNCHANGED <<state, locked, closing, blind, expiring>>

\* What requests do to a session that has its target.
RequestStep(s) ==
    \/ BeginClose(s) \/ CommitClose(s) \/ CommitBlindClose(s)
    \/ BeginExpire(s) \/ CommitExpire(s) \/ ExpireAtOnce(s)

ContractNext ==
    \/ \E s \in Sessions : Register(s) \/ RequestStep(s)
    \/ Abandon
    \/ TimePasses

ContractSpec == ContractInit /\ [][ContractNext]_contract
=============================================================================
