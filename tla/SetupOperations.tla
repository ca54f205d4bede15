-------------------------- MODULE SetupOperations --------------------------
(* One repair of a setup component at a time, with its cancel request and   *)
(* the shutdown of the process beside it.  Sources: redpath/setup_api.py    *)
(* (SetupOperationController, repair_setup, cancel_setup) and the cancel    *)
(* events of redpath/operations.py.                                         *)
(*                                                                          *)
(* Abstracted: what the installers do.  They return "ready", "cancelled"    *)
(* (only after they saw their event) or anything else, at a moment of their *)
(* own choice.  A thread's Event is created anew by each of its requests.   *)
EXTENDS Integers

CONSTANTS
    Threads,      \* threads that serve POST /setup/{component}/repair
    Components,   \* COMPONENTS
    NoThread,     \* no owner of the lock, no active operation
    MaxRepairs    \* bound on repair requests

ASSUME ThreadAssumption == NoThread \notin Threads
ASSUME RepairAssumption == MaxRepairs \in Nat

VARIABLES
    accepting,    \* ProtectedOperations._accepting
    workers,      \* threads registered in ProtectedOperations._workers
    event,        \* whether the Event of a thread's operation is set
    opLock,       \* who holds SetupOperationController._operation_lock
    active,       \* whose component and event are in _active
    component,    \* what a thread repairs
    pc,
    stage,        \* what the installer returned to it
    answer,       \* what the last repair request was answered
    confirmed,    \* history: a cancel of this operation was confirmed
    repairs       \* counts requests, for the bound

locks == <<opLock, active>>
request == <<component, pc, stage, answer>>
vars == <<accepting, workers, event, opLock, active, component, pc, stage,
          answer, confirmed, repairs>>

Stages == {"ready", "cancelled", "other"}
Answers == Stages \cup {"none", "busy", "refused"}

Init ==
    /\ accepting = TRUE
    /\ workers = {}
    /\ event = [t \in Threads |-> FALSE]
    /\ opLock = NoThread
    /\ active = NoThread
    /\ component \in [Threads -> Components]
    /\ pc = [t \in Threads |-> "idle"]
    /\ stage = [t \in Threads |-> "none"]
    /\ answer = [t \in Threads |-> "none"]
    /\ confirmed = {}
    /\ repairs = 0

Goto(t, label) == pc' = [pc EXCEPT ![t] = label]
Reply(t, text) == answer' = [answer EXCEPT ![t] = text]

\* Mutant: the request keeps the Event of the one before.
AdmitOldEvent(t, c) ==
    /\ pc[t] = "idle"
    /\ accepting
    /\ repairs < MaxRepairs
    /\ repairs' = repairs + 1
    /\ workers' = workers \cup {t}
    /\ component' = [component EXCEPT ![t] = c]
    /\ confirmed' = confirmed \ {t}
    /\ Goto(t, "admitted")
    /\ Reply(t, "none")
    /\ UNCHANGED <<accepting, event, locks, stage>>

\* operation(cancellable=True): a new Event, registered while accepting.
Admit(t, c) ==
    /\ pc[t] = "idle"
    /\ accepting
    /\ repairs < MaxRepairs
    /\ repairs' = repairs + 1
    /\ workers' = workers \cup {t}
    /\ event' = [event EXCEPT ![t] = FALSE]
    /\ component' = [component EXCEPT ![t] = c]
    /\ confirmed' = confirmed \ {t}
    /\ Goto(t, "admitted")
    /\ Reply(t, "none")
    /\ UNCHANGED <<accepting, locks, stage>>

\* APPLICATION_SHUTTING_DOWN
Refuse(t) ==
    /\ pc[t] = "idle"
    /\ ~accepting
    /\ repairs < MaxRepairs
    /\ repairs' = repairs + 1
    /\ confirmed' = confirmed \ {t}
    /\ Reply(t, "refused")
    /\ UNCHANGED <<accepting, workers, event, locks, component, pc, stage>>

\* Mutant: the operation lock is not looked at.
BeginAnyway(t) ==
    /\ pc[t] = "admitted"
    /\ opLock' = t
    /\ Goto(t, "locked")
    /\ UNCHANGED <<accepting, workers, event, active, component, stage, answer,
                   confirmed, repairs>>

\* begin: take the operation lock without waiting for it ...
Begin(t) ==
    /\ pc[t] = "admitted"
    /\ IF opLock = NoThread
       THEN opLock' = t /\ Goto(t, "locked") /\ UNCHANGED answer
       ELSE Reply(t, "busy") /\ Goto(t, "leaving") /\ UNCHANGED opLock
    /\ UNCHANGED <<accepting, workers, event, active, component, stage,
                   confirmed, repairs>>

\* ... then publish the operation under the state lock.
Publish(t) ==
    /\ pc[t] = "locked"
    /\ active' = t
    /\ Goto(t, "working")
    /\ UNCHANGED <<accepting, workers, event, opLock, component, stage, answer,
                   confirmed, repairs>>

\* Mutant: an installer that raises leaves without complete().
WorkWithoutFinally(t, s) ==
    /\ pc[t] = "working"
    /\ s = "cancelled" => event[t]
    /\ stage' = [stage EXCEPT ![t] = s]
    /\ Goto(t, IF s = "other" THEN "leaving" ELSE "completing")
    /\ UNCHANGED <<accepting, workers, event, locks, component, answer,
                   confirmed, repairs>>

\* The installer returns, or raises and is reported as failed.
Work(t, s) ==
    /\ pc[t] = "working"
    /\ s = "cancelled" => event[t]
    /\ stage' = [stage EXCEPT ![t] = s]
    /\ Goto(t, "completing")
    /\ UNCHANGED <<accepting, workers, event, locks, component, answer,
                   confirmed, repairs>>

\* Mutant: the outcome of complete() is ignored.
CompleteDeaf(t) ==
    /\ pc[t] = "completing"
    /\ active' = NoThread
    /\ opLock' = NoThread
    /\ Reply(t, stage[t])
    /\ Goto(t, "leaving")
    /\ UNCHANGED <<accepting, workers, event, component, stage, confirmed,
                   repairs>>

\* complete: read the event, forget the operation and release its lock in one
\* step; a ready stage whose cancel won is answered as cancelled.
Complete(t) ==
    /\ pc[t] = "completing"
    /\ IF active = t
       THEN active' = NoThread /\ opLock' = NoThread
       ELSE UNCHANGED locks
    /\ Reply(t, IF event[t] /\ stage[t] = "ready" THEN "cancelled" ELSE stage[t])
    /\ Goto(t, "leaving")
    /\ UNCHANGED <<accepting, workers, event, component, stage, confirmed,
                   repairs>>

\* The end of operation(): the ticket is deleted.
Leave(t) ==
    /\ pc[t] = "leaving"
    /\ workers' = workers \ {t}
    /\ stage' = [stage EXCEPT ![t] = "none"]
    /\ Goto(t, "idle")
    /\ UNCHANGED <<accepting, event, locks, component, answer, confirmed,
                   repairs>>

\* CANCEL_REQUESTED; with no matching operation cancel_setup changes nothing.
Cancel(c) ==
    /\ active # NoThread
    /\ component[active] = c
    /\ event' = [event EXCEPT ![active] = TRUE]
    /\ confirmed' = confirmed \cup {active}
    /\ UNCHANGED <<accepting, workers, locks, request, repairs>>

\* Mutant: shutting down cancels only the operation that is published.
CloseActive ==
    /\ accepting
    /\ accepting' = FALSE
    /\ event' = [t \in Threads |-> event[t] \/ t = active]
    /\ UNCHANGED <<workers, locks, request, confirmed, repairs>>

CloseAdmission ==
    /\ accepting
    /\ accepting' = FALSE
    /\ event' = [t \in Threads |-> event[t] \/ t \in workers]
    /\ UNCHANGED <<workers, locks, request, confirmed, repairs>>

RepairStep(t) ==
    \/ Begin(t) \/ Publish(t) \/ Complete(t) \/ Leave(t)
    \/ \E s \in Stages : Work(t, s)

Next ==
    \/ CloseAdmission
    \/ \E c \in Components : Cancel(c)
    \/ \E t \in Threads :
         RepairStep(t) \/ Refuse(t) \/ \E c \in Components : Admit(t, c)

Spec == Init /\ [][Next]_vars

(* Each installer ends by its own timeouts, and Python runs ready threads.  *)
FairSpec == Spec /\ \A t \in Threads : WF_vars(RepairStep(t))

-----------------------------------------------------------------------------
(* Properties *)

\* Every variable keeps the type of the field it models.
TypeOK ==
    /\ accepting \in BOOLEAN
    /\ workers \in SUBSET Threads
    /\ event \in [Threads -> BOOLEAN]
    /\ opLock \in Threads \cup {NoThread}
    /\ active \in Threads \cup {NoThread}
    /\ component \in [Threads -> Components]
    /\ pc \in [Threads -> {"idle", "admitted", "locked", "working",
                           "completing", "leaving"}]
    /\ stage \in [Threads -> Stages \cup {"none"}]
    /\ answer \in [Threads -> Answers]
    /\ confirmed \in SUBSET Threads
    /\ repairs \in Nat

\* Two installers never run at once, although begin takes the operation lock
\* and publishes the operation in two steps (SetupOperationController).
Owning == {"locked", "working", "completing"}
OneRepairAtATime ==
    \A t, u \in Threads : pc[t] \in Owning /\ pc[u] \in Owning => t = u

\* A repair whose cancel was confirmed is never reported ready, even when the
\* cancel lands after the installer's last look at its event.
CancelledIsNotReady == \A t \in confirmed : answer[t] # "ready"

\* A repair is reported cancelled only if somebody cancelled that very repair,
\* or the process was shutting down: no cancel leaks from an earlier one.
NoStrayCancel ==
    \A t \in Threads : answer[t] = "cancelled" => t \in confirmed \/ ~accepting

\* Shutting down reaches every repair in the building, those that have not yet
\* taken the lock or published themselves included.
ShutdownCancelsAll ==
    ~accepting => \A t \in workers : event[t]

\* The operation lock never stays taken, whatever the installer does.
RepairsEnd == opLock # NoThread ~> opLock = NoThread

\* setup_api.py, complete(): "a successful cancel request is always reflected
\* in the repair response for that exact event".
CancelIsReflected ==
    \A t \in confirmed : answer[t] # "none" => answer[t] = "cancelled"

-----------------------------------------------------------------------------
(* The inductive invariant behind them *)

\* The lock, the published operation and the threads' places agree.
LockInv ==
    \A t \in Threads :
        /\ pc[t] \in Owning <=> opLock = t
        /\ pc[t] \in {"working", "completing"} <=> active = t

\* What is registered, and what a cancel can have reached.
EventInv ==
    \A t \in Threads :
        /\ t \in workers <=> pc[t] # "idle"
        /\ t \in confirmed => event[t]
        /\ t \in confirmed => pc[t] \in {"working", "completing", "leaving", "idle"}
        /\ pc[t] \in Owning \cup {"admitted"} => answer[t] = "none"
        /\ pc[t] \in Owning \cup {"admitted"} /\ event[t] =>
             t \in confirmed \/ ~accepting
        /\ pc[t] = "completing" => stage[t] \in Stages
        /\ pc[t] = "completing" /\ stage[t] = "cancelled" => event[t]

IInv ==
    /\ TypeOK
    /\ LockInv
    /\ EventInv
    /\ CancelledIsNotReady
    /\ NoStrayCancel
    /\ ShutdownCancelsAll

-----------------------------------------------------------------------------
(* SetupOperations implements SetupContract *)

PhaseAt(label) ==
    CASE label = "idle" -> "away"
      [] label = "admitted" -> "waiting"
      [] label \in Owning -> "repairing"
      [] label = "leaving" -> "answered"

Contract == INSTANCE SetupContract
    WITH open <- accepting, phase <- [t \in Threads |-> PhaseAt(pc[t])],
         slot <- opLock, doomed <- {t \in Threads : event[t]}

\* Two locks, an event and a ticket per request, taken and given back in
\* several steps, keep the promises of one slot: repairs exclude each other, a
\* busy answer names a repair that runs, a ready one was never cancelled.
ImplementsContract == Contract!ContractSpec

-----------------------------------------------------------------------------
(* The installers a repair calls *)

\* The call of a thread, as the installer sees it.
Installer(t) == INSTANCE InstallerContract
    WITH busy <- pc[t] = "working", event <- event[t], stage <- stage[t]
=============================================================================
