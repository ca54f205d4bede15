------------------------- MODULE ProtectedShutdown -------------------------
(* The life of a RedPath process from its instance guard to its release:    *)
(* the main thread of DesktopHost, the HTTP thread, the protected workers   *)
(* and the child processes they own, and the thread that keeps the guard    *)
(* when the main thread gives up waiting.  Several processes compete for    *)
(* the guard.  Sources: redpath/desktop.py, operations.py,                  *)
(* windows_instance.py and the lifespan of app.py.                          *)
(*                                                                          *)
(* Abstracted: deadlines.  A wait with a timeout may end at any moment with *)
(* or without what it waits for.  A worker slot has at most one child.      *)
EXTENDS FiniteSets

CONSTANTS
    Hosts,      \* processes, each started once
    Workers,    \* protected worker threads of a process
    NoHost      \* nobody holds the guard

ASSUME HostAssumption == NoHost \notin Hosts

VARIABLES
    guard,      \* the process that holds the named mutex
    main,       \* where its main thread is
    http,       \* its HTTP thread
    shouldExit, \* Server.should_exit
    accepting,  \* ProtectedOperations._accepting
    worker,     \* where each worker is; registered unless "idle"
    alive,      \* workers whose child process runs
    children,   \* workers whose child is in ProtectedOperations._children
    waiter,     \* the guard-waiter thread
    disposed    \* the database engine was disposed of

operations == <<accepting, worker, alive, children>>
vars == <<guard, main, http, shouldExit, accepting, worker, alive, children,
          waiter, disposed>>

Stopping == {"joining", "waiting", "releasing", "freeing", "retaining"}

Registered(h) == {w \in Workers : worker[h][w] # "idle"}

\* Mutant: running children are not waited for.
WorkersGone(h) == Registered(h) = {}

\* What wait_idle finds after it has reaped the children that exited.
Idle(h) == Registered(h) = {} /\ children[h] \cap alive[h] = {}

Init ==
    /\ guard = NoHost
    /\ main = [h \in Hosts |-> "off"]
    /\ http = [h \in Hosts |-> "none"]
    /\ shouldExit = [h \in Hosts |-> FALSE]
    /\ accepting = [h \in Hosts |-> TRUE]
    /\ worker = [h \in Hosts |-> [w \in Workers |-> "idle"]]
    /\ alive = [h \in Hosts |-> {}]
    /\ children = [h \in Hosts |-> {}]
    /\ waiter = [h \in Hosts |-> "none"]
    /\ disposed = [h \in Hosts |-> FALSE]

MainGoto(h, label) == main' = [main EXCEPT ![h] = label]
WaiterGoto(h, label) == waiter' = [waiter EXCEPT ![h] = label]

-----------------------------------------------------------------------------
(* Starting *)

\* CreateMutexW finds no other handle: this process holds the guard.
Acquire(h) ==
    /\ main[h] = "off"
    /\ guard = NoHost
    /\ guard' = h
    /\ MainGoto(h, "starting")
    /\ UNCHANGED <<http, shouldExit, operations, waiter, disposed>>

\* ERROR_ALREADY_EXISTS: start ends in stop() with nothing started.
AlreadyRunning(h) ==
    /\ main[h] = "off"
    /\ guard # NoHost
    /\ accepting' = [accepting EXCEPT ![h] = FALSE]
    /\ MainGoto(h, "joining")
    /\ UNCHANGED <<guard, http, shouldExit, worker, alive, children, waiter,
                   disposed>>

StartHttp(h) ==
    /\ main[h] = "starting"
    /\ http[h] = "none"
    /\ http' = [http EXCEPT ![h] = "running"]
    /\ UNCHANGED <<guard, main, shouldExit, operations, waiter, disposed>>

Healthy(h) ==
    /\ main[h] = "starting"
    /\ http[h] = "running"
    /\ MainGoto(h, "up")
    /\ UNCHANGED <<guard, http, shouldExit, operations, waiter, disposed>>

-----------------------------------------------------------------------------
(* Protected work *)

WorkerGoto(h, w, label) == worker' = [worker EXCEPT ![h][w] = label]

\* operation(): a worker may get here after its HTTP request was abandoned.
Enter(h, w) ==
    /\ http[h] # "none"
    /\ accepting[h]
    /\ worker[h][w] = "idle"
    /\ WorkerGoto(h, w, "in")
    /\ UNCHANGED <<guard, main, http, shouldExit, accepting, alive, children,
                   waiter, disposed>>

\* Popen ...
Spawn(h, w) ==
    /\ worker[h][w] = "in"
    /\ w \notin alive[h] \cup children[h]
    /\ alive' = [alive EXCEPT ![h] = @ \cup {w}]
    /\ WorkerGoto(h, w, "spawned")
    /\ UNCHANGED <<guard, main, http, shouldExit, accepting, children, waiter,
                   disposed>>

\* ... and own_child.
Own(h, w) ==
    /\ worker[h][w] = "spawned"
    /\ children' = [children EXCEPT ![h] = @ \cup {w}]
    /\ WorkerGoto(h, w, "in")
    /\ UNCHANGED <<guard, main, http, shouldExit, accepting, alive, waiter,
                   disposed>>

\* The end of operation(); the child may not have confirmed its end.
Exit(h, w) ==
    /\ worker[h][w] = "in"
    /\ WorkerGoto(h, w, "idle")
    /\ UNCHANGED <<guard, main, http, shouldExit, accepting, alive, children,
                   waiter, disposed>>

ChildExits(h, w) ==
    /\ w \in alive[h]
    /\ alive' = [alive EXCEPT ![h] = @ \ {w}]
    /\ UNCHANGED <<guard, main, http, shouldExit, accepting, worker, children,
                   waiter, disposed>>

\* _reap_children: poll() returned an exit status.
Reap(h, w) ==
    /\ w \in children[h] \ alive[h]
    /\ children' = [children EXCEPT ![h] = @ \ {w}]
    /\ UNCHANGED <<guard, main, http, shouldExit, accepting, worker, alive,
                   waiter, disposed>>

-----------------------------------------------------------------------------
(* The HTTP thread ends, asked to or by itself *)

\* Mutant: the lifespan disposes of the engine whoever still works.
LifespanDisposes(h) ==
    /\ http[h] = "running"
    /\ http' = [http EXCEPT ![h] = "dead"]
    /\ accepting' = [accepting EXCEPT ![h] = FALSE]
    /\ disposed' = [disposed EXCEPT ![h] = TRUE]
    /\ UNCHANGED <<guard, main, shouldExit, worker, alive, children, waiter>>

\* Server.run leaves the lifespan: admission closes, and the engine goes if
\* nobody works any more.  Requests that were cut off leave their workers.
LifespanEnds(h) ==
    /\ http[h] = "running"
    /\ http' = [http EXCEPT ![h] = "dead"]
    /\ accepting' = [accepting EXCEPT ![h] = FALSE]
    /\ disposed' = [disposed EXCEPT ![h] = @ \/ Idle(h)]
    /\ UNCHANGED <<guard, main, shouldExit, worker, alive, children, waiter>>

\* Server.run raises before the lifespan is left, or never entered it.
ServerFails(h) ==
    /\ http[h] = "running"
    /\ http' = [http EXCEPT ![h] = "dead"]
    /\ UNCHANGED <<guard, main, shouldExit, operations, waiter, disposed>>

-----------------------------------------------------------------------------
(* stop() *)

\* A failed start, the closed window, or the finally of main after a stop in
\* start that raised.
Stop(h) ==
    /\ main[h] \in {"starting", "up", "raised"}
    /\ accepting' = [accepting EXCEPT ![h] = FALSE]
    /\ shouldExit' = [shouldExit EXCEPT ![h] = TRUE]
    /\ MainGoto(h, "joining")
    /\ UNCHANGED <<guard, http, worker, alive, children, waiter, disposed>>

\* thread.join returns, the thread ended or not started.
Joined(h) ==
    /\ main[h] = "joining"
    /\ http[h] # "running"
    /\ MainGoto(h, "waiting")
    /\ UNCHANGED <<guard, http, shouldExit, operations, waiter, disposed>>

WaitEnds(h) ==
    /\ main[h] = "waiting"
    /\ Idle(h)
    /\ MainGoto(h, "releasing")
    /\ UNCHANGED <<guard, http, shouldExit, operations, waiter, disposed>>

\* DESKTOP_SHUTDOWN_TIMEOUT, DESKTOP_PROTECTED_WORK_PENDING
TimesOut(h) ==
    /\ \/ main[h] = "joining" /\ http[h] = "running"
       \/ main[h] = "waiting"
    /\ MainGoto(h, "retaining")
    /\ UNCHANGED <<guard, http, shouldExit, operations, waiter, disposed>>

\* Mutant: no waiter is started while the server thread still runs.
RetainLate(h) ==
    /\ main[h] = "retaining"
    /\ IF waiter[h] = "none" /\ guard = h /\ http[h] # "running"
       THEN WaiterGoto(h, "joining")
       ELSE UNCHANGED waiter
    /\ MainGoto(h, "raised")
    /\ UNCHANGED <<guard, http, shouldExit, operations, disposed>>

\* _retain_guard: the waiter is started once, and only if the guard is held.
Retain(h) ==
    /\ main[h] = "retaining"
    /\ IF waiter[h] = "none" /\ guard = h
       THEN WaiterGoto(h, "joining")
       ELSE UNCHANGED waiter
    /\ MainGoto(h, "raised")
    /\ UNCHANGED <<guard, http, shouldExit, operations, disposed>>

\* The main thread ends; the process lives on while the waiter does.
GiveUp(h) ==
    /\ main[h] = "raised"
    /\ MainGoto(h, "exited")
    /\ UNCHANGED <<guard, http, shouldExit, operations, waiter, disposed>>

WaiterJoined(h) ==
    /\ waiter[h] = "joining"
    /\ http[h] # "running"
    /\ WaiterGoto(h, "waiting")
    /\ UNCHANGED <<guard, main, http, shouldExit, operations, disposed>>

WaiterIdle(h) ==
    /\ waiter[h] = "waiting"
    /\ Idle(h)
    /\ WaiterGoto(h, "releasing")
    /\ UNCHANGED <<guard, main, http, shouldExit, operations, disposed>>

\* _release_instance, by one thread at a time: look again, dispose of the
\* engine, close the handle.
LooksAgain(h) == http[h] # "running" /\ Idle(h)

MainReleases(h) ==
    /\ main[h] = "releasing"
    /\ waiter[h] # "freeing"
    /\ MainGoto(h, IF LooksAgain(h) THEN "freeing" ELSE "exited")
    /\ disposed' = [disposed EXCEPT ![h] = @ \/ LooksAgain(h)]
    /\ UNCHANGED <<guard, http, shouldExit, operations, waiter>>

WaiterReleases(h) ==
    /\ waiter[h] = "releasing"
    /\ main[h] # "freeing"
    /\ WaiterGoto(h, IF LooksAgain(h) THEN "freeing" ELSE "done")
    /\ disposed' = [disposed EXCEPT ![h] = @ \/ LooksAgain(h)]
    /\ UNCHANGED <<guard, main, http, shouldExit, operations>>

CloseHandle(h) == guard' = IF guard = h THEN NoHost ELSE guard

MainFrees(h) ==
    /\ main[h] = "freeing"
    /\ CloseHandle(h)
    /\ MainGoto(h, "exited")
    /\ UNCHANGED <<http, shouldExit, operations, waiter, disposed>>

WaiterFrees(h) ==
    /\ waiter[h] = "freeing"
    /\ CloseHandle(h)
    /\ WaiterGoto(h, "done")
    /\ UNCHANGED <<main, http, shouldExit, operations, disposed>>

\* The process is killed: Windows closes its handles and ends its threads, not
\* its children.
Crash(h) ==
    /\ main[h] \notin {"off", "crashed"}
    /\ CloseHandle(h)
    /\ MainGoto(h, "crashed")
    /\ http' = [http EXCEPT ![h] = IF @ = "running" THEN "dead" ELSE @]
    /\ accepting' = [accepting EXCEPT ![h] = FALSE]
    /\ worker' = [worker EXCEPT ![h] = [w \in Workers |-> "idle"]]
    /\ children' = [children EXCEPT ![h] = {}]
    /\ WaiterGoto(h, "none")
    /\ UNCHANGED <<shouldExit, alive, disposed>>

-----------------------------------------------------------------------------
Starting(h) == Acquire(h) \/ AlreadyRunning(h) \/ StartHttp(h) \/ Healthy(h)

StopStep(h) ==
    \/ Joined(h) \/ WaitEnds(h) \/ TimesOut(h) \/ Retain(h)
    \/ MainReleases(h) \/ MainFrees(h)

WaiterStep(h) ==
    \/ WaiterJoined(h) \/ WaiterIdle(h) \/ WaiterReleases(h) \/ WaiterFrees(h)

WorkStep(h, w) == Own(h, w) \/ Exit(h, w)

Next ==
    \E h \in Hosts :
        \/ Starting(h) \/ Stop(h) \/ StopStep(h) \/ GiveUp(h) \/ WaiterStep(h)
        \/ LifespanEnds(h) \/ ServerFails(h) \/ Crash(h)
        \/ \E w \in Workers :
             \/ Enter(h, w) \/ Spawn(h, w) \/ WorkStep(h, w)
             \/ ChildExits(h, w) \/ Reap(h, w)

Spec == Init /\ [][Next]_vars

(* Threads that can run do run; a server asked to exit exits, within its own *)
(* graceful timeout; killed or finished children end; an operation starts a  *)
(* bounded number of children and ends (strong fairness of Exit).            *)
Fairness ==
    \A h \in Hosts :
        /\ WF_vars(StopStep(h))
        /\ WF_vars(WaiterStep(h))
        /\ WF_vars(shouldExit[h] /\ LifespanEnds(h))
        /\ \A w \in Workers :
             /\ WF_vars(Own(h, w)) /\ SF_vars(Exit(h, w))
             /\ WF_vars(~accepting[h] /\ ChildExits(h, w))
             /\ WF_vars(Reap(h, w))

FairSpec == Spec /\ Fairness

-----------------------------------------------------------------------------
(* Properties *)

\* A process that was not killed and still serves requests, has a protected
\* worker or a running child.
Busy(h) ==
    /\ main[h] # "crashed"
    /\ http[h] = "running" \/ Registered(h) # {} \/ alive[h] # {}

\* README: another instance stays blocked until the HTTP thread, the protected
\* workers and the owned children of this one have finished.
NoOverlap == \A g, h \in Hosts : Busy(g) /\ Busy(h) => g = h

\* The database engine is never disposed of under a protected worker, neither
\* by the lifespan nor by the release of the guard.
StorageOutlivesWork ==
    \A h \in Hosts : disposed[h] => Registered(h) = {}

\* A process that was told to stop gives up its guard, whichever of its waits
\* timed out before.
GuardIsReleased ==
    \A h \in Hosts : main[h] \in Stopping \cup {"raised", "exited"} ~> guard # h

-----------------------------------------------------------------------------
(* The inductive invariant behind them *)

TypeOK ==
    /\ guard \in Hosts \cup {NoHost}
    /\ main \in [Hosts -> Stopping \cup
                   {"off", "starting", "up", "raised", "exited", "crashed"}]
    /\ http \in [Hosts -> {"none", "running", "dead"}]
    /\ shouldExit \in [Hosts -> BOOLEAN]
    /\ accepting \in [Hosts -> BOOLEAN]
    /\ worker \in [Hosts -> [Workers -> {"idle", "in", "spawned"}]]
    /\ alive \in [Hosts -> SUBSET Workers]
    /\ children \in [Hosts -> SUBSET Workers]
    /\ waiter \in [Hosts -> {"none", "joining", "waiting", "releasing",
                             "freeing", "done"}]
    /\ disposed \in [Hosts -> BOOLEAN]

\* A running child is registered, or its worker is about to register it.
ChildInv ==
    \A h \in Hosts : main[h] # "crashed" =>
        \A w \in alive[h] : w \in children[h] \/ worker[h][w] = "spawned"

\* Only the holder of the guard works or can be given work.
GuardInv ==
    \A h \in Hosts : guard # h =>
        /\ main[h] \notin {"starting", "up"}
        /\ http[h] # "running"
        /\ Idle(h)
        /\ accepting[h] => main[h] = "off" /\ http[h] = "none"

\* A thread about to close the handle has seen that all work is over, and
\* what is over stays so once admission is closed.
ReleaseInv ==
    \A h \in Hosts :
        /\ main[h] \in Stopping \cup {"raised", "exited", "crashed"} => ~accepting[h]
        /\ main[h] \in {"waiting", "releasing", "freeing"} => http[h] # "running"
        /\ waiter[h] # "none" =>
             ~accepting[h] /\ main[h] \notin {"off", "starting", "up"}
        /\ main[h] = "freeing" \/ waiter[h] = "freeing" =>
             /\ http[h] # "running"
             /\ Idle(h)
        /\ main[h] = "off" => http[h] = "none"
        /\ disposed[h] => ~accepting[h] /\ Registered(h) = {}

\* While a process holds the guard, one of its threads is on its way to close
\* the handle or still serves, and none that will look again finds work.
Keeping == {"joining", "waiting", "releasing", "freeing"}
KeeperInv ==
    \A h \in Hosts :
        /\ guard = h => \/ main[h] \in {"starting", "up"} \cup Stopping
                        \/ waiter[h] \in Keeping
        /\ main[h] = "releasing" \/ waiter[h] = "releasing" => LooksAgain(h)
        /\ waiter[h] = "done" => guard # h
        /\ main[h] = "crashed" => waiter[h] = "none"
        /\ waiter[h] = "waiting" => http[h] # "running"
        /\ main[h] \in {"off", "starting"} /\ http[h] = "none" => accepting[h]

IInv == TypeOK /\ ChildInv /\ GuardInv /\ ReleaseInv /\ KeeperInv

-----------------------------------------------------------------------------
(* ProtectedShutdown implements InstanceContract *)

StageOf(h) ==
    IF main[h] = "off" THEN "new"
    ELSE IF main[h] = "crashed" THEN "dead"
    ELSE IF accepting[h] THEN "open" ELSE "closed"

Contract == INSTANCE InstanceContract
    WITH owner <- guard, stage <- [h \in Hosts |-> StageOf(h)],
         working <- {h \in Hosts : Busy(h)}

\* To the other processes a stop is one release of the guard, whichever of the
\* server thread, the workers, the children and the two waits end in what order.
ImplementsContract == Contract!ContractSpec
=============================================================================
